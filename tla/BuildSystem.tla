----------------------------- MODULE BuildSystem -----------------------------
(***************************************************************************)
(* RKit_Build/BuildSystemInstance.cpp: the incremental build.  A process   *)
(* loads the cache, checks which nodes of the dependency graph are still   *)
(* up to date and analyses the ones that are not, which tells what they    *)
(* depend on; orders the nodes; compiles what is out of date, dependencies *)
(* first; exports the catalog; copies content that is addressed by its     *)
(* hash; and saves the cache.  Sources may be edited at any time and the   *)
(* process may be killed between any two accesses to the disk.             *)
(*                                                                         *)
(* Abstractions.  A deps file lists nodes.  A leaf is compiled from its    *)
(* source alone, as CopyFileCompiler does.  An asset stands for the node   *)
(* types of Anox_Build, and does what they do between them: its source     *)
(* lists what it uses.  The data of a file is what it was made from and a  *)
(* content ID is the content.  A status, which in the code is a size and a *)
(* time, is new after each write.  Lookups of different files that nothing *)
(* comes between are one step.  Memory exhaustion, malformed files and     *)
(* failed writes are left out, and so is the instance of the cache file    *)
(* that the header does not name, which nothing reads.                     *)
(***************************************************************************)
EXTENDS Naturals, Sequences, FiniteSets, SequencesExt

CONSTANTS
  DepsNodes, Assets, Leaves,
  Root,             \* the deps node the build is asked for
  Listing,          \* the other nodes, in the order a directory is listed in
  Texts,            \* what the source of each node may hold
  FirstTexts,       \* what it holds at first
  OptionalTexts,    \* what the file that an asset uses if there is one may hold
  Wildcard,         \* the text of a deps file that names all files of the directory
  Absent,           \* there is no such file
  Partial,          \* the data of a file whose writer has not closed it
  None,
  MaxBuilds,        \* bound on the processes
  MaxDisturbances,  \* bound on what happens beside them
  MaxEvents         \* bound on both together

Nodes == DepsNodes \cup Assets \cup Leaves

ASSUME BuildSystemAssumption ==
  /\ Root \in DepsNodes /\ IsFiniteSet(Nodes)
  /\ DepsNodes \cap Assets = {} /\ DepsNodes \cap Leaves = {} /\ Assets \cap Leaves = {}
  /\ Listing \in Seq(Nodes)
  /\ \A n \in Nodes : FirstTexts[n] \subseteq Texts[n]

(* The last file is the one with the empty path, which never exists.       *)
Source(n) == <<"source", n>>
Optional(n) == <<"optional", n>>
Analysis(n) == <<"analysis", n>>
Product(n) == <<"product", n>>
NoFile == <<"no path", Root>>

(* What an asset's source may name: products of leaves, sources, the file  *)
(* it can do without, and deps files.                                      *)
Items(n) == {Product(m) : m \in Leaves} \cup {Source(m) : m \in Nodes} \cup {Optional(n)}
            \cup {<<"deps", m>> : m \in DepsNodes}

(* What the files that the build makes may hold: the version of a compiler *)
(* and what it made them from, which no absent or unclosed file is.        *)
MadeFrom(S) == {1, 2} \X Seq(S)
AnyText == (UNION {Texts[n] : n \in Nodes}) \cup OptionalTexts
LeafData == MadeFrom(AnyText)
MadeData == MadeFrom(AnyText \cup LeafData) \cup MadeFrom(UNION {Items(n) : n \in Assets})

ASSUME TextsAssumption ==
  /\ \A n \in Assets : Texts[n] \subseteq Seq(Items(n))
  /\ \A n \in DepsNodes : Texts[n] \subseteq Seq(Nodes) \cup {Wildcard}
  /\ Wildcard \notin Seq(Nodes)
  /\ None \notin Nodes /\ None \notin Seq(Nodes)
  /\ \A n \in Nodes : {Absent, Partial} \cap (Texts[n] \cup OptionalTexts) = {}
  /\ {Absent, Partial} \cap MadeData = {}
  /\ Absent # Partial

Edited == {Source(n) : n \in Nodes} \cup {Optional(n) : n \in Assets}
Made == {Analysis(n) : n \in Assets} \cup {Product(n) : n \in Assets \cup Leaves}
Files == Edited \cup Made \cup {NoFile}

VARIABLES
  \* what outlives a process
  file,      \* the data and the status of each file
  content,   \* the data stored under each content ID
  catalog,   \* the products of the assets, as they were last exported
  cache,     \* the cache file: where its active instance is, what it holds, whether it is whole
  version,   \* the version of each node's compiler
  \* the process
  node,      \* the nodes, with what the cache keeps of each
  run,       \* the rest of the process's memory
  past       \* bounds, and what happened before

disk == <<file, content, catalog, cache, version>>
bsVars == <<disk, node, run, past>>

NoFiles == [inputs |-> <<>>, products |-> <<>>]
NewNode == [state |-> "unanalyzed", version |-> 0, analysis |-> NoFiles, compile |-> NoFiles,
            cas |-> {}, scan |-> None, deps |-> <<>>]

NoWork == [node |-> None, stage |-> "none", todo |-> <<>>, open |-> FALSE, created |-> FALSE,
           items |-> <<>>, made |-> <<>>]
WorkOn(n, stage, todo) == [NoWork EXCEPT !.node = n, !.stage = stage, !.todo = todo]

NoRun == [pc |-> "idle", phase |-> [n \in Nodes |-> "none"],
          compiled |-> {}, stack |-> <<>>, relevant |-> <<>>, at |-> 0, cached |-> <<>>,
          scan |-> None, source |-> <<>>, work |-> NoWork, copy |-> None, pending |-> None]

(* The header has length 1, and no instance is there.                      *)
NoCache == [pos |-> 0, nodes |-> <<>>, whole |-> TRUE, length |-> 1]

-----------------------------------------------------------------------------
(* What the steps are made of.                                             *)

(* The elements of a sequence that are in S.                               *)
Among(s, S) ==
  LET among[i \in 0..Len(s)] ==
        IF i = 0 THEN <<>>
        ELSE IF s[i] \in S THEN Append(among[i - 1], s[i]) ELSE among[i - 1]
  IN  among[Len(s)]

(* A map with one more entry.                                              *)
With(f, x, v) == [y \in DOMAIN f \cup {x} |-> IF y = x THEN v ELSE f[y]]

(* A written file has a status that is recorded nowhere.                   *)
RecordedFor(f) ==
  LET of(x) == {e.status : e \in {e \in ToSet(x.analysis.inputs \o x.analysis.products \o
                                              x.compile.inputs \o x.compile.products) :
                                  e.file = f}}
  IN  (UNION ({of(node[n]) : n \in Nodes}
              \cup {of(cache.nodes[n]) : n \in DOMAIN cache.nodes}))
      \cup {run.cached[g] : g \in {f} \cap DOMAIN run.cached} \cup {0, file[f].status}

NewStatus(f) == Min(0..Cardinality(RecordedFor(f)) \ RecordedFor(f))

Missing == [status |-> 0, data |-> Absent]
Status(f) == file[f].status
Written(f, data) == [file EXCEPT ![f] = [status |-> NewStatus(f), data |-> data]]

(* ResolveFileStatus, which looks at a file once in a process.             *)
Resolve(f) == IF f \in DOMAIN run.cached THEN run.cached[f] ELSE Status(f)
Resolved(fs) == [f \in DOMAIN run.cached \cup fs |-> Resolve(f)]

(* ResolveDirectoryScan                                                    *)
InDirectory == Among(Listing, {n \in Nodes : file[Source(n)].data # Absent})
Scan == IF run.scan # None THEN run.scan
        ELSE InDirectory

(* FindOrAddProduct, AddFileDependency                                     *)
Recorded(list, f, s) ==
  IF \E i \in DOMAIN list : list[i].file = f
  THEN [i \in DOMAIN list |-> IF list[i].file = f THEN [file |-> f, status |-> s] ELSE list[i]]
  ELSE Append(list, [file |-> f, status |-> s])

(* A list after the first i files have been recorded in it.                *)
AllRecorded(list, files) ==
  LET after[i \in 0..Len(files)] ==
        IF i = 0 THEN list ELSE Recorded(after[i - 1], files[i], Resolve(files[i]))
  IN  after[Len(files)]

SetState(x, s) ==
  [x EXCEPT !.state = s,
            !.compile = IF s = "current" THEN @ ELSE NoFiles,
            !.analysis = IF s = "unanalyzed" THEN NoFiles ELSE @,
            !.deps = IF s = "unanalyzed" THEN <<>> ELSE @]

(* The process ends: it exits, fails or is killed.                         *)
Ends(how) ==
  /\ run' = NoRun
  /\ node' = [n \in Nodes |-> NewNode]
  /\ past' = [past EXCEPT !.result = how]

Top == Last(run.stack)
AtTop(n, phase) == run.pc = "check" /\ run.stack # <<>> /\ n = Top /\ run.phase[n] = phase

-----------------------------------------------------------------------------
(* LoadCache, AddRootNode, and Build up to the check of the graph.         *)
Begin ==
  /\ run.pc = "idle" /\ past.builds < MaxBuilds /\ past.builds + past.disturbances < MaxEvents
  /\ node' = [n \in Nodes |-> IF n \in DOMAIN cache.nodes THEN cache.nodes[n] ELSE NewNode]
  /\ run' = [NoRun EXCEPT !.pc = "check", !.relevant = <<Root>>, !.stack = <<Root>>,
                          !.phase[Root] = "files"]
  /\ past' = [past EXCEPT !.builds = @ + 1, !.result = "none",
                          !.touched = IF @ = "during" THEN "before" ELSE @]
  /\ UNCHANGED disk

-----------------------------------------------------------------------------
(* ProcessTopDepCheck                                                      *)

Stale(n, stage) ==
  LET list == node[n][stage].inputs \o node[n][stage].products
  IN  SelectInSeq(list, LAMBDA e : Resolve(e.file) # e.status)

(* The files whose status is looked up: those up to the first stale one.   *)
Examined(n, stage) ==
  LET list == node[n][stage].inputs \o node[n][stage].products
  IN  {list[i].file : i \in 1..(IF Stale(n, stage) = 0 THEN Len(list) ELSE Stale(n, stage))}

(* CheckNodeFilesAndVersion, and the analysis if there is to be one.       *)
CheckFiles(n) ==
  LET upToDate == node[n].version = version[n]
      checksCompile == upToDate /\ node[n].state = "current"
      checksAnalysis == upToDate /\ node[n].state # "unanalyzed"
      scans == checksAnalysis /\ Stale(n, "analysis") = 0 /\ node[n].scan # None
      recompile == checksCompile /\ \/ Stale(n, "compile") # 0
                                    \/ \E id \in node[n].cas : id \notin DOMAIN content
      reanalyse == \/ ~checksAnalysis \/ Stale(n, "analysis") # 0
                   \/ scans /\ Scan # node[n].scan
      looked == [run EXCEPT
                   !.scan = IF scans THEN Scan ELSE @,
                   !.cached = Resolved(
                     (IF checksCompile THEN Examined(n, "compile") ELSE {})
                     \cup (IF checksAnalysis THEN Examined(n, "analysis") ELSE {}))]
  IN  /\ AtTop(n, "files")
      /\ IF reanalyse /\ n \notin Leaves
         THEN /\ node' = [node EXCEPT ![n] =
                            [SetState(@, "unanalyzed") EXCEPT !.version = version[n]]]
              /\ run' = [looked EXCEPT !.pc = "work", !.phase[n] = "enumerate",
                           !.work = WorkOn(n, "analysis", <<Source(n)>>)]
         ELSE /\ node' = [node EXCEPT ![n] =
                            IF reanalyse THEN SetState(SetState(@, "unanalyzed"), "uncompiled")
                            ELSE IF recompile THEN SetState(@, "uncompiled") ELSE @]
              /\ run' = [looked EXCEPT !.phase[n] = "nodes"]
      /\ UNCHANGED <<disk, past>>

(* CheckNodeNodeDependencies.  The dependencies before m_checkNodeIndex    *)
(* are those that were found completed or were completed since.            *)
NextDependency(n) == SelectInSeq(node[n].deps, LAMBDA d : run.phase[d] # "completed")

(* Mutant: whatever has become of it since.                                *)
ChecksAgain(n) ==
  LET d == node[n].deps[NextDependency(n)]
  IN  /\ AtTop(n, "nodes") /\ NextDependency(n) # 0
      /\ run' = [run EXCEPT !.relevant = Append(@, d), !.stack = Append(@, d),
                            !.phase[d] = "files"]
      /\ UNCHANGED <<disk, node, past>>

CheckDependency(n) ==
  LET d == node[n].deps[NextDependency(n)]
  IN  /\ AtTop(n, "nodes") /\ NextDependency(n) # 0
      /\ run.phase[d] = "none"
      /\ run' = [run EXCEPT !.relevant = Append(@, d), !.stack = Append(@, d),
                            !.phase[d] = "files"]
      /\ UNCHANGED <<disk, node, past>>

(* Mutant: the circle is reported and the build goes on.                   *)
OnlyWarns(n) ==
  /\ AtTop(n, "nodes") /\ NextDependency(n) # 0
  /\ run.phase[node[n].deps[NextDependency(n)]] # "none"
  /\ run' = [run EXCEPT !.phase[n] = "completed", !.stack = Front(@)]
  /\ UNCHANGED <<disk, node, past>>

CircularDependency(n) ==
  /\ AtTop(n, "nodes") /\ NextDependency(n) # 0
  /\ run.phase[node[n].deps[NextDependency(n)]] # "none"
  /\ Ends("circular")
  /\ UNCHANGED disk

(* Mutant: the states of the dependencies are not looked at again.         *)
NeverDemotes(n) ==
  /\ AtTop(n, "nodes") /\ NextDependency(n) = 0
  /\ run' = [run EXCEPT !.phase[n] = "completed", !.stack = Front(@)]
  /\ UNCHANGED <<disk, node, past>>

DependenciesChecked(n) ==
  /\ AtTop(n, "nodes") /\ NextDependency(n) = 0
  /\ run' = [run EXCEPT !.phase[n] = "completed", !.stack = Front(@)]
  /\ node' = IF \E d \in ToSet(node[n].deps) : node[d].state # "current"
             THEN [node EXCEPT ![n] = SetState(@, "uncompiled")] ELSE node
  /\ UNCHANGED <<disk, past>>

(* StratifyRelevantNodes: a node's stratum is the last one it is found in. *)
FoundIn ==
  LET found[i \in 0..Cardinality(Nodes)] ==
        IF i = 0 THEN {Root} ELSE UNION {ToSet(node[n].deps) : n \in found[i - 1]}
  IN  found

(* Mutant: it is the first one.                                            *)
FirstStratum(n) == Min({j \in DOMAIN FoundIn : n \in FoundIn[j]})

Stratum(n) == Max({j \in DOMAIN FoundIn : n \in FoundIn[j]})

(* By stratum, and in a stratum in the order in which they were found.     *)
Before(m, n) ==
  \/ Stratum(m) < Stratum(n)
  \/ /\ Stratum(m) = Stratum(n)
     /\ \E i, j \in DOMAIN run.relevant : i < j /\ run.relevant[i] = m /\ run.relevant[j] = n

Stratified ==
  CHOOSE s \in [DOMAIN run.relevant -> ToSet(run.relevant)] :
    \A i, j \in DOMAIN s : i < j => Before(s[i], s[j])

Stratify ==
  /\ run.pc = "check" /\ run.stack = <<>>
  /\ run' = [run EXCEPT !.pc = "compile", !.relevant = Stratified]
  /\ UNCHANGED <<disk, node, past>>

-----------------------------------------------------------------------------
(* The compile loop of Build, which goes from the last node to the first.  *)

NextNode == run.relevant[Len(run.relevant) - run.at]
AtCompile == run.pc = "compile" /\ run.at < Len(run.relevant)

NotCompiledAgain ==
  /\ AtCompile /\ node[NextNode].state # "uncompiled"
  /\ run' = [run EXCEPT !.at = @ + 1]
  /\ UNCHANGED <<disk, node, past>>

(* DepsNodeCompiler::RunCompile does nothing.                              *)
CompileDepsNode ==
  /\ AtCompile /\ node[NextNode].state = "uncompiled" /\ NextNode \in DepsNodes
  /\ node' = [node EXCEPT ![NextNode] =
                 [SetState(@, "current") EXCEPT !.version = version[NextNode]]]
  /\ run' = [run EXCEPT !.at = @ + 1, !.compiled = @ \cup {NextNode}]
  /\ UNCHANGED <<disk, past>>

StartCompile ==
  /\ AtCompile /\ node[NextNode].state = "uncompiled" /\ NextNode \notin DepsNodes
  /\ node' = [node EXCEPT ![NextNode].version = version[NextNode]]
  /\ run' = [run EXCEPT !.pc = "work",
                        !.work = WorkOn(NextNode, "compile",
                                        IF NextNode \in Leaves THEN <<Source(NextNode)>>
                                        ELSE <<Analysis(NextNode)>>)]
  /\ UNCHANGED <<disk, past>>

-----------------------------------------------------------------------------
(* The work of a node's compiler, through its feedback interface.          *)

Work == run.work
Reading == Head(Work.todo)

(* TryOpenInput up to the opening of the file.  The status of a file that  *)
(* does not exist has an empty path.                                       *)
OpenInput ==
  LET f == Reading
      recorded == IF Resolve(f) = 0 THEN NoFile ELSE f
  IN  /\ run.pc = "work" /\ Work.todo # <<>> /\ ~Work.open
      /\ run' = [run EXCEPT !.work.open = TRUE, !.cached = Resolved({f})]
      /\ node' = [node EXCEPT ![Work.node][Work.stage].inputs = Recorded(@, recorded, Resolve(f))]
      /\ UNCHANGED <<disk, past>>

Reads(n, f) ==
  /\ run.pc = "work" /\ Work.node = n /\ Work.open
  /\ Reading = f /\ file[f].data \notin {Absent, Partial}
DoneReading(then) == [run EXCEPT !.work = [then EXCEPT !.open = FALSE]]

(* The file is not there, or it is not whole.                              *)
CannotRead ==
  LET f == Reading
  IN  /\ run.pc = "work" /\ Work.open
      /\ \/ file[f].data = Partial
         \/ file[f].data = Absent /\ ~(Work.stage = "analysis" /\ f = Optional(Work.node))
      /\ Ends("input")
      /\ UNCHANGED disk

WorkDone(x, cached) ==
  LET n == Work.node
  IN  IF Work.stage = "analysis"
      THEN /\ node' = [node EXCEPT ![n] = SetState(x, "uncompiled")]
           /\ run' = [run EXCEPT !.pc = "check", !.work = NoWork, !.cached = cached,
                                 !.phase[n] = "nodes"]
      ELSE /\ node' = [node EXCEPT ![n] = SetState(x, "current")]
           /\ run' = [run EXCEPT !.pc = "compile", !.work = NoWork, !.cached = cached,
                                 !.at = @ + 1, !.compiled = @ \cup {n}]

AllRead == run.pc = "work" /\ Work.todo = <<>> /\ ~Work.created
Output == IF Work.stage = "analysis" THEN Analysis(Work.node) ELSE Product(Work.node)

(* DepsNodeCompiler::RunAnalysis lists the files, and asks of each whether *)
(* it exists.  CheckInputExists keeps the path of a file that does not.    *)
ReadDepsFile(n) ==
  LET text == file[Source(n)].data
      names == IF text = Wildcard THEN Scan ELSE text
  IN  /\ n \in DepsNodes /\ Reads(n, Source(n))
      /\ node' = [node EXCEPT ![n].scan = IF text = Wildcard THEN Scan ELSE @]
      /\ run' = [DoneReading([Work EXCEPT !.todo = <<>>, !.made = <<text>>, !.items = names]) EXCEPT
                   !.scan = IF text = Wildcard THEN Scan ELSE @]
      /\ UNCHANGED <<disk, past>>

ListedFiles == [i \in DOMAIN Work.items |-> Source(Work.items[i])]
ListedFileGone == Work.made = <<Wildcard>> /\ \E f \in ToSet(ListedFiles) : Resolve(f) = 0

DepsFileAnalysed ==
  LET n == Work.node
  IN  /\ AllRead /\ n \in DepsNodes /\ ~ListedFileGone
      /\ WorkDone([node[n] EXCEPT
                     !.deps = Work.items,
                     !.analysis.inputs = AllRecorded(@, ListedFiles)],
                  Resolved(ToSet(ListedFiles)))
      /\ UNCHANGED <<disk, past>>

ListedButGone ==
  /\ AllRead /\ Work.node \in DepsNodes /\ ListedFileGone
  /\ Ends("input")
  /\ UNCHANGED disk

(* The analysis of an asset reads what it uses, tries the file it can do   *)
(* without, and depends on the nodes it uses.                              *)
Of(kinds, items) == Among(items, {i \in ToSet(items) : i[1] \in kinds})
NodesOf(items) ==
  LET uses == Of({"product", "deps"}, items)
  IN  [i \in DOMAIN uses |-> uses[i][2]]

ReadAssetSource(n) ==
  LET items == file[Source(n)].data
  IN  /\ n \in Assets /\ Work.stage = "analysis" /\ Reads(n, Source(n))
      /\ node' = [node EXCEPT ![n].deps = NodesOf(items)]
      /\ run' = DoneReading([Work EXCEPT !.todo = Of({"optional"}, items), !.items = items])
      /\ UNCHANGED <<disk, past>>

TryOptional(n) ==
  LET there == file[Optional(n)].data # Absent
  IN  /\ n \in Assets /\ run.pc = "work" /\ Work.node = n /\ Work.stage = "analysis"
      /\ Work.open /\ Reading = Optional(n)
      /\ run' = DoneReading([Work EXCEPT !.todo = Tail(@),
                               !.items = IF there THEN @
                                         ELSE Of({"source", "product", "deps"}, @)])
      /\ UNCHANGED <<disk, node, past>>

(* The compilation of an asset reads the analysis file and then each file  *)
(* that this names.                                                        *)
FilesIn(items) == Of({"source", "product", "optional"}, items)

ReadAnalysis(n) ==
  LET items == file[Analysis(n)].data[2]
  IN  /\ n \in Assets /\ Work.stage = "compile" /\ Reads(n, Analysis(n))
      /\ run' = DoneReading([Work EXCEPT !.todo = FilesIn(items)])
      /\ UNCHANGED <<disk, node, past>>

(* IndexCAS, which makes the ID of what it reads, and RegisterCASSource.   *)
(* Mutant: the source is not registered.                                   *)
IndexOnly(n) ==
  LET id == file[Reading].data
  IN  /\ n \in Assets /\ Work.stage = "compile"
      /\ Reads(n, Reading) /\ Reading # Analysis(n)
      /\ node' = [node EXCEPT ![n].cas = @ \cup {id}]
      /\ run' = DoneReading([Work EXCEPT !.todo = Tail(@), !.made = Append(@, id)])
      /\ UNCHANGED <<disk, past>>

IndexCAS(n) ==
  LET id == file[Reading].data
  IN  /\ n \in Assets /\ Work.stage = "compile"
      /\ Reads(n, Reading) /\ Reading # Analysis(n)
      /\ node' = [node EXCEPT ![n].cas = @ \cup {id}]
      /\ run' = [DoneReading([Work EXCEPT !.todo = Tail(@), !.made = Append(@, id)]) EXCEPT
                   !.source = IF id \in DOMAIN @ THEN @ ELSE With(@, id, Reading)]
      /\ UNCHANGED <<disk, past>>

ReadLeaf(n) ==
  /\ n \in Leaves /\ Reads(n, Source(n))
  /\ run' = DoneReading([Work EXCEPT !.todo = <<>>, !.made = <<file[Source(n)].data>>])
  /\ UNCHANGED <<disk, node, past>>

(* OpenOutput, which empties the file.                                     *)
CreateOutput ==
  /\ AllRead /\ Work.node \notin DepsNodes
  /\ file' = Written(Output, Partial)
  /\ node' = [node EXCEPT ![Work.node][Work.stage].products = Recorded(@, Output, 0)]
  /\ run' = [run EXCEPT !.work.created = TRUE]
  /\ UNCHANGED <<content, catalog, cache, version, past>>

(* The file is written and closed; then MarkOutputFileFinished looks its   *)
(* status up, whatever was known of it before.                             *)
(* Mutant: the status that is known of the file is taken.                  *)
StatusKnown == Resolve(Output)

StatusAtClose == NewStatus(Output)

CloseOutput ==
  LET data == IF Work.stage = "analysis" THEN Work.items ELSE Work.made
  IN  /\ run.pc = "work" /\ Work.created
      /\ file' = Written(Output, <<version[Work.node], data>>)
      /\ WorkDone([node[Work.node] EXCEPT
                     ![Work.stage].products = Recorded(@, Output, StatusAtClose)],
                  With(run.cached, Output, StatusAtClose))
      /\ UNCHANGED <<content, catalog, cache, version, past>>

-----------------------------------------------------------------------------
(* The end of Build: catalog, content and cache.                           *)

(* ExportScriptCatalog                                                     *)
Exported == ToSet(run.relevant) \cap Assets
AllCompiled == run.pc = "compile" /\ run.at = Len(run.relevant)
ExportNeeded == run.compiled \cap Exported # {}

NothingToExport ==
  /\ AllCompiled /\ ~ExportNeeded
  /\ run' = [run EXCEPT !.pc = "content"]
  /\ UNCHANGED <<disk, node, past>>

CreateCatalog ==
  /\ AllCompiled /\ ExportNeeded
  /\ catalog' = Partial
  /\ run' = [run EXCEPT !.pc = "catalog"]
  /\ past' = [past EXCEPT !.torn = TRUE]
  /\ UNCHANGED <<file, content, cache, version, node>>

WriteCatalog ==
  /\ run.pc = "catalog"
  /\ catalog' = [a \in Exported |-> file[Product(a)].data]
  /\ run' = [run EXCEPT !.pc = "content"]
  /\ UNCHANGED <<file, content, cache, version, node, past>>

(* UpdateCAS: a copy is made beside the content and moved into its place.  *)
Wanted == (UNION {node[n].cas : n \in ToSet(run.relevant)}) \ DOMAIN content
HasSource(id) == id \in DOMAIN run.source /\ file[run.source[id]].data # Absent

CopyContent(id) ==
  /\ run.pc = "content" /\ run.copy = None /\ id \in Wanted /\ HasSource(id)
  /\ run' = [run EXCEPT !.copy = <<id, file[run.source[id]].data>>]
  /\ UNCHANGED <<disk, node, past>>

MoveContent ==
  /\ run.pc = "content" /\ run.copy # None
  /\ content' = With(content, run.copy[1], run.copy[2])
  /\ run' = [run EXCEPT !.copy = None]
  /\ UNCHANGED <<file, catalog, cache, version, node, past>>

NoContentSource(id) ==
  /\ run.pc = "content" /\ run.copy = None /\ id \in Wanted /\ ~HasSource(id)
  /\ Ends("content")
  /\ UNCHANGED disk

(* SaveCache: the new instance goes where the old one is not, before or    *)
(* behind it, and the header then names it.                                *)
SizeOf(nodes) == Cardinality(DOMAIN nodes)
(* Mutant: the two instances always share a place.                         *)
WritesBefore(size) == TRUE

CanWriteBefore(size) == cache.pos < 1 \/ cache.pos - 1 >= size

(* Mutant: the cache is saved before the content is stored.                *)
AnyTime == run.pc = "content" /\ run.copy = None

ReadyToSave == run.pc = "content" /\ run.copy = None /\ Wanted = {}

WriteInstance ==
  LET nodes == [n \in Nodes \cap ToSet(run.relevant) |-> node[n]]
      size == SizeOf(nodes)
      pos == IF CanWriteBefore(size) THEN 1 ELSE cache.length
      overwrites == pos < cache.pos + SizeOf(cache.nodes) /\ cache.pos < pos + size
  IN  /\ ReadyToSave
      /\ cache' = [cache EXCEPT !.nodes = IF overwrites THEN <<>> ELSE @,
                                !.whole = @ /\ ~overwrites,
                                !.length = Max({@, pos + size})]
      /\ run' = [run EXCEPT !.pc = "save", !.pending = [pos |-> pos, nodes |-> nodes]]
      /\ UNCHANGED <<file, content, catalog, version, node, past>>

WriteHeader ==
  /\ run.pc = "save"
  /\ cache' = [cache EXCEPT !.pos = run.pending.pos, !.nodes = run.pending.nodes, !.whole = TRUE]
  /\ run' = NoRun /\ node' = [n \in Nodes |-> NewNode]
  /\ past' = [past EXCEPT !.result = "ok", !.touched = IF @ = "during" THEN @ ELSE "no",
                          !.torn = @ /\ ~ExportNeeded]
  /\ UNCHANGED <<file, content, catalog, version>>

Killed ==
  /\ run.pc # "idle"
  /\ Ends("killed")
  /\ UNCHANGED disk

-----------------------------------------------------------------------------
(* What happens beside the build.  past.touched is whether anything did    *)
(* since the last build that succeeded began.                              *)

Disturbs ==
  /\ past.disturbances < MaxDisturbances /\ past.builds + past.disturbances < MaxEvents
  /\ past' = [past EXCEPT !.disturbances = @ + 1,
                          !.touched = IF run.pc = "idle" THEN "before" ELSE "during",
                          !.raced = @ \/ run.pc # "idle",
                          !.removed = @ \/ content' # content]
  /\ UNCHANGED <<catalog, cache, node, run>>

MayHold(f) == IF f[1] = "optional" THEN OptionalTexts ELSE Texts[f[2]]

Edit(f) ==
  /\ \E text \in MayHold(f) \ {file[f].data} : file' = Written(f, text)
  /\ UNCHANGED <<content, version>>
  /\ Disturbs

(* A source can be removed at any time, what the build made between builds.*)
RemoveFile(f) ==
  /\ file[f].data # Absent /\ (f \in Made => run.pc = "idle")
  /\ file' = [file EXCEPT ![f] = Missing]
  /\ UNCHANGED <<content, version>>
  /\ Disturbs

RemoveContent(id) ==
  /\ run.pc = "idle" /\ id \in DOMAIN content
  /\ content' = [i \in DOMAIN content \ {id} |-> content[i]]
  /\ UNCHANGED <<file, version>>
  /\ Disturbs

(* The program is replaced by one whose compiler has a new version.        *)
Upgrade(n) ==
  /\ run.pc = "idle" /\ version[n] = 1
  /\ version' = [version EXCEPT ![n] = 2]
  /\ UNCHANGED <<file, content>>
  /\ Disturbs

-----------------------------------------------------------------------------
Init ==
  /\ \E first \in [Nodes -> UNION {FirstTexts[n] : n \in Nodes}] :
       /\ \A n \in Nodes : first[n] \in FirstTexts[n]
       /\ file = [f \in Files |-> IF f[1] = "source" THEN [status |-> 1, data |-> first[f[2]]]
                                  ELSE Missing]
  /\ content = <<>> /\ catalog = Absent /\ cache = NoCache
  /\ version = [n \in Nodes |-> 1]
  /\ node = [n \in Nodes |-> NewNode] /\ run = NoRun
  /\ past = [result |-> "none", touched |-> "before", raced |-> FALSE, removed |-> FALSE,
             torn |-> FALSE, builds |-> 0, disturbances |-> 0]

Checks ==
  \/ \E n \in Nodes : \/ CheckFiles(n) \/ CheckDependency(n) \/ CircularDependency(n)
                      \/ DependenciesChecked(n)
  \/ Stratify

Works ==
  \/ NotCompiledAgain \/ CompileDepsNode \/ StartCompile
  \/ OpenInput \/ CannotRead \/ DepsFileAnalysed \/ ListedButGone \/ CreateOutput \/ CloseOutput
  \/ \E n \in DepsNodes : ReadDepsFile(n)
  \/ \E n \in Assets : ReadAssetSource(n) \/ TryOptional(n) \/ ReadAnalysis(n) \/ IndexCAS(n)
  \/ \E n \in Leaves : ReadLeaf(n)

Finishes ==
  \/ NothingToExport \/ CreateCatalog \/ WriteCatalog
  \/ \E id \in Wanted : CopyContent(id) \/ NoContentSource(id)
  \/ MoveContent \/ WriteInstance \/ WriteHeader

Environment ==
  \/ \E f \in Edited : Edit(f) \/ RemoveFile(f)
  \/ \E f \in Made : RemoveFile(f)
  \/ \E id \in DOMAIN content : RemoveContent(id)
  \/ \E n \in Assets \cup Leaves : Upgrade(n)

Next == Begin \/ Checks \/ Works \/ Finishes \/ Killed \/ Environment

Spec == Init /\ [][Next]_bsVars

-----------------------------------------------------------------------------
(* Properties.                                                             *)

(* Node states, phases and pcs are those of the code, what is relevant is  *)
(* a list without duplicates, each node waits on the stack at most once,   *)
(* and the reading of a file is always some node's work.                   *)
BuildTypeOK ==
  /\ run.pc \in {"idle", "check", "work", "compile", "catalog", "content", "save"}
  /\ \A n \in Nodes : /\ node[n].state \in {"unanalyzed", "uncompiled", "current"}
                      /\ run.phase[n] \in {"none", "files", "enumerate", "nodes", "completed"}
  /\ IsInjective(run.relevant) /\ IsInjective(run.stack)
  /\ (run.pc = "work") = (Work.node # None)
  /\ Work.open => run.pc = "work" /\ Work.todo # <<>> /\ ~Work.created

(* What the sources say a node depends on, and what its products should be *)
(* made from.                                                              *)
ShouldDependOn(n) ==
  LET text == file[Source(n)].data
  IN  IF n \in Leaves THEN <<>>
      ELSE IF n \in Assets THEN NodesOf(text)
      ELSE IF text = Wildcard THEN InDirectory ELSE text

LeafProduct(n) == <<version[n], <<file[Source(n)].data>>>>
AssetProduct(n) ==
  LET names == IF file[Optional(n)].data = Absent THEN {"source", "product"}
               ELSE {"source", "product", "optional"}
      uses == Of(names, file[Source(n)].data)
  IN  <<version[n], [i \in DOMAIN uses |-> IF uses[i][1] = "product" THEN LeafProduct(uses[i][2])
                                           ELSE file[uses[i]].data]>>

(* A file was not there when its status was looked up, so that its path    *)
(* was not kept (TryOpenInput).                                            *)
Missed(x) == \E e \in ToSet(x.analysis.inputs \o x.compile.inputs) : e.file = NoFile

(* After a build that succeeded while nothing changed, whatever happened   *)
(* before it (edits during an earlier build, kills, lost products, new     *)
(* compilers), every node it built depends on what the sources now say,    *)
(* every product is the one that a build from nothing would make, and the  *)
(* catalog holds the products.  The exceptions are a node that missed a    *)
(* file, or uses the product of one that did, and a catalog that an        *)
(* earlier build wrote and did not get to save its cache.                  *)
FreshAfterBuild ==
  past.result = "ok" /\ past.touched = "no" =>
    \A n \in DOMAIN cache.nodes :
      \/ Missed(cache.nodes[n])
      \/ /\ cache.nodes[n].deps = ShouldDependOn(n)
         /\ n \in Leaves => file[Product(n)].data = LeafProduct(n)
         /\ n \in Assets => \/ \E d \in ToSet(cache.nodes[n].deps) : Missed(cache.nodes[d])
                            \/ /\ file[Product(n)].data = AssetProduct(n)
                               /\ past.torn \/ (n \in DOMAIN catalog /\ catalog[n] = AssetProduct(n))

(* When a node is compiled all it depends on is up to date, so that it     *)
(* reads products of this build.                                           *)
DependenciesFirst ==
  run.pc = "work" /\ Work.stage = "compile" =>
    \A d \in ToSet(node[Work.node].deps) : node[d].state = "current"

(* The build gives up on a circular dependency only if there is a circle,  *)
(* and never compiles when there is one.                                   *)
ReachedFrom(n) ==
  LET reached[i \in 0..Cardinality(Nodes)] ==
        IF i = 0 THEN ToSet(node[n].deps)
        ELSE reached[i - 1] \cup UNION {ToSet(node[m].deps) : m \in reached[i - 1]}
  IN  reached[Cardinality(Nodes)]

HasCircle == \E n \in ToSet(run.relevant) : n \in ReachedFrom(n)

CircularMeansCircle ==
  [][/\ past'.result = "circular" /\ past.result # "circular" => HasCircle
     /\ run.pc = "check" /\ run'.pc = "compile" => ~HasCircle]_bsVars

(* Killed where it may be, the process leaves a cache file whose header    *)
(* names an instance that was written to its end.                          *)
CacheIsWhole == cache.whole

(* After a build that succeeded, every content ID that a node has is in    *)
(* the content directory, and unless a source was edited during some build *)
(* the data that is stored there is the data with that ID.                 *)
ContentIsKept ==
  past.result = "ok" /\ past.touched # "before" =>
    \A n \in DOMAIN cache.nodes : \A id \in cache.nodes[n].cas :
      id \in DOMAIN content /\ (past.raced \/ content[id] = id)

(* A build that fails fails for what the user did.  A file could not be    *)
(* read: sources changed meanwhile, it is a source that is gone, or it is  *)
(* the file an asset can do without and the asset missed a file when it    *)
(* was analysed, so that its analysis was kept when that file went again.  *)
(* There was no source for content: content was removed from its directory.*)
FailsForAReason ==
  [][/\ past'.result = "input" /\ past.result # "input" =>
          \/ past.touched = "during"
          \/ /\ Work.open /\ file[Reading].data = Absent
             /\ \/ Reading[1] = "source"
                \/ /\ Reading[1] = "optional"
                   /\ \E e \in ToSet(node[Work.node].analysis.inputs) : e.file = NoFile
     /\ past'.result = "content" /\ past.result # "content" =>
          past.touched = "during" \/ past.removed]_bsVars

(* A build with nothing changed since one that succeeded analyses and      *)
(* compiles nothing, unless a deps file has no wildcard any more: the scan *)
(* that it once made is still compared.                                    *)
IdleBuildDoesNothing ==
  past.touched = "no" /\ run.pc # "idle"
    /\ (\A n \in DepsNodes : node[n].scan # None => file[Source(n)].data = Wildcard)
  => Work = NoWork /\ run.compiled = {}
=============================================================================
