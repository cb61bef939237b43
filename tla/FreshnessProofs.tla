---------------------------- MODULE FreshnessProofs ----------------------------
(***************************************************************************)
(* What holds of the incremental build when nothing happens beside it, on  *)
(* top of BuildSystemProofs:                                               *)
(*   - it knows how its files are, and what its nodes record agrees with   *)
(*     them (QuietInv);                                                    *)
(*   - a build with nothing changed since has nothing to do (CleanInv);    *)
(*   - what a node records of files tells what it was made from, as long   *)
(*     as the record agrees with them (TellsInv);                          *)
(*   - the catalog has the products that were saved (CatalogInv);          *)
(*   - a build leaves what a build from nothing would make;                *)
(*   - what a compiler has closed is data, and a file that a node records  *)
(*     as its product is whole (DataInv, WholeInv);                        *)
(*   - content that is wanted has a source (CasInv, ReasonInv), so that a  *)
(*     build fails for a reason.                                           *)
(***************************************************************************)
EXTENDS BuildSystemProofs

-----------------------------------------------------------------------------
(* What the steps of a compiler's work make of the node that it is for.    *)
OnlyChanges(n) == \A m \in Nodes : m # n => node'[m] = node[m]

(* Between two steps of the same work.                                     *)
WorkGoes(todo, open, created, items, made) ==
  /\ run.pc = "work" /\ run'.pc = "work" /\ Continues /\ Checked' = Checked /\ Completed' = Completed
  /\ Work'.node = Work.node /\ Work'.stage = Work.stage
  /\ Analysing' = Analysing /\ Compiling' = Compiling
  /\ Work'.todo = todo /\ Work'.open = open /\ Work'.created = created
  /\ Work'.items = items /\ Work'.made = made

LEMMA WorkGoesIf ==
  ASSUME Continues, NEW todo, NEW open, NEW created, NEW items, NEW made,
         run'.work.todo = todo, run'.work.open = open, run'.work.created = created,
         run'.work.items = items, run'.work.made = made
  PROVE  WorkGoes(todo, open, created, items, made)
<1>1. Checked' = Checked /\ Completed' = Completed
  BY DEF Continues, SameCourse, CourseKept, Checked, Completed
<1>2. Work'.node = Work.node /\ Work'.stage = Work.stage /\ run.pc = "work" /\ run'.pc = "work"
  BY DEF Continues, Work
<1>3. Analysing' = Analysing /\ Compiling' = Compiling
  BY <1>2 DEF Analysing, Compiling
<1> QED BY <1>1, <1>2, <1>3 DEF WorkGoes, Work

LEMMA OpenInputIs ==
  ASSUME BuildInv, RecordInv, OpenInput, NEW n \in Nodes, n = Work.node
  PROVE  /\ Work.todo # <<>> /\ ~Work.open /\ OnlyChanges(n)
         /\ WorkGoes(Work.todo, TRUE, Work.created, Work.items, Work.made)
         /\ disk' = disk /\ past' = past
         /\ run'.cached = Resolved({Reading}) /\ run'.scan = run.scan /\ run'.source = run.source
         /\ InputsSet(node[n], node'[n], Work.stage,
                      Recorded(node[n][Work.stage].inputs, PathKept, Resolve(Reading)))
<1> USE DEF BuildInv
<1> DEFINE stage == Work.stage
           new == Recorded(node[n][stage].inputs, PathKept, Resolve(Reading))
           x == [node[n] EXCEPT ![stage].inputs = new]
<1>1. /\ run.pc = "work" /\ Work.todo # <<>> /\ ~Work.open /\ disk' = disk /\ past' = past
      /\ run'.cached = Resolved({Reading}) /\ node' = [node EXCEPT ![n] = x]
      /\ run'.work = [Work EXCEPT !.open = TRUE] /\ run'.scan = run.scan /\ run'.source = run.source
  BY OpenInputSets
<1>2. IsNode(node[n]) /\ NodesOK /\ stage \in {"analysis", "compile"} /\ HasWork(Work)
  BY <1>1, WorkedNode DEF TypesInv, WorkOK
<1> HIDE DEF x, new
<1>3. InputsSet(node[n], x, stage, new)
  BY <1>2, SetInputs DEF x
<1>4. node'[n] = x /\ OnlyChanges(n)
  BY <1>1, <1>2, <1>3, OneNodeChanges DEF InputsSet, OnlyChanges
<1>5. /\ run'.work.todo = Work.todo /\ run'.work.open = TRUE /\ run'.work.created = Work.created
      /\ run'.work.items = Work.items /\ run'.work.made = Work.made
  BY <1>1, <1>2 DEF HasWork
<1>6. WorkGoes(Work.todo, TRUE, Work.created, Work.items, Work.made)
  BY <1>5, OpenInputSame, WorkGoesIf
<1> QED BY <1>1, <1>3, <1>4, <1>6 DEF new

LEMMA ReadDepsFileIs ==
  ASSUME BuildInv, RecordInv, NEW n \in DepsNodes, ReadDepsFile(n)
  PROVE  /\ n = Work.node /\ n \in Nodes /\ Work.open /\ Analysing /\ ~Compiling
         /\ Reading = Source(n) /\ Text(n) \in Texts[n]
         /\ OnlyChanges(n) /\ WorkGoes(<<>>, FALSE, Work.created, NamesIn(n), <<Text(n)>>)
         /\ disk' = disk /\ past' = past /\ run'.cached = run.cached /\ run'.source = run.source
         /\ run'.scan = (IF Text(n) = Wildcard THEN Scan ELSE run.scan)
         /\ ScanSet(node[n], node'[n], IF Text(n) = Wildcard THEN Scan ELSE node[n].scan)
<1> USE DEF BuildInv
<1> DEFINE scanned == IF Text(n) = Wildcard THEN Scan ELSE node[n].scan
           x == [node[n] EXCEPT !.scan = scanned]
<1>1. /\ run.pc = "work" /\ Work.node = n /\ Work.open /\ disk' = disk /\ past' = past
      /\ run'.cached = run.cached /\ node' = [node EXCEPT ![n] = x] /\ run'.pc = "work" /\ SameCourse
      /\ run'.source = run.source /\ run'.scan = (IF Text(n) = Wildcard THEN Scan ELSE run.scan)
      /\ WorkWith(run'.work, <<>>, NamesIn(n), <<Text(n)>>) /\ run'.work.open = FALSE
      /\ Reading = Source(n) /\ Text(n) \in Texts[n]
  BY ReadDepsFileSets
<1>2. Continues /\ run'.work.todo = <<>>
  BY <1>1 DEF Continues, WorkWith
<1>3. IsNode(node[n]) /\ NodesOK /\ n \in Nodes /\ Analysing /\ ~Compiling
  BY <1>1, WorkedNode
<1>4. scanned \in Seq(Nodes) \cup {None}
  BY <1>3, ScanIsNodes DEF IsNode
<1> HIDE DEF x, scanned
<1>5. ScanSet(node[n], x, scanned)
  BY <1>3, <1>4, SetScan DEF x
<1>6. node'[n] = x /\ OnlyChanges(n)
  BY <1>1, <1>3, <1>5, OneNodeChanges DEF ScanSet, OnlyChanges
<1>7. WorkGoes(<<>>, FALSE, Work.created, NamesIn(n), <<Text(n)>>)
  BY <1>1, <1>2, WorkGoesIf DEF WorkWith
<1> QED BY <1>1, <1>3, <1>5, <1>6, <1>7 DEF scanned

LEMMA ReadAssetSourceIs ==
  ASSUME BuildInv, RecordInv, NEW n \in Assets, ReadAssetSource(n)
  PROVE  /\ n = Work.node /\ n \in Nodes /\ Work.open /\ Analysing /\ ~Compiling
         /\ Reading = Source(n) /\ Text(n) \in Seq(Items(n))
         /\ OnlyChanges(n)
         /\ WorkGoes(Of({"optional"}, Text(n)), FALSE, Work.created, Text(n), Work.made)
         /\ disk' = disk /\ past' = past /\ run'.cached = run.cached /\ run'.source = run.source
         /\ run'.scan = run.scan /\ DepsSet(node[n], node'[n], NodesOf(Text(n)))
<1> USE DEF BuildInv
<1> DEFINE deps == NodesOf(Text(n))
           x == [node[n] EXCEPT !.deps = deps]
<1>1. /\ run.pc = "work" /\ Work.node = n /\ Work.open /\ disk' = disk /\ past' = past
      /\ run'.cached = run.cached /\ node' = [node EXCEPT ![n] = x] /\ run'.pc = "work" /\ SameCourse
      /\ run'.source = run.source /\ run'.scan = run.scan
      /\ WorkWith(run'.work, Of({"optional"}, Text(n)), Text(n), Work.made) /\ run'.work.open = FALSE
      /\ Reading = Source(n) /\ Text(n) \in Seq(Items(n)) /\ Work.stage = "analysis"
  BY ReadAssetSourceSets
<1>2. Continues
  BY <1>1 DEF Continues, WorkWith
<1>3. IsNode(node[n]) /\ NodesOK /\ n \in Nodes /\ Analysing /\ ~Compiling
  BY <1>1, WorkedNode DEF Analysing
<1>4. deps \in Seq(Nodes)
  BY <1>1, NodesOfIs
<1> HIDE DEF x, deps
<1>5. DepsSet(node[n], x, deps)
  BY <1>3, <1>4, SetDeps DEF x
<1>6. node'[n] = x /\ OnlyChanges(n)
  BY <1>1, <1>3, <1>5, OneNodeChanges DEF DepsSet, OnlyChanges
<1>7. WorkGoes(Of({"optional"}, Text(n)), FALSE, Work.created, Text(n), Work.made)
  BY <1>1, <1>2, WorkGoesIf DEF WorkWith
<1> QED BY <1>1, <1>3, <1>5, <1>6, <1>7 DEF deps

LEMMA OnlyReadsIs ==
  ASSUME NEW n, NEW todo, NEW items, NEW made, OnlyReads(n, todo, items, made)
  PROVE  /\ n = Work.node /\ Work.open /\ node' = node
         /\ WorkGoes(todo, FALSE, Work.created, items, made)
         /\ disk' = disk /\ past' = past /\ run'.cached = run.cached /\ run'.source = run.source
         /\ run'.scan = run.scan
<1>1. Continues
  BY OnlyReadsSame
<1>2. WorkGoes(todo, FALSE, Work.created, items, made)
  BY <1>1, WorkGoesIf DEF OnlyReads, WorkWith
<1> QED BY <1>2 DEF OnlyReads

LEMMA IndexCASIs ==
  ASSUME BuildInv, RecordInv, NEW n \in Assets, IndexCAS(n)
  PROVE  /\ n = Work.node /\ n \in Nodes /\ Work.open /\ Compiling /\ ~Analysing
         /\ Reading # Analysis(n) /\ file[Reading].data \notin {Absent, Partial}
         /\ OnlyChanges(n)
         /\ WorkGoes(Tail(Work.todo), FALSE, Work.created, Work.items,
                     Append(Work.made, file[Reading].data))
         /\ disk' = disk /\ past' = past /\ run'.cached = run.cached
         /\ run'.source = SourceNoted(file[Reading].data)
         /\ run'.scan = run.scan /\ CASSet(node[n], node'[n], node[n].cas \cup {file[Reading].data})
<1> USE DEF BuildInv
<1> DEFINE cas == node[n].cas \cup {file[Reading].data}
           x == [node[n] EXCEPT !.cas = cas]
<1>1. /\ run.pc = "work" /\ Work.node = n /\ Work.open /\ disk' = disk /\ past' = past
      /\ run'.cached = run.cached /\ node' = [node EXCEPT ![n] = x] /\ run'.pc = "work" /\ SameCourse
      /\ run'.source = SourceNoted(file[Reading].data) /\ run'.scan = run.scan
      /\ WorkWith(run'.work, Tail(Work.todo), Work.items, Append(Work.made, file[Reading].data))
      /\ run'.work.open = FALSE
      /\ Reading # Analysis(n) /\ file[Reading].data \notin {Absent, Partial} /\ Work.stage = "compile"
  BY IndexCASSets
<1>2. Continues
  BY <1>1 DEF Continues, WorkWith
<1>3. IsNode(node[n]) /\ NodesOK /\ n \in Nodes /\ Compiling /\ ~Analysing
  BY <1>1, WorkedNode DEF Compiling
<1> HIDE DEF x, cas
<1>5. CASSet(node[n], x, cas)
  BY <1>3, SetCAS DEF x
<1>6. node'[n] = x /\ OnlyChanges(n)
  BY <1>1, <1>3, <1>5, OneNodeChanges DEF CASSet, OnlyChanges
<1>7. WorkGoes(Tail(Work.todo), FALSE, Work.created, Work.items, Append(Work.made, file[Reading].data))
  BY <1>1, <1>2, WorkGoesIf DEF WorkWith
<1> QED BY <1>1, <1>3, <1>5, <1>6, <1>7 DEF cas

LEMMA StartCompileIs ==
  ASSUME BuildInv, RecordInv, StartCompile, NEW n, n = NextNode
  PROVE  /\ n \in Nodes /\ n \notin DepsNodes /\ n \in Found /\ node[n].state = "uncompiled"
         /\ run.pc = "compile" /\ ~Checking /\ run'.pc = "work" /\ Compiling' /\ ~Analysing'
         /\ run'.work.node = n /\ run'.work.open = FALSE /\ run'.work.created = FALSE
         /\ run'.work.todo = (IF n \in Leaves THEN <<Source(n)>> ELSE <<Analysis(n)>>)
         /\ run'.work.made = <<>>
         /\ disk' = disk /\ past' = past /\ CourseKept(run') /\ Checked' = Checked
         /\ run'.cached = run.cached /\ run'.scan = run.scan /\ run'.source = run.source
         /\ OnlyChanges(n) /\ VersionSet(node[n], node'[n], version[n])
         /\ node[n].compile = NoFiles /\ HasEntries(n, node[n])
<1> USE DEF BuildInv
<1> DEFINE x == [node[n] EXCEPT !.version = version[n]]
           todo == IF n \in Leaves THEN <<Source(n)>> ELSE <<Analysis(n)>>
<1>1. /\ run.pc = "compile" /\ node[n].state = "uncompiled" /\ n \notin DepsNodes
      /\ run.at < Len(run.relevant)
      /\ disk' = disk /\ past' = past /\ run'.cached = run.cached /\ run'.pc = "work"
      /\ run'.scan = run.scan /\ run'.source = run.source
      /\ node' = [node EXCEPT ![n] = x] /\ CourseKept(run')
      /\ run'.work = WorkOn(n, "compile", todo)
  BY StartCompileSets DEF CourseKept
<1>2. n \in Nodes /\ n \in Found
  BY <1>1, NextNodeIs, RelevantIs
<1>3. IsNode(node[n]) /\ NodeOK(n) /\ NodesOK /\ HasEntries(n, node[n])
  BY <1>2 DEF RecordInv, NodeRecordsOK, NodeOK, TypesInv, NodesOK
<1> HIDE DEF x
<1>4. VersionSet(node[n], x, version[n])
  BY <1>3, SetVersionIsNode DEF x
<1>5. node[n].compile = NoFiles
  BY <1>1, <1>3 DEF NodeOK, Blank, Compiling
<1>6. Starts(run'.work, n, "compile", todo)
  BY <1>1, NewWork
<1>7. node'[n] = x /\ OnlyChanges(n)
  BY <1>1, <1>2, <1>3, <1>4, OneNodeChanges DEF VersionSet, OnlyChanges
<1>8. ~Checking /\ Compiling' /\ ~Analysing' /\ Checked' = Checked
  BY <1>1, <1>6 DEF Checking, Analysing, Compiling, Starts, Work, Checked, CourseKept
<1> QED BY <1>1, <1>2, <1>3, <1>4, <1>5, <1>6, <1>7, <1>8 DEF Starts

LEMMA CompileDepsNodeIs ==
  ASSUME BuildInv, RecordInv, CompileDepsNode, NEW n, n = NextNode
  PROVE  /\ n \in Nodes /\ n \in DepsNodes /\ n \in Found /\ node[n].state = "uncompiled"
         /\ run.pc = "compile" /\ ~Checking /\ run'.pc = "compile" /\ run.at < Len(run.relevant)
         /\ run'.relevant = run.relevant /\ run'.phase = run.phase /\ Checked' = Checked
         /\ run'.compiled = run.compiled \cup {n} /\ disk' = disk /\ past' = past
         /\ run'.cached = run.cached /\ run'.scan = run.scan /\ run'.source = run.source
         /\ OnlyChanges(n) /\ IsNode(node'[n]) /\ HasEntries(n, node[n])
         /\ node'[n].version = version[n] /\ node'[n].state = "current"
         /\ node'[n].deps = node[n].deps /\ node'[n].scan = node[n].scan /\ node'[n].cas = node[n].cas
         /\ node'[n].analysis = node[n].analysis /\ node'[n].compile = NoFiles
<1> USE DEF BuildInv
<1> DEFINE y == SetState(node[n], "current")
           x == [y EXCEPT !.version = version[n]]
<1>1. /\ run.pc = "compile" /\ node[n].state = "uncompiled" /\ n \in DepsNodes
      /\ run.at < Len(run.relevant) /\ run'.relevant = run.relevant
      /\ disk' = disk /\ past' = past /\ run'.cached = run.cached /\ run'.pc = "compile"
      /\ run'.compiled = run.compiled \cup {n}
      /\ run'.scan = run.scan /\ run'.source = run.source
      /\ node' = [node EXCEPT ![n] = x] /\ run'.phase = run.phase
  BY CompileDepsNodeSets
<1>2. n \in Nodes /\ n \in Found
  BY <1>1, NextNodeIs, RelevantIs
<1>3. IsNode(node[n]) /\ NodeOK(n) /\ NodesOK /\ HasEntries(n, node[n])
  BY <1>2 DEF RecordInv, NodeRecordsOK, NodeOK, TypesInv, NodesOK
<1>4. /\ IsNode(y) /\ y.state = "current" /\ y.analysis = node[n].analysis /\ y.deps = node[n].deps
      /\ y.scan = node[n].scan /\ y.cas = node[n].cas /\ y.compile = node[n].compile
  BY <1>3, SetStateIsNode
<1> HIDE DEF y
<1>5. VersionSet(y, x, version[n])
  BY <1>4, SetVersionIsNode
<1> HIDE DEF x
<1>6. node[n].compile = NoFiles
  BY <1>1, <1>3 DEF NodeOK, Blank, Compiling
<1>7. node'[n] = x /\ OnlyChanges(n)
  BY <1>1, <1>2, <1>3, <1>5, OneNodeChanges DEF VersionSet, OnlyChanges
<1>8. ~Checking /\ Checked' = Checked
  BY <1>1 DEF Checking, Analysing, Checked
<1> QED BY <1>1, <1>2, <1>3, <1>4, <1>5, <1>6, <1>7, <1>8 DEF VersionSet

(* The analysis that follows the check of a node's own files.              *)
LEMMA AnalysisStarts ==
  ASSUME BuildInv, RecordInv, NEW n \in Nodes, CheckFiles(n), Reanalyses(n), n \notin Leaves
  PROVE  /\ run'.pc = "work" /\ Analysing' /\ ~Compiling' /\ n \notin Checked' /\ Checked' = Checked
         /\ run'.work.node = n /\ run'.work.open = FALSE /\ run'.work.created = FALSE
         /\ run'.work.todo = <<Source(n)>>
         /\ OnlyChanges(n) /\ IsNode(node'[n]) /\ node'[n].version = version[n]
         /\ node'[n].state = "unanalyzed" /\ node'[n].deps = <<>> /\ node'[n].scan = node[n].scan
         /\ node'[n].cas = node[n].cas
         /\ node'[n].analysis = NoFiles /\ node'[n].compile = NoFiles
<1> USE DEF BuildInv
<1> DEFINE y == SetState(node[n], "unanalyzed")
           x == [y EXCEPT !.version = version[n]]
<1>1. run'.pc = "work" /\ node' = [node EXCEPT ![n] = x]
  BY CheckFilesIs
<1>2. /\ run'.work = WorkOn(n, "analysis", <<Source(n)>>) /\ run.phase[n] = "files"
      /\ run'.phase = [run.phase EXCEPT ![n] = "enumerate"]
  BY <1>1, CheckFilesSets
<1>3. Starts(run'.work, n, "analysis", <<Source(n)>>)
  BY <1>2, NewWork
<1>4. IsNode(node[n]) /\ NodesOK
  BY DEF TypesInv, NodesOK
<1>5. /\ IsNode(y) /\ y.state = "unanalyzed" /\ y.analysis = NoFiles /\ y.deps = <<>>
      /\ y.scan = node[n].scan /\ y.cas = node[n].cas /\ y.compile = NoFiles
  BY <1>4, SetStateIsNode
<1> HIDE DEF y
<1>6. VersionSet(y, x, version[n])
  BY <1>5, SetVersionIsNode
<1> HIDE DEF x
<1>7. node'[n] = x /\ OnlyChanges(n)
  BY <1>1, <1>4, <1>6, OneNodeChanges DEF VersionSet, OnlyChanges
<1>8. Analysing' /\ ~Compiling'
  BY <1>1, <1>3 DEF Analysing, Compiling, Starts, Work
<1>9. n \notin Checked' /\ Checked' = Checked
  BY <1>2 DEF Checked, TypesInv, ProcessOK
<1> QED BY <1>1, <1>3, <1>5, <1>6, <1>7, <1>8, <1>9 DEF Starts, VersionSet

LEMMA CheckGoesOn ==
  ASSUME BuildInv, RecordInv, NEW n \in Nodes, CheckFiles(n), ~(Reanalyses(n) /\ n \notin Leaves)
  PROVE  /\ run'.pc = "check" /\ Checked' = Checked \cup {n} /\ n \notin Checked
         /\ OnlyChanges(n) /\ node'[n] = AfterFiles(n) /\ IsNode(AfterFiles(n))
<1> USE DEF BuildInv
<1>1. run'.pc = "check" /\ node' = [node EXCEPT ![n] = AfterFiles(n)]
  BY CheckFilesIs
<1>2. run.phase[n] = "files" /\ run'.phase = [run.phase EXCEPT ![n] = "nodes"]
  BY <1>1, CheckFilesSets
<1>3. IsNode(node[n]) /\ NodesOK
  BY DEF TypesInv, NodesOK
<1>4. IsNode(AfterFiles(n))
  BY <1>3, SetStateIsNode DEF AfterFiles
<1>5. node'[n] = AfterFiles(n) /\ OnlyChanges(n)
  BY <1>1, <1>3, <1>4, OneNodeChanges DEF OnlyChanges
<1>6. n \notin Checked /\ Checked' = Checked \cup {n}
  BY <1>2 DEF Checked, TypesInv, ProcessOK
<1> QED BY <1>1, <1>4, <1>5, <1>6

(* A list about one file, once that file is recorded in it.                *)
OnlyHas(list, f, s) ==
  /\ [file |-> f, status |-> s] \in ToSet(list)
  /\ \A e \in ToSet(list) : e = [file |-> f, status |-> s] /\ e.file = f /\ e.status = s

LEMMA OnlyRecorded ==
  ASSUME NEW f, NEW F, F \subseteq {f}, f \in F, NEW list \in Seq(Entries(F)), NEW s \in Nat
  PROVE  OnlyHas(Recorded(list, f, s), f, s) /\ Recorded(list, f, s) \in Seq(Entries(F))
<1> DEFINE new == [file |-> f, status |-> s]
           r == Recorded(list, f, s)
<1>1. r \in Seq(Entries(F)) /\ new \in ToSet(r) /\ \A e \in ToSet(r) : e.file = f => e = new
  BY RecordedIs
<1>2. new.file = f /\ new.status = s
  OBVIOUS
<1> HIDE DEF r, new
<1>3. \A e \in ToSet(r) : e \in Entries(F)
  BY <1>1, SeqElements
<1>4. \A e \in Entries(F) : e.file = f
  BY DEF Entries
<1> QED BY <1>1, <1>2, <1>3, <1>4 DEF OnlyHas, new, r

LEMMA CreateOutputIs ==
  ASSUME BuildInv, RecordInv, CreateOutput, NEW n, n = Work.node
  PROVE  /\ n \in Assets \cup Leaves /\ n \in Nodes /\ Work.todo = <<>> /\ Work.created = FALSE
         /\ Work.open = FALSE /\ OnlyChanges(n)
         /\ WorkGoes(Work.todo, Work.open, TRUE, Work.items, Work.made)
         /\ file' = Written(Output, Partial) /\ cache' = cache /\ catalog' = catalog
         /\ content' = content /\ version' = version /\ past' = past /\ Output' = Output
         /\ run'.cached = run.cached /\ run'.scan = run.scan /\ run'.source = run.source
         /\ \E list : ProductsSet(node[n], node'[n], Work.stage, list) /\ OnlyHas(list, Output, 0)
<1> USE DEF BuildInv
<1>1. /\ n \in Assets \cup Leaves /\ n \in Nodes /\ run.pc = "work" /\ Work.todo = <<>>
      /\ Work.created = FALSE /\ Work.open = FALSE
      /\ file' = Written(Output, Partial) /\ cache' = cache /\ catalog' = catalog
      /\ content' = content /\ version' = version /\ past' = past
      /\ run'.cached = run.cached /\ run'.scan = run.scan /\ run'.source = run.source
      /\ run'.work = [Work EXCEPT !.created = TRUE]
  BY CreateOutputSets DEF Nodes
<1> DEFINE stage == Work.stage
           list == node[n][stage].products
           new == Recorded(list, Output, 0)
           x == [node[n] EXCEPT ![stage].products = new]
<1>2. node' = [node EXCEPT ![n] = x]
  BY CreateOutputSets
<1>3. /\ IsNode(node[n]) /\ HasEntries(n, node[n]) /\ NodesOK /\ HasWork(Work)
      /\ stage \in {"analysis", "compile"} /\ (Analysing \/ Compiling)
  BY <1>1, WorkedNode DEF TypesInv, WorkOK
<1> HIDE DEF x, new
<1>4. ProductsSet(node[n], x, stage, new)
  BY <1>3, SetProducts DEF x
<1>5. node'[n] = x /\ OnlyChanges(n)
  BY <1>1, <1>2, <1>3, <1>4, OneNodeChanges DEF ProductsSet, OnlyChanges
<1>6. OnlyHas(new, Output, 0)
  <2>1. CASE Analysing
    <3>1. list \in Seq(Entries(AnalysisOf(n))) /\ Output \in AnalysisOf(n) /\ Output = Analysis(n)
      BY <1>1, <1>3, <2>1, OutputIs DEF HasEntries, Analysing
    <3> HIDE DEF list
    <3>2. AnalysisOf(n) \subseteq {Output}
      BY <3>1 DEF AnalysisOf
    <3> QED BY <3>1, <3>2, OnlyRecorded DEF new
  <2>2. CASE Compiling
    <3>1. list \in Seq(Entries(ProductOf(n))) /\ Output \in ProductOf(n) /\ Output = Product(n)
      BY <1>1, <1>3, <2>2, OutputIs DEF HasEntries, Compiling
    <3> HIDE DEF list
    <3>2. ProductOf(n) \subseteq {Output}
      BY <3>1 DEF ProductOf
    <3> QED BY <3>1, <3>2, OnlyRecorded DEF new
  <2> QED BY <1>3, <2>1, <2>2
<1>7. /\ run'.work.todo = Work.todo /\ run'.work.open = Work.open /\ run'.work.created = TRUE
      /\ run'.work.items = Work.items /\ run'.work.made = Work.made
  BY <1>1, <1>3 DEF HasWork
<1>8. WorkGoes(Work.todo, Work.open, TRUE, Work.items, Work.made)
  BY <1>7, CreateOutputSame, WorkGoesIf
<1>9. Output' = Output
  BY <1>8 DEF WorkGoes, Output
<1> QED BY <1>1, <1>4, <1>5, <1>6, <1>8, <1>9

(* The end of the work.                                                    *)
LEMMA CloseOutputIs ==
  ASSUME BuildInv, RecordInv, CloseOutput, NEW n, n = Work.node
  PROVE  /\ n \in Assets \cup Leaves /\ n \in Nodes /\ Work.todo = <<>> /\ Work.created
         /\ OnlyChanges(n) /\ IsNode(node'[n])
         /\ run'.pc # "work" /\ run'.pc # "idle" /\ ~Analysing' /\ ~Compiling' /\ run'.work = NoWork
         /\ run'.cached = With(run.cached, Output, NewStatus(Output))
         /\ run'.scan = run.scan /\ run'.source = run.source /\ run'.relevant = run.relevant
         /\ file' = Written(Output, <<version[n], Outcome>>) /\ cache' = cache /\ catalog' = catalog
         /\ content' = content /\ version' = version /\ past' = past
         /\ node'[n].version = node[n].version /\ node'[n].deps = node[n].deps
         /\ node'[n].scan = node[n].scan /\ node'[n].cas = node[n].cas
         /\ Analysing =>
              /\ Checked' = Checked \cup {n} /\ Completed' = Completed /\ n \in Assets
              /\ run'.compiled = run.compiled /\ run'.pc = "check"
              /\ node'[n].state = "uncompiled" /\ node'[n].compile = NoFiles
              /\ node'[n].analysis.inputs = node[n].analysis.inputs
              /\ OnlyHas(node'[n].analysis.products, Output, NewStatus(Output))
         /\ Compiling =>
              /\ Checked' = Checked /\ Completed' = Completed
              /\ run'.compiled = run.compiled \cup {n} /\ run'.pc = "compile"
              /\ node'[n].state = "current" /\ node'[n].analysis = node[n].analysis
              /\ node'[n].compile.inputs = node[n].compile.inputs
              /\ OnlyHas(node'[n].compile.products, Output, NewStatus(Output))
<1> USE DEF BuildInv
<1> DEFINE stage == Work.stage
           list == node[n][stage].products
           s == NewStatus(Output)
           new == Recorded(list, Output, s)
           x == [node[n] EXCEPT ![stage].products = new]
<1>1. /\ n \in Assets \cup Leaves /\ n \in Nodes /\ run.pc = "work" /\ Work.todo = <<>>
      /\ Work.created = TRUE /\ Work.open = FALSE
      /\ file' = Written(Output, <<version[n], Outcome>>) /\ cache' = cache /\ catalog' = catalog
      /\ content' = content /\ version' = version /\ past' = past
      /\ IsDone(x, With(run.cached, Output, s))
  BY CloseOutputSets DEF StatusAtClose, Nodes
<1>2. /\ IsNode(node[n]) /\ HasEntries(n, node[n]) /\ NodesOK /\ NodeOK(n)
      /\ stage \in {"analysis", "compile"} /\ (Analysing \/ Compiling) /\ ~(Analysing /\ Compiling)
  BY <1>1, WorkedNode DEF TypesInv, WorkOK
<1>3. s \in Nat /\ s # 0
  BY AllTyped, NewStatusIsNew
<1> HIDE DEF x, new, s
<1>4. ProductsSet(node[n], x, stage, new)
  BY <1>2, SetProducts DEF x
<1>5. /\ IsNode(x) /\ x.version = node[n].version /\ x.deps = node[n].deps /\ x.scan = node[n].scan
      /\ x.cas = node[n].cas
      /\ Analysing => /\ x.analysis.inputs = node[n].analysis.inputs /\ x.analysis.products = new
      /\ Compiling => /\ x.analysis = node[n].analysis
                      /\ x.compile.inputs = node[n].compile.inputs /\ x.compile.products = new
  BY <1>4 DEF ProductsSet, Analysing, Compiling
<1>6. /\ run'.pc # "work" /\ run'.pc # "idle" /\ ~Analysing' /\ ~Compiling' /\ run'.work = NoWork
      /\ run'.cached = With(run.cached, Output, s)
      /\ run'.scan = run.scan /\ run'.source = run.source /\ run'.relevant = run.relevant
  BY <1>1 DEF IsDone, Analysing, Compiling
<1>7. CASE Analysing
  <2> DEFINE y == SetState(x, "uncompiled")
  <2>1. /\ node' = [node EXCEPT ![n] = y] /\ run'.phase = [run.phase EXCEPT ![n] = "nodes"]
        /\ run'.compiled = run.compiled /\ run'.pc = "check"
    BY <1>1, <1>7 DEF IsDone, Analysing
  <2>2. /\ IsNode(y) /\ y.state = "uncompiled" /\ y.compile = NoFiles
        /\ y.version = x.version /\ y.scan = x.scan /\ y.cas = x.cas
        /\ y.deps = x.deps /\ y.analysis = x.analysis
    BY <1>5, SetStateIsNode
  <2> HIDE DEF y
  <2>3. node'[n] = y /\ OnlyChanges(n)
    BY <1>1, <1>2, <2>1, <2>2, OneNodeChanges DEF OnlyChanges
  <2>4. run.phase[n] = "enumerate"
    BY <1>1, <1>7 DEF GraphInv, ControlOK, Analysing
  <2>5. Checked' = Checked \cup {n} /\ Completed' = Completed
    BY <1>1, <2>1, <2>4 DEF Checked, Completed, TypesInv, ProcessOK
  <2>6. OnlyHas(new, Output, s) /\ n \in Assets
    <3>1. list \in Seq(Entries(AnalysisOf(n))) /\ Output \in AnalysisOf(n) /\ Output = Analysis(n) /\ n \in Assets
      BY <1>1, <1>2, <1>7, OutputIs DEF HasEntries, Analysing
    <3> HIDE DEF list
    <3>2. AnalysisOf(n) \subseteq {Output}
      BY <3>1 DEF AnalysisOf
    <3> QED BY <1>3, <3>1, <3>2, OnlyRecorded DEF new
  <2> QED BY <1>1, <1>2, <1>5, <1>6, <1>7, <2>1, <2>2, <2>3, <2>5, <2>6 DEF s
<1>8. CASE Compiling
  <2> DEFINE y == SetState(x, "current")
  <2>1. /\ node' = [node EXCEPT ![n] = y] /\ run'.phase = run.phase
        /\ run'.compiled = run.compiled \cup {n} /\ run'.pc = "compile"
    BY <1>1, <1>8 DEF IsDone, Compiling
  <2>2. /\ IsNode(y) /\ y.state = "current" /\ y.compile = x.compile
        /\ y.version = x.version /\ y.scan = x.scan /\ y.cas = x.cas
        /\ y.deps = x.deps /\ y.analysis = x.analysis
    BY <1>5, SetStateIsNode
  <2> HIDE DEF y
  <2>3. node'[n] = y /\ OnlyChanges(n)
    BY <1>1, <1>2, <2>1, <2>2, OneNodeChanges DEF OnlyChanges
  <2>5. Checked' = Checked /\ Completed' = Completed
    BY <2>1 DEF Checked, Completed
  <2>6. OnlyHas(new, Output, s)
    <3>1. list \in Seq(Entries(ProductOf(n))) /\ Output \in ProductOf(n) /\ Output = Product(n)
      BY <1>1, <1>2, <1>8, OutputIs DEF HasEntries, Compiling
    <3> HIDE DEF list
    <3>2. ProductOf(n) \subseteq {Output}
      BY <3>1 DEF ProductOf
    <3> QED BY <1>3, <3>1, <3>2, OnlyRecorded DEF new
  <2> QED BY <1>1, <1>2, <1>5, <1>6, <1>8, <2>1, <2>2, <2>3, <2>5, <2>6 DEF s
<1> QED BY <1>2, <1>7, <1>8

LEMMA DepsFileAnalysedIs ==
  ASSUME BuildInv, RecordInv, DepsFileAnalysed, NEW n, n = Work.node
  PROVE  /\ n \in DepsNodes /\ n \in Nodes /\ n \notin Assets \cup Leaves /\ Work.todo = <<>>
         /\ Analysing /\ ~Compiling
         /\ OnlyChanges(n) /\ IsNode(node'[n]) /\ ~ListedFileGone
         /\ run'.pc = "check" /\ ~Analysing' /\ ~Compiling' /\ run'.work = NoWork
         /\ run'.cached = Resolved(ToSet(ListedFiles)) /\ run'.compiled = run.compiled
         /\ run'.scan = run.scan /\ run'.source = run.source /\ run'.relevant = run.relevant
         /\ disk' = disk /\ past' = past /\ Checked' = Checked \cup {n} /\ Completed' = Completed
         /\ node'[n].version = node[n].version /\ node'[n].deps = Work.items
         /\ node'[n].scan = node[n].scan /\ node'[n].cas = node[n].cas
         /\ node'[n].state = "uncompiled" /\ node'[n].compile = NoFiles
         /\ node'[n].analysis.inputs = AllRecorded(node[n].analysis.inputs, ListedFiles)
         /\ node'[n].analysis.products = node[n].analysis.products
         /\ node[n].analysis.products = <<>>
         /\ ListedFiles \in Seq(Sources) /\ Work.items \in Seq(Nodes)
<1> USE DEF BuildInv
<1> DEFINE before == node[n].analysis.inputs
           list == AllRecorded(before, ListedFiles)
           x == [node[n] EXCEPT !.deps = Work.items, !.analysis.inputs = list]
           y == SetState(x, "uncompiled")
<1>1. /\ run.pc = "work" /\ Work.todo = <<>> /\ Work.stage = "analysis" /\ Work.items \in Seq(Nodes)
      /\ n \in DepsNodes /\ ~ListedFileGone /\ past' = past
      /\ disk' = disk /\ IsDone(x, Resolved(ToSet(ListedFiles)))
  BY DepsFileAnalysedSets
<1>2. /\ n \in Nodes /\ n \notin Assets \cup Leaves /\ IsNode(node[n]) /\ HasEntries(n, node[n])
      /\ NodesOK /\ NodeOK(n) /\ Analysing /\ ~Compiling
  BY <1>1, WorkedNode, BuildSystemAssumption DEF Analysing, Nodes
<1>3. ListedFiles \in Seq(Sources)
  <2>1. /\ ListedFiles = [i \in 1..Len(Work.items) |-> Source(Work.items[i])] /\ Len(Work.items) \in Nat
        /\ \A i \in 1..Len(Work.items) : Source(Work.items[i]) \in Sources
    BY <1>1 DEF ListedFiles, Sources
  <2> QED BY <2>1
<1> HIDE DEF list, before
<1>4. DepsAndInputsSet(node[n], x, Work.items, list)
  BY <1>1, <1>2, SetDepsAndInputs
<1> HIDE DEF x
<1>5. /\ IsNode(y) /\ y.state = "uncompiled" /\ y.compile = NoFiles
      /\ y.version = x.version /\ y.scan = x.scan /\ y.cas = x.cas
      /\ y.deps = x.deps /\ y.analysis = x.analysis
  BY <1>4, SetStateIsNode DEF DepsAndInputsSet
<1> HIDE DEF y
<1>6. /\ node' = [node EXCEPT ![n] = y] /\ run'.phase = [run.phase EXCEPT ![n] = "nodes"]
      /\ run'.compiled = run.compiled /\ run'.pc = "check" /\ run'.work = NoWork
      /\ run'.cached = Resolved(ToSet(ListedFiles)) /\ run'.relevant = run.relevant
      /\ run'.scan = run.scan /\ run'.source = run.source
  BY <1>1 DEF IsDone, y
<1>7. node'[n] = y /\ OnlyChanges(n)
  BY <1>2, <1>5, <1>6, OneNodeChanges DEF OnlyChanges
<1>8. run.phase[n] = "enumerate" /\ ~Analysing' /\ ~Compiling'
  BY <1>2, <1>6 DEF GraphInv, ControlOK, Analysing, Compiling
<1>9. Checked' = Checked \cup {n} /\ Completed' = Completed
  BY <1>2, <1>6, <1>8 DEF Checked, Completed, TypesInv, ProcessOK
<1>10. node[n].analysis.products = <<>>
  <2>1. AnalysisOf(n) = {}
    BY <1>2 DEF AnalysisOf
  <2>2. node[n].analysis.products \in Seq(Entries({}))
    BY <1>2, <2>1 DEF HasEntries
  <2>3. Entries({}) = {}
    BY DEF Entries
  <2> QED BY <2>2, <2>3
<1> QED BY <1>1, <1>2, <1>3, <1>4, <1>5, <1>6, <1>7, <1>8, <1>9, <1>10 DEF DepsAndInputsSet, list, before

-----------------------------------------------------------------------------
(* The steps, each as what it does.                                        *)
GivesUp == \E how : how # "ok" /\ Ends(how) /\ disk' = disk

StepOfCheck ==
  \/ \E n \in Nodes : CheckFiles(n) \/ DependenciesChecked(n)
  \/ PlainAction
StepOfWork ==
  \/ CompileDepsNode \/ StartCompile \/ OpenInput \/ DepsFileAnalysed \/ CreateOutput \/ CloseOutput
  \/ \E n \in DepsNodes : ReadDepsFile(n)
  \/ \E n \in Assets : ReadAssetSource(n) \/ TryOptional(n) \/ ReadAnalysis(n) \/ IndexCAS(n)
  \/ \E n \in Leaves : ReadLeaf(n)
StepOfProcess == StepOfCheck \/ StepOfWork

LEMMA StepIs ==
  ASSUME [Next]_bsVars
  PROVE  \/ Begin \/ StepOfProcess \/ WriteHeader \/ GivesUp \/ Environment \/ UNCHANGED bsVars
<1>1. ASSUME Checks PROVE StepOfProcess \/ GivesUp
  <2>1. ASSUME NEW n \in Nodes, CircularDependency(n) PROVE GivesUp
    BY <2>1 DEF GivesUp, CircularDependency
  <2> QED BY <1>1, <2>1 DEF Checks, StepOfProcess, StepOfCheck, PlainAction
<1>2. ASSUME Works PROVE StepOfProcess \/ GivesUp
  <2>1. ASSUME CannotRead \/ ListedButGone PROVE GivesUp
    BY <2>1 DEF GivesUp, CannotRead, ListedButGone
  <2> QED BY <1>2, <2>1 DEF Works, StepOfProcess, StepOfCheck, StepOfWork, PlainAction
<1>3. ASSUME Finishes PROVE StepOfProcess \/ WriteHeader \/ GivesUp
  <2>1. ASSUME NEW id, NoContentSource(id) PROVE GivesUp
    BY <2>1 DEF GivesUp, NoContentSource
  <2> QED BY <1>3, <2>1 DEF Finishes, StepOfProcess, StepOfCheck, PlainAction
<1>4. ASSUME Killed PROVE GivesUp
  BY <1>4 DEF Killed, GivesUp
<1> QED BY <1>1, <1>2, <1>3, <1>4 DEF Next

LEMMA GivesUpIs ==
  ASSUME PastOK, GivesUp
  PROVE  /\ run' = NoRun /\ run'.pc = "idle" /\ node' = [n \in Nodes |-> NewNode] /\ disk' = disk
         /\ past'.touched = past.touched /\ past'.removed = past.removed /\ past'.torn = past.torn
         /\ past'.result # "ok"
<1>1. PICK how : how # "ok" /\ Ends(how) /\ disk' = disk
  BY DEF GivesUp
<1> QED BY <1>1, NoRunFields DEF Ends, PastOK, HasPast

LEMMA EnvironmentVersion ==
  ASSUME Environment
  PROVE  run.pc # "idle" => version' = version /\ content' = content
BY DEF Environment, Edit, RemoveFile, RemoveContent, Upgrade

LEMMA StepHasRun ==
  ASSUME BuildInv, StepOfProcess
  PROVE  run.pc # "idle"
BY DEF StepOfProcess, StepOfCheck, StepOfWork, PlainAction, CheckFiles, DependenciesChecked,
       CheckDependency, AtTop, Stratify, NotCompiledAgain, AtCompile, NothingToExport, CreateCatalog,
       AllCompiled, WriteCatalog, CopyContent, MoveContent, WriteInstance, ReadyToSave,
       CompileDepsNode, StartCompile, OpenInput, DepsFileAnalysed, CreateOutput, AllRead, CloseOutput,
       ReadDepsFile, ReadAssetSource, TryOptional, ReadAnalysis, IndexCAS, ReadLeaf, Reads

-----------------------------------------------------------------------------
(* What holds of nodes whatever happens to the files.                      *)
(* A node that was found completed and is up to date depends on such.      *)
CurrentOK ==
  \A n \in Completed : node[n].state = "current" => \A d \in Deps(n) : node[d].state = "current"

(* Only deps nodes scan the directory, and never lose the scan.            *)
ScansOK ==
  /\ \A n \in Nodes \ DepsNodes : node[n].scan = None
  /\ \A n \in DOMAIN cache.nodes \ DepsNodes : cache.nodes[n].scan = None
  /\ run.pc # "idle" => \A n \in DOMAIN cache.nodes : cache.nodes[n].scan # None => node[n].scan # None

(* What a saved node depends on was saved with it.                         *)
ClosedOK == \A n \in DOMAIN cache.nodes : ToSet(cache.nodes[n].deps) \subseteq DOMAIN cache.nodes
VersionOK == run.pc = "work" => node[Work.node].version = version[Work.node]
CourseInv == CurrentOK /\ ScansOK /\ ClosedOK /\ VersionOK

LEMMA CurrentStays ==
  ASSUME BuildInv, CurrentOK, run.pc # "idle", Completed' = Completed,
         \A m \in Completed : node'[m].deps = node[m].deps /\ node'[m].state = node[m].state
  PROVE  CurrentOK'
<1>1. \A m \in Completed : Deps(m) \subseteq Completed
  BY DEF BuildInv, GraphInv, SearchOK, CompletedOK
<1>2. \A m \in Completed : Deps(m)' = Deps(m)
  BY DEF Deps
<1> QED BY <1>1, <1>2 DEF CurrentOK

LEMMA GetsCurrent ==
  ASSUME BuildInv, CurrentOK, run.pc # "idle", Completed' = Completed,
         NEW n \in Nodes, OnlyChanges(n), node'[n].deps = node[n].deps, node'[n].state = "current",
         \A d \in Deps(n) : node[d].state = "current"
  PROVE  CurrentOK'
<1>1. \A m \in Completed : Deps(m) \subseteq Nodes /\ m \in Nodes
  BY DEF BuildInv, GraphInv, SearchOK, CompletedOK, Completed
<1>2. \A m \in Nodes : Deps(m)' = Deps(m)
  BY DEF Deps, OnlyChanges
<1>3. \A m \in Nodes : node[m].state = "current" => node'[m].state = "current"
  BY DEF OnlyChanges
<1>4. \A m \in Nodes : m # n => node'[m].state = node[m].state
  BY DEF OnlyChanges
<1> QED BY <1>1, <1>2, <1>3, <1>4 DEF CurrentOK

LEMMA ScansStay ==
  ASSUME BuildInv, ScansOK, run.pc # "idle", cache'.nodes = cache.nodes,
         \A m \in Nodes : node'[m].scan = node[m].scan \/ (m \in DepsNodes /\ node'[m].scan # None)
  PROVE  ScansOK'
<1>1. DOMAIN cache.nodes \subseteq Nodes
  BY DEF BuildInv, TypesInv, SavedOK
<1> QED BY <1>1 DEF ScansOK

(* A step that changes one node, and not what it was found to be.          *)
LEMMA OneNodeCourse ==
  ASSUME BuildInv, CourseInv, run.pc # "idle", cache'.nodes = cache.nodes, CurrentOK', VersionOK',
         NEW n \in Nodes, OnlyChanges(n),
         node'[n].scan = node[n].scan \/ (n \in DepsNodes /\ node'[n].scan # None)
  PROVE  CourseInv'
<1>1. ScansOK'
  BY ScansStay DEF CourseInv, OnlyChanges
<1>2. ClosedOK'
  BY DEF CourseInv, ClosedOK
<1> QED BY <1>1, <1>2 DEF CourseInv

LEMMA WorkCourse ==
  ASSUME BuildInv, RecordInv, CourseInv, Continues, Completed' = Completed, cache'.nodes = cache.nodes,
         version' = version, OnlyChanges(Work.node), node'[Work.node].version = node[Work.node].version,
         node'[Work.node].deps = node[Work.node].deps \/ Analysing,
         node'[Work.node].state = node[Work.node].state,
         \/ node'[Work.node].scan = node[Work.node].scan
         \/ Work.node \in DepsNodes /\ node'[Work.node].scan # None
  PROVE  CourseInv'
<1> SUFFICES ASSUME NEW n \in Nodes, n = Work.node
             PROVE  CourseInv'
  BY WorkedNode DEF Continues
<1>1. run.pc = "work" /\ run'.pc = "work" /\ Work'.node = n
  BY DEF Continues, Work
<1>2. Analysing => n \notin Completed
  BY <1>1, WorkedNode DEF Checked, Completed
<1>3. CurrentOK'
  BY <1>1, <1>2, CurrentStays DEF CourseInv, OnlyChanges, Completed
<1>4. VersionOK'
  BY <1>1 DEF CourseInv, VersionOK
<1> QED BY <1>1, <1>3, <1>4, OneNodeCourse

LEMMA PlainCourse ==
  ASSUME BuildInv, RecordInv, CourseInv, PlainAction
  PROVE  CourseInv'
<1>1. Plain
  BY PlainActions
<1>2. Completed' = Completed
  <2>1. ASSUME NEW n \in Nodes, CheckDependency(n)
        PROVE  Completed' = Completed
    BY <2>1, CheckDependencySets DEF Completed, BuildInv, TypesInv, ProcessOK
  <2>2. ASSUME NEW id \in Wanted, CopyContent(id)
        PROVE  Completed' = Completed
    BY <2>2, CopyContentSets DEF Completed, BuildInv, Kept
  <2> QED BY <2>1, <2>2, StratifySets, NotCompiledAgainSets, NothingToExportSets, CreateCatalogSets,
             WriteCatalogSets, MoveContentSets, WriteInstanceSets
          DEF PlainAction, Completed, BuildInv, Kept
<1>3. CurrentOK' /\ ScansOK'
  BY <1>1, <1>2, CurrentStays, ScansStay DEF CourseInv, Plain
<1>4. ClosedOK' /\ VersionOK'
  BY <1>1 DEF CourseInv, ClosedOK, VersionOK, Plain
<1> QED BY <1>3, <1>4 DEF CourseInv

LEMMA CheckFilesCourse ==
  ASSUME BuildInv, RecordInv, CourseInv, NEW n \in Nodes, CheckFiles(n)
  PROVE  CourseInv'
<1>1. /\ run.pc = "check" /\ run.phase[n] = "files" /\ cache' = cache /\ version' = version
      /\ run'.phase \in {[run.phase EXCEPT ![n] = "enumerate"], [run.phase EXCEPT ![n] = "nodes"]}
  BY CheckFilesSets DEF BuildInv, disk
<1>2. n \notin Completed /\ Completed' = Completed
  BY <1>1 DEF Completed, BuildInv, TypesInv, ProcessOK
<1>3. /\ OnlyChanges(n) /\ node'[n].scan = node[n].scan
      /\ VersionOK'
  <2>1. CASE Reanalyses(n) /\ n \notin Leaves
    BY <1>1, <2>1, AnalysisStarts DEF VersionOK, Work
  <2>2. CASE ~(Reanalyses(n) /\ n \notin Leaves)
    <3>1. IsNode(node[n])
      BY DEF BuildInv, TypesInv, NodesOK
    <3>2. AfterFiles(n).scan = node[n].scan
      BY <3>1, SetStateIsNode DEF AfterFiles
    <3> QED BY <2>2, <3>2, CheckGoesOn DEF VersionOK
  <2> QED BY <2>1, <2>2
<1>4. CurrentOK'
  BY <1>1, <1>2, <1>3, CurrentStays DEF CourseInv, OnlyChanges, Completed
<1> QED BY <1>1, <1>3, <1>4, OneNodeCourse

LEMMA DependenciesCheckedCourse ==
  ASSUME BuildInv, RecordInv, CourseInv, NEW n \in Nodes, DependenciesChecked(n)
  PROVE  CourseInv'
<1>1. /\ run.pc = "check" /\ run'.pc = "check" /\ run.phase[n] = "nodes" /\ cache' = cache
      /\ version' = version /\ run'.phase = [run.phase EXCEPT ![n] = "completed"]
      /\ \A d \in Deps(n) : run.phase[d] = "completed"
      /\ \/ node' = [node EXCEPT ![n] = SetState(node[n], "uncompiled")]
         \/ node' = node /\ \A d \in Deps(n) : node[d].state = "current"
  BY DependenciesCheckedSets DEF BuildInv, disk, Deps
<1>2. IsNode(node[n]) /\ NodesOK /\ n \notin Completed
  BY <1>1 DEF BuildInv, TypesInv, NodesOK, Completed
<1>3. Completed' = Completed \cup {n}
  BY <1>1 DEF Completed, BuildInv, TypesInv, ProcessOK
<1>4. /\ IsNode(SetState(node[n], "uncompiled"))
      /\ SetState(node[n], "uncompiled").state = "uncompiled"
      /\ SetState(node[n], "uncompiled").scan = node[n].scan
      /\ SetState(node[n], "uncompiled").deps = node[n].deps
  BY <1>2, SetStateIsNode
<1>5. /\ OnlyChanges(n) /\ node'[n].scan = node[n].scan /\ node'[n].deps = node[n].deps
      /\ node'[n].state = "current" => \A d \in Deps(n) : node[d].state = "current"
      /\ node'[n].state = "uncompiled" \/ node'[n].state = node[n].state
  <2>1. CASE node' = [node EXCEPT ![n] = SetState(node[n], "uncompiled")]
    BY <1>2, <1>4, <2>1, OneNodeChanges DEF OnlyChanges
  <2>2. CASE node' = node /\ \A d \in Deps(n) : node[d].state = "current"
    BY <2>2 DEF OnlyChanges
  <2> QED BY <1>1, <2>1, <2>2
<1>6. /\ \A m \in Completed : Deps(m) \subseteq Completed
      /\ \A m \in Completed : \E S \in SUBSET Completed : Below(m, S)
  BY <1>1 DEF BuildInv, GraphInv, SearchOK, CompletedOK
<1>7. Deps(n) \subseteq Completed
  BY <1>1, <1>2 DEF Deps, Completed, IsNode, SeqElements, ToSet
<1>8. CurrentOK'
  <2>1. \A m \in Nodes : Deps(m)' = Deps(m)
    BY <1>5 DEF Deps, OnlyChanges
  <2>2. \A m \in Completed : node'[m].state = node[m].state /\ m \in Nodes
    BY <1>2, <1>5 DEF OnlyChanges, Completed
  <2> QED BY <1>2, <1>3, <1>5, <1>6, <1>7, <2>1, <2>2 DEF CurrentOK, CourseInv
<1>9. VersionOK'
  BY <1>1 DEF VersionOK
<1> QED BY <1>1, <1>5, <1>8, <1>9, OneNodeCourse

LEMMA CompileDepsNodeCourse ==
  ASSUME BuildInv, RecordInv, CourseInv, CompileDepsNode
  PROVE  CourseInv'
<1> DEFINE nn == NextNode
<1>1. PICK n \in Nodes : n = NextNode
  BY CompileDepsNodeIs
<1>2. /\ n \in Found /\ run.pc = "compile" /\ run'.pc = "compile" /\ ~Checking /\ run.at < Len(run.relevant)
      /\ run'.phase = run.phase /\ disk' = disk /\ OnlyChanges(n)
      /\ node'[n].deps = node[n].deps /\ node'[n].scan = node[n].scan /\ node'[n].state = "current"
  BY <1>1, CompileDepsNodeIs
<1>3. \A d \in Deps(n) : node[d].state = "current"
  <2> SUFFICES ASSUME NEW d \in Deps(n) PROVE node[d].state = "current"
    OBVIOUS
  <2>1. /\ TypesInv /\ Searched /\ Ordered(run.relevant)
        /\ \A k \in 1..Len(run.relevant) :
             k > Len(run.relevant) - run.at => node[run.relevant[k]].state = "current"
    BY <1>2 DEF BuildInv, GraphInv, ControlOK, Searched, CompileInv
  <2> DEFINE i == Len(run.relevant) - run.at
  <2>2. i \in 1..Len(run.relevant) /\ n = run.relevant[i]
    BY <1>1, <1>2, <2>1, NextNodeIs, RelevantIs
  <2>3. d \in Found
    BY <1>2, <2>1, AllCompleted
  <2>4. PICK j \in 1..Len(run.relevant) : run.relevant[j] = d
    BY <2>1, <2>3, RelevantIs DEF Found, ToSet
  <2>5. i < j
    BY <2>1, <2>2, <2>4, RelevantIs DEF Ordered
  <2> QED BY <2>1, <2>4, <2>5
<1>4. Completed' = Completed
  BY <1>2 DEF Completed
<1>5. CurrentOK'
  BY <1>2, <1>3, <1>4, GetsCurrent DEF CourseInv
<1>6. VersionOK'
  BY <1>2 DEF VersionOK
<1> QED BY <1>2, <1>5, <1>6, OneNodeCourse DEF disk

LEMMA StartCompileCourse ==
  ASSUME BuildInv, RecordInv, CourseInv, StartCompile
  PROVE  CourseInv'
<1>1. PICK n \in Nodes : n = NextNode
  BY StartCompileIs
<1>2. /\ run.pc = "compile" /\ run'.pc = "work" /\ run'.work.node = n /\ CourseKept(run') /\ disk' = disk
      /\ OnlyChanges(n) /\ VersionSet(node[n], node'[n], version[n])
  BY <1>1, StartCompileIs
<1>3. Completed' = Completed
  BY <1>2 DEF Completed, CourseKept
<1>4. CurrentOK'
  BY <1>2, <1>3, CurrentStays DEF CourseInv, OnlyChanges, VersionSet, Completed
<1>5. VersionOK'
  BY <1>2 DEF VersionOK, VersionSet, Work, disk
<1> QED BY <1>2, <1>4, <1>5, OneNodeCourse DEF VersionSet, disk

LEMMA DoneCourse ==
  ASSUME BuildInv, RecordInv, CourseInv, CloseOutput \/ DepsFileAnalysed
  PROVE  CourseInv'
<1>1. run.pc = "work"
  BY DEF CloseOutput, DepsFileAnalysed, AllRead
<1>2. PICK n \in Nodes : n = Work.node
  BY <1>1, WorkedNode
<1>3. /\ OnlyChanges(n) /\ cache' = cache /\ run'.pc # "work" /\ Completed' = Completed
      /\ node'[n].scan = node[n].scan
      /\ Compiling => node'[n].state = "current" /\ node'[n].deps = node[n].deps
  BY <1>1, <1>2, WorkedNode, CloseOutputIs, DepsFileAnalysedIs DEF disk
<1>4. CASE Analysing
  <2>1. n \notin Completed
    BY <1>1, <1>2, <1>4, WorkedNode DEF Checked, Completed
  <2>2. CurrentOK'
    BY <1>1, <1>3, <2>1, CurrentStays DEF CourseInv, OnlyChanges, Completed
  <2> QED BY <1>1, <1>3, <2>2, OneNodeCourse DEF VersionOK
<1>5. CASE Compiling
  <2>1. \A d \in Deps(n) : node[d].state = "current"
    BY <1>2, <1>5, DependenciesAreCurrent DEF DependenciesFirst, Compiling, Deps
  <2>2. CurrentOK'
    BY <1>1, <1>3, <1>5, <2>1, GetsCurrent DEF CourseInv
  <2> QED BY <1>1, <1>3, <2>2, OneNodeCourse DEF VersionOK
<1> QED BY <1>1, <1>4, <1>5, WorkedNode

LEMMA WorkingCourse ==
  ASSUME BuildInv, RecordInv, CourseInv, StepOfWork
  PROVE  CourseInv'
<1>1. ASSUME OpenInput PROVE CourseInv'
  <2>1. PICK n \in Nodes : n = Work.node
    BY <1>1, OpenInputSets, WorkedNode DEF BuildInv
  <2>2. /\ OnlyChanges(n) /\ Continues /\ Completed' = Completed /\ disk' = disk
        /\ node'[n].version = node[n].version /\ node'[n].deps = node[n].deps
        /\ node'[n].state = node[n].state /\ node'[n].scan = node[n].scan
    BY <1>1, <2>1, OpenInputIs DEF WorkGoes, InputsSet
  <2> QED BY <2>1, <2>2, WorkCourse DEF disk
<1>2. ASSUME CreateOutput PROVE CourseInv'
  <2>1. PICK n \in Nodes : n = Work.node
    BY <1>2, CreateOutputIs
  <2>2. /\ OnlyChanges(n) /\ Continues /\ Completed' = Completed /\ cache' = cache /\ version' = version
        /\ node'[n].version = node[n].version /\ node'[n].deps = node[n].deps
        /\ node'[n].state = node[n].state /\ node'[n].scan = node[n].scan
    BY <1>2, <2>1, CreateOutputIs DEF WorkGoes, ProductsSet
  <2> QED BY <2>1, <2>2, WorkCourse
<1>3. ASSUME NEW n \in DepsNodes, ReadDepsFile(n) PROVE CourseInv'
  <2>1. /\ n = Work.node /\ OnlyChanges(n) /\ Continues /\ Completed' = Completed /\ disk' = disk
        /\ ScanSet(node[n], node'[n], IF Text(n) = Wildcard THEN Scan ELSE node[n].scan)
    BY <1>3, ReadDepsFileIs DEF WorkGoes
  <2>2. /\ node'[n].version = node[n].version /\ node'[n].deps = node[n].deps
        /\ node'[n].state = node[n].state
        /\ node'[n].scan = IF Text(n) = Wildcard THEN Scan ELSE node[n].scan
    BY <2>1 DEF ScanSet
  <2>3. Scan # None
    BY ScanIsNodes, TextsAssumption DEF BuildInv
  <2>4. node'[n].scan = node[n].scan \/ (n \in DepsNodes /\ node'[n].scan # None)
    BY <2>2, <2>3
  <2> QED BY <2>1, <2>2, <2>4, WorkCourse DEF disk
<1>4. ASSUME NEW n \in Assets, ReadAssetSource(n) PROVE CourseInv'
  <2>1. /\ n = Work.node /\ OnlyChanges(n) /\ Continues /\ Completed' = Completed /\ disk' = disk
        /\ node'[n].version = node[n].version /\ Analysing
        /\ node'[n].state = node[n].state /\ node'[n].scan = node[n].scan
    BY <1>4, ReadAssetSourceIs DEF WorkGoes, DepsSet
  <2> QED BY <2>1, WorkCourse DEF disk
<1>5. ASSUME NEW n \in Assets, IndexCAS(n) PROVE CourseInv'
  <2>1. /\ n = Work.node /\ OnlyChanges(n) /\ Continues /\ Completed' = Completed /\ disk' = disk
        /\ node'[n].version = node[n].version /\ node'[n].deps = node[n].deps
        /\ node'[n].state = node[n].state /\ node'[n].scan = node[n].scan
    BY <1>5, IndexCASIs DEF WorkGoes, CASSet
  <2> QED BY <2>1, WorkCourse DEF disk
<1>6. ASSUME NEW n, NEW todo, NEW items, NEW made, OnlyReads(n, todo, items, made)
      PROVE  CourseInv'
  <2>1. /\ n = Work.node /\ node' = node /\ Continues /\ Completed' = Completed /\ disk' = disk
    BY <1>6, OnlyReadsIs DEF WorkGoes
  <2> QED BY <2>1, WorkCourse DEF disk, OnlyChanges
<1>7. ASSUME NEW n \in Assets, TryOptional(n) \/ ReadAnalysis(n) PROVE CourseInv'
  BY <1>6, <1>7, TryOptionalSets, ReadAnalysisSets DEF BuildInv
<1>8. ASSUME NEW n \in Leaves, ReadLeaf(n) PROVE CourseInv'
  BY <1>6, <1>8, ReadLeafSets DEF BuildInv
<1> QED BY <1>1, <1>2, <1>3, <1>4, <1>5, <1>7, <1>8, CompileDepsNodeCourse, StartCompileCourse, DoneCourse
        DEF StepOfWork

LEMMA NoRunCourse ==
  ASSUME run' = NoRun, node' = [n \in Nodes |-> NewNode], ClosedOK',
         \A n \in DOMAIN cache'.nodes \ DepsNodes : cache'.nodes[n].scan = None
  PROVE  CourseInv'
<1>1. run'.pc = "idle" /\ Completed' = {}
  BY NoRunFields DEF Completed
<1>2. CurrentOK' /\ VersionOK'
  BY <1>1 DEF CurrentOK, VersionOK
<1>3. ScansOK'
  BY <1>1, NewNodeFields DEF ScansOK
<1> QED BY <1>2, <1>3 DEF CourseInv

LEMMA WriteHeaderCourse ==
  ASSUME BuildInv, RecordInv, CourseInv, WriteHeader
  PROVE  CourseInv'
<1>1. /\ run.pc = "save" /\ cache'.nodes = ToSave /\ run' = NoRun /\ node' = [n \in Nodes |-> NewNode]
  BY WriteHeaderSets DEF RecordInv, BuildInv
<1>2. DOMAIN cache'.nodes = Nodes \cap Found /\ \A n \in Nodes \cap Found : cache'.nodes[n] = node[n]
  BY <1>1 DEF ToSave, Found
<1>3. \A n \in Found : n \in Nodes /\ Deps(n) \subseteq Found
  BY <1>1, AllCurrent
<1>4. ClosedOK'
  <2>1. \A n \in Nodes \cap Found : ToSet(cache'.nodes[n].deps) \subseteq Nodes \cap Found
    BY <1>2, <1>3 DEF Deps
  <2> QED BY <1>2, <2>1 DEF ClosedOK
<1>5. \A n \in DOMAIN cache'.nodes \ DepsNodes : cache'.nodes[n].scan = None
  BY <1>2 DEF CourseInv, ScansOK
<1> QED BY <1>1, <1>4, <1>5, NoRunCourse

LEMMA NextCourse ==
  ASSUME BuildInv, RecordInv, PastOK, CourseInv, [Next]_bsVars
  PROVE  CourseInv'
<1>1. ASSUME Begin PROVE CourseInv'
  <2>1. /\ cache' = cache /\ run'.pc = "check" /\ DOMAIN cache.nodes \subseteq Nodes
        /\ \A n \in Nodes : node'[n] = IF n \in DOMAIN cache.nodes THEN cache.nodes[n] ELSE NewNode
    BY <1>1, BeginSets, BeginSetsNodes, RootIsNode DEF BuildInv, disk, TypesInv, SavedOK
  <2>2. Completed' = {}
    BY <1>1, BeginSets DEF Completed
  <2>3. CurrentOK' /\ VersionOK' /\ ClosedOK'
    BY <2>1, <2>2 DEF CurrentOK, VersionOK, ClosedOK, CourseInv
  <2>4. ScansOK'
    BY <2>1, NewNodeFields DEF CourseInv, ScansOK
  <2> QED BY <2>3, <2>4 DEF CourseInv
<1>2. ASSUME GivesUp PROVE CourseInv'
  BY <1>2, GivesUpIs, NoRunCourse DEF disk, CourseInv, ScansOK, ClosedOK
<1>3. ASSUME Environment PROVE CourseInv'
  <2>1. node' = node /\ run' = run /\ cache' = cache /\ (run.pc = "work" => version' = version)
    BY <1>3, EnvironmentSets, EnvironmentVersion
  <2>2. CurrentOK' /\ ScansOK' /\ ClosedOK' /\ VersionOK'
    BY <2>1 DEF CourseInv, CurrentOK, ScansOK, ClosedOK, VersionOK, Completed, Deps, Work
  <2> QED BY <2>2 DEF CourseInv
<1>4. ASSUME UNCHANGED bsVars PROVE CourseInv'
  <2>1. node' = node /\ run' = run /\ cache' = cache /\ version' = version
    BY <1>4 DEF bsVars, disk
  <2>2. CurrentOK' /\ ScansOK' /\ ClosedOK' /\ VersionOK'
    BY <2>1 DEF CourseInv, CurrentOK, ScansOK, ClosedOK, VersionOK, Completed, Deps, Work
  <2> QED BY <2>2 DEF CourseInv
<1>5. ASSUME StepOfCheck PROVE CourseInv'
  BY <1>5, CheckFilesCourse, DependenciesCheckedCourse, PlainCourse DEF StepOfCheck
<1> QED BY <1>1, <1>2, <1>3, <1>4, <1>5, StepIs, WorkingCourse, WriteHeaderCourse DEF StepOfProcess

LEMMA InitCourse ==
  ASSUME Init
  PROVE  CourseInv
<1>1. run = NoRun /\ node = [n \in Nodes |-> NewNode] /\ DOMAIN cache.nodes = {}
  BY DEF Init, NoCache
<1>2. run.pc = "idle" /\ Completed = {}
  BY <1>1, NoRunFields DEF Completed
<1> QED BY <1>1, <1>2, NewNodeFields DEF CourseInv, CurrentOK, ScansOK, ClosedOK, VersionOK

-----------------------------------------------------------------------------
(* A build in peace: nothing has happened beside it.                       *)
Quiet == run.pc # "idle" /\ past.touched # "during"

(* What a record says of files is what they are.                           *)
Agrees(list) == \A e \in ToSet(list) : e.status = Status(e.file)
Matches(part) == Agrees(part.inputs) /\ Agrees(part.products)
ScanIsTrue(n, x) == n \in DepsNodes /\ x.scan # None /\ Text(n) = Wildcard => x.scan = InDirectory

KnownToMatch(n) ==
  LET x == node[n]
  IN  /\ Matches(x.analysis) /\ ScanIsTrue(n, x)
      /\ x.state = "current" \/ n \notin Leaves => x.version = version[n]
      /\ x.state = "current" => Matches(x.compile)

(* In a build in peace the process knows how things are: what it has       *)
(* looked up, what it has checked and what it has read.                    *)
LooksTrue == \A f \in DOMAIN run.cached : run.cached[f] = Status(f) \/ Writing(f)
ScanTrue == run.scan # None => run.scan = InDirectory
CheckedMatch == \A n \in Checked : KnownToMatch(n)
WorkPart == node[Work.node][Work.stage]
InputsAgree == run.pc = "work" => Agrees(WorkPart.inputs)
DepsScanTrue ==
  Analysing /\ Work.node \in DepsNodes /\ Work.todo = <<>> /\ Text(Work.node) = Wildcard =>
    node[Work.node].scan = InDirectory
QuietOK == LooksTrue /\ ScanTrue /\ CheckedMatch /\ InputsAgree /\ DepsScanTrue
QuietInv == Quiet => QuietOK

LEMMA SameFiles ==
  ASSUME file' = file
  PROVE  /\ InDirectory' = InDirectory
         /\ \A f : Status(f)' = Status(f)
         /\ \A n : Text(n)' = Text(n)
BY DEF InDirectory, Status, Text

(* The files that a node records.                                          *)
LEMMA EntryFiles ==
  ASSUME NEW n, NEW x, HasEntries(n, x)
  PROVE  /\ \A e \in ToSet(x.analysis.inputs) : e.file \in AnalysisReads(n) /\ e.status \in Nat
         /\ \A e \in ToSet(x.analysis.products) : e.file \in AnalysisOf(n) /\ e.status \in Nat
         /\ \A e \in ToSet(x.compile.inputs) : e.file \in CompileReads(n, x.deps) /\ e.status \in Nat
         /\ \A e \in ToSet(x.compile.products) : e.file \in ProductOf(n) /\ e.status \in Nat
         /\ \A e \in Recordings(x) : e.file \in Files
<1>1. ASSUME NEW F, NEW list \in Seq(Entries(F))
      PROVE  \A e \in ToSet(list) : e.file \in F /\ e.status \in Nat
  <2>1. \A e \in ToSet(list) : e \in Entries(F)
    BY SeqElements
  <2> QED BY <2>1 DEF Entries
<1>2. /\ x.analysis.inputs \in Seq(Entries(AnalysisReads(n)))
      /\ x.analysis.products \in Seq(Entries(AnalysisOf(n)))
      /\ x.compile.inputs \in Seq(Entries(CompileReads(n, x.deps)))
      /\ x.compile.products \in Seq(Entries(ProductOf(n)))
  BY DEF HasEntries
<1>3. \A e \in Recordings(x) : e.file \in Files
  <2>1. \A e \in Recordings(x) : e \in Entries(Files)
    BY EntriesAreOfFiles
  <2> QED BY <2>1 DEF Entries
<1> QED BY <1>1, <1>2, <1>3

LEMMA MatchStays ==
  ASSUME NEW n \in Nodes, KnownToMatch(n),
         node'[n].analysis = node[n].analysis, node'[n].version = node[n].version,
         node'[n].scan = node[n].scan,
         node'[n].state = "current" => node[n].state = "current" /\ node'[n].compile = node[n].compile,
         version' = version, Text(n)' = Text(n), InDirectory' = InDirectory,
         \A e \in ToSet(node[n].analysis.inputs) \cup ToSet(node[n].analysis.products) :
           Status(e.file)' = Status(e.file),
         node'[n].state = "current" =>
           \A e \in ToSet(node[n].compile.inputs) \cup ToSet(node[n].compile.products) :
             Status(e.file)' = Status(e.file)
  PROVE  KnownToMatch(n)'
<1>1. Matches(node[n].analysis)'
  BY DEF KnownToMatch, Matches, Agrees
<1>2. ScanIsTrue(n, node[n])'
  BY DEF KnownToMatch, ScanIsTrue
<1>3. (node[n].state = "current" => Matches(node[n].compile))'
  BY DEF KnownToMatch, Matches, Agrees
<1> QED BY <1>1, <1>2, <1>3 DEF KnownToMatch

LEMMA UntouchedMatches ==
  ASSUME NEW n \in Nodes, KnownToMatch(n), node'[n] = node[n], version' = version, file' = file
  PROVE  KnownToMatch(n)'
BY SameFiles, MatchStays

LEMMA LooksStay ==
  ASSUME LooksTrue, NEW F, run'.cached = Resolved(F), file' = file, \A f : Writing(f) => Writing(f)'
  PROVE  LooksTrue'
<1>1. DOMAIN run'.cached = DOMAIN run.cached \cup F /\ \A f \in DOMAIN run'.cached : run'.cached[f] = Resolve(f)
  BY DEF Resolved
<1>2. \A f : Status(f)' = Status(f)
  BY SameFiles
<1>3. \A f \in DOMAIN run'.cached : Resolve(f) = Status(f) \/ Writing(f)
  BY <1>1 DEF Resolve, LooksTrue
<1> QED BY <1>1, <1>2, <1>3 DEF LooksTrue

LEMMA SameLooksTrue ==
  ASSUME LooksTrue, run'.cached = run.cached, file' = file, \A f : Writing(f) => Writing(f)'
  PROVE  LooksTrue'
BY SameFiles DEF LooksTrue

LEMMA ResolveIsTrue ==
  ASSUME LooksTrue, NEW f, ~Writing(f)
  PROVE  Resolve(f) = Status(f)
BY DEF Resolve, LooksTrue

LEMMA ScanIsDirectory ==
  ASSUME ScanTrue
  PROVE  Scan = InDirectory
BY DEF ScanTrue, Scan

(* A step outside of a compiler's work that leaves the files alone.        *)
LEMMA QuietCheck ==
  ASSUME QuietOK, file' = file, run'.cached = run.cached, run'.scan = run.scan, CheckedMatch',
         run.pc # "work", run'.pc # "work"
  PROVE  QuietOK'
<1>1. LooksTrue'
  BY SameLooksTrue DEF QuietOK, Writing
<1>2. ScanTrue'
  BY SameFiles DEF QuietOK, ScanTrue
<1>3. InputsAgree' /\ DepsScanTrue'
  BY DEF InputsAgree, DepsScanTrue, Analysing
<1> QED BY <1>1, <1>2, <1>3 DEF QuietOK

LEMMA PlainQuiet ==
  ASSUME BuildInv, QuietOK, PlainAction
  PROVE  QuietOK'
<1>1. Plain
  BY PlainActions
<1>2. CheckedMatch'
  BY <1>1, UntouchedMatches DEF Plain, QuietOK, CheckedMatch, Checked
<1> QED BY <1>1, <1>2, QuietCheck DEF Plain

(* A node whose files are found to be what it records.                     *)
LEMMA CheckedAnalysis ==
  ASSUME BuildInv, RecordInv, QuietOK, NEW n \in Nodes, NEW stage \in {"analysis", "compile"},
         run.pc = "check", Stale(n, stage) = 0
  PROVE  Matches(node[n][stage])
<1>1. HasEntries(n, node[n])
  BY DEF RecordInv, NodeRecordsOK, NodeOK
<1>2. \A e \in ToSet(node[n][stage].inputs) \cup ToSet(node[n][stage].products) :
        Resolve(e.file) = e.status
  BY <1>1, NotStale
<1>3. \A f : Resolve(f) = Status(f)
  BY ResolveIsTrue DEF QuietOK, Writing
<1> QED BY <1>2, <1>3 DEF Matches, Agrees

LEMMA NothingAgrees == Matches(NoFiles)
<1>1. NoFiles.inputs = <<>> /\ NoFiles.products = <<>>
  BY DEF NoFiles
<1> QED BY <1>1 DEF Matches, Agrees, ToSet

LEMMA CheckFilesQuiet ==
  ASSUME BuildInv, RecordInv, CourseInv, QuietOK, NEW n \in Nodes, CheckFiles(n)
  PROVE  QuietOK'
<1>1. /\ run.pc = "check" /\ disk' = disk /\ run'.cached = Resolved(LooksAt(n))
      /\ run'.scan = (IF Scans(n) THEN Scan ELSE run.scan)
  BY CheckFilesSets, CheckFilesIs DEF BuildInv
<1>2. LooksTrue'
  BY <1>1, LooksStay DEF QuietOK, Writing, disk
<1>3. ScanTrue'
  BY <1>1, SameFiles, ScanIsDirectory DEF QuietOK, ScanTrue, disk
<1>4. ASSUME NEW m \in Checked, m # n, OnlyChanges(n)
      PROVE  KnownToMatch(m)'
  BY <1>1, <1>4, UntouchedMatches DEF OnlyChanges, Checked, QuietOK, CheckedMatch, disk
<1>5. CASE Reanalyses(n) /\ n \notin Leaves
  <2>1. /\ run'.pc = "work" /\ Checked' = Checked /\ n \notin Checked' /\ OnlyChanges(n)
        /\ run'.work.node = n /\ run'.work.todo = <<Source(n)>> /\ Analysing'
        /\ node'[n].analysis = NoFiles
    BY <1>5, AnalysisStarts
  <2>2. CheckedMatch'
    BY <1>4, <2>1 DEF CheckedMatch
  <2>3. DepsScanTrue'
    <3>1. run'.work.todo # <<>>
      <4>1. <<Source(n)>> # <<>>
        OBVIOUS
      <4> QED BY <2>1, <4>1
    <3> QED BY <3>1 DEF DepsScanTrue, Work
  <2>4. InputsAgree'
    <3>1. WorkPart' = NoFiles
      BY <2>1 DEF WorkPart, Work, Analysing
    <3>2. NoFiles.inputs = <<>>
      BY DEF NoFiles
    <3> QED BY <3>1, <3>2 DEF InputsAgree, Agrees, ToSet
  <2> QED BY <1>2, <1>3, <2>2, <2>3, <2>4 DEF QuietOK
<1>6. CASE ~(Reanalyses(n) /\ n \notin Leaves)
  <2>1. /\ run'.pc = "check" /\ Checked' = Checked \cup {n} /\ OnlyChanges(n) /\ n \notin Checked
        /\ node'[n] = AfterFiles(n)
    BY <1>6, CheckGoesOn
  <2>2. IsNode(node[n])
    BY DEF BuildInv, TypesInv, NodesOK
  <2>3. /\ Matches(AfterFiles(n).analysis) /\ ScanIsTrue(n, AfterFiles(n))
        /\ AfterFiles(n).state = "current" \/ n \notin Leaves => AfterFiles(n).version = version[n]
        /\ AfterFiles(n).state = "current" => Matches(AfterFiles(n).compile)
    <3>1. CASE Reanalyses(n)
      <4>1. n \in Leaves /\ n \notin DepsNodes
        BY <1>6, <3>1, BuildSystemAssumption
      <4>2. AfterFiles(n).analysis = NoFiles /\ AfterFiles(n).state = "uncompiled"
        BY <2>2, <3>1, SetStateIsNode DEF AfterFiles
      <4> QED BY <4>1, <4>2, NothingAgrees DEF ScanIsTrue
    <3>2. CASE ~Reanalyses(n)
      <4>1. ChecksAnalysis(n) /\ Stale(n, "analysis") = 0 /\ ~(Scans(n) /\ Scan # node[n].scan)
        BY <3>2 DEF Reanalyses
      <4>2. Matches(node[n].analysis)
        BY <1>1, <4>1, CheckedAnalysis
      <4>3. ScanIsTrue(n, node[n])
        BY <4>1, ScanIsDirectory DEF Scans, ScanIsTrue, QuietOK
      <4>4. node[n].version = version[n]
        BY <4>1 DEF ChecksAnalysis, UpToDate
      <4>5. /\ AfterFiles(n).analysis = node[n].analysis /\ AfterFiles(n).scan = node[n].scan
            /\ AfterFiles(n).version = node[n].version
            /\ AfterFiles(n).state = "current" => ~Recompiles(n) /\ AfterFiles(n) = node[n]
        BY <2>2, <3>2, SetStateIsNode DEF AfterFiles
      <4>6. AfterFiles(n).state = "current" => Stale(n, "compile") = 0
        BY <4>1, <4>5 DEF Recompiles, ChecksCompile, ChecksAnalysis
      <4>7. AfterFiles(n).state = "current" => Matches(AfterFiles(n).compile)
        BY <1>1, <4>5, <4>6, CheckedAnalysis
      <4> QED BY <4>2, <4>3, <4>4, <4>5, <4>7 DEF ScanIsTrue
    <3> QED BY <3>1, <3>2
  <2>4. KnownToMatch(n)'
    <3>1. /\ InDirectory' = InDirectory /\ version' = version
          /\ \A f : Status(f)' = Status(f)
          /\ \A m : Text(m)' = Text(m)
      BY <1>1, SameFiles DEF disk
    <3>2. Matches(node[n].analysis)' /\ (node[n].state = "current" => Matches(node[n].compile))'
      BY <2>1, <2>3, <3>1 DEF Matches, Agrees
    <3>3. ScanIsTrue(n, node[n])'
      BY <2>1, <2>3, <3>1 DEF ScanIsTrue
    <3> QED BY <2>1, <2>3, <3>1, <3>2, <3>3 DEF KnownToMatch
  <2>5. CheckedMatch'
    BY <1>4, <2>1, <2>4 DEF CheckedMatch
  <2>6. InputsAgree' /\ DepsScanTrue'
    BY <2>1 DEF InputsAgree, DepsScanTrue, Analysing
  <2> QED BY <1>2, <1>3, <2>5, <2>6 DEF QuietOK
<1> QED BY <1>5, <1>6

LEMMA DependenciesCheckedQuiet ==
  ASSUME BuildInv, QuietOK, NEW n \in Nodes, DependenciesChecked(n)
  PROVE  QuietOK'
<1>1. /\ run.pc = "check" /\ run'.pc = "check" /\ run.phase[n] = "nodes" /\ disk' = disk
      /\ run'.phase = [run.phase EXCEPT ![n] = "completed"]
      /\ run'.cached = run.cached /\ run'.scan = run.scan
      /\ node' = [node EXCEPT ![n] = SetState(node[n], "uncompiled")] \/ node' = node
  BY DependenciesCheckedSets DEF BuildInv
<1>2. Checked' = Checked
  BY <1>1 DEF Checked, BuildInv, TypesInv, ProcessOK
<1>3. IsNode(node[n]) /\ NodesOK
  BY DEF BuildInv, TypesInv, NodesOK
<1>4. /\ IsNode(SetState(node[n], "uncompiled"))
      /\ SetState(node[n], "uncompiled").state = "uncompiled"
      /\ SetState(node[n], "uncompiled").version = node[n].version
      /\ SetState(node[n], "uncompiled").scan = node[n].scan
      /\ SetState(node[n], "uncompiled").analysis = node[n].analysis
  BY <1>3, SetStateIsNode
<1>5. ASSUME NEW m \in Checked
      PROVE  KnownToMatch(m)'
  <2>1. KnownToMatch(m) /\ m \in Nodes /\ version' = version /\ file' = file
    BY <1>1 DEF QuietOK, CheckedMatch, Checked, disk
  <2>2. CASE node'[m] = node[m]
    BY <2>1, <2>2, UntouchedMatches
  <2>3. CASE m = n /\ node' = [node EXCEPT ![n] = SetState(node[n], "uncompiled")]
    <3>1. node'[n] = SetState(node[n], "uncompiled")
      BY <1>3, <1>4, <2>3, OneNodeChanges
    <3> QED BY <1>4, <2>1, <2>3, <3>1, SameFiles, MatchStays
  <2>4. CASE m # n /\ node' = [node EXCEPT ![n] = SetState(node[n], "uncompiled")]
    <3>1. node'[m] = node[m]
      BY <2>1, <2>4
    <3> QED BY <2>1, <3>1, UntouchedMatches
  <2> QED BY <1>1, <2>2, <2>3, <2>4
<1> QED BY <1>1, <1>2, <1>5, QuietCheck DEF CheckedMatch, disk

LEMMA CompileDepsNodeQuiet ==
  ASSUME BuildInv, RecordInv, QuietOK, CompileDepsNode
  PROVE  QuietOK'
<1>1. PICK n \in Nodes : n = NextNode
  BY CompileDepsNodeIs
<1>2. /\ run.pc = "compile" /\ run'.pc = "compile" /\ Checked' = Checked /\ disk' = disk
      /\ run'.cached = run.cached /\ run'.scan = run.scan /\ OnlyChanges(n)
      /\ node'[n].version = version[n] /\ node'[n].scan = node[n].scan
      /\ node'[n].analysis = node[n].analysis /\ node'[n].compile = NoFiles
  BY <1>1, CompileDepsNodeIs
<1>3. /\ InDirectory' = InDirectory /\ version' = version /\ file' = file
      /\ \A f : Status(f)' = Status(f)
      /\ \A m : Text(m)' = Text(m)
  BY <1>2, SameFiles DEF disk
<1>4. ASSUME NEW m \in Checked
      PROVE  KnownToMatch(m)'
  <2>1. KnownToMatch(m) /\ m \in Nodes
    BY DEF QuietOK, CheckedMatch, Checked
  <2>2. CASE m # n
    BY <1>2, <1>3, <2>1, <2>2, UntouchedMatches DEF OnlyChanges
  <2>3. CASE m = n
    <3>1. Matches(node[n].analysis)' /\ ScanIsTrue(n, node[n])'
      BY <1>2, <1>3, <2>1, <2>3 DEF KnownToMatch, Matches, Agrees, ScanIsTrue
    <3>2. Matches(node[n].compile)'
      <4>1. NoFiles.inputs = <<>> /\ NoFiles.products = <<>>
        BY DEF NoFiles
      <4> QED BY <1>2, <4>1 DEF Matches, Agrees, ToSet
    <3> QED BY <1>2, <1>3, <2>3, <3>1, <3>2 DEF KnownToMatch
  <2> QED BY <2>2, <2>3
<1> QED BY <1>2, <1>3, <1>4, QuietCheck DEF CheckedMatch

LEMMA StartCompileQuiet ==
  ASSUME BuildInv, RecordInv, QuietOK, StartCompile
  PROVE  QuietOK'
<1>1. PICK n \in Nodes : n = NextNode
  BY StartCompileIs
<1>2. /\ run.pc = "compile" /\ run'.pc = "work" /\ Checked' = Checked /\ disk' = disk
      /\ run'.cached = run.cached /\ run'.scan = run.scan /\ OnlyChanges(n)
      /\ Compiling' /\ ~Analysing' /\ run'.work.node = n
      /\ VersionSet(node[n], node'[n], version[n]) /\ node[n].compile = NoFiles
      /\ node[n].state = "uncompiled"
  BY <1>1, StartCompileIs
<1>3. /\ InDirectory' = InDirectory /\ version' = version /\ file' = file
      /\ \A f : Status(f)' = Status(f)
      /\ \A m : Text(m)' = Text(m)
  BY <1>2, SameFiles DEF disk
<1>4. ASSUME NEW m \in Checked
      PROVE  KnownToMatch(m)'
  <2>1. KnownToMatch(m) /\ m \in Nodes
    BY DEF QuietOK, CheckedMatch, Checked
  <2>2. CASE m # n
    BY <1>2, <1>3, <2>1, <2>2, UntouchedMatches DEF OnlyChanges
  <2>3. CASE m = n
    <3>1. Matches(node[n].analysis)' /\ ScanIsTrue(n, node[n])'
      BY <1>2, <1>3, <2>1, <2>3 DEF KnownToMatch, Matches, Agrees, ScanIsTrue, VersionSet
    <3> QED BY <1>2, <1>3, <2>3, <3>1 DEF KnownToMatch, VersionSet
  <2> QED BY <2>2, <2>3
<1>5. LooksTrue'
  BY <1>2, <1>3, SameLooksTrue DEF QuietOK, Writing
<1>6. ScanTrue'
  BY <1>2, <1>3 DEF QuietOK, ScanTrue
<1>7. InputsAgree' /\ DepsScanTrue'
  <2>1. WorkPart' = NoFiles
    BY <1>2 DEF WorkPart, Work, Compiling, VersionSet
  <2>2. NoFiles.inputs = <<>>
    BY DEF NoFiles
  <2> QED BY <1>2, <2>1, <2>2 DEF InputsAgree, DepsScanTrue, Agrees, ToSet
<1> QED BY <1>2, <1>4, <1>5, <1>6, <1>7 DEF QuietOK, CheckedMatch

(* A step of a compiler's work that leaves the files alone.                *)
LEMMA WorkMatches ==
  ASSUME BuildInv, RecordInv, QuietOK, run.pc = "work", Checked' = Checked, disk' = disk,
         NEW n \in Nodes, n = Work.node, OnlyChanges(n),
         Compiling => /\ node'[n].analysis = node[n].analysis /\ node'[n].version = node[n].version
                      /\ node'[n].scan = node[n].scan /\ node'[n].state = node[n].state
  PROVE  CheckedMatch'
<1>1. file' = file /\ version' = version
  BY DEF disk
<1>2. ASSUME NEW m \in Checked
      PROVE  KnownToMatch(m)'
  <2>1. KnownToMatch(m) /\ m \in Nodes
    BY DEF QuietOK, CheckedMatch, Checked
  <2>2. CASE m # n
    BY <1>1, <2>1, <2>2, UntouchedMatches DEF OnlyChanges
  <2>3. CASE m = n
    <3>1. Compiling /\ node[n].state = "uncompiled"
      BY <2>3, WorkedNode
    <3> QED BY <1>1, <2>1, <2>3, <3>1, SameFiles, MatchStays
  <2> QED BY <2>2, <2>3
<1> QED BY <1>2 DEF CheckedMatch

LEMMA ReadingQuiet ==
  ASSUME BuildInv, RecordInv, QuietOK, NEW n \in Nodes, n = Work.node, Work.open, disk' = disk,
         NEW todo, NEW items, NEW made, WorkGoes(todo, FALSE, Work.created, items, made),
         OnlyChanges(n), run'.cached = run.cached, ScanTrue', DepsScanTrue',
         node'[n][Work.stage].inputs = node[n][Work.stage].inputs,
         Compiling => /\ node'[n].analysis = node[n].analysis /\ node'[n].version = node[n].version
                      /\ node'[n].scan = node[n].scan /\ node'[n].state = node[n].state
  PROVE  QuietOK'
<1>1. run.pc = "work" /\ run'.pc = "work" /\ Checked' = Checked /\ run'.work.node = n
      /\ run'.work.stage = Work.stage /\ file' = file
  BY DEF WorkGoes, Work, disk
<1>2. CheckedMatch'
  BY <1>1, WorkMatches
<1>3. ~Work.created
  BY <1>1 DEF BuildInv, TypesInv, WorkOK
<1>4. LooksTrue'
  BY <1>1, <1>3, SameLooksTrue DEF QuietOK, Writing
<1>5. InputsAgree'
  <2>1. WorkPart'.inputs = WorkPart.inputs
    BY <1>1 DEF WorkPart, Work
  <2> QED BY <1>1, <2>1, SameFiles DEF QuietOK, InputsAgree, Agrees
<1> QED BY <1>2, <1>4, <1>5 DEF QuietOK

LEMMA OpenInputQuiet ==
  ASSUME BuildInv, RecordInv, QuietOK, OpenInput
  PROVE  QuietOK'
<1> DEFINE list == WorkPart.inputs
           new == [file |-> PathKept, status |-> Resolve(Reading)]
<1>1. PICK n \in Nodes : n = Work.node
  BY WorkedNode DEF OpenInput
<1>2. /\ Work.todo # <<>> /\ OnlyChanges(n)
      /\ WorkGoes(Work.todo, TRUE, Work.created, Work.items, Work.made)
      /\ disk' = disk /\ file' = file /\ run'.cached = Resolved({Reading}) /\ run'.scan = run.scan
      /\ InputsSet(node[n], node'[n], Work.stage, Recorded(list, PathKept, Resolve(Reading)))
  BY <1>1, OpenInputIs DEF disk, WorkPart
<1>3. run.pc = "work" /\ run'.pc = "work" /\ Checked' = Checked /\ run'.work.node = n
      /\ run'.work.stage = Work.stage /\ run'.work.todo = Work.todo
  BY <1>1, <1>2 DEF WorkGoes, Work
<1>4. CheckedMatch'
  BY <1>1, <1>2, <1>3, WorkMatches DEF InputsSet, Compiling
<1>5. \A f : ~Writing(f)
  BY <1>2, <1>3, NotWriting
<1>6. LooksTrue'
  BY <1>2, <1>5, LooksStay DEF QuietOK
<1>7. ScanTrue'
  BY <1>2, SameFiles DEF QuietOK, ScanTrue
<1>8. DepsScanTrue'
  BY <1>2, <1>3 DEF DepsScanTrue, Work
<1>9. InputsAgree'
  <2>1. list \in Seq(Entries(Files)) /\ PathKept \in Files /\ Resolve(Reading) \in Nat
    <3>1. HasEntries(n, node[n]) /\ Work.stage \in {"analysis", "compile"} /\ Reading \in Files
      BY <1>1, <1>2, <1>3, WorkedNode, ReadingIs DEF BuildInv, TypesInv, WorkOK
    <3>2. list \in Seq(Entries(Files))
      BY <1>1, <3>1, EntriesAreOfFiles DEF WorkPart
    <3>3. Resolve(Reading) \in Nat
      BY <3>1, ResolveIs DEF RecordInv
    <3> QED BY <3>1, <3>2, <3>3, KindsOfFiles DEF PathKept
  <2>2. ToSet(Recorded(list, PathKept, Resolve(Reading))) \subseteq ToSet(list) \cup {new}
    <3> HIDE DEF list
    <3> QED BY <2>1, RecordedIs
  <2>3. WorkPart'.inputs = Recorded(list, PathKept, Resolve(Reading))
    BY <1>2, <1>3 DEF WorkPart, Work, InputsSet
  <2>4. Resolve(Reading) = Status(Reading)
    BY <1>5, ResolveIsTrue DEF QuietOK
  <2>5. Status(PathKept) = Resolve(Reading)
    <3>1. Status(NoFile) = 0
      BY DEF Status, RecordInv, FilesOK, Missing
    <3> QED BY <2>4, <3>1 DEF PathKept
  <2>6. new.status = Status(new.file)
    BY <2>5
  <2>7. \A e \in ToSet(list) : e.status = Status(e.file)
    BY <1>3 DEF QuietOK, InputsAgree, Agrees
  <2>8. \A e \in ToSet(Recorded(list, PathKept, Resolve(Reading))) : e.status = Status(e.file)
    <3> HIDE DEF list, new
    <3> QED BY <2>2, <2>6, <2>7
  <2>9. \A f : Status(f)' = Status(f)
    BY <1>2, SameFiles
  <2> HIDE DEF list, new
  <2> QED BY <2>3, <2>8, <2>9 DEF InputsAgree, Agrees
<1> QED BY <1>4, <1>6, <1>7, <1>8, <1>9 DEF QuietOK

LEMMA ReadDepsFileQuiet ==
  ASSUME BuildInv, RecordInv, QuietOK, NEW n \in DepsNodes, ReadDepsFile(n)
  PROVE  QuietOK'
<1>1. /\ n = Work.node /\ n \in Nodes /\ Work.open /\ Analysing /\ ~Compiling
      /\ OnlyChanges(n) /\ WorkGoes(<<>>, FALSE, Work.created, NamesIn(n), <<Text(n)>>)
      /\ disk' = disk /\ file' = file /\ run'.cached = run.cached
      /\ run'.scan = (IF Text(n) = Wildcard THEN Scan ELSE run.scan)
      /\ ScanSet(node[n], node'[n], IF Text(n) = Wildcard THEN Scan ELSE node[n].scan)
  BY ReadDepsFileIs DEF disk
<1>2. Scan = InDirectory /\ InDirectory' = InDirectory /\ Text(n)' = Text(n)
  BY <1>1, ScanIsDirectory, SameFiles DEF QuietOK
<1>3. ScanTrue'
  BY <1>1, <1>2 DEF QuietOK, ScanTrue
<1>4. DepsScanTrue'
  <2>1. run'.work.node = n
    BY <1>1 DEF WorkGoes, Work
  <2>2. Text(n) = Wildcard => node'[n].scan = InDirectory
    BY <1>1, <1>2 DEF ScanSet
  <2> QED BY <1>2, <2>1, <2>2 DEF DepsScanTrue, Work
<1>5. node'[n][Work.stage].inputs = node[n][Work.stage].inputs
  BY <1>1 DEF ScanSet, Analysing
<1> QED BY <1>1, <1>3, <1>4, <1>5, ReadingQuiet

LEMMA AssetReadingQuiet ==
  ASSUME BuildInv, RecordInv, QuietOK, NEW n \in Nodes \ DepsNodes, n = Work.node, Work.open, disk' = disk,
         NEW todo, NEW items, NEW made, WorkGoes(todo, FALSE, Work.created, items, made),
         OnlyChanges(n), run'.cached = run.cached, run'.scan = run.scan,
         node'[n][Work.stage].inputs = node[n][Work.stage].inputs,
         Compiling => /\ node'[n].analysis = node[n].analysis /\ node'[n].version = node[n].version
                      /\ node'[n].scan = node[n].scan /\ node'[n].state = node[n].state
  PROVE  QuietOK'
<1>1. ScanTrue'
  BY SameFiles DEF QuietOK, ScanTrue, disk
<1>2. DepsScanTrue'
  BY DEF DepsScanTrue, WorkGoes, Work
<1> QED BY <1>1, <1>2, ReadingQuiet

LEMMA ReadAssetSourceQuiet ==
  ASSUME BuildInv, RecordInv, QuietOK, NEW n \in Assets, ReadAssetSource(n)
  PROVE  QuietOK'
<1>1. /\ n = Work.node /\ n \in Nodes /\ Work.open /\ Analysing /\ ~Compiling
      /\ OnlyChanges(n)
      /\ WorkGoes(Of({"optional"}, Text(n)), FALSE, Work.created, Text(n), Work.made)
      /\ disk' = disk /\ run'.cached = run.cached
      /\ run'.scan = run.scan /\ DepsSet(node[n], node'[n], NodesOf(Text(n)))
  BY ReadAssetSourceIs
<1>2. node'[n][Work.stage].inputs = node[n][Work.stage].inputs
  BY <1>1 DEF DepsSet, Analysing
<1> QED BY <1>1, <1>2, AssetIsNoDepsNode, AssetReadingQuiet

LEMMA IndexCASQuiet ==
  ASSUME BuildInv, RecordInv, QuietOK, NEW n \in Assets, IndexCAS(n)
  PROVE  QuietOK'
<1>1. /\ n = Work.node /\ n \in Nodes /\ Work.open /\ Compiling /\ OnlyChanges(n)
      /\ WorkGoes(Tail(Work.todo), FALSE, Work.created, Work.items,
                  Append(Work.made, file[Reading].data))
      /\ disk' = disk /\ run'.cached = run.cached /\ run'.scan = run.scan
      /\ CASSet(node[n], node'[n], node[n].cas \cup {file[Reading].data})
  BY IndexCASIs
<1>2. node'[n][Work.stage].inputs = node[n][Work.stage].inputs
  BY <1>1 DEF CASSet, Compiling
<1> QED BY <1>1, <1>2, AssetIsNoDepsNode, AssetReadingQuiet DEF CASSet

LEMMA OnlyReadsQuiet ==
  ASSUME BuildInv, RecordInv, QuietOK, NEW n \in Assets \cup Leaves, NEW todo, NEW items, NEW made,
         OnlyReads(n, todo, items, made)
  PROVE  QuietOK'
<1>1. /\ n = Work.node /\ Work.open /\ node' = node
      /\ WorkGoes(todo, FALSE, Work.created, items, made)
      /\ disk' = disk /\ run'.cached = run.cached /\ run'.scan = run.scan
  BY OnlyReadsIs
<1>2. OnlyChanges(n)
  BY <1>1 DEF OnlyChanges
<1> QED BY <1>1, <1>2, AssetIsNoDepsNode, AssetReadingQuiet

-----------------------------------------------------------------------------
(* A compiler's output is no file that it or another node has recorded.    *)
LEMMA OwnUnwritten ==
  ASSUME BuildInv, RecordInv, run.pc = "work", NEW n \in Assets \cup Leaves, n = Work.node
  PROVE  /\ \A e \in ToSet(WorkPart.inputs) : e.file # Output /\ e.file \in Files
         /\ Compiling => \A e \in ToSet(node[n].analysis.inputs) \cup ToSet(node[n].analysis.products) :
                           e.file # Output /\ e.file \in Files
<1>1. HasEntries(n, node[n]) /\ (Analysing \/ Compiling)
  BY WorkedNode
<1>2. /\ \A e \in ToSet(node[n].analysis.inputs) : e.file \in AnalysisReads(n)
      /\ \A e \in ToSet(node[n].analysis.products) : e.file \in AnalysisOf(n)
      /\ \A e \in ToSet(node[n].compile.inputs) : e.file \in CompileReads(n, node[n].deps)
      /\ \A e \in Recordings(node[n]) : e.file \in Files
  BY <1>1, EntryFiles
<1>3. /\ Analysing => Output = Analysis(n) /\ WorkPart = node[n].analysis
      /\ Compiling => Output = Product(n) /\ WorkPart = node[n].compile
  BY OutputIs DEF Analysing, Compiling, WorkPart
<1>4. \A f \in AnalysisReads(n) : f # Analysis(n) /\ f # Product(n)
  BY FileKinds DEF AnalysisReads, Sources, OptionalOf
<1>5. \A f \in AnalysisOf(n) : f # Product(n)
  BY FileKinds DEF AnalysisOf
<1>6. \A f \in CompileReads(n, node[n].deps) : f # Product(n)
  <2>1. \A f \in LeafProducts(node[n].deps) : f # Product(n)
    <3>1. n \in Leaves => ToSet(node[n].deps) = {}
      BY <1>1 DEF HasEntries, ToSet
    <3> QED BY <3>1, FileKinds DEF LeafProducts
  <2> QED BY <1>4, <1>5, <2>1 DEF CompileReads
<1> QED BY <1>1, <1>2, <1>3, <1>4, <1>5, <1>6 DEF Recordings

LEMMA OthersUnwritten ==
  ASSUME BuildInv, RecordInv, CourseInv, run.pc = "work", Work.node \in Assets \cup Leaves,
         NEW m \in Checked, m # Work.node
  PROVE  /\ \A e \in ToSet(node[m].analysis.inputs) \cup ToSet(node[m].analysis.products) :
              e.file # Output /\ e.file \in Files
         /\ node[m].state = "current" =>
              \A e \in ToSet(node[m].compile.inputs) \cup ToSet(node[m].compile.products) :
                e.file # Output /\ e.file \in Files
<1> DEFINE n == Work.node
<1>1. m \in Nodes /\ HasEntries(m, node[m]) /\ (Analysing \/ Compiling)
  BY WorkedNode DEF Checked, RecordInv, NodeRecordsOK, NodeOK
<1>2. /\ \A e \in ToSet(node[m].analysis.inputs) : e.file \in AnalysisReads(m)
      /\ \A e \in ToSet(node[m].analysis.products) : e.file \in AnalysisOf(m)
      /\ \A e \in ToSet(node[m].compile.inputs) : e.file \in CompileReads(m, node[m].deps)
      /\ \A e \in ToSet(node[m].compile.products) : e.file \in ProductOf(m)
      /\ \A e \in Recordings(node[m]) : e.file \in Files
  BY <1>1, EntryFiles
<1>3. Output = Analysis(n) \/ (Compiling /\ Output = Product(n))
  BY <1>1, OutputIs
<1>4. \A f \in AnalysisReads(m) : f # Output
  BY <1>3, FileKinds DEF AnalysisReads, Sources, OptionalOf
<1>5. \A f \in AnalysisOf(m) \cup ProductOf(m) : f # Output
  BY <1>3, FileKinds DEF AnalysisOf, ProductOf
<1>6. ASSUME node[m].state = "current", NEW f \in LeafProducts(node[m].deps)
      PROVE  f # Output
  <2>1. PICK d \in Deps(m) : f = Product(d)
    BY DEF LeafProducts, Deps
  <2>2. CASE Compiling
    <3>1. ~Checking
      BY <2>2 DEF Compiling, Checking, Analysing
    <3>2. Searched /\ m \in Found
      BY <2>2, <3>1 DEF BuildInv, GraphInv, SearchOK, FoundOK, ControlOK, Searched, Compiling, Checked
    <3>3. node[d].state = "current"
      BY <1>6, <2>1, <3>2, AllCompleted DEF CourseInv, CurrentOK
    <3>4. node[n].state = "uncompiled"
      BY <2>2, WorkedNode
    <3> QED BY <1>3, <2>1, <3>3, <3>4, FileKinds
  <2>3. CASE ~Compiling
    BY <1>3, <2>1, <2>3, FileKinds
  <2> QED BY <2>2, <2>3
<1> QED BY <1>1, <1>2, <1>4, <1>5, <1>6 DEF Recordings, CompileReads

(* What its writing changes: the status of that file alone.                *)
LEMMA OnlyOutputChanges ==
  ASSUME BuildInv, RecordInv, run.pc = "work", Work.node \in Assets \cup Leaves, NEW data,
         file' = Written(Output, data), cache' = cache
  PROVE  /\ InDirectory' = InDirectory /\ \A m \in Nodes : Text(m)' = Text(m)
         /\ \A f \in Files : f # Output => Status(f)' = Status(f)
         /\ \A f \in Files : f = Output => Status(f)' = NewStatus(f)
<1>1. /\ file'[Output] = [status |-> NewStatus(Output), data |-> data]
      /\ \A f \in Files : f # Output => Status(f)' = Status(f) /\ file'[f] = file[f]
  BY OutputWritten
<1>2. \A m \in Nodes : file'[Source(m)] = file[Source(m)]
  BY <1>1, OutputIsMade, KindsOfFiles
<1>3. InDirectory' = InDirectory
  BY <1>2 DEF InDirectory
<1>4. \A m \in Nodes : Text(m)' = Text(m)
  BY <1>2 DEF Text
<1>5. \A f \in Files : f = Output => Status(f)' = NewStatus(f)
  BY <1>1 DEF Status
<1> QED BY <1>1, <1>3, <1>4, <1>5

LEMMA OthersMatch ==
  ASSUME BuildInv, RecordInv, CourseInv, QuietOK, run.pc = "work", Work.node \in Assets \cup Leaves,
         NEW data, file' = Written(Output, data), cache' = cache, version' = version,
         OnlyChanges(Work.node), NEW m \in Checked, m # Work.node
  PROVE  KnownToMatch(m)'
<1>1. KnownToMatch(m) /\ m \in Nodes /\ node'[m] = node[m]
  BY DEF QuietOK, CheckedMatch, Checked, OnlyChanges
<1>2. /\ InDirectory' = InDirectory /\ Text(m)' = Text(m)
      /\ \A f \in Files : f # Output => Status(f)' = Status(f)
  BY <1>1, OnlyOutputChanges
<1>3. /\ \A e \in ToSet(node[m].analysis.inputs) \cup ToSet(node[m].analysis.products) :
           Status(e.file)' = Status(e.file)
      /\ node[m].state = "current" =>
           \A e \in ToSet(node[m].compile.inputs) \cup ToSet(node[m].compile.products) :
             Status(e.file)' = Status(e.file)
  BY <1>2, OthersUnwritten
<1> QED BY <1>1, <1>2, <1>3, MatchStays

LEMMA CreateOutputQuiet ==
  ASSUME BuildInv, RecordInv, CourseInv, QuietOK, CreateOutput
  PROVE  QuietOK'
<1>1. PICK n : n = Work.node
  OBVIOUS
<1>2. /\ n \in Assets \cup Leaves /\ n \in Nodes /\ Work.todo = <<>> /\ OnlyChanges(n)
      /\ WorkGoes(Work.todo, Work.open, TRUE, Work.items, Work.made)
      /\ file' = Written(Output, Partial) /\ cache' = cache /\ version' = version /\ Output' = Output
      /\ run'.cached = run.cached /\ run'.scan = run.scan
      /\ \E list : ProductsSet(node[n], node'[n], Work.stage, list)
  BY <1>1, CreateOutputIs
<1>3. /\ run.pc = "work" /\ run'.pc = "work" /\ Checked' = Checked /\ run'.work.node = n
      /\ run'.work.stage = Work.stage /\ run'.work.created = TRUE /\ (Compiling \/ Analysing)
      /\ Work.stage \in {"analysis", "compile"}
  BY <1>1, <1>2, WorkedNode DEF WorkGoes, Work, Compiling, Analysing
<1>4. /\ InDirectory' = InDirectory /\ Text(n)' = Text(n)
      /\ \A f \in Files : f # Output => Status(f)' = Status(f)
  BY <1>1, <1>2, <1>3, OnlyOutputChanges
<1>5. LooksTrue'
  <2>1. ASSUME NEW f \in DOMAIN run.cached
        PROVE  run.cached[f] = Status(f)' \/ f = Output
    <3>1. f \in Files /\ (run.cached[f] = Status(f) \/ f = Output)
      BY DEF RecordInv, LookedUpOK, QuietOK, LooksTrue, Writing
    <3> QED BY <1>4, <3>1
  <2>2. \A f : f = Output => Writing(f)'
    BY <1>2, <1>3 DEF Writing, Work
  <2> QED BY <1>2, <2>1, <2>2 DEF LooksTrue
<1>6. ScanTrue'
  BY <1>2, <1>4 DEF QuietOK, ScanTrue
<1>7. DepsScanTrue'
  BY <1>2, <1>3, AssetIsNoDepsNode DEF DepsScanTrue, Work
<1>8. InputsAgree'
  <2>1. WorkPart'.inputs = WorkPart.inputs
    BY <1>1, <1>2, <1>3 DEF WorkPart, Work, ProductsSet
  <2>2. \A e \in ToSet(WorkPart.inputs) : e.status = Status(e.file)'
    BY <1>1, <1>2, <1>3, <1>4, OwnUnwritten DEF QuietOK, InputsAgree, Agrees
  <2> QED BY <2>1, <2>2 DEF InputsAgree, Agrees
<1>9. CheckedMatch'
  <2>1. ASSUME NEW m \in Checked
        PROVE  KnownToMatch(m)'
    <3>1. CASE m # n
      BY <1>1, <1>2, <1>3, <3>1, OthersMatch
    <3>2. CASE m = n
      <4>1. Compiling /\ node[n].state = "uncompiled" /\ KnownToMatch(n)
        BY <1>1, <1>3, <3>2, WorkedNode DEF QuietOK, CheckedMatch
      <4>2. /\ node'[n].analysis = node[n].analysis /\ node'[n].version = node[n].version
            /\ node'[n].scan = node[n].scan /\ node'[n].state = node[n].state
        BY <1>2, <4>1 DEF ProductsSet, Compiling
      <4>3. \A e \in ToSet(node[n].analysis.inputs) \cup ToSet(node[n].analysis.products) :
              Status(e.file)' = Status(e.file)
        BY <1>1, <1>2, <1>3, <1>4, <4>1, OwnUnwritten
      <4>4. node'[n].state # "current"
        BY <4>1, <4>2
      <4> HIDE DEF ProductsSet
      <4> QED BY <1>2, <1>4, <3>2, <4>1, <4>2, <4>3, <4>4, MatchStays
    <3> QED BY <3>1, <3>2
  <2> QED BY <1>3, <2>1 DEF CheckedMatch
<1> QED BY <1>5, <1>6, <1>7, <1>8, <1>9 DEF QuietOK

LEMMA CloseOutputQuiet ==
  ASSUME BuildInv, RecordInv, CourseInv, QuietOK, CloseOutput
  PROVE  QuietOK'
<1>1. PICK n : n = Work.node
  OBVIOUS
<1> DEFINE s == NewStatus(Output)
<1>2. /\ n \in Assets \cup Leaves /\ n \in Nodes /\ OnlyChanges(n)
      /\ run'.pc # "work" /\ ~Analysing'
      /\ run'.cached = With(run.cached, Output, s) /\ run'.scan = run.scan
      /\ file' = Written(Output, <<version[n], Outcome>>) /\ cache' = cache /\ version' = version
      /\ node'[n].version = node[n].version /\ node'[n].scan = node[n].scan
      /\ Analysing =>
           /\ Checked' = Checked \cup {n} /\ n \in Assets
           /\ node'[n].state = "uncompiled"
           /\ node'[n].analysis.inputs = node[n].analysis.inputs
           /\ OnlyHas(node'[n].analysis.products, Output, s)
      /\ Compiling =>
           /\ Checked' = Checked
           /\ node'[n].state = "current" /\ node'[n].analysis = node[n].analysis
           /\ node'[n].compile.inputs = node[n].compile.inputs
           /\ OnlyHas(node'[n].compile.products, Output, s)
  BY <1>1, CloseOutputIs
<1>3. run.pc = "work" /\ (Analysing \/ Compiling) /\ n \notin DepsNodes
  BY <1>1, <1>2, WorkedNode, AssetIsNoDepsNode DEF CloseOutput
<1>4. /\ InDirectory' = InDirectory /\ Text(n)' = Text(n)
      /\ \A f \in Files : f # Output => Status(f)' = Status(f)
      /\ \A f \in Files : f = Output => Status(f)' = s
  BY <1>1, <1>2, <1>3, OnlyOutputChanges
<1>5. Output \in Files
  BY <1>1, <1>2, <1>3, OutputIs
<1> HIDE DEF s
<1>6. LooksTrue'
  <2>1. /\ DOMAIN run'.cached = DOMAIN run.cached \cup {Output}
        /\ \A f \in DOMAIN run'.cached : run'.cached[f] = IF f = Output THEN s ELSE run.cached[f]
    BY <1>2 DEF With
  <2>2. ASSUME NEW f \in DOMAIN run'.cached
        PROVE  run'.cached[f] = Status(f)'
    <3>1. CASE f = Output
      BY <1>4, <1>5, <2>1, <3>1
    <3>2. CASE f # Output
      <4>1. f \in DOMAIN run.cached /\ f \in Files /\ run.cached[f] = Status(f)
        BY <2>1, <3>2 DEF RecordInv, LookedUpOK, QuietOK, LooksTrue, Writing
      <4> QED BY <1>4, <2>1, <3>2, <4>1
    <3> QED BY <3>1, <3>2
  <2> QED BY <2>2 DEF LooksTrue
<1>7. ScanTrue'
  BY <1>2, <1>4 DEF QuietOK, ScanTrue
<1>8. InputsAgree' /\ DepsScanTrue'
  BY <1>2 DEF InputsAgree, DepsScanTrue
<1>9. \A e \in ToSet(WorkPart.inputs) : e.status = Status(e.file)'
  BY <1>1, <1>2, <1>3, <1>4, OwnUnwritten DEF QuietOK, InputsAgree, Agrees
<1>10. ASSUME NEW list, OnlyHas(list, Output, s)
       PROVE  \A e \in ToSet(list) : e.status = Status(e.file)'
  BY <1>4, <1>5, <1>10 DEF OnlyHas
<1>11. node'[n].version = version'[n]
  BY <1>1, <1>2, <1>3 DEF CourseInv, VersionOK
<1>12. KnownToMatch(n)'
  <2>1. CASE Analysing
    <3>1. WorkPart.inputs = node[n].analysis.inputs
      BY <1>1, <2>1 DEF WorkPart, Analysing
    <3>2. Matches(node[n].analysis)'
      BY <1>2, <1>9, <1>10, <2>1, <3>1 DEF Matches, Agrees
    <3>3. node'[n].state # "current"
      BY <1>2, <2>1
    <3> QED BY <1>3, <1>11, <3>2, <3>3 DEF KnownToMatch, ScanIsTrue
  <2>2. CASE Compiling
    <3>1. WorkPart.inputs = node[n].compile.inputs
      BY <1>1, <2>2 DEF WorkPart, Compiling
    <3>2. Matches(node[n].compile)'
      BY <1>2, <1>9, <1>10, <2>2, <3>1 DEF Matches, Agrees
    <3>3. Matches(node[n].analysis)
      BY <1>1, <2>2, CompilingIsChecked DEF QuietOK, CheckedMatch, KnownToMatch
    <3>4. \A e \in ToSet(node[n].analysis.inputs) \cup ToSet(node[n].analysis.products) :
            e.status = Status(e.file)'
      BY <1>1, <1>2, <1>3, <1>4, <2>2, <3>3, OwnUnwritten DEF Matches, Agrees
    <3>5. Matches(node[n].analysis)'
      BY <1>2, <2>2, <3>4 DEF Matches, Agrees
    <3> QED BY <1>3, <1>11, <3>2, <3>5 DEF KnownToMatch, ScanIsTrue
  <2> QED BY <1>3, <2>1, <2>2
<1>13. CheckedMatch'
  <2>1. ASSUME NEW m \in Checked, m # n
        PROVE  KnownToMatch(m)'
    BY <1>1, <1>2, <1>3, <2>1, OthersMatch
  <2>2. Checked' \subseteq Checked \cup {n}
    BY <1>2, <1>3
  <2> QED BY <1>12, <2>1, <2>2 DEF CheckedMatch
<1> QED BY <1>6, <1>7, <1>8, <1>13 DEF QuietOK

LEMMA DepsFileAnalysedQuiet ==
  ASSUME BuildInv, RecordInv, CourseInv, QuietOK, DepsFileAnalysed
  PROVE  QuietOK'
<1>1. PICK n : n = Work.node
  OBVIOUS
<1> DEFINE list == node[n].analysis.inputs
<1>2. /\ n \in DepsNodes /\ n \in Nodes /\ n \notin Assets \cup Leaves /\ Work.todo = <<>>
      /\ Analysing /\ OnlyChanges(n) /\ run'.pc = "check"
      /\ run'.cached = Resolved(ToSet(ListedFiles)) /\ run'.scan = run.scan
      /\ disk' = disk /\ file' = file /\ version' = version /\ Checked' = Checked \cup {n}
      /\ node'[n].version = node[n].version /\ node'[n].scan = node[n].scan
      /\ node'[n].state = "uncompiled"
      /\ node'[n].analysis.inputs = AllRecorded(list, ListedFiles)
      /\ node'[n].analysis.products = <<>> /\ ListedFiles \in Seq(Sources)
  BY <1>1, DepsFileAnalysedIs DEF disk
<1>3. run.pc = "work" /\ ~Work.created /\ (\A f : ~Writing(f)) /\ HasEntries(n, node[n])
  <2>1. run.pc = "work" /\ HasEntries(n, node[n])
    BY <1>1, <1>2, WorkedNode DEF Analysing
  <2> QED BY <1>1, <1>2, <2>1 DEF BuildInv, TypesInv, WorkOK, Writing
<1>4. /\ InDirectory' = InDirectory /\ Text(n)' = Text(n)
      /\ \A f : Status(f)' = Status(f)
  BY <1>2, SameFiles
<1>5. LooksTrue'
  BY <1>2, <1>3, LooksStay DEF QuietOK
<1>6. ScanTrue'
  BY <1>2, <1>4 DEF QuietOK, ScanTrue
<1>7. InputsAgree' /\ DepsScanTrue'
  BY <1>2 DEF InputsAgree, DepsScanTrue, Analysing
<1>8. Agrees(list)
  <2>1. WorkPart = node[n].analysis
    BY <1>1, <1>2 DEF WorkPart, Analysing
  <2> QED BY <1>3, <2>1 DEF QuietOK, InputsAgree
<1>9. \A e \in ToSet(AllRecorded(list, ListedFiles)) : e.status = Status(e.file)
  <2>1. list \in Seq(Entries(Files))
    BY <1>3, EntriesAreOfFiles
  <2>2. ListedFiles \in Seq(Files)
    <3>1. ToSet(ListedFiles) \subseteq Sources
      BY <1>2, SeqElements
    <3>2. Sources \subseteq Files
      BY KindsOfFiles DEF Sources
    <3> QED BY <1>2, <3>1, <3>2, NarrowSeq
  <2>3. \A f \in Files : Resolve(f) \in Nat
    BY ResolveIs DEF RecordInv
  <2>4. \A e \in ToSet(AllRecorded(list, ListedFiles)) :
          e \in ToSet(list) \/ (e.file \in Files /\ e.status = Resolve(e.file))
    <3> HIDE DEF list
    <3> QED BY <2>1, <2>2, <2>3, AllRecordedIs
  <2>5. \A f : Resolve(f) = Status(f)
    BY <1>3, ResolveIsTrue DEF QuietOK
  <2> HIDE DEF list
  <2> QED BY <1>8, <2>4, <2>5 DEF Agrees
<1>10. KnownToMatch(n)'
  <2>1. Matches(node[n].analysis)'
    <3>1. ToSet(<<>>) = {}
      BY DEF ToSet
    <3> HIDE DEF list
    <3> QED BY <1>2, <1>4, <1>9, <3>1 DEF Matches, Agrees
  <2>2. ScanIsTrue(n, node[n])'
    BY <1>1, <1>2, <1>4 DEF ScanIsTrue, QuietOK, DepsScanTrue
  <2>3. node'[n].version = version'[n]
    BY <1>1, <1>2, <1>3 DEF CourseInv, VersionOK
  <2>4. node'[n].state # "current"
    BY <1>2
  <2> QED BY <2>1, <2>2, <2>3, <2>4 DEF KnownToMatch
<1>11. CheckedMatch'
  <2>1. ASSUME NEW m \in Checked, m # n
        PROVE  KnownToMatch(m)'
    <3>1. KnownToMatch(m) /\ m \in Nodes /\ node'[m] = node[m]
      BY <1>2, <2>1 DEF QuietOK, CheckedMatch, Checked, OnlyChanges
    <3> QED BY <1>2, <3>1, UntouchedMatches
  <2> QED BY <1>2, <1>10, <2>1 DEF CheckedMatch
<1> QED BY <1>5, <1>6, <1>7, <1>11 DEF QuietOK

-----------------------------------------------------------------------------
LEMMA WorkingQuiet ==
  ASSUME BuildInv, RecordInv, CourseInv, QuietOK, StepOfWork
  PROVE  QuietOK'
<1>1. ASSUME NEW n \in Assets, TryOptional(n) \/ ReadAnalysis(n)
      PROVE  QuietOK'
  BY <1>1, TryOptionalSets, ReadAnalysisSets, OnlyReadsQuiet DEF BuildInv
<1>2. ASSUME NEW n \in Leaves, ReadLeaf(n)
      PROVE  QuietOK'
  BY <1>2, ReadLeafSets, OnlyReadsQuiet DEF BuildInv
<1> QED BY <1>1, <1>2, CompileDepsNodeQuiet, StartCompileQuiet, OpenInputQuiet, DepsFileAnalysedQuiet,
           CreateOutputQuiet, CloseOutputQuiet, ReadDepsFileQuiet, ReadAssetSourceQuiet, IndexCASQuiet
    DEF StepOfWork

LEMMA StepKeepsPast ==
  ASSUME BuildInv, RecordInv, PastOK, StepOfProcess
  PROVE  past'.touched = past.touched /\ past'.removed = past.removed /\ past'.result = past.result
         /\ (past'.torn = past.torn \/ CreateCatalog)
<1> USE DEF BuildInv
<1>1. ASSUME StepOfCheck, ~CreateCatalog
      PROVE  past' = past
  BY <1>1 DEF StepOfCheck, PlainAction, CheckFiles, DependenciesChecked, CheckDependency, Stratify,
              NotCompiledAgain, NothingToExport, WriteCatalog, CopyContent, MoveContent, WriteInstance
<1>2. ASSUME StepOfWork
      PROVE  past' = past
  BY <1>2 DEF StepOfWork, CompileDepsNode, StartCompile, OpenInput, DepsFileAnalysed, CreateOutput,
              CloseOutput, ReadDepsFile, ReadAssetSource, TryOptional, ReadAnalysis, IndexCAS, ReadLeaf
<1>3. ASSUME CreateCatalog
      PROVE  past'.touched = past.touched /\ past'.removed = past.removed /\ past'.result = past.result
  BY <1>3 DEF CreateCatalog, PastOK, HasPast
<1> QED BY <1>1, <1>2, <1>3 DEF StepOfProcess

LEMMA NextQuiet ==
  ASSUME BuildInv, RecordInv, PastOK, CourseInv, QuietInv, [Next]_bsVars
  PROVE  QuietInv'
<1>1. CASE Begin
  <2>1. run'.cached = <<>> /\ run'.scan = None /\ run'.pc = "check" /\ Checked' = {}
    BY <1>1, BeginSets, RootIsNode, BeginSetsNodes DEF BuildInv
  <2>2. LooksTrue' /\ ScanTrue' /\ CheckedMatch' /\ InputsAgree' /\ DepsScanTrue'
    BY <2>1 DEF LooksTrue, ScanTrue, CheckedMatch, InputsAgree, DepsScanTrue, Analysing
  <2> QED BY <2>2 DEF QuietInv, QuietOK
<1>2. CASE StepOfProcess
  <2>1. run.pc # "idle" /\ past'.touched = past.touched
    BY <1>2, StepHasRun, StepKeepsPast
  <2>2. QuietOK => QuietOK'
    BY <1>2, PlainQuiet, CheckFilesQuiet, DependenciesCheckedQuiet, WorkingQuiet
       DEF StepOfProcess, StepOfCheck
  <2> QED BY <2>1, <2>2 DEF QuietInv, Quiet
<1>3. CASE WriteHeader \/ GivesUp
  <2>1. run'.pc = "idle"
    BY <1>3, GivesUpIs, NoRunFields DEF WriteHeader
  <2> QED BY <2>1 DEF QuietInv, Quiet
<1>4. CASE Environment
  <2>1. run' = run /\ past'.touched = IF run.pc = "idle" THEN "before" ELSE "during"
    BY <1>4, EnvironmentSets, EnvironmentDisturbs
  <2> QED BY <2>1 DEF QuietInv, Quiet
<1>5. CASE UNCHANGED bsVars
  <2>1. /\ node' = node /\ run' = run /\ file' = file /\ version' = version /\ past' = past
    BY <1>5 DEF bsVars, disk
  <2>2. QuietInv' <=> QuietInv
    <3>1. \A n : KnownToMatch(n)' <=> KnownToMatch(n)
      BY <2>1 DEF KnownToMatch, Matches, Agrees, ScanIsTrue, Status, Text, InDirectory
    <3>2. Checked' = Checked /\ Work' = Work /\ WorkPart' = WorkPart /\ InDirectory' = InDirectory
          /\ (Analysing' <=> Analysing)
      BY <2>1 DEF Checked, Work, WorkPart, InDirectory, Analysing
    <3>3. \A f : (Writing(f)' <=> Writing(f)) /\ Status(f)' = Status(f) /\ Text(f)' = Text(f)
      BY <2>1 DEF Writing, Status, Text, Work, Output
    <3> QED BY <2>1, <3>1, <3>2, <3>3
        DEF QuietInv, Quiet, QuietOK, LooksTrue, ScanTrue, CheckedMatch, InputsAgree, DepsScanTrue, Agrees
  <2> QED BY <2>2
<1> QED BY <1>1, <1>2, <1>3, <1>4, <1>5, StepIs

LEMMA InitQuiet ==
  ASSUME Init
  PROVE  QuietInv
<1>1. run.pc = "idle"
  BY NoRunFields DEF Init
<1> QED BY <1>1 DEF QuietInv, Quiet

-----------------------------------------------------------------------------
(* A build after one that succeeded while nothing happened.                *)
OnlyWildcards == \A n \in DepsNodes \cap DOMAIN cache.nodes : cache.nodes[n].scan # None => Text(n) = Wildcard

SavedMatches(n) ==
  LET x == cache.nodes[n]
  IN  /\ x.version = version[n] /\ Matches(x.analysis) /\ Matches(x.compile)
      /\ x.cas \subseteq DOMAIN content /\ ScanIsTrue(n, x)
OnlySaved ==
  /\ \A n \in DOMAIN cache.nodes : node[n] = cache.nodes[n]
  /\ Found \subseteq DOMAIN cache.nodes /\ run.pc # "work" /\ run.compiled = {}
CleanOK ==
  /\ Root \in DOMAIN cache.nodes
  /\ \A n \in DOMAIN cache.nodes : SavedMatches(n)
  /\ run.pc # "idle" => OnlySaved
CleanInv == past.touched = "no" /\ OnlyWildcards => CleanOK

(* The files and what is saved of them stay.                               *)
LEMMA SavedStayTrue ==
  ASSUME CleanOK, file' = file, version' = version, DOMAIN content \subseteq DOMAIN content',
         cache'.nodes = cache.nodes, run'.pc # "idle" => OnlySaved'
  PROVE  CleanOK'
<1>1. ASSUME NEW n \in DOMAIN cache.nodes
      PROVE  SavedMatches(n)'
  <2>1. SavedMatches(n)
    BY DEF CleanOK
  <2>2. InDirectory' = InDirectory /\ (\A f : Status(f)' = Status(f)) /\ Text(n)' = Text(n)
    BY SameFiles
  <2> QED BY <2>1, <2>2 DEF SavedMatches, Matches, Agrees, ScanIsTrue
<1> QED BY <1>1 DEF CleanOK

(* Nothing is stale if all that a node records agrees.                     *)
LEMMA IsNotStale ==
  ASSUME NEW n \in Nodes, NEW stage \in {"analysis", "compile"}, HasEntries(n, node[n]),
         Matches(node[n][stage]), \A f : Resolve(f) = Status(f)
  PROVE  Stale(n, stage) = 0
<1> DEFINE inputs == node[n][stage].inputs
           products == node[n][stage].products
           list == inputs \o products
           T(e) == Resolve(e.file) # e.status
<1>1. inputs \in Seq(Entries(Files)) /\ products \in Seq(Entries(Files))
  BY EntriesAreOfFiles
<1>2. list \in Seq(Entries(Files)) /\ ToSet(list) = ToSet(inputs) \cup ToSet(products)
  BY <1>1, ConcatElements
<1>3. Stale(n, stage) = SelectInSeq(list, LAMBDA e : Resolve(e.file) # e.status)
  BY DEF Stale
<1>4. \A e \in ToSet(inputs) \cup ToSet(products) : ~T(e)
  BY DEF Matches, Agrees
<1> HIDE DEF inputs, products, list
<1>5. \A i \in 1..Len(list) : ~T(list[i])
  <2>1. \A i \in 1..Len(list) : list[i] \in ToSet(list)
    BY <1>2, SeqElements
  <2> QED BY <1>2, <1>4, <2>1
<1>6. {j \in 1..Len(list) : T(list[j])} = {}
  BY <1>5
<1>7. Stale(n, stage) = IF {j \in 1..Len(list) : T(list[j])} # {}
                        THEN Min({j \in 1..Len(list) : T(list[j])}) ELSE 0
  BY <1>3 DEF SelectInSeq
<1> QED BY <1>6, <1>7

LEMMA CheckFilesClean ==
  ASSUME BuildInv, RecordInv, CourseInv, QuietOK, CleanOK, OnlyWildcards, NEW n \in Nodes, CheckFiles(n)
  PROVE  CleanOK'
<1>1. /\ run.pc = "check" /\ disk' = disk /\ n \in Found /\ run'.relevant = run.relevant
      /\ run'.compiled = run.compiled
  <2>1. /\ run.pc = "check" /\ run.stack # <<>> /\ n = Top /\ disk' = disk
        /\ run'.relevant = run.relevant /\ run'.compiled = run.compiled
    BY CheckFilesSets DEF BuildInv
  <2>2. n \in Found
    BY <2>1, TopIsLast DEF BuildInv, GraphInv, SearchOK, StackOK
  <2> QED BY <2>1, <2>2
<1>2. /\ OnlySaved /\ n \in DOMAIN cache.nodes /\ node[n] = cache.nodes[n]
      /\ SavedMatches(n) /\ node[n].state = "current" /\ HasEntries(n, node[n])
  BY <1>1 DEF CleanOK, OnlySaved, RecordInv, SavedRecordsOK
<1>3. \A f : Resolve(f) = Status(f)
  BY <1>1, ResolveIsTrue DEF QuietOK, Writing
<1>4. Stale(n, "analysis") = 0 /\ Stale(n, "compile") = 0
  <2>1. Matches(node[n]["analysis"]) /\ Matches(node[n]["compile"])
    BY <1>2 DEF SavedMatches
  <2> QED BY <1>2, <1>3, <2>1, IsNotStale
<1>5. ~Reanalyses(n)
  <2>1. ChecksAnalysis(n)
    BY <1>2 DEF ChecksAnalysis, UpToDate, SavedMatches
  <2>2. Scans(n) => Scan = node[n].scan
    <3>1. SUFFICES ASSUME node[n].scan # None
                   PROVE  Scan = node[n].scan
      BY DEF Scans
    <3>2. n \in DepsNodes
      BY <3>1 DEF CourseInv, ScansOK
    <3>3. Text(n) = Wildcard
      BY <1>2, <3>1, <3>2 DEF OnlyWildcards
    <3> QED BY <1>2, <3>1, <3>2, <3>3, ScanIsDirectory DEF QuietOK, SavedMatches, ScanIsTrue
  <2> QED BY <1>4, <2>1, <2>2 DEF Reanalyses
<1>6. ~Recompiles(n)
  BY <1>2, <1>4 DEF Recompiles, SavedMatches
<1>7. run'.pc = "check" /\ OnlyChanges(n) /\ node'[n] = node[n]
  BY <1>5, <1>6, CheckGoesOn DEF AfterFiles
<1>8. OnlySaved'
  <2>1. cache' = cache /\ Found' = Found /\ DOMAIN cache.nodes \subseteq Nodes
    BY <1>1 DEF disk, Found, BuildInv, TypesInv, SavedOK
  <2>2. \A m \in DOMAIN cache.nodes : node'[m] = node[m]
    BY <1>7, <2>1 DEF OnlyChanges
  <2> QED BY <1>1, <1>2, <1>7, <2>1, <2>2 DEF OnlySaved
<1> QED BY <1>1, <1>8, SavedStayTrue DEF disk

LEMMA DependenciesCheckedClean ==
  ASSUME BuildInv, RecordInv, CourseInv, CleanOK, NEW n \in Nodes, DependenciesChecked(n)
  PROVE  CleanOK'
<1>1. /\ run.pc = "check" /\ run.stack # <<>> /\ n = Top /\ disk' = disk /\ run'.pc = "check"
      /\ run'.relevant = run.relevant /\ run'.compiled = run.compiled
      /\ \/ \E d \in Deps(n) : node[d].state # "current"
         \/ node' = node
  BY DependenciesCheckedSets DEF BuildInv, Deps
<1>2. n \in Found
  BY <1>1, TopIsLast DEF BuildInv, GraphInv, SearchOK, StackOK
<1>3. OnlySaved /\ n \in DOMAIN cache.nodes /\ node[n] = cache.nodes[n]
  BY <1>1, <1>2 DEF CleanOK, OnlySaved
<1>4. \A d \in Deps(n) : node[d].state = "current"
  BY <1>3 DEF CourseInv, ClosedOK, Deps, OnlySaved, RecordInv, SavedRecordsOK
<1>5. OnlySaved'
  <2>1. cache' = cache /\ Found' = Found
    BY <1>1 DEF disk, Found
  <2> QED BY <1>1, <1>3, <1>4, <2>1 DEF OnlySaved
<1> QED BY <1>1, <1>5, SavedStayTrue DEF disk

(* What is found leads to nothing that was not saved.                      *)
LEMMA PlainClean ==
  ASSUME BuildInv, RecordInv, CourseInv, CleanOK, PlainAction
  PROVE  CleanOK'
<1>1. Plain
  BY PlainActions
<1>2. OnlySaved
  BY <1>1 DEF CleanOK, Plain
<1>3. Found' \subseteq DOMAIN cache.nodes
  <2>1. ASSUME NEW n \in Nodes, CheckDependency(n)
        PROVE  Found' \subseteq DOMAIN cache.nodes
    <3>1. PICK d \in Deps(n) : run.stack # <<>> /\ n = Top /\ run.pc = "check"
                               /\ run'.relevant = Append(run.relevant, d) /\ d \in Nodes
      BY <2>1, CheckDependencySets DEF BuildInv, Deps
    <3>2. n \in Found
      BY <3>1, TopIsLast DEF BuildInv, GraphInv, SearchOK, StackOK
    <3>3. d \in DOMAIN cache.nodes
      BY <1>2, <3>2 DEF OnlySaved, CourseInv, ClosedOK, Deps
    <3>4. Found' = Found \cup {d}
      BY <3>1, AppendElements DEF Found, BuildInv, TypesInv, ProcessOK
    <3> QED BY <1>2, <3>3, <3>4 DEF OnlySaved
  <2>2. ASSUME Stratify
        PROVE  Found' = Found
    BY <2>2, StratifySets, StratifiedIs DEF Found, BuildInv
  <2>3. ASSUME NotCompiledAgain \/ NothingToExport \/ CreateCatalog \/ WriteCatalog
               \/ (\E id \in Wanted : CopyContent(id)) \/ MoveContent \/ WriteInstance
        PROVE  Found' = Found
    BY <2>3, NotCompiledAgainSets, NothingToExportSets, CreateCatalogSets, WriteCatalogSets,
       CopyContentSets, MoveContentSets, WriteInstanceSets DEF BuildInv, Kept, Found
  <2> QED BY <1>2, <2>1, <2>2, <2>3 DEF PlainAction, OnlySaved
<1>4. DOMAIN content \subseteq DOMAIN content'
  <2>1. ASSUME MoveContent
        PROVE  DOMAIN content \subseteq DOMAIN content'
    BY <2>1, MoveContentSets DEF BuildInv, With
  <2>2. ASSUME ~MoveContent
        PROVE  content' = content
    BY <2>2 DEF PlainAction, CheckDependency, Stratify, NotCompiledAgain, NothingToExport,
                CreateCatalog, WriteCatalog, CopyContent, WriteInstance, disk
  <2> QED BY <2>1, <2>2
<1>5. OnlySaved'
  BY <1>1, <1>2, <1>3 DEF OnlySaved, Plain
<1> QED BY <1>1, <1>4, <1>5, SavedStayTrue DEF Plain

(* No compiler has work.                                                   *)
LEMMA NoWorkIsDone ==
  ASSUME BuildInv, RecordInv, CleanOK, StepOfWork
  PROVE  FALSE
<1>1. run.pc # "idle"
  BY StepHasRun DEF StepOfProcess
<1>2. OnlySaved
  BY <1>1 DEF CleanOK
<1>3. \A n \in Found : node[n].state = "current"
  BY <1>2 DEF OnlySaved, RecordInv, SavedRecordsOK
<1>4. CompileDepsNode \/ StartCompile
  BY <1>2 DEF OnlySaved, StepOfWork, OpenInput, DepsFileAnalysed, CreateOutput, CloseOutput, AllRead,
              ReadDepsFile, ReadAssetSource, TryOptional, ReadAnalysis, IndexCAS, ReadLeaf, Reads
<1> QED BY <1>3, <1>4, CompileDepsNodeIs, StartCompileIs

LEMMA WriteHeaderClean ==
  ASSUME BuildInv, RecordInv, PastOK, ContentOK, CourseInv, QuietInv, WriteHeader,
         past'.touched = "no"
  PROVE  CleanOK'
<1>1. /\ run.pc = "save" /\ cache'.nodes = run.pending.nodes /\ run'.pc = "idle"
      /\ file' = file /\ content' = content /\ version' = version
      /\ past'.touched = IF past.touched = "during" THEN past.touched ELSE "no"
  BY WriteHeaderSets, NoRunFields DEF BuildInv, PastOK, HasPast
<1>2. QuietOK
  BY <1>1 DEF QuietInv, Quiet
<1>3. cache'.nodes = ToSave /\ DOMAIN ToSave = Nodes \cap Found /\ \A n \in DOMAIN ToSave : ToSave[n] = node[n]
  BY <1>1 DEF RecordInv, ToSave, Found
<1>4. Searched
  <2>1. ~Checking
    BY <1>1 DEF Checking, Analysing
  <2> QED BY <1>1, <2>1 DEF BuildInv, GraphInv, ControlOK, Searched
<1>5. Found = Completed /\ Found \subseteq Checked
  BY <1>4, AllCompleted DEF Completed, Checked
<1>6. Root \in Found /\ Root \in Nodes
  BY <1>4, RootIsNode DEF Searched, SearchOK, FoundOK
<1>7. ASSUME NEW n \in DOMAIN cache'.nodes
      PROVE  SavedMatches(n)'
  <2>1. n \in Found /\ n \in Nodes /\ cache'.nodes[n] = node[n] /\ n \in Checked
    BY <1>3, <1>5
  <2>2. node[n].state = "current" /\ KnownToMatch(n) /\ node[n].cas \subseteq DOMAIN content
    BY <1>1, <1>2, <2>1, AllCurrent DEF QuietOK, CheckedMatch, ContentOK
  <2>3. InDirectory' = InDirectory /\ (\A f : Status(f)' = Status(f)) /\ Text(n)' = Text(n)
    BY <1>1, SameFiles
  <2> QED BY <1>1, <2>1, <2>2, <2>3 DEF SavedMatches, KnownToMatch, Matches, Agrees, ScanIsTrue
<1> QED BY <1>1, <1>3, <1>6, <1>7 DEF CleanOK

(* The steps of the process leave the sources and what is saved alone.     *)
LEMMA StepKeepsTexts ==
  ASSUME BuildInv, RecordInv, StepOfProcess
  PROVE  cache'.nodes = cache.nodes /\ \A n \in Nodes : Text(n)' = Text(n)
<1>1. CASE CreateOutput \/ CloseOutput
  <2>1. run.pc = "work" /\ Work.node \in Assets \cup Leaves /\ cache' = cache
        /\ \E data : file' = Written(Output, data)
    BY <1>1, CreateOutputIs, CloseOutputIs DEF CreateOutput, CloseOutput, AllRead
  <2> QED BY <2>1, OnlyOutputChanges
<1>2. CASE PlainAction
  BY <1>2, PlainActions, SameFiles DEF Plain
<1>3. ASSUME ~CreateOutput, ~CloseOutput, ~PlainAction
      PROVE  disk' = disk
  BY <1>3 DEF StepOfProcess, StepOfCheck, StepOfWork, CheckFiles, DependenciesChecked,
              CompileDepsNode, StartCompile, OpenInput, DepsFileAnalysed, ReadDepsFile,
              ReadAssetSource, TryOptional, ReadAnalysis, IndexCAS, ReadLeaf
<1> QED BY <1>1, <1>2, <1>3, SameFiles DEF disk

LEMMA NextClean ==
  ASSUME BuildInv, RecordInv, PastOK, ContentOK, CourseInv, QuietInv, CleanInv, [Next]_bsVars
  PROVE  CleanInv'
<1>1. CASE Begin
  <2>1. /\ disk' = disk /\ run'.pc = "check" /\ run'.relevant = <<Root>> /\ run'.compiled = {}
        /\ \A n \in Nodes : n \in DOMAIN cache.nodes => node'[n] = cache.nodes[n]
        /\ past'.touched = IF past.touched = "during" THEN "before" ELSE past.touched
    BY <1>1, BeginSets, RootIsNode, BeginSetsNodes DEF BuildInv, Begin, PastOK, HasPast
  <2>2. Found' = {Root} /\ DOMAIN cache.nodes \subseteq Nodes
    BY <2>1 DEF Found, ToSet, BuildInv, TypesInv, SavedOK
  <2>3. past'.touched = "no" /\ OnlyWildcards' => past.touched = "no" /\ OnlyWildcards
    BY <2>1, SameFiles DEF disk, OnlyWildcards
  <2>4. CleanOK => OnlySaved'
    BY <2>1, <2>2 DEF CleanOK, OnlySaved, disk
  <2> QED BY <2>1, <2>3, <2>4, SavedStayTrue DEF CleanInv, disk
<1>2. CASE StepOfProcess
  <2>1. run.pc # "idle" /\ past'.touched = past.touched
    BY <1>2, StepHasRun, StepKeepsPast
  <2>2. OnlyWildcards' => OnlyWildcards
    <3>1. cache'.nodes = cache.nodes /\ \A n \in Nodes : Text(n)' = Text(n)
      BY <1>2, StepKeepsTexts
    <3> QED BY <3>1 DEF OnlyWildcards, Nodes
  <2>3. ASSUME past.touched = "no", OnlyWildcards
        PROVE  CleanOK'
    <3>1. QuietOK /\ CleanOK
      BY <2>1, <2>3 DEF QuietInv, Quiet, CleanInv
    <3> QED BY <1>2, <2>3, <3>1, CheckFilesClean, DependenciesCheckedClean, PlainClean, NoWorkIsDone
        DEF StepOfProcess, StepOfCheck
  <2> QED BY <2>1, <2>2, <2>3 DEF CleanInv
<1>3. CASE WriteHeader
  BY <1>3, WriteHeaderClean DEF CleanInv
<1>4. CASE GivesUp
  <2>1. run'.pc = "idle" /\ disk' = disk /\ past'.touched = past.touched
    BY <1>4, GivesUpIs
  <2>2. OnlyWildcards' => OnlyWildcards
    BY <2>1, SameFiles DEF disk, OnlyWildcards
  <2> QED BY <2>1, <2>2, SavedStayTrue DEF CleanInv, disk
<1>5. CASE Environment
  <2>1. past'.touched = IF run.pc = "idle" THEN "before" ELSE "during"
    BY <1>5, EnvironmentDisturbs
  <2> QED BY <2>1 DEF CleanInv
<1>6. CASE UNCHANGED bsVars
  <2>1. node' = node /\ run' = run /\ disk' = disk /\ past' = past
    BY <1>6 DEF bsVars
  <2>2. (OnlyWildcards' <=> OnlyWildcards) /\ (OnlySaved' <=> OnlySaved)
    BY <2>1, SameFiles DEF disk, OnlyWildcards, OnlySaved, Found
  <2>3. CleanOK => CleanOK'
    BY <2>1, <2>2, SavedStayTrue DEF disk, CleanOK
  <2> QED BY <2>1, <2>2, <2>3 DEF CleanInv
<1> QED BY <1>1, <1>2, <1>3, <1>4, <1>5, <1>6, StepIs

LEMMA InitClean ==
  ASSUME Init
  PROVE  CleanInv
<1>1. past.touched = "before"
  BY DEF Init
<1> QED BY <1>1 DEF CleanInv

(* A build with nothing changed since one that succeeded finds every node  *)
(* as the cache has it: no file that a node recorded has another status,   *)
(* no dependency is out of date, and nothing is analysed or compiled       *)
(* (CheckNodeFilesAndVersion, CheckNodeNodeDependencies, Build).           *)
THEOREM BuildSystemIdleBuildDoesNothing == Spec => []IdleBuildDoesNothing
<1> DEFINE Inv == BuildInv /\ RecordInv /\ PastOK /\ ContentOK /\ CourseInv /\ QuietInv /\ CleanInv
<1>1. Init => Inv
  BY InitBuild, InitRecords, InitContent, InitCourse, InitQuiet, InitClean
<1>2. Inv /\ [Next]_bsVars => Inv'
  BY NextBuild, NextRecords, CircularStep, NextContent, NextCourse, NextQuiet, NextClean
<1>3. Inv => IdleBuildDoesNothing
  <2>1. SUFFICES ASSUME Inv, past.touched = "no", run.pc # "idle",
                        \A n \in DepsNodes : node[n].scan # None => file[Source(n)].data = Wildcard
                 PROVE  Work = NoWork /\ run.compiled = {}
    BY DEF IdleBuildDoesNothing
  <2>2. OnlyWildcards
    BY <2>1 DEF OnlyWildcards, CourseInv, ScansOK, Text
  <2>3. OnlySaved
    BY <2>1, <2>2 DEF CleanInv, CleanOK
  <2> QED BY <2>1, <2>3 DEF OnlySaved, BuildInv, TypesInv, WorkOK
<1> QED
  BY <1>1, <1>2, <1>3, PTL DEF Spec

-----------------------------------------------------------------------------
(* What a record tells of the files fs: as long as a file has the status   *)
(* that was recorded of it, it holds what it held when it was read, and    *)
(* the product what was made of that.  A record with the empty path tells  *)
(* nothing, and neither does a status of 0.                                *)
Noted(list, f) == \E e \in ToSet(list) : e.file = f /\ e.status # 0
MissedIn(list) == \E e \in ToSet(list) : e.file = NoFile
Vouched(fs, list) == \A e \in ToSet(list) : e.status # 0 => e.status = fs[e.file].status
Stands(fs, part) == Vouched(fs, part.inputs) /\ Vouched(fs, part.products)

Holds(fs, n) == fs[Source(n)].data
Names(fs, n) == fs[Analysis(n)].data[2]
DataOf(fs, names) == [i \in DOMAIN names |-> fs[names[i]].data]

AnalysisIs(fs, n, x) ==
  /\ n \in DepsNodes => x.deps = IF Holds(fs, n) = Wildcard THEN x.scan ELSE Holds(fs, n)
  /\ n \in Assets => /\ x.deps = NodesOf(Holds(fs, n)) /\ Names(fs, n) = Holds(fs, n)
                     /\ Optional(n) \in ToSet(Holds(fs, n)) => Noted(x.analysis.inputs, Optional(n))
AnalysisTells(fs, n, x) ==
  \/ n \in Leaves \/ MissedIn(x.analysis.inputs)
  \/ Noted(x.analysis.inputs, Source(n)) /\ (Stands(fs, x.analysis) => AnalysisIs(fs, n, x))

LeafIs(fs, n, x) == fs[Product(n)].data = <<x.version, <<Holds(fs, n)>>>>
AssetIs(fs, n, x) ==
  LET names == FilesIn(Names(fs, n))
  IN  /\ \A f \in ToSet(names) : Noted(x.compile.inputs, f)
      /\ fs[Product(n)].data = <<x.version, DataOf(fs, names)>>
CompileTells(fs, n, x) ==
  \/ n \in DepsNodes \/ MissedIn(x.compile.inputs)
  \/ n \in Leaves /\ Noted(x.compile.inputs, Source(n)) /\ (Stands(fs, x.compile) => LeafIs(fs, n, x))
  \/ n \in Assets /\ Noted(x.compile.inputs, Analysis(n)) /\ (Stands(fs, x.compile) => AssetIs(fs, n, x))

ProductNoted(n, x) == n \notin DepsNodes => Noted(x.compile.products, Product(n))
Tells(fs, n, x) ==
  /\ x.state # "unanalyzed" => AnalysisTells(fs, n, x)
  /\ x.state = "current" => CompileTells(fs, n, x) /\ ProductNoted(n, x)

(* The work w on a node x knows as much.                                   *)
IsList(s) == \E S : s \in Seq(S)
Looked(list, cached) ==
  \A e \in ToSet(list) : e.file = NoFile \/ (e.file \in DOMAIN cached /\ cached[e.file] = e.status)
DepsRead(fs, w, x, list) ==
  \/ MissedIn(list)
  \/ /\ Noted(list, Source(w.node))
     /\ Vouched(fs, list) =>
          w.items = IF Holds(fs, w.node) = Wildcard THEN x.scan ELSE Holds(fs, w.node)
AssetRead(fs, w, x, list) ==
  \/ MissedIn(list)
  \/ /\ Noted(list, Source(w.node))
     /\ Vouched(fs, list) =>
          /\ x.deps = NodesOf(Holds(fs, w.node)) /\ w.items = Holds(fs, w.node)
          /\ Optional(w.node) \in ToSet(Holds(fs, w.node)) =>
               w.todo # <<>> \/ Noted(list, Optional(w.node))
LeafRead(fs, w, list) ==
  \/ MissedIn(list)
  \/ Noted(list, Source(w.node)) /\ (Vouched(fs, list) => w.made = <<Holds(fs, w.node)>>)
PartMade(fs, w, list, names) ==
  \/ MissedIn(list)
  \/ /\ Noted(list, Analysis(w.node)) /\ \A i \in 1..Len(w.made) : Noted(list, names[i])
     /\ Vouched(fs, list) => \A i \in 1..Len(w.made) : w.made[i] = fs[names[i]].data
AssetMade(fs, w, list, names) ==
  /\ IsList(w.made) /\ Len(names) = Len(w.made) + Len(w.todo)
  /\ \A i \in 1..Len(w.todo) : w.todo[i] = names[Len(w.made) + i]
  /\ PartMade(fs, w, list, names)

AnalysisKnows(fs, w, x, list) ==
  /\ w.node \in DepsNodes /\ w.todo = <<>> => DepsRead(fs, w, x, list)
  /\ w.node \in Assets /\ w.todo # <<Source(w.node)>> => AssetRead(fs, w, x, list)
CompileKnows(fs, w, list) ==
  /\ w.node \in Leaves /\ w.todo = <<>> => LeafRead(fs, w, list)
  /\ w.node \in Assets /\ w.todo = <<Analysis(w.node)>> => w.made = <<>>
  /\ w.node \in Assets /\ w.todo # <<Analysis(w.node)>> =>
       AssetMade(fs, w, list, FilesIn(Names(fs, w.node)))
WorkTells(fs, w, x, list, cached) ==
  /\ Looked(list, cached)
  /\ w.open => MissedIn(list) \/ Noted(list, Head(w.todo))
  /\ w.stage = "analysis" => AnalysisKnows(fs, w, x, list)
  /\ w.stage = "compile" => CompileKnows(fs, w, list)

TellsInv ==
  /\ \A n \in Nodes : Tells(file, n, node[n])
  /\ \A n \in DOMAIN cache.nodes : Tells(file, n, cache.nodes[n])
  /\ run.pc = "work" => WorkTells(file, Work, node[Work.node], WorkPart.inputs, run.cached)

LEMMA TellsAfter ==
  ASSUME \A n \in Nodes : Tells(file', n, node'[n]),
         \A n \in DOMAIN cache'.nodes : Tells(file', n, cache'.nodes[n]),
         run'.pc = "work" => WorkTells(file', run'.work, node'[run'.work.node],
                                       node'[run'.work.node][run'.work.stage].inputs, run'.cached)
  PROVE  TellsInv'
BY DEF TellsInv, Work, WorkPart

-----------------------------------------------------------------------------
(* A file changes, and has a status then that is not recorded, or none: a  *)
(* record that still stands says nothing of it.                            *)
OneFile(fs, gs, f) == \A g \in Files : g # f => gs[g] = fs[g]
NewIn(list, f, s) == \A e \in ToSet(list) : e.file \in Files /\ (e.file = f /\ e.status # 0 => e.status # s)
NewTo(x, f, s) ==
  /\ NewIn(x.analysis.inputs, f, s) /\ NewIn(x.analysis.products, f, s)
  /\ NewIn(x.compile.inputs, f, s) /\ NewIn(x.compile.products, f, s)

LEMMA StillVouched ==
  ASSUME NEW fs, NEW gs, NEW f, OneFile(fs, gs, f), NEW list, NewIn(list, f, gs[f].status),
         Vouched(gs, list)
  PROVE  Vouched(fs, list) /\ \A g : Noted(list, g) => g # f /\ g \in Files /\ gs[g] = fs[g]
BY DEF OneFile, NewIn, Vouched, Noted

LEMMA AnalysisStays ==
  ASSUME NEW fs, NEW gs, NEW f, OneFile(fs, gs, f), NEW n \in Nodes, NEW x,
         NewTo(x, f, gs[f].status), AnalysisTells(fs, n, x),
         n \in Assets => Noted(x.analysis.products, Analysis(n))
  PROVE  AnalysisTells(gs, n, x)
<1>1. SUFFICES ASSUME ~MissedIn(x.analysis.inputs), n \notin Leaves
               PROVE  AnalysisTells(gs, n, x)
  BY DEF AnalysisTells
<1>2. Noted(x.analysis.inputs, Source(n)) /\ (Stands(fs, x.analysis) => AnalysisIs(fs, n, x))
  BY <1>1 DEF AnalysisTells
<1>3. ASSUME Stands(gs, x.analysis)
      PROVE  AnalysisIs(gs, n, x)
  <2>1. Stands(fs, x.analysis)
    BY <1>3, StillVouched DEF Stands, NewTo
  <2>2. Holds(gs, n) = Holds(fs, n)
    BY <1>2, <1>3, StillVouched DEF Stands, NewTo, Holds
  <2>3. n \in Assets => Names(gs, n) = Names(fs, n)
    BY <1>3, StillVouched DEF Stands, NewTo, Names
  <2> QED BY <1>2, <2>1, <2>2, <2>3 DEF AnalysisIs
<1> QED BY <1>2, <1>3 DEF AnalysisTells

LEMMA DataStays ==
  ASSUME NEW fs, NEW gs, NEW names, IsList(names), \A f \in ToSet(names) : gs[f] = fs[f]
  PROVE  DataOf(gs, names) = DataOf(fs, names)
<1>1. \A i \in DOMAIN names : gs[names[i]] = fs[names[i]]
  BY DEF ToSet
<1> QED BY <1>1 DEF DataOf

LEMMA CompileStays ==
  ASSUME NEW fs, NEW gs, NEW f, OneFile(fs, gs, f), NEW n \in Nodes, NEW x,
         NewTo(x, f, gs[f].status), CompileTells(fs, n, x), ProductNoted(n, x)
  PROVE  CompileTells(gs, n, x)
<1>1. SUFFICES ASSUME ~MissedIn(x.compile.inputs), n \notin DepsNodes
               PROVE  CompileTells(gs, n, x)
  BY DEF CompileTells
<1>2. ASSUME Stands(gs, x.compile)
      PROVE  /\ Stands(fs, x.compile) /\ gs[Product(n)] = fs[Product(n)]
             /\ \A g : Noted(x.compile.inputs, g) => gs[g] = fs[g]
  BY <1>1, <1>2, StillVouched DEF Stands, NewTo, ProductNoted
<1>3. CASE n \in Leaves /\ Noted(x.compile.inputs, Source(n)) /\ (Stands(fs, x.compile) => LeafIs(fs, n, x))
  <2>1. Stands(gs, x.compile) => LeafIs(gs, n, x)
    BY <1>2, <1>3 DEF LeafIs, Holds
  <2> QED BY <1>3, <2>1 DEF CompileTells
<1>4. CASE n \in Assets /\ Noted(x.compile.inputs, Analysis(n)) /\ (Stands(fs, x.compile) => AssetIs(fs, n, x))
  <2>1. ASSUME Stands(gs, x.compile)
        PROVE  AssetIs(gs, n, x)
    <3> DEFINE names == FilesIn(Names(fs, n))
    <3>1. AssetIs(fs, n, x) /\ Names(gs, n) = Names(fs, n) /\ gs[Product(n)] = fs[Product(n)]
      BY <1>2, <1>4, <2>1 DEF Names
    <3>2. \A g \in ToSet(names) : Noted(x.compile.inputs, g) /\ gs[g] = fs[g]
      BY <1>2, <2>1, <3>1 DEF AssetIs
    <3>3. DataOf(gs, names) = DataOf(fs, names)
      <4>1. \A i \in DOMAIN names : gs[names[i]] = fs[names[i]]
        BY <3>2 DEF ToSet
      <4> HIDE DEF names
      <4> QED BY <4>1 DEF DataOf
    <3> QED BY <3>1, <3>2, <3>3 DEF AssetIs
  <2> QED BY <1>4, <2>1 DEF CompileTells
<1> QED BY <1>1, <1>3, <1>4 DEF CompileTells

LEMMA TellsStays ==
  ASSUME NEW fs, NEW gs, NEW f, OneFile(fs, gs, f), NEW n \in Nodes, NEW x,
         NewTo(x, f, gs[f].status), Tells(fs, n, x),
         n \in Assets /\ x.state # "unanalyzed" => Noted(x.analysis.products, Analysis(n))
  PROVE  Tells(gs, n, x)
<1>1. x.state # "unanalyzed" => AnalysisTells(gs, n, x)
  BY AnalysisStays DEF Tells
<1>2. x.state = "current" => CompileTells(gs, n, x)
  BY CompileStays DEF Tells
<1> QED BY <1>1, <1>2 DEF Tells

LEMMA WorkStaysTrue ==
  ASSUME NEW fs, NEW gs, NEW f, OneFile(fs, gs, f), NEW w, NEW x, NEW list, NEW cached,
         NewIn(list, f, gs[f].status), WorkTells(fs, w, x, list, cached),
         w.node \in Assets /\ w.stage = "compile" => Names(gs, w.node) = Names(fs, w.node)
  PROVE  WorkTells(gs, w, x, list, cached)
<1>1. ASSUME Vouched(gs, list)
      PROVE  Vouched(fs, list) /\ \A g : Noted(list, g) => gs[g] = fs[g]
  BY <1>1, StillVouched
<1>2. ASSUME w.stage = "analysis"
      PROVE  AnalysisKnows(gs, w, x, list)
  <2>1. DepsRead(fs, w, x, list) => DepsRead(gs, w, x, list)
    BY <1>1 DEF DepsRead, Holds
  <2>2. AssetRead(fs, w, x, list) => AssetRead(gs, w, x, list)
    BY <1>1 DEF AssetRead, Holds
  <2> QED BY <1>2, <2>1, <2>2 DEF WorkTells, AnalysisKnows
<1>3. ASSUME w.stage = "compile"
      PROVE  CompileKnows(gs, w, list)
  <2> DEFINE names == FilesIn(Names(fs, w.node))
  <2>1. LeafRead(fs, w, list) => LeafRead(gs, w, list)
    BY <1>1 DEF LeafRead, Holds
  <2>2. PartMade(fs, w, list, names) => PartMade(gs, w, list, names)
    <3> HIDE DEF names
    <3> QED BY <1>1 DEF PartMade
  <2>3. AssetMade(fs, w, list, names) => AssetMade(gs, w, list, names)
    BY <2>2 DEF AssetMade
  <2>4. w.node \in Assets => FilesIn(Names(gs, w.node)) = names
    BY <1>3
  <2> HIDE DEF names
  <2>5. w.node \in Assets /\ w.todo # <<Analysis(w.node)>> => AssetMade(fs, w, list, names)
    BY <1>3 DEF WorkTells, CompileKnows, names
  <2> QED BY <1>3, <2>1, <2>3, <2>4, <2>5 DEF WorkTells, CompileKnows
<1> QED BY <1>2, <1>3 DEF WorkTells

-----------------------------------------------------------------------------
(* A node that keeps what is recorded of it, or loses some.                *)
LEMMA TellsLess ==
  ASSUME NEW fs, NEW n, NEW x, Tells(fs, n, x), NEW y,
         y.state # "unanalyzed" =>
           /\ x.state # "unanalyzed" /\ y.analysis = x.analysis /\ y.deps = x.deps /\ y.scan = x.scan,
         y.state = "current" => x.state = "current" /\ y.compile = x.compile /\ y.version = x.version
  PROVE  Tells(fs, n, y)
<1>1. ASSUME y.state # "unanalyzed"
      PROVE  AnalysisTells(fs, n, y)
  BY <1>1 DEF Tells, AnalysisTells, AnalysisIs
<1>2. ASSUME y.state = "current"
      PROVE  CompileTells(fs, n, y) /\ ProductNoted(n, y)
  <2>1. CompileTells(fs, n, x) /\ ProductNoted(n, x)
    BY <1>2 DEF Tells
  <2>2. LeafIs(fs, n, x) => LeafIs(fs, n, y)
    BY <1>2 DEF LeafIs
  <2>3. AssetIs(fs, n, x) => AssetIs(fs, n, y)
    BY <1>2 DEF AssetIs
  <2> QED BY <1>2, <2>1, <2>2, <2>3 DEF CompileTells, ProductNoted
<1> QED BY <1>1, <1>2 DEF Tells

LEMMA UnanalysedTells ==
  ASSUME NEW fs, NEW n, NEW x, x.state = "unanalyzed"
  PROVE  Tells(fs, n, x)
BY DEF Tells

(* A step that leaves the files alone.                                     *)
LEMMA OneNodeTells ==
  ASSUME TellsInv, file' = file, cache'.nodes = cache.nodes,
         NEW n \in Nodes, OnlyChanges(n), Tells(file, n, node'[n]),
         run'.pc = "work" =>
           WorkTells(file, run'.work, node'[run'.work.node],
                     node'[run'.work.node][run'.work.stage].inputs, run'.cached)
  PROVE  TellsInv'
BY TellsAfter DEF TellsInv, OnlyChanges

LEMMA PlainTells ==
  ASSUME BuildInv, TellsInv, PlainAction
  PROVE  TellsInv'
<1>1. Plain
  BY PlainActions
<1> QED BY <1>1, TellsAfter DEF Plain, TellsInv

-----------------------------------------------------------------------------
(* The check of a node's files and the compile loop.                       *)
LEMMA WorkBegins ==
  ASSUME NEW fs, NEW w, NEW x, NEW list, NEW cached, NEW n \in Nodes, w.node = n,
         w.open = FALSE, w.stage = "analysis" \/ w.made = <<>>, list = <<>>,
         \/ w.stage = "analysis" /\ w.todo = <<Source(n)>>
         \/ w.stage = "compile" /\ n \in Leaves /\ w.todo = <<Source(n)>>
         \/ w.stage = "compile" /\ n \in Assets /\ n \notin Leaves /\ w.todo = <<Analysis(n)>>
  PROVE  WorkTells(fs, w, x, list, cached)
<1>1. ToSet(list) = {}
  BY DEF ToSet
<1>2. <<Source(n)>> # <<>> /\ <<Analysis(n)>> # <<>>
  OBVIOUS
<1>3. Looked(list, cached)
  BY <1>1 DEF Looked
<1>4. w.stage = "analysis" => AnalysisKnows(fs, w, x, list)
  BY <1>2 DEF AnalysisKnows
<1>5. w.stage = "compile" => CompileKnows(fs, w, list)
  BY <1>2, BuildSystemAssumption DEF CompileKnows
<1> QED BY <1>3, <1>4, <1>5 DEF WorkTells

LEMMA CheckFilesTells ==
  ASSUME BuildInv, RecordInv, TellsInv, NEW n \in Nodes, CheckFiles(n)
  PROVE  TellsInv'
<1>1. disk' = disk /\ file' = file /\ cache' = cache
  BY CheckFilesSets DEF BuildInv, disk
<1>2. CASE Reanalyses(n) /\ n \notin Leaves
  <2>1. /\ run'.work.node = n /\ run'.work.open = FALSE /\ run'.work.todo = <<Source(n)>>
        /\ run'.work.stage = "analysis" /\ OnlyChanges(n)
        /\ node'[n].state = "unanalyzed" /\ node'[n].analysis = NoFiles
    BY <1>2, AnalysisStarts DEF Analysing, Work
  <2>2. node'[n].analysis.inputs = <<>>
    BY <2>1 DEF NoFiles
  <2>3. WorkTells(file, run'.work, node'[n], <<>>, run'.cached)
    BY <2>1, WorkBegins
  <2> QED BY <1>1, <2>1, <2>2, <2>3, UnanalysedTells, OneNodeTells
<1>3. CASE ~(Reanalyses(n) /\ n \notin Leaves)
  <2>1. run'.pc = "check" /\ OnlyChanges(n) /\ node'[n] = AfterFiles(n)
    BY <1>3, CheckGoesOn
  <2>2. IsNode(node[n]) /\ Tells(file, n, node[n])
    BY DEF BuildInv, TypesInv, NodesOK, TellsInv
  <2>3. Tells(file, n, AfterFiles(n))
    <3>1. CASE Reanalyses(n)
      <4> DEFINE x == SetState(node[n], "unanalyzed")
      <4>1. IsNode(x)
        BY <2>2, SetStateIsNode
      <4> HIDE DEF x
      <4>2. SetState(x, "uncompiled").state = "uncompiled"
        BY <4>1, SetStateIsNode
      <4>3. AfterFiles(n) = SetState(x, "uncompiled") /\ n \in Leaves
        BY <1>3, <3>1 DEF AfterFiles, x
      <4> QED BY <4>2, <4>3 DEF Tells, AnalysisTells
    <3>2. CASE ~Reanalyses(n) /\ Recompiles(n)
      <4>1. node[n].state # "unanalyzed" /\ AfterFiles(n) = SetState(node[n], "uncompiled")
        BY <3>2 DEF Reanalyses, ChecksAnalysis, AfterFiles
      <4> QED BY <2>2, <4>1, SetStateIsNode, TellsLess
    <3> QED BY <2>2, <3>1, <3>2 DEF AfterFiles
  <2> QED BY <1>1, <2>1, <2>3, OneNodeTells
<1> QED BY <1>2, <1>3

LEMMA DependenciesCheckedTells ==
  ASSUME BuildInv, TellsInv, NEW n \in Nodes, DependenciesChecked(n)
  PROVE  TellsInv'
<1>1. /\ run.pc = "check" /\ run.phase[n] = "nodes" /\ disk' = disk /\ run'.pc = "check"
      /\ node' = [node EXCEPT ![n] = SetState(node[n], "uncompiled")] \/ node' = node
  BY DependenciesCheckedSets DEF BuildInv
<1>2. file' = file /\ cache' = cache
  BY <1>1 DEF disk
<1>3. node[n].state # "unanalyzed" /\ NodesOK /\ IsNode(node[n])
  BY <1>1 DEF BuildInv, GraphInv, SearchOK, StatesOK, Checked, TypesInv, NodesOK
<1>4. Tells(file, n, node[n]) /\ Tells(file, n, SetState(node[n], "uncompiled"))
  BY <1>3, SetStateIsNode, TellsLess DEF TellsInv
<1>5. OnlyChanges(n) /\ Tells(file, n, node'[n])
  <2>1. CASE node' = node
    BY <1>4, <2>1 DEF OnlyChanges
  <2>2. CASE node' = [node EXCEPT ![n] = SetState(node[n], "uncompiled")]
    BY <1>3, <1>4, <2>2, SetStateIsNode, OneNodeChanges DEF OnlyChanges
  <2> QED BY <1>1, <2>1, <2>2
<1> QED BY <1>1, <1>2, <1>5, OneNodeTells

LEMMA CompileDepsNodeTells ==
  ASSUME BuildInv, RecordInv, TellsInv, CompileDepsNode
  PROVE  TellsInv'
<1>1. PICK n : n = NextNode
  OBVIOUS
<1>2. /\ n \in Nodes /\ n \in DepsNodes /\ node[n].state = "uncompiled" /\ run'.pc = "compile"
      /\ disk' = disk /\ OnlyChanges(n) /\ node'[n].deps = node[n].deps
      /\ node'[n].scan = node[n].scan /\ node'[n].analysis = node[n].analysis
  BY <1>1, CompileDepsNodeIs
<1>3. Tells(file, n, node[n])
  BY <1>2 DEF TellsInv
<1>4. AnalysisTells(file, n, node'[n])
  BY <1>2, <1>3 DEF Tells, AnalysisTells, AnalysisIs
<1>5. Tells(file, n, node'[n])
  BY <1>2, <1>4 DEF Tells, CompileTells, ProductNoted
<1>6. file' = file /\ cache' = cache
  BY <1>2 DEF disk
<1> QED BY <1>2, <1>5, <1>6, OneNodeTells

LEMMA StartCompileTells ==
  ASSUME BuildInv, RecordInv, TellsInv, StartCompile
  PROVE  TellsInv'
<1>1. PICK n : n = NextNode
  OBVIOUS
<1>2. /\ n \in Nodes /\ n \notin DepsNodes /\ node[n].state = "uncompiled"
      /\ run'.work.node = n /\ run'.work.open = FALSE /\ run'.work.stage = "compile"
      /\ run'.work.todo = (IF n \in Leaves THEN <<Source(n)>> ELSE <<Analysis(n)>>)
      /\ run'.work.made = <<>> /\ disk' = disk
      /\ OnlyChanges(n) /\ VersionSet(node[n], node'[n], version[n]) /\ node[n].compile = NoFiles
  BY <1>1, StartCompileIs DEF Compiling, Work
<1>3. node'[n].compile.inputs = <<>> /\ node'[n].state = "uncompiled"
  BY <1>2 DEF VersionSet, NoFiles
<1>4. Tells(file, n, node'[n])
  BY <1>2, <1>3, TellsLess DEF TellsInv, VersionSet
<1>5. n \in Leaves \/ (n \in Assets /\ n \notin Leaves)
  BY <1>2, BuildSystemAssumption DEF Nodes
<1>6. WorkTells(file, run'.work, node'[n], <<>>, run'.cached)
  BY <1>2, <1>5, WorkBegins
<1>7. file' = file /\ cache' = cache
  BY <1>2 DEF disk
<1> QED BY <1>2, <1>3, <1>4, <1>6, <1>7, OneNodeTells

-----------------------------------------------------------------------------
(* The reading of files.  A list that has grown, or that has come to tell  *)
(* nothing, tells as much of what was done before.                         *)
Includes(more, list) ==
  \/ MissedIn(more)
  \/ ~MissedIn(list) /\ \A e \in ToSet(list) : \E d \in ToSet(more) : d.file = e.file /\ d.status = e.status

LEMMA MoreTells ==
  ASSUME NEW more, NEW list, Includes(more, list), ~MissedIn(more)
  PROVE  /\ ~MissedIn(list) /\ \A f : Noted(list, f) => Noted(more, f)
         /\ \A fs : Vouched(fs, more) => Vouched(fs, list)
<1>1. ~MissedIn(list) /\ \A e \in ToSet(list) : \E d \in ToSet(more) : d.file = e.file /\ d.status = e.status
  BY DEF Includes
<1>2. \A f : Noted(list, f) => Noted(more, f)
  BY <1>1 DEF Noted
<1>3. \A fs : Vouched(fs, more) => Vouched(fs, list)
  <2> SUFFICES ASSUME NEW fs, Vouched(fs, more), NEW e \in ToSet(list), e.status # 0
               PROVE  e.status = fs[e.file].status
    BY DEF Vouched
  <2>1. PICK d \in ToSet(more) : d.file = e.file /\ d.status = e.status
    BY <1>1
  <2>2. d.status # 0 => d.status = fs[d.file].status
    BY DEF Vouched
  <2> QED BY <2>1, <2>2
<1> QED BY <1>1, <1>2, <1>3

SameWork(v, w) ==
  v.node = w.node /\ v.stage = w.stage /\ v.todo = w.todo /\ v.items = w.items /\ v.made = w.made

LEMMA KnowsMore ==
  ASSUME NEW fs, NEW w, NEW x, NEW list, NEW v, NEW y, NEW more, Includes(more, list), SameWork(v, w),
         y.deps = x.deps, y.scan = x.scan
  PROVE  /\ AnalysisKnows(fs, w, x, list) => AnalysisKnows(fs, v, y, more)
         /\ CompileKnows(fs, w, list) => CompileKnows(fs, v, more)
<1>1. DepsRead(fs, w, x, list) => DepsRead(fs, v, y, more)
  BY MoreTells DEF DepsRead, SameWork
<1>2. AssetRead(fs, w, x, list) => AssetRead(fs, v, y, more)
  BY MoreTells DEF AssetRead, SameWork
<1>3. LeafRead(fs, w, list) => LeafRead(fs, v, more)
  BY MoreTells DEF LeafRead, SameWork
<1>4. ASSUME NEW names
      PROVE  AssetMade(fs, w, list, names) => AssetMade(fs, v, more, names)
  <2>1. PartMade(fs, w, list, names) => PartMade(fs, v, more, names)
    BY MoreTells DEF PartMade, SameWork
  <2> QED BY <2>1 DEF AssetMade, SameWork
<1>5. AnalysisKnows(fs, w, x, list) => AnalysisKnows(fs, v, y, more)
  BY <1>1, <1>2 DEF AnalysisKnows, SameWork
<1>6. CompileKnows(fs, w, list) => CompileKnows(fs, v, more)
  <2>1. AssetMade(fs, w, list, FilesIn(Names(fs, w.node)))
          => AssetMade(fs, v, more, FilesIn(Names(fs, v.node)))
    BY <1>4 DEF SameWork
  <2> QED BY <1>3, <2>1 DEF CompileKnows, SameWork
<1> QED BY <1>5, <1>6

(* What is recorded of a file that is opened is what was looked up.        *)
LEMMA OpenedIs ==
  ASSUME BuildInv, RecordInv, TellsInv, run.pc = "work", Work.todo # <<>>
  PROVE  LET list == WorkPart.inputs
             more == Recorded(list, PathKept, Resolve(Reading))
         IN  /\ Looked(more, Resolved({Reading})) /\ Includes(more, list)
             /\ MissedIn(more) \/ Noted(more, Reading)
<1> DEFINE list == WorkPart.inputs
           s == Resolve(Reading)
           more == Recorded(list, PathKept, s)
           cached == Resolved({Reading})
<1>1. PICK n : n = Work.node
  OBVIOUS
<1>2. /\ n \in Nodes /\ HasEntries(n, node[n]) /\ (Analysing \/ Compiling)
  BY <1>1, WorkedNode
<1>3. PICK F : list \in Seq(Entries(F)) /\ F \subseteq Files
  <2>1. list \in Seq(Entries(Files))
    BY <1>1, <1>2, EntriesAreOfFiles DEF WorkPart, Analysing, Compiling
  <2> QED BY <2>1
<1>4. Reading \in Files /\ NoFile \in Files /\ FilesOK /\ LookedUpOK
  BY ReadingIs, KindsOfFiles DEF RecordInv
<1>5. s \in Nat
  BY <1>4, ResolveIs
<1>6. PathKept \in Files /\ PathKept = (IF s = 0 THEN NoFile ELSE Reading)
  BY <1>4 DEF PathKept
<1>7. list \in Seq(Entries(Files))
  BY <1>3, EntriesGrow
<1>8. /\ [file |-> PathKept, status |-> s] \in ToSet(more)
      /\ ToSet(more) \subseteq ToSet(list) \cup {[file |-> PathKept, status |-> s]}
      /\ \A e \in ToSet(list) : e.file # PathKept => e \in ToSet(more)
  BY <1>5, <1>6, <1>7, RecordedIs
<1>9. Looked(list, run.cached)
  BY DEF TellsInv, WorkTells
<1>10. cached = [f \in DOMAIN run.cached \cup {Reading} |-> Resolve(f)]
  BY DEF Resolved
<1>11. \A f \in DOMAIN run.cached : f \in DOMAIN cached /\ cached[f] = run.cached[f] /\ Resolve(f) = run.cached[f]
  BY <1>10 DEF Resolve
<1>12. Reading \in DOMAIN cached /\ cached[Reading] = s
  BY <1>10
<1> HIDE DEF list, s, more, cached
<1>13. Looked(more, cached)
  <2> SUFFICES ASSUME NEW e \in ToSet(more), e.file # NoFile
               PROVE  e.file \in DOMAIN cached /\ cached[e.file] = e.status
    BY DEF Looked
  <2>1. CASE e \in ToSet(list)
    BY <2>1, <1>9, <1>11 DEF Looked
  <2>2. CASE e = [file |-> PathKept, status |-> s]
    BY <2>2, <1>6, <1>12
  <2> QED BY <1>8, <2>1, <2>2
<1>14. CASE s = 0
  <2>1. MissedIn(more)
    BY <1>6, <1>8, <1>14 DEF MissedIn
  <2> QED BY <1>13, <2>1 DEF Includes, list, s, more, cached
<1>15. CASE s # 0
  <2>1. Noted(more, Reading)
    BY <1>6, <1>8, <1>15 DEF Noted
  <2>2. CASE MissedIn(list)
    <3>1. MissedIn(more)
      BY <1>8, <1>6, <1>15, <2>2 DEF MissedIn
    <3> QED BY <1>13, <3>1 DEF Includes, list, s, more, cached
  <2>3. CASE ~MissedIn(list)
    <3>1. ASSUME NEW e \in ToSet(list)
          PROVE  \E d \in ToSet(more) : d.file = e.file /\ d.status = e.status
      <4>1. CASE e.file # PathKept
        BY <4>1, <1>8
      <4>2. CASE e.file = PathKept
        <5>1. e.file = Reading /\ e.file # NoFile
          BY <1>6, <1>15, <2>3, <4>2 DEF MissedIn
        <5>2. e.file \in DOMAIN run.cached /\ run.cached[e.file] = e.status
          BY <5>1, <1>9 DEF Looked
        <5>3. e.status = s
          BY <5>1, <5>2, <1>11 DEF s
        <5> QED BY <4>2, <5>3, <1>8
      <4> QED BY <4>1, <4>2
    <3> QED BY <1>13, <2>1, <2>3, <3>1 DEF Includes, list, s, more, cached
  <2> QED BY <2>2, <2>3
<1> QED BY <1>14, <1>15

LEMMA OpenInputTells ==
  ASSUME BuildInv, RecordInv, TellsInv, OpenInput
  PROVE  TellsInv'
<1>1. PICK n : n = Work.node
  OBVIOUS
<1>2. run.pc = "work" /\ n \in Nodes
  BY <1>1, WorkedNode DEF OpenInput
<1> DEFINE list == WorkPart.inputs
           more == Recorded(list, PathKept, Resolve(Reading))
<1>3. /\ Work.todo # <<>> /\ ~Work.open /\ OnlyChanges(n)
      /\ WorkGoes(Work.todo, TRUE, Work.created, Work.items, Work.made)
      /\ disk' = disk /\ run'.cached = Resolved({Reading})
      /\ InputsSet(node[n], node'[n], Work.stage, more)
  BY <1>1, <1>2, OpenInputIs DEF WorkPart
<1>4. /\ Looked(more, Resolved({Reading})) /\ Includes(more, list)
      /\ MissedIn(more) \/ Noted(more, Reading)
  BY <1>2, <1>3, OpenedIs
<1> HIDE DEF more, list
<1>5. WorkTells(file, Work, node[n], list, run.cached)
  BY <1>1, <1>2 DEF TellsInv, list
<1>6. /\ SameWork(run'.work, Work) /\ run'.work.open = TRUE
      /\ node'[n].deps = node[n].deps /\ node'[n].scan = node[n].scan
      /\ run'.work.node = n /\ node'[n][run'.work.stage].inputs = more
  BY <1>1, <1>3 DEF WorkGoes, SameWork, Work, InputsSet
<1>7. WorkTells(file, run'.work, node'[n], more, run'.cached)
  <2>1. run'.work.open => MissedIn(more) \/ Noted(more, Head(run'.work.todo))
    BY <1>4, <1>6 DEF SameWork, Reading
  <2>2. /\ AnalysisKnows(file, Work, node[n], list) => AnalysisKnows(file, run'.work, node'[n], more)
        /\ CompileKnows(file, Work, list) => CompileKnows(file, run'.work, more)
    BY <1>4, <1>6, KnowsMore
  <2>3. /\ run'.work.stage = "analysis" => AnalysisKnows(file, run'.work, node'[n], more)
        /\ run'.work.stage = "compile" => CompileKnows(file, run'.work, more)
    BY <1>5, <1>6, <2>2 DEF WorkTells, SameWork
  <2> QED BY <1>3, <1>4, <2>1, <2>2, <2>3 DEF WorkTells
<1>8. Tells(file, n, node'[n])
  <2>1. CASE Analysing
    <3>1. node'[n].state = "unanalyzed"
      BY <1>1, <1>2, <1>3, <2>1, WorkedNode DEF InputsSet
    <3> QED BY <3>1, UnanalysedTells
  <2>2. CASE Compiling
    <3>1. node'[n].state = "uncompiled" /\ node[n].state = "uncompiled"
          /\ node'[n].analysis = node[n].analysis
      BY <1>1, <1>2, <1>3, <2>2, WorkedNode DEF InputsSet, Compiling
    <3>2. Tells(file, n, node[n])
      BY <1>2 DEF TellsInv
    <3> QED BY <1>6, <3>1, <3>2, TellsLess
  <2> QED BY <1>2, <2>1, <2>2, WorkedNode
<1>9. file' = file /\ cache' = cache
  BY <1>3 DEF disk
<1> QED BY <1>2, <1>3, <1>6, <1>7, <1>8, <1>9, OneNodeTells

(* What is known of the work that is done, and of the file that is open.   *)
LEMMA WorkKnows ==
  ASSUME TellsInv, run.pc = "work", NEW n, n = Work.node, NEW list, list = WorkPart.inputs
  PROVE  /\ Looked(list, run.cached) /\ (Work.open => MissedIn(list) \/ Noted(list, Reading))
         /\ Analysing => AnalysisKnows(file, Work, node[n], list)
         /\ Compiling => CompileKnows(file, Work, list)
BY DEF TellsInv, WorkTells, Reading, Analysing, Compiling

LEMMA ReadTells ==
  ASSUME TellsInv, NEW n \in Nodes, n = Work.node, run.pc = "work", disk' = disk, OnlyChanges(n),
         NEW todo, NEW items, NEW made, WorkGoes(todo, FALSE, Work.created, items, made),
         run'.cached = run.cached, Tells(file, n, node'[n]), NEW list, list = WorkPart.inputs,
         node'[n][Work.stage].inputs = list,
         Analysing => AnalysisKnows(file, run'.work, node'[n], list),
         Compiling => CompileKnows(file, run'.work, list)
  PROVE  TellsInv'
<1>1. /\ run'.work.node = n /\ run'.work.stage = Work.stage /\ run'.work.open = FALSE
      /\ run'.pc = "work"
  BY DEF WorkGoes, Work
<1>2. Looked(list, run'.cached)
  BY WorkKnows
<1>3. WorkTells(file, run'.work, node'[n], list, run'.cached)
  BY <1>1, <1>2 DEF WorkTells, Analysing, Compiling
<1>4. file' = file /\ cache' = cache
  BY DEF disk
<1> QED BY <1>1, <1>3, <1>4, OneNodeTells

LEMMA ReadDepsFileTells ==
  ASSUME BuildInv, RecordInv, TellsInv, NEW n \in DepsNodes, ReadDepsFile(n)
  PROVE  TellsInv'
<1>1. /\ n = Work.node /\ n \in Nodes /\ Work.open /\ Analysing /\ ~Compiling
      /\ Reading = Source(n) /\ OnlyChanges(n)
      /\ WorkGoes(<<>>, FALSE, Work.created, NamesIn(n), <<Text(n)>>)
      /\ disk' = disk /\ run'.cached = run.cached
      /\ ScanSet(node[n], node'[n], IF Text(n) = Wildcard THEN Scan ELSE node[n].scan)
  BY ReadDepsFileIs
<1>2. PICK list : list = WorkPart.inputs
  OBVIOUS
<1>3. /\ run'.work.node = n /\ run'.work.todo = <<>> /\ run'.work.items = NamesIn(n)
      /\ node'[n].scan = (IF Text(n) = Wildcard THEN Scan ELSE node[n].scan)
      /\ node'[n].state = "unanalyzed" /\ node'[n].analysis = node[n].analysis
      /\ list = node[n].analysis.inputs /\ node'[n][Work.stage].inputs = list
  BY <1>1, <1>2, WorkedNode DEF ScanSet, WorkGoes, Work, WorkPart, Analysing
<1>4. DepsRead(file, run'.work, node'[n], list)
  <2>1. MissedIn(list) \/ Noted(list, Source(n))
    BY <1>1, <1>2, WorkKnows DEF Analysing
  <2> QED BY <1>3, <2>1 DEF DepsRead, Holds, NamesIn, Text
<1>5. n \notin Assets
  BY BuildSystemAssumption
<1>6. AnalysisKnows(file, run'.work, node'[n], list)
  BY <1>3, <1>4, <1>5 DEF AnalysisKnows
<1> QED BY <1>1, <1>2, <1>3, <1>6, UnanalysedTells, ReadTells DEF Analysing

LEMMA ReadAssetSourceTells ==
  ASSUME BuildInv, RecordInv, TellsInv, NEW n \in Assets, ReadAssetSource(n)
  PROVE  TellsInv'
<1>1. /\ n = Work.node /\ n \in Nodes /\ Work.open /\ Analysing /\ ~Compiling
      /\ Reading = Source(n) /\ Text(n) \in Seq(Items(n)) /\ OnlyChanges(n)
      /\ WorkGoes(Of({"optional"}, Text(n)), FALSE, Work.created, Text(n), Work.made)
      /\ disk' = disk /\ run'.cached = run.cached /\ DepsSet(node[n], node'[n], NodesOf(Text(n)))
  BY ReadAssetSourceIs
<1>2. PICK list : list = WorkPart.inputs
  OBVIOUS
<1>3. /\ run'.work.node = n /\ run'.work.todo = Of({"optional"}, Text(n)) /\ run'.work.items = Text(n)
      /\ node'[n].deps = NodesOf(Text(n))
      /\ node'[n].state = "unanalyzed" /\ node'[n].analysis = node[n].analysis
      /\ list = node[n].analysis.inputs /\ node'[n][Work.stage].inputs = list
  BY <1>1, <1>2, WorkedNode DEF DepsSet, WorkGoes, Work, WorkPart, Analysing
<1>4. Optional(n) \in ToSet(Text(n)) => Of({"optional"}, Text(n)) # <<>>
  <2>1. ToSet(Of({"optional"}, Text(n))) = {i \in ToSet(Text(n)) : i[1] \in {"optional"}}
    BY <1>1, OfElements
  <2>2. Optional(n)[1] = "optional" /\ ToSet(<<>>) = {}
    BY DEF Optional, ToSet
  <2> QED BY <2>1, <2>2
<1>5. AssetRead(file, run'.work, node'[n], list)
  <2>1. MissedIn(list) \/ Noted(list, Source(n))
    BY <1>1, <1>2, WorkKnows DEF Analysing
  <2> QED BY <1>3, <1>4, <2>1 DEF AssetRead, Holds, Text
<1>6. n \notin DepsNodes
  BY BuildSystemAssumption
<1>7. AnalysisKnows(file, run'.work, node'[n], list)
  BY <1>3, <1>5, <1>6 DEF AnalysisKnows
<1> QED BY <1>1, <1>2, <1>3, <1>7, UnanalysedTells, ReadTells DEF Analysing

(* A file that is tried and has a status is there.                         *)
LEMMA TryOptionalTells ==
  ASSUME BuildInv, RecordInv, TellsInv, NEW n \in Assets, TryOptional(n)
  PROVE  TellsInv'
<1> DEFINE items == IF file[Optional(n)].data # Absent THEN Work.items
                    ELSE Of({"source", "product", "deps"}, Work.items)
<1>1. /\ Work.stage = "analysis" /\ Reading = Optional(n)
      /\ OnlyReads(n, Tail(Work.todo), items, Work.made)
  BY TryOptionalSets DEF BuildInv
<1>2. /\ n = Work.node /\ Work.open /\ node' = node /\ disk' = disk /\ run'.cached = run.cached
      /\ WorkGoes(Tail(Work.todo), FALSE, Work.created, items, Work.made)
  BY <1>1, OnlyReadsIs
<1>3. /\ n \in Nodes /\ n \notin DepsNodes /\ run.pc = "work" /\ Analysing /\ ~Compiling
  BY <1>1, AssetIsNoDepsNode DEF OnlyReads, Analysing, Compiling
<1>4. PICK list : list = WorkPart.inputs
  OBVIOUS
<1>5. /\ MissedIn(list) \/ Noted(list, Optional(n))
      /\ AnalysisKnows(file, Work, node[n], list)
  BY <1>1, <1>2, <1>3, <1>4, WorkKnows
<1>6. Work.todo # <<Source(n)>>
  <2>1. Work.todo = <<Source(n)>> => Reading = Source(n)
    BY DEF Reading
  <2> QED BY <1>1, <2>1, FileKinds
<1>7. AssetRead(file, Work, node[n], list)
  BY <1>2, <1>5, <1>6 DEF AnalysisKnows
<1>8. ASSUME Noted(list, Optional(n)), Vouched(file, list)
      PROVE  items = Work.items
  <2>1. Status(Optional(n)) # 0
    BY <1>8 DEF Noted, Vouched, Status
  <2>2. Optional(n) \in Edited /\ FilesOK
    BY KindsOfFiles DEF RecordInv
  <2>3. file[Optional(n)].data # Absent
    BY <2>1, <2>2 DEF FilesOK
  <2> QED BY <2>3
<1> HIDE DEF items
<1>9. run'.work.node = n /\ run'.work.todo = Tail(Work.todo) /\ run'.work.items = items
  BY <1>2 DEF WorkGoes, Work
<1>10. AssetRead(file, run'.work, node'[n], list)
  <2>1. CASE MissedIn(list)
    BY <2>1 DEF AssetRead
  <2>2. CASE ~MissedIn(list)
    <3>1. Noted(list, Optional(n)) /\ Noted(list, Source(n))
      BY <1>2, <1>5, <1>7, <2>2 DEF AssetRead
    <3>2. Vouched(file, list) => /\ node[n].deps = NodesOf(Holds(file, n))
                                 /\ Work.items = Holds(file, n)
      BY <1>2, <1>7, <2>2 DEF AssetRead
    <3> QED BY <1>2, <1>8, <1>9, <3>1, <3>2 DEF AssetRead
  <2> QED BY <2>1, <2>2
<1>11. AnalysisKnows(file, run'.work, node'[n], list)
  BY <1>3, <1>9, <1>10 DEF AnalysisKnows
<1>12. Tells(file, n, node'[n]) /\ OnlyChanges(n) /\ node'[n][Work.stage].inputs = list
  BY <1>2, <1>3, <1>4 DEF TellsInv, OnlyChanges, WorkPart
<1> QED BY <1>2, <1>3, <1>4, <1>11, <1>12, ReadTells

LEMMA ReadLeafTells ==
  ASSUME BuildInv, RecordInv, TellsInv, NEW n \in Leaves, ReadLeaf(n)
  PROVE  TellsInv'
<1>1. Reading = Source(n) /\ OnlyReads(n, <<>>, Work.items, <<Text(n)>>)
  BY ReadLeafSets DEF BuildInv
<1>2. /\ n = Work.node /\ Work.open /\ node' = node /\ disk' = disk /\ run'.cached = run.cached
      /\ WorkGoes(<<>>, FALSE, Work.created, Work.items, <<Text(n)>>)
  BY <1>1, OnlyReadsIs
<1>3. run.pc = "work" /\ n \in Nodes /\ n \notin Assets
  BY <1>1, BuildSystemAssumption DEF OnlyReads, Nodes
<1>4. Compiling /\ ~Analysing
  BY <1>2, <1>3, WorkedNode
<1>5. PICK list : list = WorkPart.inputs
  OBVIOUS
<1>6. run'.work.node = n /\ run'.work.made = <<Text(n)>>
  BY <1>2 DEF WorkGoes, Work
<1>7. LeafRead(file, run'.work, list)
  <2>1. MissedIn(list) \/ Noted(list, Source(n))
    BY <1>1, <1>2, <1>3, <1>5, WorkKnows
  <2> QED BY <1>6, <2>1 DEF LeafRead, Holds, Text
<1>8. CompileKnows(file, run'.work, list)
  BY <1>3, <1>6, <1>7 DEF CompileKnows
<1>9. Tells(file, n, node'[n]) /\ OnlyChanges(n) /\ node'[n][Work.stage].inputs = list
  BY <1>2, <1>3, <1>5 DEF TellsInv, OnlyChanges, WorkPart
<1> QED BY <1>2, <1>3, <1>4, <1>5, <1>8, <1>9, ReadTells

(* What an asset uses is not its own analysis.                             *)
LEMMA AnalysisIsNotUsed ==
  ASSUME NEW n \in Assets, NEW todo \in Seq(Usable(n)), todo # <<>>
  PROVE  Head(todo) # Analysis(n) /\ Tail(todo) \in Seq(Usable(n)) /\ Tail(todo) # <<Analysis(n)>>
         /\ todo # <<Analysis(n)>>
<1>1. Analysis(n) \notin Usable(n)
  BY FileKinds DEF Usable, Sources, OptionalOf, LeafProducts
<1>2. Head(todo) \in Usable(n) /\ Tail(todo) \in Seq(Usable(n))
  BY HeadAndTail
<1>3. <<Analysis(n)>> \notin Seq(Usable(n))
  <2>1. Len(<<Analysis(n)>>) = 1 /\ <<Analysis(n)>>[1] = Analysis(n)
    OBVIOUS
  <2> QED BY <1>1, <2>1
<1> QED BY <1>1, <1>2, <1>3

(* The names an asset's compilation goes through.                          *)
LEMMA NamesAreListed ==
  ASSUME BuildInv, RecordInv, Compiling, NEW n \in Assets, n = Work.node
  PROVE  /\ FilesIn(NamedIn(n)) \in Seq(Items(n)) /\ Len(FilesIn(NamedIn(n))) \in Nat
         /\ Work.todo = <<Analysis(n)>> \/ Work.todo \in Seq(Usable(n))
<1>1. n \in Checked
  BY CompilingIsChecked
<1>2. Named(n, NamedIn(n), node[n].deps)
  BY <1>1, WorkedNode DEF NodeOK, Compiling
<1>3. FilesIn(NamedIn(n)) \in Seq(Items(n))
  BY <1>2, OfElements DEF Named, FilesIn
<1>4. n \notin Leaves
  BY BuildSystemAssumption
<1> QED BY <1>3, <1>4 DEF RecordInv, ToDoOK

LEMMA ReadAnalysisTells ==
  ASSUME BuildInv, RecordInv, TellsInv, NEW n \in Assets, ReadAnalysis(n)
  PROVE  TellsInv'
<1> DEFINE names == FilesIn(NamedIn(n))
<1>1. /\ Work.stage = "compile" /\ Reading = Analysis(n)
      /\ OnlyReads(n, names, Work.items, Work.made)
  BY ReadAnalysisSets DEF BuildInv
<1>2. /\ n = Work.node /\ Work.open /\ node' = node /\ disk' = disk /\ run'.cached = run.cached
      /\ WorkGoes(names, FALSE, Work.created, Work.items, Work.made)
  BY <1>1, OnlyReadsIs
<1>3. /\ run.pc = "work" /\ Compiling /\ ~Analysing /\ n \in Nodes /\ n \notin Leaves
      /\ Work.todo # <<>>
  <2>1. run.pc = "work" /\ n \in Nodes /\ n \notin Leaves
    BY <1>1, AssetIsNoDepsNode DEF OnlyReads
  <2> QED BY <1>1, <1>2, <2>1 DEF Compiling, Analysing, BuildInv, TypesInv, WorkOK
<1>4. PICK list : list = WorkPart.inputs
  OBVIOUS
<1>5. /\ (MissedIn(list) \/ Noted(list, Analysis(n))) /\ CompileKnows(file, Work, list)
  BY <1>1, <1>2, <1>3, <1>4, WorkKnows
<1>6. names \in Seq(Items(n)) /\ Len(names) \in Nat /\ Work.todo = <<Analysis(n)>>
  <2>1. Work.todo \in Seq(Usable(n)) => Reading # Analysis(n)
    BY <1>3, AnalysisIsNotUsed DEF Reading
  <2> QED BY <1>1, <1>2, <1>3, <2>1, NamesAreListed
<1>7. Work.made = <<>>
  BY <1>2, <1>5, <1>6 DEF CompileKnows
<1>8. FilesIn(Names(file, n)) = names
  BY DEF Names, NamedIn
<1> HIDE DEF names
<1>9. run'.work.node = n /\ run'.work.made = <<>> /\ run'.work.todo = names
  BY <1>2, <1>7 DEF WorkGoes, Work
<1>10. AssetMade(file, run'.work, list, names)
  <2>1. IsList(<<>>) /\ Len(<<>>) = 0
    BY DEF IsList
  <2>2. \A i \in 1..Len(names) : names[i] = names[Len(<<>>) + i]
    BY <1>6, <2>1
  <2>3. PartMade(file, run'.work, list, names)
    BY <1>5, <1>9, <2>1 DEF PartMade
  <2> QED BY <1>6, <1>9, <2>1, <2>2, <2>3 DEF AssetMade
<1>11. CompileKnows(file, run'.work, list)
  BY <1>3, <1>8, <1>9, <1>10 DEF CompileKnows
<1>12. Tells(file, n, node'[n]) /\ OnlyChanges(n) /\ node'[n][Work.stage].inputs = list
  BY <1>2, <1>3, <1>4 DEF TellsInv, OnlyChanges, WorkPart
<1> QED BY <1>2, <1>3, <1>4, <1>11, <1>12, ReadTells

(* One more file is read.                                                  *)
LEMMA OneMoreMade ==
  ASSUME NEW fs, NEW w, NEW list, NEW names, AssetMade(fs, w, list, names), Len(names) \in Nat,
         NEW S, w.todo \in Seq(S), w.todo # <<>>, MissedIn(list) \/ Noted(list, Head(w.todo)),
         NEW v, v.node = w.node, v.made = Append(w.made, fs[Head(w.todo)].data), v.todo = Tail(w.todo)
  PROVE  AssetMade(fs, v, list, names)
<1> DEFINE made == w.made
           todo == w.todo
           d == fs[Head(w.todo)].data
           k == Len(made)
<1>1. PICK T : made \in Seq(T)
  BY DEF AssetMade, IsList
<1>2. k \in Nat /\ Len(todo) \in Nat \ {0} /\ Len(names) = k + Len(todo)
  BY <1>1 DEF AssetMade
<1>3. made \in Seq(T \cup {d}) /\ d \in T \cup {d}
  BY <1>1
<1>4. /\ v.made \in Seq(T \cup {d}) /\ Len(v.made) = k + 1
      /\ \A i \in 1..k : v.made[i] = made[i]
      /\ v.made[k + 1] = d
  BY <1>2, <1>3
<1>5. Len(v.todo) = Len(todo) - 1 /\ \A i \in 1..Len(v.todo) : v.todo[i] = todo[i + 1]
  BY <1>2
<1>14. Len(v.made) = k + 1 /\ Len(v.todo) = Len(todo) - 1
  BY <1>4, <1>5
<1>6. Head(todo) = todo[1]
  BY <1>2
<1>7. \A i \in 1..Len(todo) : todo[i] = names[k + i]
  BY DEF AssetMade
<1>9. PartMade(fs, w, list, names)
  BY DEF AssetMade
<1> HIDE DEF made, todo, d, k
<1>8. names[k + 1] = Head(todo)
  <2>1. 1 \in 1..Len(todo)
    BY <1>2
  <2> QED BY <1>6, <1>7, <2>1
<1>10. IsList(v.made)
  BY <1>4 DEF IsList
<1>11. Len(names) = Len(v.made) + Len(v.todo)
  <2>1. \A a, b \in Nat : b # 0 => a + b = (a + 1) + (b - 1)
    OBVIOUS
  <2>2. k + Len(todo) = (k + 1) + (Len(todo) - 1)
    <3>1. k \in Nat /\ Len(todo) \in Nat /\ Len(todo) # 0
      BY <1>2
    <3> QED BY <2>1, <3>1
  <2> QED BY <1>2, <1>14, <2>2
<1>12. \A i \in 1..Len(v.todo) : v.todo[i] = names[Len(v.made) + i]
  <2> SUFFICES ASSUME NEW i \in 1..Len(v.todo)
               PROVE  v.todo[i] = names[Len(v.made) + i]
    OBVIOUS
  <2>1. i \in Nat /\ i + 1 \in 1..Len(todo) /\ k + 1 + i = k + (i + 1)
    BY <1>2, <1>5
  <2> QED BY <1>4, <1>5, <1>7, <2>1
<1>13. PartMade(fs, v, list, names)
  <2>1. CASE MissedIn(list)
    BY <2>1 DEF PartMade
  <2>2. CASE ~MissedIn(list)
    <3>1. \A i \in 1..Len(v.made) : i \in 1..k \/ i = k + 1
      BY <1>2, <1>4
    <3>2. Noted(list, Head(todo))
      BY <2>2 DEF todo
    <3>3. \A i \in 1..k : Noted(list, names[i])
      BY <1>9, <2>2 DEF PartMade, k, made
    <3>4. Vouched(fs, list) => \A i \in 1..k : made[i] = fs[names[i]].data
      BY <1>9, <2>2 DEF PartMade, k, made
    <3>5. \A i \in 1..Len(v.made) : Noted(list, names[i])
      BY <1>8, <3>1, <3>2, <3>3
    <3>6. d = fs[Head(todo)].data
      BY DEF d, todo
    <3>7. Vouched(fs, list) => \A i \in 1..Len(v.made) : v.made[i] = fs[names[i]].data
      BY <1>4, <1>8, <3>1, <3>4, <3>6
    <3>8. Noted(list, Analysis(v.node))
      BY <1>9, <2>2 DEF PartMade
    <3> QED BY <3>5, <3>7, <3>8 DEF PartMade
  <2> QED BY <2>1, <2>2
<1> QED BY <1>10, <1>11, <1>12, <1>13 DEF AssetMade

LEMMA IndexCASTells ==
  ASSUME BuildInv, RecordInv, TellsInv, NEW n \in Assets, IndexCAS(n)
  PROVE  TellsInv'
<1> DEFINE names == FilesIn(NamedIn(n))
           d == file[Reading].data
<1>1. /\ n = Work.node /\ n \in Nodes /\ Work.open /\ Compiling /\ ~Analysing
      /\ Reading # Analysis(n) /\ OnlyChanges(n)
      /\ WorkGoes(Tail(Work.todo), FALSE, Work.created, Work.items, Append(Work.made, d))
      /\ disk' = disk /\ run'.cached = run.cached
      /\ CASSet(node[n], node'[n], node[n].cas \cup {d})
  BY IndexCASIs
<1>2. run.pc = "work" /\ Work.todo # <<>> /\ n \notin Leaves
  BY <1>1, BuildSystemAssumption DEF Compiling, BuildInv, TypesInv, WorkOK
<1>3. PICK list : list = WorkPart.inputs
  OBVIOUS
<1>4. (MissedIn(list) \/ Noted(list, Head(Work.todo))) /\ CompileKnows(file, Work, list)
  BY <1>1, <1>2, <1>3, WorkKnows DEF Reading
<1>5. Len(names) \in Nat /\ Work.todo \in Seq(Usable(n)) /\ Work.todo # <<Analysis(n)>>
  <2>1. Work.todo # <<Analysis(n)>>
    BY <1>1 DEF Reading
  <2> QED BY <1>1, <2>1, NamesAreListed
<1>6. FilesIn(Names(file, n)) = names
  BY DEF Names, NamedIn
<1>7. /\ run'.work.node = n /\ run'.work.made = Append(Work.made, file[Head(Work.todo)].data)
      /\ run'.work.todo = Tail(Work.todo)
  BY <1>1 DEF WorkGoes, Work, Reading
<1> HIDE DEF names, d
<1>8. AssetMade(file, Work, list, names)
  BY <1>1, <1>4, <1>5, <1>6 DEF CompileKnows
<1>9. AssetMade(file, run'.work, list, names)
  BY <1>1, <1>2, <1>4, <1>5, <1>7, <1>8, OneMoreMade
<1>10. run'.work.todo # <<Analysis(n)>>
  BY <1>2, <1>5, <1>7, AnalysisIsNotUsed
<1>11. CompileKnows(file, run'.work, list)
  BY <1>2, <1>6, <1>7, <1>9, <1>10 DEF CompileKnows
<1>12. Tells(file, n, node'[n]) /\ node'[n][Work.stage].inputs = list
  <2>1. Tells(file, n, node[n])
    BY <1>1 DEF TellsInv
  <2>2. Tells(file, n, node'[n])
    BY <1>1, <2>1, TellsLess DEF CASSet
  <2> QED BY <1>1, <1>3, <2>2 DEF CASSet, WorkPart, Compiling
<1> QED BY <1>1, <1>2, <1>3, <1>11, <1>12, ReadTells

-----------------------------------------------------------------------------
(* What is written or removed is not what is recorded.                     *)
NewToAll(f, s) ==
  /\ \A n \in Nodes : NewTo(node[n], f, s)
  /\ \A n \in DOMAIN cache.nodes : NewTo(cache.nodes[n], f, s)

LEMMA NoRecordIsNew ==
  ASSUME NEW x, Recordings(x) \subseteq Entries(Files), NEW f, NEW s,
         \A e \in Recordings(x) : e.file = f /\ e.status # 0 => e.status # s
  PROVE  NewTo(x, f, s)
BY DEF NewTo, NewIn, Recordings, Entries

LEMMA WrittenIsNew ==
  ASSUME BuildInv, RecordInv, NEW f \in Files, NEW data, file' = Written(f, data)
  PROVE  /\ OneFile(file, file', f) /\ NewToAll(f, file'[f].status)
         /\ file'[f] = [status |-> NewStatus(f), data |-> data]
<1>1. RecordsTyped /\ DOMAIN file = Files
  BY AllTyped DEF BuildInv, TypesInv, TextsOK
<1>2. /\ file'[f] = [status |-> NewStatus(f), data |-> data]
      /\ \A g \in Files : g # f => file'[g] = file[g]
  BY <1>1, WrittenIs
<1>3. file'[f].status = NewStatus(f)
  BY <1>2
<1>4. \A n \in Nodes : NewTo(node[n], f, NewStatus(f))
  BY <1>1, NewStatusIsNew, EntriesAreOfFiles, NoRecordIsNew DEF RecordsTyped
<1>5. \A n \in DOMAIN cache.nodes : NewTo(cache.nodes[n], f, NewStatus(f))
  BY <1>1, NewStatusIsNew, EntriesAreOfFiles, NoRecordIsNew DEF RecordsTyped
<1> QED BY <1>2, <1>3, <1>4, <1>5 DEF OneFile, NewToAll

LEMMA RemovedIsNew ==
  ASSUME BuildInv, RecordInv, NEW f \in Files, file' = [file EXCEPT ![f] = Missing]
  PROVE  OneFile(file, file', f) /\ NewToAll(f, file'[f].status)
<1>1. RecordsTyped /\ DOMAIN file = Files
  BY AllTyped DEF BuildInv, TypesInv, TextsOK
<1>2. file'[f].status = 0
  BY <1>1 DEF Missing
<1>3. NewToAll(f, 0)
  BY <1>1, EntriesAreOfFiles, NoRecordIsNew DEF RecordsTyped, NewToAll
<1> QED BY <1>1, <1>2, <1>3 DEF OneFile

(* What was recorded before tells as much.                                 *)
LEMMA RecordsTell ==
  ASSUME BuildInv, RecordInv, TellsInv, NEW f, OneFile(file, file', f), NewToAll(f, file'[f].status)
  PROVE  /\ \A n \in Nodes : Tells(file', n, node[n])
         /\ \A n \in DOMAIN cache.nodes : Tells(file', n, cache.nodes[n])
<1>1. ASSUME NEW n \in Nodes
      PROVE  Tells(file', n, node[n])
  <2>1. n \in Assets /\ node[n].state # "unanalyzed" => Noted(node[n].analysis.products, Analysis(n))
    BY DEF RecordInv, NodeRecordsOK, NodeOK, KnownIfSame, Noted
  <2> QED BY <2>1, TellsStays DEF TellsInv, NewToAll
<1>2. ASSUME NEW n \in DOMAIN cache.nodes
      PROVE  Tells(file', n, cache.nodes[n])
  <2>1. n \in Assets => Noted(cache.nodes[n].analysis.products, Analysis(n))
    BY DEF RecordInv, SavedRecordsOK, KnownIfSame, Noted
  <2>2. n \in Nodes
    BY DEF BuildInv, TypesInv, SavedOK
  <2> QED BY <2>1, <2>2, TellsStays DEF TellsInv, NewToAll
<1> QED BY <1>1, <1>2

LEMMA WorkStillTells ==
  ASSUME BuildInv, RecordInv, TellsInv, run.pc = "work", NEW n, n = Work.node,
         NEW f, OneFile(file, file', f), NewToAll(f, file'[f].status), \A m \in Assets : Compiling => f # Analysis(m)
  PROVE  WorkTells(file', Work, node[n], WorkPart.inputs, run.cached)
<1>1. n \in Nodes /\ Work.stage \in {"analysis", "compile"} /\ (Work.stage = "compile" => Compiling)
  BY WorkedNode DEF Analysing, Compiling
<1>2. NewIn(WorkPart.inputs, f, file'[f].status)
  BY <1>1 DEF NewToAll, NewTo, WorkPart
<1>3. n \in Assets /\ Work.stage = "compile" => Names(file', n) = Names(file, n)
  <2> SUFFICES ASSUME n \in Assets, Work.stage = "compile"
               PROVE  file'[Analysis(n)] = file[Analysis(n)]
    BY DEF Names
  <2> QED BY <1>1, KindsOfFiles DEF OneFile
<1>4. WorkTells(file, Work, node[n], WorkPart.inputs, run.cached)
  BY DEF TellsInv
<1> QED BY <1>2, <1>3, <1>4, WorkStaysTrue

LEMMA CreateOutputTells ==
  ASSUME BuildInv, RecordInv, TellsInv, CreateOutput
  PROVE  TellsInv'
<1>1. PICK n : n = Work.node
  OBVIOUS
<1>2. /\ n \in Assets \cup Leaves /\ n \in Nodes /\ OnlyChanges(n) /\ run.pc = "work"
      /\ WorkGoes(Work.todo, Work.open, TRUE, Work.items, Work.made)
      /\ file' = Written(Output, Partial) /\ cache' = cache /\ run'.cached = run.cached
      /\ \E list : ProductsSet(node[n], node'[n], Work.stage, list) /\ OnlyHas(list, Output, 0)
  BY <1>1, CreateOutputIs DEF WorkGoes
<1>3. PICK products : ProductsSet(node[n], node'[n], Work.stage, products)
  BY <1>2
<1>4. Output \in Files /\ (Compiling => Output = Product(n)) /\ (Analysing \/ Compiling)
  BY <1>1, <1>2, OutputIs, WorkedNode
<1>5. PICK f : f = Output
  OBVIOUS
<1>6. OneFile(file, file', f) /\ NewToAll(f, file'[f].status)
  BY <1>2, <1>4, <1>5, WrittenIsNew
<1>7. /\ \A m \in Nodes : Tells(file', m, node[m])
      /\ \A m \in DOMAIN cache.nodes : Tells(file', m, cache.nodes[m])
  BY <1>6, RecordsTell
<1>8. \A m \in Assets : Compiling => f # Analysis(m)
  BY <1>4, <1>5, FileKinds
<1>9. PICK list : list = WorkPart.inputs
  OBVIOUS
<1>10. WorkTells(file', Work, node[n], list, run.cached)
  BY <1>1, <1>2, <1>6, <1>8, <1>9, WorkStillTells
<1>11. /\ SameWork(run'.work, Work) /\ run'.work.open = Work.open /\ run'.work.node = n
       /\ node'[n].deps = node[n].deps /\ node'[n].scan = node[n].scan
       /\ node'[n].state = node[n].state
       /\ node'[n][run'.work.stage].inputs = list
  BY <1>1, <1>2, <1>3, <1>9 DEF WorkGoes, SameWork, Work, ProductsSet, WorkPart
<1>12. WorkTells(file', run'.work, node'[n], list, run'.cached)
  <2>1. Includes(list, list)
    BY DEF Includes
  <2>2. /\ AnalysisKnows(file', Work, node[n], list) => AnalysisKnows(file', run'.work, node'[n], list)
        /\ CompileKnows(file', Work, list) => CompileKnows(file', run'.work, list)
    BY <1>11, <2>1, KnowsMore
  <2> QED BY <1>2, <1>10, <1>11, <2>2 DEF WorkTells, SameWork
<1>13. Tells(file', n, node'[n])
  <2>1. CASE Analysing
    BY <1>1, <1>2, <1>11, <2>1, WorkedNode, UnanalysedTells
  <2>2. CASE Compiling
    <3>1. node[n].state = "uncompiled" /\ node'[n].analysis = node[n].analysis
      BY <1>1, <1>2, <1>3, <2>2, WorkedNode DEF ProductsSet, Compiling
    <3> QED BY <1>2, <1>7, <1>11, <3>1, TellsLess
  <2> QED BY <1>4, <2>1, <2>2
<1>14. \A m \in Nodes : Tells(file', m, node'[m])
  BY <1>2, <1>7, <1>13 DEF OnlyChanges
<1> QED BY <1>2, <1>7, <1>11, <1>12, <1>14, TellsAfter

(* All files that an asset's analysis names have been read.                *)
LEMMA AllMade ==
  ASSUME NEW fs, NEW w, NEW list, NEW S, NEW names \in Seq(S), AssetMade(fs, w, list, names),
         w.todo = <<>>, ~MissedIn(list)
  PROVE  /\ Noted(list, Analysis(w.node)) /\ \A f \in ToSet(names) : Noted(list, f)
         /\ Vouched(fs, list) => w.made = DataOf(fs, names)
<1>1. PICK T : w.made \in Seq(T)
  BY DEF AssetMade, IsList
<1>2. Len(w.made) \in Nat /\ Len(w.todo) = 0
  BY <1>1
<1>3. Len(names) = Len(w.made) /\ DOMAIN names = 1..Len(w.made) /\ DOMAIN w.made = 1..Len(w.made)
  <2>1. Len(names) = Len(w.made) + Len(w.todo)
    BY DEF AssetMade
  <2>2. Len(names) = Len(w.made)
    BY <1>2, <2>1
  <2> QED BY <1>1, <2>2
<1>4. /\ Noted(list, Analysis(w.node)) /\ \A i \in 1..Len(w.made) : Noted(list, names[i])
      /\ Vouched(fs, list) => \A i \in 1..Len(w.made) : w.made[i] = fs[names[i]].data
  BY DEF AssetMade, PartMade
<1>5. \A f \in ToSet(names) : Noted(list, f)
  BY <1>3, <1>4 DEF ToSet
<1>6. ASSUME Vouched(fs, list)
      PROVE  w.made = DataOf(fs, names)
  <2>1. \A i \in DOMAIN names : w.made[i] = fs[names[i]].data
    BY <1>3, <1>4, <1>6
  <2>2. w.made = [i \in DOMAIN w.made |-> w.made[i]]
    BY <1>1
  <2> QED BY <1>3, <2>1, <2>2 DEF DataOf
<1> QED BY <1>4, <1>5, <1>6

LEMMA OutputTells ==
  ASSUME BuildInv, RecordInv, TellsInv, run.pc = "work", NEW n \in Assets \cup Leaves, n = Work.node,
         Work.todo = <<>>, NEW data, file' = Written(Output, data), cache' = cache
  PROVE  /\ Output \in Files /\ file'[Output].data = data
         /\ \A m \in Nodes : Tells(file', m, node[m])
         /\ \A m \in DOMAIN cache.nodes : Tells(file', m, cache.nodes[m])
         /\ Analysing => AnalysisKnows(file', Work, node[n], WorkPart.inputs)
         /\ Compiling => CompileKnows(file', Work, WorkPart.inputs)
<1>1. Output \in Files /\ (Compiling => Output = Product(n))
  BY OutputIs
<1>2. PICK f : f = Output
  OBVIOUS
<1>3. OneFile(file, file', f) /\ NewToAll(f, file'[f].status) /\ file'[Output].data = data
  <2>1. file' = Written(f, data) /\ f \in Files
    BY <1>1, <1>2
  <2>2. /\ OneFile(file, file', f) /\ NewToAll(f, file'[f].status)
        /\ file'[f] = [status |-> NewStatus(f), data |-> data]
    BY <2>1, WrittenIsNew
  <2>3. file'[f].data = data
    BY <2>2
  <2> QED BY <1>2, <2>2, <2>3
<1>4. \A m \in Assets : Compiling => f # Analysis(m)
  BY <1>1, <1>2, FileKinds
<1>5. WorkTells(file', Work, node[n], WorkPart.inputs, run.cached)
  BY <1>3, <1>4, WorkStillTells
<1>6. /\ Analysing => AnalysisKnows(file', Work, node[n], WorkPart.inputs)
      /\ Compiling => CompileKnows(file', Work, WorkPart.inputs)
  BY <1>5 DEF WorkTells, Analysing, Compiling
<1> QED BY <1>1, <1>3, <1>6, RecordsTell

LEMMA AnalysisIsClosed ==
  ASSUME BuildInv, RecordInv, TellsInv, CloseOutput, Analysing, NEW n, n = Work.node
  PROVE  Tells(file', n, node'[n])
<1>1. /\ n \in Assets /\ n \in Nodes /\ Work.todo = <<>> /\ run.pc = "work"
      /\ file' = Written(Output, <<version[n], Outcome>>) /\ cache' = cache
      /\ node'[n].state = "uncompiled" /\ node'[n].deps = node[n].deps
      /\ node'[n].analysis.inputs = node[n].analysis.inputs
  BY CloseOutputIs DEF Analysing
<1>2. Output = Analysis(n) /\ Outcome = Work.items /\ n \notin DepsNodes
  BY <1>1, AssetIsNoDepsNode DEF Analysing, Output, Outcome
<1>3. PICK list : list = node[n].analysis.inputs
  OBVIOUS
<1>4. /\ file'[Output].data = <<version[n], Outcome>>
      /\ AnalysisKnows(file', Work, node[n], list)
  BY <1>1, <1>3, OutputTells DEF WorkPart, Analysing
<1>5. AssetRead(file', Work, node[n], list)
  BY <1>1, <1>4 DEF AnalysisKnows
<1>6. Names(file', n) = Work.items
  BY <1>2, <1>4 DEF Names
<1>7. AnalysisTells(file', n, node'[n])
  <2>1. CASE MissedIn(list)
    BY <1>1, <1>3, <2>1 DEF AnalysisTells
  <2>2. CASE ~MissedIn(list)
    <3>1. /\ Noted(list, Source(n))
          /\ Vouched(file', list) =>
               /\ node[n].deps = NodesOf(Holds(file', n)) /\ Work.items = Holds(file', n)
               /\ Optional(n) \in ToSet(Holds(file', n)) => Noted(list, Optional(n))
      BY <1>1, <1>5, <2>2 DEF AssetRead
    <3>2. Vouched(file', list) => AnalysisIs(file', n, node'[n])
      BY <1>1, <1>2, <1>3, <1>6, <3>1 DEF AnalysisIs
    <3> QED BY <1>1, <1>3, <3>1, <3>2 DEF AnalysisTells, Stands
  <2> QED BY <2>1, <2>2
<1> QED BY <1>1, <1>7 DEF Tells

LEMMA CompilationIsClosed ==
  ASSUME BuildInv, RecordInv, CourseInv, TellsInv, CloseOutput, Compiling, NEW n, n = Work.node
  PROVE  Tells(file', n, node'[n])
<1>1. /\ n \in Assets \cup Leaves /\ n \in Nodes /\ Work.todo = <<>> /\ run.pc = "work"
      /\ file' = Written(Output, <<version[n], Outcome>>) /\ cache' = cache
      /\ node'[n].version = node[n].version /\ node'[n].deps = node[n].deps
      /\ node'[n].scan = node[n].scan /\ node'[n].analysis = node[n].analysis
      /\ node'[n].state = "current" /\ node'[n].compile.inputs = node[n].compile.inputs
      /\ OnlyHas(node'[n].compile.products, Output, NewStatus(Output))
  BY CloseOutputIs DEF Compiling
<1>2. /\ Output = Product(n) /\ Outcome = Work.made /\ node[n].version = version[n]
      /\ node[n].state = "uncompiled"
  BY <1>1, WorkedNode DEF Compiling, Output, Outcome, CourseInv, VersionOK
<1>3. PICK list : list = node[n].compile.inputs
  OBVIOUS
<1>4. /\ file'[Product(n)].data = <<version[n], Work.made>>
      /\ Tells(file', n, node[n]) /\ CompileKnows(file', Work, list)
  <2>1. list = WorkPart.inputs
    BY <1>3 DEF WorkPart, Compiling
  <2> QED BY <1>1, <1>2, <2>1, OutputTells
<1>5. AnalysisTells(file', n, node'[n])
  BY <1>1, <1>2, <1>4 DEF Tells, AnalysisTells, AnalysisIs
<1>6. ProductNoted(n, node'[n])
  <2>1. [file |-> Product(n), status |-> NewStatus(Output)] \in ToSet(node'[n].compile.products)
    BY <1>1, <1>2 DEF OnlyHas
  <2>2. NewStatus(Output) # 0
    BY AllTyped, NewStatusIsNew
  <2> QED BY <2>1, <2>2 DEF ProductNoted, Noted
<1>7. CompileTells(file', n, node'[n])
  <2>1. CASE MissedIn(list)
    BY <1>1, <1>3, <2>1 DEF CompileTells
  <2>2. CASE ~MissedIn(list) /\ n \in Leaves
    <3>1. /\ Noted(list, Source(n)) /\ (Vouched(file', list) => Work.made = <<Holds(file', n)>>)
      BY <1>1, <1>4, <2>2 DEF CompileKnows, LeafRead
    <3>2. Vouched(file', list) => LeafIs(file', n, node'[n])
      BY <1>1, <1>2, <1>4, <3>1 DEF LeafIs
    <3> QED BY <1>1, <1>3, <2>2, <3>1, <3>2 DEF CompileTells, Stands
  <2>3. CASE ~MissedIn(list) /\ n \in Assets
    <3> DEFINE names == FilesIn(Names(file', n))
    <3>1. names \in Seq(Items(n))
      <4>1. Analysis(n) \in Files /\ Analysis(n) # Output
        BY <1>2, <2>3, KindsOfFiles, FileKinds
      <4>2. DOMAIN file = Files /\ Output \in Files
        BY <1>1, OutputIs DEF BuildInv, TypesInv, TextsOK
      <4>3. Names(file', n) = NamedIn(n)
        BY <1>1, <4>1, <4>2, WrittenIs DEF Names, NamedIn
      <4> QED BY <2>3, <4>3, NamesAreListed
    <3>2. AssetMade(file', Work, list, names)
      <4>1. Work.todo # <<Analysis(n)>>
        BY <1>1
      <4> QED BY <1>4, <2>3, <4>1 DEF CompileKnows
    <3> HIDE DEF names
    <3>3. /\ Noted(list, Analysis(n)) /\ \A f \in ToSet(names) : Noted(list, f)
          /\ Vouched(file', list) => Work.made = DataOf(file', names)
      BY <1>1, <2>3, <3>1, <3>2, AllMade
    <3>4. Vouched(file', list) => AssetIs(file', n, node'[n])
      BY <1>1, <1>2, <1>3, <1>4, <3>3 DEF AssetIs, names
    <3> QED BY <1>1, <1>3, <2>3, <3>3, <3>4 DEF CompileTells, Stands
  <2> QED BY <1>1, <2>1, <2>2, <2>3
<1> QED BY <1>1, <1>5, <1>6, <1>7 DEF Tells

LEMMA CloseOutputTells ==
  ASSUME BuildInv, RecordInv, CourseInv, TellsInv, CloseOutput
  PROVE  TellsInv'
<1>1. PICK n : n = Work.node
  OBVIOUS
<1>2. /\ n \in Assets \cup Leaves /\ n \in Nodes /\ OnlyChanges(n) /\ Work.todo = <<>>
      /\ run'.pc # "work" /\ file' = Written(Output, <<version[n], Outcome>>) /\ cache' = cache
  BY <1>1, CloseOutputIs
<1>3. run.pc = "work" /\ (Analysing \/ Compiling)
  BY <1>1, WorkedNode DEF CloseOutput
<1>4. Tells(file', n, node'[n])
  BY <1>1, <1>3, AnalysisIsClosed, CompilationIsClosed
<1>5. /\ \A m \in Nodes : Tells(file', m, node[m])
      /\ \A m \in DOMAIN cache.nodes : Tells(file', m, cache.nodes[m])
  BY <1>1, <1>2, <1>3, OutputTells
<1>6. \A m \in Nodes : Tells(file', m, node'[m])
  BY <1>2, <1>4, <1>5 DEF OnlyChanges
<1> QED BY <1>2, <1>5, <1>6, TellsAfter

LEMMA AllRecordedIncludes ==
  ASSUME NEW F, NEW list \in Seq(Entries(F)), NEW files \in Seq(F), \A f \in F : Resolve(f) \in Nat,
         Looked(list, run.cached)
  PROVE  Includes(AllRecorded(list, files), list)
<1> DEFINE more == AllRecorded(list, files)
<1>1. /\ \A e \in ToSet(more) : e \in ToSet(list) \/ (e.file \in F /\ e.status = Resolve(e.file))
      /\ Mentions(list) \subseteq Mentions(more)
  BY AllRecordedIs
<1> HIDE DEF more
<1>2. CASE MissedIn(list)
  <2>1. MissedIn(more)
    BY <1>1, <1>2 DEF MissedIn, Mentions
  <2> QED BY <2>1 DEF Includes, more
<1>3. CASE ~MissedIn(list)
  <2>1. ASSUME NEW e \in ToSet(list)
        PROVE  \E d \in ToSet(more) : d.file = e.file /\ d.status = e.status
    <3>1. PICK d \in ToSet(more) : d.file = e.file
      BY <1>1 DEF Mentions
    <3>2. e.file \in DOMAIN run.cached /\ run.cached[e.file] = e.status
      BY <1>3 DEF Looked, MissedIn
    <3>3. CASE d \in ToSet(list)
      <4>1. run.cached[d.file] = d.status
        BY <1>3, <3>3 DEF Looked, MissedIn
      <4> QED BY <3>1, <3>2, <4>1
    <3>4. CASE d.status = Resolve(d.file)
      BY <3>1, <3>2, <3>4 DEF Resolve
    <3> QED BY <1>1, <3>3, <3>4
  <2> QED BY <1>3, <2>1 DEF Includes, more
<1> QED BY <1>2, <1>3

LEMMA DepsFileAnalysedTells ==
  ASSUME BuildInv, RecordInv, TellsInv, DepsFileAnalysed
  PROVE  TellsInv'
<1>1. PICK n : n = Work.node
  OBVIOUS
<1>2. /\ n \in DepsNodes /\ n \in Nodes /\ n \notin Assets \cup Leaves /\ Work.todo = <<>>
      /\ Analysing /\ OnlyChanges(n) /\ run'.pc = "check" /\ disk' = disk
      /\ node'[n].deps = Work.items /\ node'[n].scan = node[n].scan
      /\ node'[n].state = "uncompiled"
      /\ node'[n].analysis.inputs = AllRecorded(node[n].analysis.inputs, ListedFiles)
      /\ ListedFiles \in Seq(Sources)
  BY <1>1, DepsFileAnalysedIs
<1>3. PICK list : list = node[n].analysis.inputs
  OBVIOUS
<1>4. PICK more : more = AllRecorded(list, ListedFiles)
  OBVIOUS
<1>5. run.pc = "work" /\ list = WorkPart.inputs
  BY <1>1, <1>2, <1>3 DEF Analysing, WorkPart
<1>6. Looked(list, run.cached) /\ DepsRead(file, Work, node[n], list)
  BY <1>1, <1>2, <1>5, WorkKnows DEF AnalysisKnows
<1>7. Includes(more, list)
  <2>1. list \in Seq(Entries(AnalysisReads(n)))
    BY <1>1, <1>3, <1>5, WorkedNode DEF HasEntries
  <2>2. ListedFiles \in Seq(AnalysisReads(n))
    <3>1. Sources \subseteq AnalysisReads(n)
      BY DEF AnalysisReads
    <3> QED BY <1>2, <3>1
  <2>3. \A f \in AnalysisReads(n) : Resolve(f) \in Nat
    BY ReadFiles, ResolveIs DEF RecordInv
  <2> QED BY <1>4, <1>6, <2>1, <2>2, <2>3, AllRecordedIncludes
<1>8. AnalysisTells(file, n, node'[n])
  <2>1. CASE MissedIn(more)
    BY <1>2, <1>3, <1>4, <2>1 DEF AnalysisTells
  <2>2. CASE ~MissedIn(more)
    <3>1. /\ ~MissedIn(list) /\ \A f : Noted(list, f) => Noted(more, f)
          /\ Vouched(file, more) => Vouched(file, list)
      BY <1>7, <2>2, MoreTells
    <3>2. /\ Noted(list, Source(n))
          /\ Vouched(file, list) =>
               Work.items = IF Holds(file, n) = Wildcard THEN node[n].scan ELSE Holds(file, n)
      BY <1>1, <1>6, <3>1 DEF DepsRead
    <3>3. Vouched(file, more) => AnalysisIs(file, n, node'[n])
      BY <1>2, <3>1, <3>2 DEF AnalysisIs
    <3> QED BY <1>2, <1>3, <1>4, <3>1, <3>2, <3>3 DEF AnalysisTells, Stands
  <2> QED BY <2>1, <2>2
<1>9. Tells(file, n, node'[n])
  BY <1>2, <1>8 DEF Tells
<1>10. file' = file /\ cache' = cache
  BY <1>2 DEF disk
<1> QED BY <1>2, <1>9, <1>10, OneNodeTells

-----------------------------------------------------------------------------
(* The begin and the end of a process, and what happens beside it.         *)
LEMMA NewNodeTells ==
  ASSUME NEW fs, NEW n
  PROVE  Tells(fs, n, NewNode)
BY NewNodeFields, UnanalysedTells

LEMMA BeginTells ==
  ASSUME BuildInv, TellsInv, Begin
  PROVE  TellsInv'
<1>1. /\ \A n \in Nodes : node'[n] = IF n \in DOMAIN cache.nodes THEN cache.nodes[n] ELSE NewNode
      /\ file' = file /\ cache' = cache
  <2>1. \A n \in Nodes : disk' = disk /\ node'[n] = IF n \in DOMAIN cache.nodes THEN cache.nodes[n] ELSE NewNode
    BY BeginSetsNodes DEF BuildInv
  <2> QED BY <2>1 DEF Begin, disk
<1>2. run'.pc = "check"
  BY DEF Begin, NoRun
<1>3. \A n \in Nodes : Tells(file', n, node'[n])
  BY <1>1, NewNodeTells DEF TellsInv
<1> QED BY <1>1, <1>2, <1>3, TellsAfter DEF TellsInv

LEMMA IdleTells ==
  ASSUME run' = NoRun, node' = [n \in Nodes |-> NewNode], \A n \in DOMAIN cache'.nodes : Tells(file', n, cache'.nodes[n])
  PROVE  TellsInv'
<1>1. run'.pc # "work"
  BY DEF NoRun
<1>2. \A n \in Nodes : Tells(file', n, node'[n])
  BY NewNodeTells
<1> QED BY <1>1, <1>2, TellsAfter

LEMMA WriteHeaderTells ==
  ASSUME BuildInv, RecordInv, TellsInv, WriteHeader
  PROVE  TellsInv'
<1>1. /\ run.pc = "save" /\ cache'.nodes = run.pending.nodes /\ run' = NoRun
      /\ node' = [n \in Nodes |-> NewNode] /\ file' = file
  BY WriteHeaderSets DEF BuildInv
<1>2. cache'.nodes = ToSave
  BY <1>1 DEF RecordInv
<1>3. \A n \in DOMAIN ToSave : n \in Nodes /\ ToSave[n] = node[n]
  BY DEF ToSave
<1> QED BY <1>1, <1>2, <1>3, IdleTells DEF TellsInv

LEMMA GivesUpTells ==
  ASSUME TellsInv, PastOK, GivesUp
  PROVE  TellsInv'
<1>1. run' = NoRun /\ node' = [n \in Nodes |-> NewNode] /\ disk' = disk
  BY GivesUpIs
<1>2. file' = file /\ cache' = cache
  BY <1>1 DEF disk
<1> QED BY <1>1, <1>2, IdleTells DEF TellsInv

LEMMA EnvironmentTells ==
  ASSUME BuildInv, RecordInv, TellsInv, Environment
  PROVE  TellsInv'
<1>1. /\ node' = node /\ run' = run /\ cache' = cache
      /\ \/ \E f \in Edited : \E text \in MayHold(f) : file' = Written(f, text)
         \/ \E f \in Edited \cup Made :
              (f \in Made => run.pc = "idle") /\ file' = [file EXCEPT ![f] = Missing]
         \/ file' = file
  BY EnvironmentSets
<1>2. ASSUME NEW f, OneFile(file, file', f), NewToAll(f, file'[f].status),
             \A m \in Assets : run.pc = "work" => f # Analysis(m)
      PROVE  TellsInv'
  <2>1. /\ \A n \in Nodes : Tells(file', n, node[n])
        /\ \A n \in DOMAIN cache.nodes : Tells(file', n, cache.nodes[n])
    BY <1>2, RecordsTell
  <2>2. ASSUME run.pc = "work"
        PROVE  WorkTells(file', run.work, node[run.work.node], node[run.work.node][run.work.stage].inputs, run.cached)
    <3>1. \A m \in Assets : Compiling => f # Analysis(m)
      BY <1>2, <2>2
    <3>2. WorkTells(file', Work, node[Work.node], WorkPart.inputs, run.cached)
      BY <1>2, <2>2, <3>1, WorkStillTells
    <3> QED BY <3>2 DEF Work, WorkPart
  <2> QED BY <1>1, <2>1, <2>2, TellsAfter
<1>3. CASE \E f \in Edited : \E text \in MayHold(f) : file' = Written(f, text)
  <2>1. PICK f \in Edited : \E text \in MayHold(f) : file' = Written(f, text)
    BY <1>3
  <2>2. f \in Files /\ \A m \in Assets : f # Analysis(m)
    BY KindsOfFiles
  <2>3. OneFile(file, file', f) /\ NewToAll(f, file'[f].status)
    BY <2>1, <2>2, WrittenIsNew
  <2> QED BY <1>2, <2>2, <2>3
<1>4. CASE \E f \in Edited \cup Made :
             (f \in Made => run.pc = "idle") /\ file' = [file EXCEPT ![f] = Missing]
  <2>1. PICK f \in Edited \cup Made : (f \in Made => run.pc = "idle") /\ file' = [file EXCEPT ![f] = Missing]
    BY <1>4
  <2>2. f \in Files /\ \A m \in Assets : run.pc = "work" => f # Analysis(m)
    BY <2>1, KindsOfFiles
  <2>3. OneFile(file, file', f) /\ NewToAll(f, file'[f].status)
    BY <2>1, <2>2, RemovedIsNew
  <2> QED BY <1>2, <2>2, <2>3
<1>5. CASE file' = file
  BY <1>1, <1>5, TellsAfter DEF TellsInv, Work, WorkPart
<1> QED BY <1>1, <1>3, <1>4, <1>5

LEMMA NextTells ==
  ASSUME BuildInv, RecordInv, PastOK, CourseInv, TellsInv, [Next]_bsVars
  PROVE  TellsInv'
<1>1. ASSUME StepOfProcess
      PROVE  TellsInv'
  BY <1>1, CheckFilesTells, DependenciesCheckedTells, PlainTells, CompileDepsNodeTells, StartCompileTells,
     OpenInputTells, DepsFileAnalysedTells, CreateOutputTells, CloseOutputTells, ReadDepsFileTells,
     ReadAssetSourceTells, TryOptionalTells, ReadAnalysisTells, IndexCASTells, ReadLeafTells
     DEF StepOfProcess, StepOfCheck, StepOfWork
<1>2. CASE UNCHANGED bsVars
  <2>1. file' = file /\ cache' = cache /\ node' = node /\ run' = run
    BY <1>2 DEF bsVars, disk
  <2> QED BY <2>1, TellsAfter DEF TellsInv, Work, WorkPart
<1> QED BY <1>1, <1>2, StepIs, BeginTells, WriteHeaderTells, GivesUpTells, EnvironmentTells

LEMMA InitTells ==
  ASSUME Init
  PROVE  TellsInv
<1>1. cache.nodes = <<>> /\ run.pc # "work" /\ node = [n \in Nodes |-> NewNode]
  BY DEF Init, NoCache, NoRun
<1>2. DOMAIN cache.nodes = {}
  BY <1>1
<1> QED BY <1>1, <1>2, NewNodeTells DEF TellsInv

-----------------------------------------------------------------------------
(* The catalog.  Unless it is torn it has the product of every asset that  *)
(* was saved, as long as that product is the one that was recorded: the    *)
(* process exports it again if it has compiled an asset, and what it has   *)
(* not compiled it has from the cache.                                     *)
InCatalog(a) == a \in DOMAIN catalog /\ catalog[a] = file[Product(a)].data
SavedInCatalog ==
  ~past.torn => \A a \in Assets \cap DOMAIN cache.nodes :
                  Agrees(cache.nodes[a].compile.products) => InCatalog(a)
ExportedOK ==
  run.pc \in {"content", "save"} /\ ExportNeeded => past.torn /\ \A a \in Exported : InCatalog(a)
KeptOK ==
  run.pc # "idle" => \A n \in Nodes : node[n].state = "current" /\ n \notin run.compiled =>
    n \in DOMAIN cache.nodes /\ node[n].compile = cache.nodes[n].compile
TornOK == run.pc = "catalog" => past.torn
CatalogInv == SavedInCatalog /\ ExportedOK /\ KeptOK /\ TornOK

LEMMA KeptAfter ==
  ASSUME KeptOK, run.pc # "idle", cache'.nodes = cache.nodes, run.compiled \subseteq run'.compiled,
         NEW n \in Nodes, OnlyChanges(n),
         \/ node'[n].state # "current" \/ n \in run'.compiled
         \/ node'[n].state = node[n].state /\ node'[n].compile = node[n].compile
  PROVE  KeptOK'
<1>1. \A m \in Nodes : node'[m].state = "current" /\ m \notin run'.compiled =>
        node[m].state = "current" /\ m \notin run.compiled /\ node'[m].compile = node[m].compile
  BY DEF OnlyChanges
<1> QED BY <1>1 DEF KeptOK

LEMMA CheckFilesKeeps ==
  ASSUME BuildInv, RecordInv, KeptOK, NEW n \in Nodes, CheckFiles(n)
  PROVE  KeptOK'
<1>1. cache'.nodes = cache.nodes /\ run'.compiled = run.compiled /\ run.pc # "idle"
  BY CheckFilesSets DEF BuildInv, disk
<1>2. CASE Reanalyses(n) /\ n \notin Leaves
  <2>1. OnlyChanges(n) /\ node'[n].state # "current"
    BY <1>2, AnalysisStarts
  <2> QED BY <1>1, <2>1, KeptAfter
<1>3. CASE ~(Reanalyses(n) /\ n \notin Leaves)
  <2>1. OnlyChanges(n) /\ node'[n] = AfterFiles(n) /\ IsNode(node[n])
    BY <1>3, CheckGoesOn DEF BuildInv, TypesInv, NodesOK
  <2>2. AfterFiles(n).state # "current" \/ AfterFiles(n) = node[n]
    <3> DEFINE x == SetState(node[n], "unanalyzed")
    <3>1. IsNode(x)
      BY <2>1, SetStateIsNode
    <3> HIDE DEF x
    <3>2. SetState(x, "uncompiled").state # "current" /\ SetState(node[n], "uncompiled").state # "current"
      BY <2>1, <3>1, SetStateIsNode
    <3> QED BY <3>2 DEF AfterFiles, x
  <2> QED BY <1>1, <2>1, <2>2, KeptAfter
<1> QED BY <1>2, <1>3

LEMMA DependenciesCheckedKeeps ==
  ASSUME BuildInv, KeptOK, NEW n \in Nodes, DependenciesChecked(n)
  PROVE  KeptOK'
<1>1. cache'.nodes = cache.nodes /\ run'.compiled = run.compiled /\ run.pc # "idle"
  BY DependenciesCheckedSets DEF BuildInv, disk
<1>2. IsNode(node[n]) /\ NodesOK
  BY DEF BuildInv, TypesInv, NodesOK
<1>3. SetState(node[n], "uncompiled").state # "current"
  BY <1>2, SetStateIsNode
<1>4. node' = node \/ node' = [node EXCEPT ![n] = SetState(node[n], "uncompiled")]
  BY DependenciesCheckedSets DEF BuildInv
<1>5. OnlyChanges(n) /\ (node'[n].state # "current" \/ node'[n] = node[n])
  BY <1>2, <1>3, <1>4 DEF OnlyChanges, NodesOK
<1> QED BY <1>1, <1>5, KeptAfter

(* Work brings a node up to date only when it is done.                     *)
LEMMA WorkKeeps ==
  ASSUME BuildInv, RecordInv, KeptOK, StepOfWork
  PROVE  KeptOK'
<1>1. cache'.nodes = cache.nodes
  BY StepKeepsTexts DEF StepOfProcess
<1>2. run.pc # "idle"
  BY StepHasRun DEF StepOfProcess
<1>3. CASE CompileDepsNode
  <2>1. PICK n : n = NextNode
    OBVIOUS
  <2>2. n \in Nodes /\ OnlyChanges(n) /\ run'.compiled = run.compiled \cup {n}
    BY <1>3, <2>1, CompileDepsNodeIs
  <2> QED BY <1>1, <1>2, <2>2, KeptAfter
<1>4. CASE StartCompile
  <2>1. PICK n : n = NextNode
    OBVIOUS
  <2>2. n \in Nodes /\ OnlyChanges(n) /\ run'.compiled = run.compiled /\ node'[n].state # "current"
    BY <1>4, <2>1, StartCompileIs DEF CourseKept, VersionSet
  <2> QED BY <1>1, <1>2, <2>2, KeptAfter
<1>5. PICK n : n = Work.node
  OBVIOUS
<1>6. run.pc = "work" => n \in Nodes /\ node[n].state # "current"
  BY <1>5, WorkedNode
<1>7. Continues => run'.compiled = run.compiled /\ run.pc = "work"
  BY DEF Continues, SameCourse, CourseKept
<1>8. ASSUME Continues, OnlyChanges(n), node'[n].state = node[n].state
      PROVE  KeptOK'
  BY <1>1, <1>2, <1>6, <1>7, <1>8, KeptAfter
<1>9. CASE OpenInput
  <2>1. n \in Nodes
    BY <1>6, <1>9 DEF OpenInput
  <2>2. Continues /\ OnlyChanges(n) /\ node'[n].state = node[n].state
    BY <1>5, <1>9, <2>1, OpenInputIs DEF WorkGoes, InputsSet
  <2> QED BY <1>8, <2>2
<1>10. CASE \E m \in DepsNodes : ReadDepsFile(m)
  <2>1. PICK m \in DepsNodes : ReadDepsFile(m)
    BY <1>10
  <2>2. m = n /\ Continues /\ OnlyChanges(n) /\ node'[n].state = node[n].state
    BY <1>5, <2>1, ReadDepsFileIs DEF WorkGoes, ScanSet
  <2> QED BY <1>8, <2>2
<1>11. CASE \E m \in Assets : ReadAssetSource(m)
  <2>1. PICK m \in Assets : ReadAssetSource(m)
    BY <1>11
  <2>2. m = n /\ Continues /\ OnlyChanges(n) /\ node'[n].state = node[n].state
    BY <1>5, <2>1, ReadAssetSourceIs DEF WorkGoes, DepsSet
  <2> QED BY <1>8, <2>2
<1>12. CASE \E m \in Assets : IndexCAS(m)
  <2>1. PICK m \in Assets : IndexCAS(m)
    BY <1>12
  <2>2. m = n /\ Continues /\ OnlyChanges(n) /\ node'[n].state = node[n].state
    BY <1>5, <2>1, IndexCASIs DEF WorkGoes, CASSet
  <2> QED BY <1>8, <2>2
<1>13. CASE (\E m \in Assets : TryOptional(m) \/ ReadAnalysis(m)) \/ (\E m \in Leaves : ReadLeaf(m))
  <2>1. node' = node /\ run'.compiled = run.compiled
    BY <1>13 DEF TryOptional, ReadAnalysis, ReadLeaf, DoneReading, BuildInv, TypesInv, RunOK, HasRun
  <2> QED BY <1>1, <1>2, <2>1 DEF KeptOK
<1>14. CASE CreateOutput
  <2>1. /\ Continues /\ OnlyChanges(n)
        /\ \E list : ProductsSet(node[n], node'[n], Work.stage, list)
    BY <1>5, <1>14, CreateOutputIs DEF WorkGoes
  <2>2. node'[n].state = node[n].state
    BY <2>1 DEF ProductsSet
  <2> QED BY <1>8, <2>1, <2>2
<1>15. CASE CloseOutput
  <2>1. n \in Nodes /\ OnlyChanges(n) /\ (Analysing \/ Compiling)
    BY <1>5, <1>15, CloseOutputIs, WorkedNode DEF CloseOutput
  <2>2. Analysing => run'.compiled = run.compiled /\ node'[n].state # "current"
    BY <1>5, <1>15, CloseOutputIs
  <2>3. Compiling => run'.compiled = run.compiled \cup {n}
    BY <1>5, <1>15, CloseOutputIs
  <2> QED BY <1>1, <1>2, <2>1, <2>2, <2>3, KeptAfter
<1>16. CASE DepsFileAnalysed
  <2>1. n \in Nodes /\ OnlyChanges(n) /\ run'.compiled = run.compiled /\ node'[n].state # "current"
    BY <1>5, <1>16, DepsFileAnalysedIs
  <2> QED BY <1>1, <1>2, <2>1, KeptAfter
<1> QED BY <1>3, <1>4, <1>9, <1>10, <1>11, <1>12, <1>13, <1>14, <1>15, <1>16 DEF StepOfWork

LEMMA StepKeepsKept ==
  ASSUME BuildInv, RecordInv, KeptOK, StepOfProcess
  PROVE  KeptOK'
<1>1. CASE PlainAction
  BY <1>1, PlainActions DEF Plain, KeptOK
<1> QED BY <1>1, CheckFilesKeeps, DependenciesCheckedKeeps, WorkKeeps DEF StepOfProcess, StepOfCheck

(* Only two steps write to the catalog, and only compilers to files.       *)
LEMMA StepKeepsCatalog ==
  ASSUME BuildInv, RecordInv, StepOfProcess, ~CreateCatalog, ~WriteCatalog
  PROVE  catalog' = catalog
<1>1. CASE CreateOutput \/ CloseOutput
  BY <1>1 DEF CreateOutput, CloseOutput
<1>2. CASE PlainAction
  BY <1>2 DEF PlainAction, CheckDependency, Stratify, NotCompiledAgain, NothingToExport, CopyContent,
              MoveContent, WriteInstance, disk
<1>3. ASSUME ~CreateOutput, ~CloseOutput, ~PlainAction
      PROVE  catalog' = catalog
  BY <1>3 DEF StepOfProcess, StepOfCheck, StepOfWork, CheckFiles, DependenciesChecked,
              CompileDepsNode, StartCompile, OpenInput, DepsFileAnalysed, ReadDepsFile,
              ReadAssetSource, TryOptional, ReadAnalysis, IndexCAS, ReadLeaf, disk
<1> QED BY <1>1, <1>2, <1>3

(* A product that agrees with what was saved of it has not been written.   *)
LEMMA SavedStaysInCatalog ==
  ASSUME BuildInv, RecordInv, TellsInv, SavedInCatalog, NEW f, OneFile(file, file', f),
         NewToAll(f, file'[f].status), cache'.nodes = cache.nodes, catalog' = catalog,
         past'.torn = past.torn
  PROVE  SavedInCatalog'
<1>1. SUFFICES ASSUME ~past.torn, NEW a \in Assets, a \in DOMAIN cache.nodes,
                      Agrees(cache.nodes[a].compile.products)'
               PROVE  InCatalog(a)'
  BY DEF SavedInCatalog
<1>2. PICK list : list = cache.nodes[a].compile.products
  OBVIOUS
<1>3. NewIn(list, f, file'[f].status)
  BY <1>1, <1>2 DEF NewToAll, NewTo
<1>4. Noted(list, Product(a))
  <2>1. cache.nodes[a].state = "current" /\ a \notin DepsNodes
    BY <1>1, BuildSystemAssumption DEF RecordInv, SavedRecordsOK
  <2> QED BY <1>1, <1>2, <2>1 DEF TellsInv, Tells, ProductNoted
<1>5. \A e \in ToSet(list) : e.status = file'[e.file].status
  BY <1>1, <1>2 DEF Agrees, Status
<1>6. Vouched(file', list)
  BY <1>5 DEF Vouched
<1>7. Product(a) # f /\ file'[Product(a)] = file[Product(a)]
  BY <1>3, <1>4, <1>6, StillVouched
<1>8. \A e \in ToSet(list) : e.file = Product(a)
  <2>1. HasEntries(a, cache.nodes[a])
    BY <1>1 DEF RecordInv, SavedRecordsOK
  <2> QED BY <1>2, <2>1, EntryFiles DEF ProductOf
<1>9. \A e \in ToSet(list) : e.status = file[e.file].status
  BY <1>5, <1>7, <1>8
<1>10. InCatalog(a)
  BY <1>1, <1>2, <1>9 DEF SavedInCatalog, Agrees, Status
<1> QED BY <1>7, <1>10 DEF InCatalog

LEMMA SameCatalog ==
  ASSUME SavedInCatalog, file' = file, cache'.nodes = cache.nodes, catalog' = catalog,
         past'.torn = past.torn
  PROVE  SavedInCatalog'
<1>1. \A a : InCatalog(a)' <=> InCatalog(a)
  BY DEF InCatalog
<1>2. \A a \in DOMAIN cache.nodes :
        Agrees(cache.nodes[a].compile.products)' <=> Agrees(cache.nodes[a].compile.products)
  BY DEF Agrees, Status
<1> QED BY <1>1, <1>2 DEF SavedInCatalog

(* The end of Build, up to the header.                                     *)
Late(r) == r.pc \in {"catalog", "content", "save"}
LateAction ==
  \/ NothingToExport \/ CreateCatalog \/ WriteCatalog
  \/ (\E id \in Wanted : CopyContent(id)) \/ MoveContent \/ WriteInstance

LEMMA LateStep ==
  ASSUME BuildInv, RecordInv, StepOfProcess, Late(run')
  PROVE  LateAction
<1>1. CASE StepOfWork
  <2>1. PICK n : n = Work.node
    OBVIOUS
  <2>2. PICK m : m = NextNode
    OBVIOUS
  <2>3. CompileDepsNode \/ StartCompile => ~Late(run')
    BY <2>2, CompileDepsNodeIs, StartCompileIs DEF Late
  <2>4. OpenInput \/ CreateOutput => ~Late(run')
    <3>1. OpenInput \/ CreateOutput => run.pc = "work"
      BY DEF OpenInput, CreateOutput, AllRead
    <3>2. OpenInput \/ CreateOutput => n \in Nodes
      BY <2>1, <3>1, WorkedNode
    <3> QED BY <2>1, <3>2, OpenInputIs, CreateOutputIs DEF Late, WorkGoes
  <2>5. DepsFileAnalysed \/ CloseOutput => ~Late(run')
    <3>1. CloseOutput => Analysing \/ Compiling
      BY WorkedNode DEF CloseOutput
    <3>2. CloseOutput => run'.pc = "check" \/ run'.pc = "compile"
      BY <2>1, <3>1, CloseOutputIs
    <3>3. DepsFileAnalysed => run'.pc = "check"
      BY <2>1, DepsFileAnalysedIs
    <3> QED BY <3>2, <3>3 DEF Late
  <2>6. (\E k \in DepsNodes : ReadDepsFile(k)) => ~Late(run')
    BY ReadDepsFileIs DEF Late, WorkGoes
  <2>7. (\E k \in Assets : ReadAssetSource(k) \/ IndexCAS(k)) => ~Late(run')
    BY ReadAssetSourceIs, IndexCASIs DEF Late, WorkGoes
  <2>8. (\E k \in Assets : TryOptional(k) \/ ReadAnalysis(k)) \/ (\E k \in Leaves : ReadLeaf(k)) => ~Late(run')
    BY DEF TryOptional, ReadAnalysis, ReadLeaf, Reads, DoneReading, BuildInv, TypesInv, RunOK, HasRun, Late
  <2> QED BY <1>1, <2>3, <2>4, <2>5, <2>6, <2>7, <2>8 DEF StepOfWork
<1>2. CASE \E n \in Nodes : CheckFiles(n) \/ DependenciesChecked(n) \/ CheckDependency(n)
  <2>1. run'.pc = "check" \/ run'.pc = "work"
    BY <1>2, CheckFilesSets, DependenciesCheckedSets, CheckDependencySets DEF BuildInv
  <2> QED BY <2>1 DEF Late
<1>3. CASE Stratify \/ NotCompiledAgain
  <2>1. run'.pc = "compile"
    BY <1>3 DEF Stratify, NotCompiledAgain, AtCompile, BuildInv, TypesInv, RunOK, HasRun
  <2> QED BY <2>1 DEF Late
<1> QED BY <1>1, <1>2, <1>3 DEF StepOfProcess, StepOfCheck, PlainAction, LateAction

LEMMA LateKeeps ==
  ASSUME BuildInv, PastOK, ExportedOK, TornOK, LateAction
  PROVE  ExportedOK' /\ TornOK'
<1>1. Plain
  BY PlainActions DEF LateAction, PlainAction
<1>2. /\ run'.compiled = run.compiled /\ file' = file
  BY <1>1 DEF Plain
<1>3. CASE CreateCatalog
  <2>1. run'.pc = "catalog" /\ past'.torn = TRUE
    BY <1>3 DEF CreateCatalog, PastOK, HasPast, BuildInv, TypesInv, RunOK, HasRun
  <2> QED BY <2>1 DEF ExportedOK, TornOK
<1>4. ASSUME ~CreateCatalog
      PROVE  run'.pc \in {"content", "save"} /\ run'.relevant = run.relevant /\ past' = past
  BY <1>4 DEF LateAction, NothingToExport, WriteCatalog, CopyContent, MoveContent, WriteInstance,
              BuildInv, TypesInv, RunOK, HasRun
<1>5. ASSUME ~CreateCatalog
      PROVE  Exported' = Exported /\ (ExportNeeded' <=> ExportNeeded) /\ TornOK'
  BY <1>2, <1>4, <1>5 DEF Exported, ExportNeeded, TornOK
<1>6. CASE NothingToExport
  <2>1. ~CreateCatalog
    BY <1>6 DEF NothingToExport, CreateCatalog
  <2> QED BY <1>5, <1>6, <2>1 DEF NothingToExport, ExportedOK
<1>7. CASE WriteCatalog
  <2>1. ~CreateCatalog /\ past.torn
    BY <1>7 DEF WriteCatalog, CreateCatalog, TornOK, AllCompiled
  <2>2. catalog' = [a \in Exported |-> file[Product(a)].data]
    BY <1>7 DEF WriteCatalog
  <2>3. \A a \in Exported : InCatalog(a)'
    BY <1>2, <2>2 DEF InCatalog
  <2> QED BY <1>4, <1>5, <2>1, <2>3 DEF ExportedOK
<1>8. CASE (\E id \in Wanted : CopyContent(id)) \/ MoveContent \/ WriteInstance
  <2>1. run.pc = "content" /\ catalog' = catalog
    BY <1>8 DEF CopyContent, MoveContent, WriteInstance, ReadyToSave, disk
  <2>2. ~CreateCatalog
    BY <2>1 DEF CreateCatalog, AllCompiled
  <2>3. \A a : InCatalog(a)' <=> InCatalog(a)
    BY <1>2, <2>1 DEF InCatalog
  <2> QED BY <1>4, <1>5, <2>1, <2>2, <2>3 DEF ExportedOK
<1> QED BY <1>3, <1>6, <1>7, <1>8 DEF LateAction

LEMMA StepInCatalog ==
  ASSUME BuildInv, RecordInv, PastOK, TellsInv, SavedInCatalog, TornOK, StepOfProcess
  PROVE  SavedInCatalog'
<1>1. past'.torn = past.torn \/ CreateCatalog
  BY StepKeepsPast
<1>2. CASE CreateCatalog
  <2>1. past'.torn = TRUE
    BY <1>2 DEF CreateCatalog, PastOK, HasPast
  <2> QED BY <2>1 DEF SavedInCatalog
<1>3. CASE WriteCatalog
  <2>1. past'.torn = TRUE
    BY <1>3 DEF WriteCatalog, TornOK
  <2> QED BY <2>1 DEF SavedInCatalog
<1>4. ASSUME ~CreateCatalog, ~WriteCatalog
      PROVE  cache'.nodes = cache.nodes /\ catalog' = catalog /\ past'.torn = past.torn
  BY <1>1, <1>4, StepKeepsCatalog, StepKeepsTexts
<1>5. CASE CreateOutput \/ CloseOutput
  <2>1. run.pc = "work" /\ Work.node \in Assets \cup Leaves /\ \E data : file' = Written(Output, data)
    BY <1>5, CreateOutputIs, CloseOutputIs DEF CreateOutput, CloseOutput, AllRead
  <2>2. PICK f : f = Output
    OBVIOUS
  <2>3. f \in Files
    BY <2>1, <2>2, OutputIs
  <2>4. OneFile(file, file', f) /\ NewToAll(f, file'[f].status)
    BY <2>1, <2>2, <2>3, WrittenIsNew
  <2>5. ~CreateCatalog /\ ~WriteCatalog
    BY <2>1 DEF CreateCatalog, WriteCatalog, AllCompiled
  <2> QED BY <1>4, <2>4, <2>5, SavedStaysInCatalog
<1>6. ASSUME ~CreateOutput, ~CloseOutput
      PROVE  file' = file
  <2>1. CASE PlainAction
    BY <2>1, PlainActions DEF Plain
  <2>2. CASE ~PlainAction
    BY <1>6, <2>2 DEF StepOfProcess, StepOfCheck, StepOfWork, CheckFiles, DependenciesChecked,
              CompileDepsNode, StartCompile, OpenInput, DepsFileAnalysed, ReadDepsFile,
              ReadAssetSource, TryOptional, ReadAnalysis, IndexCAS, ReadLeaf, disk
  <2> QED BY <2>1, <2>2
<1> QED BY <1>2, <1>3, <1>4, <1>5, <1>6, SameCatalog

LEMMA StepCatalog ==
  ASSUME BuildInv, RecordInv, PastOK, TellsInv, CatalogInv, StepOfProcess
  PROVE  CatalogInv'
<1>1. SavedInCatalog' /\ KeptOK'
  BY StepInCatalog, StepKeepsKept DEF CatalogInv
<1>2. CASE Late(run')
  BY <1>1, <1>2, LateStep, LateKeeps DEF CatalogInv
<1>3. CASE ~Late(run')
  BY <1>1, <1>3 DEF CatalogInv, Late, ExportedOK, TornOK
<1> QED BY <1>2, <1>3

LEMMA BeginCatalog ==
  ASSUME BuildInv, PastOK, CatalogInv, Begin
  PROVE  CatalogInv'
<1>1. run'.pc = "check" /\ disk' = disk
  BY BeginSets, RootIsNode, BeginSetsNodes DEF BuildInv
<1>2. past'.torn = past.torn
  BY DEF Begin, PastOK, HasPast
<1>3. file' = file /\ cache' = cache /\ catalog' = catalog
  BY <1>1 DEF disk
<1>4. SavedInCatalog'
  BY <1>2, <1>3, SameCatalog DEF CatalogInv
<1>5. KeptOK'
  <2>1. \A n \in Nodes : node'[n] = IF n \in DOMAIN cache.nodes THEN cache.nodes[n] ELSE NewNode
    BY BeginSetsNodes DEF BuildInv
  <2>2. \A n \in Nodes : node'[n].state = "current" => n \in DOMAIN cache.nodes /\ node'[n] = cache.nodes[n]
    BY <2>1, NewNodeFields
  <2> QED BY <1>3, <2>2 DEF KeptOK
<1> QED BY <1>1, <1>4, <1>5 DEF CatalogInv, ExportedOK, TornOK

(* Nothing is known of a process that is over.                             *)
LEMMA IdleCatalog ==
  ASSUME run' = NoRun, SavedInCatalog'
  PROVE  CatalogInv'
<1>1. run'.pc = "idle"
  BY NoRunFields
<1> QED BY <1>1 DEF CatalogInv, ExportedOK, KeptOK, TornOK

(* What is saved has been exported, or has not been compiled and is in the *)
(* catalog of an earlier build.                                            *)
LEMMA WriteHeaderCatalog ==
  ASSUME BuildInv, RecordInv, PastOK, CatalogInv, WriteHeader
  PROVE  CatalogInv'
<1>1. /\ run.pc = "save" /\ cache'.nodes = run.pending.nodes /\ run' = NoRun
      /\ file' = file /\ catalog' = catalog
      /\ past'.torn = (past.torn /\ ~ExportNeeded)
  BY WriteHeaderSets DEF BuildInv, PastOK, HasPast
<1>2. cache'.nodes = ToSave /\ DOMAIN ToSave = Nodes \cap Found /\ \A n \in DOMAIN ToSave : ToSave[n] = node[n]
  BY <1>1 DEF RecordInv, ToSave, Found
<1>3. \A a : InCatalog(a)' <=> InCatalog(a)
  BY <1>1 DEF InCatalog
<1>4. CASE ExportNeeded
  <2>1. \A a \in Exported : InCatalog(a)
    BY <1>1, <1>4 DEF CatalogInv, ExportedOK
  <2>2. \A a \in Assets \cap DOMAIN cache'.nodes : a \in Exported
    BY <1>2 DEF Exported, Found
  <2>3. SavedInCatalog'
    BY <1>3, <2>1, <2>2 DEF SavedInCatalog
  <2> QED BY <1>1, <2>3, IdleCatalog
<1>5. CASE ~ExportNeeded
  <2>1. ASSUME ~past.torn, NEW a \in Assets, a \in DOMAIN cache'.nodes,
               Agrees(cache.nodes[a].compile.products)'
        PROVE  InCatalog(a)
    <3>1. a \in Found /\ a \in Nodes /\ cache'.nodes[a] = node[a]
      BY <1>2, <2>1
    <3>2. node[a].state = "current"
      BY <1>1, <3>1, AllCurrent
    <3>3. a \notin run.compiled
      BY <1>5, <2>1, <3>1 DEF ExportNeeded, Exported, Found
    <3>4. a \in DOMAIN cache.nodes /\ node[a].compile = cache.nodes[a].compile
      BY <1>1, <3>1, <3>2, <3>3 DEF CatalogInv, KeptOK
    <3>5. Agrees(cache.nodes[a].compile.products)
      <4>1. cache'.nodes[a].compile.products = cache.nodes[a].compile.products
        BY <3>1, <3>4
      <4>2. \A e \in ToSet(cache'.nodes[a].compile.products) : e.status = file'[e.file].status
        BY <2>1 DEF Agrees, Status
      <4> QED BY <1>1, <4>1, <4>2 DEF Agrees, Status
    <3> QED BY <2>1, <3>4, <3>5 DEF CatalogInv, SavedInCatalog
  <2>2. SavedInCatalog'
    BY <1>1, <1>3, <1>5, <2>1 DEF SavedInCatalog
  <2> QED BY <1>1, <2>2, IdleCatalog
<1> QED BY <1>4, <1>5

LEMMA GivesUpCatalog ==
  ASSUME PastOK, CatalogInv, GivesUp
  PROVE  CatalogInv'
<1>1. run' = NoRun /\ disk' = disk /\ past'.torn = past.torn
  BY GivesUpIs
<1>2. file' = file /\ cache' = cache /\ catalog' = catalog
  BY <1>1 DEF disk
<1> QED BY <1>1, <1>2, SameCatalog, IdleCatalog DEF CatalogInv

(* While the process runs nothing beside it touches what the build makes.  *)
LEMMA EnvironmentCatalog ==
  ASSUME BuildInv, RecordInv, PastOK, TellsInv, CatalogInv, Environment
  PROVE  CatalogInv'
<1>1. /\ node' = node /\ run' = run /\ cache' = cache /\ catalog' = catalog
      /\ \/ \E f \in Edited : \E text \in MayHold(f) : file' = Written(f, text)
         \/ \E f \in Edited \cup Made :
              (f \in Made => run.pc = "idle") /\ file' = [file EXCEPT ![f] = Missing]
         \/ file' = file
  BY EnvironmentSets
<1>2. past'.torn = past.torn
  BY DEF Environment, Edit, RemoveFile, RemoveContent, Upgrade, Disturbs, PastOK, HasPast
<1>3. ASSUME SavedInCatalog', run.pc # "idle" => \A a \in Assets : file'[Product(a)] = file[Product(a)]
      PROVE  CatalogInv'
  <2>1. Exported' = Exported /\ (ExportNeeded' <=> ExportNeeded)
    BY <1>1 DEF Exported, ExportNeeded
  <2>2. run.pc # "idle" => \A a \in Assets : InCatalog(a)' <=> InCatalog(a)
    BY <1>1, <1>3 DEF InCatalog
  <2>3. ExportedOK'
    BY <1>1, <1>2, <2>1, <2>2 DEF CatalogInv, ExportedOK, Exported
  <2>4. KeptOK' /\ TornOK'
    BY <1>1, <1>2 DEF CatalogInv, KeptOK, TornOK
  <2> QED BY <1>3, <2>3, <2>4 DEF CatalogInv
<1>4. CASE \E f \in Edited : \E text \in MayHold(f) : file' = Written(f, text)
  <2>1. PICK f \in Edited : \E text \in MayHold(f) : file' = Written(f, text)
    BY <1>4
  <2>2. f \in Files /\ \A a \in Assets : Product(a) \in Files /\ f # Product(a)
    BY KindsOfFiles
  <2>3. OneFile(file, file', f) /\ NewToAll(f, file'[f].status)
    BY <2>1, <2>2, WrittenIsNew
  <2>4. SavedInCatalog'
    BY <1>1, <1>2, <2>3, SavedStaysInCatalog DEF CatalogInv
  <2>5. \A a \in Assets : file'[Product(a)] = file[Product(a)]
    BY <2>2, <2>3 DEF OneFile
  <2> QED BY <1>3, <2>4, <2>5
<1>5. CASE \E f \in Edited \cup Made :
             (f \in Made => run.pc = "idle") /\ file' = [file EXCEPT ![f] = Missing]
  <2>1. PICK f \in Edited \cup Made : (f \in Made => run.pc = "idle") /\ file' = [file EXCEPT ![f] = Missing]
    BY <1>5
  <2>2. f \in Files /\ \A a \in Assets : Product(a) \in Files /\ (run.pc # "idle" => f # Product(a))
    BY <2>1, KindsOfFiles
  <2>3. OneFile(file, file', f) /\ NewToAll(f, file'[f].status)
    BY <2>1, <2>2, RemovedIsNew
  <2>4. SavedInCatalog'
    BY <1>1, <1>2, <2>3, SavedStaysInCatalog DEF CatalogInv
  <2>5. run.pc # "idle" => \A a \in Assets : file'[Product(a)] = file[Product(a)]
    BY <2>2, <2>3 DEF OneFile
  <2> QED BY <1>3, <2>4, <2>5
<1>6. CASE file' = file
  BY <1>1, <1>2, <1>3, <1>6, SameCatalog DEF CatalogInv
<1> QED BY <1>1, <1>4, <1>5, <1>6

LEMMA NextCatalog ==
  ASSUME BuildInv, RecordInv, PastOK, TellsInv, CatalogInv, [Next]_bsVars
  PROVE  CatalogInv'
<1>1. CASE UNCHANGED bsVars
  <2>1. file' = file /\ cache' = cache /\ catalog' = catalog /\ node' = node /\ run' = run /\ past' = past
    BY <1>1 DEF bsVars, disk
  <2>2. SavedInCatalog'
    BY <2>1, SameCatalog DEF CatalogInv
  <2>3. \A a : InCatalog(a)' <=> InCatalog(a)
    BY <2>1 DEF InCatalog
  <2>4. Exported' = Exported /\ (ExportNeeded' <=> ExportNeeded)
    BY <2>1 DEF Exported, ExportNeeded
  <2> QED BY <2>1, <2>2, <2>3, <2>4 DEF CatalogInv, ExportedOK, KeptOK, TornOK
<1> QED BY <1>1, StepIs, BeginCatalog, StepCatalog, WriteHeaderCatalog, GivesUpCatalog, EnvironmentCatalog

LEMMA InitCatalog ==
  ASSUME Init
  PROVE  CatalogInv
<1>1. cache.nodes = <<>> /\ run = NoRun
  BY DEF Init, NoCache
<1>2. DOMAIN cache.nodes = {} /\ run.pc = "idle"
  BY <1>1, NoRunFields
<1> QED BY <1>2 DEF CatalogInv, SavedInCatalog, ExportedOK, KeptOK, TornOK

-----------------------------------------------------------------------------
(* What a build in peace leaves.  A record that agrees with the files      *)
(* stands, and what it tells is then what the files are now.               *)
LEMMA RecordStands ==
  ASSUME BuildInv, RecordInv, QuietOK, TellsInv, run.pc = "save", NEW n \in Found, ~Missed(node[n])
  PROVE  LET x == node[n]
         IN  /\ n \in Nodes /\ n \in Checked /\ x.state = "current" /\ x.version = version[n]
             /\ ~MissedIn(x.analysis.inputs) /\ ~MissedIn(x.compile.inputs)
             /\ Stands(file, x.analysis) /\ Stands(file, x.compile)
             /\ ScanIsTrue(n, x) /\ Agrees(x.analysis.inputs)
             /\ AnalysisTells(file, n, x) /\ CompileTells(file, n, x)
             /\ HasEntries(n, x) /\ IsNode(x)
<1>1. n \in Nodes /\ node[n].state = "current"
  BY AllCurrent
<1>2. n \in Checked
  <2>1. ~Checking
    BY DEF Checking, Analysing
  <2>2. Searched
    BY <2>1 DEF BuildInv, GraphInv, ControlOK, Searched
  <2> QED BY <2>2, AllCompleted DEF Completed, Checked
<1>3. KnownToMatch(n)
  BY <1>2 DEF QuietOK, CheckedMatch
<1>4. Matches(node[n].analysis) /\ Matches(node[n].compile) /\ node[n].version = version[n]
      /\ ScanIsTrue(n, node[n])
  BY <1>1, <1>3 DEF KnownToMatch
<1>5. Stands(file, node[n].analysis) /\ Stands(file, node[n].compile)
  BY <1>4 DEF Stands, Vouched, Matches, Agrees, Status
<1>6. HasEntries(n, node[n]) /\ IsNode(node[n])
  BY <1>1 DEF RecordInv, NodeRecordsOK, NodeOK, BuildInv, TypesInv, NodesOK
<1>7. ToSet(node[n].analysis.inputs \o node[n].compile.inputs)
        = ToSet(node[n].analysis.inputs) \cup ToSet(node[n].compile.inputs)
  BY <1>6, EntriesAreOfFiles, ConcatElements
<1>8. ~MissedIn(node[n].analysis.inputs) /\ ~MissedIn(node[n].compile.inputs)
  BY <1>7 DEF Missed, MissedIn
<1>9. AnalysisTells(file, n, node[n]) /\ CompileTells(file, n, node[n])
  BY <1>1 DEF TellsInv, Tells
<1> QED BY <1>1, <1>2, <1>4, <1>5, <1>6, <1>8, <1>9 DEF Matches

(* It depends on what its source says.                                     *)
LEMMA DependsAsItShould ==
  ASSUME BuildInv, RecordInv, QuietOK, TellsInv, run.pc = "save", NEW n \in Found, ~Missed(node[n])
  PROVE  node[n].deps = ShouldDependOn(n)
<1> DEFINE x == node[n]
<1>1. /\ n \in Nodes /\ ~MissedIn(x.analysis.inputs) /\ Stands(file, x.analysis) /\ ScanIsTrue(n, x)
      /\ AnalysisTells(file, n, x) /\ HasEntries(n, x) /\ IsNode(x)
  BY RecordStands
<1> HIDE DEF x
<1>2. CASE n \in Leaves
  BY <1>1, <1>2 DEF HasEntries, ShouldDependOn, x
<1>3. CASE n \notin Leaves
  <2>1. AnalysisIs(file, n, x)
    BY <1>1, <1>3 DEF AnalysisTells
  <2>2. CASE n \in Assets
    BY <1>3, <2>1, <2>2 DEF AnalysisIs, Holds, ShouldDependOn, x
  <2>3. CASE n \in DepsNodes /\ n \notin Assets
    <3>1. x.deps = IF Holds(file, n) = Wildcard THEN x.scan ELSE Holds(file, n)
      BY <2>1, <2>3 DEF AnalysisIs
    <3>2. x.deps # None
      BY <1>1, TextsAssumption DEF IsNode
    <3>3. Holds(file, n) = Wildcard => x.scan = InDirectory
      BY <1>1, <2>3, <3>1, <3>2 DEF ScanIsTrue, Text, Holds
    <3> QED BY <1>3, <2>3, <3>1, <3>3 DEF ShouldDependOn, Holds, x
  <2> QED BY <1>1, <1>3, <2>2, <2>3 DEF Nodes
<1> QED BY <1>2, <1>3

LEMMA LeafIsFresh ==
  ASSUME BuildInv, RecordInv, QuietOK, TellsInv, run.pc = "save", NEW n \in Found \cap Leaves,
         ~Missed(node[n])
  PROVE  file[Product(n)].data = LeafProduct(n)
<1>1. /\ node[n].version = version[n] /\ ~MissedIn(node[n].compile.inputs)
      /\ Stands(file, node[n].compile) /\ CompileTells(file, n, node[n])
  BY RecordStands
<1>2. n \notin DepsNodes /\ n \notin Assets
  BY BuildSystemAssumption
<1>3. LeafIs(file, n, node[n])
  BY <1>1, <1>2 DEF CompileTells
<1> QED BY <1>1, <1>3 DEF LeafIs, LeafProduct, Holds

(* What the source of an asset names, and that the file it can do without  *)
(* is there if it was used.                                                *)
LEMMA UsesAreNamed ==
  ASSUME BuildInv, RecordInv, QuietOK, TellsInv, run.pc = "save", NEW n \in Found \cap Assets,
         ~Missed(node[n])
  PROVE  /\ Holds(file, n) \in Seq(Items(n)) /\ Names(file, n) = Holds(file, n)
         /\ file[Optional(n)].data = Absent => Optional(n) \notin ToSet(Holds(file, n))
<1> DEFINE x == node[n]
<1>1. /\ n \in Nodes /\ ~MissedIn(x.analysis.inputs) /\ Stands(file, x.analysis)
      /\ AnalysisTells(file, n, x) /\ Agrees(x.analysis.inputs)
  BY RecordStands
<1> HIDE DEF x
<1>2. n \notin Leaves
  BY BuildSystemAssumption
<1>3. AnalysisIs(file, n, x) /\ Noted(x.analysis.inputs, Source(n))
  BY <1>1, <1>2 DEF AnalysisTells
<1>4. \A f : Noted(x.analysis.inputs, f) => Status(f) # 0
  BY <1>1 DEF Noted, Agrees
<1>5. Source(n) \in Edited /\ Optional(n) \in Edited
  BY <1>1, KindsOfFiles
<1>6. \A f \in Edited : Noted(x.analysis.inputs, f) => file[f].data # Absent
  BY <1>4 DEF RecordInv, FilesOK
<1>7. Holds(file, n) \in Texts[n]
  BY <1>1, <1>3, <1>5, <1>6 DEF Holds, BuildInv, TypesInv, TextsOK
<1> QED BY <1>3, <1>5, <1>6, <1>7, TextsAssumption DEF AnalysisIs

(* What an asset uses, as AssetProduct has it.                             *)
Uses(n) ==
  Of(IF file[Optional(n)].data = Absent THEN {"source", "product"} ELSE {"source", "product", "optional"},
     Holds(file, n))

LEMMA UsesAre ==
  ASSUME NEW n \in Assets, Holds(file, n) \in Seq(Items(n)),
         file[Optional(n)].data = Absent => Optional(n) \notin ToSet(Holds(file, n))
  PROVE  /\ FilesIn(Holds(file, n)) = Uses(n) /\ Uses(n) \in Seq(Items(n))
         /\ ToSet(Uses(n)) \subseteq ToSet(Holds(file, n))
<1> DEFINE T == Holds(file, n)
<1> HIDE DEF T
<1>1. T \in Seq(Items(n))
  BY DEF T
<1>2. \A i \in ToSet(T) : i \in Items(n)
  BY <1>1, SeqElements
<1>3. ASSUME file[Optional(n)].data = Absent
      PROVE  {i \in ToSet(T) : i[1] \in {"source", "product", "optional"}}
               = {i \in ToSet(T) : i[1] \in {"source", "product"}}
  <2>1. Optional(n) \notin ToSet(T)
    BY <1>3 DEF T
  <2>2. \A i \in ToSet(T) : i[1] # "optional"
    BY <1>2, <2>1, KindsOfItems
  <2> QED BY <2>2
<1>4. FilesIn(T) = Uses(n)
  BY <1>3 DEF FilesIn, Uses, Of, T
<1>5. FilesIn(T) \in Seq(Items(n)) /\ ToSet(FilesIn(T)) \subseteq ToSet(T)
  BY <1>1, AmongElements DEF FilesIn, Of
<1> QED BY <1>4, <1>5 DEF T

(* An asset's product is made from what its source names.                  *)
LEMMA AssetIsFresh ==
  ASSUME BuildInv, RecordInv, QuietOK, TellsInv, run.pc = "save", NEW n \in Found \cap Assets,
         ~Missed(node[n]), \A d \in Deps(n) : ~Missed(node[d])
  PROVE  file[Product(n)].data = AssetProduct(n)
<1>1. /\ n \in Nodes /\ n \in Checked /\ node[n].version = version[n]
      /\ ~MissedIn(node[n].compile.inputs) /\ Stands(file, node[n].compile)
      /\ CompileTells(file, n, node[n])
  BY RecordStands
<1>2. n \notin DepsNodes /\ n \notin Leaves
  BY BuildSystemAssumption
<1>3. AssetIs(file, n, node[n])
  BY <1>1, <1>2 DEF CompileTells
<1>4. PICK uses : uses = Uses(n)
  OBVIOUS
<1>5. /\ Holds(file, n) \in Seq(Items(n)) /\ Names(file, n) = Holds(file, n)
      /\ file[Optional(n)].data = Absent => Optional(n) \notin ToSet(Holds(file, n))
  BY UsesAreNamed
<1>6. /\ FilesIn(Names(file, n)) = uses /\ uses \in Seq(Items(n))
      /\ ToSet(uses) \subseteq ToSet(Holds(file, n))
  BY <1>4, <1>5, UsesAre
<1>7. file[Product(n)].data = <<version[n], DataOf(file, uses)>>
  BY <1>1, <1>3, <1>6 DEF AssetIs
<1>8. ASSUME NEW i \in DOMAIN uses, uses[i][1] = "product"
      PROVE  file[uses[i]].data = LeafProduct(uses[i][2])
  <2>1. uses[i] \in ToSet(uses) /\ uses[i] \in Items(n)
    BY <1>6, <1>8 DEF ToSet
  <2>2. PICK m \in Leaves : uses[i] = Product(m)
    BY <1>8, <2>1, KindsOfItems
  <2>3. uses[i][2] = m
    BY <2>2 DEF Product
  <2>4. Named(n, NamedIn(n), node[n].deps)
    BY <1>1 DEF RecordInv, NodeRecordsOK, NodeOK
  <2>5. NamedIn(n) = Holds(file, n)
    BY <1>5 DEF NamedIn, Names
  <2>6. m \in Deps(n)
    BY <1>6, <2>1, <2>2, <2>4, <2>5 DEF Named, Deps
  <2>7. m \in Found
    BY <2>6, AllCurrent
  <2> QED BY <2>2, <2>3, <2>6, <2>7, LeafIsFresh
<1>9. DataOf(file, uses) = [i \in DOMAIN uses |-> IF uses[i][1] = "product" THEN LeafProduct(uses[i][2])
                                                 ELSE file[uses[i]].data]
  BY <1>8 DEF DataOf
<1> QED BY <1>4, <1>7, <1>9 DEF AssetProduct, Uses, Holds

(* What FreshAfterBuild says of one node.                                  *)
SavedIsFresh(n) ==
  \/ Missed(cache.nodes[n])
  \/ /\ cache.nodes[n].deps = ShouldDependOn(n)
     /\ n \in Leaves => file[Product(n)].data = LeafProduct(n)
     /\ n \in Assets => \/ \E d \in ToSet(cache.nodes[n].deps) : Missed(cache.nodes[d])
                        \/ /\ file[Product(n)].data = AssetProduct(n)
                           /\ past.torn \/ (n \in DOMAIN catalog /\ catalog[n] = AssetProduct(n))

LEMMA SameProducts ==
  ASSUME file' = file, version' = version
  PROVE  \A n : /\ ShouldDependOn(n)' = ShouldDependOn(n) /\ LeafProduct(n)' = LeafProduct(n)
                /\ AssetProduct(n)' = AssetProduct(n)
BY DEF ShouldDependOn, InDirectory, LeafProduct, AssetProduct

LEMMA WriteHeaderFresh ==
  ASSUME BuildInv, RecordInv, PastOK, QuietInv, TellsInv, CatalogInv, WriteHeader, past'.touched = "no"
  PROVE  FreshAfterBuild'
<1>1. /\ run.pc = "save" /\ cache'.nodes = run.pending.nodes
      /\ file' = file /\ catalog' = catalog /\ version' = version
      /\ past'.touched = IF past.touched = "during" THEN past.touched ELSE "no"
  BY WriteHeaderSets DEF BuildInv, PastOK, HasPast
<1>2. QuietOK
  BY <1>1 DEF QuietInv, Quiet
<1>3. cache'.nodes = ToSave /\ DOMAIN ToSave = Nodes \cap Found /\ \A n \in DOMAIN ToSave : ToSave[n] = node[n]
  BY <1>1 DEF RecordInv, ToSave, Found
<1>4. SavedInCatalog'
  BY WriteHeaderCatalog DEF CatalogInv
<1>5. \A n : /\ ShouldDependOn(n)' = ShouldDependOn(n) /\ LeafProduct(n)' = LeafProduct(n)
             /\ AssetProduct(n)' = AssetProduct(n)
  BY <1>1, SameProducts
<1>6. ASSUME NEW n \in DOMAIN cache'.nodes, ~Missed(cache'.nodes[n])
      PROVE  SavedIsFresh(n)'
  <2>1. n \in Found /\ cache'.nodes[n] = node[n] /\ ~Missed(node[n])
    BY <1>3, <1>6
  <2>2. node[n].deps = ShouldDependOn(n)
    BY <1>1, <1>2, <2>1, DependsAsItShould
  <2>3. n \in Leaves => file[Product(n)].data = LeafProduct(n)
    BY <1>1, <1>2, <2>1, LeafIsFresh
  <2>4. ASSUME n \in Assets, \A d \in ToSet(cache'.nodes[n].deps) : ~Missed(cache'.nodes[d])
        PROVE  /\ file[Product(n)].data = AssetProduct(n)
               /\ ~past'.torn => n \in DOMAIN catalog /\ catalog[n] = AssetProduct(n)
    <3>1. \A d \in Deps(n) : d \in Nodes \cap Found
      BY <1>1, <2>1, AllCurrent DEF Deps
    <3>2. \A d \in Deps(n) : ~Missed(node[d])
      BY <1>3, <2>1, <2>4, <3>1 DEF Deps
    <3>3. file[Product(n)].data = AssetProduct(n)
      BY <1>1, <1>2, <2>1, <2>4, <3>2, AssetIsFresh
    <3>4. Matches(node[n].compile)
      <4>1. n \in Checked /\ node[n].state = "current"
        BY <1>1, <1>2, <2>1, RecordStands
      <4> QED BY <1>2, <4>1 DEF QuietOK, CheckedMatch, KnownToMatch
    <3>5. Agrees(cache.nodes[n].compile.products)'
      BY <1>1, <2>1, <3>4 DEF Matches, Agrees, Status
    <3>6. ~past'.torn => InCatalog(n)'
      BY <1>4, <1>6, <2>4, <3>5 DEF SavedInCatalog
    <3> QED BY <1>1, <3>3, <3>6 DEF InCatalog
  <2>5. n \in Assets => \/ \E d \in ToSet(cache'.nodes[n].deps) : Missed(cache'.nodes[d])
                        \/ /\ file[Product(n)].data = AssetProduct(n)
                           /\ past'.torn \/ (n \in DOMAIN catalog /\ catalog[n] = AssetProduct(n))
    BY <2>4
  <2> QED BY <1>1, <1>5, <2>1, <2>2, <2>3, <2>5 DEF SavedIsFresh
<1>7. \A n \in DOMAIN cache'.nodes : SavedIsFresh(n)'
  <2>1. \A n \in DOMAIN cache'.nodes : Missed(cache'.nodes[n]) => SavedIsFresh(n)'
    BY DEF SavedIsFresh
  <2> QED BY <1>6, <2>1
<1> QED BY <1>7 DEF FreshAfterBuild, SavedIsFresh

LEMMA NextFresh ==
  ASSUME BuildInv, RecordInv, PastOK, ContentOK, QuietInv, TellsInv, CatalogInv, FreshAfterBuild,
         [Next]_bsVars
  PROVE  FreshAfterBuild'
<1>1. CASE Begin
  <2>1. past'.result = "none"
    BY <1>1 DEF Begin, PastOK, HasPast
  <2> QED BY <2>1 DEF FreshAfterBuild
<1>2. CASE StepOfProcess
  <2>1. run.pc # "idle" /\ past'.result = past.result
    BY <1>2, StepHasRun, StepKeepsPast
  <2> QED BY <2>1 DEF ContentOK, FreshAfterBuild
<1>3. CASE WriteHeader
  BY <1>3, WriteHeaderFresh DEF FreshAfterBuild
<1>4. CASE GivesUp
  BY <1>4, GivesUpIs DEF FreshAfterBuild
<1>5. CASE Environment
  <2>1. past'.touched # "no"
    BY <1>5, EnvironmentDisturbs
  <2> QED BY <2>1 DEF FreshAfterBuild
<1>6. CASE UNCHANGED bsVars
  <2>1. file' = file /\ version' = version /\ cache' = cache /\ catalog' = catalog /\ past' = past
    BY <1>6 DEF bsVars, disk
  <2>2. \A n : /\ ShouldDependOn(n)' = ShouldDependOn(n) /\ LeafProduct(n)' = LeafProduct(n)
               /\ AssetProduct(n)' = AssetProduct(n)
    BY <2>1, SameProducts
  <2> QED BY <2>1, <2>2 DEF FreshAfterBuild
<1> QED BY <1>1, <1>2, <1>3, <1>4, <1>5, <1>6, StepIs

(* A build that succeeds while nothing changes leaves what a build from    *)
(* nothing would make of the sources: a record that still agrees with the  *)
(* files tells what is in them, whatever happened since it was made        *)
(* (CheckNodeFilesAndVersion, MarkOutputFileFinished, TryOpenInput), and   *)
(* the catalog has what the products hold (ExportScriptCatalog).           *)
THEOREM BuildSystemFreshAfterBuild == Spec => []FreshAfterBuild
<1> DEFINE Inv == /\ BuildInv /\ RecordInv /\ PastOK /\ ContentOK /\ CourseInv /\ QuietInv
                  /\ TellsInv /\ CatalogInv /\ FreshAfterBuild
<1>1. Init => Inv
  <2>1. Init => FreshAfterBuild
    BY DEF Init, FreshAfterBuild
  <2> QED BY <2>1, InitBuild, InitRecords, InitContent, InitCourse, InitQuiet, InitTells, InitCatalog
<1>2. Inv /\ [Next]_bsVars => Inv'
  BY NextBuild, NextRecords, CircularStep, NextContent, NextCourse, NextQuiet, NextTells, NextCatalog,
     NextFresh
<1> QED
  BY <1>1, <1>2, PTL DEF Spec

-----------------------------------------------------------------------------
(* The data of files.  A compiler makes it from what it read, so that what *)
(* it has closed is neither absent nor part of a file.                     *)
Lost == {Absent, Partial}
VersionsOK == DOMAIN version = Nodes /\ \A n \in Nodes : version[n] \in {1, 2}
LeafProductsOK == \A m \in Leaves : file[Product(m)].data \in LeafData \cup Lost
MadeOK ==
  Compiling => /\ Work.made \in Seq(AnyText \cup LeafData)
               /\ Work.node \in Leaves => Work.made \in Seq(AnyText)
DataInv == VersionsOK /\ LeafProductsOK /\ MadeOK

LEMMA TextsAreText ==
  /\ \A n \in Nodes : Texts[n] \subseteq AnyText
  /\ OptionalTexts \subseteq AnyText
<1>1. OptionalTexts \subseteq AnyText
  BY DEF AnyText
<1>2. ASSUME NEW n \in Nodes, NEW t \in Texts[n]
      PROVE  t \in AnyText
  <2>1. t \in UNION {Texts[m] : m \in Nodes}
    BY <1>2, Zenon
  <2> QED BY <2>1 DEF AnyText
<1> QED BY <1>1, <1>2

(* What a compilation reads.                                               *)
LEMMA UsedIsData ==
  ASSUME BuildInv, RecordInv, LeafProductsOK, NEW n \in Assets, NEW f \in Usable(n),
         file[f].data \notin Lost
  PROVE  file[f].data \in AnyText \cup LeafData
<1>1. CASE f \in Sources
  <2>1. PICK m \in Nodes : f = Source(m)
    BY <1>1 DEF Sources
  <2>2. file[f].data \in Texts[m]
    BY <2>1, TextIsText DEF BuildInv, Lost
  <2> QED BY <2>2, TextsAreText
<1>2. CASE f \in OptionalOf(n)
  <2>1. f = Optional(n) /\ f \in Edited
    BY <1>2, KindsOfFiles DEF OptionalOf
  <2>2. file[f].data \in MayHold(f)
    BY <2>1 DEF RecordInv, FilesOK, Lost
  <2>3. MayHold(f) = OptionalTexts
    BY <2>1 DEF MayHold, Optional
  <2> QED BY <2>2, <2>3, TextsAreText
<1>3. CASE f \in LeafProducts(node[n].deps)
  BY <1>3 DEF LeafProducts, LeafProductsOK
<1> QED BY <1>1, <1>2, <1>3 DEF Usable

(* What a compiler has made.                                               *)
LEMMA OutcomeIsData ==
  ASSUME BuildInv, RecordInv, DataInv, CloseOutput, NEW n, n = Work.node
  PROVE  LET data == <<version[n], Outcome>>
         IN  /\ data \in MadeData /\ data \notin Lost
             /\ n \in Leaves => data \in LeafData
<1> DEFINE data == <<version[n], Outcome>>
<1>1. n \in Nodes /\ n \in Assets \cup Leaves /\ Work.todo = <<>> /\ run.pc = "work"
  BY CloseOutputIs DEF CloseOutput
<1>2. version[n] \in {1, 2}
  BY <1>1 DEF DataInv, VersionsOK
<1>3. (Analysing \/ Compiling) /\ (Analysing => n \notin Leaves)
  BY <1>1, WorkedNode
<1>4. CASE Analysing
  <2>1. n \in Assets
    BY <1>1, <1>3, <1>4
  <2>2. n \notin DepsNodes
    BY <2>1, AssetIsNoDepsNode
  <2>3. Work.items \in Seq(Items(n))
    BY <1>1, <1>4, <2>2 DEF RecordInv, ToDoOK, Named
  <2>4. Seq(Items(n)) \subseteq Seq(UNION {Items(m) : m \in Assets})
    <3>1. Items(n) \subseteq UNION {Items(m) : m \in Assets}
      BY <2>1
    <3> QED BY <3>1
  <2>5. Outcome = Work.items
    BY <1>4 DEF Outcome, Analysing
  <2>6. data \in MadeFrom(UNION {Items(m) : m \in Assets})
    BY <1>2, <2>3, <2>4, <2>5 DEF MadeFrom
  <2>7. data \in MadeData
    BY <2>6 DEF MadeData
  <2> QED BY <1>3, <1>4, <2>7, TextsAssumption DEF Lost
<1>5. CASE Compiling
  <2>1. Outcome = Work.made
    BY <1>5 DEF Outcome, Compiling
  <2>2. data \in MadeFrom(AnyText \cup LeafData)
    BY <1>2, <1>5, <2>1 DEF MadeFrom, DataInv, MadeOK
  <2>3. data \in MadeData
    BY <2>2 DEF MadeData
  <2>4. n \in Leaves => data \in LeafData
    BY <1>2, <1>5, <2>1 DEF LeafData, MadeFrom, DataInv, MadeOK
  <2> QED BY <2>3, <2>4, TextsAssumption DEF Lost
<1> QED BY <1>3, <1>4, <1>5

LEMMA StepKeepsVersion ==
  ASSUME BuildInv, StepOfProcess
  PROVE  version' = version
<1>1. CASE CreateOutput \/ CloseOutput
  BY <1>1 DEF CreateOutput, CloseOutput
<1>2. CASE PlainAction
  BY <1>2, PlainActions DEF Plain
<1>3. ASSUME ~CreateOutput, ~CloseOutput, ~PlainAction
      PROVE  version' = version
  BY <1>3 DEF StepOfProcess, StepOfCheck, StepOfWork, CheckFiles, DependenciesChecked,
              CompileDepsNode, StartCompile, OpenInput, DepsFileAnalysed, ReadDepsFile,
              ReadAssetSource, TryOptional, ReadAnalysis, IndexCAS, ReadLeaf, disk
<1> QED BY <1>1, <1>2, <1>3

(* What has been made, as reading goes on.                                 *)
LEMMA MadeStays ==
  ASSUME MadeOK, NEW todo, NEW open, NEW created, NEW items, NEW made,
         WorkGoes(todo, open, created, items, made),
         Compiling => \/ made = Work.made
                      \/ /\ made \in Seq(AnyText \cup LeafData)
                         /\ Work.node \in Leaves => made \in Seq(AnyText)
  PROVE  MadeOK'
BY DEF MadeOK, WorkGoes

LEMMA NoCompilation ==
  ASSUME ~Compiling'
  PROVE  MadeOK'
BY DEF MadeOK

LEMMA StepOfCheckMade ==
  ASSUME BuildInv, RecordInv, StepOfCheck
  PROVE  MadeOK'
<1>1. CASE PlainAction
  BY <1>1, PlainActions, NoCompilation DEF Plain, Compiling
<1>2. ASSUME NEW n \in Nodes, CheckFiles(n)
      PROVE  ~Compiling'
  BY <1>2, AnalysisStarts, CheckGoesOn DEF Compiling
<1>3. ASSUME NEW n \in Nodes, DependenciesChecked(n)
      PROVE  ~Compiling'
  BY <1>3, DependenciesCheckedSets DEF Compiling, BuildInv
<1> QED BY <1>1, <1>2, <1>3, NoCompilation DEF StepOfCheck

LEMMA StepOfWorkMade ==
  ASSUME BuildInv, RecordInv, DataInv, StepOfWork
  PROVE  MadeOK'
<1> USE DEF DataInv
<1>1. CASE CompileDepsNode
  <2>1. PICK n : n = NextNode
    OBVIOUS
  <2> QED BY <1>1, <2>1, CompileDepsNodeIs, NoCompilation DEF Compiling
<1>2. CASE StartCompile
  <2>1. PICK n : n = NextNode
    OBVIOUS
  <2>2. run'.work.made = <<>>
    BY <1>2, <2>1, StartCompileIs
  <2> QED BY <2>2 DEF MadeOK, Work
<1>3. PICK n : n = Work.node
  OBVIOUS
<1>4. run.pc = "work" => n \in Nodes
  BY <1>3, WorkedNode
<1>5. CASE OpenInput
  <2>1. n \in Nodes
    BY <1>4, <1>5 DEF OpenInput
  <2> QED BY <1>3, <1>5, <2>1, OpenInputIs, MadeStays
<1>6. ASSUME NEW m \in DepsNodes, ReadDepsFile(m)
      PROVE  MadeOK'
  BY <1>6, ReadDepsFileIs, MadeStays
<1>7. ASSUME NEW m \in Assets, ReadAssetSource(m)
      PROVE  MadeOK'
  BY <1>7, ReadAssetSourceIs, MadeStays
<1>8. ASSUME NEW m \in Assets, TryOptional(m) \/ ReadAnalysis(m)
      PROVE  MadeOK'
  <2>1. PICK todo, items : OnlyReads(m, todo, items, Work.made)
    BY <1>8, TryOptionalSets, ReadAnalysisSets DEF BuildInv
  <2>2. WorkGoes(todo, FALSE, Work.created, items, Work.made)
    BY <2>1, OnlyReadsIs
  <2> QED BY <2>2, MadeStays
<1>9. ASSUME NEW m \in Leaves, ReadLeaf(m)
      PROVE  MadeOK'
  <2>1. Text(m) \in Texts[m] /\ OnlyReads(m, <<>>, Work.items, <<Text(m)>>)
    BY <1>9, ReadLeafSets DEF BuildInv
  <2>2. m \in Nodes
    BY AssetIsNoDepsNode
  <2>3. Text(m) \in AnyText
    BY <2>1, <2>2, TextsAreText
  <2>4. WorkGoes(<<>>, FALSE, Work.created, Work.items, <<Text(m)>>)
    BY <2>1, OnlyReadsIs
  <2>5. <<Text(m)>> \in Seq(AnyText) /\ <<Text(m)>> \in Seq(AnyText \cup LeafData)
    BY <2>3
  <2> QED BY <2>4, <2>5, MadeStays
<1>10. ASSUME NEW m \in Assets, IndexCAS(m)
       PROVE  MadeOK'
  <2> DEFINE data == file[Reading].data
             made == Append(Work.made, data)
  <2>1. /\ m = Work.node /\ Work.open /\ Compiling /\ Reading # Analysis(m) /\ data \notin Lost
        /\ WorkGoes(Tail(Work.todo), FALSE, Work.created, Work.items, made)
    BY <1>10, IndexCASIs DEF Lost
  <2>2. Work.todo # <<>>
    BY <2>1 DEF BuildInv, TypesInv, WorkOK, Compiling
  <2>3. m \notin Leaves
    BY AssetIsNoDepsNode
  <2>4. Work.todo # <<Analysis(m)>>
    BY <2>1 DEF Reading
  <2>5. Work.todo \in Seq(Usable(m))
    BY <2>1, <2>3, <2>4 DEF RecordInv, ToDoOK
  <2>6. Reading \in Usable(m)
    BY <2>2, <2>5, HeadAndTail DEF Reading
  <2>7. data \in AnyText \cup LeafData
    BY <2>1, <2>6, UsedIsData
  <2> HIDE DEF data
  <2>8. made \in Seq(AnyText \cup LeafData)
    BY <2>1, <2>7 DEF MadeOK
  <2> HIDE DEF made
  <2> QED BY <2>1, <2>3, <2>8, MadeStays
<1>11. CASE CreateOutput
  BY <1>3, <1>11, CreateOutputIs, MadeStays
<1>12. CASE CloseOutput
  BY <1>3, <1>12, CloseOutputIs, NoCompilation
<1>13. CASE DepsFileAnalysed
  BY <1>3, <1>13, DepsFileAnalysedIs, NoCompilation
<1> QED BY <1>1, <1>2, <1>5, <1>6, <1>7, <1>8, <1>9, <1>10, <1>11, <1>12, <1>13 DEF StepOfWork

(* The product of a leaf is written by its compiler.                       *)
LEMMA StepLeafProducts ==
  ASSUME BuildInv, RecordInv, DataInv, StepOfProcess
  PROVE  LeafProductsOK'
<1> USE DEF DataInv
<1>1. CASE CreateOutput
  <2>1. PICK n : n = Work.node
    OBVIOUS
  <2>2. n \in Assets \cup Leaves /\ file' = Written(Output, Partial) /\ cache' = cache /\ run.pc = "work"
    BY <1>1, <2>1, CreateOutputIs DEF WorkGoes
  <2>3. /\ file'[Output] = [status |-> NewStatus(Output), data |-> Partial]
        /\ \A f \in Files : f # Output => file'[f] = file[f]
    BY <2>1, <2>2, OutputWritten
  <2>4. file'[Output].data \in Lost
    BY <2>3 DEF Lost
  <2> QED BY <2>3, <2>4, KindsOfFiles DEF LeafProductsOK
<1>2. CASE CloseOutput
  <2>1. PICK n : n = Work.node
    OBVIOUS
  <2> DEFINE data == <<version[n], Outcome>>
  <2>2. n \in Assets \cup Leaves /\ file' = Written(Output, data) /\ cache' = cache /\ run.pc = "work"
    BY <1>2, <2>1, CloseOutputIs DEF CloseOutput
  <2>3. n \in Leaves => data \in LeafData
    BY <1>2, <2>1, OutcomeIsData
  <2> HIDE DEF data
  <2>4. /\ file'[Output] = [status |-> NewStatus(Output), data |-> data]
        /\ \A f \in Files : f # Output => file'[f] = file[f]
    BY <2>1, <2>2, OutputWritten
  <2>5. file'[Output].data = data
    BY <2>4
  <2>6. ASSUME NEW m \in Leaves, Product(m) = Output
        PROVE  n \in Leaves
    BY <2>1, <2>6, FileKinds DEF Output
  <2> QED BY <2>3, <2>4, <2>5, <2>6, KindsOfFiles DEF LeafProductsOK
<1>3. CASE PlainAction
  BY <1>3, PlainActions DEF Plain, LeafProductsOK
<1>4. ASSUME ~CreateOutput, ~CloseOutput, ~PlainAction
      PROVE  file' = file
  BY <1>4 DEF StepOfProcess, StepOfCheck, StepOfWork, CheckFiles, DependenciesChecked,
              CompileDepsNode, StartCompile, OpenInput, DepsFileAnalysed, ReadDepsFile,
              ReadAssetSource, TryOptional, ReadAnalysis, IndexCAS, ReadLeaf, disk
<1> QED BY <1>1, <1>2, <1>3, <1>4 DEF LeafProductsOK

LEMMA EnvironmentData ==
  ASSUME BuildInv, RecordInv, DataInv, Environment
  PROVE  DataInv'
<1> USE DEF DataInv
<1>1. /\ node' = node /\ run' = run
      /\ \/ \E f \in Edited : \E text \in MayHold(f) : file' = Written(f, text)
         \/ \E f \in Edited \cup Made : file' = [file EXCEPT ![f] = Missing]
         \/ file' = file
  BY EnvironmentSets
<1>2. MadeOK'
  BY <1>1 DEF MadeOK, Compiling, Work
<1>3. VersionsOK'
  <2>1. CASE \E n \in Assets \cup Leaves : Upgrade(n)
    BY <2>1 DEF Upgrade, VersionsOK
  <2>2. CASE version' = version
    BY <2>2 DEF VersionsOK
  <2> QED BY <2>1, <2>2 DEF Environment, Edit, RemoveFile, RemoveContent
<1>4. DOMAIN file = Files
  BY DEF BuildInv, TypesInv, TextsOK
<1>5. ASSUME NEW f \in Edited, NEW text, file' = Written(f, text)
      PROVE  LeafProductsOK'
  <2>1. f \in Files /\ \A m \in Leaves : Product(m) # f /\ Product(m) \in Files
    BY KindsOfFiles
  <2>2. \A m \in Leaves : file'[Product(m)] = file[Product(m)]
    BY <1>4, <1>5, <2>1, WrittenIs
  <2> QED BY <2>2 DEF LeafProductsOK
<1>6. ASSUME NEW f \in Edited \cup Made, file' = [file EXCEPT ![f] = Missing]
      PROVE  LeafProductsOK'
  <2>1. \A g \in Files : file'[g] = IF g = f THEN Missing ELSE file[g]
    BY <1>4, <1>6
  <2>2. Missing.data \in Lost
    BY DEF Missing, Lost
  <2> QED BY <2>1, <2>2, KindsOfFiles DEF LeafProductsOK
<1>7. ASSUME file' = file
      PROVE  LeafProductsOK'
  BY <1>7 DEF LeafProductsOK
<1> QED BY <1>1, <1>2, <1>3, <1>5, <1>6, <1>7

LEMMA NextData ==
  ASSUME BuildInv, RecordInv, PastOK, DataInv, [Next]_bsVars
  PROVE  DataInv'
<1> USE DEF DataInv
<1>1. ASSUME StepOfProcess
      PROVE  DataInv'
  BY <1>1, StepOfCheckMade, StepOfWorkMade, StepLeafProducts, StepKeepsVersion
     DEF StepOfProcess, VersionsOK
<1>2. ASSUME file' = file, version' = version, ~Compiling'
      PROVE  DataInv'
  BY <1>2, NoCompilation DEF VersionsOK, LeafProductsOK
<1>3. CASE Begin
  <2>1. disk' = disk
    BY <1>3 DEF Begin
  <2> QED BY <1>2, <1>3, <2>1, BeginSets DEF Compiling, disk
<1>4. CASE WriteHeader
  BY <1>2, <1>4, WriteHeaderSets DEF Compiling, NoRun, BuildInv
<1>5. CASE GivesUp
  BY <1>2, <1>5, GivesUpIs DEF Compiling, disk
<1>6. CASE UNCHANGED bsVars
  BY <1>6 DEF bsVars, disk, VersionsOK, LeafProductsOK, MadeOK, Compiling, Work
<1> QED BY <1>1, <1>3, <1>4, <1>5, <1>6, StepIs, EnvironmentData

LEMMA InitData ==
  ASSUME Init
  PROVE  DataInv
<1>1. version = [n \in Nodes |-> 1] /\ run.pc # "work"
  BY DEF Init, NoRun
<1>2. \A f \in Files : f[1] # "source" => file[f] = Missing
  BY DEF Init
<1>3. \A m \in Leaves : Product(m) \in Files /\ Product(m)[1] # "source"
  BY KindsOfFiles DEF Product
<1>4. LeafProductsOK
  BY <1>2, <1>3 DEF LeafProductsOK, Missing, Lost
<1> QED BY <1>1, <1>4 DEF DataInv, VersionsOK, MadeOK, Compiling

-----------------------------------------------------------------------------
(* A product that still has the status that was recorded of it is whole.   *)
WholeIn(fs, list) ==
  \A e \in ToSet(list) : e.status # 0 /\ e.status = fs[e.file].status => fs[e.file].data \notin Lost
Whole(fs, x) == WholeIn(fs, x.analysis.products) /\ WholeIn(fs, x.compile.products)
WholeInv ==
  /\ \A n \in Nodes : Whole(file, node[n])
  /\ \A n \in DOMAIN cache.nodes : Whole(file, cache.nodes[n])

LEMMA WholeAfter ==
  ASSUME \A n \in Nodes : Whole(file', node'[n]), \A n \in DOMAIN cache'.nodes : Whole(file', cache'.nodes[n])
  PROVE  WholeInv'
BY DEF WholeInv

LEMMA NothingIsWhole ==
  ASSUME NEW fs
  PROVE  WholeIn(fs, <<>>) /\ WholeIn(fs, NoFiles.products) /\ Whole(fs, NewNode)
<1>1. ToSet(<<>>) = {} /\ NoFiles.products = <<>>
  BY DEF ToSet, NoFiles
<1> QED BY <1>1, NewNodeFields DEF WholeIn, Whole

LEMMA WholeInStays ==
  ASSUME NEW fs, NEW gs, NEW f, OneFile(fs, gs, f), NEW list, NewIn(list, f, gs[f].status), WholeIn(fs, list)
  PROVE  WholeIn(gs, list)
BY DEF WholeIn, OneFile, NewIn

LEMMA RecordsAreWhole ==
  ASSUME WholeInv, NEW f, OneFile(file, file', f), NewToAll(f, file'[f].status)
  PROVE  /\ \A n \in Nodes : Whole(file', node[n])
         /\ \A n \in DOMAIN cache.nodes : Whole(file', cache.nodes[n])
BY WholeInStays DEF WholeInv, Whole, NewToAll, NewTo

(* A node that keeps its products, or loses some.                          *)
FewerProducts(x, y) ==
  /\ y.analysis = x.analysis \/ y.analysis.products \in {x.analysis.products, <<>>}
  /\ y.compile = x.compile \/ y.compile.products \in {x.compile.products, <<>>}

LEMMA OneNodeWhole ==
  ASSUME WholeInv, file' = file, cache'.nodes = cache.nodes,
         NEW n \in Nodes, OnlyChanges(n), FewerProducts(node[n], node'[n])
  PROVE  WholeInv'
<1>1. Whole(file, node'[n])
  BY NothingIsWhole DEF WholeInv, Whole, FewerProducts
<1> QED BY <1>1, WholeAfter DEF WholeInv, OnlyChanges

LEMMA SetStateFewer ==
  ASSUME NEW x, IsNode(x), NEW s \in {"unanalyzed", "uncompiled", "current"}
  PROVE  FewerProducts(x, SetState(x, s)) /\ IsNode(SetState(x, s))
BY SetStateIsNode DEF FewerProducts, NoFiles

LEMMA StepOfCheckWhole ==
  ASSUME BuildInv, RecordInv, WholeInv, StepOfCheck
  PROVE  WholeInv'
<1>1. CASE PlainAction
  BY <1>1, PlainActions, WholeAfter DEF Plain, WholeInv
<1>2. ASSUME NEW n \in Nodes
      PROVE  IsNode(node[n]) /\ NodesOK
  BY DEF BuildInv, TypesInv, NodesOK
<1>3. ASSUME NEW n \in Nodes, CheckFiles(n)
      PROVE  WholeInv'
  <2>1. file' = file /\ cache' = cache
    BY <1>3, CheckFilesSets DEF BuildInv, disk
  <2>2. CASE Reanalyses(n) /\ n \notin Leaves
    <3>1. OnlyChanges(n) /\ node'[n].analysis = NoFiles /\ node'[n].compile = NoFiles
      BY <1>3, <2>2, AnalysisStarts
    <3> QED BY <2>1, <3>1, OneNodeWhole DEF FewerProducts, NoFiles
  <2>3. CASE ~(Reanalyses(n) /\ n \notin Leaves)
    <3>1. OnlyChanges(n) /\ node'[n] = AfterFiles(n)
      BY <1>3, <2>3, CheckGoesOn
    <3> DEFINE x == SetState(node[n], "unanalyzed")
    <3>2. IsNode(x) /\ x.analysis.products = <<>> /\ x.compile.products = <<>>
      BY <1>2, SetStateIsNode DEF NoFiles
    <3> HIDE DEF x
    <3>3. FewerProducts(x, SetState(x, "uncompiled")) /\ FewerProducts(node[n], SetState(node[n], "uncompiled"))
      BY <1>2, <3>2, SetStateFewer
    <3>4. FewerProducts(node[n], SetState(x, "uncompiled")) /\ FewerProducts(node[n], node[n])
      BY <3>2, <3>3 DEF FewerProducts
    <3> QED BY <2>1, <3>1, <3>3, <3>4, OneNodeWhole DEF AfterFiles, x
  <2> QED BY <2>2, <2>3
<1>4. ASSUME NEW n \in Nodes, DependenciesChecked(n)
      PROVE  WholeInv'
  <2>1. /\ file' = file /\ cache' = cache
        /\ node' = [node EXCEPT ![n] = SetState(node[n], "uncompiled")] \/ node' = node
    BY <1>4, DependenciesCheckedSets DEF BuildInv, disk
  <2>2. FewerProducts(node[n], SetState(node[n], "uncompiled")) /\ FewerProducts(node[n], node[n])
    BY <1>2, SetStateFewer DEF FewerProducts
  <2>3. OnlyChanges(n) /\ FewerProducts(node[n], node'[n])
    BY <1>2, <2>1, <2>2 DEF OnlyChanges, NodesOK
  <2> QED BY <2>1, <2>3, OneNodeWhole
<1> QED BY <1>1, <1>3, <1>4 DEF StepOfCheck

LEMMA OutputWhole ==
  ASSUME BuildInv, RecordInv, WholeInv, run.pc = "work", NEW n \in Nodes, n = Work.node,
         n \in Assets \cup Leaves, OnlyChanges(n), cache' = cache,
         NEW data, file' = Written(Output, data), NEW s, OnlyHas(node'[n][Work.stage].products, Output, s),
         s = 0 \/ data \notin Lost,
         Analysing => node'[n].compile.products \in {node[n].compile.products, <<>>},
         Compiling => node'[n].analysis = node[n].analysis
  PROVE  WholeInv'
<1>1. PICK f : f = Output
  OBVIOUS
<1>2. f \in Files /\ (Analysing \/ Compiling)
  BY <1>1, OutputIs, WorkedNode
<1>3. file' = Written(f, data)
  BY <1>1
<1>4. /\ OneFile(file, file', f) /\ NewToAll(f, file'[f].status)
      /\ file'[f] = [status |-> NewStatus(f), data |-> data]
  BY <1>2, <1>3, WrittenIsNew
<1>5. /\ \A m \in Nodes : Whole(file', node[m])
      /\ \A m \in DOMAIN cache.nodes : Whole(file', cache.nodes[m])
  BY <1>4, RecordsAreWhole
<1>6. file'[f].data = data
  BY <1>4
<1>7. WholeIn(file', node'[n][Work.stage].products)
  BY <1>1, <1>6 DEF WholeIn, OnlyHas
<1>8. Whole(file', node'[n])
  <2>1. CASE Analysing
    BY <1>5, <1>7, <2>1, NothingIsWhole DEF Whole, Analysing
  <2>2. CASE Compiling
    BY <1>5, <1>7, <2>2 DEF Whole, Compiling
  <2> QED BY <1>2, <2>1, <2>2
<1> QED BY <1>5, <1>8, WholeAfter DEF OnlyChanges

LEMMA StepOfWorkWhole ==
  ASSUME BuildInv, RecordInv, DataInv, WholeInv, StepOfWork
  PROVE  WholeInv'
<1>1. cache'.nodes = cache.nodes
  BY StepKeepsTexts DEF StepOfProcess
<1>2. CASE CompileDepsNode
  <2>1. PICK n : n = NextNode
    OBVIOUS
  <2>2. /\ n \in Nodes /\ OnlyChanges(n) /\ node'[n].analysis = node[n].analysis
        /\ node'[n].compile = NoFiles /\ disk' = disk
    BY <1>2, <2>1, CompileDepsNodeIs
  <2>3. FewerProducts(node[n], node'[n]) /\ file' = file
    BY <2>2 DEF FewerProducts, NoFiles, disk
  <2> QED BY <1>1, <2>2, <2>3, OneNodeWhole
<1>3. CASE StartCompile
  <2>1. PICK n : n = NextNode
    OBVIOUS
  <2>2. n \in Nodes /\ OnlyChanges(n) /\ VersionSet(node[n], node'[n], version[n]) /\ disk' = disk
    BY <1>3, <2>1, StartCompileIs
  <2>3. FewerProducts(node[n], node'[n]) /\ file' = file
    BY <2>2 DEF FewerProducts, VersionSet, disk
  <2> QED BY <1>1, <2>2, <2>3, OneNodeWhole
<1>4. PICK n : n = Work.node
  OBVIOUS
<1>5. run.pc = "work" => n \in Nodes /\ (Analysing \/ Compiling)
  BY <1>4, WorkedNode
<1>6. ASSUME run.pc = "work", disk' = disk, OnlyChanges(n), FewerProducts(node[n], node'[n])
      PROVE  WholeInv'
  BY <1>1, <1>5, <1>6, OneNodeWhole DEF disk
<1>7. CASE OpenInput
  <2>1. n \in Nodes /\ run.pc = "work"
    BY <1>5, <1>7 DEF OpenInput
  <2>2. /\ disk' = disk /\ OnlyChanges(n)
        /\ \E list : InputsSet(node[n], node'[n], Work.stage, list)
    BY <1>4, <1>7, <2>1, OpenInputIs
  <2>3. CASE Analysing
    BY <1>6, <2>1, <2>2, <2>3 DEF InputsSet, FewerProducts, Analysing
  <2>4. CASE Compiling
    BY <1>6, <2>1, <2>2, <2>4 DEF InputsSet, FewerProducts, Compiling
  <2> QED BY <1>5, <2>1, <2>3, <2>4
<1>8. ASSUME NEW m \in DepsNodes, ReadDepsFile(m)
      PROVE  WholeInv'
  <2>1. m = n /\ run.pc = "work" /\ disk' = disk /\ OnlyChanges(n)
        /\ \E v : ScanSet(node[n], node'[n], v)
    BY <1>4, <1>8, ReadDepsFileIs DEF WorkGoes
  <2> QED BY <1>6, <2>1 DEF ScanSet, FewerProducts
<1>9. ASSUME NEW m \in Assets, ReadAssetSource(m)
      PROVE  WholeInv'
  <2>1. m = n /\ run.pc = "work" /\ disk' = disk /\ OnlyChanges(n)
        /\ \E v : DepsSet(node[n], node'[n], v)
    BY <1>4, <1>9, ReadAssetSourceIs DEF WorkGoes
  <2> QED BY <1>6, <2>1 DEF DepsSet, FewerProducts
<1>10. ASSUME NEW m \in Assets, IndexCAS(m)
       PROVE  WholeInv'
  <2>1. m = n /\ run.pc = "work" /\ disk' = disk /\ OnlyChanges(n)
        /\ \E v : CASSet(node[n], node'[n], v)
    BY <1>4, <1>10, IndexCASIs DEF WorkGoes
  <2> QED BY <1>6, <2>1 DEF CASSet, FewerProducts
<1>11. ASSUME NEW m, \/ m \in Assets /\ (TryOptional(m) \/ ReadAnalysis(m))
                     \/ m \in Leaves /\ ReadLeaf(m)
       PROVE  WholeInv'
  <2>1. node' = node /\ disk' = disk
    BY <1>11 DEF TryOptional, ReadAnalysis, ReadLeaf
  <2> QED BY <1>1, <2>1, WholeAfter DEF WholeInv, disk
<1>12. CASE CreateOutput
  <2>1. /\ n \in Assets \cup Leaves /\ n \in Nodes /\ OnlyChanges(n) /\ run.pc = "work"
        /\ file' = Written(Output, Partial) /\ cache' = cache
        /\ \E list : ProductsSet(node[n], node'[n], Work.stage, list) /\ OnlyHas(list, Output, 0)
    BY <1>4, <1>12, CreateOutputIs DEF WorkGoes
  <2>2. /\ OnlyHas(node'[n][Work.stage].products, Output, 0)
        /\ Work.stage = "analysis" => node'[n].compile = node[n].compile
        /\ Work.stage = "compile" => node'[n].analysis = node[n].analysis
    BY <2>1 DEF ProductsSet
  <2> QED BY <1>4, <2>1, <2>2, OutputWhole DEF Analysing, Compiling
<1>13. CASE CloseOutput
  <2> DEFINE data == <<version[n], Outcome>>
  <2>1. /\ n \in Assets \cup Leaves /\ n \in Nodes /\ OnlyChanges(n) /\ run.pc = "work"
        /\ file' = Written(Output, data) /\ cache' = cache
    BY <1>4, <1>13, CloseOutputIs DEF CloseOutput
  <2>2. data \notin Lost
    BY <1>4, <1>13, OutcomeIsData
  <2>3. /\ Analysing => node'[n].compile = NoFiles /\ OnlyHas(node'[n].analysis.products, Output, NewStatus(Output))
        /\ Compiling => /\ node'[n].analysis = node[n].analysis
                        /\ OnlyHas(node'[n].compile.products, Output, NewStatus(Output))
    BY <1>4, <1>13, CloseOutputIs
  <2>4. OnlyHas(node'[n][Work.stage].products, Output, NewStatus(Output))
    BY <1>5, <2>1, <2>3 DEF Analysing, Compiling
  <2>5. Analysing => node'[n].compile.products = <<>>
    BY <2>3 DEF NoFiles
  <2> HIDE DEF data
  <2> QED BY <1>4, <2>1, <2>2, <2>3, <2>4, <2>5, OutputWhole
<1>14. CASE DepsFileAnalysed
  <2>1. /\ n \in Nodes /\ OnlyChanges(n) /\ disk' = disk /\ run.pc = "work"
        /\ node'[n].compile = NoFiles /\ node'[n].analysis.products = node[n].analysis.products
    BY <1>4, <1>14, DepsFileAnalysedIs DEF Analysing
  <2> QED BY <1>6, <2>1 DEF FewerProducts, NoFiles
<1> QED BY <1>2, <1>3, <1>7, <1>8, <1>9, <1>10, <1>11, <1>12, <1>13, <1>14 DEF StepOfWork

LEMMA EnvironmentWhole ==
  ASSUME BuildInv, RecordInv, WholeInv, Environment
  PROVE  WholeInv'
<1>1. /\ node' = node /\ cache' = cache
      /\ \/ \E f \in Edited : \E text \in MayHold(f) : file' = Written(f, text)
         \/ \E f \in Edited \cup Made : file' = [file EXCEPT ![f] = Missing]
         \/ file' = file
  BY EnvironmentSets
<1>2. ASSUME NEW f, OneFile(file, file', f), NewToAll(f, file'[f].status)
      PROVE  WholeInv'
  BY <1>1, <1>2, RecordsAreWhole, WholeAfter
<1>3. ASSUME NEW f \in Edited, NEW text, file' = Written(f, text)
      PROVE  WholeInv'
  BY <1>2, <1>3, KindsOfFiles, WrittenIsNew
<1>4. ASSUME NEW f \in Edited \cup Made, file' = [file EXCEPT ![f] = Missing]
      PROVE  WholeInv'
  BY <1>2, <1>4, KindsOfFiles, RemovedIsNew
<1>5. CASE file' = file
  BY <1>1, <1>5, WholeAfter DEF WholeInv
<1> QED BY <1>1, <1>3, <1>4, <1>5

LEMMA NextWhole ==
  ASSUME BuildInv, RecordInv, PastOK, DataInv, WholeInv, [Next]_bsVars
  PROVE  WholeInv'
<1>1. ASSUME StepOfProcess
      PROVE  WholeInv'
  BY <1>1, StepOfCheckWhole, StepOfWorkWhole DEF StepOfProcess
<1>2. CASE Begin
  <2>1. \A n \in Nodes : node'[n] = IF n \in DOMAIN cache.nodes THEN cache.nodes[n] ELSE NewNode
    BY <1>2, BeginSetsNodes DEF BuildInv
  <2>2. file' = file /\ cache' = cache
    BY <1>2 DEF Begin, disk
  <2> QED BY <2>1, <2>2, NothingIsWhole, WholeAfter DEF WholeInv
<1>3. ASSUME node' = [n \in Nodes |-> NewNode], \A n \in DOMAIN cache'.nodes : Whole(file', cache'.nodes[n])
      PROVE  WholeInv'
  BY <1>3, NothingIsWhole, WholeAfter
<1>4. CASE WriteHeader
  <2>1. /\ run.pc = "save" /\ cache'.nodes = run.pending.nodes
        /\ node' = [n \in Nodes |-> NewNode] /\ file' = file
    BY <1>4, WriteHeaderSets DEF BuildInv
  <2>2. cache'.nodes = ToSave
    BY <2>1 DEF RecordInv
  <2>3. \A n \in DOMAIN ToSave : n \in Nodes /\ ToSave[n] = node[n]
    BY DEF ToSave
  <2> QED BY <1>3, <2>1, <2>2, <2>3 DEF WholeInv
<1>5. CASE GivesUp
  <2>1. node' = [n \in Nodes |-> NewNode] /\ disk' = disk
    BY <1>5, GivesUpIs
  <2> QED BY <1>3, <2>1 DEF WholeInv, disk
<1>6. CASE UNCHANGED bsVars
  BY <1>6, WholeAfter DEF bsVars, disk, WholeInv
<1> QED BY <1>1, <1>2, <1>4, <1>5, <1>6, StepIs, EnvironmentWhole

LEMMA InitWhole ==
  ASSUME Init
  PROVE  WholeInv
<1>1. cache.nodes = <<>> /\ node = [n \in Nodes |-> NewNode]
  BY DEF Init, NoCache
<1>2. DOMAIN cache.nodes = {}
  BY <1>1
<1> QED BY <1>1, <1>2, NothingIsWhole DEF WholeInv

-----------------------------------------------------------------------------
(* Content that a node needs is stored, or has a source in this process,   *)
(* which is there as long as nothing happens beside it.                    *)
SavedCas == \A n \in DOMAIN cache.nodes : cache.nodes[n].cas \subseteq DOMAIN content
CasKnown == \A n \in Nodes : node[n].cas \subseteq DOMAIN run.source \cup DOMAIN content
CasInv == ~past.removed => SavedCas /\ CasKnown

SourcesThere ==
  \A id \in DOMAIN run.source : run.source[id] \in Fixed /\ file[run.source[id]].data # Absent
DepsMade ==
  LET n == Work.node
  IN  Analysing /\ n \in DepsNodes /\ Work.todo = <<>> =>
        Work.made = <<Text(n)>> /\ (Text(n) = Wildcard => Work.items = node[n].scan)
ReasonInv == Quiet => SourcesThere /\ DepsMade

(* What a step leaves as it was.                                           *)
FixedKept == Fixed \subseteq Fixed' /\ \A f \in Fixed : file'[f] = file[f]
ContentKept ==
  /\ \A m \in Nodes : node'[m].cas = node[m].cas
  /\ run'.source = run.source /\ DOMAIN content \subseteq DOMAIN content'
  /\ Checking \/ FixedKept

LEMMA OneNodeContent ==
  ASSUME NEW n \in Nodes, OnlyChanges(n), node'[n].cas = node[n].cas, run'.source = run.source,
         content' = content,
         \/ Checking
         \/ /\ \A f \in Fixed : file'[f] = file[f]
            /\ n \notin Leaves \/ node'[n].state \in {node[n].state, "current"}
  PROVE  ContentKept
<1>1. CASE Checking
  BY <1>1 DEF ContentKept, OnlyChanges
<1>2. CASE ~Checking
  <2>1. \A m \in Leaves : node[m].state = "current" => node'[m].state = "current"
    BY <1>2 DEF OnlyChanges, Nodes
  <2>2. FixedKept
    BY <1>2, <2>1, FixedGrows DEF FixedKept
  <2> QED BY <2>2 DEF ContentKept, OnlyChanges
<1> QED BY <1>1, <1>2

LEMMA CheckKeepsContent ==
  ASSUME BuildInv, RecordInv, StepOfCheck
  PROVE  ContentKept
<1>1. CASE PlainAction
  <2>1. node' = node /\ file' = file /\ run'.source = run.source
    BY <1>1, PlainActions DEF Plain
  <2>2. DOMAIN content \subseteq DOMAIN content'
    <3>1. content' = content \/ \E id, data : content' = With(content, id, data)
      BY <1>1 DEF PlainAction, CheckDependency, Stratify, NotCompiledAgain, NothingToExport,
                  CreateCatalog, WriteCatalog, CopyContent, MoveContent, WriteInstance, disk
    <3> QED BY <3>1 DEF With
  <2>3. Fixed' = Fixed
    BY <2>1 DEF Fixed
  <2> QED BY <2>1, <2>2, <2>3 DEF ContentKept, FixedKept
<1>2. ASSUME NEW n \in Nodes
      PROVE  IsNode(node[n]) /\ NodesOK
  BY DEF BuildInv, TypesInv, NodesOK
<1>3. ASSUME NEW n \in Nodes, CheckFiles(n)
      PROVE  ContentKept
  <2>1. Checking /\ content' = content /\ run'.source = run.source
    BY <1>3, CheckFilesSets DEF BuildInv, disk, Checking
  <2>2. CASE Reanalyses(n) /\ n \notin Leaves
    <3>1. OnlyChanges(n) /\ node'[n].cas = node[n].cas
      BY <1>3, <2>2, AnalysisStarts
    <3> QED BY <2>1, <3>1, OneNodeContent
  <2>3. CASE ~(Reanalyses(n) /\ n \notin Leaves)
    <3>1. OnlyChanges(n) /\ node'[n] = AfterFiles(n)
      BY <1>3, <2>3, CheckGoesOn
    <3> DEFINE x == SetState(node[n], "unanalyzed")
    <3>2. IsNode(x) /\ x.cas = node[n].cas
      BY <1>2, SetStateIsNode
    <3> HIDE DEF x
    <3>3. SetState(x, "uncompiled").cas = node[n].cas /\ SetState(node[n], "uncompiled").cas = node[n].cas
      BY <1>2, <3>2, SetStateIsNode
    <3> QED BY <2>1, <3>1, <3>3, OneNodeContent DEF AfterFiles, x
  <2> QED BY <2>2, <2>3
<1>4. ASSUME NEW n \in Nodes, DependenciesChecked(n)
      PROVE  ContentKept
  <2>1. /\ Checking /\ content' = content /\ run'.source = run.source
        /\ node' = [node EXCEPT ![n] = SetState(node[n], "uncompiled")] \/ node' = node
    BY <1>4, DependenciesCheckedSets DEF BuildInv, disk, Checking
  <2>2. SetState(node[n], "uncompiled").cas = node[n].cas
    BY <1>2, SetStateIsNode
  <2>3. OnlyChanges(n) /\ node'[n].cas = node[n].cas
    BY <1>2, <2>1, <2>2 DEF OnlyChanges, NodesOK
  <2> QED BY <2>1, <2>3, OneNodeContent
<1> QED BY <1>1, <1>3, <1>4 DEF StepOfCheck

LEMMA WorkKeepsContent ==
  ASSUME BuildInv, RecordInv, StepOfWork, \A m \in Assets : ~IndexCAS(m)
  PROVE  ContentKept
<1>1. CASE CompileDepsNode
  <2>1. PICK n : n = NextNode
    OBVIOUS
  <2>2. /\ n \in Nodes /\ n \in DepsNodes /\ OnlyChanges(n) /\ node'[n].cas = node[n].cas
        /\ disk' = disk /\ run'.source = run.source
    BY <1>1, <2>1, CompileDepsNodeIs
  <2> QED BY <2>2, BuildSystemAssumption, OneNodeContent DEF disk
<1>2. CASE StartCompile
  <2>1. PICK n : n = NextNode
    OBVIOUS
  <2>2. n \in Nodes /\ OnlyChanges(n) /\ VersionSet(node[n], node'[n], version[n])
        /\ disk' = disk /\ run'.source = run.source
    BY <1>2, <2>1, StartCompileIs
  <2> QED BY <2>2, OneNodeContent DEF disk, VersionSet
<1>3. PICK n : n = Work.node
  OBVIOUS
<1>4. run.pc = "work" => n \in Nodes /\ (Analysing \/ Compiling)
  BY <1>3, WorkedNode
<1>5. ASSUME run.pc = "work", disk' = disk, OnlyChanges(n), node'[n].cas = node[n].cas,
             run'.source = run.source, node'[n].state = node[n].state \/ Checking
      PROVE  ContentKept
  BY <1>4, <1>5, OneNodeContent DEF disk
<1>6. CASE OpenInput
  <2>1. n \in Nodes /\ run.pc = "work"
    BY <1>4, <1>6 DEF OpenInput
  <2>2. /\ disk' = disk /\ OnlyChanges(n) /\ run'.source = run.source
        /\ \E list : InputsSet(node[n], node'[n], Work.stage, list)
    BY <1>3, <1>6, <2>1, OpenInputIs
  <2>3. node'[n].cas = node[n].cas /\ node'[n].state = node[n].state
    BY <2>2 DEF InputsSet
  <2> QED BY <1>5, <2>1, <2>2, <2>3
<1>7. ASSUME NEW m \in DepsNodes, ReadDepsFile(m)
      PROVE  ContentKept
  <2>1. m = n /\ run.pc = "work" /\ disk' = disk /\ OnlyChanges(n) /\ run'.source = run.source
        /\ \E v : ScanSet(node[n], node'[n], v)
    BY <1>3, <1>7, ReadDepsFileIs DEF WorkGoes
  <2> QED BY <1>5, <2>1 DEF ScanSet
<1>8. ASSUME NEW m \in Assets, ReadAssetSource(m)
      PROVE  ContentKept
  <2>1. m = n /\ run.pc = "work" /\ disk' = disk /\ OnlyChanges(n) /\ run'.source = run.source
        /\ \E v : DepsSet(node[n], node'[n], v)
    BY <1>3, <1>8, ReadAssetSourceIs DEF WorkGoes
  <2> QED BY <1>5, <2>1 DEF DepsSet
<1>9. ASSUME NEW m, NEW todo, NEW items, NEW made, OnlyReads(m, todo, items, made)
      PROVE  ContentKept
  <2>1. m = n /\ run.pc = "work" /\ disk' = disk /\ node' = node /\ run'.source = run.source
    BY <1>3, <1>9, OnlyReadsIs DEF OnlyReads
  <2> QED BY <1>5, <2>1 DEF OnlyChanges
<1>10. ASSUME NEW m \in Assets, TryOptional(m) \/ ReadAnalysis(m)
       PROVE  ContentKept
  BY <1>9, <1>10, TryOptionalSets, ReadAnalysisSets DEF BuildInv
<1>11. ASSUME NEW m \in Leaves, ReadLeaf(m)
       PROVE  ContentKept
  BY <1>9, <1>11, ReadLeafSets DEF BuildInv
<1>12. CASE CreateOutput
  <2>1. /\ n \in Assets \cup Leaves /\ n \in Nodes /\ OnlyChanges(n) /\ run.pc = "work"
        /\ file' = Written(Output, Partial) /\ cache' = cache /\ content' = content
        /\ run'.source = run.source /\ \E list : ProductsSet(node[n], node'[n], Work.stage, list)
    BY <1>3, <1>12, CreateOutputIs DEF WorkGoes
  <2>2. node'[n].cas = node[n].cas /\ node'[n].state = node[n].state
    BY <2>1 DEF ProductsSet
  <2>3. \A f \in Fixed : file'[f] = file[f]
    BY <1>3, <2>1, OutputIsNotFixed
  <2> QED BY <2>1, <2>2, <2>3, OneNodeContent
<1>13. CASE CloseOutput
  <2> DEFINE data == <<version[n], Outcome>>
  <2>1. /\ n \in Assets \cup Leaves /\ n \in Nodes /\ OnlyChanges(n) /\ run.pc = "work"
        /\ file' = Written(Output, data) /\ cache' = cache /\ content' = content
        /\ run'.source = run.source /\ node'[n].cas = node[n].cas
        /\ Compiling => node'[n].state = "current"
    BY <1>3, <1>13, CloseOutputIs DEF CloseOutput
  <2> HIDE DEF data
  <2>2. \A f \in Fixed : file'[f] = file[f]
    BY <1>3, <2>1, OutputIsNotFixed
  <2>3. Checking \/ node'[n].state = "current"
    BY <1>4, <2>1 DEF Checking
  <2> QED BY <2>1, <2>2, <2>3, OneNodeContent
<1>14. CASE DepsFileAnalysed
  <2>1. /\ OnlyChanges(n) /\ disk' = disk /\ run.pc = "work" /\ Checking
        /\ node'[n].cas = node[n].cas /\ run'.source = run.source
    BY <1>3, <1>14, DepsFileAnalysedIs DEF Analysing, Checking
  <2> QED BY <1>5, <2>1
<1> QED BY <1>1, <1>2, <1>6, <1>7, <1>8, <1>10, <1>11, <1>12, <1>13, <1>14 DEF StepOfWork

LEMMA PastRemoved ==
  ASSUME PastOK
  PROVE  /\ Begin => past'.removed = past.removed
         /\ WriteHeader => past'.removed = past.removed
         /\ Environment => past'.removed = (past.removed \/ content' # content)
<1>1. Begin => past'.removed = past.removed
  BY DEF Begin, PastOK, HasPast
<1>2. WriteHeader => past'.removed = past.removed
  BY DEF WriteHeader, PastOK, HasPast
<1>3. ASSUME Environment
      PROVE  past'.removed = (past.removed \/ content' # content)
  <2> DEFINE disturbances == past.disturbances + 1
             touched == IF run.pc = "idle" THEN "before" ELSE "during"
             raced == past.raced \/ run.pc # "idle"
             removed == past.removed \/ content' # content
  <2>1. past' = [past EXCEPT !.disturbances = disturbances, !.touched = touched,
                             !.raced = raced, !.removed = removed]
    BY <1>3 DEF Environment, Edit, RemoveFile, RemoveContent, Upgrade, Disturbs
  <2> HIDE DEF disturbances, touched, raced, removed
  <2>2. past'.removed = removed
    BY <2>1 DEF PastOK, HasPast
  <2> QED BY <2>2 DEF removed
<1> QED BY <1>1, <1>2, <1>3

LEMMA IndexCASKnown ==
  ASSUME BuildInv, RecordInv, CasKnown, NEW n \in Assets, IndexCAS(n)
  PROVE  CasKnown'
<1> DEFINE id == file[Reading].data
<1>1. /\ n \in Nodes /\ OnlyChanges(n) /\ disk' = disk
      /\ run'.source = SourceNoted(id) /\ CASSet(node[n], node'[n], node[n].cas \cup {id})
  BY IndexCASIs
<1> HIDE DEF id
<1>2. DOMAIN run'.source = DOMAIN run.source \cup {id}
  BY <1>1 DEF SourceNoted, With
<1>3. node'[n].cas = node[n].cas \cup {id}
  BY <1>1 DEF CASSet
<1> QED BY <1>1, <1>2, <1>3 DEF CasKnown, OnlyChanges, disk

LEMMA NextCas ==
  ASSUME BuildInv, RecordInv, PastOK, ContentOK, CasInv, [Next]_bsVars
  PROVE  CasInv'
<1>1. ASSUME StepOfProcess
      PROVE  CasInv'
  <2>1. cache'.nodes = cache.nodes /\ past'.removed = past.removed
    BY <1>1, StepKeepsTexts, StepKeepsPast
  <2>2. CASE \E n \in Assets : IndexCAS(n)
    <3>1. content' = content
      BY <2>2 DEF IndexCAS, disk
    <3> QED BY <2>1, <2>2, <3>1, IndexCASKnown DEF CasInv, SavedCas
  <2>3. CASE ~\E n \in Assets : IndexCAS(n)
    <3>1. ContentKept
      BY <1>1, <2>3, CheckKeepsContent, WorkKeepsContent DEF StepOfProcess
    <3> QED BY <2>1, <3>1 DEF CasInv, SavedCas, CasKnown, ContentKept
  <2> QED BY <2>2, <2>3
<1>2. ASSUME SavedCas' \/ past'.removed, \A n \in Nodes : node'[n] = NewNode
      PROVE  CasInv'
  BY <1>2, NewNodeFields DEF CasInv, CasKnown
<1>3. CASE Begin
  <2>1. \A n \in Nodes : node'[n] = IF n \in DOMAIN cache.nodes THEN cache.nodes[n] ELSE NewNode
    BY <1>3, BeginSetsNodes DEF BuildInv
  <2>2. content' = content /\ cache' = cache /\ past'.removed = past.removed
    BY <1>3, PastRemoved DEF Begin, disk
  <2> QED BY <2>1, <2>2, NewNodeFields DEF CasInv, SavedCas, CasKnown
<1>4. CASE WriteHeader
  <2>1. /\ run.pc = "save" /\ cache'.nodes = run.pending.nodes
        /\ node' = [n \in Nodes |-> NewNode] /\ content' = content
    BY <1>4, WriteHeaderSets DEF BuildInv
  <2>2. cache'.nodes = ToSave
    BY <2>1 DEF RecordInv
  <2>3. \A n \in DOMAIN ToSave : n \in Found /\ ToSave[n] = node[n]
    BY DEF ToSave, Found
  <2>4. SavedCas'
    BY <2>1, <2>2, <2>3 DEF ContentOK, SavedCas
  <2> QED BY <1>2, <2>1, <2>4
<1>5. CASE GivesUp
  <2>1. node' = [n \in Nodes |-> NewNode] /\ disk' = disk /\ past'.removed = past.removed
    BY <1>5, GivesUpIs
  <2>2. SavedCas' \/ past'.removed
    BY <2>1 DEF CasInv, SavedCas, disk
  <2> QED BY <1>2, <2>1, <2>2
<1>6. CASE Environment
  <2>1. node' = node /\ run' = run /\ cache' = cache /\ past'.removed = (past.removed \/ content' # content)
    BY <1>6, EnvironmentSets, PastRemoved
  <2> QED BY <2>1 DEF CasInv, SavedCas, CasKnown
<1>7. CASE UNCHANGED bsVars
  BY <1>7 DEF bsVars, disk, CasInv, SavedCas, CasKnown
<1> QED BY <1>1, <1>3, <1>4, <1>5, <1>6, <1>7, StepIs

LEMMA IndexCASThere ==
  ASSUME BuildInv, RecordInv, SourcesThere, NEW n \in Assets, IndexCAS(n)
  PROVE  SourcesThere'
<1> DEFINE id == file[Reading].data
<1>1. /\ n = Work.node /\ n \in Nodes /\ Work.open /\ Compiling /\ Reading # Analysis(n) /\ id # Absent
      /\ OnlyChanges(n) /\ disk' = disk
      /\ run'.source = SourceNoted(id) /\ CASSet(node[n], node'[n], node[n].cas \cup {id})
  BY IndexCASIs
<1> HIDE DEF id
<1>2. Work.todo # <<>> /\ n \notin Leaves /\ Work.todo # <<Analysis(n)>>
  BY <1>1, AssetIsNoDepsNode DEF BuildInv, TypesInv, WorkOK, Compiling, Reading
<1>3. Reading \in Fixed
  <2>1. Work.todo \in Seq(Usable(n))
    BY <1>1, <1>2 DEF RecordInv, ToDoOK
  <2>2. Reading \in Usable(n)
    BY <1>2, <2>1, HeadAndTail DEF Reading
  <2> QED BY <1>1, <2>2, UsableIsFixed
<1>4. file' = file /\ Fixed \subseteq Fixed'
  <2>1. \A m \in Leaves : node'[m].state = node[m].state
    BY <1>1 DEF OnlyChanges, CASSet, Nodes
  <2> QED BY <1>1, <2>1, FixedGrows DEF disk
<1>5. file[Reading].data # Absent
  BY <1>1 DEF id
<1>6. ASSUME NEW i \in DOMAIN run'.source
      PROVE  (i \in DOMAIN run.source /\ run'.source[i] = run.source[i]) \/ run'.source[i] = Reading
  BY <1>1, <1>6 DEF SourceNoted, With
<1> QED BY <1>3, <1>4, <1>5, <1>6 DEF SourcesThere

LEMMA StepDepsMade ==
  ASSUME BuildInv, RecordInv, DepsMade, StepOfProcess
  PROVE  DepsMade'
<1>1. ASSUME ~Analysing' \/ Work'.node \notin DepsNodes \/ Work'.todo # <<>>
      PROVE  DepsMade'
  BY <1>1 DEF DepsMade
<1>2. CASE PlainAction
  BY <1>1, <1>2, PlainActions DEF Plain, Analysing
<1>3. ASSUME NEW n \in Nodes, CheckFiles(n)
      PROVE  DepsMade'
  <2>1. CASE Reanalyses(n) /\ n \notin Leaves
    <3>1. Work'.todo = <<Source(n)>>
      BY <1>3, <2>1, AnalysisStarts DEF Work
    <3>2. Work'.todo # <<>>
      BY <3>1
    <3> QED BY <1>1, <3>2
  <2>2. CASE ~(Reanalyses(n) /\ n \notin Leaves)
    BY <1>1, <1>3, <2>2, CheckGoesOn DEF Analysing
  <2> QED BY <2>1, <2>2
<1>4. ASSUME NEW n \in Nodes, DependenciesChecked(n)
      PROVE  DepsMade'
  BY <1>1, <1>4, DependenciesCheckedSets DEF BuildInv, Analysing
<1>5. CASE CompileDepsNode
  <2>1. PICK n : n = NextNode
    OBVIOUS
  <2> QED BY <1>1, <1>5, <2>1, CompileDepsNodeIs DEF Analysing
<1>6. CASE StartCompile
  <2>1. PICK n : n = NextNode
    OBVIOUS
  <2> QED BY <1>1, <1>6, <2>1, StartCompileIs
<1>7. PICK n : n = Work.node
  OBVIOUS
<1>8. run.pc = "work" => n \in Nodes
  BY <1>7, WorkedNode
<1>9. CASE OpenInput
  <2>1. n \in Nodes
    BY <1>8, <1>9 DEF OpenInput
  <2>2. Work.todo # <<>> /\ WorkGoes(Work.todo, TRUE, Work.created, Work.items, Work.made)
    BY <1>7, <1>9, <2>1, OpenInputIs
  <2>3. Work'.todo # <<>>
    BY <2>2 DEF WorkGoes
  <2> QED BY <1>1, <2>3
<1>10. ASSUME NEW m \in DepsNodes, ReadDepsFile(m)
       PROVE  DepsMade'
  <2>1. /\ m = Work.node /\ WorkGoes(<<>>, FALSE, Work.created, NamesIn(m), <<Text(m)>>)
        /\ disk' = disk /\ ScanSet(node[m], node'[m], IF Text(m) = Wildcard THEN Scan ELSE node[m].scan)
    BY <1>10, ReadDepsFileIs
  <2>2. Work'.node = m /\ Work'.made = <<Text(m)>> /\ Work'.items = NamesIn(m)
    BY <2>1 DEF WorkGoes
  <2>3. Text(m)' = Text(m)
    BY <2>1, SameFiles DEF disk
  <2>4. Text(m) = Wildcard => NamesIn(m) = Scan /\ node'[m].scan = Scan
    BY <2>1 DEF ScanSet, NamesIn
  <2> QED BY <2>2, <2>3, <2>4 DEF DepsMade
<1>11. ASSUME NEW m \in Assets, ReadAssetSource(m)
       PROVE  DepsMade'
  BY <1>1, <1>11, ReadAssetSourceIs, AssetIsNoDepsNode DEF WorkGoes
<1>12. ASSUME NEW m \in Assets, IndexCAS(m)
       PROVE  DepsMade'
  BY <1>1, <1>12, IndexCASIs, AssetIsNoDepsNode DEF WorkGoes
<1>13. ASSUME NEW m \in Assets \cup Leaves, NEW todo, NEW items, NEW made, OnlyReads(m, todo, items, made)
       PROVE  DepsMade'
  BY <1>1, <1>13, OnlyReadsIs, BuildSystemAssumption DEF WorkGoes
<1>14. ASSUME NEW m \in Assets, TryOptional(m) \/ ReadAnalysis(m)
       PROVE  DepsMade'
  BY <1>13, <1>14, TryOptionalSets, ReadAnalysisSets DEF BuildInv
<1>15. ASSUME NEW m \in Leaves, ReadLeaf(m)
       PROVE  DepsMade'
  BY <1>13, <1>15, ReadLeafSets DEF BuildInv
<1>16. CASE CreateOutput
  <2>1. n \in Assets \cup Leaves /\ Work'.node = n
    BY <1>7, <1>16, CreateOutputIs DEF WorkGoes
  <2> QED BY <1>1, <2>1, BuildSystemAssumption
<1>17. CASE CloseOutput
  BY <1>1, <1>7, <1>17, CloseOutputIs
<1>18. CASE DepsFileAnalysed
  BY <1>1, <1>7, <1>18, DepsFileAnalysedIs
<1> QED BY <1>2, <1>3, <1>4, <1>5, <1>6, <1>9, <1>10, <1>11, <1>12, <1>14, <1>15, <1>16, <1>17, <1>18
        DEF StepOfProcess, StepOfCheck, StepOfWork

LEMMA NextReason ==
  ASSUME BuildInv, RecordInv, PastOK, ContentOK, ReasonInv, [Next]_bsVars
  PROVE  ReasonInv'
<1>1. ASSUME StepOfProcess, SourcesThere, DepsMade
      PROVE  SourcesThere' /\ DepsMade'
  <2>1. CASE \E n \in Assets : IndexCAS(n)
    BY <1>1, <2>1, IndexCASThere, StepDepsMade
  <2>2. CASE ~\E n \in Assets : IndexCAS(n)
    <3>1. ContentKept
      BY <1>1, <2>2, CheckKeepsContent, WorkKeepsContent DEF StepOfProcess
    <3>2. CASE Checking
      <4>1. DOMAIN run'.source = {}
        BY <3>1, <3>2 DEF ContentOK, ContentKept
      <4> QED BY <1>1, <4>1, StepDepsMade DEF SourcesThere
    <3>3. CASE FixedKept
      <4>1. SourcesThere'
        BY <1>1, <3>1, <3>3 DEF SourcesThere, ContentKept, FixedKept
      <4> QED BY <1>1, <4>1, StepDepsMade
    <3> QED BY <3>1, <3>2, <3>3 DEF ContentKept
  <2> QED BY <2>1, <2>2
<1>2. CASE StepOfProcess
  <2>1. run.pc # "idle" /\ past'.touched = past.touched
    BY <1>2, StepHasRun, StepKeepsPast
  <2> QED BY <1>1, <1>2, <2>1 DEF ReasonInv, Quiet
<1>3. CASE Begin
  <2>1. DOMAIN run'.source = {} /\ run'.pc = "check"
    BY <1>3, BeginSets
  <2> QED BY <2>1 DEF ReasonInv, SourcesThere, DepsMade, Analysing
<1>4. CASE WriteHeader \/ GivesUp
  <2>1. run'.pc = "idle"
    BY <1>4, GivesUpIs, NoRunFields DEF WriteHeader
  <2> QED BY <2>1 DEF ReasonInv, Quiet
<1>5. CASE Environment
  <2>1. run' = run /\ past'.touched = IF run.pc = "idle" THEN "before" ELSE "during"
    BY <1>5, EnvironmentSets, EnvironmentDisturbs
  <2> QED BY <2>1 DEF ReasonInv, Quiet
<1>6. CASE UNCHANGED bsVars
  <2>1. node' = node /\ run' = run /\ file' = file /\ past' = past
    BY <1>6 DEF bsVars, disk
  <2> QED BY <2>1 DEF ReasonInv, Quiet, SourcesThere, DepsMade, Fixed, Analysing, Work, Text
<1> QED BY <1>2, <1>3, <1>4, <1>5, <1>6, StepIs

LEMMA InitReason ==
  ASSUME Init
  PROVE  CasInv /\ ReasonInv
<1>1. /\ node = [n \in Nodes |-> NewNode] /\ DOMAIN cache.nodes = {} /\ run.pc = "idle"
  BY DEF Init, NoCache, NoRun
<1> QED BY <1>1, NewNodeFields DEF CasInv, SavedCas, CasKnown, ReasonInv, Quiet

-----------------------------------------------------------------------------
(* The reasons for which a build in peace can fail.  A user's file is      *)
(* missing, or holds a text as a whole.                                    *)
LEMMA UsersFiles ==
  ASSUME RecordInv
  PROVE  /\ \A m \in Nodes : file[Source(m)].data # Partial
         /\ \A m \in Assets : file[Optional(m)].data # Partial
<1>1. ASSUME NEW m \in Nodes
      PROVE  file[Source(m)].data # Partial
  <2>1. Source(m) \in Edited /\ MayHold(Source(m)) = Texts[m]
    BY KindsOfFiles DEF MayHold, Source
  <2>2. file[Source(m)].data \in Texts[m] \cup {Absent}
    BY <2>1 DEF RecordInv, FilesOK
  <2> QED BY <2>2, TextsAssumption
<1>2. ASSUME NEW m \in Assets
      PROVE  file[Optional(m)].data # Partial
  <2>1. Optional(m) \in Edited /\ MayHold(Optional(m)) = OptionalTexts /\ m \in Nodes
    BY KindsOfFiles DEF MayHold, Optional, Nodes
  <2>2. file[Optional(m)].data \in OptionalTexts \cup {Absent}
    BY <2>1 DEF RecordInv, FilesOK
  <2> QED BY <2>1, <2>2, TextsAssumption
<1> QED BY <1>1, <1>2

(* What a compilation reads of another compiler's output is whole.         *)
LEMMA AnalysisIsWhole ==
  ASSUME BuildInv, RecordInv, QuietOK, WholeInv, Compiling, NEW n \in Assets, n = Work.node
  PROVE  file[Analysis(n)].data \notin Lost
<1>1. n \in Nodes /\ n \in Checked /\ node[n].state = "uncompiled"
  BY WorkedNode, CompilingIsChecked DEF Compiling
<1>2. Agrees(node[n].analysis.products)
  BY <1>1 DEF QuietOK, CheckedMatch, KnownToMatch, Matches
<1>3. KnownIfSame(n, node[n])
  BY <1>1 DEF RecordInv, NodeRecordsOK, NodeOK
<1>4. PICK e \in ToSet(node[n].analysis.products) : e.file = Analysis(n) /\ e.status # 0
  BY <1>3 DEF KnownIfSame
<1>5. e.status = file[e.file].status
  BY <1>2, <1>4 DEF Agrees, Status
<1>6. WholeIn(file, node[n].analysis.products)
  BY <1>1 DEF WholeInv, Whole
<1> QED BY <1>4, <1>5, <1>6 DEF WholeIn

LEMMA LeafProductIsWhole ==
  ASSUME BuildInv, RecordInv, QuietOK, TellsInv, WholeInv, Compiling, NEW m \in Leaves, m \in Deps(Work.node)
  PROVE  file[Product(m)].data \notin Lost
<1>1. node[m].state = "current" /\ m \in Nodes /\ m \notin DepsNodes
  BY DependenciesAreCurrent, BuildSystemAssumption DEF DependenciesFirst, Deps, Compiling, Nodes
<1>2. m \in Checked
  <2>1. run.pc = "work" /\ ~Checking
    BY DEF Compiling, Checking, Analysing
  <2>2. Searched
    BY <2>1 DEF BuildInv, GraphInv, ControlOK, Searched
  <2>3. Work.node \in Found
    BY <2>1, WorkedNode, CompilingIsChecked DEF Checked, BuildInv, GraphInv, SearchOK, FoundOK
  <2> QED BY <2>2, <2>3, AllCompleted DEF Completed, Checked
<1>3. Agrees(node[m].compile.products)
  BY <1>1, <1>2 DEF QuietOK, CheckedMatch, KnownToMatch, Matches
<1>4. Noted(node[m].compile.products, Product(m))
  BY <1>1 DEF TellsInv, Tells, ProductNoted
<1>5. PICK e \in ToSet(node[m].compile.products) : e.file = Product(m) /\ e.status # 0
  BY <1>4 DEF Noted
<1>6. e.status = file[e.file].status
  BY <1>3, <1>5 DEF Agrees, Status
<1>7. WholeIn(file, node[m].compile.products)
  BY <1>1 DEF WholeInv, Whole
<1> QED BY <1>5, <1>6, <1>7 DEF WholeIn

LEMMA RestOfNames ==
  ASSUME NEW S, NEW names \in Seq(S), NEW R, NEW todo \in Seq(R), todo # <<>>, NEW k \in Nat,
         Len(names) = k + Len(todo), \A i \in 1..Len(todo) : todo[i] = names[k + i]
  PROVE  Head(todo) \in ToSet(names)
<1>1. Len(todo) \in Nat /\ Len(todo) >= 1 /\ Head(todo) = todo[1]
  OBVIOUS
<1>2. 1 \in 1..Len(todo)
  BY <1>1
<1>3. Head(todo) = names[k + 1] /\ k + 1 \in DOMAIN names
  BY <1>1, <1>2
<1> QED BY <1>3, SeqElements

(* A file that an asset can do without is compiled only if its analysis    *)
(* found it, or looked for a file that had no path.                        *)
LEMMA OptionalIsThere ==
  ASSUME BuildInv, RecordInv, QuietOK, TellsInv, Compiling, NEW n \in Assets, n = Work.node,
         Work.todo # <<>>, Reading = Optional(n), ~MissedIn(node[n].analysis.inputs)
  PROVE  file[Optional(n)].data # Absent
<1>1. n \in Nodes /\ n \in Checked /\ node[n].state = "uncompiled" /\ n \notin Leaves /\ n \notin DepsNodes
  BY WorkedNode, CompilingIsChecked, BuildSystemAssumption DEF Compiling
<1>2. Agrees(node[n].analysis.inputs) /\ Agrees(node[n].analysis.products)
  BY <1>1 DEF QuietOK, CheckedMatch, KnownToMatch, Matches
<1>3. Stands(file, node[n].analysis)
  BY <1>2 DEF Stands, Vouched, Agrees, Status
<1>4. AnalysisTells(file, n, node[n])
  BY <1>1 DEF TellsInv, Tells
<1>5. AnalysisIs(file, n, node[n])
  BY <1>1, <1>3, <1>4 DEF AnalysisTells
<1>6. Names(file, n) = Holds(file, n)
      /\ (Optional(n) \in ToSet(Holds(file, n)) => Noted(node[n].analysis.inputs, Optional(n)))
  BY <1>5 DEF AnalysisIs
<1>7. Optional(n) \in ToSet(Holds(file, n))
  <2> DEFINE names == FilesIn(Names(file, n))
  <2>1. Work.todo # <<Analysis(n)>>
    BY FileKinds DEF Reading
  <2>2. CompileKnows(file, Work, WorkPart.inputs)
    BY WorkKnows DEF Compiling
  <2>3. AssetMade(file, Work, WorkPart.inputs, names)
    BY <2>1, <2>2 DEF CompileKnows
  <2>4. names \in Seq(Items(n)) /\ Len(names) \in Nat /\ Work.todo \in Seq(Usable(n))
    BY <2>1, NamesAreListed DEF Names, NamedIn
  <2>5. Names(file, n) \in Seq(Items(n))
    <3>1. Named(n, NamedIn(n), node[n].deps)
      BY <1>1 DEF RecordInv, NodeRecordsOK, NodeOK
    <3> QED BY <3>1 DEF Named, NamedIn, Names
  <2>6. ToSet(names) \subseteq ToSet(Names(file, n))
    BY <2>5, AmongElements DEF FilesIn, Of
  <2> HIDE DEF names
  <2>7. /\ Len(Work.made) \in Nat /\ Len(names) = Len(Work.made) + Len(Work.todo)
        /\ \A i \in 1..Len(Work.todo) : Work.todo[i] = names[Len(Work.made) + i]
    <3>1. /\ IsList(Work.made) /\ Len(names) = Len(Work.made) + Len(Work.todo)
          /\ \A i \in 1..Len(Work.todo) : Work.todo[i] = names[Len(Work.made) + i]
      BY <2>3, Zenon DEF AssetMade
    <3>2. Len(Work.made) \in Nat
      BY <3>1 DEF IsList
    <3> QED BY <3>1, <3>2
  <2>9. Head(Work.todo) \in ToSet(names)
    BY <2>4, <2>7, RestOfNames
  <2> QED BY <1>6, <2>6, <2>9 DEF Reading
<1>8. Noted(node[n].analysis.inputs, Optional(n))
  BY <1>6, <1>7
<1>9. Status(Optional(n)) # 0
  BY <1>2, <1>8 DEF Noted, Agrees
<1> QED BY <1>9, KindsOfFiles DEF RecordInv, FilesOK

(* What a compiler in peace cannot read is a user's file that is missing.  *)
Reasonable ==
  /\ Work.open /\ file[Reading].data = Absent
  /\ \/ Reading[1] = "source"
     \/ /\ Reading[1] = "optional"
        /\ \E e \in ToSet(node[Work.node].analysis.inputs) : e.file = NoFile

LEMMA CannotReadIs ==
  ASSUME BuildInv, RecordInv, QuietOK, TellsInv, WholeInv, CannotRead
  PROVE  Reasonable
<1>1. PICK n : n = Work.node
  OBVIOUS
<1>2. /\ run.pc = "work" /\ Work.open /\ file[Reading].data \in Lost
      /\ file[Reading].data = Absent => ~(Work.stage = "analysis" /\ Reading = Optional(n))
  BY <1>1, TextsAssumption DEF CannotRead, Lost
<1>3. n \in Nodes /\ (Analysing \/ Compiling)
  BY <1>1, <1>2, WorkedNode
<1>4. Work.todo # <<>>
  BY <1>2 DEF BuildInv, TypesInv, WorkOK
<1>5. ASSUME NEW m \in Nodes, Reading = Source(m)
      PROVE  Reasonable
  <2>1. Reading[1] = "source"
    BY <1>5 DEF Source
  <2> QED BY <1>2, <1>5, <2>1, UsersFiles DEF Reasonable, Lost
<1>6. CASE Analysing
  <2>1. \/ Work.todo = <<Source(n)>>
        \/ n \in Assets /\ Work.todo \in Seq({Optional(n)})
    BY <1>1, <1>4, <1>6 DEF RecordInv, ToDoOK
  <2>2. CASE Work.todo = <<Source(n)>>
    BY <1>3, <1>5, <2>2 DEF Reading
  <2>3. CASE n \in Assets /\ Work.todo \in Seq({Optional(n)})
    <3>1. Reading = Optional(n)
      BY <1>4, <2>3, HeadAndTail DEF Reading
    <3>2. file[Optional(n)].data = Absent
      BY <1>2, <2>3, <3>1, UsersFiles DEF Lost
    <3> QED BY <1>2, <1>6, <3>1, <3>2 DEF Analysing
  <2> QED BY <2>1, <2>2, <2>3
<1>7. CASE Compiling
  <2>1. \/ n \in Leaves /\ Work.todo = <<Source(n)>>
        \/ n \in Assets /\ (Work.todo = <<Analysis(n)>> \/ Work.todo \in Seq(Usable(n)))
    BY <1>1, <1>4, <1>7 DEF RecordInv, ToDoOK
  <2>2. CASE Work.todo = <<Source(n)>>
    BY <1>3, <1>5, <2>2 DEF Reading
  <2>3. CASE n \in Assets /\ Work.todo = <<Analysis(n)>>
    <3>1. Reading = Analysis(n)
      BY <2>3 DEF Reading
    <3> QED BY <1>1, <1>2, <1>7, <2>3, <3>1, AnalysisIsWhole
  <2>4. CASE n \in Assets /\ Work.todo \in Seq(Usable(n))
    <3>1. Reading \in Usable(n)
      BY <1>4, <2>4, HeadAndTail DEF Reading
    <3>2. CASE Reading \in Sources
      BY <1>5, <3>2 DEF Sources
    <3>3. CASE Reading \in OptionalOf(n)
      <4>1. Reading = Optional(n) /\ Reading[1] = "optional"
        BY <3>3 DEF OptionalOf, Optional
      <4>2. file[Reading].data = Absent
        BY <1>2, <2>4, <4>1, UsersFiles DEF Lost
      <4>3. MissedIn(node[n].analysis.inputs)
        BY <1>1, <1>4, <1>7, <2>4, <4>1, <4>2, OptionalIsThere
      <4> QED BY <1>1, <1>2, <4>1, <4>2, <4>3 DEF Reasonable, MissedIn
    <3>4. CASE Reading \in LeafProducts(node[n].deps)
      <4>1. PICK m \in Leaves : m \in Deps(n) /\ Reading = Product(m)
        BY <3>4 DEF LeafProducts, Deps
      <4> QED BY <1>1, <1>2, <1>7, <4>1, LeafProductIsWhole
    <3> QED BY <3>1, <3>2, <3>3, <3>4 DEF Usable
  <2> QED BY <2>1, <2>2, <2>3, <2>4
<1> QED BY <1>3, <1>6, <1>7

(* What the directory is found to hold is there.                           *)
LEMMA ListedIsThere ==
  ASSUME BuildInv, RecordInv, QuietOK, DepsMade, ListedButGone
  PROVE  FALSE
<1>1. PICK n : n = Work.node
  OBVIOUS
<1>2. n \in DepsNodes /\ run.pc = "work" /\ Work.todo = <<>> /\ ~Work.created /\ ListedFileGone
  BY <1>1 DEF ListedButGone, AllRead
<1>3. n \in Nodes /\ Analysing
  BY <1>1, <1>2, WorkedNode
<1>4. Work.made = <<Text(n)>> /\ (Text(n) = Wildcard => Work.items = node[n].scan)
  BY <1>1, <1>2, <1>3 DEF DepsMade
<1>5. Work.made = <<Wildcard>> /\ \E f \in ToSet(ListedFiles) : Resolve(f) = 0
  BY <1>2 DEF ListedFileGone
<1>6. Text(n) = Wildcard
  BY <1>4, <1>5
<1>7. Work.items = InDirectory
  BY <1>1, <1>2, <1>3, <1>4, <1>6 DEF QuietOK, DepsScanTrue
<1>8. PICK f \in ToSet(ListedFiles) : Resolve(f) = 0
  BY <1>5
<1>9. PICK i \in DOMAIN Work.items : f = Source(Work.items[i])
  BY <1>8 DEF ToSet, ListedFiles
<1>10. PICK m : m = Work.items[i]
  OBVIOUS
<1>11. InDirectory \in Seq(Nodes) /\ ToSet(InDirectory) \subseteq {x \in Nodes : file[Source(x)].data # Absent}
  BY BuildSystemAssumption, AmongElements DEF InDirectory
<1>12. m \in ToSet(InDirectory)
  BY <1>7, <1>9, <1>10, <1>11, SeqElements
<1>13. m \in Nodes /\ file[Source(m)].data # Absent
  BY <1>11, <1>12
<1>14. ~Writing(f)
  BY <1>2 DEF Writing
<1>15. Status(f) = 0
  BY <1>8, <1>14, ResolveIsTrue DEF QuietOK
<1>16. f = Source(m) /\ f \in Edited
  BY <1>9, <1>10, <1>13, KindsOfFiles
<1> QED BY <1>13, <1>15, <1>16 DEF RecordInv, FilesOK

(* Content that is wanted has a source that is there.                      *)
LEMMA WantedHasSource ==
  ASSUME CasKnown, SourcesThere, TypesInv, NEW id \in Wanted
  PROVE  HasSource(id)
<1>1. \E n \in ToSet(run.relevant) : id \in node[n].cas
  BY DEF Wanted
<1>2. id \notin DOMAIN content
  BY DEF Wanted
<1>3. ToSet(run.relevant) \subseteq Nodes
  BY RelevantIs, SeqElements
<1>4. id \in DOMAIN run.source
  BY <1>1, <1>2, <1>3 DEF CasKnown
<1> QED BY <1>4 DEF SourcesThere, HasSource

(* The steps that end a build for want of a file.                          *)
LEMMA FailureIs ==
  ASSUME BuildInv, RecordInv, PastOK, [Next]_bsVars, past'.result \in {"input", "content"},
         past'.result # past.result
  PROVE  \/ past'.result = "input" /\ (CannotRead \/ ListedButGone)
         \/ past'.result = "content" /\ \E id \in Wanted : NoContentSource(id)
<1>1. \A how : Ends(how) => past'.result = how
  BY EndsPast
<1>2. ~StepOfProcess
  BY StepKeepsPast
<1>3. ~Begin /\ ~WriteHeader
  BY DEF Begin, WriteHeader, PastOK, HasPast
<1>4. ~Environment /\ ~UNCHANGED bsVars
  BY EnvironmentDisturbs DEF bsVars
<1>5. ~Killed /\ \A n : ~CircularDependency(n)
  BY <1>1 DEF Killed, CircularDependency
<1>6. ~Checks
  BY <1>2, <1>5 DEF Checks, StepOfProcess, StepOfCheck, PlainAction
<1>7. ASSUME Works
      PROVE  CannotRead \/ ListedButGone
  BY <1>2, <1>7 DEF Works, StepOfProcess, StepOfCheck, StepOfWork, PlainAction
<1>8. ASSUME Finishes
      PROVE  \E id \in Wanted : NoContentSource(id)
  BY <1>2, <1>3, <1>8 DEF Finishes, StepOfProcess, StepOfCheck, PlainAction
<1>9. CannotRead \/ ListedButGone => past'.result = "input"
  BY <1>1 DEF CannotRead, ListedButGone
<1>10. (\E id \in Wanted : NoContentSource(id)) => past'.result = "content"
  BY <1>1 DEF NoContentSource
<1> QED BY <1>3, <1>4, <1>5, <1>6, <1>7, <1>8, <1>9, <1>10 DEF Next

LEMMA FailsForItsReason ==
  ASSUME BuildInv, RecordInv, PastOK, QuietInv, TellsInv, WholeInv, CasInv, ReasonInv, [Next]_bsVars
  PROVE  /\ past'.result = "input" /\ past.result # "input" => past.touched = "during" \/ Reasonable
         /\ past'.result = "content" /\ past.result # "content" => past.touched = "during" \/ past.removed
<1>1. ASSUME past'.result = "input", past.result # "input", past.touched # "during"
      PROVE  Reasonable
  <2>1. CannotRead \/ ListedButGone
    BY <1>1, FailureIs
  <2>2. run.pc = "work"
    BY <2>1 DEF CannotRead, ListedButGone, AllRead
  <2>3. QuietOK /\ DepsMade
    BY <1>1, <2>2 DEF QuietInv, ReasonInv, Quiet
  <2> QED BY <2>1, <2>3, CannotReadIs, ListedIsThere
<1>2. ASSUME past'.result = "content", past.result # "content", past.touched # "during", ~past.removed
      PROVE  FALSE
  <2>1. PICK id \in Wanted : NoContentSource(id)
    BY <1>2, FailureIs
  <2>2. run.pc = "content" /\ ~HasSource(id)
    BY <2>1 DEF NoContentSource
  <2>3. SourcesThere /\ CasKnown /\ TypesInv
    BY <1>2, <2>2 DEF ReasonInv, CasInv, Quiet, BuildInv
  <2> QED BY <2>1, <2>2, <2>3, WantedHasSource
<1> QED BY <1>1, <1>2

(* A build fails over a file only if something happened beside it, or if a *)
(* user's file is missing: a source that is named, or the file that an     *)
(* asset can do without if its analysis recorded a file without its path.  *)
(* It fails over content only if something happened beside it or content   *)
(* was removed: what a compiler made stays readable, what the directory    *)
(* was found to hold is there, and content that is wanted has a source     *)
(* (TryOpenInput, DepsNodeCompiler::RunAnalysis, UpdateCAS).               *)
THEOREM BuildSystemFailsForAReason == Spec => FailsForAReason
<1> DEFINE Inv == /\ BuildInv /\ RecordInv /\ PastOK /\ ContentOK /\ CourseInv /\ QuietInv
                  /\ TellsInv /\ DataInv /\ WholeInv /\ CasInv /\ ReasonInv
           Step == /\ past'.result = "input" /\ past.result # "input" =>
                        \/ past.touched = "during"
                        \/ /\ Work.open /\ file[Reading].data = Absent
                           /\ \/ Reading[1] = "source"
                              \/ /\ Reading[1] = "optional"
                                 /\ \E e \in ToSet(node[Work.node].analysis.inputs) : e.file = NoFile
                   /\ past'.result = "content" /\ past.result # "content" =>
                        past.touched = "during" \/ past.removed
<1>1. Init => Inv
  BY InitBuild, InitRecords, InitContent, InitCourse, InitQuiet, InitTells, InitData, InitWhole, InitReason
<1>2. Inv /\ [Next]_bsVars => Inv'
  BY NextBuild, NextRecords, CircularStep, NextContent, NextCourse, NextQuiet, NextTells, NextData,
     NextWhole, NextCas, NextReason
<1>3. Inv /\ [Next]_bsVars => [Step]_bsVars
  BY FailsForItsReason DEF Reasonable
<1> QED
  BY <1>1, <1>2, <1>3, PTL DEF Spec, FailsForAReason
=============================================================================
