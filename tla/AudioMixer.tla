----------------------------- MODULE AudioMixer -----------------------------
(***************************************************************************)
(* AnoxAudioSubsystem.cpp and AnoxGameAudioManager.cpp: the game's thread  *)
(* adds emitters, posts commands about them and removes them; the audio    *)
(* thread takes what has been posted, moves emitters between its two lists *)
(* and lets go of removed ones, which the garbage collector keeps until    *)
(* the subsystem shuts down.  Its ticks come at any time, also between the *)
(* two steps of the first PlayEmitter of an emitter.                       *)
(*                                                                         *)
(* An emitter is linked into a list by m_next, which refers to the next    *)
(* one, and m_prev, which does not.                                        *)
(*                                                                         *)
(* Abstractions.  The game's thread posts one command after the other, so  *)
(* the command lists of up to 256 words are one sequence of commands.      *)
(* kStopEmitter, which nothing posts, samples and a lack of memory are     *)
(* left out.                                                               *)
(***************************************************************************)
EXTENDS Integers, SequencesExt

CONSTANTS
  Emitters,
  MaxCommands,  \* bound on the number of posted commands
  Null

ASSUME MixerAssumption ==
  Null \notin Emitters /\ MaxCommands \in Nat

VARIABLES
  next, prev,  \* per emitter: m_rcLink
  added,       \* m_addEmitters
  inactiveEmitters, activeEmitters,  \* the lists of the audio thread
  playing,     \* the emitters with m_isActive
  commands,    \* m_cmdLists: the emitters to be played
  executing,   \* the commands the audio thread has taken and not executed
  removed,     \* from m_firstRemoveEmitter to m_lastRemoveEmitter
  toRemove,    \* from m_firstToRemove to m_lastToRemove, of the audio thread
  adding,      \* the emitter whose first play command is still to be posted
  created, destroyed,  \* what the game's thread has done
  tick,        \* what the audio thread does next
  overtaken    \* history: an emitter was played from behind another, and kept its m_prev

mixVars == <<next, prev, added, inactiveEmitters, activeEmitters, playing, commands, executing,
             removed, toRemove, adding, created, destroyed, tick, overtaken>>

listVars == <<next, prev, added, inactiveEmitters, activeEmitters>>
removeVars == <<removed, toRemove>>
gameVars == <<adding, created, destroyed>>

-----------------------------------------------------------------------------
(* AudioRCList, as functions from the links and lists to the new ones.     *)

NoEmitters == [first |-> Null, last |-> Null]
Single(e) == [first |-> e, last |-> e]

\* The list b at the end of the list a.
Appended(links, a, b) ==
  IF a.last = Null \/ b.last = Null
  THEN [links |-> links, list |-> IF a.last = Null THEN b ELSE a]
  ELSE [links |-> [next |-> [links.next EXCEPT ![a.last] = b.first],
                   prev |-> [links.prev EXCEPT ![b.first] = a.last]],
        list  |-> [first |-> a.first, last |-> b.last]]

(* DetachItem.  The emitter that is detached keeps its m_prev.             *)
\* Mutant of Detached: the next emitter keeps its m_prev as well.
DetachedAlone(links, a, e) ==
  LET n == links.next[e]
      p == links.prev[e]
      unlinked == [links.next EXCEPT ![e] = Null]
  IN  [links |-> [links EXCEPT !.next = IF p = Null THEN unlinked ELSE [unlinked EXCEPT ![p] = n]],
       list  |-> [first |-> IF p = Null THEN n ELSE a.first,
                 last  |-> IF n = Null THEN p ELSE a.last],
       item  |-> IF p = Null THEN a.first ELSE unlinked[p]]

Detached(links, a, e) ==
  LET n == links.next[e]
      p == links.prev[e]
      unlinked == [links.next EXCEPT ![e] = Null]
  IN  [links |-> [next |-> IF p = Null THEN unlinked ELSE [unlinked EXCEPT ![p] = n],
                  prev |-> IF n = Null THEN links.prev ELSE [links.prev EXCEPT ![n] = p]],
       list  |-> [first |-> IF p = Null THEN n ELSE a.first,
                 last  |-> IF n = Null THEN p ELSE a.last],
       item  |-> IF p = Null THEN a.first ELSE unlinked[p]]

Links == [next |-> next, prev |-> prev]

(* The emitters that are reached from the first one of a list.             *)
Members(list) ==
  FoldSet(LAMBDA e, es : es \cup {next[x] : x \in es \ {Null}}, {list.first}, Emitters) \ {Null}

(* The emitters that no list and no emitter refers to: RCTrackerZero hands *)
(* them to the garbage collector.                                          *)
Garbage ==
  {e \in created : /\ \A l \in {added, inactiveEmitters, activeEmitters} : l.first # e
                   /\ \A x \in Emitters : next[x] # e}

-----------------------------------------------------------------------------
(* The game's thread.  Each action is a section under m_cmdListMutex.      *)

(* The first PlayEmitter of an emitter creates the mixer's emitter.        *)
(* Emitters are told apart by when they are created only.                  *)
AddEmitter ==
  LET e == CHOOSE x \in Emitters : x \notin created
      r == Appended(Links, added, Single(e))
  IN  /\ tick # "joined" /\ adding = Null /\ created # Emitters /\ Len(commands) < MaxCommands
      /\ next' = r.links.next /\ prev' = r.links.prev /\ added' = r.list
      /\ created' = created \cup {e}
      /\ adding' = e
      /\ UNCHANGED <<inactiveEmitters, activeEmitters, playing, commands, executing, removeVars,
                     destroyed, tick, overtaken>>

PostCommand(e) ==
  /\ tick # "joined" /\ Len(commands) < MaxCommands
  /\ IF adding = Null THEN e \in created \ destroyed ELSE e = adding
  /\ commands' = Append(commands, e)
  /\ adding' = Null
  /\ UNCHANGED <<listVars, playing, executing, removeVars, created, destroyed, tick,
                 overtaken>>

RemoveEmitter(e) ==
  /\ tick # "joined" /\ adding = Null /\ e \in created \ destroyed
  /\ removed' = Append(removed, e)
  /\ destroyed' = destroyed \cup {e}
  /\ UNCHANGED <<listVars, playing, commands, executing, toRemove, adding, created, tick,
                 overtaken>>

-----------------------------------------------------------------------------
(* The audio thread.                                                       *)

(* The start of ExecuteCommandLists: what has been posted is taken under   *)
(* the mutex.  Removals wait for RunTrailingActions.                       *)
TakeLists ==
  LET r == Appended(Links, added, inactiveEmitters)
  IN  /\ tick \in {"render", "trailing"}
      /\ next' = r.links.next /\ prev' = r.links.prev /\ inactiveEmitters' = r.list
      /\ added' = NoEmitters
      /\ executing' = commands /\ commands' = <<>>
      /\ toRemove' = toRemove \o removed /\ removed' = <<>>
      /\ tick' = IF tick = "render" THEN "rendering" ELSE "flushing"
      /\ UNCHANGED <<activeEmitters, playing, gameVars, overtaken>>

\* ExecuteCommand of kPlayEmitter.
ExecuteCommand ==
  LET e == Head(executing)
      d == Detached(Links, inactiveEmitters, e)
      a == Appended(d.links, activeEmitters, Single(d.item))
  IN  /\ executing # <<>>
      /\ executing' = Tail(executing)
      /\ IF e \in playing THEN UNCHANGED <<next, prev, inactiveEmitters, activeEmitters, playing,
                                           overtaken>>
         ELSE /\ playing' = playing \cup {e}
              /\ overtaken' = (overtaken \/ prev[e] # Null)
              /\ next' = a.links.next /\ prev' = a.links.prev
              /\ inactiveEmitters' = d.list /\ activeEmitters' = a.list
      /\ UNCHANGED <<added, commands, removed, toRemove, gameVars, tick>>

\* The rest of Render walks the active list, to an emitter without a next one.
Render ==
  /\ tick = "rendering" /\ executing = <<>>
  /\ Members(activeEmitters) = {} \/ \E e \in Members(activeEmitters) : next[e] = Null
  /\ tick' = "trailing"
  /\ UNCHANGED <<listVars, playing, commands, executing, removeVars, gameVars, overtaken>>

\* Mutant of FlushedFrom: m_isActive is not looked at.
FlushedFromInactive(e) == "inactive"

FlushedFrom(e) == IF e \in playing THEN "active" ELSE "inactive"

ListOf(e) == IF FlushedFrom(e) = "active" THEN activeEmitters ELSE inactiveEmitters

\* One pass of FlushRemovals.
FlushRemoval ==
  LET e == Head(toRemove)
      d == Detached(Links, ListOf(e), e)
  IN  /\ tick = "flushing" /\ executing = <<>> /\ toRemove # <<>>
      /\ next' = d.links.next /\ prev' = d.links.prev
      /\ IF FlushedFrom(e) = "active" THEN activeEmitters' = d.list /\ UNCHANGED inactiveEmitters
         ELSE inactiveEmitters' = d.list /\ UNCHANGED activeEmitters
      /\ toRemove' = Tail(toRemove)
      /\ UNCHANGED <<added, playing, commands, executing, removed, gameVars, tick, overtaken>>

\* The end of RunTrailingActions.
EndTick ==
  /\ tick = "flushing" /\ executing = <<>> /\ toRemove = <<>>
  /\ tick' = "render"
  /\ UNCHANGED <<listVars, playing, commands, executing, removeVars, gameVars, overtaken>>

-----------------------------------------------------------------------------

(* Shutdown: the output stream joins the audio thread, the mixer's lists   *)
(* are cleared and the garbage collector deletes what they let go of.      *)
Shutdown ==
  LET cleared == UNION {Members(l) : l \in {added, inactiveEmitters, activeEmitters}}
  IN  /\ tick = "render" /\ adding = Null
      /\ added' = NoEmitters
      /\ inactiveEmitters' = NoEmitters /\ activeEmitters' = NoEmitters
      /\ next' = [e \in Emitters |-> IF e \in cleared THEN Null ELSE next[e]]
      /\ commands' = <<>>
      /\ tick' = "joined"
      /\ UNCHANGED <<prev, playing, executing, removed, toRemove, gameVars, overtaken>>

-----------------------------------------------------------------------------

MixerInit ==
  /\ next = [e \in Emitters |-> Null] /\ prev = [e \in Emitters |-> Null]
  /\ added = NoEmitters /\ inactiveEmitters = NoEmitters /\ activeEmitters = NoEmitters
  /\ playing = {} /\ commands = <<>> /\ executing = <<>> /\ removed = <<>> /\ toRemove = <<>>
  /\ adding = Null /\ created = {} /\ destroyed = {}
  /\ tick = "render" /\ overtaken = FALSE

AudioThread ==
  \/ TakeLists
  \/ ExecuteCommand
  \/ Render
  \/ FlushRemoval
  \/ EndTick

GameThread ==
  \/ AddEmitter
  \/ \E e \in Emitters : PostCommand(e) \/ RemoveEmitter(e)
  \/ Shutdown

MixerNext ==
  \/ AudioThread
  \/ GameThread

MixerSpec == MixerInit /\ [][MixerNext]_mixVars

-----------------------------------------------------------------------------

List == [first : Emitters \cup {Null}, last : Emitters \cup {Null}]

(* The type invariant of the variables above.                              *)
MixerTypeOK ==
  /\ next \in [Emitters -> Emitters \cup {Null}] /\ prev \in [Emitters -> Emitters \cup {Null}]
  /\ added \in List /\ inactiveEmitters \in List /\ activeEmitters \in List
  /\ playing \subseteq Emitters /\ commands \in Seq(Emitters)
  /\ executing \in Seq(Emitters)
  /\ removed \in Seq(Emitters) /\ toRemove \in Seq(Emitters)
  /\ adding \in Emitters \cup {Null}
  /\ created \subseteq Emitters /\ destroyed \subseteq created
  /\ tick \in {"render", "rendering", "trailing", "flushing", "joined"}
  /\ overtaken \in BOOLEAN

(* The list is walked from its first emitter to its last, and m_prev goes  *)
(* back the same way.                                                      *)
Linked(list) ==
  /\ list.first = Null <=> list.last = Null
  /\ list.first # Null => prev[list.first] = Null
  /\ \A e \in Members(list) : IF next[e] = Null THEN e = list.last ELSE prev[next[e]] = e

(* The audio thread reaches exactly the emitters that it has to: every one *)
(* that was added is in the one list that m_isActive says, or waits to be  *)
(* added, and is let go of when its removal is carried out and not before; *)
(* then no command names it.  This holds wherever the audio thread's ticks *)
(* fall, until an emitter is overtaken: added, not played by the next      *)
(* tick, and then played from behind a later one.  From then on the code   *)
(* does not keep it (DeadEmittersAreRemoved).                              *)
ListsAreSound ==
  ~overtaken =>
    /\ Linked(added) /\ Linked(inactiveEmitters) /\ Linked(activeEmitters)
    /\ Members(activeEmitters) = playing \ Garbage
    /\ tick # "joined" =>
         /\ Members(added) \cup Members(inactiveEmitters) = (created \ playing) \ Garbage
         /\ Members(added) \cap Members(inactiveEmitters) = {}
         /\ Garbage = destroyed \ (ToSet(removed) \cup ToSet(toRemove))
         /\ Garbage \cap (ToSet(commands) \cup ToSet(executing)) = {}

(* An emitter that was added is played in the end, unless it is removed    *)
(* first or the subsystem shuts down, and one that was removed is let go   *)
(* of, wherever the ticks fall.  Both are for good.  As above, nothing is  *)
(* said of what follows once an emitter was overtaken.                     *)
EmittersEnd ==
  []<>(overtaken \/ (created \subseteq playing \cup Garbage /\ destroyed \subseteq Garbage))

(* What the audio thread detaches next, and from which list.               *)
Detaching ==
  IF executing # <<>>
  THEN {[item |-> e, list |-> inactiveEmitters] : e \in {Head(executing)} \ playing}
  ELSE {[item |-> e, list |-> ListOf(e)] :
          e \in IF tick = "flushing" /\ toRemove # <<>> THEN {Head(toRemove)} ELSE {}}

(* DetachItem's assertions hold in every schedule, also after an emitter   *)
(* was overtaken: one without a next emitter is the last of the list it is *)
(* detached from, and one without a previous emitter the first.            *)
DetachesFromItsList ==
  \A d \in Detaching :
    /\ next[d.item] = Null => d.list.last = d.item
    /\ prev[d.item] = Null => d.list.first = d.item

(* What RemoveEmitter's comment says, "Dead emitters are removed in FIFO   *)
(* order": once a removal was carried out, nothing refers to the emitter.  *)
(* The code does not keep it: the tick of the audio thread may fall        *)
(* between an emitter's creation and its first command, a later emitter is *)
(* put before it, and it takes its m_prev along to the active list, which  *)
(* then goes on referring to it.                                           *)
DeadEmittersAreRemoved ==
  tick # "joined" => destroyed \ (ToSet(removed) \cup ToSet(toRemove)) \subseteq Garbage
=============================================================================
