---------------------------- MODULE LifecycleProofs ----------------------------
(***************************************************************************)
(* Proofs that the job queue keeps the promise of JobLifecycle and that a  *)
(* thread whose wait for a job returns finds it completed, for any number  *)
(* of threads and jobs, provided that no thread is scheduled between the   *)
(* two sections of another's CreateJob and that no client names a          *)
(* dependency that has failed already: the two cases in which the code     *)
(* breaks the promise.                                                     *)
(***************************************************************************)
EXTENDS JobQueueProofs, JobQueueLifecycle

(* The frames of a call stack, by their level above its base.              *)
Height(t) == Len(stack[t])
Levels(t) == 0..Height(t)
Level(t, l) == IF l = Height(t) THEN fr[t] ELSE stack[t][Height(t) - l]

Holds(f, j) == Starts(f, j) \/ Adds(f, j) \/ Creates(f, j)
Held(j) == \E t \in Threads : \E l \in Levels(t) : Holds(Level(t, l), j)

(* A job nobody has begun to carry out, one nobody has begun to add, and   *)
(* one that may be started.                                                *)
Unrun(j) == job[j].runs = 0 /\ job[j].runner /\ job[j].signaler = "none" /\ ~job[j].completed
Idle(j)  == Unrun(j) /\ ~job[j].queued /\ ~job[j].started
Runnable(j) == /\ job[j].made # "no" /\ ~job[j].depFailed
               /\ job[j].numWaiting <= 0 /\ Unrun(j)

(* What the frame f may rely on about the job j it has in its hands.       *)
HolderOK(f, j) ==
  /\ job[j].made # "no"
  /\ f.op = "publish" /\ job[j].depFailed => ~f.ok
  /\ f.op = "run" => ~job[j].depFailed
  /\ ~job[j].depFailed =>
       /\ ~job[j].completed
       /\ f.op # "created" => job[j].numWaiting <= 0
       /\ f.op \in {"created", "adds"} => Idle(j)
       /\ f.op \in {"enter", "mark"} => Unrun(j)
       /\ f.op = "mark" => isClosing
       /\ f.op = "run" => job[j].runs > 0
       /\ f.op = "publish" => \/ job[j].runs > 0 \/ job[j].signaler = "done"
                              \/ Unrun(j) /\ isClosing /\ ~f.ok

PlaceOK(j) ==
  /\ \A t \in Threads : \A l \in Levels(t) : Holds(Level(t, l), j) => HolderOK(Level(t, l), j)
  /\ Listed(j) \/ Handed(j) => Runnable(j)

(* A job is in one place at most, unless a dependency of it failed: such a *)
(* job may be taken by a thread while another is aborting it.              *)
HeldOnce(j) == \A t, u \in Threads : \A l \in Levels(t), m \in Levels(u) :
  Holds(Level(t, l), j) /\ Holds(Level(u, m), j) => t = u /\ l = m
ListedOnce(j) == \A b, c \in Types : \A i \in 1..Len(pending[b]), k \in 1..Len(pending[c]) :
  pending[b][i] = j /\ pending[c][k] = j => b = job[j].type /\ b = c /\ i = k
HandedOnce(j) == \A u, v \in Threads : HandedTo(u, j) /\ HandedTo(v, j) => u = v
OnePlace(j) ==
  /\ ~job[j].depFailed => HeldOnce(j)
  /\ ListedOnce(j) /\ HandedOnce(j)
  /\ ~(Held(j) /\ Listed(j)) /\ ~(Held(j) /\ Handed(j)) /\ ~(Listed(j) /\ Handed(j))

(* A job and its dependencies.                                             *)
Succeeded(j) == job[j].completed /\ ~job[j].failed
DepsDone(j) == \A d \in job[j].deps : Succeeded(d)
LinksOK(j) ==
  /\ job[j].made = "no" => job[j] = NoJobYet
  /\ job[j].depFailed => /\ job[j].completed => job[j].failed
                         /\ \E d \in job[j].deps : job[d].completed /\ job[d].failed
  /\ ~job[j].depFailed =>
       /\ \A d \in job[j].deps : Succeeded(d) \/ (~job[d].completed /\ j \in job[d].downs)
       /\ job[j].numWaiting >= Cardinality(Open(j))
  /\ job[j].runs > 0 \/ Succeeded(j) => DepsDone(j)

(* The fields of a job among each other.                                   *)
StateOK(j) ==
  /\ job[j].depFailed => job[j].runs = 0
  /\ job[j].signaler # "none" => job[j].deps = {} /\ job[j].runs = 0 /\ job[j].numWaiting <= 0
  /\ job[j].signaler = "held" => ~job[j].completed
  /\ ~job[j].depFailed /\ job[j].made # "no" /\ job[j].numWaiting >= 1 => Idle(j)
  /\ ~job[j].depFailed /\ ~job[j].completed /\ job[j].queued /\ ~job[j].started /\ ~isClosing
       => Listed(j)

(* CreateJob's frame has nothing above it, and JobDone wakes the threads   *)
(* after the job is completed.                                             *)
LevelsOK(t) == \A l \in Levels(t) :
  /\ Level(t, l).op = "created" => l = Height(t)
  /\ Level(t, l).op = "wake" => job[Level(t, l).job].completed

(* What a thread that was woken finds.                                     *)
WokenOK(u) ==
  /\ wti[u].disp \in {"DequeuedWork", "StartedByThisThread"} => fr[u].ok
  /\ wti[u].disp = "CompletedByAnotherThread" => fr[u].job # NoJob /\ job[fr[u].job].completed
  /\ wti[u].disp = "Terminated" => isClosing

JobFacts(j) == PlaceOK(j) /\ OnePlace(j) /\ LinksOK(j) /\ StateOK(j)
LInv == /\ \A j \in Jobs : JobFacts(j)
        /\ \A t \in Threads : LevelsOK(t) /\ WokenOK(t)

-----------------------------------------------------------------------------
(* Call stacks, level by level.                                            *)

(* The frame of S takes the place of t's, and that of T is put above it.   *)
Moves(t, S, T) ==
  /\ \A u \in Threads : \A l \in Levels(u)' :
       \/ l \in Levels(u) /\ ~(u = t /\ l = Height(t)) /\ Level(u, l)' = Level(u, l)
       \/ u = t /\ l = Height(t) /\ Level(u, l)' \in S
       \/ u = t /\ l = Height(t) + 1 /\ Level(u, l)' \in T
  /\ \A u \in Threads \ {t} : Height(u)' = Height(u) /\ fr'[u] = fr[u]
  /\ T # {} => Height(t)' = Height(t) + 1

LEMMA LevelTypes ==
  ASSUME IInv, NEW t \in Threads
  PROVE  /\ Height(t) \in Nat /\ Height(t) \in Levels(t) /\ Level(t, Height(t)) = fr[t]
         /\ \A l \in Levels(t) : Level(t, l) \in Frame
         /\ stack[t] \in Seq(Frame)
<1>1. stack[t] \in Seq(Frame) /\ Height(t) \in Nat /\ fr[t] \in Frame
  BY LenProperties DEF IInv, TypeOK, Height
<1>2. \A l \in Levels(t) : Level(t, l) \in Frame
  <2>1. ASSUME NEW l \in Levels(t), l # Height(t)
        PROVE  stack[t][Height(t) - l] \in Frame
    <3>1. Height(t) - l \in 1..Len(stack[t])
      BY <1>1, <2>1 DEF Levels, Height
    <3> QED
      BY <1>1, <3>1, ElementOfSeq
  <2> QED
    BY <1>1, <2>1 DEF Level
<1> QED
  BY <1>1, <1>2 DEF Levels, Level

LEMMA MovesAre ==
  ASSUME IInv, NEW t \in Threads
  PROVE  /\ UNCHANGED <<fr, stack>> => Moves(t, {fr[t]}, {})
         /\ Proceed(t, <<>>) /\ ~Base(fr[t]) => Moves(t, {}, {})
         /\ \A a \in Frame : Proceed(t, <<a>>) => Moves(t, {a}, {})
         /\ \A a, b \in Frame : Proceed(t, <<a, b>>) => Moves(t, {b}, {a})
<1> DEFINE old == stack[t]
<1>1. /\ old \in Seq(Frame) /\ Len(old) \in Nat /\ Height(t) = Len(old)
      /\ fr \in [Threads -> Frame] /\ stack \in [Threads -> Seq(Frame)]
  BY LenProperties DEF IInv, TypeOK, Height
<1>2. ASSUME NEW u \in Threads, fr'[u] = fr[u], stack'[u] = stack[u]
      PROVE  /\ Levels(u)' = Levels(u) /\ Height(u)' = Height(u)
             /\ \A l : Level(u, l)' = Level(u, l)
  BY <1>2 DEF Levels, Level, Height
<1>3. ASSUME UNCHANGED <<fr, stack>>
      PROVE  Moves(t, {fr[t]}, {})
  BY <1>2, <1>3 DEF Moves, Level
<1>4. ASSUME Proceed(t, <<>>), ~Base(fr[t])
      PROVE  Moves(t, {}, {})
  <2>1. old # <<>>
    BY <1>4 DEF IInv, StackOK
  <2>2. <<>> \o old = old
    BY <1>1, ConcatEmptySeq
  <2>3. /\ fr'[t] = old[1] /\ stack'[t] = Tail(old)
        /\ Len(Tail(old)) = Len(old) - 1 /\ Len(old) >= 1
        /\ \A i \in 1..Len(Tail(old)) : Tail(old)[i] = old[i + 1]
    BY <1>1, <1>4, <2>1, <2>2, HeadTailProperties, EmptySeq DEF Proceed
  <2>4. \A u \in Threads \ {t} : fr'[u] = fr[u] /\ stack'[u] = stack[u]
    BY <1>1, <1>4 DEF Proceed
  <2> HIDE DEF old
  <2>5. ASSUME NEW l \in Levels(t)'
        PROVE  l \in Levels(t) /\ l # Height(t) /\ Level(t, l)' = Level(t, l)
    <3>1. Height(t)' = Len(old) - 1 /\ l \in 0..(Len(old) - 1)
      BY <2>3, <2>5 DEF Levels, Height
    <3>2. l \in Levels(t) /\ l # Height(t)
      BY <1>1, <3>1 DEF Levels
    <3>3. Level(t, l) = old[Len(old) - l]
      BY <1>1, <3>2 DEF Level, old
    <3>4. CASE l = Len(old) - 1
      <4>1. Len(old) - l = 1
        BY <1>1, <3>4
      <4> QED
        BY <2>3, <3>1, <3>2, <3>3, <3>4, <4>1 DEF Level
    <3>5. CASE l # Len(old) - 1
      <4>1. Level(t, l)' = Tail(old)[(Len(old) - 1) - l]
        BY <2>3, <3>1, <3>5 DEF Level
      <4>2. (Len(old) - 1) - l \in 1..Len(Tail(old)) /\ ((Len(old) - 1) - l) + 1 = Len(old) - l
        BY <1>1, <2>3, <3>1, <3>5
      <4> QED
        BY <2>3, <3>2, <3>3, <4>1, <4>2
    <3> QED
      BY <3>4, <3>5
  <2> QED
    BY <1>2, <2>4, <2>5 DEF Moves
<1>5. ASSUME NEW a \in Frame, Proceed(t, <<a>>)
      PROVE  Moves(t, {a}, {})
  <2>1. Head(<<a>> \o old) = a /\ Tail(<<a>> \o old) = old
    BY <1>1, OneOnTop
  <2>2. /\ fr'[t] = a /\ stack'[t] = old
        /\ \A u \in Threads \ {t} : fr'[u] = fr[u] /\ stack'[u] = stack[u]
    BY <1>1, <1>5, <2>1 DEF Proceed
  <2>3. Levels(t)' = Levels(t) /\ Height(t)' = Height(t)
    BY <2>2 DEF Levels, Height
  <2>4. \A l \in Levels(t) : Level(t, l)' = IF l = Height(t) THEN a ELSE Level(t, l)
    BY <2>2, <2>3 DEF Level, Height
  <2> HIDE DEF old
  <2> QED
    BY <1>2, <2>2, <2>3, <2>4 DEF Moves
<1>6. ASSUME NEW a \in Frame, NEW b \in Frame, Proceed(t, <<a, b>>)
      PROVE  Moves(t, {b}, {a})
  <2> DEFINE s == Tail(<<a, b>> \o old)
  <2>1. /\ Head(<<a, b>> \o old) = a
        /\ Len(s) = 1 + Len(old) /\ s[1] = b /\ \A i \in 1..Len(old) : s[i + 1] = old[i]
    BY <1>1, TwoOnTop
  <2>2. /\ fr'[t] = a /\ stack'[t] = s
        /\ \A u \in Threads \ {t} : fr'[u] = fr[u] /\ stack'[u] = stack[u]
    BY <1>1, <1>6, <2>1 DEF Proceed
  <2> HIDE DEF s
  <2>3. Height(t)' = Height(t) + 1
    BY <1>1, <2>1, <2>2 DEF Height
  <2> HIDE DEF old
  <2>4. ASSUME NEW l \in Levels(t)'
        PROVE  \/ l \in Levels(t) /\ l # Height(t) /\ Level(t, l)' = Level(t, l)
               \/ l = Height(t) /\ Level(t, l)' = b
               \/ l = Height(t) + 1 /\ Level(t, l)' = a
    <3>1. l \in 0..(Len(old) + 1)
      BY <1>1, <2>3, <2>4 DEF Levels
    <3>2. CASE l = Len(old) + 1
      BY <1>1, <2>2, <2>3, <3>2 DEF Level
    <3>3. CASE l = Len(old)
      <4>1. Level(t, l)' = s[1]
        BY <1>1, <2>2, <2>3, <3>3 DEF Level
      <4> QED
        BY <1>1, <2>1, <3>3, <4>1
    <3>4. CASE l \in 0..(Len(old) - 1)
      <4>1. l \in Levels(t) /\ l # Height(t) /\ Level(t, l) = old[Len(old) - l]
        BY <1>1, <3>4 DEF Level, Levels, old
      <4>2. Level(t, l)' = s[(Len(old) - l) + 1] /\ Len(old) - l \in 1..Len(old)
        BY <1>1, <2>2, <2>3, <3>4 DEF Level
      <4> QED
        BY <2>1, <4>1, <4>2
    <3> QED
      BY <1>1, <3>1, <3>2, <3>3, <3>4
  <2> QED
    BY <1>2, <2>2, <2>3, <2>4 DEF Moves
<1> QED
  BY <1>3, <1>4, <1>5, <1>6

-----------------------------------------------------------------------------
(* What a step may leave as it is.                                         *)

SameState(k) ==
  LET p == job[k]
      q == job'[k]
  IN  /\ p.made # "no" <=> q.made # "no"
      /\ q.type = p.type /\ q.runs = p.runs /\ q.runner = p.runner /\ q.signaler = p.signaler
      /\ q.numWaiting = p.numWaiting /\ q.completed = p.completed /\ q.depFailed = p.depFailed
      /\ q.queued = p.queued /\ q.started = p.started

SameGraph == \A k \in Jobs :
  LET p == job[k]
      q == job'[k]
  IN  /\ q.deps = p.deps /\ q.downs = p.downs
      /\ q.completed = p.completed /\ q.failed = p.failed
      /\ q.depFailed = p.depFailed /\ q.numWaiting = p.numWaiting
      /\ q.made = "no" => q = p

(* The places a job may leave but not enter.                               *)
SameRole(g, f) == g.op = f.op /\ (f.op = "publish" => g.ok = f.ok)
FewerFrames(k) == \A u \in Threads : \A l \in Levels(u)' :
  Holds(Level(u, l)', k) =>
    /\ l \in Levels(u) /\ Holds(Level(u, l), k)
    /\ SameRole(Level(u, l)', Level(u, l))
Fewer(k) == /\ FewerFrames(k)
            /\ Listed(k)' => Listed(k)
            /\ ListedOnce(k) => ListedOnce(k)'
            /\ \A u \in Threads : HandedTo(u, k)' => HandedTo(u, k)

(* Frames new with a step of t hold k only as t's frame did.               *)
LEMMA FramesFewer ==
  ASSUME IInv, NEW t \in Threads, NEW S, NEW T, Moves(t, S, T), NEW k,
         \A f \in T : ~Holds(f, k),
         \A f \in S : Holds(f, k) => Holds(fr[t], k) /\ SameRole(f, fr[t])
  PROVE  FewerFrames(k)
<1>1. Height(t) \in Levels(t) /\ Level(t, Height(t)) = fr[t]
  BY LevelTypes
<1>2. SUFFICES ASSUME NEW u \in Threads, NEW l \in Levels(u)', Holds(Level(u, l)', k)
               PROVE  /\ l \in Levels(u) /\ Holds(Level(u, l), k)
                      /\ SameRole(Level(u, l)', Level(u, l))
  BY DEF FewerFrames
<1>3. CASE Level(u, l)' = Level(u, l) /\ l \in Levels(u)
  BY <1>2, <1>3 DEF SameRole
<1>4. CASE u = t /\ l = Height(t) /\ Level(u, l)' \in S
  BY <1>1, <1>2, <1>4
<1>5. CASE Level(u, l)' \in T
  BY <1>2, <1>5
<1> QED
  BY <1>3, <1>4, <1>5 DEF Moves

(* A job only t's frame held is held by the new frames alone.              *)
LEMMA FramesAfter ==
  ASSUME IInv, NEW t \in Threads, NEW S, NEW T, Moves(t, S, T), NEW k,
         \A u \in Threads : \A l \in Levels(u) :
           Holds(Level(u, l), k) => u = t /\ l = Height(t)
  PROVE  \A u \in Threads : \A l \in Levels(u)' : Holds(Level(u, l)', k) =>
           /\ u = t
           /\ \/ l = Height(t) /\ Level(u, l)' \in S
              \/ l = Height(t) + 1 /\ Level(u, l)' \in T
BY DEF Moves

LEMMA PlaceKept ==
  ASSUME NEW k \in Jobs, PlaceOK(k), OnePlace(k),
         SameState(k), isClosing => isClosing', Fewer(k)
  PROVE  PlaceOK(k)' /\ OnePlace(k)'
<1>1. \A f, g : HolderOK(f, k) /\ SameRole(g, f) => HolderOK(g, k)'
  BY DEF HolderOK, SameState, SameRole, Idle, Unrun
<1>2. Held(k)' => Held(k)
  BY DEF Fewer, FewerFrames, Held
<1>3. Handed(k)' => Handed(k)
  BY DEF Fewer, Handed
<1>4. PlaceOK(k)'
  <2>1. ASSUME NEW u \in Threads, NEW l \in Levels(u)', Holds(Level(u, l)', k)
        PROVE  HolderOK(Level(u, l), k)'
    <3>1. HolderOK(Level(u, l), k) /\ SameRole(Level(u, l)', Level(u, l))
      BY <2>1 DEF Fewer, FewerFrames, PlaceOK
    <3> QED
      BY <1>1, <3>1
  <2>2. Runnable(k) => Runnable(k)'
    BY DEF Runnable, Unrun, SameState
  <2>3. Listed(k)' \/ Handed(k)' => Runnable(k)'
    BY <1>3, <2>2 DEF Fewer, PlaceOK
  <2> QED
    BY <2>1, <2>3 DEF PlaceOK
<1>5. OnePlace(k)'
  <2>1. HeldOnce(k) => HeldOnce(k)'
    BY DEF HeldOnce, Fewer, FewerFrames
  <2>2. job'[k].depFailed = job[k].depFailed
    BY DEF SameState
  <2>3. HandedOnce(k)'
    BY DEF OnePlace, HandedOnce, Fewer
  <2> QED
    BY <1>2, <1>3, <2>1, <2>2, <2>3 DEF OnePlace, Fewer
<1> QED
  BY <1>4, <1>5

LEMMA StateKept ==
  ASSUME NEW k \in Jobs, StateOK(k), SameState(k), job'[k].deps = job[k].deps,
         isClosing => isClosing', Listed(k) => Listed(k)'
  PROVE  StateOK(k)'
BY DEF StateOK, SameState, Idle, Unrun

(* The dependencies of the jobs, and what became of them, stay the same.   *)
LEMMA LinksKept ==
  ASSUME \A k \in Jobs : LinksOK(k), SameGraph, IInv,
         \A k \in Jobs : job'[k].runs = job[k].runs \/ DepsDone(k)
  PROVE  \A k \in Jobs : LinksOK(k)'
<1>1. ASSUME NEW k \in Jobs
      PROVE  LinksOK(k)'
  <2>1. job[k].deps \subseteq Jobs
    BY DEF IInv, TypeOK, JobState
  <2>2. \A d \in Jobs : (Succeeded(d)' <=> Succeeded(d)) /\ job'[d].downs = job[d].downs
                        /\ job'[d].completed = job[d].completed /\ job'[d].failed = job[d].failed
    BY DEF SameGraph, Succeeded
  <2>3. Open(k)' = Open(k)
    BY <2>2 DEF Open, Downs
  <2>4. DepsDone(k)' <=> DepsDone(k)
    BY <2>1, <2>2 DEF DepsDone, SameGraph
  <2>5. /\ job'[k].deps = job[k].deps /\ job'[k].depFailed = job[k].depFailed
        /\ job'[k].numWaiting = job[k].numWaiting
        /\ job'[k].made = "no" => job'[k] = job[k]
    BY DEF SameGraph
  <2>6. LinksOK(k)
    OBVIOUS
  <2>7. job'[k].made = "no" => job'[k] = NoJobYet
    BY <2>5, <2>6 DEF LinksOK
  <2>8. job'[k].depFailed => /\ job'[k].completed => job'[k].failed
                             /\ \E d \in job'[k].deps : job'[d].completed /\ job'[d].failed
    BY <2>1, <2>2, <2>5, <2>6 DEF LinksOK
  <2>9. ~job'[k].depFailed =>
         \A d \in job'[k].deps : Succeeded(d)' \/ (~job'[d].completed /\ k \in job'[d].downs)
    BY <2>1, <2>2, <2>5, <2>6 DEF LinksOK
  <2>10. ~job'[k].depFailed => job'[k].numWaiting >= Cardinality(Open(k)')
    BY <2>3, <2>5, <2>6 DEF LinksOK
  <2>11. job'[k].runs > 0 \/ Succeeded(k)' => DepsDone(k)'
    BY <2>2, <2>4, <2>6 DEF LinksOK
  <2> QED
    BY <2>7, <2>8, <2>9, <2>10, <2>11 DEF LinksOK
<1> QED
  BY <1>1

(* Threads that were not disturbed find what they were woken for.          *)
LEMMA WokenKept ==
  ASSUME IInv, NEW u \in Threads, WokenOK(u), wti'[u] = wti[u],
         wti[u].disp = "Invalid" \/ fr'[u] = fr[u], isClosing => isClosing',
         \A k \in Jobs : job[k].completed => job'[k].completed
  PROVE  WokenOK(u)'
<1>1. fr[u] \in Frame /\ fr[u].job \in Jobs \cup {NoJob}
  BY InvFacts, FramesOK
<1> QED
  BY <1>1 DEF WokenOK

LEMMA WokensKept ==
  ASSUME IInv, NEW t \in Threads, NEW S, NEW T, Moves(t, S, T), fr[t].op # "asleep",
         NEW u \in Threads, WokenOK(u), wti'[u] = wti[u], isClosing => isClosing',
         \A k \in Jobs : job[k].completed => job'[k].completed
  PROVE  /\ WokenOK(u)'
         /\ \A k : HandedTo(u, k)' <=> HandedTo(u, k)
<1>1. wti[u].disp = "Invalid" \/ fr'[u] = fr[u]
  <2>1. u = t => ~Woke(u)
    BY DEF IInv, WaitOK
  <2> QED
    BY <2>1 DEF Woke, Moves
<1>2. WokenOK(u)'
  BY <1>1, WokenKept
<1>3. \A k : HandedTo(u, k)' <=> HandedTo(u, k)
  BY <1>1 DEF HandedTo
<1> QED
  BY <1>2, <1>3

LEMMA LevelsKept ==
  ASSUME IInv, LInv, NEW t \in Threads, NEW S, NEW T, Moves(t, S, T),
         \A f \in S : f.op # "created",
         \A f \in S \cup T : f.op = "wake" => job'[f.job].completed,
         \A k \in Jobs : job[k].completed => job'[k].completed
  PROVE  \A u \in Threads : LevelsOK(u)'
<1>1. SUFFICES ASSUME NEW u \in Threads, NEW l \in Levels(u)'
               PROVE  /\ Level(u, l)'.op = "created" => l = Height(u)'
                      /\ Level(u, l)'.op = "wake" => job'[Level(u, l)'.job].completed
  BY DEF LevelsOK
<1>2. CASE l \in Levels(u) /\ ~(u = t /\ l = Height(t)) /\ Level(u, l)' = Level(u, l)
  <2>1. /\ Level(u, l).op = "created" => l = Height(u)
        /\ Level(u, l).op = "wake" => job[Level(u, l).job].completed
    BY <1>2 DEF LInv, LevelsOK
  <2>2. Level(u, l) \in Frame
    BY <1>2, LevelTypes
  <2>3. Level(u, l).op = "wake" => Level(u, l).job \in Jobs
    BY <2>2, FramesOK DEF JobOps
  <2> QED
    BY <1>2, <2>1, <2>3 DEF Moves
<1>3. CASE u = t /\ l = Height(t) /\ Level(u, l)' \in S
  BY <1>3
<1>4. CASE u = t /\ l = Height(t) + 1 /\ Level(u, l)' \in T
  BY <1>4 DEF Moves
<1> QED
  BY <1>2, <1>3, <1>4 DEF Moves

-----------------------------------------------------------------------------
(* The pending lists.                                                      *)

LEMMA SameLists ==
  ASSUME pending' = pending, NEW k, job'[k].type = job[k].type
  PROVE  /\ Listed(k)' <=> Listed(k)
         /\ ListedOnce(k)' <=> ListedOnce(k)
BY DEF Listed, ListedOnce

(* A list without its n-th job.                                            *)
LEMMA ShorterList ==
  ASSUME IInv, NEW c \in Types, NEW n \in 1..Len(pending[c]), NEW r \in Seq(Jobs),
         Len(r) = Len(pending[c]) - 1,
         \A i \in 1..Len(r) : r[i] = IF i < n THEN pending[c][i] ELSE pending[c][i + 1],
         pending' = [pending EXCEPT ![c] = r]
  PROVE  /\ \A k \in Jobs : job'[k].type = job[k].type =>
              /\ Listed(k)' => Listed(k)
              /\ ListedOnce(k) => ListedOnce(k)'
              /\ k = pending[c][n] /\ ListedOnce(k) => ~Listed(k)'
         /\ Listed(pending[c][n])
<1> DEFINE q == pending[c]
           old(i) == IF i < n THEN i ELSE i + 1
<1>1. pending \in [Types -> Seq(Jobs)] /\ q \in Seq(Jobs) /\ Len(q) \in Nat
  BY LenProperties DEF IInv, TypeOK
<1>2. pending'[c] = r /\ \A b \in Types \ {c} : pending'[b] = pending[b]
  BY <1>1
<1>3. \A i \in 1..Len(r) : old(i) \in 1..Len(q) /\ old(i) # n /\ r[i] = q[old(i)]
  BY <1>1
<1>4. \A i, m \in 1..Len(r) : old(i) = old(m) => i = m
  BY <1>1
<1> DEFINE From(b, i) == IF b = c THEN old(i) ELSE i
<1>5. \A b \in Types : \A i \in 1..Len(pending'[b]) :
        /\ From(b, i) \in 1..Len(pending[b])
        /\ pending'[b][i] = pending[b][From(b, i)]
        /\ b = c => From(b, i) # n
  BY <1>2, <1>3
<1>6. \A b \in Types : \A i, m \in 1..Len(pending'[b]) : From(b, i) = From(b, m) => i = m
  BY <1>2, <1>4
<1> HIDE DEF From, old, q
<1>7. ASSUME NEW k \in Jobs, job'[k].type = job[k].type
      PROVE  /\ Listed(k)' => Listed(k)
             /\ ListedOnce(k) => ListedOnce(k)'
             /\ k = pending[c][n] /\ ListedOnce(k) => ~Listed(k)'
  <2>1. Listed(k)' => Listed(k)
    BY <1>5 DEF Listed
  <2>2. ASSUME ListedOnce(k)
        PROVE  ListedOnce(k)'
    <3>1. SUFFICES ASSUME NEW b \in Types, NEW d \in Types,
                          NEW i \in 1..Len(pending'[b]), NEW m \in 1..Len(pending'[d]),
                          pending'[b][i] = k, pending'[d][m] = k
                   PROVE  b = job'[k].type /\ b = d /\ i = m
      BY DEF ListedOnce
    <3>2. b = job[k].type /\ b = d /\ From(b, i) = From(d, m)
      <4>1. From(b, i) \in 1..Len(pending[b]) /\ pending[b][From(b, i)] = k
        BY <1>5, <3>1
      <4>2. From(d, m) \in 1..Len(pending[d]) /\ pending[d][From(d, m)] = k
        BY <1>5, <3>1
      <4> QED
        BY <2>2, <4>1, <4>2 DEF ListedOnce
    <3> QED
      BY <1>6, <1>7, <3>2
  <2>3. ASSUME k = pending[c][n], ListedOnce(k), Listed(k)'
        PROVE  FALSE
    <3>1. PICK b \in Types : \E i \in 1..Len(pending'[b]) : pending'[b][i] = k
      BY <2>3 DEF Listed
    <3>2. PICK i \in 1..Len(pending'[b]) : pending'[b][i] = k
      BY <3>1
    <3>3. From(b, i) \in 1..Len(pending[b]) /\ pending[b][From(b, i)] = k
      BY <1>5, <3>2
    <3>4. b = c /\ From(b, i) = n
      BY <2>3, <3>3 DEF ListedOnce
    <3> QED
      BY <1>5, <3>4
  <2> QED
    BY <2>1, <2>2, <2>3
<1>8. Listed(pending[c][n])
  BY DEF Listed
<1> QED
  BY <1>7, <1>8

LEMMA TailList ==
  ASSUME IInv, NEW c \in Types, pending[c] # <<>>,
         pending' = [pending EXCEPT ![c] = Tail(pending[c])]
  PROVE  LET j == Head(pending[c])
         IN  /\ j \in Jobs /\ Listed(j)
             /\ \A k \in Jobs : job'[k].type = job[k].type =>
                  /\ Listed(k)' => Listed(k)
                  /\ k # j => (Listed(k) => Listed(k)')
                  /\ ListedOnce(k) => ListedOnce(k)'
                  /\ k = j /\ ListedOnce(k) => ~Listed(k)'
<1> DEFINE q == pending[c]
<1>1. q \in Seq(Jobs) /\ Len(q) \in Nat
  BY LenProperties DEF IInv, TypeOK
<1>2. /\ Head(q) = q[1] /\ Tail(q) \in Seq(Jobs) /\ Len(Tail(q)) = Len(q) - 1 /\ 1 \in 1..Len(q)
      /\ \A i \in 1..Len(Tail(q)) : Tail(q)[i] = q[i + 1]
  BY <1>1, HeadTailProperties, EmptySeq
<1>3. \A i \in 1..Len(Tail(q)) : Tail(q)[i] = IF i < 1 THEN q[i] ELSE q[i + 1]
  BY <1>1, <1>2
<1>4. /\ Head(q) \in Jobs
      /\ \A k \in Jobs \ {Head(q)} : Listed(k) => Listed(k)'
  BY TailListed
<1>5. /\ \A k \in Jobs : job'[k].type = job[k].type =>
            /\ Listed(k)' => Listed(k)
            /\ ListedOnce(k) => ListedOnce(k)'
            /\ k = q[1] /\ ListedOnce(k) => ~Listed(k)'
      /\ Listed(q[1])
  <2> DEFINE r == Tail(q)
  <2>1. /\ 1 \in 1..Len(pending[c]) /\ r \in Seq(Jobs) /\ Len(r) = Len(pending[c]) - 1
        /\ \A i \in 1..Len(r) : r[i] = IF i < 1 THEN pending[c][i] ELSE pending[c][i + 1]
        /\ pending' = [pending EXCEPT ![c] = r]
    BY <1>2, <1>3
  <2> HIDE DEF r
  <2> QED BY <2>1, ShorterList
<1> HIDE DEF q
<1>6. Head(q) = q[1]
  BY <1>2
<1> QED
  BY <1>4, <1>5, <1>6 DEF q

LEMMA RemovedList ==
  ASSUME IInv, NEW c \in Types, NEW n \in 1..Len(pending[c]),
         pending' = [pending EXCEPT ![c] = RemoveAt(pending[c], n)]
  PROVE  LET j == pending[c][n]
         IN  /\ Listed(j)
             /\ \A k \in Jobs : job'[k].type = job[k].type =>
                  /\ Listed(k)' => Listed(k)
                  /\ k # j => (Listed(k) => Listed(k)')
                  /\ ListedOnce(k) => ListedOnce(k)'
                  /\ k = j /\ ListedOnce(k) => ~Listed(k)'
<1> DEFINE q == pending[c]
           r == RemoveAt(q, n)
<1>1. q \in Seq(Jobs) /\ Len(q) \in Nat
  BY LenProperties DEF IInv, TypeOK
<1>2. r \in Seq(Jobs)
  BY <1>1, RemoveAtType
<1>3. Len(r) = Len(q) - 1 /\ \A i \in 1..(Len(q) - 1) : r[i] = IF i < n THEN q[i] ELSE q[i + 1]
  BY <1>1, RemoveAtFields
<1>4. \A k \in Jobs \ {q[n]} : Listed(k) => Listed(k)'
  BY RemoveListed
<1> QED
  BY <1>2, <1>3, <1>4, ShorterList

(* A list with one more job.                                               *)
LEMMA LongerList ==
  ASSUME IInv, NEW j \in Jobs, NEW c \in Types,
         pending' = [pending EXCEPT ![c] = Append(pending[c], j)]
  PROVE  /\ Listed(j)'
         /\ ~Listed(j) /\ job'[j].type = c => ListedOnce(j)'
         /\ \A k \in Jobs \ {j} : job'[k].type = job[k].type =>
              /\ Listed(k)' <=> Listed(k)
              /\ ListedOnce(k) => ListedOnce(k)'
<1> DEFINE q == pending[c]
           n == Len(q) + 1
<1>1. pending \in [Types -> Seq(Jobs)] /\ q \in Seq(Jobs) /\ Len(q) \in Nat
  BY LenProperties DEF IInv, TypeOK
<1>2. /\ Len(Append(q, j)) = n /\ Append(q, j)[n] = j
      /\ \A i \in 1..Len(q) : Append(q, j)[i] = q[i]
  BY <1>1, AppendProperties
<1>3. pending'[c] = Append(q, j) /\ \A b \in Types \ {c} : pending'[b] = pending[b]
  BY <1>1
<1>4. n \in 1..n /\ n \notin 1..Len(q) /\ \A i \in 1..n : i \in 1..Len(q) \/ i = n
  BY <1>1
<1>5. \A i \in 1..Len(q) : i \in 1..n
  BY <1>1
<1> HIDE DEF q, n
<1>6. \A b \in Types : \A i \in 1..Len(pending'[b]) :
        \/ i \in 1..Len(pending[b]) /\ pending'[b][i] = pending[b][i]
        \/ b = c /\ i = n /\ pending'[b][i] = j
  BY <1>2, <1>3, <1>4 DEF q
<1>7. \A b \in Types : \A i \in 1..Len(pending[b]) :
        i \in 1..Len(pending'[b]) /\ pending'[b][i] = pending[b][i]
  BY <1>2, <1>3, <1>5 DEF q
<1>8. Listed(j)'
  BY <1>2, <1>3, <1>4 DEF Listed
<1>9. ~Listed(j) /\ job'[j].type = c => ListedOnce(j)'
  BY <1>6 DEF Listed, ListedOnce
<1>10. ASSUME NEW k \in Jobs \ {j}, job'[k].type = job[k].type
       PROVE  /\ Listed(k)' <=> Listed(k)
              /\ ListedOnce(k) => ListedOnce(k)'
  <2>1. \A b \in Types : \A i \in 1..Len(pending'[b]) :
          pending'[b][i] = k => i \in 1..Len(pending[b]) /\ pending[b][i] = k
    BY <1>6, <1>10
  <2>2. Listed(k)' <=> Listed(k)
    BY <1>7, <2>1 DEF Listed
  <2>3. ListedOnce(k) => ListedOnce(k)'
    BY <1>10, <2>1 DEF ListedOnce
  <2> QED
    BY <2>2, <2>3
<1> QED
  BY <1>8, <1>9, <1>10

-----------------------------------------------------------------------------
(* Steps that move one job.                                                *)

(* No frame but t's holds j.                                               *)
Alone(t, j) == \A u \in Threads : \A l \in Levels(u) :
  Holds(Level(u, l), j) => u = t /\ l = Height(t)

LEMMA HoldsTop ==
  ASSUME IInv, LInv, NEW t \in Threads, NEW j \in Jobs, Holds(fr[t], j)
  PROVE  /\ HolderOK(fr[t], j) /\ Held(j) /\ ~Listed(j) /\ ~Handed(j)
         /\ ~job[j].depFailed => Alone(t, j)
<1>1. Height(t) \in Levels(t) /\ Level(t, Height(t)) = fr[t]
  BY LevelTypes
<1>2. Held(j) /\ HolderOK(fr[t], j)
  BY <1>1 DEF Held, LInv, JobFacts, PlaceOK
<1>3. ASSUME ~job[j].depFailed
      PROVE  Alone(t, j)
  BY <1>1, <1>3 DEF LInv, JobFacts, OnePlace, HeldOnce, Alone
<1> QED
  BY <1>2, <1>3 DEF LInv, JobFacts, OnePlace

LEMMA HeldNowhere ==
  ASSUME LInv, NEW t \in Threads, NEW j \in Jobs, Listed(j) \/ Handed(j)
  PROVE  Alone(t, j) /\ Runnable(j) /\ (Listed(j) => ~Handed(j))
BY DEF LInv, JobFacts, OnePlace, PlaceOK, Alone, Held

(* j is held by at most one of the new frames, and by no list or wake.     *)
LEMMA NowHeld ==
  ASSUME IInv, LInv, NEW t \in Threads, NEW S, NEW T, Moves(t, S, T), NEW j \in Jobs,
         ~job[j].depFailed => /\ Alone(t, j)
                              /\ (\A f \in S : ~Holds(f, j)) \/ (\A f \in T : ~Holds(f, j)),
         \A f \in S \cup T : Holds(f, j) => HolderOK(f, j)',
         job[j].depFailed => job'[j].depFailed,
         job[j].made # "no" => job'[j].made # "no",
         ~Listed(j)', ~Handed(j)'
  PROVE  PlaceOK(j)' /\ OnePlace(j)'
<1>1. CASE ~job[j].depFailed
  <2>1. \A u \in Threads : \A l \in Levels(u)' : Holds(Level(u, l)', j) =>
           /\ u = t
           /\ \/ l = Height(t) /\ Level(u, l)' \in S
              \/ l = Height(t) + 1 /\ Level(u, l)' \in T
    BY <1>1, FramesAfter DEF Alone
  <2>2. HeldOnce(j)'
    BY <1>1, <2>1 DEF HeldOnce
  <2>3. PlaceOK(j)'
    BY <2>1 DEF PlaceOK
  <2> QED
    BY <2>2, <2>3 DEF OnePlace, ListedOnce, Listed, HandedOnce, Handed
<1>2. CASE job[j].depFailed
  <2>1. \A f : HolderOK(f, j) => HolderOK(f, j)'
    BY <1>2 DEF HolderOK
  <2>2. ASSUME NEW u \in Threads, NEW l \in Levels(u)', Holds(Level(u, l)', j)
        PROVE  HolderOK(Level(u, l), j)'
    <3>1. CASE l \in Levels(u) /\ Level(u, l)' = Level(u, l)
      <4>1. HolderOK(Level(u, l), j)
        BY <2>2, <3>1 DEF LInv, JobFacts, PlaceOK
      <4> QED
        BY <2>1, <3>1, <4>1
    <3>2. CASE Level(u, l)' \in S \cup T
      BY <2>2, <3>2
    <3> QED
      BY <3>1, <3>2 DEF Moves
  <2>3. PlaceOK(j)'
    BY <2>2 DEF PlaceOK
  <2> QED
    BY <1>2, <2>3 DEF OnePlace, ListedOnce, Listed, HandedOnce, Handed
<1> QED
  BY <1>1, <1>2

(* j is in a list, or handed to a thread, and held by no frame.            *)
LEMMA NowElsewhere ==
  ASSUME IInv, NEW t \in Threads, NEW S, NEW T, Moves(t, S, T), NEW j \in Jobs,
         Alone(t, j), \A f \in S \cup T : ~Holds(f, j), Runnable(j)',
         ListedOnce(j)', HandedOnce(j)', ~Listed(j)' \/ ~Handed(j)'
  PROVE  PlaceOK(j)' /\ OnePlace(j)'
<1>1. \A u \in Threads : \A l \in Levels(u)' : ~Holds(Level(u, l)', j)
  BY FramesAfter DEF Alone
<1>2. ~Held(j)' /\ HeldOnce(j)'
  BY <1>1 DEF Held, HeldOnce
<1> QED
  BY <1>1, <1>2 DEF PlaceOK, OnePlace

(* A step of t that moves at most the job j.                               *)
LEMMA StepKeeps ==
  ASSUME IInv, LInv, NEW t \in Threads, NEW S, NEW T, Moves(t, S, T), NEW j,
         \A f \in S \cup T : f.op \notin {"created", "wake"},
         SameGraph, \A k \in Jobs : job'[k].runs = job[k].runs \/ DepsDone(k),
         isClosing => isClosing', \A u \in Threads : WokenOK(u)',
         \A k \in Jobs \ {j} : SameState(k) /\ Fewer(k) /\ (Listed(k) => Listed(k)'),
         j \in Jobs => PlaceOK(j)' /\ OnePlace(j)' /\ StateOK(j)'
  PROVE  LInv'
<1>1. \A k \in Jobs : job[k].completed => job'[k].completed
  BY DEF SameGraph
<1>2. \A u \in Threads : LevelsOK(u)'
  BY <1>1, LevelsKept
<1>3. \A k \in Jobs : LinksOK(k)'
  BY LinksKept DEF LInv, JobFacts
<1>4. ASSUME NEW k \in Jobs \ {j}
      PROVE  PlaceOK(k)' /\ OnePlace(k)' /\ StateOK(k)'
  BY PlaceKept, StateKept DEF LInv, JobFacts, SameGraph
<1> QED
  BY <1>2, <1>3, <1>4 DEF LInv, JobFacts

(* A step of a thread that is awake, touches no wake and leaves j, if it   *)
(* moves a job at all, in its own frames.                                  *)
LEMMA HoldStep ==
  ASSUME IInv, LInv, NEW t \in Threads, NEW S, NEW T, Moves(t, S, T), NEW j,
         fr[t].op # "asleep", wti' = wti,
         \A f \in S \cup T : f.op \notin {"created", "wake"},
         SameGraph, \A k \in Jobs : job'[k].runs = job[k].runs \/ DepsDone(k),
         isClosing => isClosing',
         \A k \in Jobs \ {j} :
           /\ SameState(k)
           /\ \A f \in T : ~Holds(f, k)
           /\ \A f \in S : Holds(f, k) => Holds(fr[t], k) /\ SameRole(f, fr[t])
           /\ Listed(k)' <=> Listed(k)
           /\ ListedOnce(k) => ListedOnce(k)',
         j \in Jobs =>
           /\ ~job[j].depFailed => /\ Alone(t, j)
                                   /\ (\A f \in S : ~Holds(f, j)) \/ (\A f \in T : ~Holds(f, j))
           /\ \A f \in S \cup T : Holds(f, j) => HolderOK(f, j)'
           /\ job[j].made # "no" => job'[j].made # "no"
           /\ ~Listed(j)' /\ ~Handed(j) /\ StateOK(j)'
  PROVE  LInv'
<1>1. \A u \in Threads : WokenOK(u)' /\ \A k : HandedTo(u, k)' <=> HandedTo(u, k)
  <2>1. \A k \in Jobs : job[k].completed => job'[k].completed
    BY DEF SameGraph
  <2> QED
    BY <2>1, WokensKept DEF LInv
<1>2. \A k \in Jobs \ {j} : Fewer(k)
  <2>1. ASSUME NEW k \in Jobs \ {j}
        PROVE  FewerFrames(k)
    BY FramesFewer
  <2> QED
    BY <1>1, <2>1 DEF Fewer
<1>3. j \in Jobs => PlaceOK(j)' /\ OnePlace(j)' /\ StateOK(j)'
  <2>1. ASSUME j \in Jobs
        PROVE  PlaceOK(j)' /\ OnePlace(j)'
    <3>1. ~Handed(j)' /\ job'[j].depFailed = job[j].depFailed
      BY <1>1, <2>1 DEF Handed, SameGraph
    <3> QED
      BY <2>1, <3>1, NowHeld
  <2> QED
    BY <2>1
<1> QED
  BY <1>1, <1>2, <1>3, StepKeeps

(* Changes to a job that leave its dependencies and its end alone.         *)
LEMMA FieldsKept ==
  ASSUME IInv, NEW j \in Jobs, job[j].made # "no",
         \/ job' = [job EXCEPT ![j].queued = TRUE]
         \/ job' = [job EXCEPT ![j].started = TRUE]
         \/ job' = [job EXCEPT ![j].queued = TRUE, ![j].started = TRUE]
         \/ job' = [job EXCEPT ![j].runner = FALSE]
         \/ job' = [job EXCEPT ![j].runs = @ + 1]
         \/ job' = [job EXCEPT ![j].made = "yes"]
         \/ job' = [job EXCEPT ![j].signaler = "done"]
  PROVE  /\ SameGraph
         /\ \A k \in Jobs \ {j} : SameState(k) /\ job'[k] = job[k]
         /\ job'[j].made # "no" /\ job'[j].type = job[j].type
<1>1. job \in [Jobs -> JobState] /\ job[j] \in JobState
  BY DEF IInv, TypeOK
<1>2. \A k \in Jobs \ {j} : job'[k] = job[k]
  BY <1>1
<1>3. /\ job'[j].deps = job[j].deps /\ job'[j].downs = job[j].downs
      /\ job'[j].completed = job[j].completed /\ job'[j].failed = job[j].failed
      /\ job'[j].depFailed = job[j].depFailed /\ job'[j].numWaiting = job[j].numWaiting
      /\ job'[j].type = job[j].type
      /\ job'[j].made # "no"
  <2>1. CASE job' = [job EXCEPT ![j].queued = TRUE]
    BY <1>1, <2>1 DEF JobState
  <2>2. CASE job' = [job EXCEPT ![j].started = TRUE]
    BY <1>1, <2>2 DEF JobState
  <2>3. CASE job' = [job EXCEPT ![j].queued = TRUE, ![j].started = TRUE]
    BY <1>1, <2>3 DEF JobState
  <2>4. CASE job' = [job EXCEPT ![j].runner = FALSE]
    BY <1>1, <2>4 DEF JobState
  <2>5. CASE job' = [job EXCEPT ![j].runs = @ + 1]
    BY <1>1, <2>5 DEF JobState
  <2>6. CASE job' = [job EXCEPT ![j].made = "yes"]
    BY <1>1, <2>6 DEF JobState
  <2>7. CASE job' = [job EXCEPT ![j].signaler = "done"]
    BY <1>1, <2>7 DEF JobState
  <2> QED
    BY <2>1, <2>2, <2>3, <2>4, <2>5, <2>6, <2>7
<1> QED
  BY <1>2, <1>3 DEF SameGraph, SameState

(* All dependencies of a job that waits for none have succeeded.           *)
LEMMA ReadyJob ==
  ASSUME IInv, LInv, NEW j \in Jobs, ~job[j].depFailed, job[j].numWaiting <= 0
  PROVE  DepsDone(j)
<1>1. IsFiniteSet(Open(j)) /\ Cardinality(Open(j)) \in Nat
  BY JobQueueAssumption, FS_Subset, FS_CardinalityType DEF Open, Downs
<1>2. LinksOK(j) /\ job[j] \in JobState
  BY DEF LInv, JobFacts, IInv, TypeOK
<1>3. Cardinality(Open(j)) = 0
  BY <1>1, <1>2 DEF LinksOK, JobState
<1>4. Open(j) = {}
  BY <1>1, <1>3, FS_EmptySet
<1>5. \A d \in job[j].deps : d \in Jobs
  BY <1>2 DEF JobState
<1> QED
  BY <1>2, <1>4, <1>5 DEF LinksOK, DepsDone, Open, Downs

LEMMA HoldsAre ==
  \A f, k :
    /\ f.op \in {"enter", "run", "publish", "mark", "created"} => (Holds(f, k) <=> k = f.job)
    /\ f.op = "adds" => (Holds(f, k) <=> k \in f.jobs)
    /\ f.op \notin {"enter", "run", "publish", "mark", "created", "adds"} => ~Holds(f, k)
BY DEF Holds, Starts, Adds, Creates

-----------------------------------------------------------------------------
(* JobImpl::Run, and the mark of AddRunnableJob.                           *)

(* t goes on with the job it holds.                                        *)
LEMMA CarriesOn ==
  ASSUME IInv, LInv, NEW t \in Threads, NEW j \in Jobs, fr[t].job = j,
         fr[t].op \in {"enter", "run", "mark"},
         NEW f \in Frame, f.op \in {"run", "publish"}, f.job = j, Proceed(t, <<f>>),
         UNCHANGED <<pending, wti, isClosing>>, HolderOK(f, j)', StateOK(j)',
         SameGraph, \A k \in Jobs \ {j} : SameState(k) /\ job'[k] = job[k],
         job'[j].runs = job[j].runs \/ DepsDone(j),
         job'[j].made # "no"
  PROVE  LInv'
<1>1. Holds(fr[t], j) /\ Holds(f, j) /\ \A k \in Jobs \ {j} : ~Holds(fr[t], k) /\ ~Holds(f, k)
  BY HoldsAre
<1>2. /\ ~Listed(j) /\ ~Handed(j)
      /\ ~job[j].depFailed => Alone(t, j)
  BY <1>1, HoldsTop
<1>3. Moves(t, {f}, {})
  BY MovesAre
<1>4. ~Listed(j)'
  BY <1>2 DEF Listed
<1>5. \A k \in Jobs \ {j} : (Listed(k)' <=> Listed(k)) /\ (ListedOnce(k)' <=> ListedOnce(k))
  BY SameLists
<1>6. \A k \in Jobs : job'[k].runs = job[k].runs \/ DepsDone(k)
  BY DEF SameState
<1> QED
  BY <1>1, <1>2, <1>3, <1>4, <1>5, <1>6, HoldStep

LEMMA RunEnterCarries ==
  ASSUME IInv, LInv, NEW t \in Threads, RunEnter(t)
  PROVE  LInv'
<1>1. PICK j \in Jobs : j = fr[t].job /\ fr[t].op = "enter"
  BY InvFacts DEF RunEnter, JobOps
<1>2. HolderOK(fr[t], j)
  BY <1>1, HoldsAre, HoldsTop
<1>3. UNCHANGED <<pending, wti, isClosing>>
  BY DEF RunEnter
<1>4. StateOK(j) /\ job[j] \in JobState /\ job \in [Jobs -> JobState] /\ job[j].made # "no"
  BY <1>2, InvFacts DEF LInv, JobFacts, HolderOK
<1>5. CASE /\ job[j].depFailed
           /\ job' = [job EXCEPT ![j].runner = FALSE]
           /\ Proceed(t, <<JobFrame("publish", j, FALSE)>>)
  <2> DEFINE f == JobFrame("publish", j, FALSE)
  <2>1. f \in Frame
    BY FramesOK DEF JobOps
  <2>2. f.op = "publish" /\ f.job = j /\ f.ok = FALSE
    BY DEF JobFrame
  <2>3. Proceed(t, <<f>>)
    BY <1>5
  <2> HIDE DEF f
  <2>4. /\ SameGraph /\ job'[j].made # "no" /\ \A k \in Jobs \ {j} : SameState(k) /\ job'[k] = job[k]
    BY <1>4, <1>5, FieldsKept
  <2>5. /\ job'[j].depFailed /\ job'[j].runs = job[j].runs
        /\ job'[j].signaler = job[j].signaler /\ job'[j].deps = job[j].deps
        /\ job'[j].numWaiting = job[j].numWaiting /\ job'[j].completed = job[j].completed
    <3>1. job'[j] = [job[j] EXCEPT !.runner = FALSE]
      BY <1>4, <1>5
    <3> QED
      BY <1>4, <1>5, <3>1 DEF JobState
  <2>6. HolderOK(f, j)' /\ StateOK(j)'
    BY <1>4, <1>5, <2>2, <2>4, <2>5 DEF HolderOK, StateOK
  <2> QED
    BY <1>1, <1>3, <2>1, <2>2, <2>3, <2>4, <2>5, <2>6, CarriesOn
<1>6. CASE /\ ~job[j].depFailed
           /\ job' = [job EXCEPT ![j].runs = @ + 1]
           /\ Proceed(t, <<JobFrame("run", j, TRUE)>>)
  <2> DEFINE f == JobFrame("run", j, TRUE)
  <2>1. f \in Frame
    BY FramesOK DEF JobOps
  <2>2. f.op = "run" /\ f.job = j
    BY DEF JobFrame
  <2>3. Proceed(t, <<f>>)
    BY <1>6
  <2> HIDE DEF f
  <2>4. /\ SameGraph /\ job'[j].made # "no" /\ \A k \in Jobs \ {j} : SameState(k) /\ job'[k] = job[k]
    BY <1>4, <1>6, FieldsKept
  <2>5. /\ job[j].numWaiting <= 0 /\ Unrun(j)
        /\ DepsDone(j)
    BY <1>1, <1>2, <1>6, ReadyJob DEF HolderOK
  <2>6. /\ ~job'[j].depFailed /\ job'[j].runs = job[j].runs + 1 /\ job[j].runs \in Nat
        /\ job'[j].signaler = job[j].signaler /\ job'[j].numWaiting = job[j].numWaiting
        /\ job[j].numWaiting \in Int /\ job'[j].completed = job[j].completed
        /\ job'[j].queued = job[j].queued /\ job'[j].started = job[j].started
    <3>1. job'[j] = [job[j] EXCEPT !.runs = job[j].runs + 1]
      BY <1>4, <1>6
    <3> QED
      BY <1>4, <1>6, <3>1 DEF JobState
  <2>7. job'[j].runs > 0 /\ ~(job'[j].numWaiting >= 1) /\ job'[j].numWaiting <= 0
    BY <2>5, <2>6
  <2>8. ~job'[j].completed /\ job'[j].signaler = "none"
    BY <2>5, <2>6 DEF Unrun
  <2>9. HolderOK(f, j)'
    BY <2>2, <2>4, <2>6, <2>7, <2>8 DEF HolderOK
  <2>10. Listed(j)' = Listed(j)
    BY <1>3 DEF Listed
  <2>11. StateOK(j)'
    BY <1>3, <1>4, <1>6, <2>5, <2>6, <2>7, <2>8, <2>10 DEF StateOK, Unrun
  <2> QED
    BY <1>1, <1>3, <2>1, <2>2, <2>3, <2>4, <2>5, <2>9, <2>11, CarriesOn
<1>7. CASE ~job[j].depFailed /\ ~job[j].runner
  BY <1>1, <1>2, <1>7 DEF HolderOK, Unrun
<1> QED
  BY <1>1, <1>5, <1>6, <1>7 DEF RunEnter

LEMMA RunnerReturnsCarries ==
  ASSUME IInv, LInv, NEW t \in Threads, NEW ok \in BOOLEAN, RunnerReturns(t, ok)
  PROVE  LInv'
<1>1. PICK j \in Jobs : j = fr[t].job /\ fr[t].op = "run"
  BY InvFacts DEF RunnerReturns, JobOps
<1>2. HolderOK(fr[t], j)
  BY <1>1, HoldsAre, HoldsTop
<1>3. UNCHANGED <<pending, wti, isClosing>>
  BY DEF RunnerReturns
<1>4. StateOK(j) /\ job[j] \in JobState /\ job \in [Jobs -> JobState] /\ job[j].made # "no"
  BY <1>2, InvFacts DEF LInv, JobFacts, HolderOK
<1> DEFINE f == JobFrame("publish", j, ok)
<1>5. f \in Frame
  BY FramesOK DEF JobOps
<1>6. f.op = "publish" /\ f.job = j /\ f.ok = ok
  BY DEF JobFrame
<1>7. Proceed(t, <<f>>) /\ job' = [job EXCEPT ![j].runner = FALSE]
  BY <1>1 DEF RunnerReturns
<1> HIDE DEF f
<1>8. /\ SameGraph /\ job'[j].made # "no" /\ \A k \in Jobs \ {j} : SameState(k) /\ job'[k] = job[k]
  BY <1>4, <1>7, FieldsKept
<1>9. ~job[j].depFailed /\ ~job[j].completed /\ job[j].numWaiting <= 0 /\ job[j].runs > 0
  BY <1>1, <1>2 DEF HolderOK
<1>10. /\ job'[j].depFailed = job[j].depFailed /\ job'[j].runs = job[j].runs
       /\ job'[j].signaler = job[j].signaler /\ job'[j].numWaiting = job[j].numWaiting
       /\ job[j].numWaiting \in Int /\ job'[j].completed = job[j].completed
       /\ job'[j].queued = job[j].queued /\ job'[j].started = job[j].started
       /\ job'[j].deps = job[j].deps
  <2>1. job'[j] = [job[j] EXCEPT !.runner = FALSE]
    BY <1>4, <1>7
  <2> QED
    BY <1>4, <2>1 DEF JobState
<1>11. HolderOK(f, j)'
  BY <1>6, <1>8, <1>9, <1>10 DEF HolderOK
<1>12. Listed(j)' = Listed(j)
  BY <1>3 DEF Listed
<1>13. ~(job'[j].numWaiting >= 1)
  BY <1>9, <1>10
<1>14. StateOK(j)'
  BY <1>3, <1>4, <1>9, <1>10, <1>12, <1>13 DEF StateOK
<1> QED
  BY <1>1, <1>3, <1>5, <1>6, <1>7, <1>8, <1>10, <1>11, <1>14, CarriesOn

LEMMA AddMarksStartedCarries ==
  ASSUME IInv, LInv, NEW t \in Threads, AddMarksStarted(t)
  PROVE  LInv'
<1>1. PICK j \in Jobs : j = fr[t].job /\ fr[t].op = "mark"
  BY InvFacts DEF AddMarksStarted, JobOps
<1>2. HolderOK(fr[t], j)
  BY <1>1, HoldsAre, HoldsTop
<1>3. UNCHANGED <<pending, wti, isClosing>>
  BY DEF AddMarksStarted
<1>4. StateOK(j) /\ job[j] \in JobState /\ job \in [Jobs -> JobState] /\ job[j].made # "no"
  BY <1>2, InvFacts DEF LInv, JobFacts, HolderOK
<1> DEFINE f == JobFrame("publish", j, FALSE)
<1>5. f \in Frame
  BY FramesOK DEF JobOps
<1>6. f.op = "publish" /\ f.job = j /\ f.ok = FALSE
  BY DEF JobFrame
<1>7. Proceed(t, <<f>>) /\ job' = [job EXCEPT ![j].started = TRUE]
  BY <1>1 DEF AddMarksStarted
<1> HIDE DEF f
<1>8. /\ SameGraph /\ job'[j].made # "no" /\ \A k \in Jobs \ {j} : SameState(k) /\ job'[k] = job[k]
  BY <1>4, <1>7, FieldsKept
<1>9. ~job[j].depFailed => isClosing /\ Unrun(j) /\ job[j].numWaiting <= 0
  BY <1>1, <1>2 DEF HolderOK
<1>10. /\ job'[j].depFailed = job[j].depFailed /\ job'[j].runs = job[j].runs
       /\ job'[j].runner = job[j].runner /\ job'[j].completed = job[j].completed
       /\ job'[j].signaler = job[j].signaler /\ job'[j].numWaiting = job[j].numWaiting
       /\ job[j].numWaiting \in Int /\ job'[j].started
       /\ job'[j].deps = job[j].deps
  <2>1. job'[j] = [job[j] EXCEPT !.started = TRUE]
    BY <1>4, <1>7
  <2> QED
    BY <1>4, <2>1 DEF JobState
<1>11. HolderOK(f, j)'
  BY <1>3, <1>6, <1>8, <1>9, <1>10 DEF HolderOK, Unrun
<1>12. ~job[j].depFailed => ~(job'[j].numWaiting >= 1)
  BY <1>9, <1>10
<1>13. StateOK(j)'
  BY <1>4, <1>10, <1>12 DEF StateOK
<1> QED
  BY <1>1, <1>3, <1>5, <1>6, <1>7, <1>8, <1>10, <1>11, <1>13, CarriesOn

-----------------------------------------------------------------------------
(* Steps that move no job.                                                 *)

LEMMA NoneMoved ==
  ASSUME IInv, LInv, NEW t \in Threads, NEW S, NEW T, Moves(t, S, T),
         \A f \in S \cup T : f.op \notin {"created", "wake"},
         \A f \in S : f = fr[t] \/ \A k \in Jobs : ~Holds(f, k),
         \A f \in T : \A k \in Jobs : ~Holds(f, k),
         SameGraph, \A k \in Jobs : SameState(k), pending' = pending, isClosing => isClosing',
         \A u \in Threads : WokenOK(u)' /\ \A k \in Jobs : HandedTo(u, k)' => HandedTo(u, k)
  PROVE  LInv'
<1>1. ASSUME NEW k \in Jobs
      PROVE  SameState(k) /\ Fewer(k) /\ (Listed(k) => Listed(k)')
  <2>1. job'[k].type = job[k].type
    BY DEF SameState
  <2>2. (Listed(k)' <=> Listed(k)) /\ (ListedOnce(k)' <=> ListedOnce(k))
    BY <2>1, SameLists
  <2>3. FewerFrames(k)
    BY FramesFewer DEF SameRole
  <2> QED
    BY <2>2, <2>3 DEF Fewer
<1>2. NoJob \notin Jobs
  BY JobQueueAssumption
<1>3. \A k \in Jobs : job'[k].runs = job[k].runs
  BY DEF SameState
<1> QED
  BY <1>1, <1>2, <1>3, StepKeeps

LEMMA JobsSame ==
  ASSUME job' = job
  PROVE  SameGraph /\ \A k \in Jobs : SameState(k)
BY DEF SameGraph, SameState

(* A step of a thread that is awake, with no job in its new frames.        *)
LEMMA QuietHolds ==
  ASSUME IInv, LInv, NEW t \in Threads, NEW S, NEW T, Moves(t, S, T), fr[t].op # "asleep",
         \A f \in S \cup T : f.op \notin {"created", "wake"},
         \A f \in S : f = fr[t] \/ \A k \in Jobs : ~Holds(f, k),
         \A f \in T : \A k \in Jobs : ~Holds(f, k),
         SameGraph, \A k \in Jobs : SameState(k),
         pending' = pending, wti' = wti, isClosing => isClosing'
  PROVE  LInv'
<1>1. \A k \in Jobs : job[k].completed => job'[k].completed
  BY DEF SameGraph
<1>2. \A u \in Threads : WokenOK(u)' /\ \A k \in Jobs : HandedTo(u, k)' => HandedTo(u, k)
  BY <1>1, WokensKept DEF LInv
<1> QED
  BY <1>2, NoneMoved

(* Frames that hold no job.                                                *)
LEMMA IdleFrames ==
  ASSUME NEW op \in {"client", "return", "waitJob", "asleep"} \cup CloseOps, NEW j, NEW ok
  PROVE  LET f == JobFrame(op, j, ok)
         IN  f.op = op /\ f.ok = ok /\ f.job = j /\ \A k \in Jobs : ~Holds(f, k)
<1>1. JobFrame(op, j, ok).op = op /\ JobFrame(op, j, ok).ok = ok /\ JobFrame(op, j, ok).job = j
  BY DEF JobFrame
<1> QED
  BY <1>1, HoldsAre DEF CloseOps

LEMMA CallHolds ==
  ASSUME IInv, LInv, NEW t \in Threads, InClient(t), NEW f \in Frame, Call(t, f),
         f.op \notin {"created", "wake"}, \A k \in Jobs : ~Holds(f, k),
         UNCHANGED <<job, pending, wti>>, isClosing => isClosing'
  PROVE  LInv'
<1>1. fr[t] \in Frame /\ fr[t].op \in {"client", "run"}
  BY ClientFrame
<1>2. Moves(t, {fr[t]}, {f})
  BY <1>1, MovesAre DEF Call
<1> QED
  BY <1>1, <1>2, JobsSame, QuietHolds

LEMMA CallWaitForJobHolds ==
  ASSUME IInv, LInv, NEW t \in Threads, NEW j \in Jobs, CallWaitForJob(t, j)
  PROVE  LInv'
<1> DEFINE f == JobFrame("waitJob", j, TRUE)
<1>1. f \in Frame
  BY FramesOK DEF JobOps
<1>2. f.op = "waitJob"
  BY DEF JobFrame
<1>3. InClient(t) /\ Call(t, f) /\ UNCHANGED <<job, pending, wti, isClosing>>
  BY DEF CallWaitForJob
<1> HIDE DEF f
<1>4. \A k \in Jobs : ~Holds(f, k)
  BY <1>2, HoldsAre
<1> QED
  BY <1>1, <1>2, <1>3, <1>4, CallHolds

LEMMA CallCloseHolds ==
  ASSUME IInv, LInv, NEW t \in Threads, CallClose(t)
  PROVE  LInv'
<1> DEFINE f == JobFrame("closePop", NoJob, TRUE)
<1>1. f \in Frame
  BY FramesOK DEF OtherOps
<1>2. f.op = "closePop"
  BY DEF JobFrame
<1>3. InClient(t) /\ Call(t, f) /\ UNCHANGED <<job, pending, wti>> /\ isClosing'
  BY DEF CallClose
<1> HIDE DEF f
<1>4. \A k \in Jobs : ~Holds(f, k)
  BY <1>2, HoldsAre
<1> QED
  BY <1>1, <1>2, <1>3, <1>4, CallHolds

LEMMA CreateReturnsHolds ==
  ASSUME IInv, DInv, LInv, NEW t \in Threads, CreateReturns(t)
  PROVE  LInv'
<1>1. PICK j \in Jobs : j = fr[t].job /\ fr[t].op = "return" /\ ~Base(fr[t])
  BY InvFacts DEF CreateReturns, JobOps
<1>2. job[j].made # "no"
  BY <1>1, InvFacts DEF DInv, MakesOK, Somewhere
<1>3. /\ job' = [job EXCEPT ![j].made = "yes"] /\ Proceed(t, <<>>)
      /\ UNCHANGED <<pending, wti, isClosing>>
  BY <1>1 DEF CreateReturns
<1>4. Moves(t, {}, {})
  BY <1>1, <1>3, MovesAre
<1>5. /\ SameGraph /\ job'[j].made # "no" /\ \A k \in Jobs \ {j} : SameState(k)
  BY <1>2, <1>3, FieldsKept
<1>6. job[j] \in JobState /\ job'[j] = [job[j] EXCEPT !.made = "yes"]
  BY <1>3, InvFacts
<1>7. SameState(j)
  BY <1>2, <1>6 DEF SameState, JobState
<1> QED
  BY <1>1, <1>3, <1>4, <1>5, <1>7, QuietHolds

(* t registers in the rings and goes to sleep.                             *)
LEMMA SleepHolds ==
  ASSUME IInv, LInv, NEW t \in Threads, fr[t].op \in {"client", "waitJob"},
         NEW types, NEW j, NEW ok, JobFrame("asleep", j, ok) \in Frame,
         Sleep(t, types, j, JobFrame("asleep", j, ok)), isClosing' = isClosing
  PROVE  LInv'
<1> DEFINE f == JobFrame("asleep", j, ok)
<1>1. f.op = "asleep" /\ \A k \in Jobs : ~Holds(f, k)
  BY IdleFrames
<1>2. Proceed(t, <<f>>) /\ UNCHANGED <<job, pending>> /\ f \in Frame
      /\ wti' = [wti EXCEPT ![t].catWait = ToSet(types), ![t].jobWait = j]
  BY DEF Sleep
<1> HIDE DEF f
<1>3. Moves(t, {f}, {})
  BY <1>2, MovesAre
<1>4. wti \in [Threads -> WaitInfo]
  BY DEF IInv, TypeOK
<1>5. wti[t].disp = "Invalid"
  BY DEF IInv, WaitOK, Woke
<1>6. \A u \in Threads : wti'[u].disp = wti[u].disp /\ (u # t => wti'[u] = wti[u])
  BY <1>2, <1>4 DEF WaitInfo
<1>7. ASSUME NEW u \in Threads
      PROVE  WokenOK(u)' /\ \A k \in Jobs : HandedTo(u, k)' => HandedTo(u, k)
  <2>1. CASE u = t
    BY <1>5, <1>6, <2>1 DEF WokenOK, HandedTo
  <2>2. CASE u # t
    <3>1. wti'[u] = wti[u] /\ fr'[u] = fr[u]
      BY <1>3, <1>6, <2>2 DEF Moves
    <3> QED
      BY <1>2, <3>1, WokenKept DEF LInv, HandedTo
  <2> QED
    BY <2>1, <2>2
<1> QED
  BY <1>1, <1>2, <1>3, <1>7, JobsSame, NoneMoved

LEMMA JobDoneWakeHolds ==
  ASSUME IInv, LInv, NEW t \in Threads, JobDoneWake(t)
  PROVE  LInv'
<1>1. PICK j \in Jobs : j = fr[t].job /\ fr[t].op = "wake" /\ ~Base(fr[t])
  BY InvFacts DEF JobDoneWake, JobOps
<1>2. job[j].completed
  BY <1>1, LevelTypes DEF LInv, LevelsOK
<1>3. Proceed(t, <<>>) /\ UNCHANGED <<job, pending, isClosing>> /\ j # NoJob /\ NoJob \notin Jobs
  BY JobQueueAssumption DEF JobDoneWake
<1>4. Moves(t, {}, {})
  BY <1>1, <1>3, MovesAre
<1>5. ASSUME NEW u \in Threads
      PROVE  WokenOK(u)' /\ \A k \in Jobs : HandedTo(u, k)' => HandedTo(u, k)
  <2>1. CASE wti[u].jobWait = j
    <3>1. wti'[u] = Woken("CompletedByAnotherThread", NoJob)
      BY <1>1, <2>1 DEF JobDoneWake
    <3>2. wti'[u].disp = "CompletedByAnotherThread" /\ wti'[u].job = NoJob
      BY <3>1, WokenFields
    <3>3. fr[u].op = "asleep" /\ fr[u].job = j
      BY <1>3, <2>1 DEF IInv, WaitOK, Linked
    <3>4. fr'[u] = fr[u]
      BY <1>1, <1>4, <3>3 DEF Moves
    <3> QED
      BY <1>2, <1>3, <3>2, <3>3, <3>4 DEF WokenOK, HandedTo
  <2>2. CASE wti[u].jobWait # j
    <3>1. wti'[u] = wti[u]
      BY <1>1, <2>2 DEF JobDoneWake
    <3>2. fr[t].op # "asleep" /\ WokenOK(u)
      BY <1>1 DEF LInv
    <3>3. WokenOK(u)' /\ \A k : HandedTo(u, k)' <=> HandedTo(u, k)
      BY <1>3, <1>4, <3>1, <3>2, WokensKept
    <3> QED
      BY <3>3
  <2> QED
    BY <2>1, <2>2
<1> QED
  BY <1>3, <1>4, <1>5, JobsSame, NoneMoved

-----------------------------------------------------------------------------
(* Close.                                                                  *)

LEMMA CloserMoves ==
  ASSUME IInv, NEW t \in Threads, fr[t].op \in CloseOps
  PROVE  /\ Proceed(t, <<>>) => Moves(t, {}, {})
         /\ \A op \in CloseOps : LET f == JobFrame(op, NoJob, TRUE)
                                 IN  /\ f.op = op /\ f \in Frame
                                     /\ \A k \in Jobs : ~Holds(f, k)
                                     /\ Proceed(t, <<f>>) => Moves(t, {f}, {})
         /\ isClosing /\ fr[t].op # "asleep"
<1>1. ~Base(fr[t]) /\ fr[t].op # "asleep"
  BY DEF Base, CloseOps
<1>2. isClosing
  BY DEF IInv, CloserOK, HasClose
<1>3. ASSUME NEW op \in CloseOps
      PROVE  LET f == JobFrame(op, NoJob, TRUE)
             IN  /\ f.op = op /\ f \in Frame /\ \A k \in Jobs : ~Holds(f, k)
                 /\ Proceed(t, <<f>>) => Moves(t, {f}, {})
  <2> DEFINE f == JobFrame(op, NoJob, TRUE)
  <2>1. f \in Frame
    BY FramesOK DEF OtherOps, CloseOps
  <2>2. f.op = op
    BY DEF JobFrame
  <2> HIDE DEF f
  <2>3. \A k \in Jobs : ~Holds(f, k)
    BY <2>2, HoldsAre DEF CloseOps
  <2>4. Proceed(t, <<f>>) => Moves(t, {f}, {})
    BY <2>1, MovesAre
  <2> QED
    BY <2>1, <2>2, <2>3, <2>4 DEF f
<1>4. Proceed(t, <<>>) => Moves(t, {}, {})
  BY <1>1, MovesAre
<1> QED
  BY <1>1, <1>2, <1>3, <1>4

LEMMA CloseUnlinksHolds ==
  ASSUME IInv, LInv, NEW t \in Threads, CloseUnlinks(t)
  PROVE  LInv'
<1>1. fr[t].op = "closeTerm" /\ "closeWake" \in CloseOps /\ fr[t].op \in CloseOps
  BY DEF CloseUnlinks, CloseOps
<1>2. UNCHANGED <<job, pending, isClosing>> /\ fr[t].op # "asleep"
  BY <1>1 DEF CloseUnlinks
<1>3. CASE Proceed(t, <<>>) /\ UNCHANGED wti
  <2>1. Moves(t, {}, {})
    BY <1>1, <1>3, CloserMoves
  <2> QED
    BY <1>2, <1>3, <2>1, JobsSame, QuietHolds
<1>4. ASSUME NEW v \in Threads, wti[v].catWait # {}, wti' = [wti EXCEPT ![v] = Unlinked],
             Proceed(t, <<JobFrame("closeWake", NoJob, TRUE)>>)
      PROVE  LInv'
  <2> DEFINE f == JobFrame("closeWake", NoJob, TRUE)
  <2>1. Moves(t, {f}, {}) /\ f.op = "closeWake" /\ \A k \in Jobs : ~Holds(f, k)
    BY <1>1, <1>4, CloserMoves
  <2> HIDE DEF f
  <2>2. wti \in [Threads -> WaitInfo]
    BY DEF IInv, TypeOK
  <2>3. ASSUME NEW u \in Threads
        PROVE  WokenOK(u)' /\ \A k \in Jobs : HandedTo(u, k)' => HandedTo(u, k)
    <3>1. CASE u = v
      <4>1. wti'[u].disp = "Invalid"
        BY <1>4, <2>2, <3>1 DEF Unlinked
      <4> QED
        BY <4>1 DEF WokenOK, HandedTo
    <3>2. CASE u # v
      <4>1. wti'[u] = wti[u]
        BY <1>4, <2>2, <3>2
      <4> QED
        BY <1>2, <2>1, <4>1, WokensKept DEF LInv
    <3> QED
      BY <3>1, <3>2
  <2> QED
    BY <1>2, <2>1, <2>3, JobsSame, NoneMoved
<1> QED
  BY <1>1, <1>3, <1>4 DEF CloseUnlinks

LEMMA CloseWakesHolds ==
  ASSUME IInv, LInv, NEW t \in Threads, CloseWakes(t)
  PROVE  LInv'
<1>1. fr[t].op = "closeWake" /\ "closeAck" \in CloseOps /\ fr[t].op \in CloseOps
  BY DEF CloseWakes, CloseOps
<1>2. UNCHANGED <<job, pending, isClosing>> /\ fr[t].op # "asleep" /\ isClosing
  BY <1>1, CloserMoves DEF CloseWakes
<1> DEFINE f == JobFrame("closeAck", NoJob, TRUE)
<1>3. Moves(t, {f}, {}) /\ f.op = "closeAck" /\ \A k \in Jobs : ~Holds(f, k)
  BY <1>1, CloserMoves DEF CloseWakes
<1> HIDE DEF f
<1>4. victim \in Threads /\ wti \in [Threads -> WaitInfo]
      /\ wti' = [wti EXCEPT ![victim].disp = "Terminated"]
  BY <1>1 DEF IInv, VictimOK, TypeOK, CloseWakes
<1>5. ASSUME NEW u \in Threads
      PROVE  WokenOK(u)' /\ \A k \in Jobs : HandedTo(u, k)' => HandedTo(u, k)
  <2>1. CASE u = victim
    <3>1. wti'[u].disp = "Terminated"
      BY <1>4, <2>1 DEF WaitInfo
    <3> QED
      BY <1>2, <3>1 DEF WokenOK, HandedTo
  <2>2. CASE u # victim
    <3>1. wti'[u] = wti[u]
      BY <1>4, <2>2
    <3> QED
      BY <1>2, <1>3, <3>1, WokensKept DEF LInv
  <2> QED
    BY <2>1, <2>2
<1> QED
  BY <1>2, <1>3, <1>5, JobsSame, NoneMoved

LEMMA CloseAwaitsAckHolds ==
  ASSUME IInv, LInv, NEW t \in Threads, CloseAwaitsAck(t)
  PROVE  LInv'
<1>1. fr[t].op = "closeAck" /\ "closeTerm" \in CloseOps /\ fr[t].op \in CloseOps
  BY DEF CloseAwaitsAck, CloseOps
<1> DEFINE f == JobFrame("closeTerm", NoJob, TRUE)
<1>2. Moves(t, {f}, {}) /\ f.op = "closeTerm" /\ \A k \in Jobs : ~Holds(f, k)
  BY <1>1, CloserMoves DEF CloseAwaitsAck
<1> HIDE DEF f
<1>3. UNCHANGED <<job, pending, wti, isClosing>> /\ fr[t].op # "asleep"
  BY <1>1 DEF CloseAwaitsAck
<1> QED
  BY <1>2, <1>3, JobsSame, QuietHolds

-----------------------------------------------------------------------------
(* WaitForWorkOrJob.                                                       *)

(* t takes j out of its list, if j is in one, and goes on to run it.       *)
LEMMA TakeHolds ==
  ASSUME IInv, LInv, NEW t \in Threads, fr[t].op # "asleep", NEW j \in Jobs,
         NEW S, NEW T, Moves(t, S, T),
         \A f \in S \cup T : (f.op = "enter" /\ f.job = j) \/ f.op \in {"client", "waitJob"},
         (\A f \in S : f.op # "enter") \/ (\A f \in T : f.op # "enter"),
         job' = [job EXCEPT ![j].started = TRUE], UNCHANGED <<wti, isClosing>>,
         job[j].made # "no", ~job[j].depFailed => Listed(j), ~Listed(j)',
         \A k \in Jobs \ {j} : (Listed(k)' <=> Listed(k)) /\ (ListedOnce(k) => ListedOnce(k)')
  PROVE  LInv'
<1>1. /\ SameGraph /\ job'[j].made # "no" /\ \A k \in Jobs \ {j} : SameState(k) /\ job'[k] = job[k]
  BY FieldsKept
<1>2. /\ ~job[j].depFailed => Alone(t, j) /\ Runnable(j)
      /\ ~Handed(j)
  <2>1. Handed(j) => ~job[j].depFailed
    BY DEF LInv, JobFacts, PlaceOK, Runnable
  <2> QED
    BY <2>1, HeldNowhere
<1>3. job[j] \in JobState /\ job \in [Jobs -> JobState] /\ StateOK(j)
  BY InvFacts DEF LInv, JobFacts
<1>4. /\ job'[j].depFailed = job[j].depFailed /\ job'[j].runs = job[j].runs
      /\ job'[j].runner = job[j].runner /\ job'[j].completed = job[j].completed
      /\ job'[j].signaler = job[j].signaler /\ job'[j].numWaiting = job[j].numWaiting
      /\ job[j].numWaiting \in Int /\ job'[j].started
      /\ job'[j].deps = job[j].deps
  <2>1. job'[j] = [job[j] EXCEPT !.started = TRUE]
    BY <1>3
  <2> QED
    BY <1>3, <2>1 DEF JobState
<1>5. ~job[j].depFailed => /\ job[j].numWaiting <= 0 /\ ~(job'[j].numWaiting >= 1)
                           /\ Unrun(j)
  BY <1>2, <1>4 DEF Runnable
<1>6. \A f : f.op = "enter" => HolderOK(f, j)'
  BY <1>1, <1>4, <1>5 DEF HolderOK, Unrun
<1>7. StateOK(j)'
  BY <1>3, <1>4, <1>5 DEF StateOK
<1>8. \A f \in S \cup T, k \in Jobs : Holds(f, k) => k = j /\ f.op = "enter"
  BY HoldsAre
<1>9. \A f \in S \cup T : f.op \notin {"created", "wake"}
  OBVIOUS
<1>10. \A k \in Jobs : job'[k].runs = job[k].runs
  BY <1>1, <1>4
<1> QED
  BY <1>1, <1>2, <1>6, <1>7, <1>8, <1>9, <1>10, HoldStep

LEMMA EnterFrame ==
  ASSUME NEW j \in Jobs
  PROVE  LET f == JobFrame("enter", j, TRUE)
         IN  f \in Frame /\ f.op = "enter" /\ f.job = j
<1>1. JobFrame("enter", j, TRUE) \in Frame
  BY FramesOK DEF JobOps
<1> QED
  BY <1>1 DEF JobFrame

LEMMA TakePendingHolds ==
  ASSUME IInv, LInv, NEW t \in Threads, fr[t].op # "asleep",
         NEW types \in Seq(Types), NEW rest \in Frame, rest.op \in {"client", "waitJob"},
         TakePending(t, types, <<rest>>), isClosing' = isClosing
  PROVE  LInv'
<1>1. PICK i \in DOMAIN types :
        LET j == Head(pending[types[i]])
        IN  /\ FirstPending(types, i)
            /\ pending' = [pending EXCEPT ![types[i]] = Tail(pending[types[i]])]
            /\ job' = [job EXCEPT ![j].started = TRUE]
            /\ Proceed(t, <<JobFrame("enter", j, TRUE)>> \o <<rest>>)
            /\ UNCHANGED wti
  BY DEF TakePending
<1>2. PICK c \in Types : c = types[i]
  BY ElementOfSeq
<1>3. pending[c] # <<>> /\ pending' = [pending EXCEPT ![c] = Tail(pending[c])]
  BY <1>1, <1>2 DEF FirstPending
<1>4. PICK j \in Jobs : j = Head(pending[c])
  BY <1>3, TailListed
<1> DEFINE f == JobFrame("enter", j, TRUE)
<1>5. f \in Frame /\ f.op = "enter" /\ f.job = j
  BY EnterFrame
<1>6. Proceed(t, <<f, rest>>)
  BY <1>1, <1>2, <1>4, Concats
<1> HIDE DEF f
<1>7. Moves(t, {rest}, {f})
  BY <1>5, <1>6, MovesAre
<1>8. job' = [job EXCEPT ![j].started = TRUE] /\ UNCHANGED <<wti, isClosing>>
  BY <1>1, <1>2, <1>4
<1>9. Listed(j)
  BY <1>3, <1>4, TailList
<1>10. Runnable(j) /\ job[j].made # "no"
  BY <1>9, HeldNowhere DEF Runnable
<1>11. \A k \in Jobs : job'[k].type = job[k].type
  <2>1. job'[j].type = job[j].type /\ \A k \in Jobs \ {j} : job'[k] = job[k]
    BY <1>8, <1>10, FieldsKept
  <2> QED
    BY <2>1
<1>12. \A k \in Jobs : ListedOnce(k)
  BY DEF LInv, JobFacts, OnePlace
<1>13. ~Listed(j)' /\ \A k \in Jobs \ {j} : (Listed(k)' <=> Listed(k)) /\ (ListedOnce(k) => ListedOnce(k)')
  BY <1>3, <1>4, <1>11, <1>12, TailList
<1> QED
  BY <1>5, <1>7, <1>8, <1>9, <1>10, <1>13, TakeHolds

LEMMA TakeSpecifiedHolds ==
  ASSUME IInv, LInv, NEW t \in Threads, fr[t].op = "waitJob", NEW j \in Jobs,
         job[j].made # "no", job[j].queued, ~job[j].started, ~job[j].completed, ~isClosing,
         TakeSpecified(t, j), isClosing' = isClosing
  PROVE  LInv'
<1> DEFINE f == JobFrame("enter", j, TRUE)
<1>1. f \in Frame /\ f.op = "enter" /\ f.job = j
  BY EnterFrame
<1>2. Proceed(t, <<f>>) /\ job' = [job EXCEPT ![j].started = TRUE] /\ UNCHANGED wti
  BY DEF TakeSpecified
<1> HIDE DEF f
<1>3. Moves(t, {f}, {})
  BY <1>1, <1>2, MovesAre
<1>4. ~job[j].depFailed => Listed(j)
  BY DEF LInv, JobFacts, StateOK
<1>5. \A k \in Jobs : ListedOnce(k) /\ (Listed(k) => ~job[k].depFailed)
  BY DEF LInv, JobFacts, OnePlace, PlaceOK, Runnable
<1>6. \A k \in Jobs : job'[k].type = job[k].type
  <2>1. job'[j].type = job[j].type /\ \A k \in Jobs \ {j} : job'[k] = job[k]
    BY <1>2, FieldsKept
  <2> QED
    BY <2>1
<1>7. PICK c \in Types : c = job[j].type
  BY DEF IInv, TypeOK, JobState
<1>8. pending[c] \in Seq(Jobs) /\ DOMAIN pending[c] = 1..Len(pending[c])
  BY LenProperties DEF IInv, TypeOK
<1>9. ~Listed(j)' /\ \A k \in Jobs \ {j} : (Listed(k)' <=> Listed(k)) /\ (ListedOnce(k) => ListedOnce(k)')
  <2>1. ASSUME NEW i \in DOMAIN pending[c], pending[c][i] = j,
               pending' = [pending EXCEPT ![c] = RemoveAt(pending[c], i)]
        PROVE  ~Listed(j)' /\ \A k \in Jobs \ {j} : (Listed(k)' <=> Listed(k)) /\ (ListedOnce(k) => ListedOnce(k)')
    BY <1>5, <1>6, <1>8, <2>1, RemovedList
  <2>2. ASSUME \A i \in DOMAIN pending[c] : pending[c][i] # j, pending' = pending
        PROVE  ~Listed(j)' /\ \A k \in Jobs \ {j} : (Listed(k)' <=> Listed(k)) /\ (ListedOnce(k) => ListedOnce(k)')
    <3>1. ~Listed(j)
      BY <1>5, <1>7, <1>8, <2>2 DEF ListedOnce, Listed
    <3> QED
      BY <1>6, <2>2, <3>1, SameLists
  <2> QED
    BY <1>7, <2>1, <2>2 DEF TakeSpecified
<1> QED
  BY <1>1, <1>2, <1>3, <1>4, <1>9, TakeHolds

LEMMA ClientFrames ==
  \A ok \in BOOLEAN : /\ Client(ok) \in Frame /\ Client(ok).op = "client"
                      /\ \A k \in Jobs : ~Holds(Client(ok), k)
<1>1. \A ok \in BOOLEAN : Client(ok) \in Frame /\ Client(ok).op = "client"
  BY FramesOK DEF Client, JobFrame
<1> QED
  BY <1>1, HoldsAre

LEMMA WaitForWorkHolds ==
  ASSUME IInv, LInv, NEW t \in Threads, NEW b \in BOOLEAN, WaitForWork(t, b)
  PROVE  LInv'
<1> DEFINE types == WorkTypes[t]
<1>1. fr[t].op = "client" /\ types \in Seq(Types) /\ isClosing' = isClosing
  BY ThreadTypes DEF WaitForWork
<1>2. CASE Proceed(t, <<Client(FALSE)>>) /\ UNCHANGED <<job, pending, wti>>
  <2> DEFINE f == Client(FALSE)
  <2>1. f \in Frame /\ f.op = "client" /\ \A k \in Jobs : ~Holds(f, k)
    BY ClientFrames
  <2> HIDE DEF f
  <2>2. Moves(t, {f}, {})
    BY <1>2, <2>1, MovesAre DEF f
  <2> QED
    BY <1>1, <1>2, <2>1, <2>2, JobsSame, QuietHolds
<1>3. CASE TakePending(t, types, <<Client(TRUE)>>)
  <2>1. Client(TRUE) \in Frame /\ Client(TRUE).op = "client"
    BY ClientFrames
  <2> QED
    BY <1>1, <1>3, <2>1, TakePendingHolds
<1>4. CASE Sleep(t, types, NoJob, JobFrame("asleep", NoJob, TRUE))
  <2>1. JobFrame("asleep", NoJob, TRUE) \in Frame
    BY FramesOK DEF OtherOps
  <2> QED
    BY <1>1, <1>4, <2>1, SleepHolds
<1> QED
  BY <1>2, <1>3, <1>4 DEF WaitForWork

LEMMA WaitForJobHolds ==
  ASSUME IInv, LInv, NEW t \in Threads, WaitForJob(t)
  PROVE  LInv'
<1> DEFINE types == IdleTypes[t]
<1>1. PICK j \in Jobs : j = fr[t].job
  BY InvFacts DEF WaitForJob, JobOps
<1>2. /\ fr[t].op = "waitJob" /\ fr[t] \in Frame /\ ~Base(fr[t])
      /\ types \in Seq(Types) /\ isClosing' = isClosing
  BY InvFacts, ThreadTypes DEF WaitForJob, JobOps
<1>3. job[j].made # "no"
  <2>1. j # NoJob
    BY JobQueueAssumption
  <2> QED
    BY <1>1, <1>2, <2>1, InvFacts DEF WaitsForMade
<1>4. CASE Proceed(t, <<>>) /\ UNCHANGED <<job, pending, wti>>
  <2>1. Moves(t, {}, {})
    BY <1>2, <1>4, MovesAre
  <2> QED
    BY <1>2, <1>4, <2>1, JobsSame, QuietHolds
<1>5. ASSUME NEW s, NEW ok \in BOOLEAN, Sleep(t, s, j, JobFrame("asleep", j, ok))
      PROVE  LInv'
  <2>1. JobFrame("asleep", j, ok) \in Frame
    BY FramesOK DEF OtherOps
  <2> QED
    BY <1>2, <1>5, <2>1, SleepHolds
<1>6. CASE ~isClosing /\ ~job[j].completed /\ ~job[j].started /\ job[j].queued /\ TakeSpecified(t, j)
  BY <1>2, <1>3, <1>6, TakeSpecifiedHolds
<1>7. CASE TakePending(t, types, <<fr[t]>>)
  BY <1>2, <1>7, TakePendingHolds
<1>8. CASE Sleep(t, <<>>, j, JobFrame("asleep", j, FALSE))
  BY <1>5, <1>8
<1>9. CASE Sleep(t, types, j, JobFrame("asleep", j, TRUE))
  BY <1>5, <1>9
<1> QED
  BY <1>1, <1>4, <1>6, <1>7, <1>8, <1>9 DEF WaitForJob

LEMMA AwakeHolds ==
  ASSUME IInv, LInv, NEW t \in Threads, Awake(t)
  PROVE  LInv'
<1> DEFINE w     == wti[t]
           enter == JobFrame("enter", w.job, TRUE)
           again == IF fr[t].job = NoJob THEN Client(TRUE) ELSE JobFrame("waitJob", fr[t].job, TRUE)
           given == fr[t].ok /\ w.disp \in {"DequeuedWork", "StartedByThisThread"}
           idle(f) == f.op \in {"client", "waitJob"}
<1>1. /\ fr[t].op = "asleep" /\ fr[t] \in Frame /\ wti' = [wti EXCEPT ![t] = Unlinked]
      /\ UNCHANGED <<job, pending, isClosing>> /\ wti \in [Threads -> WaitInfo]
  BY InvFacts DEF Awake, IInv, TypeOK
<1>2. given => w.job \in Jobs /\ enter \in Frame /\ enter.op = "enter" /\ enter.job = w.job
  <2>1. given => w.job \in Jobs
    BY DEF IInv, WaitOK
  <2> QED
    BY <2>1, EnterFrame
<1>3. /\ again \in Frame /\ idle(again)
      /\ Client(FALSE) \in Frame /\ idle(Client(FALSE))
  <2>1. fr[t].job \in Jobs \cup {NoJob}
    BY <1>1, FramesOK
  <2> QED
    BY <2>1, FramesOK DEF JobOps, JobFrame, Client
<1>4. \E S, T : /\ Moves(t, S, T)
                /\ \A f \in S \cup T : (given /\ f = enter) \/ idle(f)
                /\ (\A f \in S : idle(f)) \/ (\A f \in T : idle(f))
  <2> DEFINE Fine(S, T) == /\ Moves(t, S, T)
                           /\ \A f \in S \cup T : (given /\ f = enter) \/ idle(f)
                           /\ (\A f \in S : idle(f)) \/ (\A f \in T : idle(f))
  <2>1. CASE given /\ w.disp = "DequeuedWork"
    <3>1. Proceed(t, <<enter>> \o <<again>>)
      BY <2>1 DEF Awake
    <3> HIDE DEF enter, again
    <3>2. Proceed(t, <<enter, again>>)
      BY <3>1, Concats
    <3>3. Moves(t, {again}, {enter})
      BY <1>2, <1>3, <2>1, <3>2, MovesAre
    <3>4. Fine({again}, {enter})
      BY <1>3, <2>1, <3>3
    <3> QED
      BY <3>4
  <2>2. CASE given /\ w.disp = "StartedByThisThread"
    <3>1. Proceed(t, <<enter>>)
      BY <2>2 DEF Awake
    <3> HIDE DEF enter
    <3>2. Moves(t, {enter}, {})
      BY <1>2, <2>2, <3>1, MovesAre
    <3>3. Fine({enter}, {})
      BY <2>2, <3>2
    <3> QED
      BY <3>3
  <2>3. CASE ~given
    <3>1. Proceed(t, IF fr[t].job = NoJob THEN <<Client(FALSE)>> ELSE <<>>)
      BY <2>3 DEF Awake
    <3>2. CASE fr[t].job = NoJob
      <4>1. Moves(t, {Client(FALSE)}, {})
        BY <1>3, <3>1, <3>2, MovesAre
      <4> DEFINE c == {Client(FALSE)}
                 none == {}
      <4>2. \A f \in c : idle(f)
        BY <1>3
      <4>3. Moves(t, c, none) /\ \A f \in none : FALSE
        BY <4>1
      <4> HIDE DEF c, none, idle, enter, given
      <4>4. Fine(c, none)
        BY <4>2, <4>3
      <4> QED
        BY <4>4
    <3>3. CASE fr[t].job # NoJob
      <4>1. ~Base(fr[t])
        BY <1>1, <3>3 DEF Base
      <4>2. Moves(t, {}, {})
        BY <3>1, <3>3, <4>1, MovesAre
      <4> DEFINE none == {}
      <4>3. \A f \in none : FALSE
        OBVIOUS
      <4>4. Moves(t, none, none)
        BY <4>2
      <4> HIDE DEF none, idle, enter, given
      <4>5. Fine(none, none)
        BY <4>3, <4>4
      <4> QED
        BY <4>5
    <3> QED
      BY <3>2, <3>3
  <2> QED
    BY <2>1, <2>2, <2>3
<1>5. PICK S, T : /\ Moves(t, S, T)
                  /\ \A f \in S \cup T : (given /\ f = enter) \/ idle(f)
                  /\ (\A f \in S : idle(f)) \/ (\A f \in T : idle(f))
  BY <1>4
<1> HIDE DEF again
<1>6. \A u \in Threads \ {t} : wti'[u] = wti[u] /\ fr'[u] = fr[u]
  BY <1>1, <1>5 DEF Moves
<1>7. wti'[t].disp = "Invalid"
  BY <1>1 DEF Unlinked
<1>8. \A u \in Threads : WokenOK(u)' /\ \A k : HandedTo(u, k)' => u # t /\ HandedTo(u, k)
  <2>1. WokenOK(t)' /\ \A k : ~HandedTo(t, k)'
    BY <1>7 DEF WokenOK, HandedTo
  <2>2. ASSUME NEW u \in Threads \ {t}
        PROVE  WokenOK(u)' /\ \A k : HandedTo(u, k)' => HandedTo(u, k)
    BY <1>1, <1>6, WokenKept DEF LInv, HandedTo
  <2> QED
    BY <2>1, <2>2
<1>9. CASE ~given
  <2>1. \A f \in S \cup T : f.op \notin {"created", "wake"} /\ \A k \in Jobs : ~Holds(f, k)
    BY <1>5, <1>9, HoldsAre
  <2> QED
    BY <1>1, <1>5, <1>8, <2>1, JobsSame, NoneMoved
<1>10. CASE given
  <2>1. PICK j \in Jobs : j = w.job
    BY <1>2, <1>10
  <2>2. HandedTo(t, j)
    BY <1>10, <2>1 DEF HandedTo
  <2>3. Alone(t, j) /\ Runnable(j) /\ ~Listed(j) /\ HandedOnce(j)
    BY <2>2, HeldNowhere DEF Handed, LInv, JobFacts, OnePlace
  <2>4. ~Handed(j)' /\ ~Listed(j)'
    BY <1>1, <1>8, <2>2, <2>3 DEF Handed, HandedOnce, Listed
  <2>5. SameGraph /\ \A k \in Jobs : SameState(k)
    BY <1>1, JobsSame
  <2>6. \A f \in S \cup T, k \in Jobs : Holds(f, k) => k = j /\ f.op = "enter"
    BY <1>2, <1>5, <1>10, <2>1, HoldsAre
  <2>7. \A f : f.op = "enter" => HolderOK(f, j)'
    BY <2>3, <1>1 DEF HolderOK, Runnable, Unrun
  <2>8. PlaceOK(j)' /\ OnePlace(j)'
    BY <1>1, <1>5, <2>3, <2>4, <2>6, <2>7, NowHeld
  <2>9. StateOK(j)'
    BY <1>1, <2>3, <2>5, StateKept DEF LInv, JobFacts
  <2>10. \A f \in S \cup T : f.op \notin {"created", "wake"}
    BY <1>2, <1>5, <1>10
  <2>11. ASSUME NEW k \in Jobs \ {j}
         PROVE  Fewer(k) /\ (Listed(k) => Listed(k)')
    <3>1. FewerFrames(k)
      BY <1>5, <2>6, FramesFewer
    <3>2. (Listed(k)' <=> Listed(k)) /\ (ListedOnce(k)' <=> ListedOnce(k))
      BY <1>1, SameLists
    <3> QED
      BY <1>8, <3>1, <3>2 DEF Fewer
  <2>12. \A k \in Jobs : job'[k].runs = job[k].runs
    BY <1>1
  <2> QED
    BY <1>1, <1>5, <1>8, <2>5, <2>8, <2>9, <2>10, <2>11, <2>12, StepKeeps
<1> QED
  BY <1>9, <1>10

LEMMA CloseAbortsPendingHolds ==
  ASSUME IInv, LInv, NEW t \in Threads, CloseAbortsPending(t)
  PROVE  LInv'
<1>1. /\ fr[t].op = "closePop" /\ "closeTerm" \in CloseOps /\ fr[t].op \in CloseOps
      /\ fr[t] \in Frame
  BY InvFacts DEF CloseAbortsPending, CloseOps
<1>2. UNCHANGED <<job, wti, isClosing>> /\ isClosing /\ fr[t].op # "asleep"
  BY <1>1, CloserMoves DEF CloseAbortsPending
<1>3. \A k \in Jobs : ~Holds(fr[t], k)
  BY <1>1, HoldsAre
<1>4. CASE Proceed(t, <<JobFrame("closeTerm", NoJob, TRUE)>>) /\ UNCHANGED pending
  <2> DEFINE f == JobFrame("closeTerm", NoJob, TRUE)
  <2>1. Moves(t, {f}, {}) /\ f.op = "closeTerm" /\ \A k \in Jobs : ~Holds(f, k)
    BY <1>1, <1>4, CloserMoves
  <2> HIDE DEF f
  <2> QED
    BY <1>2, <1>4, <2>1, JobsSame, QuietHolds
<1>5. ASSUME NEW c \in Types, pending[c] # <<>>,
             pending' = [pending EXCEPT ![c] = Tail(pending[c])],
             Proceed(t, <<JobFrame("publish", Head(pending[c]), FALSE), fr[t]>>)
      PROVE  LInv'
  <2>1. PICK j \in Jobs : j = Head(pending[c])
    BY <1>5, TailListed
  <2> DEFINE f == JobFrame("publish", j, FALSE)
  <2>2. f \in Frame
    BY FramesOK DEF JobOps
  <2>3. f.op = "publish" /\ f.job = j /\ f.ok = FALSE
    BY DEF JobFrame
  <2>4. Proceed(t, <<f, fr[t]>>)
    BY <1>5, <2>1
  <2> HIDE DEF f
  <2>5. Moves(t, {fr[t]}, {f})
    BY <1>1, <2>2, <2>4, MovesAre
  <2>6. \A k \in Jobs : ListedOnce(k) /\ job'[k] = job[k]
    BY <1>2 DEF LInv, JobFacts, OnePlace
  <2>7. /\ Listed(j) /\ ~Listed(j)'
        /\ \A k \in Jobs \ {j} : (Listed(k)' <=> Listed(k)) /\ (ListedOnce(k) => ListedOnce(k)')
    BY <1>5, <2>1, <2>6, TailList
  <2>8. Alone(t, j) /\ Runnable(j) /\ ~Handed(j)
    BY <2>7, HeldNowhere
  <2>9. HolderOK(f, j)'
    BY <1>2, <2>3, <2>8 DEF HolderOK, Runnable, Unrun
  <2>10. StateOK(j)'
    BY <1>2 DEF StateOK, Idle, Unrun, LInv, JobFacts
  <2>11. \A k \in Jobs : Holds(f, k) <=> k = j
    BY <2>3, HoldsAre
  <2> QED
    BY <1>1, <1>2, <1>3, <2>3, <2>5, <2>6, <2>7, <2>8, <2>9, <2>10, <2>11, JobsSame, HoldStep
<1> QED
  BY <1>4, <1>5 DEF CloseAbortsPending

(* A signaler nobody has signaled: the job is nowhere yet.                 *)
LEMMA SignaledJob ==
  ASSUME IInv, LInv, NEW j \in Jobs, job[j].signaler # "none"
  PROVE  /\ job[j].made # "no" /\ ~job[j].depFailed /\ ~Listed(j) /\ ~Handed(j)
         /\ job[j].numWaiting <= 0 /\ job[j].runs = 0 /\ job[j].deps = {}
         /\ job[j].signaler = "held" => ~Held(j) /\ ~job[j].completed
<1>1. LinksOK(j) /\ StateOK(j) /\ PlaceOK(j)
  BY DEF LInv, JobFacts
<1>2. job[j].made # "no"
  BY <1>1 DEF LinksOK, NoJobYet, NewJob
<1>3. job[j].deps = {} /\ job[j].runs = 0 /\ job[j].numWaiting <= 0
  BY <1>1 DEF StateOK
<1>4. ~job[j].depFailed
  BY <1>1, <1>3 DEF LinksOK
<1>5. ~Listed(j) /\ ~Handed(j)
  BY <1>1 DEF PlaceOK, Runnable, Unrun
<1>6. ASSUME job[j].signaler = "held", NEW f, Holds(f, j), HolderOK(f, j)
      PROVE  FALSE
  <2>1. f.op \in {"created", "adds"} => Unrun(j)
    BY <1>4, <1>6 DEF HolderOK, Idle
  <2>2. f.op \in {"enter", "mark"} => Unrun(j)
    BY <1>4, <1>6 DEF HolderOK
  <2>3. f.op \notin {"created", "adds", "enter", "mark"}
    BY <1>6, <2>1, <2>2 DEF Unrun
  <2>4. f.op = "run" => job[j].runs > 0
    BY <1>4, <1>6 DEF HolderOK
  <2>5. f.op = "publish" => job[j].runs > 0
    BY <1>4, <1>6 DEF HolderOK, Unrun
  <2>6. ~(job[j].runs > 0)
    BY <1>3
  <2> QED
    BY <1>6, <2>3, <2>4, <2>5, <2>6 DEF Holds, Starts, Adds, Creates
<1>7. job[j].signaler = "held" => ~Held(j)
  BY <1>1, <1>6 DEF PlaceOK, Held
<1>8. job[j].signaler = "held" => ~job[j].completed
  BY <1>1 DEF StateOK
<1> QED
  BY <1>2, <1>3, <1>4, <1>5, <1>7, <1>8

LEMMA SignalDoneHolds ==
  ASSUME IInv, LInv, NEW t \in Threads, NEW j \in Jobs, NEW ok \in BOOLEAN, SignalDone(t, j, ok)
  PROVE  LInv'
<1>1. fr[t] \in Frame /\ fr[t].op \in {"client", "run"}
  BY ClientFrame DEF SignalDone
<1> DEFINE f == JobFrame("publish", j, ok)
<1>2. f \in Frame
  BY FramesOK DEF JobOps
<1>3. f.op = "publish" /\ f.job = j
  BY DEF JobFrame
<1>4. /\ Proceed(t, <<f, fr[t]>>) /\ job[j].signaler = "held"
      /\ job' = [job EXCEPT ![j].signaler = "done"]
      /\ UNCHANGED <<pending, wti, isClosing>>
  BY DEF SignalDone, Call
<1> HIDE DEF f
<1>5. Moves(t, {fr[t]}, {f})
  BY <1>1, <1>2, <1>4, MovesAre
<1>6. /\ job[j].made # "no" /\ ~job[j].depFailed /\ ~Listed(j) /\ ~Handed(j)
      /\ job[j].numWaiting <= 0 /\ job[j].runs = 0 /\ job[j].deps = {}
      /\ ~Held(j) /\ ~job[j].completed
  BY <1>4, SignaledJob
<1>7. /\ SameGraph /\ job'[j].made # "no" /\ job'[j].type = job[j].type
      /\ \A k \in Jobs \ {j} : SameState(k) /\ job'[k] = job[k]
  BY <1>4, <1>6, FieldsKept
<1>8. /\ ~job'[j].depFailed /\ job'[j].runs = job[j].runs
      /\ ~job'[j].completed
      /\ job'[j].signaler = "done" /\ job'[j].numWaiting = job[j].numWaiting
      /\ job[j].numWaiting \in Int
      /\ job'[j].queued = job[j].queued /\ job'[j].started = job[j].started
      /\ job'[j].deps = {}
  <2>1. job'[j] = [job[j] EXCEPT !.signaler = "done"] /\ job[j] \in JobState
    BY <1>4, InvFacts
  <2> QED
    BY <1>6, <2>1 DEF JobState
<1>9. ~(job'[j].numWaiting >= 1) /\ job'[j].numWaiting <= 0
  BY <1>6, <1>8
<1>10. HolderOK(f, j)'
  BY <1>3, <1>7, <1>8, <1>9 DEF HolderOK
<1>11. StateOK(j)'
  <2>1. StateOK(j) /\ Listed(j)' = Listed(j)
    BY <1>4 DEF LInv, JobFacts, Listed
  <2> QED
    BY <1>4, <1>6, <1>8, <1>9, <2>1 DEF StateOK
<1>12. Alone(t, j) /\ ~Holds(fr[t], j)
  BY <1>6, LevelTypes DEF Alone, Held
<1>13. \A k \in Jobs : Holds(f, k) <=> k = j
  BY <1>3, HoldsAre
<1>14. /\ \A k \in Jobs \ {j} : (Listed(k)' <=> Listed(k)) /\ (ListedOnce(k)' <=> ListedOnce(k))
       /\ ~Listed(j)'
  BY <1>4, <1>6, <1>7, SameLists DEF SameState
<1>15. \A k \in Jobs : job'[k].runs = job[k].runs
  BY <1>7, <1>8
<1> QED
  BY <1>1, <1>3, <1>4, <1>5, <1>6, <1>7, <1>10, <1>11, <1>12, <1>13, <1>14, <1>15, HoldStep DEF SameRole

LEMMA CreatedJobHolds ==
  ASSUME IInv, LInv, NEW t \in Threads, CreatedJob(t)
  PROVE  LInv'
<1>1. PICK j \in Jobs : j = fr[t].job /\ fr[t].op = "created"
  BY InvFacts DEF CreatedJob, JobOps
<1> DEFINE a == AddsFrame({j})
           r == JobFrame("return", j, TRUE)
<1>2. a \in Frame /\ r \in Frame
  BY FramesOK DEF JobOps
<1>3. a.op = "adds" /\ a.jobs = {j} /\ r.op = "return"
  BY DEF AddsFrame, JobFrame
<1>4. UNCHANGED <<job, pending, wti, isClosing>>
  BY DEF CreatedJob
<1>5. Proceed(t, IF job[j].numWaiting = 0 THEN <<a, r>> ELSE <<r>>)
  BY <1>1 DEF CreatedJob
<1> HIDE DEF a, r
<1>6. /\ HolderOK(fr[t], j) /\ ~Listed(j) /\ ~Handed(j)
      /\ ~job[j].depFailed => Alone(t, j)
  BY <1>1, HoldsAre, HoldsTop
<1>7. job[j].numWaiting = 0 => HolderOK(a, j)'
  BY <1>1, <1>3, <1>4, <1>6 DEF HolderOK, Idle, Unrun
<1>8. ~Listed(j)' /\ StateOK(j)'
  BY <1>4, <1>6 DEF Listed, LInv, JobFacts, StateOK, Idle, Unrun
<1>9. \E T \in SUBSET {a} : Moves(t, {r}, T) /\ (T # {} => job[j].numWaiting = 0)
  <2>1. job[j].numWaiting = 0 => Moves(t, {r}, {a})
    BY <1>2, <1>5, MovesAre
  <2>2. job[j].numWaiting # 0 => Moves(t, {r}, {})
    BY <1>2, <1>5, MovesAre
  <2> QED
    BY <2>1, <2>2
<1>10. PICK T \in SUBSET {a} : Moves(t, {r}, T) /\ (T # {} => job[j].numWaiting = 0)
  BY <1>9
<1>11. \A k \in Jobs : ~Holds(r, k) /\ (Holds(a, k) <=> k = j)
  BY <1>3, HoldsAre
<1>12. \A k \in Jobs : (Listed(k)' <=> Listed(k)) /\ (ListedOnce(k)' <=> ListedOnce(k))
  BY <1>4, SameLists
<1>13. /\ \A f \in {r} \cup T : f.op \notin {"created", "wake"} /\ (Holds(f, j) => HolderOK(f, j)')
       /\ \A k \in Jobs \ {j} : \A f \in {r} \cup T : ~Holds(f, k)
       /\ \A f \in {r} : ~Holds(f, j)
  BY <1>3, <1>7, <1>10, <1>11
<1>14. fr[t].op # "asleep" /\ SameGraph /\ \A k \in Jobs : SameState(k)
  BY <1>1, <1>4, JobsSame
<1> QED
  BY <1>4, <1>6, <1>8, <1>10, <1>12, <1>13, <1>14, HoldStep

-----------------------------------------------------------------------------
(* AddRunnableJob.                                                         *)

(* The frames AddRunnableJob of j leaves.                                  *)
LEMMA RestFrame ==
  ASSUME IInv, NEW t \in Threads, fr[t].op = "adds", NEW j \in fr[t].jobs
  PROVE  /\ j \in Jobs /\ ~Base(fr[t])
         /\ \E a \in Frame : /\ a.op = "adds" /\ a.jobs = fr[t].jobs \ {j}
                             /\ RestOfAdds(t, j) = IF fr[t].jobs = {j} THEN <<>> ELSE <<a>>
<1> DEFINE a == AddsFrame(fr[t].jobs \ {j})
<1>1. fr[t] \in Frame /\ fr[t].jobs \subseteq Jobs /\ j \in Jobs /\ ~Base(fr[t])
  BY InvFacts, FramesOK DEF Base
<1>2. a \in Frame
  BY <1>1, FramesOK DEF JobOps
<1>3. a.op = "adds" /\ a.jobs = fr[t].jobs \ {j}
  BY DEF AddsFrame
<1>4. RestOfAdds(t, j) = IF fr[t].jobs = {j} THEN <<>> ELSE <<a>>
  BY DEF RestOfAdds
<1> HIDE DEF a
<1> QED
  BY <1>1, <1>2, <1>3, <1>4

LEMMA RestMoves ==
  ASSUME IInv, NEW t \in Threads, fr[t].op = "adds", NEW j \in fr[t].jobs,
         Proceed(t, RestOfAdds(t, j))
  PROVE  \E S, T : /\ Moves(t, S, T) /\ \A f \in T : FALSE
                  /\ \A f \in S : f.op = "adds" /\ f.jobs = fr[t].jobs \ {j}
<1>1. PICK a \in Frame : /\ a.op = "adds" /\ a.jobs = fr[t].jobs \ {j}
                         /\ RestOfAdds(t, j) = IF fr[t].jobs = {j} THEN <<>> ELSE <<a>>
  BY RestFrame
<1>2. Proceed(t, <<>>) \/ Proceed(t, <<a>>)
  BY <1>1
<1> DEFINE none == {}
           rest == {a}
<1>3. Moves(t, none, none) \/ Moves(t, rest, none)
  BY <1>1, <1>2, MovesAre, RestFrame
<1>4. /\ \A f \in none : FALSE
      /\ \A f \in rest : f.op = "adds" /\ f.jobs = fr[t].jobs \ {j}
  BY <1>1
<1> HIDE DEF none, rest
<1> QED
  BY <1>3, <1>4

(* What AddRunnableJob does to the fields of j.                            *)
LEMMA AddedFields ==
  ASSUME IInv, NEW j \in Jobs, job[j].made # "no", NEW s \in BOOLEAN,
         \/ s = job[j].started /\ job' = [job EXCEPT ![j].queued = TRUE]
         \/ s /\ job' = [job EXCEPT ![j].queued = TRUE, ![j].started = TRUE]
  PROVE  /\ job'[j].depFailed = job[j].depFailed /\ job'[j].runs = job[j].runs
         /\ job'[j].runner = job[j].runner /\ job'[j].completed = job[j].completed
         /\ job'[j].signaler = job[j].signaler /\ job'[j].numWaiting = job[j].numWaiting
         /\ job[j].numWaiting \in Int /\ job'[j].queued /\ job'[j].started = s
         /\ job'[j].deps = job[j].deps /\ job'[j].made = job[j].made
         /\ SameGraph /\ job'[j].type = job[j].type
         /\ \A k \in Jobs \ {j} : SameState(k) /\ job'[k] = job[k]
<1>1. job \in [Jobs -> JobState] /\ job[j] \in JobState
  BY InvFacts DEF IInv, TypeOK
<1>2. \/ s = job[j].started /\ job'[j] = [job[j] EXCEPT !.queued = TRUE]
      \/ s /\ job'[j] = [job[j] EXCEPT !.queued = TRUE, !.started = TRUE]
  BY <1>1
<1>3. /\ job'[j].depFailed = job[j].depFailed /\ job'[j].runs = job[j].runs
      /\ job'[j].runner = job[j].runner /\ job'[j].completed = job[j].completed
      /\ job'[j].signaler = job[j].signaler /\ job'[j].numWaiting = job[j].numWaiting
      /\ job[j].numWaiting \in Int /\ job'[j].queued /\ job'[j].started = s
      /\ job'[j].deps = job[j].deps /\ job'[j].made = job[j].made
  BY <1>1, <1>2 DEF JobState
<1>4. /\ SameGraph /\ job'[j].type = job[j].type
      /\ \A k \in Jobs \ {j} : SameState(k) /\ job'[k] = job[k]
  BY FieldsKept
<1> QED
  BY <1>3, <1>4

LEMMA AddAbortsHolds ==
  ASSUME IInv, LInv, NEW t \in Threads, fr[t].op = "adds", NEW j \in fr[t].jobs,
         AddAborts(t, j), isClosing' = isClosing
  PROVE  LInv'
<1>1. j \in Jobs
  BY RestFrame
<1>2. PICK m \in Frame : m = JobFrame("mark", j, FALSE)
  BY <1>1, FramesOK DEF JobOps
<1>3. j \in Jobs /\ m \in Frame /\ m.op = "mark" /\ m.job = j
  BY <1>1, <1>2 DEF JobFrame
<1>4. Proceed(t, <<m>> \o RestOfAdds(t, j))
  BY <1>2 DEF AddAborts
<1>5. PICK S, T : /\ Moves(t, S, T)
                  /\ \A f \in S : f = m \/ (f.op = "adds" /\ f.jobs = fr[t].jobs \ {j})
                  /\ \A f \in T : f = m
                  /\ (\A f \in S : f.op = "adds") \/ (\A f \in T : FALSE)
  <2>1. PICK a \in Frame : /\ a.op = "adds" /\ a.jobs = fr[t].jobs \ {j}
                           /\ RestOfAdds(t, j) = IF fr[t].jobs = {j} THEN <<>> ELSE <<a>>
    BY RestFrame
  <2>2. <<m>> \o <<>> = <<m>> /\ <<m>> \o <<a>> = <<m, a>>
    BY Concats
  <2>3. Proceed(t, <<m>>) \/ Proceed(t, <<m, a>>)
    BY <1>4, <2>1, <2>2
  <2> DEFINE none == {}
             one  == {m}
             rest == {a}
  <2>4. Moves(t, one, none) \/ Moves(t, rest, one)
    BY <2>1, <2>3, MovesAre
  <2>5. /\ \A f \in none : FALSE
        /\ \A f \in one : f = m
        /\ \A f \in rest : f.op = "adds" /\ f.jobs = fr[t].jobs \ {j}
    BY <2>1
  <2> HIDE DEF none, one, rest
  <2> QED
    BY <2>4, <2>5
<1>6. /\ job[j].depFailed \/ isClosing
      /\ job' = [job EXCEPT ![j].queued = TRUE] /\ UNCHANGED <<pending, wti>>
  BY DEF AddAborts
<1>7. /\ HolderOK(fr[t], j) /\ ~Listed(j) /\ ~Handed(j)
      /\ ~job[j].depFailed => Alone(t, j)
  BY <1>3, <1>5, HoldsAre, HoldsTop
<1>8. job[j].made # "no"
  BY <1>7 DEF HolderOK
<1>9. /\ job'[j].depFailed = job[j].depFailed /\ job'[j].runs = job[j].runs
      /\ job'[j].runner = job[j].runner /\ job'[j].completed = job[j].completed
      /\ job'[j].signaler = job[j].signaler /\ job'[j].numWaiting = job[j].numWaiting
      /\ job[j].numWaiting \in Int
      /\ job'[j].deps = job[j].deps /\ job'[j].made = job[j].made
      /\ SameGraph /\ job'[j].type = job[j].type
      /\ \A k \in Jobs \ {j} : SameState(k) /\ job'[k] = job[k]
  <2>1. job[j].started \in BOOLEAN
    BY <1>3, <1>5, InvFacts DEF JobState
  <2> QED
    BY <1>3, <1>5, <1>6, <1>8, <2>1, AddedFields
<1>10. ~job[j].depFailed => /\ isClosing /\ job[j].numWaiting <= 0 /\ ~(job'[j].numWaiting >= 1)
                           /\ Unrun(j)
  BY <1>6, <1>7, <1>9 DEF HolderOK, Idle
<1>11. HolderOK(m, j)'
  BY <1>3, <1>5, <1>6, <1>8, <1>9, <1>10 DEF HolderOK, Unrun
<1>12. StateOK(j)'
  BY <1>3, <1>5, <1>9, <1>10 DEF StateOK, LInv, JobFacts
<1>13. \A k \in Jobs : /\ Holds(m, k) <=> k = j
                      /\ \A f : f.op = "adds" /\ f.jobs = fr[t].jobs \ {j} /\ Holds(f, k)
                                => k # j /\ Holds(fr[t], k) /\ SameRole(f, fr[t])
  BY <1>3, HoldsAre DEF SameRole
<1>14. /\ \A k \in Jobs \ {j} : (Listed(k)' <=> Listed(k)) /\ (ListedOnce(k)' <=> ListedOnce(k))
       /\ ~Listed(j)'
  BY <1>3, <1>5, <1>6, <1>7, <1>9, SameLists DEF SameState
<1>15. \A k \in Jobs : job'[k].runs = job[k].runs
  BY <1>9
<1>16. /\ \A f \in S \cup T : f.op \notin {"created", "wake"} /\ (Holds(f, j) => HolderOK(f, j)')
       /\ (\A f \in S : ~Holds(f, j)) \/ (\A f \in T : ~Holds(f, j))
       /\ \A k \in Jobs \ {j} :
            /\ \A f \in T : ~Holds(f, k)
            /\ \A f \in S : Holds(f, k) => Holds(fr[t], k) /\ SameRole(f, fr[t])
  BY <1>3, <1>5, <1>11, <1>13
<1> QED
  BY <1>3, <1>5, <1>6, <1>7, <1>9, <1>12, <1>14, <1>15, <1>16, HoldStep

(* A job that is added to a list or handed over.                           *)
LEMMA AddedJob ==
  ASSUME IInv, LInv, NEW t \in Threads, fr[t].op = "adds", NEW j \in fr[t].jobs,
         ~job[j].depFailed
  PROVE  /\ j \in Jobs /\ HolderOK(fr[t], j) /\ job[j].made # "no"
         /\ ~Listed(j) /\ ~Handed(j) /\ Alone(t, j)
         /\ job[j].numWaiting <= 0 /\ Unrun(j)
<1>1. j \in Jobs
  BY InvFacts, FramesOK
<1>2. HolderOK(fr[t], j) /\ ~Listed(j) /\ ~Handed(j) /\ Alone(t, j)
  BY <1>1, HoldsAre, HoldsTop
<1> QED
  BY <1>1, <1>2 DEF HolderOK, Idle

LEMMA AddQueuesHolds ==
  ASSUME IInv, LInv, NEW t \in Threads, fr[t].op = "adds", NEW j \in fr[t].jobs,
         AddQueues(t, j), isClosing' = isClosing
  PROVE  LInv'
<1>1. PICK S, T : /\ Moves(t, S, T) /\ \A f \in T : FALSE
                  /\ \A f \in S : f.op = "adds" /\ f.jobs = fr[t].jobs \ {j}
  <2>1. Proceed(t, RestOfAdds(t, j))
    BY DEF AddQueues
  <2> QED
    BY <2>1, RestMoves
<1>2. /\ ~job[j].depFailed /\ wti' = wti
      /\ job' = [job EXCEPT ![j].queued = TRUE]
      /\ pending' = [pending EXCEPT ![job[j].type] = Append(pending[job[j].type], j)]
  BY DEF AddQueues
<1>3. /\ j \in Jobs /\ HolderOK(fr[t], j) /\ job[j].made # "no"
      /\ ~Listed(j) /\ ~Handed(j) /\ Alone(t, j)
      /\ job[j].numWaiting <= 0 /\ Unrun(j)
  BY <1>2, AddedJob
<1>4. /\ ~job'[j].depFailed /\ job'[j].runs = job[j].runs
      /\ job'[j].runner = job[j].runner /\ job'[j].completed = job[j].completed
      /\ job'[j].signaler = job[j].signaler /\ job'[j].numWaiting = job[j].numWaiting
      /\ job[j].numWaiting \in Int
      /\ job'[j].deps = job[j].deps /\ job'[j].made = job[j].made
      /\ SameGraph /\ job'[j].type = job[j].type
      /\ \A k \in Jobs \ {j} : SameState(k) /\ job'[k] = job[k]
  <2>1. job[j].started \in BOOLEAN
    BY <1>3, InvFacts DEF JobState
  <2> QED
    BY <1>2, <1>3, <2>1, AddedFields
<1>5. PICK c \in Types : c = job[j].type
  BY <1>3, InvFacts DEF JobState
<1>6. /\ Listed(j)' /\ ListedOnce(j)'
      /\ \A k \in Jobs \ {j} : (Listed(k)' <=> Listed(k)) /\ (ListedOnce(k) => ListedOnce(k)')
  BY <1>2, <1>3, <1>4, <1>5, LongerList
<1>7. Runnable(j)' /\ ~(job'[j].numWaiting >= 1)
  BY <1>3, <1>4 DEF Runnable, Unrun
<1>8. StateOK(j)'
  BY <1>3, <1>4, <1>6, <1>7 DEF StateOK, LInv, JobFacts
<1>9. \A k \in Jobs, f \in S : Holds(f, k) => k # j /\ Holds(fr[t], k) /\ SameRole(f, fr[t])
  BY <1>1, HoldsAre DEF SameRole
<1>10. \A u \in Threads : WokenOK(u)' /\ \A k : HandedTo(u, k)' <=> HandedTo(u, k)
  <2>1. \A k \in Jobs : job[k].completed => job'[k].completed
    BY <1>4 DEF SameGraph
  <2> QED
    BY <1>2, <1>1, <2>1, WokensKept DEF LInv
<1>11. ~Handed(j)' /\ HandedOnce(j)'
  BY <1>3, <1>10 DEF Handed, HandedOnce
<1>12. \A f \in S \cup T : f.op \notin {"created", "wake"} /\ ~Holds(f, j)
  BY <1>1, <1>3, <1>9
<1>13. PlaceOK(j)' /\ OnePlace(j)'
  BY <1>3, <1>6, <1>7, <1>1, <1>11, <1>12, NowElsewhere
<1>14. ASSUME NEW k \in Jobs \ {j}
       PROVE  SameState(k) /\ Fewer(k) /\ (Listed(k) => Listed(k)')
  <2>1. FewerFrames(k)
    BY <1>1, <1>9, FramesFewer
  <2> QED
    BY <1>4, <1>6, <1>10, <2>1 DEF Fewer
<1>15. \A k \in Jobs : job'[k].runs = job[k].runs
  BY <1>4
<1> QED
  BY <1>3, <1>4, <1>8, <1>1, <1>10, <1>12, <1>13, <1>14, <1>15, StepKeeps

LEMMA AddHandsOverHolds ==
  ASSUME IInv, DInv, LInv, NEW t \in Threads, fr[t].op = "adds", NEW j \in fr[t].jobs,
         AddHandsOver(t, j), isClosing' = isClosing
  PROVE  LInv'
<1>1. PICK S, T : /\ Moves(t, S, T) /\ \A f \in T : FALSE
                  /\ \A f \in S : f.op = "adds" /\ f.jobs = fr[t].jobs \ {j}
  <2>1. Proceed(t, RestOfAdds(t, j))
    BY DEF AddHandsOver
  <2> QED
    BY <2>1, RestMoves
<1>2. /\ ~job[j].depFailed /\ pending' = pending
      /\ job' = [job EXCEPT ![j].queued = TRUE, ![j].started = TRUE]
  BY DEF AddHandsOver
<1>3. /\ j \in Jobs /\ HolderOK(fr[t], j) /\ job[j].made # "no"
      /\ ~Listed(j) /\ ~Handed(j) /\ Alone(t, j)
      /\ job[j].numWaiting <= 0 /\ Unrun(j)
  BY <1>2, AddedJob
<1>4. /\ ~job'[j].depFailed /\ job'[j].runs = job[j].runs
      /\ job'[j].runner = job[j].runner /\ job'[j].completed = job[j].completed
      /\ job'[j].signaler = job[j].signaler /\ job'[j].numWaiting = job[j].numWaiting
      /\ job[j].numWaiting \in Int /\ job'[j].started
      /\ job'[j].deps = job[j].deps /\ job'[j].made = job[j].made
      /\ SameGraph /\ job'[j].type = job[j].type
      /\ \A k \in Jobs \ {j} : SameState(k) /\ job'[k] = job[k]
  BY <1>2, <1>3, AddedFields
<1>5. ~job[j].started
  BY <1>2, <1>3 DEF HolderOK, Idle
<1>6. PICK u \in Threads, d \in {"StartedByThisThread", "DequeuedWork"} :
        /\ wti' = [wti EXCEPT ![u] = Woken(d, j)]
        /\ wti[u].jobWait = j \/ wti[u].catWait # {}
  <2>1. CASE \E u \in JobWaiters(j) : wti' = [wti EXCEPT ![u] = Woken("StartedByThisThread", j)]
    BY <2>1 DEF JobWaiters
  <2>2. CASE \E u \in Candidates(job[j].type) : wti' = [wti EXCEPT ![u] = Woken("DequeuedWork", j)]
    <3>1. \A c : \A u \in Candidates(c) : u \in Threads /\ wti[u].catWait # {}
      BY DEF Candidates, Specialized
    <3> QED
      BY <2>2, <3>1
  <2> QED
    BY <2>1, <2>2 DEF AddHandsOver
<1>7. wti'[u] = Woken(d, j) /\ \A v \in Threads \ {u} : wti'[v] = wti[v]
  BY <1>6 DEF IInv, TypeOK
<1>8. wti'[u].disp = d /\ wti'[u].job = j
  BY <1>7, WokenFields
<1>9. fr[u].op = "asleep" /\ fr[u].ok /\ u # t
  <2>1. Linked(u)
    BY <1>3, <1>6, JobQueueAssumption DEF Linked
  <2>2. j # NoJob
    BY <1>3, JobQueueAssumption
  <2> QED
    BY <1>5, <1>6, <2>1, <2>2 DEF IInv, WaitOK, DInv, SleeperOK
<1>10. fr'[u] = fr[u]
  BY <1>1, <1>9 DEF Moves
<1>11. \A v \in Threads : WokenOK(v)' /\ \A k : HandedTo(v, k)' <=> (HandedTo(v, k) \/ (v = u /\ k = j))
  <2>1. WokenOK(u)' /\ \A k : HandedTo(u, k)' <=> k = j
    BY <1>6, <1>8, <1>9, <1>10 DEF WokenOK, HandedTo
  <2>2. \A k : ~HandedTo(u, k)
    <3>1. wti[u].disp = "Invalid"
      BY <1>3, <1>6, JobQueueAssumption DEF IInv, WaitOK, Linked, Woke
    <3> QED
      BY <3>1 DEF HandedTo
  <2>3. ASSUME NEW v \in Threads \ {u}
        PROVE  WokenOK(v)' /\ \A k : HandedTo(v, k)' <=> HandedTo(v, k)
    <3>1. \A k \in Jobs : job[k].completed => job'[k].completed
      BY <1>4 DEF SameGraph
    <3> QED
      BY <1>1, <1>7, <3>1, WokensKept DEF LInv
  <2> QED
    BY <2>1, <2>2, <2>3
<1>12. HandedOnce(j)' /\ ~Listed(j)'
  BY <1>2, <1>3, <1>11 DEF Handed, HandedOnce, Listed
<1>13. ListedOnce(j)'
  BY <1>12 DEF ListedOnce, Listed
<1>14. Runnable(j)' /\ ~(job'[j].numWaiting >= 1)
  BY <1>3, <1>4 DEF Runnable, Unrun
<1>15. StateOK(j)'
  BY <1>3, <1>4, <1>14 DEF StateOK, LInv, JobFacts
<1>16. \A k \in Jobs, f \in S : Holds(f, k) => k # j /\ Holds(fr[t], k) /\ SameRole(f, fr[t])
  BY <1>1, HoldsAre DEF SameRole
<1>17. \A f \in S \cup T : f.op \notin {"created", "wake"} /\ ~Holds(f, j)
  BY <1>1, <1>3, <1>16
<1>18. PlaceOK(j)' /\ OnePlace(j)'
  BY <1>1, <1>3, <1>12, <1>13, <1>14, <1>17, NowElsewhere
<1>19. ASSUME NEW k \in Jobs \ {j}
       PROVE  SameState(k) /\ Fewer(k) /\ (Listed(k) => Listed(k)')
  <2>1. FewerFrames(k)
    BY <1>1, <1>16, FramesFewer
  <2>2. (Listed(k)' <=> Listed(k)) /\ (ListedOnce(k)' <=> ListedOnce(k))
    BY <1>2, <1>4, SameLists
  <2> QED
    BY <1>4, <1>11, <2>1, <2>2 DEF Fewer
<1>20. \A k \in Jobs : job'[k].runs = job[k].runs
  BY <1>4
<1> QED
  BY <1>3, <1>4, <1>15, <1>1, <1>11, <1>17, <1>18, <1>19, <1>20, StepKeeps

LEMMA AddRunnableJobHolds ==
  ASSUME IInv, DInv, LInv, NEW t \in Threads, AddRunnableJob(t)
  PROVE  LInv'
BY AddAbortsHolds, AddQueuesHolds, AddHandsOverHolds DEF AddRunnableJob

-----------------------------------------------------------------------------
(* Creating jobs.                                                          *)

(* Nothing refers to a job that is not made yet.                           *)
LEMMA UnmadeJob ==
  ASSUME IInv, DInv, LInv, NEW j \in Jobs, job[j].made = "no"
  PROVE  /\ ~Held(j) /\ ~Listed(j) /\ ~Handed(j)
         /\ job[j] = NoJobYet /\ Downs(j) = {} /\ job[j].downs = {}
<1>1. PlaceOK(j) /\ LinksOK(j)
  BY DEF LInv, JobFacts
<1> QED
  BY <1>1, UnmadeLinks DEF PlaceOK, HolderOK, Runnable, LinksOK, Held

LEMMA CreateSignaledJobHolds ==
  ASSUME IInv, DInv, LInv, NEW t \in Threads, NEW j \in Jobs, CreateSignaledJob(t, j)
  PROVE  LInv'
<1>1. /\ job[j].made = "no" /\ UNCHANGED <<pending, wti, fr, stack, isClosing>>
      /\ job' = [job EXCEPT ![j] = [NewJob(NormalPriority, {}, FALSE) EXCEPT !.made = "yes", !.signaler = "held"]]
  BY DEF CreateSignaledJob
<1>2. /\ ~Held(j) /\ ~Listed(j) /\ ~Handed(j)
      /\ job[j] = NoJobYet /\ Downs(j) = {} /\ job[j].downs = {}
  BY <1>1, UnmadeJob
<1>3. job \in [Jobs -> JobState] /\ \A k \in Jobs \ {j} : job'[k] = job[k]
  BY <1>1 DEF IInv, TypeOK
<1>4. /\ job'[j].made = "yes" /\ job'[j].signaler = "held" /\ job'[j].deps = {}
      /\ job'[j].runs = 0 /\ job'[j].numWaiting = 0 /\ ~job'[j].completed /\ ~job'[j].failed
      /\ ~job'[j].depFailed /\ ~job'[j].queued /\ ~job'[j].started /\ job'[j].downs = {}
  BY <1>1, <1>3 DEF NewJob
<1>5. /\ \A u \in Threads : Height(u)' = Height(u) /\ Levels(u)' = Levels(u)
      /\ \A u, l : Level(u, l)' = Level(u, l)
      /\ \A u, k : HandedTo(u, k)' <=> HandedTo(u, k)
      /\ \A k : Handed(k)' <=> Handed(k)
      /\ \A k : Listed(k)' <=> Listed(k)
      /\ \A k : Held(k)' <=> Held(k)
  BY <1>1 DEF Height, Levels, Level, HandedTo, Handed, Listed, Held
<1>6. ASSUME NEW k \in Jobs
      PROVE  PlaceOK(k)' /\ OnePlace(k)'
  <2>1. CASE k = j
    BY <1>2, <1>5, <2>1 DEF PlaceOK, OnePlace, HeldOnce, ListedOnce, HandedOnce, Held, Listed, Handed
  <2>2. CASE k # j
    <3>1. SameState(k) /\ job'[k].type = job[k].type
      BY <1>3, <2>2 DEF SameState
    <3>2. ListedOnce(k)' <=> ListedOnce(k)
      BY <1>1, <3>1, SameLists
    <3>3. Fewer(k)
      BY <1>5, <3>2 DEF Fewer, FewerFrames, SameRole
    <3> QED
      BY <1>1, <3>1, <3>3, PlaceKept DEF LInv, JobFacts
  <2> QED
    BY <2>1, <2>2
<1>7. ASSUME NEW k \in Jobs
      PROVE  StateOK(k)'
  <2>1. CASE k = j
    BY <1>4, <2>1 DEF StateOK
  <2>2. CASE k # j
    <3>1. SameState(k) /\ job'[k].deps = job[k].deps
      BY <1>3, <2>2 DEF SameState
    <3> QED
      BY <1>1, <1>5, <3>1, StateKept DEF LInv, JobFacts
  <2> QED
    BY <2>1, <2>2
<1>8. ~job[j].completed /\ ~Succeeded(j) /\ ~Succeeded(j)' /\ job[j].deps = {} /\ job[j].failed = FALSE
  BY <1>2, <1>4 DEF NoJobYet, NewJob, Succeeded
<1>9. \A k \in Jobs : Open(k)' = Open(k) /\ (Succeeded(k)' <=> Succeeded(k))
  BY <1>2, <1>3, <1>4, <1>8 DEF Open, Downs, Succeeded
<1>10. ASSUME NEW k \in Jobs
       PROVE  LinksOK(k)'
  <2>1. job[k].deps \subseteq Jobs /\ LinksOK(k)
    BY DEF IInv, TypeOK, JobState, LInv, JobFacts
  <2>2. CASE k = j
    <3>1. Cardinality(Open(k)') = 0
      <4>1. Open(k)' = {}
        BY <1>2, <1>9, <2>2 DEF Open
      <4> QED
        BY <4>1, FS_EmptySet
    <3> QED
      BY <1>4, <1>8, <2>2, <3>1 DEF LinksOK, DepsDone
  <2>3. CASE k # j
    <3>1. job'[k] = job[k]
      BY <1>3, <2>3
    <3>2. DepsDone(k)' <=> DepsDone(k)
      BY <1>9, <2>1, <3>1 DEF DepsDone
    <3>3. \A d \in job[k].deps : /\ job'[d].completed <=> job[d].completed
                                 /\ job'[d].failed <=> job[d].failed
                                 /\ k \in job'[d].downs <=> k \in job[d].downs
      BY <1>2, <1>3, <1>4, <1>8, <2>1
    <3>4. Open(k)' = Open(k)
      BY <1>9
    <3> QED
      BY <1>9, <2>1, <3>1, <3>2, <3>3, <3>4 DEF LinksOK
  <2> QED
    BY <2>2, <2>3
<1>11. ASSUME NEW u \in Threads
       PROVE  LevelsOK(u)' /\ WokenOK(u)'
  <2>1. \A k \in Jobs : job[k].completed => job'[k].completed
    BY <1>3, <1>8
  <2>2. WokenOK(u)'
    BY <1>1, <2>1, WokenKept DEF LInv
  <2>3. LevelsOK(u)'
    <3>1. \A l \in Levels(u) : Level(u, l) \in Frame
      BY LevelTypes
    <3>2. \A l \in Levels(u) : Level(u, l).op = "wake" => Level(u, l).job \in Jobs
      BY <3>1, FramesOK DEF JobOps
    <3> QED
      BY <1>5, <2>1, <3>2 DEF LInv, LevelsOK
  <2> QED
    BY <2>2, <2>3
<1> QED
  BY <1>6, <1>7, <1>10, <1>11 DEF LInv, JobFacts

LEMMA CreateJobHolds ==
  ASSUME IInv, DInv, LInv, NameFailed = FALSE,
         NEW t \in Threads, NEW j \in Jobs, NEW c \in Types, NEW D \in SUBSET Jobs,
         CreateJob(t, j, c, D)
  PROVE  LInv'
<1> DEFINE open == {d \in D : ~job[d].completed}
<1>1. fr[t] \in Frame /\ fr[t].op \in {"client", "run"}
  BY ClientFrame DEF CreateJob
<1>2. PICK f \in Frame : f = JobFrame("created", j, TRUE)
  BY FramesOK DEF JobOps
<1>3. f.op = "created" /\ f.job = j
  BY <1>2 DEF JobFrame
<1>4. /\ Proceed(t, <<f, fr[t]>>) /\ job[j].made = "no" /\ D \subseteq Made
      /\ \A d \in D : ~job[d].failed
      /\ UNCHANGED <<pending, wti, isClosing>>
  BY <1>2 DEF CreateJob, Call
<1>5. /\ ~Held(j) /\ ~Listed(j) /\ ~Handed(j)
      /\ job[j] = NoJobYet /\ Downs(j) = {} /\ job[j].downs = {}
  BY <1>4, UnmadeJob
<1>6. job \in [Jobs -> JobState] /\ \A k \in Jobs : job[k] \in JobState
  BY DEF IInv, TypeOK
<1>7. job' = [k \in Jobs |->
                IF k = j THEN [NewJob(c, D, TRUE) EXCEPT
                                 !.numWaiting = Cardinality(open), !.completed = FALSE, !.failed = FALSE]
                ELSE IF k \in open THEN [job[k] EXCEPT !.downs = job[k].downs \cup {j}]
                ELSE job[k]]
  BY <1>4 DEF CreateJob
<1>8. j \notin D /\ open \subseteq Jobs /\ IsFiniteSet(open) /\ Cardinality(open) \in Nat
  BY <1>4, JobQueueAssumption, FS_Subset, FS_CardinalityType DEF Made
<1> HIDE DEF open
<1>9. /\ job'[j].made = "making" /\ job'[j].signaler = "none" /\ job'[j].deps = D
      /\ job'[j].runs = 0 /\ job'[j].numWaiting = Cardinality(open)
      /\ job'[j].runner /\ ~job'[j].completed /\ ~job'[j].failed
      /\ ~job'[j].depFailed /\ ~job'[j].queued /\ ~job'[j].started /\ job'[j].downs = {}
  BY <1>7 DEF NewJob
<1>10. ASSUME NEW k \in Jobs \ {j}
       PROVE  /\ SameState(k) /\ job'[k].type = job[k].type /\ job'[k].deps = job[k].deps
              /\ job'[k].failed = job[k].failed /\ job'[k].completed = job[k].completed
              /\ job'[k].depFailed = job[k].depFailed /\ job'[k].runs = job[k].runs
              /\ job'[k].numWaiting = job[k].numWaiting
              /\ job'[k].made = "no" => job'[k] = job[k]
              /\ \A d \in Jobs : d \in job'[k].downs <=> (d \in job[k].downs \/ (d = j /\ k \in open))
  <2>1. CASE k \in open
    <3>1. job'[k] = [job[k] EXCEPT !.downs = job[k].downs \cup {j}]
      BY <1>7, <2>1
    <3>2. k \in Made
      BY <1>4, <2>1 DEF open
    <3> QED
      BY <1>6, <2>1, <3>1, <3>2 DEF JobState, SameState, Made
  <2>2. CASE k \notin open
    <3>1. job'[k] = job[k]
      BY <1>7, <2>2
    <3> QED
      BY <2>2, <3>1 DEF SameState
  <2> QED
    BY <2>1, <2>2
<1>11. ~job[j].completed /\ ~job[j].failed /\ job[j].deps = {} /\ ~job[j].depFailed
  BY <1>5 DEF NoJobYet, NewJob
<1>12. Moves(t, {fr[t]}, {f})
  BY <1>1, <1>4, MovesAre
<1>13. /\ Holds(f, j) /\ ~Holds(fr[t], j) /\ Alone(t, j)
       /\ \A k \in Jobs : Holds(f, k) => k = j
  BY <1>3, <1>5, HoldsAre, LevelTypes DEF Alone, Held
<1>14. \A k \in Jobs : job[k].completed => job'[k].completed
  BY <1>10, <1>11
<1>15. \A u \in Threads : WokenOK(u)' /\ \A k : HandedTo(u, k)' <=> HandedTo(u, k)
  BY <1>1, <1>4, <1>12, <1>14, WokensKept DEF LInv
<1>16. \A u \in Threads : LevelsOK(u)'
  BY <1>1, <1>3, <1>12, <1>14, LevelsKept
<1>17. HolderOK(f, j)' /\ StateOK(j)'
  BY <1>3, <1>9 DEF HolderOK, StateOK, Idle, Unrun
<1>18. PlaceOK(j)' /\ OnePlace(j)'
  <2>1. ~Listed(j)' /\ ~Handed(j)'
    BY <1>4, <1>5, <1>15 DEF Listed, Handed
  <2>2. job'[j].made # "no" /\ (job[j].depFailed => job'[j].depFailed)
    BY <1>9, <1>11
  <2> QED
    BY <1>12, <1>13, <1>17, <2>1, <2>2, NowHeld
<1>19. ASSUME NEW k \in Jobs \ {j}
       PROVE  PlaceOK(k)' /\ OnePlace(k)' /\ StateOK(k)'
  <2>1. FewerFrames(k)
    BY <1>12, <1>13, FramesFewer DEF SameRole
  <2>2. (Listed(k)' <=> Listed(k)) /\ (ListedOnce(k)' <=> ListedOnce(k))
    BY <1>4, <1>10, SameLists
  <2>3. Fewer(k)
    BY <1>15, <2>1, <2>2 DEF Fewer
  <2> QED
    BY <1>4, <1>10, <2>2, <2>3, PlaceKept, StateKept DEF LInv, JobFacts
<1>20. \A k \in Jobs : /\ Succeeded(k)' <=> Succeeded(k)
                       /\ job'[k].completed <=> job[k].completed
                       /\ job'[k].failed <=> job[k].failed
  BY <1>9, <1>10, <1>11 DEF Succeeded
<1>21. \A k \in Jobs \ {j}, d \in Jobs : k \in job'[d].downs <=> k \in job[d].downs
  BY <1>5, <1>9, <1>10
<1>22. LinksOK(j)'
  <2>1. \A d \in D : Succeeded(d)' \/ (~job'[d].completed /\ j \in job'[d].downs)
    <3>1. SUFFICES ASSUME NEW d \in D
                   PROVE  Succeeded(d)' \/ (~job'[d].completed /\ j \in job'[d].downs)
      OBVIOUS
    <3>2. d \in Jobs \ {j}
      BY <1>8
    <3> QED
      BY <1>4, <1>10, <3>2 DEF Succeeded, open
  <2>2. Open(j)' = open
    <3>1. \A d \in Jobs : j \in job[d].downs => FALSE
      BY <1>5 DEF Downs
    <3>2. \A d \in Jobs : j \in job'[d].downs <=> d \in open
      BY <1>8, <1>9, <1>10, <3>1 DEF open
    <3> QED
      BY <1>8, <1>20, <3>2 DEF Open, Downs, open
  <2> QED
    BY <1>8, <1>9, <2>1, <2>2 DEF LinksOK, Succeeded
<1>23. ASSUME NEW k \in Jobs \ {j}
       PROVE  LinksOK(k)'
  <2>1. job[k].deps \subseteq Jobs /\ LinksOK(k)
    BY <1>6 DEF JobState, LInv, JobFacts
  <2>2. Open(k)' = Open(k)
    BY <1>20, <1>21 DEF Open, Downs
  <2>3. DepsDone(k)' <=> DepsDone(k)
    BY <1>10, <1>20, <2>1 DEF DepsDone
  <2>4. job'[k].made = "no" => job'[k] = NoJobYet
    BY <1>10, <2>1 DEF LinksOK
  <2>5. job'[k].depFailed => /\ job'[k].completed => job'[k].failed
                             /\ \E d \in job'[k].deps : job'[d].completed /\ job'[d].failed
    BY <1>10, <1>20, <2>1 DEF LinksOK
  <2>6. ~job'[k].depFailed =>
          \A d \in job'[k].deps : Succeeded(d)' \/ (~job'[d].completed /\ k \in job'[d].downs)
    BY <1>10, <1>20, <1>21, <2>1 DEF LinksOK
  <2>7. ~job'[k].depFailed => job'[k].numWaiting >= Cardinality(Open(k)')
    BY <1>10, <2>1, <2>2 DEF LinksOK
  <2>8. job'[k].runs > 0 \/ Succeeded(k)' => DepsDone(k)'
    BY <1>10, <1>20, <2>1, <2>3 DEF LinksOK
  <2> QED
    BY <2>4, <2>5, <2>6, <2>7, <2>8 DEF LinksOK
<1> QED
  BY <1>15, <1>16, <1>17, <1>18, <1>19, <1>22, <1>23 DEF LInv, JobFacts

-----------------------------------------------------------------------------
(* JobDone.                                                                *)

(* What JobDone of j knows about j and about a job that still counts it    *)
(* among its dependencies.                                                 *)
LEMMA DoneJob ==
  ASSUME IInv, DInv, LInv, NEW t \in Threads, NEW j \in Jobs, fr[t].op = "publish", fr[t].job = j
  PROVE  /\ job[j].made # "no" /\ HolderOK(fr[t], j) /\ ~Listed(j) /\ ~Handed(j)
         /\ ~job[j].depFailed => Alone(t, j) /\ ~job[j].completed
         /\ job[j].depFailed => ~fr[t].ok
         /\ job[j].completed => job[j].failed /\ job[j].depFailed
         /\ job[j].signaler # "held"
         /\ ~job[j].depFailed => job[j].numWaiting <= 0 /\ ~(job[j].numWaiting >= 1)
         /\ fr[t].ok => DepsDone(j)
<1>1. HolderOK(fr[t], j) /\ ~Listed(j) /\ ~Handed(j) /\ (~job[j].depFailed => Alone(t, j))
  BY HoldsAre, HoldsTop
<1>2. LinksOK(j) /\ StateOK(j) /\ job[j] \in JobState
  BY InvFacts DEF LInv, JobFacts
<1>3. /\ job[j].made # "no" /\ (job[j].depFailed => ~fr[t].ok)
      /\ ~job[j].depFailed => /\ ~job[j].completed /\ job[j].numWaiting <= 0
                              /\ \/ job[j].runs > 0 \/ job[j].signaler = "done"
                                 \/ Unrun(j) /\ isClosing /\ ~fr[t].ok
  BY <1>1 DEF HolderOK
<1>4. job[j].completed => job[j].failed /\ job[j].depFailed
  BY <1>2, <1>3 DEF LinksOK
<1>5. job[j].signaler # "held"
  <2>1. CASE job[j].depFailed
    BY <1>2, <2>1 DEF LinksOK, StateOK
  <2>2. CASE ~job[j].depFailed
    <3>1. job[j].runs > 0 => job[j].runs # 0
      BY <1>2 DEF JobState
    <3> QED
      BY <1>2, <1>3, <2>2, <3>1 DEF StateOK, Unrun
  <2> QED
    BY <2>1, <2>2
<1>6. ~job[j].depFailed => ~(job[j].numWaiting >= 1)
  BY <1>2, <1>3 DEF JobState
<1>7. fr[t].ok => DepsDone(j)
  <2>1. job[j].signaler = "done" => DepsDone(j)
    BY <1>2 DEF StateOK, DepsDone
  <2>2. job[j].runs > 0 => DepsDone(j)
    BY <1>2 DEF LinksOK
  <2> QED
    BY <1>3, <2>1, <2>2
<1> QED
  BY <1>1, <1>3, <1>4, <1>5, <1>6, <1>7

LEMMA WaitingJob ==
  ASSUME IInv, DInv, LInv, "created" \in Uninterrupted,
         NEW t \in Threads, MayRun(t), NEW j \in Jobs, fr[t].op = "publish", fr[t].job = j,
         NEW k \in job[j].downs, ~job[k].depFailed
  PROVE  /\ k \in Jobs /\ job[k].made # "no" /\ ~job[j].completed
         /\ Idle(k) /\ ~Held(k) /\ ~Listed(k) /\ ~Handed(k)
         /\ j \in Open(k) /\ job[k].numWaiting >= 1
<1>1. k \in Jobs /\ j \in job[k].deps /\ job[k].made # "no"
  BY InvFacts DEF JobState, DInv, GraphOK
<1>2. LinksOK(k) /\ StateOK(k) /\ PlaceOK(k) /\ job[k] \in JobState
  BY <1>1, InvFacts DEF LInv, JobFacts
<1>3. ~job[j].completed
  <2>1. Succeeded(j) \/ ~job[j].completed
    BY <1>1, <1>2 DEF LinksOK
  <2> QED
    BY <2>1, DoneJob DEF Succeeded
<1>4. j \in Open(k)
  BY <1>1, <1>3 DEF Open, Downs
<1>5. job[k].numWaiting >= 1
  <2>1. IsFiniteSet(Open(k)) /\ Cardinality(Open(k)) \in Nat
    BY JobQueueAssumption, FS_Subset, FS_CardinalityType DEF Open, Downs
  <2>2. Cardinality(Open(k)) # 0
    BY <1>4, <2>1, FS_EmptySet
  <2>3. job[k].numWaiting >= Cardinality(Open(k)) /\ job[k].numWaiting \in Int
    BY <1>2 DEF LinksOK, JobState
  <2> QED
    BY <2>1, <2>2, <2>3
<1>6. ~(job[k].numWaiting <= 0)
  BY <1>2, <1>5 DEF JobState
<1>7. Idle(k) /\ ~Listed(k) /\ ~Handed(k)
  BY <1>1, <1>2, <1>5, <1>6 DEF StateOK, PlaceOK, Runnable
<1>8. ASSUME NEW u \in Threads, NEW l \in Levels(u), Holds(Level(u, l), k)
      PROVE  FALSE
  <2>1. Level(u, l).op = "created"
    BY <1>2, <1>6, <1>8 DEF PlaceOK, HolderOK
  <2>2. l = Height(u)
    BY <1>8, <2>1 DEF LInv, LevelsOK
  <2>3. fr[u].op = "created"
    BY <2>1, <2>2, LevelTypes
  <2> QED
    BY <2>3 DEF MayRun
<1> QED
  BY <1>1, <1>3, <1>4, <1>5, <1>7, <1>8 DEF Held

(* The fields JobDone of j changes.                                        *)
LEMMA DoneFields ==
  ASSUME IInv, NEW t \in Threads, NEW j \in Jobs, fr[t].job = j, JobDonePublish(t)
  PROVE  /\ /\ job'[j].completed /\ job'[j].failed = ~fr[t].ok
            /\ job'[j].depFailed = job[j].depFailed /\ job'[j].numWaiting = job[j].numWaiting
         /\ \A k \in Jobs :
              /\ job'[k].made = job[k].made /\ job'[k].type = job[k].type
              /\ job'[k].deps = job[k].deps /\ job'[k].downs = job[k].downs
              /\ job'[k].runs = job[k].runs /\ job'[k].runner = job[k].runner
              /\ job'[k].signaler = job[k].signaler
              /\ job'[k].queued = job[k].queued /\ job'[k].started = job[k].started
              /\ k # j => job'[k].completed = job[k].completed /\ job'[k].failed = job[k].failed
         /\ \A k \in Jobs \ {j} : k \in job[j].downs =>
              /\ job'[k].numWaiting = job[k].numWaiting - 1 /\ job[k].numWaiting \in Int
              /\ job'[k].depFailed = (job[k].depFailed \/ ~fr[t].ok)
         /\ \A k \in Jobs \ {j} : k \notin job[j].downs =>
              /\ job'[k].numWaiting = job[k].numWaiting /\ job'[k].depFailed = job[k].depFailed
              /\ job'[k] = job[k]
<1>1. \A k \in Jobs : job[k] \in JobState
  BY InvFacts
<1>2. job' = [k \in Jobs |->
                IF k = j THEN [job[j] EXCEPT !.completed = TRUE, !.failed = ~fr[t].ok]
                ELSE IF k \in job[j].downs
                  THEN [job[k] EXCEPT !.numWaiting = job[k].numWaiting - 1,
                                      !.depFailed = job[k].depFailed \/ ~fr[t].ok]
                ELSE job[k]]
  BY DEF JobDonePublish
<1>3. /\ job'[j].completed /\ job'[j].failed = ~fr[t].ok
      /\ job'[j].depFailed = job[j].depFailed /\ job'[j].numWaiting = job[j].numWaiting
  <2>1. job'[j] = [job[j] EXCEPT !.completed = TRUE, !.failed = ~fr[t].ok]
    BY <1>2
  <2> QED
    BY <1>1, <2>1 DEF JobState
<1>4. ASSUME NEW k \in Jobs
      PROVE  /\ job'[k].made = job[k].made /\ job'[k].type = job[k].type
             /\ job'[k].deps = job[k].deps /\ job'[k].downs = job[k].downs
             /\ job'[k].runs = job[k].runs /\ job'[k].runner = job[k].runner
             /\ job'[k].signaler = job[k].signaler
             /\ job'[k].queued = job[k].queued /\ job'[k].started = job[k].started
             /\ k # j => job'[k].completed = job[k].completed /\ job'[k].failed = job[k].failed
             /\ k # j /\ k \in job[j].downs =>
                  /\ job'[k].numWaiting = job[k].numWaiting - 1 /\ job[k].numWaiting \in Int
                  /\ job'[k].depFailed = (job[k].depFailed \/ ~fr[t].ok)
             /\ k # j /\ k \notin job[j].downs => job'[k] = job[k]
  <2>1. CASE k = j
    <3>1. job'[k] = [job[k] EXCEPT !.completed = TRUE, !.failed = ~fr[t].ok] /\ job[k] \in JobState
      BY <1>1, <1>2, <2>1
    <3> QED
      BY <2>1, <3>1 DEF JobState
  <2>2. CASE k # j /\ k \in job[j].downs
    <3>1. /\ job'[k] = [job[k] EXCEPT !.numWaiting = job[k].numWaiting - 1,
                                      !.depFailed = job[k].depFailed \/ ~fr[t].ok]
          /\ job[k] \in JobState
      BY <1>1, <1>2, <2>2
    <3> QED
      BY <2>2, <3>1 DEF JobState
  <2>3. CASE k # j /\ k \notin job[j].downs
    <3>1. job'[k] = job[k]
      BY <1>2, <2>3
    <3> QED
      BY <2>3, <3>1
  <2> QED
    BY <2>1, <2>2, <2>3
<1> QED
  BY <1>3, <1>4

(* The ends of jobs are told to the jobs that depend on them.              *)
LEMMA DoneLinks ==
  ASSUME IInv, DInv, LInv, "created" \in Uninterrupted,
         NEW t \in Threads, MayRun(t), NEW j \in Jobs, fr[t].job = j, JobDonePublish(t),
         NEW k \in Jobs
  PROVE  LinksOK(k)'
<1>1. fr[t].op = "publish"
  BY DEF JobDonePublish
<1>2. LinksOK(k) /\ StateOK(k) /\ job[k] \in JobState /\ job[k].deps \subseteq Jobs
  BY InvFacts DEF LInv, JobFacts, JobState
<1>3. /\ job[j].made # "no"
      /\ ~job[j].depFailed => ~job[j].completed
      /\ job[j].depFailed => ~fr[t].ok
      /\ job[j].completed => job[j].failed /\ job[j].depFailed
      /\ fr[t].ok => DepsDone(j)
  BY <1>1, DoneJob
<1>4. /\ job'[k].made = job[k].made /\ job'[k].deps = job[k].deps
      /\ job'[k].runs = job[k].runs
      /\ job'[j].completed /\ job'[j].failed = ~fr[t].ok
      /\ job'[j].depFailed = job[j].depFailed /\ job'[j].numWaiting = job[j].numWaiting
      /\ \A d \in Jobs : job'[d].downs = job[d].downs
      /\ \A d \in Jobs \ {j} : job'[d].completed = job[d].completed /\ job'[d].failed = job[d].failed
  BY DoneFields
<1>5. \A d \in Jobs : /\ Succeeded(d) => Succeeded(d)'
                      /\ job[d].completed /\ job[d].failed => job'[d].completed /\ job'[d].failed
  BY <1>3, <1>4 DEF Succeeded
<1>6. Open(k)' = Open(k) \ {j}
  BY <1>4 DEF Open, Downs
<1>7. IsFiniteSet(Open(k)) /\ Cardinality(Open(k)) \in Nat
  BY JobQueueAssumption, FS_Subset, FS_CardinalityType DEF Open, Downs
<1>8. job'[k].made = "no" => job'[k] = NoJobYet
  <2>1. ASSUME job[k].made = "no"
        PROVE  k # j /\ k \notin job[j].downs
    BY <1>3, <2>1, InvFacts DEF DInv, GraphOK
  <2>2. job[k].made = "no" => job'[k] = job[k]
    BY <2>1, DoneFields
  <2> QED
    BY <1>2, <1>4, <2>2 DEF LinksOK
<1>9. DepsDone(k) => DepsDone(k)'
  BY <1>2, <1>4, <1>5 DEF DepsDone
<1>10. job'[k].runs > 0 \/ Succeeded(k)' => DepsDone(k)'
  <2>1. k = j /\ Succeeded(k)' => fr[t].ok
    BY <1>4 DEF Succeeded
  <2>2. k # j /\ Succeeded(k)' => Succeeded(k)
    BY <1>4 DEF Succeeded
  <2> QED
    BY <1>2, <1>3, <1>4, <1>9, <2>1, <2>2 DEF LinksOK
<1>11. CASE k \in job[j].downs /\ k # j
  <2>1. /\ job'[k].numWaiting = job[k].numWaiting - 1 /\ job[k].numWaiting \in Int
        /\ job'[k].depFailed = (job[k].depFailed \/ ~fr[t].ok)
    BY <1>11, DoneFields
  <2>2. ~job[k].depFailed => ~job[j].completed /\ Idle(k) /\ j \in Open(k)
    BY <1>1, <1>11, WaitingJob
  <2>3. j \in job[k].deps
    BY <1>11 DEF DInv, GraphOK
  <2>4. job'[k].depFailed => /\ job'[k].completed => job'[k].failed
                             /\ \E d \in job'[k].deps : job'[d].completed /\ job'[d].failed
    <3>1. CASE job[k].depFailed
      BY <1>2, <1>4, <1>5, <1>11, <3>1 DEF LinksOK
    <3>2. CASE ~job[k].depFailed
      BY <1>4, <1>11, <2>1, <2>2, <2>3, <3>2 DEF Idle, Unrun
    <3> QED
      BY <3>1, <3>2
  <2>5. ASSUME ~job'[k].depFailed
        PROVE  /\ \A d \in job'[k].deps : Succeeded(d)' \/ (~job'[d].completed /\ k \in job'[d].downs)
               /\ job'[k].numWaiting >= Cardinality(Open(k)')
    <3>1. ~job[k].depFailed /\ fr[t].ok
      BY <2>1, <2>5
    <3>2. Succeeded(j)'
      BY <1>4, <3>1 DEF Succeeded
    <3>3. \A d \in job[k].deps : Succeeded(d)' \/ (~job'[d].completed /\ k \in job'[d].downs)
      BY <1>2, <1>4, <1>5, <3>1, <3>2 DEF LinksOK
    <3>4. Cardinality(Open(k) \ {j}) = Cardinality(Open(k)) - 1
      <4>1. j \in Open(k)
        BY <2>2, <3>1
      <4>2. Cardinality(Open(k) \ {j})
              = IF j \in Open(k) THEN Cardinality(Open(k)) - 1 ELSE Cardinality(Open(k))
        BY <1>7, FS_RemoveElement, Zenon
      <4> QED
        BY <4>1, <4>2
    <3>5. job[k].numWaiting >= Cardinality(Open(k))
      BY <1>2, <3>1 DEF LinksOK
    <3>6. job'[k].numWaiting >= Cardinality(Open(k)')
      BY <1>6, <1>7, <2>1, <3>4, <3>5
    <3> QED
      BY <1>4, <3>3, <3>6
  <2> QED
    BY <1>8, <1>10, <2>4, <2>5 DEF LinksOK
<1>12. CASE k \notin job[j].downs \/ k = j
  <2>1. job'[k].depFailed = job[k].depFailed /\ job'[k].numWaiting = job[k].numWaiting
    BY <1>4, <1>12, DoneFields
  <2>2. ~job[k].depFailed => k \notin job[j].downs
    <3>1. ASSUME ~job[k].depFailed, k = j, k \in job[j].downs
          PROVE  FALSE
      <4>1. ~Held(j)
        BY <1>1, <3>1, WaitingJob
      <4>2. Holds(fr[t], j)
        BY <1>1, HoldsAre
      <4> QED
        BY <4>1, <4>2, HoldsTop
    <3> QED
      BY <1>12, <3>1
  <2>3. job'[k].depFailed => /\ job'[k].completed => job'[k].failed
                             /\ \E d \in job'[k].deps : job'[d].completed /\ job'[d].failed
    BY <1>2, <1>3, <1>4, <1>5, <2>1 DEF LinksOK
  <2>4. ASSUME ~job'[k].depFailed
        PROVE  /\ \A d \in job'[k].deps : Succeeded(d)' \/ (~job'[d].completed /\ k \in job'[d].downs)
               /\ job'[k].numWaiting >= Cardinality(Open(k)')
    <3>1. ~job[k].depFailed /\ k \notin job[j].downs
      BY <2>1, <2>2, <2>4
    <3>2. Open(k)' = Open(k)
      BY <1>6, <3>1 DEF Open, Downs
    <3>3. \A d \in job[k].deps : Succeeded(d)' \/ (~job'[d].completed /\ k \in job'[d].downs)
      BY <1>2, <1>4, <1>5, <3>1 DEF LinksOK
    <3> QED
      BY <1>2, <1>4, <2>1, <3>1, <3>2, <3>3 DEF LinksOK
  <2> QED
    BY <1>8, <1>10, <2>3, <2>4 DEF LinksOK
<1> QED
  BY <1>11, <1>12

LEMMA DoneStates ==
  ASSUME IInv, DInv, LInv, "created" \in Uninterrupted,
         NEW t \in Threads, MayRun(t), NEW j \in Jobs, fr[t].job = j, JobDonePublish(t),
         NEW k \in Jobs
  PROVE  StateOK(k)'
<1>1. fr[t].op = "publish" /\ UNCHANGED <<pending, isClosing>>
  BY DEF JobDonePublish
<1>2. StateOK(k) /\ job[k] \in JobState
  BY InvFacts DEF LInv, JobFacts
<1>3. /\ job[j].signaler # "held"
      /\ ~job[j].depFailed => ~(job[j].numWaiting >= 1)
  BY <1>1, DoneJob
<1>4. /\ job'[k].made = job[k].made /\ job'[k].deps = job[k].deps
      /\ job'[k].runs = job[k].runs /\ job'[k].runner = job[k].runner
      /\ job'[k].signaler = job[k].signaler
      /\ job'[k].queued = job[k].queued /\ job'[k].started = job[k].started
      /\ k # j => job'[k].completed = job[k].completed
      /\ job'[j].completed /\ job'[j].depFailed = job[j].depFailed
      /\ job'[j].numWaiting = job[j].numWaiting
  BY DoneFields
<1>5. Listed(k)' = Listed(k)
  BY <1>1 DEF Listed
<1>6. CASE k = j
  BY <1>1, <1>2, <1>3, <1>4, <1>5, <1>6 DEF StateOK
<1>7. CASE k # j /\ k \notin job[j].downs
  <2>1. job'[k].depFailed = job[k].depFailed /\ job'[k].numWaiting = job[k].numWaiting
    BY <1>7, DoneFields
  <2> QED
    BY <1>1, <1>2, <1>4, <1>5, <1>7, <2>1 DEF StateOK, Idle, Unrun
<1>8. CASE k # j /\ k \in job[j].downs
  <2>1. /\ job'[k].numWaiting = job[k].numWaiting - 1 /\ job[k].numWaiting \in Int
        /\ job'[k].depFailed = (job[k].depFailed \/ ~fr[t].ok)
    BY <1>8, DoneFields
  <2>2. ~job[k].depFailed => Idle(k)
    BY <1>1, <1>8, WaitingJob
  <2>3. job[k].numWaiting <= 0 => job'[k].numWaiting <= 0
    BY <2>1
  <2>4. ~job'[k].depFailed => Idle(k)'
    BY <1>4, <1>8, <2>1, <2>2 DEF Idle, Unrun
  <2>5. job'[k].depFailed => job'[k].runs = 0
    BY <1>2, <1>4, <2>2 DEF StateOK, Idle, Unrun
  <2>6. job'[k].signaler # "none" => job'[k].deps = {} /\ job'[k].runs = 0 /\ job'[k].numWaiting <= 0
    BY <1>2, <1>4, <2>3 DEF StateOK
  <2>7. job'[k].signaler = "held" => ~job'[k].completed
    BY <1>2, <1>4, <1>8 DEF StateOK
  <2>8. ~job'[k].depFailed => ~job'[k].queued
    BY <2>4 DEF Idle
  <2> QED
    BY <2>4, <2>5, <2>6, <2>7, <2>8 DEF StateOK
<1> QED
  BY <1>6, <1>7, <1>8

LEMMA JobDonePublishHolds ==
  ASSUME IInv, DInv, LInv, "created" \in Uninterrupted,
         NEW t \in Threads, MayRun(t), JobDonePublish(t)
  PROVE  LInv'
<1>1. PICK j \in Jobs : fr[t].job = j
  BY InvFacts DEF JobDonePublish, JobOps
<1>2. PICK newly \in SUBSET Jobs : newly = {k \in job[j].downs : job[k].numWaiting = 1}
  BY InvFacts DEF JobState
<1>3. PICK w \in Frame : w = JobFrame("wake", j, TRUE)
  BY FramesOK DEF JobOps
<1>4. PICK a \in Frame : a = AddsFrame(newly)
  BY FramesOK DEF JobOps
<1>5. w.op = "wake" /\ w.job = j /\ a.op = "adds" /\ a.jobs = newly
  BY <1>3, <1>4 DEF JobFrame, AddsFrame
<1>6. /\ fr[t].op = "publish" /\ UNCHANGED <<pending, wti, isClosing>>
      /\ Proceed(t, IF newly = {} THEN <<w>> ELSE <<w, a>>)
  BY <1>1, <1>2, <1>3, <1>4 DEF JobDonePublish
<1>7. PICK S, T : /\ Moves(t, S, T)
                  /\ \A f \in S \cup T : f = w \/ f = a
                  /\ (\A f \in S : f = w) \/ (\A f \in T : f = w)
  <2> DEFINE none == {}
             one  == {w}
             rest == {a}
  <2>1. Moves(t, one, none) \/ Moves(t, rest, one)
    BY <1>6, MovesAre
  <2>2. (\A f \in none : FALSE) /\ (\A f \in one : f = w) /\ (\A f \in rest : f = a)
    OBVIOUS
  <2> HIDE DEF none, one, rest
  <2> QED
    BY <2>1, <2>2
<1>8. \A k \in Jobs : ~Holds(w, k) /\ (Holds(a, k) <=> k \in newly) /\ (Holds(fr[t], k) => k = j)
  BY <1>1, <1>5, <1>6, HoldsAre
<1>9. /\ job'[j].completed
      /\ \A k \in Jobs : /\ job'[k].made = job[k].made /\ job'[k].type = job[k].type
                         /\ k # j => job'[k].completed = job[k].completed
                         /\ job[k].depFailed => job'[k].depFailed
  <2>1. job'[j].completed /\ job'[j].depFailed = job[j].depFailed
    BY <1>1, DoneFields
  <2>2. ASSUME NEW k \in Jobs
        PROVE  /\ job'[k].made = job[k].made /\ job'[k].type = job[k].type
               /\ k # j => job'[k].completed = job[k].completed
    BY <1>1, DoneFields
  <2>3. ASSUME NEW k \in Jobs, job[k].depFailed
        PROVE  job'[k].depFailed
    <3>1. CASE k = j
      BY <2>1, <2>3, <3>1
    <3>2. CASE k # j /\ k \in job[j].downs
      BY <1>1, <2>3, <3>2, DoneFields
    <3>3. CASE k # j /\ k \notin job[j].downs
      BY <1>1, <2>3, <3>3, DoneFields
    <3> QED
      BY <3>1, <3>2, <3>3
  <2> QED
    BY <2>1, <2>2, <2>3
<1>10. \A k \in Jobs : job[k].completed => job'[k].completed
  BY <1>9
<1>11. \A u \in Threads : WokenOK(u)' /\ \A k : HandedTo(u, k)' <=> HandedTo(u, k)
  BY <1>6, <1>7, <1>10, WokensKept DEF LInv
<1>12. \A u \in Threads : LevelsOK(u)'
  <2>1. \A f \in S \cup T : f.op # "created" /\ (f.op = "wake" => job'[f.job].completed)
    BY <1>5, <1>7, <1>9
  <2> QED
    BY <1>7, <1>10, <2>1, LevelsKept
<1>13. \A k \in Jobs : /\ Listed(k)' <=> Listed(k)
                       /\ Handed(k)' <=> Handed(k)
                       /\ ListedOnce(k)' <=> ListedOnce(k)
  BY <1>6, <1>9, <1>11, SameLists DEF Handed
<1>14. ASSUME NEW k \in Jobs, k = j \/ k \in job[j].downs
       PROVE  PlaceOK(k)' /\ OnePlace(k)'
  <2>1. /\ ~Listed(k) /\ ~Handed(k) /\ job[k].made # "no"
        /\ ~job[k].depFailed => Alone(t, k)
    <3>1. CASE k = j
      BY <1>1, <1>6, <3>1, DoneJob
    <3>2. CASE k \in job[j].downs /\ job[k].depFailed
      <4>1. job[k].made # "no"
        BY <3>2 DEF DInv, GraphOK
      <4> QED
        BY <3>2, <4>1 DEF LInv, JobFacts, PlaceOK, Runnable
    <3>3. CASE k \in job[j].downs /\ ~job[k].depFailed
      BY <1>1, <1>6, <3>3, WaitingJob DEF Alone, Held
    <3> QED
      BY <1>14, <3>1, <3>2, <3>3
  <2>2. ASSUME k \in newly
        PROVE  HolderOK(a, k)'
    <3>1. CASE job'[k].depFailed
      BY <1>5, <1>9, <2>1, <3>1 DEF HolderOK
    <3>2. CASE ~job'[k].depFailed
      <4>1. k \in job[j].downs /\ ~job[k].depFailed /\ job[k].numWaiting = 1
        BY <1>2, <1>9, <2>2, <3>2
      <4>2. Idle(k) /\ ~Held(k)
        BY <1>1, <1>6, <4>1, WaitingJob
      <4>3. k # j
        BY <1>1, <1>6, <4>2, HoldsAre, HoldsTop
      <4>4. Idle(k)' /\ job'[k].numWaiting = job[k].numWaiting - 1
        <5>1. job'[k].numWaiting = job[k].numWaiting - 1
          BY <1>1, <4>1, <4>3, DoneFields
        <5>2. /\ job'[k].runs = job[k].runs /\ job'[k].runner = job[k].runner
              /\ job'[k].signaler = job[k].signaler /\ job'[k].completed = job[k].completed
              /\ job'[k].queued = job[k].queued /\ job'[k].started = job[k].started
          BY <1>1, <4>3, DoneFields
        <5> QED
          BY <4>2, <5>1, <5>2 DEF Idle, Unrun
      <4>5. job'[k].numWaiting <= 0
        BY <4>1, <4>4
      <4> QED
        BY <1>5, <1>9, <2>1, <4>4, <4>5 DEF HolderOK, Idle, Unrun
    <3> QED
      BY <3>1, <3>2
  <2>3. \A f \in S \cup T : Holds(f, k) => HolderOK(f, k)'
    BY <1>7, <1>8, <2>2
  <2>4. (\A f \in S : ~Holds(f, k)) \/ (\A f \in T : ~Holds(f, k))
    BY <1>7, <1>8
  <2>5. ~Listed(k)' /\ ~Handed(k)'
    BY <1>13, <2>1
  <2> QED
    BY <1>7, <1>9, <2>1, <2>3, <2>4, <2>5, NowHeld
<1>15. ASSUME NEW k \in Jobs, k # j, k \notin job[j].downs
       PROVE  PlaceOK(k)' /\ OnePlace(k)'
  <2>1. job'[k] = job[k]
    BY <1>1, <1>15, DoneFields
  <2>2. k \notin newly
    BY <1>2, <1>15
  <2>3. \A f \in S \cup T : ~Holds(f, k)
    BY <1>7, <1>8, <2>2
  <2>4. FewerFrames(k)
    BY <1>7, <2>3, FramesFewer
  <2>5. SameState(k)
    BY <2>1 DEF SameState
  <2>6. Fewer(k)
    BY <1>11, <1>13, <2>4 DEF Fewer
  <2> QED
    BY <1>6, <2>5, <2>6, PlaceKept DEF LInv, JobFacts
<1>16. \A k \in Jobs : LinksOK(k)' /\ StateOK(k)'
  BY <1>1, DoneLinks, DoneStates
<1> QED
  BY <1>11, <1>12, <1>14, <1>15, <1>16 DEF LInv, JobFacts

-----------------------------------------------------------------------------
(* The invariant.                                                          *)

LEMMA StutterHolds ==
  ASSUME LInv, UNCHANGED vars
  PROVE  LInv'
<1>1. UNCHANGED <<job, pending, wti, fr, stack, isClosing>>
  BY DEF vars
<1>2. \A t : Height(t)' = Height(t) /\ Levels(t)' = Levels(t) /\ \A l : Level(t, l)' = Level(t, l)
  BY <1>1 DEF Height, Levels, Level
<1>3. ASSUME NEW k \in Jobs
      PROVE  JobFacts(k)'
  <2>1. /\ Held(k)' <=> Held(k)
        /\ Handed(k)' <=> Handed(k)
        /\ Listed(k)' <=> Listed(k)
        /\ Runnable(k)' <=> Runnable(k)
        /\ Idle(k)' <=> Idle(k)
        /\ \A f : HolderOK(f, k)' <=> HolderOK(f, k)
    BY <1>1, <1>2 DEF Held, Handed, HandedTo, Listed, Runnable, Idle, Unrun, HolderOK
  <2>2. PlaceOK(k)'
    BY <1>2, <2>1 DEF LInv, JobFacts, PlaceOK
  <2>3. /\ HeldOnce(k)' <=> HeldOnce(k)
        /\ ListedOnce(k)' <=> ListedOnce(k)
        /\ HandedOnce(k)' <=> HandedOnce(k)
    BY <1>1, <1>2 DEF HeldOnce, ListedOnce, HandedOnce, HandedTo
  <2>4. OnePlace(k)'
    BY <1>1, <2>1, <2>3 DEF LInv, JobFacts, OnePlace
  <2>5. LinksOK(k)'
    <3>1. Open(k)' = Open(k) /\ (DepsDone(k)' <=> DepsDone(k)) /\ \A d : Succeeded(d)' <=> Succeeded(d)
      BY <1>1 DEF Open, Downs, DepsDone, Succeeded
    <3> QED
      BY <1>1, <3>1 DEF LInv, JobFacts, LinksOK
  <2>6. StateOK(k)'
    BY <1>1, <2>1 DEF LInv, JobFacts, StateOK
  <2> QED
    BY <2>2, <2>4, <2>5, <2>6 DEF JobFacts
<1>4. \A t \in Threads : LevelsOK(t)' /\ WokenOK(t)'
  BY <1>1, <1>2 DEF LInv, LevelsOK, WokenOK
<1> QED
  BY <1>3, <1>4 DEF LInv

LEMMA NextHolds ==
  ASSUME "created" \in Uninterrupted, NameFailed = FALSE, IInv, DInv, LInv, [Next]_vars
  PROVE  LInv'
<1>1. ASSUME NEW t \in Threads, ClientStep(t)
      PROVE  LInv'
  <2>1. ASSUME NEW j \in Jobs, NEW c \in Types, NEW D \in SUBSET Jobs, CreateJob(t, j, c, D)
        PROVE  LInv'
    BY <2>1, CreateJobHolds
  <2>2. ASSUME NEW j \in Jobs, CreateSignaledJob(t, j)
        PROVE  LInv'
    BY <2>2, CreateSignaledJobHolds
  <2>3. ASSUME NEW j \in Jobs, NEW ok \in BOOLEAN, SignalDone(t, j, ok)
        PROVE  LInv'
    BY <2>3, SignalDoneHolds
  <2>4. ASSUME NEW j \in Jobs, CallWaitForJob(t, j)
        PROVE  LInv'
    BY <2>4, CallWaitForJobHolds
  <2>5. ASSUME NEW b \in BOOLEAN, WaitForWork(t, b)
        PROVE  LInv'
    BY <2>5, WaitForWorkHolds
  <2> QED
    BY <1>1, <2>1, <2>2, <2>3, <2>4, <2>5, CallCloseHolds DEF ClientStep
<1>2. ASSUME NEW t \in Threads, MayRun(t), QueueStep(t)
      PROVE  LInv'
  <2>1. ASSUME NEW ok \in BOOLEAN, RunnerReturns(t, ok)
        PROVE  LInv'
    BY <2>1, RunnerReturnsCarries
  <2>2. JobDonePublish(t) => LInv'
    BY <1>2, JobDonePublishHolds
  <2> QED
    BY <1>2, <2>1, <2>2, CreatedJobHolds, CreateReturnsHolds, JobDoneWakeHolds,
       AddRunnableJobHolds, AddMarksStartedCarries, RunEnterCarries, WaitForJobHolds, AwakeHolds,
       CloseAbortsPendingHolds, CloseUnlinksHolds, CloseWakesHolds, CloseAwaitsAckHolds
    DEF QueueStep
<1> QED
  BY <1>1, <1>2, StutterHolds DEF Next, Step

LEMMA InitHolds ==
  ASSUME Init
  PROVE  LInv
<1>1. \A j \in Jobs : job[j] = NoJobYet
  BY DEF Init
<1>2. \A t \in Threads : /\ Height(t) = 0 /\ Levels(t) = {0} /\ Level(t, 0) = fr[t]
                         /\ fr[t].op = "client" /\ wti[t].disp = "Invalid"
                         /\ \A j : ~Holds(fr[t], j)
  <2>1. \A t \in Threads : fr[t] = Client(TRUE) /\ stack[t] = <<>> /\ wti[t] = Unlinked
    BY DEF Init
  <2>2. \A t \in Threads : Len(stack[t]) = 0
    <3>1. Len(<<>>) = 0
      BY EmptySeq
    <3> QED
      BY <2>1, <3>1
  <2>3. \A t \in Threads : fr[t].op = "client" /\ wti[t].disp = "Invalid"
    BY <2>1 DEF Client, JobFrame, Unlinked
  <2>4. 0..0 = {0}
    OBVIOUS
  <2> QED
    BY <2>2, <2>3, <2>4, HoldsAre DEF Height, Levels, Level
<1>3. \A j : ~Held(j) /\ ~Handed(j) /\ ~Listed(j)
  <2>1. \A c \in Types : pending[c] = <<>>
    BY DEF Init
  <2>2. \A c \in Types : \A i \in 1..Len(pending[c]) : FALSE
    BY <2>1
  <2> QED
    BY <1>2, <2>2 DEF Held, Handed, HandedTo, Listed
<1>4. ASSUME NEW j \in Jobs
      PROVE  JobFacts(j)
  <2>1. PlaceOK(j) /\ OnePlace(j)
    BY <1>3 DEF PlaceOK, OnePlace, HeldOnce, ListedOnce, HandedOnce, Held, Listed, Handed
  <2>2. /\ job[j].made = "no" /\ job[j].runs = 0 /\ job[j].deps = {} /\ job[j].depFailed = FALSE
        /\ job[j].completed = FALSE /\ job[j].signaler = "none" /\ job[j].queued = FALSE
        /\ job[j].numWaiting = 0 /\ \A d \in Jobs : job[d].downs = {}
    BY <1>1 DEF NoJobYet, NewJob
  <2>3. Cardinality(Open(j)) = 0
    <3>1. Open(j) = {}
      BY <2>2 DEF Open, Downs
    <3> QED
      BY <3>1, FS_EmptySet
  <2>4. LinksOK(j)
    BY <1>1, <2>2, <2>3 DEF LinksOK, Succeeded
  <2>5. StateOK(j)
    BY <2>2 DEF StateOK
  <2> QED
    BY <2>1, <2>4, <2>5 DEF JobFacts
<1> QED
  BY <1>2, <1>4 DEF LInv, LevelsOK, WokenOK

(* Every job is in one place, in a state that fits it, unless a dependency *)
(* of it failed.                                                           *)
THEOREM JobQueueLInv ==
  ASSUME "created" \in Uninterrupted, NameFailed = FALSE
  PROVE  Spec => [](IInv /\ DInv /\ LInv)
<1>1. Init => IInv /\ DInv /\ LInv
  BY InitInv, InitKeeps, InitHolds
<1>2. (IInv /\ DInv /\ LInv) /\ [Next]_vars => (IInv /\ DInv /\ LInv)'
  BY NextInv, NextKeeps, NextHolds
<1> QED
  BY <1>1, <1>2, PTL DEF Spec

-----------------------------------------------------------------------------
(* Threads that wait for a job.                                            *)

(* A step moves the stack of its own thread only.                          *)
LEMMA OthersStacks ==
  ASSUME IInv, NEW t \in Threads, ClientStep(t) \/ QueueStep(t), NEW u \in Threads \ {t}
  PROVE  stack'[u] = stack[u]
<1>1. stack \in [Threads -> Seq(Frame)]
  BY DEF IInv, TypeOK
<1>2. \A fs : Proceed(t, fs) => stack'[u] = stack[u]
  BY <1>1 DEF Proceed
<1>3. ClientStep(t) => stack'[u] = stack[u]
  <2>1. \A f : Call(t, f) => stack'[u] = stack[u]
    BY <1>2 DEF Call
  <2>2. ASSUME NEW b \in BOOLEAN, WaitForWork(t, b)
        PROVE  stack'[u] = stack[u]
    BY <1>2, <2>2 DEF WaitForWork, TakePending, Sleep
  <2> QED
    BY <2>1, <2>2 DEF ClientStep, CreateJob, CreateSignaledJob, SignalDone, CallWaitForJob, CallClose
<1>4. QueueStep(t) => stack'[u] = stack[u]
  <2>1. WaitForJob(t) => stack'[u] = stack[u]
    BY <1>2 DEF WaitForJob, TakePending, TakeSpecified, Sleep
  <2>2. AddRunnableJob(t) => stack'[u] = stack[u]
    BY <1>2 DEF AddRunnableJob, AddAborts, AddHandsOver, AddQueues
  <2>3. RunEnter(t) \/ (\E ok \in BOOLEAN : RunnerReturns(t, ok)) => stack'[u] = stack[u]
    BY <1>2 DEF RunEnter, RunnerReturns
  <2>4. CreatedJob(t) \/ CreateReturns(t) \/ JobDonePublish(t) \/ JobDoneWake(t) \/ AddMarksStarted(t)
          => stack'[u] = stack[u]
    BY <1>2 DEF CreatedJob, CreateReturns, JobDonePublish, JobDoneWake, AddMarksStarted
  <2>5. CloseAbortsPending(t) \/ CloseUnlinks(t) \/ CloseWakes(t) \/ CloseAwaitsAck(t)
          => stack'[u] = stack[u]
    BY <1>2 DEF CloseAbortsPending, CloseUnlinks, CloseWakes, CloseAwaitsAck
  <2>6. Awake(t) => stack'[u] = stack[u]
    BY <1>2 DEF Awake
  <2> QED
    BY <2>1, <2>2, <2>3, <2>4, <2>5, <2>6 DEF QueueStep
<1> QED
  BY <1>3, <1>4

(* A stack is shorter after a step only if its thread returned.            *)
LEMMA NotShorter ==
  ASSUME IInv, NEW t \in Threads, NEW a \in Frame, NEW b \in Frame
  PROVE  /\ Proceed(t, <<a>>) => ~(Len(stack'[t]) < Len(stack[t]))
         /\ Proceed(t, <<a, b>>) => ~(Len(stack'[t]) < Len(stack[t]))
<1>1. /\ stack[t] \in Seq(Frame) /\ Len(stack[t]) \in Nat /\ stack \in [Threads -> Seq(Frame)]
  BY LenProperties DEF IInv, TypeOK
<1>2. Tail(<<a>> \o stack[t]) = stack[t] /\ Len(Tail(<<a, b>> \o stack[t])) = 1 + Len(stack[t])
  BY <1>1, OneOnTop, TwoOnTop
<1>3. ASSUME Proceed(t, <<a>>)
      PROVE  ~(Len(stack'[t]) < Len(stack[t]))
  <2>1. stack'[t] = stack[t]
    BY <1>1, <1>2, <1>3 DEF Proceed
  <2> QED
    BY <1>1, <2>1
<1>4. ASSUME Proceed(t, <<a, b>>)
      PROVE  ~(Len(stack'[t]) < Len(stack[t]))
  <2>1. Len(stack'[t]) = 1 + Len(stack[t])
    BY <1>1, <1>2, <1>4 DEF Proceed
  <2> QED
    BY <1>1, <2>1
<1> QED
  BY <1>3, <1>4

LEMMA WaitForJobReturns ==
  ASSUME IInv, NEW t \in Threads, WaitForJob(t), Len(stack'[t]) < Len(stack[t])
  PROVE  isClosing \/ job[fr[t].job].completed
<1>1. PICK j \in Jobs : j = fr[t].job /\ fr[t].op = "waitJob" /\ fr[t] \in Frame
  BY InvFacts DEF WaitForJob, JobOps
<1>2. \A a, b \in Frame : ~Proceed(t, <<a>>) /\ ~Proceed(t, <<a, b>>)
  BY NotShorter
<1>3. ASSUME NEW types \in Seq(Types), TakePending(t, types, <<fr[t]>>)
      PROVE  FALSE
  <2>1. PICK i \in DOMAIN types : /\ FirstPending(types, i)
                                  /\ Proceed(t, <<JobFrame("enter", Head(pending[types[i]]), TRUE)>> \o <<fr[t]>>)
    BY <1>3 DEF TakePending
  <2>2. PICK c \in Types : c = types[i] /\ pending[c] # <<>>
    <3>1. i \in 1..Len(types)
      BY <2>1
    <3>2. types[i] \in Types
      BY <3>1, ElementOfSeq
    <3> QED
      BY <2>1, <3>2 DEF FirstPending
  <2>3. Head(pending[c]) \in Jobs
    <3>1. pending[c] \in Seq(Jobs)
      BY DEF IInv, TypeOK
    <3> QED
      BY <2>2, <3>1, HeadTailProperties
  <2>4. PICK e \in Frame : e = JobFrame("enter", Head(pending[c]), TRUE)
    BY <2>3, EnterFrame
  <2>5. Proceed(t, <<e>> \o <<fr[t]>>)
    BY <2>1, <2>2, <2>4
  <2>6. Proceed(t, <<e, fr[t]>>)
    BY <2>5, Concats
  <2> QED
    BY <1>1, <1>2, <2>6
<1>4. TakeSpecified(t, j) => FALSE
  <2>1. PICK e \in Frame : e = JobFrame("enter", j, TRUE)
    BY EnterFrame
  <2> QED
    BY <1>2, <2>1 DEF TakeSpecified
<1>5. ASSUME NEW types, NEW ok \in BOOLEAN, Sleep(t, types, j, JobFrame("asleep", j, ok))
      PROVE  FALSE
  <2>1. PICK e \in Frame : e = JobFrame("asleep", j, ok)
    BY FramesOK DEF JobFrame, OtherOps
  <2> QED
    BY <1>2, <1>5, <2>1 DEF Sleep
<1>6. IdleTypes[t] \in Seq(Types)
  BY JobQueueAssumption
<1> QED
  BY <1>1, <1>3, <1>4, <1>5, <1>6 DEF WaitForJob

LEMMA AwakeReturns ==
  ASSUME IInv, LInv, NEW t \in Threads, Awake(t), fr[t].job # NoJob, Len(stack'[t]) < Len(stack[t])
  PROVE  isClosing \/ job[fr[t].job].completed
<1>1. /\ fr[t].op = "asleep" /\ fr[t] \in Frame /\ fr[t].job \in Jobs
      /\ wti[t].disp \in Dispositions /\ wti[t].disp # "Invalid"
  <2>1. fr[t].op = "asleep" /\ fr[t] \in Frame /\ fr[t].job \in Jobs
    BY InvFacts, FramesOK DEF Awake
  <2> QED
    BY <2>1 DEF Awake, IInv, TypeOK, WaitInfo
<1>2. \A a, b \in Frame : ~Proceed(t, <<a>>) /\ ~Proceed(t, <<a, b>>)
  BY NotShorter
<1>3. ASSUME fr[t].ok, wti[t].disp \in {"DequeuedWork", "StartedByThisThread"}
      PROVE  FALSE
  <2>1. wti[t].job \in Jobs
    BY <1>3 DEF IInv, WaitOK
  <2>2. PICK e \in Frame : e = JobFrame("enter", wti[t].job, TRUE)
    BY <2>1, EnterFrame
  <2>3. PICK again \in Frame : again = JobFrame("waitJob", fr[t].job, TRUE)
    BY <1>1, FramesOK DEF JobOps
  <2>4. Proceed(t, <<e>> \o <<again>>) \/ Proceed(t, <<e>>)
    BY <1>3, <2>2, <2>3 DEF Awake
  <2>5. <<e>> \o <<again>> = <<e, again>>
    BY Concats
  <2> QED
    BY <1>2, <2>4, <2>5
<1> QED
  BY <1>1, <1>3 DEF LInv, WokenOK, Dispositions

(* A call that waits for a job returns when the job is completed or the    *)
(* queue is closing, whichever of the ways out of WaitForWorkOrJob it      *)
(* takes, and whoever woke it for whatever reason.                         *)
THEOREM JobQueueWaitedJobIsDone ==
  ASSUME "created" \in Uninterrupted, NameFailed = FALSE
  PROVE  Spec => WaitedJobIsDone
<1>1. ASSUME IInv, DInv, LInv, [Next]_vars
      PROVE  [\A t \in Threads :
                /\ fr[t].op \in {"waitJob", "asleep"} /\ fr[t].job # NoJob
                /\ Len(stack'[t]) < Len(stack[t])
                => isClosing \/ job[fr[t].job].completed]_vars
  <2>1. SUFFICES ASSUME Next, NEW t \in Threads, fr[t].op \in {"waitJob", "asleep"}, fr[t].job # NoJob,
                        Len(stack'[t]) < Len(stack[t])
                 PROVE  isClosing \/ job[fr[t].job].completed
    BY <1>1
  <2>2. PICK u \in Threads : ClientStep(u) \/ QueueStep(u)
    BY <2>1 DEF Next, Step
  <2>3. u = t
    <3>1. Len(stack[t]) \in Nat
      BY <1>1, LenProperties DEF IInv, TypeOK
    <3> QED
      BY <1>1, <2>1, <2>2, <3>1, OthersStacks
  <2>4. ~ClientStep(t)
    <3>1. ~InClient(t)
      BY <2>1, JobQueueAssumption DEF InClient
    <3> QED
      BY <2>1, <3>1 DEF ClientStep, CreateJob, CreateSignaledJob, SignalDone, CallWaitForJob,
                        WaitForWork, CallClose
  <2>5. WaitForJob(t) \/ Awake(t)
    <3>1. fr[t].op \notin {"created", "return", "publish", "wake", "adds", "mark", "enter", "run"} \cup CloseOps
      BY <2>1 DEF CloseOps
    <3> QED
      BY <2>2, <2>3, <2>4, <3>1 DEF QueueStep, CreatedJob, CreateReturns, JobDonePublish, JobDoneWake,
         AddRunnableJob, AddMarksStarted, RunEnter, RunnerReturns, CloseOps,
         CloseAbortsPending, CloseUnlinks, CloseWakes, CloseAwaitsAck
  <2> QED
    BY <1>1, <2>1, <2>5, WaitForJobReturns, AwakeReturns
<1> QED
  BY <1>1, JobQueueLInv, PTL DEF WaitedJobIsDone, Spec

-----------------------------------------------------------------------------
(* The refinement.                                                         *)

Phase == [j \in Jobs |-> PhaseOf(j)]
Needs == [j \in Jobs |-> job[j].deps]

(* The phases of a job, by its fields.                                     *)
LEMMA PhasesAre ==
  ASSUME NEW j \in Jobs
  PROVE  /\ job[j].made = "no" => PhaseOf(j) = "absent"
         /\ job[j].made # "no" =>
              /\ job[j].completed /\ job[j].failed => PhaseOf(j) = "failed"
              /\ job[j].completed /\ ~job[j].failed => PhaseOf(j) = "succeeded"
              /\ ~job[j].completed /\ job[j].runs > 0 => PhaseOf(j) = "running"
              /\ ~job[j].completed /\ ~(job[j].runs > 0) => PhaseOf(j) = "waiting"
BY DEF PhaseOf

LEMMA NewPhasesAre ==
  ASSUME NEW j \in Jobs
  PROVE  /\ job'[j].made = "no" => PhaseOf(j)' = "absent"
         /\ job'[j].made # "no" =>
              /\ job'[j].completed /\ job'[j].failed => PhaseOf(j)' = "failed"
              /\ job'[j].completed /\ ~job'[j].failed => PhaseOf(j)' = "succeeded"
              /\ ~job'[j].completed /\ job'[j].runs > 0 => PhaseOf(j)' = "running"
              /\ ~job'[j].completed /\ ~(job'[j].runs > 0) => PhaseOf(j)' = "waiting"
BY DEF PhaseOf

SamePhase(k) == PhaseOf(k)' = PhaseOf(k) /\ job'[k].deps = job[k].deps

LEMMA SamePhases ==
  ASSUME NEW k \in Jobs, job'[k].made = "no" <=> job[k].made = "no",
         job'[k].completed <=> job[k].completed, job'[k].failed <=> job[k].failed,
         job'[k].runs > 0 <=> job[k].runs > 0, job'[k].deps = job[k].deps
  PROVE  SamePhase(k)
BY DEF SamePhase, PhaseOf

LEMMA OnePhase ==
  ASSUME NEW j \in Jobs, \A k \in Jobs \ {j} : SamePhase(k)
  PROVE  /\ Phase' = [Phase EXCEPT ![j] = PhaseOf(j)']
         /\ Needs' = [Needs EXCEPT ![j] = job'[j].deps]
         /\ job'[j].deps = job[j].deps => UNCHANGED Needs
         /\ SamePhase(j) => UNCHANGED Phase
BY DEF SamePhase, Phase, Needs

(* A job that is complete or has dependencies was made.                    *)
LEMMA MadeJobs ==
  ASSUME LInv, NEW j \in Jobs, job[j].completed \/ job[j].deps # {}
  PROVE  job[j].made # "no"
<1>1. job[j].made = "no" => job[j] = NoJobYet
  BY DEF LInv, JobFacts, LinksOK
<1> QED
  BY <1>1 DEF NoJobYet, NewJob

(* Fields of a job that its phase does not depend on.                      *)
LEMMA QuietFields ==
  ASSUME IInv, NEW j,
         \/ job' = job
         \/ job' = [job EXCEPT ![j].queued = TRUE]
         \/ job' = [job EXCEPT ![j].started = TRUE]
         \/ job' = [job EXCEPT ![j].queued = TRUE, ![j].started = TRUE]
         \/ job' = [job EXCEPT ![j].runner = FALSE]
         \/ job' = [job EXCEPT ![j].signaler = "done"]
         \/ job' = [job EXCEPT ![j].made = "yes"] /\ job[j].made # "no",
         isClosing' = isClosing
  PROVE  UNCHANGED <<Phase, Needs, isClosing>>
<1>1. job \in [Jobs -> JobState] /\ \A k \in Jobs : job[k] \in JobState
  BY DEF IInv, TypeOK
<1>2. CASE j \in Jobs /\ job' # job
  <2>1. \A k \in Jobs \ {j} : job'[k] = job[k]
    BY <1>1, <1>2
  <2>2. /\ job'[j].made = "no" <=> job[j].made = "no"
        /\ job'[j].completed = job[j].completed /\ job'[j].failed = job[j].failed
        /\ job'[j].runs = job[j].runs /\ job'[j].deps = job[j].deps
    <3>1. CASE job' = [job EXCEPT ![j].queued = TRUE]
      BY <1>1, <1>2, <3>1 DEF JobState
    <3>2. CASE job' = [job EXCEPT ![j].started = TRUE]
      BY <1>1, <1>2, <3>2 DEF JobState
    <3>3. CASE job' = [job EXCEPT ![j].queued = TRUE, ![j].started = TRUE]
      BY <1>1, <1>2, <3>3 DEF JobState
    <3>4. CASE job' = [job EXCEPT ![j].runner = FALSE]
      BY <1>1, <1>2, <3>4 DEF JobState
    <3>5. CASE job' = [job EXCEPT ![j].signaler = "done"]
      BY <1>1, <1>2, <3>5 DEF JobState
    <3>6. CASE job' = [job EXCEPT ![j].made = "yes"] /\ job[j].made # "no"
      BY <1>1, <1>2, <3>6 DEF JobState
    <3> QED
      BY <1>2, <3>1, <3>2, <3>3, <3>4, <3>5, <3>6
  <2>3. \A k \in Jobs : SamePhase(k)
    BY <2>1, <2>2, SamePhases
  <2> QED
    BY <1>2, <2>3, OnePhase DEF SamePhase
<1>3. CASE j \notin Jobs \/ job' = job
  <2>1. job' = job
    BY <1>1, <1>3
  <2> QED
    BY <2>1 DEF Phase, Needs, PhaseOf
<1> QED
  BY <1>2, <1>3

(* The steps of JobLifecycle, in terms of the queue.                       *)
LEMMA LifecycleSteps ==
  /\ \A j, D : Lifecycle!Create(j, D) <=>
       /\ Phase[j] = "absent" /\ \A d \in D : Phase[d] # "absent"
       /\ Phase' = [Phase EXCEPT ![j] = "waiting"]
       /\ Needs' = [Needs EXCEPT ![j] = D] /\ isClosing' = isClosing
  /\ \A j : Lifecycle!Start(j) <=>
       /\ Phase[j] = "waiting" /\ \A d \in Needs[j] : Phase[d] = "succeeded"
       /\ Phase' = [Phase EXCEPT ![j] = "running"] /\ UNCHANGED <<Needs, isClosing>>
  /\ \A j, how : Lifecycle!Finish(j, how) <=>
       /\ Phase[j] = "running"
       /\ Phase' = [Phase EXCEPT ![j] = how] /\ UNCHANGED <<Needs, isClosing>>
  /\ \A j, how : Lifecycle!Signal(j, how) <=>
       /\ Phase[j] = "waiting" /\ Needs[j] = {}
       /\ Phase' = [Phase EXCEPT ![j] = how] /\ UNCHANGED <<Needs, isClosing>>
  /\ \A j : Lifecycle!Abort(j) <=>
       /\ Phase[j] = "waiting" /\ (isClosing \/ \E d \in Needs[j] : Phase[d] = "failed")
       /\ Phase' = [Phase EXCEPT ![j] = "failed"] /\ UNCHANGED <<Needs, isClosing>>
  /\ Lifecycle!Close <=> isClosing' = TRUE /\ UNCHANGED <<Phase, Needs>>
BY DEF Lifecycle!Create, Lifecycle!Start, Lifecycle!Finish, Lifecycle!Signal, Lifecycle!Abort,
       Lifecycle!Close, Phase, Needs

LEMMA LifecycleNext ==
  /\ \A j \in Jobs : \A D \in SUBSET Jobs : Lifecycle!Create(j, D) => Lifecycle!Next
  /\ \A j \in Jobs : Lifecycle!Start(j) \/ Lifecycle!Abort(j) => Lifecycle!Next
  /\ \A j \in Jobs : \A how \in {"succeeded", "failed"} :
       Lifecycle!Finish(j, how) \/ Lifecycle!Signal(j, how) => Lifecycle!Next
  /\ Lifecycle!Close => Lifecycle!Next
BY DEF Lifecycle!Next, Lifecycle!Ended

LEMMA CreateJobCreates ==
  ASSUME NameFailed = FALSE, IInv, LInv,
         NEW t \in Threads, NEW j \in Jobs, NEW c \in Types, NEW D \in SUBSET Jobs,
         CreateJob(t, j, c, D)
  PROVE  Lifecycle!Next
<1> DEFINE open == {d \in D : ~job[d].completed}
<1>1. /\ job[j].made = "no" /\ D \subseteq Made /\ isClosing' = isClosing
      /\ job' = [k \in Jobs |->
                   IF k = j THEN [NewJob(c, D, TRUE) EXCEPT
                                    !.numWaiting = Cardinality(open), !.completed = FALSE, !.failed = FALSE]
                   ELSE IF k \in open THEN [job[k] EXCEPT !.downs = job[k].downs \cup {j}]
                   ELSE job[k]]
  BY DEF CreateJob
<1>2. \A k \in Jobs : job[k] \in JobState
  BY DEF IInv, TypeOK
<1> HIDE DEF open
<1>3. job'[j].made = "making" /\ ~job'[j].completed /\ job'[j].runs = 0 /\ job'[j].deps = D
  BY <1>1 DEF NewJob
<1>4. ASSUME NEW k \in Jobs \ {j}
      PROVE  SamePhase(k)
  <2>1. job'[k] = job[k] \/ job'[k] = [job[k] EXCEPT !.downs = job[k].downs \cup {j}]
    BY <1>1
  <2>2. /\ job'[k].made = job[k].made /\ job'[k].completed = job[k].completed
        /\ job'[k].failed = job[k].failed /\ job'[k].runs = job[k].runs /\ job'[k].deps = job[k].deps
    BY <1>2, <2>1 DEF JobState
  <2> QED
    BY <2>2, SamePhases
<1>5. Phase[j] = "absent" /\ \A d \in D : Phase[d] # "absent"
  BY <1>1, PhasesAre DEF Phase, Made, PhaseOf
<1>6. PhaseOf(j)' = "waiting"
  <2>1. ~(job'[j].runs > 0)
    BY <1>3
  <2> QED
    BY <1>3, <2>1, NewPhasesAre
<1>7. Phase' = [Phase EXCEPT ![j] = "waiting"] /\ Needs' = [Needs EXCEPT ![j] = D]
  BY <1>3, <1>4, <1>6, OnePhase
<1>8. Lifecycle!Create(j, D)
  BY <1>1, <1>5, <1>7, LifecycleSteps
<1> QED
  BY <1>8, LifecycleNext

LEMMA CreateSignaledJobCreates ==
  ASSUME IInv, NEW t \in Threads, NEW j \in Jobs, CreateSignaledJob(t, j)
  PROVE  Lifecycle!Next
<1>1. /\ job[j].made = "no" /\ isClosing' = isClosing
      /\ job' = [job EXCEPT ![j] = [NewJob(NormalPriority, {}, FALSE) EXCEPT !.made = "yes", !.signaler = "held"]]
  BY DEF CreateSignaledJob
<1>2. job \in [Jobs -> JobState]
  BY DEF IInv, TypeOK
<1>3. job'[j].made = "yes" /\ ~job'[j].completed /\ ~(job'[j].runs > 0) /\ job'[j].deps = {}
  BY <1>1, <1>2 DEF NewJob
<1>4. \A k \in Jobs \ {j} : SamePhase(k)
  <2>1. \A k \in Jobs \ {j} : job'[k] = job[k]
    BY <1>1, <1>2
  <2> QED
    BY <2>1, SamePhases
<1>5. Phase[j] = "absent" /\ PhaseOf(j)' = "waiting"
  BY <1>1, <1>3, PhasesAre, NewPhasesAre DEF Phase
<1>6. Phase' = [Phase EXCEPT ![j] = "waiting"] /\ Needs' = [Needs EXCEPT ![j] = {}]
  BY <1>3, <1>4, <1>5, OnePhase
<1>7. PICK D \in SUBSET Jobs : D = {}
  OBVIOUS
<1>8. \A d \in D : Phase[d] # "absent"
  BY <1>7
<1>9. Needs' = [Needs EXCEPT ![j] = D]
  BY <1>6, <1>7
<1>10. Lifecycle!Create(j, D)
  BY <1>1, <1>5, <1>6, <1>8, <1>9, LifecycleSteps
<1> QED
  BY <1>10, LifecycleNext

LEMMA RunEnterStarts ==
  ASSUME IInv, LInv, NEW t \in Threads, RunEnter(t)
  PROVE  Lifecycle!Next \/ UNCHANGED <<Phase, Needs, isClosing>>
<1>1. PICK j \in Jobs : j = fr[t].job /\ fr[t].op = "enter"
  BY InvFacts DEF RunEnter, JobOps
<1>2. isClosing' = isClosing
  BY DEF RunEnter
<1>3. job \in [Jobs -> JobState] /\ job[j] \in JobState
  BY InvFacts
<1>4. CASE ~job[j].depFailed /\ job' = [job EXCEPT ![j].runs = @ + 1]
  <2>1. HolderOK(fr[t], j)
    BY <1>1, HoldsAre, HoldsTop
  <2>2. job[j].made # "no" /\ Unrun(j) /\ DepsDone(j)
    BY <1>1, <1>4, <2>1, ReadyJob DEF HolderOK
  <2>3. /\ job'[j].runs = job[j].runs + 1 /\ job'[j].made = job[j].made
        /\ job'[j].completed = job[j].completed /\ job'[j].deps = job[j].deps
    <3>1. job'[j] = [job[j] EXCEPT !.runs = job[j].runs + 1]
      BY <1>3, <1>4
    <3> QED
      BY <1>3, <3>1 DEF JobState
  <2>4. job[j].runs = 0 /\ ~(job[j].runs > 0) /\ job'[j].runs > 0
    BY <2>2, <2>3 DEF Unrun
  <2>5. PhaseOf(j) = "waiting" /\ PhaseOf(j)' = "running"
    BY <2>2, <2>3, <2>4, PhasesAre, NewPhasesAre DEF Unrun
  <2>6. \A d \in job[j].deps : d \in Jobs /\ PhaseOf(d) = "succeeded"
    <3>1. \A d \in job[j].deps : d \in Jobs /\ job[d].completed /\ ~job[d].failed
      BY <1>3, <2>2 DEF JobState, DepsDone, Succeeded
    <3> QED
      BY <3>1, MadeJobs, PhasesAre
  <2>7. \A k \in Jobs \ {j} : SamePhase(k)
    <3>1. \A k \in Jobs \ {j} : job'[k] = job[k]
      BY <1>3, <1>4
    <3> QED
      BY <3>1, SamePhases
  <2>8. /\ Phase[j] = "waiting" /\ \A d \in Needs[j] : Phase[d] = "succeeded"
        /\ Phase' = [Phase EXCEPT ![j] = "running"] /\ UNCHANGED Needs
    <3>1. Phase[j] = "waiting" /\ \A d \in Needs[j] : Phase[d] = "succeeded"
      BY <2>5, <2>6 DEF Phase, Needs
    <3>2. Phase' = [Phase EXCEPT ![j] = "running"] /\ UNCHANGED Needs
      BY <2>3, <2>5, <2>7, OnePhase
    <3> QED
      BY <3>1, <3>2
  <2>9. Lifecycle!Start(j)
    BY <1>2, <2>8, LifecycleSteps
  <2> QED
    BY <2>9, LifecycleNext
<1>5. CASE job' = [job EXCEPT ![j].runner = FALSE] \/ job' = job
  BY <1>2, <1>5, QuietFields
<1> QED
  BY <1>1, <1>4, <1>5 DEF RunEnter

LEMMA JobDonePublishEnds ==
  ASSUME IInv, DInv, LInv, NEW t \in Threads, JobDonePublish(t)
  PROVE  Lifecycle!Next \/ UNCHANGED <<Phase, Needs, isClosing>>
<1>1. PICK j \in Jobs : j = fr[t].job /\ fr[t].op = "publish" /\ isClosing' = isClosing
  BY InvFacts DEF JobDonePublish, JobOps
<1>2. /\ HolderOK(fr[t], j) /\ job[j].made # "no"
      /\ job[j].depFailed => ~fr[t].ok
      /\ job[j].completed => job[j].failed /\ job[j].depFailed
  BY <1>1, DoneJob
<1>3. /\ job'[j].made = job[j].made /\ job'[j].deps = job[j].deps
      /\ job'[j].completed /\ job'[j].failed = ~fr[t].ok
  BY <1>1, DoneFields
<1>4. \A k \in Jobs \ {j} : SamePhase(k)
  <2>1. ASSUME NEW k \in Jobs \ {j}
        PROVE  SamePhase(k)
    <3>1. /\ job'[k].made = job[k].made /\ job'[k].deps = job[k].deps /\ job'[k].runs = job[k].runs
          /\ job'[k].completed = job[k].completed /\ job'[k].failed = job[k].failed
      BY <1>1, DoneFields
    <3> QED
      BY <3>1, SamePhases
  <2> QED
    BY <2>1
<1>5. /\ Phase' = [Phase EXCEPT ![j] = PhaseOf(j)'] /\ UNCHANGED Needs
      /\ Phase[j] = PhaseOf(j) /\ Needs[j] = job[j].deps
      /\ SamePhase(j) => UNCHANGED Phase
  BY <1>3, <1>4, OnePhase DEF Phase, Needs
<1>6. /\ fr[t].ok => PhaseOf(j)' = "succeeded"
      /\ ~fr[t].ok => PhaseOf(j)' = "failed"
  BY <1>2, <1>3, NewPhasesAre
<1>7. LinksOK(j) /\ StateOK(j) /\ job[j] \in JobState
  BY InvFacts DEF LInv, JobFacts
<1>8. CASE job[j].completed
  <2>1. PhaseOf(j) = "failed" /\ PhaseOf(j)' = "failed"
    BY <1>2, <1>6, <1>8, PhasesAre
  <2> QED
    BY <1>1, <1>3, <1>5, <2>1 DEF SamePhase
<1>9. CASE ~job[j].completed /\ job[j].runs > 0
  <2>1. Phase[j] = "running" /\ PhaseOf(j)' \in {"succeeded", "failed"}
    BY <1>2, <1>5, <1>6, <1>9, PhasesAre
  <2>2. Lifecycle!Finish(j, PhaseOf(j)')
    BY <1>1, <1>5, <2>1, LifecycleSteps
  <2> QED
    BY <2>1, <2>2, LifecycleNext
<1>10. CASE ~job[j].completed /\ ~(job[j].runs > 0) /\ job[j].signaler = "done"
  <2>1. /\ Phase[j] = "waiting" /\ PhaseOf(j)' \in {"succeeded", "failed"}
        /\ Needs[j] = {}
    BY <1>2, <1>5, <1>6, <1>7, <1>10, PhasesAre DEF StateOK
  <2>2. Lifecycle!Signal(j, PhaseOf(j)')
    BY <1>1, <1>5, <2>1, LifecycleSteps
  <2> QED
    BY <2>1, <2>2, LifecycleNext
<1>11. CASE ~job[j].completed /\ ~(job[j].runs > 0) /\ job[j].signaler # "done"
  <2>1. ~fr[t].ok /\ (job[j].depFailed \/ isClosing)
    BY <1>1, <1>2, <1>11 DEF HolderOK
  <2>2. job[j].depFailed => \E d \in Needs[j] : Phase[d] = "failed"
    <3>1. ASSUME job[j].depFailed
          PROVE  \E d \in Needs[j] : Phase[d] = "failed"
      <4>1. PICK d \in job[j].deps : job[d].completed /\ job[d].failed
        BY <1>7, <3>1 DEF LinksOK
      <4>2. d \in Jobs
        BY <1>7, <4>1 DEF JobState
      <4>3. PhaseOf(d) = "failed"
        BY <4>1, <4>2, MadeJobs, PhasesAre
      <4> QED
        BY <1>5, <4>1, <4>2, <4>3 DEF Phase
    <3> QED
      BY <3>1
  <2>3. Phase[j] = "waiting" /\ PhaseOf(j)' = "failed"
    BY <1>2, <1>5, <1>6, <1>11, <2>1, PhasesAre
  <2>4. Lifecycle!Abort(j)
    BY <1>1, <1>5, <2>1, <2>2, <2>3, LifecycleSteps
  <2> QED
    BY <2>4, LifecycleNext
<1> QED
  BY <1>8, <1>9, <1>10, <1>11

(* The steps that neither make, start nor end a job.                       *)
LEMMA OtherClientSteps ==
  ASSUME IInv, LInv, NEW t \in Threads,
         \/ \E j \in Jobs, ok \in BOOLEAN : SignalDone(t, j, ok)
         \/ \E j \in Jobs : CallWaitForJob(t, j)
         \/ \E b \in BOOLEAN : WaitForWork(t, b)
  PROVE  UNCHANGED <<Phase, Needs, isClosing>>
<1>1. ASSUME NEW j \in Jobs, NEW ok \in BOOLEAN, SignalDone(t, j, ok)
      PROVE  UNCHANGED <<Phase, Needs, isClosing>>
  BY <1>1, QuietFields DEF SignalDone
<1>2. ASSUME NEW j \in Jobs, CallWaitForJob(t, j)
      PROVE  UNCHANGED <<Phase, Needs, isClosing>>
  BY <1>2, QuietFields DEF CallWaitForJob
<1>3. ASSUME NEW b \in BOOLEAN, WaitForWork(t, b)
      PROVE  UNCHANGED <<Phase, Needs, isClosing>>
  BY <1>3, QuietFields DEF WaitForWork, TakePending, Sleep
<1> QED
  BY <1>1, <1>2, <1>3

LEMMA OtherQueueSteps ==
  ASSUME IInv, DInv, LInv, NEW t \in Threads, QueueStep(t), ~RunEnter(t), ~JobDonePublish(t)
  PROVE  UNCHANGED <<Phase, Needs, isClosing>>
<1>1. CreateReturns(t) => UNCHANGED <<Phase, Needs, isClosing>>
  <2>1. CreateReturns(t) => job[fr[t].job].made # "no"
    <3>1. fr[t].op = "return" => Somewhere(t, fr[t]) /\ fr[t] \in Frame
      BY InvFacts DEF Somewhere
    <3> QED
      BY <3>1 DEF CreateReturns, DInv, MakesOK
  <2> QED
    BY <2>1, QuietFields DEF CreateReturns
<1>2. AddRunnableJob(t) => UNCHANGED <<Phase, Needs, isClosing>>
  <2>1. ASSUME NEW j \in fr[t].jobs, isClosing' = isClosing,
               AddAborts(t, j) \/ AddHandsOver(t, j) \/ AddQueues(t, j)
        PROVE  UNCHANGED <<Phase, Needs, isClosing>>
    BY <2>1, QuietFields DEF AddAborts, AddHandsOver, AddQueues
  <2> QED
    BY <2>1 DEF AddRunnableJob
<1>3. ASSUME NEW ok \in BOOLEAN, RunnerReturns(t, ok)
      PROVE  UNCHANGED <<Phase, Needs, isClosing>>
  BY <1>3, QuietFields DEF RunnerReturns
<1>4. WaitForJob(t) => UNCHANGED <<Phase, Needs, isClosing>>
  BY QuietFields DEF WaitForJob, TakePending, TakeSpecified, Sleep
<1>5. AddMarksStarted(t) => UNCHANGED <<Phase, Needs, isClosing>>
  BY QuietFields DEF AddMarksStarted
<1>6. CreatedJob(t) \/ JobDoneWake(t) \/ Awake(t) => UNCHANGED <<Phase, Needs, isClosing>>
  BY QuietFields DEF CreatedJob, JobDoneWake, Awake
<1>7. CloseAbortsPending(t) \/ CloseUnlinks(t) \/ CloseWakes(t) \/ CloseAwaitsAck(t)
        => UNCHANGED <<Phase, Needs, isClosing>>
  BY QuietFields DEF CloseAbortsPending, CloseUnlinks, CloseWakes, CloseAwaitsAck
<1> QED
  BY <1>1, <1>2, <1>3, <1>4, <1>5, <1>6, <1>7 DEF QueueStep

LEMMA StepIsLifecycle ==
  ASSUME NameFailed = FALSE, IInv, DInv, LInv, [Next]_vars
  PROVE  Lifecycle!Next \/ UNCHANGED <<Phase, Needs, isClosing>>
<1>1. ASSUME NEW t \in Threads, ClientStep(t)
      PROVE  Lifecycle!Next \/ UNCHANGED <<Phase, Needs, isClosing>>
  <2>1. ASSUME NEW j \in Jobs, NEW c \in Types, NEW D \in SUBSET Jobs, CreateJob(t, j, c, D)
        PROVE  Lifecycle!Next
    BY <2>1, CreateJobCreates
  <2>2. ASSUME NEW j \in Jobs, CreateSignaledJob(t, j)
        PROVE  Lifecycle!Next
    BY <2>2, CreateSignaledJobCreates
  <2>3. CallClose(t) => Lifecycle!Next
    <3>1. CallClose(t) => isClosing' = TRUE /\ UNCHANGED <<Phase, Needs>>
      BY DEF CallClose, Phase, Needs, PhaseOf
    <3> QED
      BY <3>1, LifecycleSteps, LifecycleNext
  <2> QED
    BY <1>1, <2>1, <2>2, <2>3, OtherClientSteps DEF ClientStep
<1>2. ASSUME NEW t \in Threads, QueueStep(t)
      PROVE  Lifecycle!Next \/ UNCHANGED <<Phase, Needs, isClosing>>
  BY <1>2, RunEnterStarts, JobDonePublishEnds, OtherQueueSteps
<1>3. UNCHANGED vars => UNCHANGED <<Phase, Needs, isClosing>>
  BY DEF vars, Phase, Needs, PhaseOf
<1> QED
  BY <1>1, <1>2, <1>3 DEF Next, Step

(* The queue implements JobLifecycle: a job runs at most once and only     *)
(* after all its dependencies succeeded, it is aborted only if one failed  *)
(* or the queue is closing, and what became of it stays so.                *)
THEOREM JobQueueKeepsLifecycle ==
  ASSUME "created" \in Uninterrupted, NameFailed = FALSE
  PROVE  Spec => KeepsLifecycle
<1>1. Init => Lifecycle!Init
  <2>1. ASSUME Init
        PROVE  isClosing = FALSE /\ \A j \in Jobs : PhaseOf(j) = "absent" /\ job[j].deps = {}
    BY <2>1 DEF Init, PhaseOf, NoJobYet, NewJob
  <2> QED
    BY <2>1 DEF Lifecycle!Init
<1>2. IInv /\ DInv /\ LInv /\ [Next]_vars => [Lifecycle!Next]_(Lifecycle!lifecycleVars)
  BY StepIsLifecycle DEF Lifecycle!lifecycleVars, Phase, Needs
<1> QED
  BY <1>1, <1>2, JobQueueLInv, PTL DEF KeepsLifecycle, Lifecycle!Spec, Spec
================================================================================
