---------------------------- MODULE JobQueueProofs ----------------------------
(***************************************************************************)
(* Proofs about JobQueue, for any number of threads and jobs, any calls    *)
(* clients may make and any schedule.                                      *)
(***************************************************************************)
EXTENDS JobQueue, TLAPS, SequenceTheorems, FiniteSetTheorems

(* A frame below which there is nothing: a client that called nothing, or  *)
(* a thread asleep in WaitForWork.                                         *)
Base(f) == f.op = "client" \/ (f.op = "asleep" /\ f.job = NoJob)

(* A thread waits only for a job whose CreateJob has returned.             *)
WaitsForMade(f) == f.op \in {"waitJob", "asleep"} /\ f.job # NoJob => job[f.job].made = "yes"

(* A sleeping thread and a closer about to wake its victim have nothing    *)
(* above them on their stack.                                              *)
Topmost(f) == f.op \in {"asleep", "closeWake"}

StackOK(t) ==
  /\ Base(fr[t]) <=> stack[t] = <<>>
  /\ \A i \in 1..Len(stack[t]) : Base(stack[t][i]) <=> i = Len(stack[t])
  /\ WaitsForMade(fr[t])
  /\ \A i \in 1..Len(stack[t]) : WaitsForMade(stack[t][i]) /\ ~Topmost(stack[t][i])

(* What a thread in a ring or with a signaled wake event is doing, and     *)
(* what it has been given.                                                 *)
Linked(u) == wti[u].catWait # {} \/ wti[u].jobWait # NoJob
Woke(u)   == wti[u].disp # "Invalid"
Chosen(u) == victim = u /\ \E t \in Threads : fr[t].op = "closeWake"

WaitOK(u) ==
  /\ Linked(u) \/ Woke(u) => fr[u].op = "asleep"
  /\ fr[u].op = "asleep" => Linked(u) \/ Woke(u) \/ Chosen(u)
  /\ ~(Linked(u) /\ Woke(u))
  /\ wti[u].jobWait # NoJob => fr[u].job = wti[u].jobWait
  /\ wti[u].disp \in {"DequeuedWork", "StartedByThisThread"} => wti[u].job \in Jobs
  /\ wti[u].disp = "StartedByThisThread" => fr[u].job # NoJob

(* At most one thread closes the queue, and the thread it is about to wake *)
(* is asleep and in no ring.                                               *)
HasClose(t) == \/ fr[t].op \in CloseOps
               \/ \E i \in 1..Len(stack[t]) : stack[t][i].op \in CloseOps
CloserOK == /\ ~isClosing => \A t \in Threads : ~HasClose(t)
            /\ \A t, u \in Threads : HasClose(t) /\ HasClose(u) => t = u
VictimOK == \A t \in Threads : fr[t].op = "closeWake" =>
              /\ victim \in Threads /\ fr[victim].op = "asleep"
              /\ wti[victim] = Unlinked

IInv ==
  /\ TypeOK
  /\ \A t \in Threads : StackOK(t)
  /\ \A u \in Threads : WaitOK(u)
  /\ CloserOK /\ VictimOK
  /\ NoLostWork /\ NoLostCompletion

-----------------------------------------------------------------------------
(* Call stacks.                                                            *)

(* fs may take the place of t's frame.                                     *)
Replaces(t, fs) ==
  /\ fs \in Seq(Frame)
  /\ Base(fr[t]) => fs # <<>> /\ Base(fs[Len(fs)])
                    /\ \A i \in 1..(Len(fs) - 1) : ~Base(fs[i])
  /\ ~Base(fr[t]) => \A i \in 1..Len(fs) : ~Base(fs[i])
  /\ \A i \in 1..Len(fs) : WaitsForMade(fs[i])
  /\ \A i \in 2..Len(fs) : ~Topmost(fs[i])

(* t's call stack after its frame is replaced by fs.                       *)
StackAfter(t, fs) ==
  /\ fr' \in [Threads -> Frame]
  /\ stack' \in [Threads -> Seq(Frame)]
  /\ \A u \in Threads \ {t} : fr'[u] = fr[u] /\ stack'[u] = stack[u]
  /\ fs # <<>> => fr'[t] = fs[1]
  /\ fs = <<>> => fr'[t] = stack[t][1] /\ stack[t] # <<>>
  /\ Base(fr'[t]) <=> stack'[t] = <<>>
  /\ \A i \in 1..Len(stack'[t]) : Base(stack'[t][i]) <=> i = Len(stack'[t])
  /\ \A i \in 1..Len(stack'[t]) :
       \/ \E k \in 2..Len(fs) : stack'[t][i] = fs[k]
       \/ \E k \in 1..Len(stack[t]) : stack'[t][i] = stack[t][k]

(* Replacing a thread's frame by frames of the right shape keeps its call  *)
(* stack well formed.                                                      *)
LEMMA ProceedOK ==
  ASSUME TypeOK, NEW t \in Threads, StackOK(t),
         NEW fs, Replaces(t, fs), Proceed(t, fs)
  PROVE  StackAfter(t, fs)
<1> DEFINE old == stack[t]
           s   == fs \o old
<1>0. /\ fs \in Seq(Frame)
      /\ Base(fr[t]) => fs # <<>> /\ Base(fs[Len(fs)])
                        /\ \A i \in 1..(Len(fs) - 1) : ~Base(fs[i])
      /\ ~Base(fr[t]) => \A i \in 1..Len(fs) : ~Base(fs[i])
  BY DEF Replaces
<1>1. /\ old \in Seq(Frame) /\ fr[t] \in Frame
      /\ fr \in [Threads -> Frame] /\ stack \in [Threads -> Seq(Frame)]
  BY DEF TypeOK
<1>2. /\ Base(fr[t]) <=> old = <<>>
      /\ \A i \in 1..Len(old) : Base(old[i]) <=> i = Len(old)
  BY DEF StackOK
<1>3. /\ s \in Seq(Frame)
      /\ Len(s) = Len(fs) + Len(old)
      /\ \A i \in 1..Len(fs) + Len(old) : s[i] = IF i <= Len(fs) THEN fs[i] ELSE old[i - Len(fs)]
  BY <1>0, <1>1, ConcatProperties
<1>4. /\ Len(fs) \in Nat /\ Len(old) \in Nat
      /\ fs = <<>> <=> Len(fs) = 0
      /\ old = <<>> <=> Len(old) = 0
  BY <1>0, <1>1, EmptySeq, LenProperties
<1>5. Len(s) > 0
  BY <1>0, <1>2, <1>3, <1>4
<1>6. s # <<>>
  BY <1>3, <1>5, EmptySeq
<1> HIDE DEF s
<1>7. /\ Head(s) \in Frame /\ Head(s) = s[1]
      /\ Tail(s) \in Seq(Frame)
      /\ Len(Tail(s)) = Len(s) - 1
      /\ \A i \in 1..Len(Tail(s)) : Tail(s)[i] = s[i + 1]
  BY <1>3, <1>6, HeadTailProperties
<1>8. fr' = [fr EXCEPT ![t] = Head(s)] /\ stack' = [stack EXCEPT ![t] = Tail(s)]
  BY DEF Proceed, s
<1>9. fr'[t] = s[1] /\ stack'[t] = Tail(s)
  BY <1>1, <1>7, <1>8
<1>10. \A i \in 1..Len(s) : Base(s[i]) <=> i = Len(s)
  <2>1. CASE Base(fr[t])
    <3>1. old = <<>> /\ Len(s) = Len(fs)
      BY <2>1, <1>2, <1>3, <1>4
    <3> QED
      BY <2>1, <3>1, <1>0, <1>3, <1>4
  <2>2. CASE ~Base(fr[t])
    <3>1. SUFFICES ASSUME NEW i \in 1..Len(s)
                   PROVE  Base(s[i]) <=> i = Len(s)
      OBVIOUS
    <3>2. CASE i <= Len(fs)
      <4>1. s[i] = fs[i] /\ i # Len(s)
        BY <3>2, <2>2, <1>2, <1>3, <1>4
      <4> QED
        BY <4>1, <3>2, <2>2, <1>0, <1>4
    <3>3. CASE ~(i <= Len(fs))
      <4>1. s[i] = old[i - Len(fs)] /\ i - Len(fs) \in 1..Len(old)
        BY <3>3, <1>3, <1>4
      <4> QED
        BY <4>1, <1>2, <1>3, <1>4
    <3> QED
      BY <3>2, <3>3
  <2> QED
    BY <2>1, <2>2
<1>11. Base(s[1]) <=> Tail(s) = <<>>
  <2>1. Tail(s) = <<>> <=> Len(Tail(s)) = 0
    BY <1>7, EmptySeq
  <2>2. Len(s) \in Nat /\ 1 \in 1..Len(s)
    BY <1>3, <1>4, <1>5
  <2>3. Base(s[1]) <=> 1 = Len(s)
    BY <2>2, <1>10
  <2> QED
    BY <2>1, <2>2, <2>3, <1>7
<1>12. \A i \in 1..Len(Tail(s)) : Base(Tail(s)[i]) <=> i = Len(Tail(s))
  BY <1>3, <1>4, <1>5, <1>7, <1>10
<1>13. \A i \in 1..Len(Tail(s)) : \/ \E k \in 2..Len(fs) : Tail(s)[i] = fs[k]
                                  \/ \E k \in 1..Len(old) : Tail(s)[i] = old[k]
  BY <1>3, <1>4, <1>5, <1>7
<1>14. fs # <<>> => s[1] = fs[1]
  BY <1>3, <1>4
<1>15. fs = <<>> => s[1] = old[1] /\ old # <<>>
  BY <1>3, <1>4, <1>5
<1> QED
  BY <1>1, <1>7, <1>8, <1>9, <1>11, <1>12, <1>13, <1>14, <1>15 DEF StackAfter

(* So a step of t keeps every call stack well formed, if no job is unmade. *)
LEMMA StacksOK ==
  ASSUME TypeOK, \A u \in Threads : StackOK(u),
         NEW t \in Threads, NEW fs, Replaces(t, fs), Proceed(t, fs),
         \A k \in Jobs : job[k].made = "yes" => job'[k].made = "yes"
  PROVE  /\ StackAfter(t, fs)
         /\ \A u \in Threads : StackOK(u)'
         /\ \A u \in Threads : HasClose(u)' =>
              \/ HasClose(u)
              \/ u = t /\ \E k \in 1..Len(fs) : fs[k].op \in CloseOps
<1>1. StackAfter(t, fs)
  BY ProceedOK
<1> DEFINE Still(f) == f.op \in {"waitJob", "asleep"} /\ f.job # NoJob => job'[f.job].made = "yes"
           Fine(f)  == Still(f) /\ ~Topmost(f)
<1>2. \A f \in Frame : WaitsForMade(f) => Still(f)
  BY DEF WaitsForMade, Frame, JobOps, OtherOps
<1>3. /\ fs \in Seq(Frame) /\ \A i \in 1..Len(fs) : fs[i] \in Frame
      /\ Len(fs) \in Nat /\ (fs # <<>> => 1 \in 1..Len(fs))
  BY ElementOfSeq, EmptySeq, LenProperties DEF Replaces
<1>4. /\ \A i \in 1..Len(fs) : Still(fs[i])
      /\ \A i \in 2..Len(fs) : Fine(fs[i])
  BY <1>2, <1>3 DEF Replaces
<1>5. ASSUME NEW u \in Threads
      PROVE  /\ Still(fr[u])
             /\ \A i \in 1..Len(stack[u]) : Fine(stack[u][i])
             /\ stack[u] # <<>> => 1 \in 1..Len(stack[u])
  <2>1. /\ fr[u] \in Frame /\ stack[u] \in Seq(Frame)
        /\ \A i \in 1..Len(stack[u]) : stack[u][i] \in Frame
        /\ stack[u] # <<>> => 1 \in 1..Len(stack[u])
    BY ElementOfSeq, EmptySeq DEF TypeOK
  <2> QED
    BY <1>2, <2>1 DEF StackOK
<1>6. ASSUME NEW u \in Threads
      PROVE  StackOK(u)'
  <2>1. CASE u # t
    BY <2>1, <1>1, <1>5, SMTT(30) DEF StackAfter, StackOK, WaitsForMade, Base, Topmost
  <2>2. CASE u = t
    <3>1. Still(fr'[t])
      <4>1. CASE fs # <<>>
        BY <4>1, <1>1, <1>3, <1>4 DEF StackAfter
      <4>2. CASE fs = <<>>
        BY <4>2, <1>1, <1>5, <2>2 DEF StackAfter
      <4> QED
        BY <4>1, <4>2
    <3>2. \A i \in 1..Len(stack'[t]) : Fine(stack'[t][i])
      <4>1. SUFFICES ASSUME NEW i \in 1..Len(stack'[t])
                     PROVE  Fine(stack'[t][i])
        OBVIOUS
      <4>2. CASE \E k \in 2..Len(fs) : stack'[t][i] = fs[k]
        BY <4>2, <1>4
      <4>3. CASE \E k \in 1..Len(stack[t]) : stack'[t][i] = stack[t][k]
        BY <4>3, <1>5
      <4> HIDE DEF Fine
      <4> QED
        BY <4>2, <4>3, <1>1 DEF StackAfter
    <3> QED
      BY <3>1, <3>2, <2>2, <1>1 DEF StackAfter, StackOK, WaitsForMade, Base, Topmost
  <2> QED
    BY <2>1, <2>2
<1>7. ASSUME NEW u \in Threads, HasClose(u)', ~HasClose(u)
      PROVE  u = t /\ \E k \in 1..Len(fs) : fs[k].op \in CloseOps
  <2>1. u = t
    BY <1>1, <1>7 DEF StackAfter, HasClose
  <2>2. CASE fr'[t].op \in CloseOps
    BY <2>1, <2>2, <1>1, <1>3, <1>5, <1>7 DEF StackAfter, HasClose
  <2>3. CASE \E i \in 1..Len(stack'[t]) : stack'[t][i].op \in CloseOps
    <3>1. PICK i \in 1..Len(stack'[t]) : stack'[t][i].op \in CloseOps
      BY <2>3
    <3>2. \E k \in 2..Len(fs) : stack'[t][i] = fs[k]
      BY <3>1, <2>1, <1>1, <1>7 DEF StackAfter, HasClose
    <3> QED
      BY <3>1, <3>2, <2>1, <1>3
  <2> QED
    BY <2>1, <2>2, <2>3, <1>7 DEF HasClose
<1> QED
  BY <1>1, <1>6, <1>7

-----------------------------------------------------------------------------
(* Frames and job states.                                                  *)

LEMMA FramesOK ==
  /\ \A op \in JobOps, j \in Jobs, b \in BOOLEAN : JobFrame(op, j, b) \in Frame
  /\ \A op \in OtherOps, j \in Jobs \cup {NoJob}, b \in BOOLEAN : JobFrame(op, j, b) \in Frame
  /\ \A S \in SUBSET Jobs : AddsFrame(S) \in Frame
  /\ \A b \in BOOLEAN : Client(b) \in Frame
  /\ \A f \in Frame : f.op \in JobOps => f.job \in Jobs
  /\ \A f \in Frame : /\ f.op \in JobOps \cup OtherOps /\ f.ok \in BOOLEAN
                      /\ f.jobs \subseteq Jobs /\ f.job \in Jobs \cup {NoJob}
BY DEF Frame, JobOps, OtherOps, JobFrame, AddsFrame, Client

(* One frame, or two, in the place of a frame that is not a base.          *)
LEMMA ReplaceInner ==
  ASSUME NEW t, ~Base(fr[t]), NEW f \in Frame, ~Base(f), WaitsForMade(f)
  PROVE  /\ Replaces(t, <<f>>)
         /\ \A g \in Frame : ~Base(g) /\ WaitsForMade(g) /\ ~Topmost(g) => Replaces(t, <<f, g>>)
         /\ Replaces(t, <<>>)
BY DEF Replaces

(* A base may be replaced by a base, with a frame above it or not.         *)
LEMMA ReplaceBase ==
  ASSUME NEW t, Base(fr[t]), NEW g \in Frame, Base(g), WaitsForMade(g)
  PROVE  /\ Replaces(t, <<g>>)
         /\ \A f \in Frame : ~Base(f) /\ WaitsForMade(f) /\ ~Topmost(g) => Replaces(t, <<f, g>>)
BY DEF Replaces

(* The state of a job after the changes the queue makes to it.             *)
LEMMA JobStateOK ==
  ASSUME NEW r \in JobState
  PROVE  /\ \A b \in BOOLEAN : [r EXCEPT !.started = b] \in JobState
         /\ \A b \in BOOLEAN : [r EXCEPT !.queued = b] \in JobState
         /\ \A b \in BOOLEAN : [r EXCEPT !.runner = b] \in JobState
         /\ [r EXCEPT !.queued = TRUE, !.started = TRUE] \in JobState
         /\ [r EXCEPT !.made = "yes"] \in JobState
         /\ [r EXCEPT !.signaler = "done"] \in JobState
         /\ [r EXCEPT !.runs = r.runs + 1] \in JobState
         /\ \A b, c \in BOOLEAN : [r EXCEPT !.completed = b, !.failed = c] \in JobState
         /\ \A b \in BOOLEAN : [r EXCEPT !.numWaiting = r.numWaiting - 1, !.depFailed = b] \in JobState
         /\ \A j \in Jobs : [r EXCEPT !.downs = r.downs \cup {j}] \in JobState
<1>1. \A b \in BOOLEAN : [r EXCEPT !.started = b] \in JobState
  BY DEF JobState
<1>2. \A b \in BOOLEAN : [r EXCEPT !.queued = b] \in JobState
  BY DEF JobState
<1>3. \A b \in BOOLEAN : [r EXCEPT !.runner = b] \in JobState
  BY DEF JobState
<1>4. [r EXCEPT !.queued = TRUE, !.started = TRUE] \in JobState
  BY DEF JobState
<1>5. [r EXCEPT !.made = "yes"] \in JobState
  BY DEF JobState
<1>6. [r EXCEPT !.signaler = "done"] \in JobState
  BY DEF JobState
<1>7. [r EXCEPT !.runs = r.runs + 1] \in JobState
  BY DEF JobState
<1>8. \A b, c \in BOOLEAN : [r EXCEPT !.completed = b, !.failed = c] \in JobState
  BY DEF JobState
<1>9. \A b \in BOOLEAN : [r EXCEPT !.numWaiting = r.numWaiting - 1, !.depFailed = b] \in JobState
  <2>1. \A n \in Int, b \in BOOLEAN : [r EXCEPT !.numWaiting = n, !.depFailed = b] \in JobState
    BY DEF JobState
  <2>2. r.numWaiting - 1 \in Int
    BY DEF JobState
  <2> QED
    BY <2>1, <2>2
<1>10. \A j \in Jobs : [r EXCEPT !.downs = r.downs \cup {j}] \in JobState
  BY DEF JobState
<1> QED
  BY <1>1, <1>2, <1>3, <1>4, <1>5, <1>6, <1>7, <1>8, <1>9, <1>10

-----------------------------------------------------------------------------
(* Steps that leave the rings and wake events alone.                       *)

(* Jobs stay made, and no job but those of done becomes completed unless   *)
(* nobody can be waiting for it.                                           *)
JobsKeep(done) ==
  \A k \in Jobs : job[k].made = "yes" =>
    /\ job'[k].made = "yes"
    /\ job'[k].completed => job[k].completed \/ k \in done

(* The waits after a step of t that touches neither wti nor victim.        *)
LEMMA WaitsUndisturbed ==
  ASSUME IInv, NEW t \in Threads, NEW fs, StackAfter(t, fs),
         wti' = wti, victim' = victim,
         ~Topmost(fr[t]), ~Topmost(fr'[t])
  PROVE  (\A u \in Threads : WaitOK(u)') /\ VictimOK'
<1>1. \A u \in Threads : WaitOK(u)'
  <2>1. SUFFICES ASSUME NEW u \in Threads
                 PROVE  WaitOK(u)'
    OBVIOUS
  <2>2. CASE u = t
    BY <2>2 DEF IInv, WaitOK, Linked, Woke, Topmost
  <2>3. CASE u # t
    <3>1. Chosen(u) => Chosen(u)'
      BY DEF Chosen, StackAfter, Topmost
    <3> QED
      BY <2>3, <3>1 DEF IInv, WaitOK, Linked, Woke, StackAfter
  <2> QED
    BY <2>2, <2>3
<1>2. VictimOK'
  BY DEF IInv, VictimOK, StackAfter, Topmost
<1> QED
  BY <1>1, <1>2

(* The frame on top after the step.                                        *)
LEMMA NewTop ==
  ASSUME IInv, NEW t \in Threads, NEW fs, StackAfter(t, fs)
  PROVE  /\ fs # <<>> => fr'[t] = fs[1]
         /\ fs = <<>> => ~Topmost(fr'[t])
<1>1. stack[t] # <<>> => 1 \in 1..Len(stack[t])
  BY EmptySeq DEF IInv, TypeOK
<1> QED
  BY <1>1 DEF IInv, StackOK, StackAfter

(* The closer after a step.                                                *)
LEMMA CloserKept ==
  ASSUME CloserOK, isClosing' = isClosing, NEW t \in Threads, NEW fs,
         \A u \in Threads : HasClose(u)' =>
              \/ HasClose(u)
              \/ u = t /\ \E k \in 1..Len(fs) : fs[k].op \in CloseOps,
         (\E k \in 1..Len(fs) : fs[k].op \in CloseOps) => HasClose(t)
  PROVE  CloserOK'
BY DEF CloserOK

(* fs may take the place of t's frame in a step that neither puts t to     *)
(* sleep nor starts closing.                                               *)
Ready(t, fs) == /\ Replaces(t, fs)
                /\ fs # <<>> => ~Topmost(fs[1])
                /\ (\E k \in 1..Len(fs) : fs[k].op \in CloseOps) => HasClose(t)

(* Jobs may be pending only if no thread waits for their type.             *)
PendingOK == /\ pending' \in [Types -> Seq(Jobs)]
             /\ \A c \in Types : pending'[c] # <<>> => \A u \in Threads : c \notin wti[u].catWait

(* The waits for jobs after a step of t that wakes nobody else for a job:  *)
(* a job it completes is in the frame of its JobDone.                      *)
LEMMA CompletionKept ==
  ASSUME IInv, NEW t \in Threads, NEW fs, StackAfter(t, fs), NEW done, JobsKeep(done),
         fr[t].op # "wake",
         \A k \in done : fr'[t].op = "wake" /\ fr'[t].job = k,
         \A u \in Threads : wti'[u].jobWait # NoJob =>
            \/ wti'[u].jobWait = wti[u].jobWait
            \/ ~job'[wti'[u].jobWait].completed
  PROVE  NoLostCompletion'
<1>1. SUFFICES ASSUME NEW u \in Threads, wti'[u].jobWait # NoJob,
                      job'[wti'[u].jobWait].completed
               PROVE  \E v \in Threads : fr'[v].op = "wake" /\ fr'[v].job = wti'[u].jobWait
  BY DEF NoLostCompletion
<1> DEFINE k == wti[u].jobWait
<1>2. wti'[u].jobWait = k /\ k # NoJob /\ job'[k].completed
  BY <1>1
<1>3. k \in Jobs /\ job[k].made = "yes"
  <2>1. k \in Jobs
    BY <1>2 DEF IInv, TypeOK, WaitInfo
  <2>2. fr[u].op = "asleep" /\ fr[u].job = k
    BY <1>2 DEF IInv, WaitOK, Linked
  <2>3. WaitsForMade(fr[u])
    BY DEF IInv, StackOK
  <2> QED
    BY <1>2, <2>1, <2>2, <2>3 DEF WaitsForMade
<1>4. CASE k \in done
  BY <1>2, <1>4
<1>5. CASE k \notin done
  <2>1. PICK v \in Threads : fr[v].op = "wake" /\ fr[v].job = k
    BY <1>2, <1>3, <1>5 DEF IInv, NoLostCompletion, JobsKeep
  <2> QED
    BY <2>1, <1>2 DEF StackAfter
<1> QED
  BY <1>4, <1>5

(* A step that leaves the rings alone, and puts no thread to sleep.        *)
LEMMA LocalStep ==
  ASSUME IInv, NEW t \in Threads, NEW fs, Replaces(t, fs), Proceed(t, fs),
         fs # <<>> => ~Topmost(fs[1]), ~Topmost(fr[t]), fr[t].op # "wake",
         job' \in [Jobs -> JobState], NEW done, JobsKeep(done),
         \A k \in done : fs # <<>> /\ fs[1].op = "wake" /\ fs[1].job = k,
         PendingOK, wti' = wti, victim' = victim, termEv' = termEv,
         isClosing' \in BOOLEAN, faulted' \in BOOLEAN, CloserOK'
  PROVE  IInv'
<1>1. StackAfter(t, fs) /\ \A u \in Threads : StackOK(u)'
  BY StacksOK DEF IInv, JobsKeep
<1>2. ~Topmost(fr'[t]) /\ \A k \in done : fr'[t].op = "wake" /\ fr'[t].job = k
  BY <1>1, NewTop
<1>3. (\A u \in Threads : WaitOK(u)') /\ VictimOK'
  BY <1>1, <1>2, WaitsUndisturbed
<1>4. TypeOK'
  BY <1>1 DEF IInv, TypeOK, StackAfter, PendingOK
<1>5. NoLostWork'
  BY DEF NoLostWork, PendingOK
<1>6. NoLostCompletion'
  BY <1>1, <1>2, CompletionKept
<1> QED
  BY <1>1, <1>3, <1>4, <1>5, <1>6 DEF IInv

(* The closer after a step that is Ready.                                  *)
LEMMA ReadyCloser ==
  ASSUME IInv, NEW t \in Threads, NEW fs, Ready(t, fs), Proceed(t, fs),
         NEW done, JobsKeep(done), isClosing' = isClosing
  PROVE  CloserOK'
<1>1. \A u \in Threads : HasClose(u)' =>
         \/ HasClose(u)
         \/ u = t /\ \E k \in 1..Len(fs) : fs[k].op \in CloseOps
  BY StacksOK DEF IInv, JobsKeep, Ready
<1> QED
  BY <1>1, CloserKept DEF IInv, Ready

(* A quiet step changes only jobs, flags and its own stack, and completes  *)
(* no job that could be waited for.                                        *)
LEMMA QuietStep ==
  ASSUME IInv, NEW t \in Threads, NEW fs, Ready(t, fs), Proceed(t, fs),
         job' \in [Jobs -> JobState], JobsKeep({}),
         wti' = wti, pending' = pending, victim' = victim,
         termEv' = termEv, isClosing' = isClosing, faulted' \in BOOLEAN,
         ~Topmost(fr[t]), fr[t].op # "wake"
  PROVE  IInv'
<1>1. PendingOK
  BY DEF PendingOK, IInv, TypeOK, NoLostWork
<1>2. CloserOK'
  BY ReadyCloser
<1>3. isClosing' \in BOOLEAN
  BY DEF IInv, TypeOK
<1> QED
  BY <1>1, <1>2, <1>3, LocalStep DEF Ready

LEMMA InvFacts ==
  ASSUME IInv, NEW t \in Threads
  PROVE  /\ fr[t] \in Frame /\ WaitsForMade(fr[t])
         /\ job \in [Jobs -> JobState]
         /\ fr[t].op \in JobOps => fr[t].job \in Jobs
         /\ fr[t].op \in {"client", "run"} => ~Topmost(fr[t])
         /\ fr[t].op \in {"client", "run"} => WaitsForMade(fr[t])
         /\ fr[t].op \in JobOps => ~Base(fr[t]) /\ ~Topmost(fr[t])
         /\ \A k \in Jobs : job[k] \in JobState
<1>1. fr[t] \in Frame /\ WaitsForMade(fr[t]) /\ job \in [Jobs -> JobState]
  BY DEF IInv, TypeOK, StackOK
<1> QED
  BY <1>1, FramesOK DEF Topmost, Base, JobOps

(* The frames that close the queue, among one or two.                      *)
LEMMA ClosesAmong ==
  ASSUME NEW f, NEW g
  PROVE  /\ (\E k \in 1..Len(<<f, g>>) : <<f, g>>[k].op \in CloseOps)
              => f.op \in CloseOps \/ g.op \in CloseOps
         /\ (\E k \in 1..Len(<<f>>) : <<f>>[k].op \in CloseOps) => f.op \in CloseOps
         /\ ~\E k \in 1..Len(<<>>) : <<>>[k].op \in CloseOps
<1> DEFINE P(x) == x.op \in CloseOps
<1>1. ASSUME \E k \in 1..Len(<<f, g>>) : P(<<f, g>>[k])
      PROVE  P(f) \/ P(g)
  <2>1. PICK k \in 1..Len(<<f, g>>) : P(<<f, g>>[k])
    BY <1>1
  <2>2. k = 1 \/ k = 2
    OBVIOUS
  <2> QED
    BY <2>1, <2>2
<1>2. ASSUME \E k \in 1..Len(<<f>>) : P(<<f>>[k])
      PROVE  P(f)
  <2>1. PICK k \in 1..Len(<<f>>) : P(<<f>>[k])
    BY <1>2
  <2>2. k = 1
    OBVIOUS
  <2> QED
    BY <2>1, <2>2
<1> QED
  BY <1>1, <1>2

(* Frames that may be put anywhere but at the base of a stack.             *)
Good(f) == /\ f \in Frame /\ ~Base(f) /\ ~Topmost(f) /\ WaitsForMade(f)
           /\ f.op \notin CloseOps

LEMMA GoodFrames ==
  /\ \A op \in JobOps \ {"waitJob"}, j \in Jobs, b \in BOOLEAN : Good(JobFrame(op, j, b))
  /\ \A S \in SUBSET Jobs : Good(AddsFrame(S))
BY FramesOK DEF Good, JobOps, Base, Topmost, WaitsForMade, JobFrame, AddsFrame, CloseOps

(* A thread inside the queue goes on with good frames, or returns.         *)
LEMMA InnerReady ==
  ASSUME NEW t, ~Base(fr[t])
  PROVE  /\ Ready(t, <<>>)
         /\ \A f : Good(f) => Ready(t, <<f>>)
         /\ \A f, g : Good(f) /\ Good(g) => Ready(t, <<f, g>>)
<1>1. ASSUME NEW f, Good(f)
      PROVE  /\ Ready(t, <<>>) /\ Ready(t, <<f>>)
             /\ \A g : Good(g) => Ready(t, <<f, g>>)
  BY <1>1, ReplaceInner, ClosesAmong DEF Good, Ready
<1>2. Ready(t, <<>>)
  <2>1. Replaces(t, <<>>)
    BY DEF Replaces
  <2> QED
    BY <2>1, ClosesAmong DEF Ready
<1> QED
  BY <1>1, <1>2

(* Frames pushed by a client of the queue.                                 *)
LEMMA CallReady ==
  ASSUME IInv, NEW t \in Threads, InClient(t), NEW f, Good(f)
  PROVE  Ready(t, <<f, fr[t]>>) /\ ~Topmost(fr[t]) /\ fr[t].op # "wake"
<1>1. fr[t].op \in {"client", "run"}
  BY JobQueueAssumption DEF InClient
<1>2. fr[t] \in Frame /\ WaitsForMade(fr[t]) /\ ~Topmost(fr[t])
  BY <1>1, InvFacts
<1>3. Replaces(t, <<f, fr[t]>>)
  <2>1. CASE Base(fr[t])
    BY <2>1, <1>2, ReplaceBase DEF Good
  <2>2. CASE ~Base(fr[t])
    BY <2>2, <1>2, ReplaceInner DEF Good
  <2> QED
    BY <2>1, <2>2
<1>4. f.op \notin CloseOps /\ fr[t].op \notin CloseOps
  BY <1>1 DEF Good, CloseOps
<1>5. ~\E k \in 1..Len(<<f, fr[t]>>) : <<f, fr[t]>>[k].op \in CloseOps
  BY <1>4, ClosesAmong
<1>6. ~Topmost(<<f, fr[t]>>[1])
  BY DEF Good
<1> QED
  BY <1>1, <1>2, <1>3, <1>5, <1>6 DEF Ready

LEMMA CreateJobOK ==
  ASSUME IInv, NEW t \in Threads, NEW j \in Jobs, NEW c \in Types, NEW D \in SUBSET Jobs,
         CreateJob(t, j, c, D)
  PROVE  IInv'
<1> DEFINE aborted == \E d \in D : job[d].failed
           open    == {d \in D : ~job[d].completed}
           new     == [NewJob(c, D, TRUE) EXCEPT
                        !.numWaiting = IF aborted THEN 0 ELSE Cardinality(open),
                        !.completed = aborted, !.failed = aborted]
           f       == JobFrame("created", j, TRUE)
<1>1. Good(f)
  BY GoodFrames DEF JobOps
<1>2. Ready(t, <<f, fr[t]>>) /\ ~Topmost(fr[t]) /\ fr[t].op # "wake"
  BY <1>1, CallReady DEF CreateJob
<1>3. Cardinality(open) \in Nat
  BY JobQueueAssumption, FS_Subset, FS_CardinalityType
<1>4. new \in JobState /\ new.made = "making"
  <2>1. aborted \in BOOLEAN /\ (IF aborted THEN 0 ELSE Cardinality(open)) \in Int
    BY <1>3
  <2> HIDE DEF aborted, open
  <2> QED
    BY <2>1 DEF NewJob, JobState
<1>5. job' \in [Jobs -> JobState]
  <2>1. job' = [k \in Jobs |->
                   IF k = j THEN new
                   ELSE IF k \in open /\ ~aborted THEN [job[k] EXCEPT !.downs = @ \cup {j}]
                   ELSE job[k]]
    BY DEF CreateJob
  <2>2. \A k \in Jobs : job[k] \in JobState
    BY InvFacts
  <2>3. \A k \in Jobs : [job[k] EXCEPT !.downs = @ \cup {j}] \in JobState
    BY <2>2, JobStateOK
  <2> HIDE DEF new, aborted, open
  <2> QED
    BY <2>1, <2>2, <2>3, <1>4
<1>6. JobsKeep({})
  <2>1. \A k \in Jobs \ {j} : job'[k].made = job[k].made /\ job'[k].completed = job[k].completed
    BY InvFacts DEF CreateJob, JobState
  <2>2. job[j].made = "no"
    BY DEF CreateJob
  <2> QED
    BY <2>1, <2>2 DEF JobsKeep
<1>7. Proceed(t, <<f, fr[t]>>)
  BY DEF CreateJob, Call
<1>8. faulted' \in BOOLEAN
  BY DEF CreateJob, IInv, TypeOK
<1> HIDE DEF f
<1> QED
  BY <1>2, <1>5, <1>6, <1>7, <1>8, QuietStep DEF CreateJob

(* A client's frame is replaced by a client's.                             *)
LEMMA ClientReady ==
  ASSUME NEW t, fr[t].op = "client", fr[t] \in Frame
  PROVE  /\ \A b \in BOOLEAN : Ready(t, <<Client(b)>>)
         /\ \A f : \A b \in BOOLEAN : Good(f) => Ready(t, <<f, Client(b)>>)
<1>1. Base(fr[t])
  BY DEF Base
<1>2. ASSUME NEW b \in BOOLEAN
      PROVE  /\ Client(b) \in Frame /\ Base(Client(b)) /\ WaitsForMade(Client(b))
             /\ ~Topmost(Client(b)) /\ Client(b).op \notin CloseOps
  BY FramesOK DEF Client, JobFrame, Base, WaitsForMade, Topmost, CloseOps
<1>3. ASSUME NEW b \in BOOLEAN
      PROVE  Ready(t, <<Client(b)>>)
  BY <1>1, <1>2, ReplaceBase, ClosesAmong DEF Ready
<1>4. ASSUME NEW f, NEW b \in BOOLEAN, Good(f)
      PROVE  Ready(t, <<f, Client(b)>>)
  <2>1. Replaces(t, <<f, Client(b)>>)
    BY <1>1, <1>2, <1>4, ReplaceBase DEF Good
  <2>2. ~\E k \in 1..Len(<<f, Client(b)>>) : <<f, Client(b)>>[k].op \in CloseOps
    BY <1>2, <1>4, ClosesAmong DEF Good
  <2> QED
    BY <2>1, <2>2, <1>4 DEF Good, Ready
<1> QED
  BY <1>3, <1>4

LEMMA Concats ==
  /\ \A x, y : <<x>> \o <<y>> = <<x, y>>
  /\ \A x : <<x>> \o <<>> = <<x>>
<1>1. ASSUME NEW x, NEW y
      PROVE  <<x>> \o <<y>> = <<x, y>>
  <2>1. /\ <<x>> \in Seq({x, y}) /\ <<y>> \in Seq({x, y}) /\ <<x, y>> \in Seq({x, y})
        /\ Len(<<x>>) = 1 /\ Len(<<y>>) = 1 /\ Len(<<x, y>>) = 2
        /\ <<x, y>>[1] = x /\ <<x, y>>[2] = y /\ <<x>>[1] = x /\ <<y>>[1] = y
    OBVIOUS
  <2>2. /\ <<x>> \o <<y>> \in Seq({x, y}) /\ Len(<<x>> \o <<y>>) = 2
        /\ (<<x>> \o <<y>>)[1] = x /\ (<<x>> \o <<y>>)[2] = y
    BY <2>1, ConcatProperties
  <2>3. \A i \in 1..2 : i = 1 \/ i = 2
    OBVIOUS
  <2>4. \A a \in Seq({x, y}) : Len(a) = 2 /\ a[1] = x /\ a[2] = y => a = <<x, y>>
    BY <2>1, <2>3, SeqEqual
  <2> QED
    BY <2>2, <2>4
<1>2. ASSUME NEW x
      PROVE  <<x>> \o <<>> = <<x>>
  <2>1. <<x>> \in Seq({x})
    OBVIOUS
  <2> QED
    BY <2>1, ConcatEmptySeq
<1> QED
  BY <1>1, <1>2

-----------------------------------------------------------------------------
(* The quiet steps.                                                        *)

(* Job states that differ from the old in no field that matters to waits.  *)
LEMMA JobChanged ==
  ASSUME IInv, NEW j \in Jobs, NEW r \in JobState, job' = [job EXCEPT ![j] = r],
         job[j].made = "yes" => r.made = "yes" /\ r.completed = job[j].completed
  PROVE  job' \in [Jobs -> JobState] /\ JobsKeep({})
<1>1. job \in [Jobs -> JobState]
  BY DEF IInv, TypeOK
<1> QED
  BY <1>1 DEF JobsKeep

LEMMA JobUnchanged ==
  ASSUME IInv, job' = job
  PROVE  job' \in [Jobs -> JobState] /\ JobsKeep({})
BY DEF IInv, TypeOK, JobsKeep

LEMMA CreatedJobOK ==
  ASSUME IInv, NEW t \in Threads, CreatedJob(t)
  PROVE  IInv'
<1> DEFINE j == fr[t].job
           a == AddsFrame({j})
           r == JobFrame("return", j, TRUE)
<1>1. fr[t].op = "created" /\ j \in Jobs /\ ~Base(fr[t]) /\ ~Topmost(fr[t])
  BY InvFacts DEF CreatedJob, JobOps
<1>2. Good(a) /\ Good(r)
  BY <1>1, GoodFrames DEF JobOps
<1>3. job' \in [Jobs -> JobState] /\ JobsKeep({}) /\ faulted' \in BOOLEAN
  BY JobUnchanged DEF CreatedJob, IInv, TypeOK
<1>4. PICK fs \in {<<a, r>>, <<r>>} : Proceed(t, fs)
  BY DEF CreatedJob
<1>5. Ready(t, fs)
  <2> HIDE DEF a, r
  <2> QED
    BY <1>1, <1>2, InnerReady
<1> QED
  BY <1>1, <1>3, <1>4, <1>5, QuietStep DEF CreatedJob

LEMMA CreateReturnsOK ==
  ASSUME IInv, NEW t \in Threads, CreateReturns(t)
  PROVE  IInv'
<1> DEFINE j == fr[t].job
<1>1. fr[t].op = "return" /\ j \in Jobs /\ ~Base(fr[t]) /\ ~Topmost(fr[t])
  BY InvFacts DEF CreateReturns, JobOps
<1>2. job' \in [Jobs -> JobState] /\ JobsKeep({})
  <2>1. [job[j] EXCEPT !.made = "yes"] \in JobState
    BY <1>1, InvFacts, JobStateOK
  <2>2. job' = [job EXCEPT ![j] = [job[j] EXCEPT !.made = "yes"]]
    BY DEF CreateReturns
  <2>3. job[j] \in JobState
    BY <1>1, InvFacts
  <2>4. LET r == [job[j] EXCEPT !.made = "yes"]
        IN  r.made = "yes" /\ r.completed = job[j].completed
    BY <2>3 DEF JobState
  <2> QED
    BY <1>1, <2>1, <2>2, <2>4, JobChanged
<1>3. Ready(t, <<>>)
  BY <1>1, InnerReady
<1>4. faulted' \in BOOLEAN
  BY DEF CreateReturns, IInv, TypeOK
<1> QED
  BY <1>1, <1>2, <1>3, <1>4, QuietStep DEF CreateReturns

LEMMA SignalDoneOK ==
  ASSUME IInv, NEW t \in Threads, NEW j \in Jobs, NEW ok \in BOOLEAN, SignalDone(t, j, ok)
  PROVE  IInv'
<1> DEFINE f == JobFrame("publish", j, ok)
<1>1. Good(f)
  BY GoodFrames DEF JobOps
<1>2. Ready(t, <<f, fr[t]>>) /\ ~Topmost(fr[t]) /\ fr[t].op # "wake"
  BY <1>1, CallReady DEF SignalDone
<1>3. job' \in [Jobs -> JobState] /\ JobsKeep({})
  <2>1. job[j] \in JobState
    BY InvFacts
  <2>2. [job[j] EXCEPT !.signaler = "done"] \in JobState
    BY <2>1, JobStateOK
  <2>3. job' = [job EXCEPT ![j] = [job[j] EXCEPT !.signaler = "done"]]
    BY DEF SignalDone
  <2>4. LET r == [job[j] EXCEPT !.signaler = "done"]
        IN  r.made = job[j].made /\ r.completed = job[j].completed
    BY <2>1 DEF JobState
  <2> QED
    BY <2>2, <2>3, <2>4, JobChanged
<1>4. faulted' \in BOOLEAN
  BY DEF SignalDone, IInv, TypeOK
<1>5. Proceed(t, <<f, fr[t]>>)
  BY DEF SignalDone, Call
<1> HIDE DEF f
<1> QED
  BY <1>2, <1>3, <1>4, <1>5, QuietStep DEF SignalDone

LEMMA CallWaitForJobOK ==
  ASSUME IInv, NEW t \in Threads, NEW j \in Jobs, CallWaitForJob(t, j)
  PROVE  IInv'
<1> DEFINE f == JobFrame("waitJob", j, TRUE)
<1>1. Good(f)
  BY FramesOK DEF CallWaitForJob, Made, Good, JobOps, Base, Topmost, WaitsForMade, JobFrame, CloseOps
<1>2. Ready(t, <<f, fr[t]>>) /\ ~Topmost(fr[t]) /\ fr[t].op # "wake"
  BY <1>1, CallReady DEF CallWaitForJob
<1>3. job' \in [Jobs -> JobState] /\ JobsKeep({}) /\ faulted' \in BOOLEAN
  BY JobUnchanged DEF CallWaitForJob, IInv, TypeOK
<1>4. Proceed(t, <<f, fr[t]>>)
  BY DEF CallWaitForJob, Call
<1> HIDE DEF f
<1> QED
  BY <1>2, <1>3, <1>4, QuietStep DEF CallWaitForJob

(* Its frames are those before the step; its call is over at once.         *)
LEMMA CreateSignaledJobOK ==
  ASSUME IInv, NEW t \in Threads, NEW j \in Jobs, CreateSignaledJob(t, j)
  PROVE  IInv'
<1> DEFINE r == [NewJob(NormalPriority, {}, FALSE) EXCEPT !.made = "yes", !.signaler = "held"]
<1>1. r \in JobState /\ r.made = "yes"
  <2>1. NewJob(NormalPriority, {}, FALSE) \in JobState
    BY JobQueueAssumption DEF NewJob, JobState
  <2>2. \A q \in JobState : LET r1 == [q EXCEPT !.made = "yes", !.signaler = "held"]
                            IN  r1 \in JobState /\ r1.made = "yes"
    BY DEF JobState
  <2> QED
    BY <2>1, <2>2
<1>2. job' \in [Jobs -> JobState] /\ JobsKeep({})
  <2>1. job' = [job EXCEPT ![j] = r] /\ job[j].made = "no"
    BY DEF CreateSignaledJob
  <2> HIDE DEF r
  <2> QED
    BY <1>1, <2>1, JobChanged
<1>3. UNCHANGED <<pending, wti, termEv, fr, stack, isClosing, faulted, victim>>
  BY DEF CreateSignaledJob
<1>4. TypeOK'
  BY <1>2, <1>3 DEF IInv, TypeOK
<1>5. \A u \in Threads : StackOK(u)'
  <2>1. SUFFICES ASSUME NEW u \in Threads
                 PROVE  StackOK(u)'
    OBVIOUS
  <2>2. \A f \in Frame : WaitsForMade(f) => WaitsForMade(f)'
    BY <1>2 DEF WaitsForMade, JobsKeep, Frame, JobOps, OtherOps
  <2>3. fr[u] \in Frame /\ stack[u] \in Seq(Frame) /\ \A i \in 1..Len(stack[u]) : stack[u][i] \in Frame
    BY ElementOfSeq DEF IInv, TypeOK
  <2>4. WaitsForMade(fr[u])'
    BY <1>3, <2>2, <2>3 DEF IInv, StackOK, WaitsForMade
  <2>5. \A i \in 1..Len(stack[u]) : WaitsForMade(stack[u][i])'
    BY <1>3, <2>2, <2>3 DEF IInv, StackOK, WaitsForMade
  <2> QED
    BY <1>3, <2>4, <2>5 DEF IInv, StackOK
<1>6. CloserOK'
  BY <1>3 DEF IInv, CloserOK, HasClose
<1>7. (\A u \in Threads : WaitOK(u)') /\ VictimOK'
  BY <1>3 DEF IInv, WaitOK, Linked, Woke, Chosen, VictimOK
<1>8. NoLostWork'
  BY <1>3 DEF IInv, NoLostWork
<1>9. NoLostCompletion'
  <2>1. SUFFICES ASSUME NEW u \in Threads, wti[u].jobWait # NoJob,
                        job'[wti[u].jobWait].completed
                 PROVE  \E v \in Threads : fr[v].op = "wake" /\ fr[v].job = wti[u].jobWait
    BY <1>3 DEF NoLostCompletion
  <2>2. wti[u].jobWait \in Jobs
    BY <2>1 DEF IInv, TypeOK, WaitInfo
  <2>3. fr[u].op = "asleep" /\ fr[u].job = wti[u].jobWait
    BY <2>1 DEF IInv, WaitOK, Linked
  <2>4. WaitsForMade(fr[u])
    BY DEF IInv, StackOK
  <2>5. job[wti[u].jobWait].completed
    BY <1>2, <2>1, <2>2, <2>3, <2>4 DEF JobsKeep, WaitsForMade
  <2> QED
    BY <2>1, <2>5 DEF IInv, NoLostCompletion
<1> QED
  BY <1>4, <1>5, <1>6, <1>7, <1>8, <1>9 DEF IInv

LEMMA AddMarksStartedOK ==
  ASSUME IInv, NEW t \in Threads, AddMarksStarted(t)
  PROVE  IInv'
<1> DEFINE j == fr[t].job
           f == JobFrame("publish", j, FALSE)
<1>1. fr[t].op = "mark" /\ j \in Jobs /\ ~Base(fr[t]) /\ ~Topmost(fr[t])
  BY InvFacts DEF AddMarksStarted, JobOps
<1>2. job' \in [Jobs -> JobState] /\ JobsKeep({})
  <2>1. job[j] \in JobState
    BY <1>1, InvFacts
  <2>2. [job[j] EXCEPT !.started = TRUE] \in JobState
    BY <2>1, JobStateOK
  <2>3. job' = [job EXCEPT ![j] = [job[j] EXCEPT !.started = TRUE]]
    BY DEF AddMarksStarted
  <2>4. LET r == [job[j] EXCEPT !.started = TRUE]
        IN  r.made = job[j].made /\ r.completed = job[j].completed
    BY <2>1 DEF JobState
  <2> QED
    BY <1>1, <2>2, <2>3, <2>4, JobChanged
<1>3. Ready(t, <<f>>)
  BY <1>1, InnerReady, GoodFrames DEF JobOps
<1>4. faulted' \in BOOLEAN
  BY DEF AddMarksStarted, IInv, TypeOK
<1> QED
  BY <1>1, <1>2, <1>3, <1>4, QuietStep DEF AddMarksStarted

LEMMA RunEnterOK ==
  ASSUME IInv, NEW t \in Threads, RunEnter(t)
  PROVE  IInv'
<1> DEFINE j == fr[t].job
           F == {JobFrame("publish", j, FALSE), JobFrame("publish", j, TRUE), JobFrame("run", j, TRUE)}
<1>1. fr[t].op = "enter" /\ j \in Jobs /\ ~Base(fr[t]) /\ ~Topmost(fr[t]) /\ job[j] \in JobState
  BY InvFacts DEF RunEnter, JobOps
<1>2. job' \in [Jobs -> JobState] /\ JobsKeep({})
  <2>1. \/ job' = [job EXCEPT ![j] = [job[j] EXCEPT !.runner = FALSE]]
        \/ job' = [job EXCEPT ![j] = [job[j] EXCEPT !.runs = job[j].runs + 1]]
        \/ job' = job
    BY DEF RunEnter
  <2>2. [job[j] EXCEPT !.runner = FALSE] \in JobState /\ [job[j] EXCEPT !.runs = job[j].runs + 1] \in JobState
    BY <1>1, JobStateOK
  <2>3. LET r == [job[j] EXCEPT !.runner = FALSE]
        IN  r.made = job[j].made /\ r.completed = job[j].completed
    BY <1>1 DEF JobState
  <2>4. LET r == [job[j] EXCEPT !.runs = job[j].runs + 1]
        IN  r.made = job[j].made /\ r.completed = job[j].completed
    BY <1>1 DEF JobState
  <2>5. CASE job' = [job EXCEPT ![j] = [job[j] EXCEPT !.runner = FALSE]]
    BY <2>5, <1>1, <2>2, <2>3, JobChanged
  <2>6. CASE job' = [job EXCEPT ![j] = [job[j] EXCEPT !.runs = job[j].runs + 1]]
    BY <2>6, <1>1, <2>2, <2>4, JobChanged
  <2>7. CASE job' = job
    BY <2>7, JobUnchanged
  <2> QED
    BY <2>1, <2>5, <2>6, <2>7
<1>3. PICK f \in F : Proceed(t, <<f>>)
  BY DEF RunEnter
<1>4. \A g \in F : Good(g)
  BY <1>1, GoodFrames DEF JobOps
<1>5. Ready(t, <<f>>)
  BY <1>1, <1>3, <1>4, InnerReady
<1>6. faulted' \in BOOLEAN
  BY DEF RunEnter, IInv, TypeOK
<1> QED
  BY <1>1, <1>2, <1>3, <1>5, <1>6, QuietStep DEF RunEnter

LEMMA RunnerReturnsOK ==
  ASSUME IInv, NEW t \in Threads, NEW ok \in BOOLEAN, RunnerReturns(t, ok)
  PROVE  IInv'
<1> DEFINE j == fr[t].job
           f == JobFrame("publish", j, ok)
<1>1. fr[t].op = "run" /\ j \in Jobs /\ ~Base(fr[t]) /\ ~Topmost(fr[t]) /\ job[j] \in JobState
  BY InvFacts DEF RunnerReturns, JobOps
<1>2. job' \in [Jobs -> JobState] /\ JobsKeep({})
  <2>1. [job[j] EXCEPT !.runner = FALSE] \in JobState
    BY <1>1, JobStateOK
  <2>2. LET r == [job[j] EXCEPT !.runner = FALSE]
        IN  r.made = job[j].made /\ r.completed = job[j].completed
    BY <1>1 DEF JobState
  <2>3. job' = [job EXCEPT ![j] = [job[j] EXCEPT !.runner = FALSE]]
    BY DEF RunnerReturns
  <2> QED
    BY <1>1, <2>1, <2>2, <2>3, JobChanged
<1>3. Ready(t, <<f>>)
  BY <1>1, InnerReady, GoodFrames DEF JobOps
<1>4. faulted' \in BOOLEAN
  BY DEF RunnerReturns, IInv, TypeOK
<1> QED
  BY <1>1, <1>2, <1>3, <1>4, QuietStep DEF RunnerReturns

-----------------------------------------------------------------------------
(* JobDone.                                                                *)

LEMMA JobDonePublishOK ==
  ASSUME IInv, NEW t \in Threads, JobDonePublish(t)
  PROVE  IInv'
<1> DEFINE j     == fr[t].job
           newly == {k \in job[j].downs : job[k].numWaiting = 1}
           w     == JobFrame("wake", j, TRUE)
           a     == AddsFrame(newly)
<1>1. /\ fr[t].op = "publish" /\ j \in Jobs /\ ~Base(fr[t]) /\ ~Topmost(fr[t])
      /\ fr[t].ok \in BOOLEAN /\ \A k \in Jobs : job[k] \in JobState
  BY InvFacts, FramesOK DEF JobDonePublish, JobOps
<1>2. job[j].downs \subseteq Jobs
  BY <1>1 DEF JobState
<1>3. Good(w) /\ Good(a)
  BY <1>1, <1>2, GoodFrames DEF JobOps
<1>4. job' = [k \in Jobs |->
                IF k = j THEN [job[j] EXCEPT !.completed = TRUE, !.failed = ~fr[t].ok]
                ELSE IF k \in job[j].downs
                  THEN [job[k] EXCEPT !.numWaiting = job[k].numWaiting - 1,
                                      !.depFailed = job[k].depFailed \/ ~fr[t].ok]
                ELSE job[k]]
  BY DEF JobDonePublish
<1>5. job' \in [Jobs -> JobState]
  <2>1. [job[j] EXCEPT !.completed = TRUE, !.failed = ~fr[t].ok] \in JobState
    BY <1>1, JobStateOK
  <2>2. ASSUME NEW k \in Jobs
        PROVE  [job[k] EXCEPT !.numWaiting = job[k].numWaiting - 1,
                              !.depFailed = job[k].depFailed \/ ~fr[t].ok] \in JobState
    <3>1. (job[k].depFailed \/ ~fr[t].ok) \in BOOLEAN
      OBVIOUS
    <3> QED
      BY <1>1, <3>1, JobStateOK
  <2> QED
    BY <1>1, <1>4, <2>1, <2>2
<1>6. JobsKeep({j})
  <2>1. ASSUME NEW k \in Jobs
        PROVE  job'[k].made = job[k].made /\ (k # j => job'[k].completed = job[k].completed)
    <3>1. job[k] \in JobState
      BY <1>1
    <3> QED
      BY <1>4, <3>1 DEF JobState
  <2> QED
    BY <2>1 DEF JobsKeep
<1>7. PICK fs \in {<<w>>, <<w, a>>} : Proceed(t, fs)
  BY DEF JobDonePublish
<1>8. Ready(t, fs) /\ fs # <<>> /\ fs[1].op = "wake" /\ fs[1].job = j
  <2>1. w.op = "wake" /\ w.job = j
    BY DEF JobFrame
  <2> HIDE DEF w, a, j
  <2> QED
    BY <1>1, <1>3, <2>1, InnerReady
<1>9. UNCHANGED <<pending, wti, termEv, isClosing, faulted, victim>>
  BY DEF JobDonePublish
<1>10. PendingOK
  BY <1>9 DEF PendingOK, IInv, TypeOK, NoLostWork
<1>11. CloserOK'
  BY <1>6, <1>7, <1>8, <1>9, ReadyCloser
<1>12. isClosing' \in BOOLEAN /\ faulted' \in BOOLEAN
  BY <1>9 DEF IInv, TypeOK
<1>13. Replaces(t, fs) /\ ~Topmost(fs[1])
  BY <1>8 DEF Ready
<1> HIDE DEF j, w, a
<1> QED
  BY <1>1, <1>5, <1>6, <1>7, <1>8, <1>9, <1>10, <1>11, <1>12, <1>13, LocalStep

(* Threads are woken, out of their rings.                                  *)
WakesOnly ==
  /\ wti' \in [Threads -> WaitInfo]
  /\ \A u \in Threads :
       \/ wti'[u] = wti[u]
       \/ \E d \in Dispositions \ {"Invalid"}, k \in Jobs \cup {NoJob} :
            /\ Linked(u) /\ wti'[u] = Woken(d, k)
            /\ d \in {"DequeuedWork", "StartedByThisThread"} => k \in Jobs
            /\ d = "StartedByThisThread" => fr[u].job # NoJob

(* The fields of the wait info of a woken thread.                          *)
LEMMA WokenFields ==
  ASSUME NEW d, NEW k
  PROVE  /\ Woken(d, k).catWait = {} /\ Woken(d, k).jobWait = NoJob
         /\ Woken(d, k).disp = d /\ Woken(d, k).job = k
         /\ d \in Dispositions /\ k \in Jobs \cup {NoJob} => Woken(d, k) \in WaitInfo
BY DEF Woken, Unlinked, WaitInfo

LEMMA WaitsAfterWake ==
  ASSUME IInv, NEW t \in Threads, NEW fs, StackAfter(t, fs), WakesOnly,
         victim' = victim, ~Topmost(fr[t]), ~Topmost(fr'[t])
  PROVE  (\A u \in Threads : WaitOK(u)') /\ VictimOK'
<1>1. ASSUME NEW u \in Threads, Linked(u)
      PROVE  fr[u].op = "asleep" /\ fr'[u] = fr[u]
  BY <1>1 DEF IInv, WaitOK, StackAfter, Topmost
<1>2. \A u \in Threads : WaitOK(u)'
  <2>1. SUFFICES ASSUME NEW u \in Threads
                 PROVE  WaitOK(u)'
    OBVIOUS
  <2>2. CASE wti'[u] = wti[u]
    <3>1. CASE u = t
      BY <3>1, <2>2 DEF IInv, WaitOK, Linked, Woke, Topmost
    <3>2. CASE u # t
      <4>1. Chosen(u) => Chosen(u)'
        BY DEF Chosen, StackAfter, Topmost
      <4> QED
        BY <2>2, <3>2, <4>1 DEF IInv, WaitOK, Linked, Woke, StackAfter
    <3> QED
      BY <3>1, <3>2
  <2>3. CASE wti'[u] # wti[u]
    <3>1. PICK d \in Dispositions \ {"Invalid"}, k \in Jobs \cup {NoJob} :
            /\ Linked(u) /\ wti'[u] = Woken(d, k)
            /\ d \in {"DequeuedWork", "StartedByThisThread"} => k \in Jobs
            /\ d = "StartedByThisThread" => fr[u].job # NoJob
      BY <2>3 DEF WakesOnly
    <3>2. /\ wti'[u].catWait = {} /\ wti'[u].jobWait = NoJob
          /\ wti'[u].disp = d /\ wti'[u].job = k
      BY <3>1, WokenFields
    <3> QED
      BY <1>1, <3>1, <3>2 DEF WaitOK, Linked, Woke
  <2> QED
    BY <2>2, <2>3
<1>3. VictimOK'
  <2>1. SUFFICES ASSUME NEW v \in Threads, fr'[v].op = "closeWake"
                 PROVE  /\ victim \in Threads /\ fr'[victim].op = "asleep"
                        /\ wti'[victim] = Unlinked
    BY DEF VictimOK
  <2>2. v # t /\ fr[v].op = "closeWake"
    BY <2>1 DEF StackAfter, Topmost
  <2>3. victim \in Threads /\ fr[victim].op = "asleep" /\ wti[victim] = Unlinked
    BY <2>2 DEF IInv, VictimOK
  <2>4. ~Linked(victim)
    BY <2>3 DEF Linked, Unlinked
  <2>5. wti'[victim] = wti[victim]
    BY <2>3, <2>4 DEF WakesOnly
  <2>6. fr'[victim] = fr[victim]
    BY <2>3 DEF StackAfter, Topmost
  <2> QED
    BY <2>3, <2>5, <2>6
<1> QED
  BY <1>2, <1>3

(* A step that wakes threads and touches no other thread.                  *)
LEMMA WakingStep ==
  ASSUME IInv, NEW t \in Threads, NEW fs, Ready(t, fs), Proceed(t, fs),
         ~Topmost(fr[t]), job' \in [Jobs -> JobState], JobsKeep({}), WakesOnly,
         UNCHANGED <<pending, termEv, isClosing, faulted, victim>>, NoLostCompletion'
  PROVE  IInv'
<1>1. StackAfter(t, fs) /\ \A u \in Threads : StackOK(u)'
  BY StacksOK DEF IInv, JobsKeep, Ready
<1>2. ~Topmost(fr'[t])
  BY <1>1, NewTop DEF Ready
<1>3. (\A u \in Threads : WaitOK(u)') /\ VictimOK'
  BY <1>1, <1>2, WaitsAfterWake
<1>4. CloserOK'
  BY ReadyCloser
<1>5. TypeOK'
  BY <1>1 DEF IInv, TypeOK, StackAfter, WakesOnly
<1>6. NoLostWork'
  <2>1. \A u \in Threads : wti'[u].catWait \subseteq wti[u].catWait
    BY WokenFields DEF WakesOnly
  <2> QED
    BY <2>1 DEF IInv, NoLostWork
<1> QED
  BY <1>1, <1>3, <1>4, <1>5, <1>6 DEF IInv

LEMMA JobDoneWakeOK ==
  ASSUME IInv, NEW t \in Threads, JobDoneWake(t)
  PROVE  IInv'
<1> DEFINE j == fr[t].job
           d == "CompletedByAnotherThread"
<1>1. fr[t].op = "wake" /\ j \in Jobs /\ ~Base(fr[t]) /\ ~Topmost(fr[t])
  BY InvFacts DEF JobDoneWake, JobOps
<1>2. j # NoJob
  BY <1>1, JobQueueAssumption
<1>3. /\ wti' = [u \in Threads |-> IF wti[u].jobWait = j THEN Woken(d, NoJob) ELSE wti[u]]
      /\ wti \in [Threads -> WaitInfo]
  BY DEF JobDoneWake, IInv, TypeOK
<1>4. \A u \in Threads : wti'[u] = IF wti[u].jobWait = j THEN Woken(d, NoJob) ELSE wti[u]
  BY <1>3
<1>5. d \in Dispositions \ {"Invalid"} /\ Woken(d, NoJob) \in WaitInfo
  BY WokenFields DEF Dispositions
<1>6. WakesOnly
  <2>1. wti' \in [Threads -> WaitInfo]
    BY <1>3, <1>5
  <2>2. \A u \in Threads : wti[u].jobWait = j => Linked(u)
    BY <1>2 DEF Linked
  <2>3. \A u \in Threads : wti'[u] # wti[u] => Linked(u) /\ wti'[u] = Woken(d, NoJob)
    BY <1>4, <2>2
  <2>4. d \notin {"DequeuedWork", "StartedByThisThread"}
    OBVIOUS
  <2> HIDE DEF d
  <2> QED
    BY <2>1, <2>3, <2>4, <1>5 DEF WakesOnly
<1>7. Ready(t, <<>>) /\ Proceed(t, <<>>)
  BY <1>1, InnerReady DEF JobDoneWake
<1>8. UNCHANGED <<job, pending, termEv, isClosing, faulted, victim>>
  BY DEF JobDoneWake
<1>9. job' \in [Jobs -> JobState] /\ JobsKeep({})
  BY <1>8, JobUnchanged
<1>10. NoLostCompletion'
  <2>1. SUFFICES ASSUME NEW u \in Threads, wti'[u].jobWait # NoJob,
                        job[wti'[u].jobWait].completed
                 PROVE  \E v \in Threads : fr'[v].op = "wake" /\ fr'[v].job = wti'[u].jobWait
    BY <1>8 DEF NoLostCompletion
  <2>2. wti'[u].jobWait = wti[u].jobWait /\ wti[u].jobWait # j
    BY <2>1, <1>4, WokenFields
  <2>3. PICK v \in Threads : fr[v].op = "wake" /\ fr[v].job = wti[u].jobWait
    BY <2>1, <2>2 DEF IInv, NoLostCompletion
  <2>4. v # t
    BY <2>2, <2>3
  <2>5. StackAfter(t, <<>>)
    BY <1>7, <1>9, StacksOK DEF IInv, JobsKeep, Ready
  <2> QED
    BY <2>2, <2>3, <2>4, <2>5 DEF StackAfter
<1> QED
  BY <1>1, <1>6, <1>7, <1>8, <1>9, <1>10, WakingStep

-----------------------------------------------------------------------------
(* AddRunnableJob.                                                         *)

LEMMA AddFrames ==
  ASSUME IInv, NEW t \in Threads, NEW j \in fr[t].jobs, fr[t].op = "adds"
  PROVE  /\ j \in Jobs /\ ~Base(fr[t]) /\ ~Topmost(fr[t])
         /\ Ready(t, RestOfAdds(t, j))
         /\ Ready(t, <<JobFrame("mark", j, FALSE)>> \o RestOfAdds(t, j))
<1> DEFINE a == AddsFrame(fr[t].jobs \ {j})
           m == JobFrame("mark", j, FALSE)
<1>1. j \in Jobs /\ ~Base(fr[t]) /\ ~Topmost(fr[t]) /\ fr[t].jobs \subseteq Jobs
  BY InvFacts, FramesOK DEF Base, Topmost
<1>2. Good(a) /\ Good(m)
  BY <1>1, GoodFrames DEF JobOps
<1>3. RestOfAdds(t, j) = <<>> \/ RestOfAdds(t, j) = <<a>>
  BY DEF RestOfAdds
<1> HIDE DEF a, m
<1>4. <<m>> \o <<>> = <<m>> /\ <<m>> \o <<a>> = <<m, a>>
  BY Concats
<1>5. Ready(t, <<>>) /\ Ready(t, <<a>>) /\ Ready(t, <<m>>) /\ Ready(t, <<m, a>>)
  BY <1>1, <1>2, InnerReady
<1>6. Ready(t, <<m>> \o RestOfAdds(t, j))
  BY <1>3, <1>4, <1>5
<1> QED
  BY <1>1, <1>3, <1>5, <1>6 DEF m

LEMMA AddAbortsOK ==
  ASSUME IInv, NEW t \in Threads, NEW j \in fr[t].jobs, fr[t].op = "adds",
         AddAborts(t, j), UNCHANGED <<termEv, isClosing, faulted, victim>>
  PROVE  IInv'
<1> DEFINE fs == <<JobFrame("mark", j, FALSE)>> \o RestOfAdds(t, j)
<1>1. j \in Jobs /\ ~Topmost(fr[t]) /\ Ready(t, fs) /\ Proceed(t, fs)
  BY AddFrames DEF AddAborts
<1>2. job' \in [Jobs -> JobState] /\ JobsKeep({})
  <2>1. job[j] \in JobState
    BY <1>1, InvFacts
  <2>2. [job[j] EXCEPT !.queued = TRUE] \in JobState
    BY <2>1, JobStateOK
  <2>3. job' = [job EXCEPT ![j] = [job[j] EXCEPT !.queued = TRUE]]
    BY DEF AddAborts
  <2>4. LET r == [job[j] EXCEPT !.queued = TRUE]
        IN  r.made = job[j].made /\ r.completed = job[j].completed
    BY <2>1 DEF JobState
  <2> QED
    BY <1>1, <2>2, <2>3, <2>4, JobChanged
<1>3. UNCHANGED <<pending, wti>> /\ faulted' \in BOOLEAN
  BY DEF AddAborts, IInv, TypeOK
<1> HIDE DEF fs
<1> QED
  BY <1>1, <1>2, <1>3, QuietStep

LEMMA AddQueuesOK ==
  ASSUME IInv, NEW t \in Threads, NEW j \in fr[t].jobs, fr[t].op = "adds",
         AddQueues(t, j), UNCHANGED <<termEv, isClosing, faulted, victim>>
  PROVE  IInv'
<1> DEFINE fs == RestOfAdds(t, j)
           c  == job[j].type
<1>1. j \in Jobs /\ ~Topmost(fr[t]) /\ Ready(t, fs) /\ Proceed(t, fs)
  BY AddFrames DEF AddQueues
<1>2. job[j] \in JobState /\ c \in Types
  BY <1>1, InvFacts DEF JobState
<1>3. job' \in [Jobs -> JobState] /\ JobsKeep({})
  <2>1. [job[j] EXCEPT !.queued = TRUE] \in JobState
    BY <1>2, JobStateOK
  <2>2. job' = [job EXCEPT ![j] = [job[j] EXCEPT !.queued = TRUE]]
    BY DEF AddQueues
  <2>3. LET r == [job[j] EXCEPT !.queued = TRUE]
        IN  r.made = job[j].made /\ r.completed = job[j].completed
    BY <1>2 DEF JobState
  <2> QED
    BY <1>1, <2>1, <2>2, <2>3, JobChanged
<1>4. PendingOK
  <2>1. pending \in [Types -> Seq(Jobs)] /\ pending[c] \in Seq(Jobs)
    BY <1>2 DEF IInv, TypeOK
  <2>2. Append(pending[c], j) \in Seq(Jobs)
    BY <1>1, <2>1, AppendProperties
  <2>3. pending' = [pending EXCEPT ![c] = Append(pending[c], j)]
    BY DEF AddQueues
  <2>4. pending' \in [Types -> Seq(Jobs)]
    BY <2>1, <2>2, <2>3
  <2>5. \A u \in Threads : c \notin wti[u].catWait
    <3>1. Candidates(c) = {}
      BY DEF AddQueues
    <3> HIDE DEF c
    <3> QED
      BY <3>1 DEF Candidates
  <2>6. \A b \in Types \ {c} : pending'[b] = pending[b]
    BY <2>1, <2>3
  <2> HIDE DEF c
  <2> QED
    BY <2>4, <2>5, <2>6 DEF PendingOK, IInv, NoLostWork
<1>5. wti' = wti
  BY DEF AddQueues
<1>6. CloserOK'
  BY <1>1, <1>3, ReadyCloser
<1>7. isClosing' \in BOOLEAN /\ faulted' \in BOOLEAN
  BY DEF IInv, TypeOK
<1> HIDE DEF fs
<1> QED
  BY <1>1, <1>3, <1>4, <1>5, <1>6, <1>7, LocalStep DEF Ready

LEMMA AddHandsOverOK ==
  ASSUME IInv, NEW t \in Threads, NEW j \in fr[t].jobs, fr[t].op = "adds",
         AddHandsOver(t, j), UNCHANGED <<termEv, isClosing, faulted, victim>>
  PROVE  IInv'
<1> DEFINE fs == RestOfAdds(t, j)
           c  == job[j].type
<1>1. j \in Jobs /\ ~Topmost(fr[t]) /\ Ready(t, fs) /\ Proceed(t, fs)
  BY AddFrames DEF AddHandsOver
<1>2. job[j] \in JobState /\ j # NoJob
  BY <1>1, InvFacts, JobQueueAssumption
<1>3. job' \in [Jobs -> JobState] /\ JobsKeep({})
  <2>1. [job[j] EXCEPT !.queued = TRUE, !.started = TRUE] \in JobState
    BY <1>2, JobStateOK
  <2>2. job' = [job EXCEPT ![j] = [job[j] EXCEPT !.queued = TRUE, !.started = TRUE]]
    <3>1. job' = [job EXCEPT ![j].queued = TRUE, ![j].started = TRUE]
      BY DEF AddHandsOver
    <3>2. job \in [Jobs -> JobState]
      BY DEF IInv, TypeOK
    <3> QED
      BY <3>1, <3>2, <1>1
  <2>3. LET r == [job[j] EXCEPT !.queued = TRUE, !.started = TRUE]
        IN  r.made = job[j].made /\ r.completed = job[j].completed
    BY <1>2 DEF JobState
  <2> QED
    BY <1>1, <2>1, <2>2, <2>3, JobChanged
<1>4. PICK u \in Threads, d \in {"StartedByThisThread", "DequeuedWork"} :
        /\ wti' = [wti EXCEPT ![u] = Woken(d, j)]
        /\ Linked(u)
        /\ d = "StartedByThisThread" => wti[u].jobWait = j
  <2>1. CASE \E u \in JobWaiters(j) : wti' = [wti EXCEPT ![u] = Woken("StartedByThisThread", j)]
    BY <2>1, <1>2 DEF JobWaiters, Linked
  <2>2. CASE \E u \in Candidates(c) : wti' = [wti EXCEPT ![u] = Woken("DequeuedWork", j)]
    <3>1. \A u \in Candidates(c) : u \in Threads /\ Linked(u)
      <4> HIDE DEF c
      <4> QED
        BY DEF Candidates, Specialized, Linked
    <3> QED
      BY <2>2, <3>1
  <2> QED
    BY <2>1, <2>2 DEF AddHandsOver
<1>5. d \in Dispositions \ {"Invalid"} /\ Woken(d, j) \in WaitInfo
  BY <1>1, WokenFields DEF Dispositions
<1>6. wti \in [Threads -> WaitInfo]
  BY DEF IInv, TypeOK
<1>7. wti'[u] = Woken(d, j) /\ \A v \in Threads \ {u} : wti'[v] = wti[v]
  BY <1>4, <1>6
<1>8. WakesOnly
  <2>1. wti' \in [Threads -> WaitInfo]
    BY <1>4, <1>5, <1>6
  <2>2. d = "StartedByThisThread" => fr[u].job # NoJob
    BY <1>2, <1>4 DEF IInv, WaitOK
  <2> QED
    BY <1>1, <1>4, <1>5, <1>7, <2>1, <2>2 DEF WakesOnly
<1>9. NoLostCompletion'
  <2>1. StackAfter(t, fs)
    BY <1>1, <1>3, StacksOK DEF IInv, JobsKeep, Ready
  <2>2. \A v \in Threads : wti'[v].jobWait # NoJob => wti'[v].jobWait = wti[v].jobWait
    BY <1>7, WokenFields
  <2> HIDE DEF fs
  <2> QED
    BY <1>3, <2>1, <2>2, CompletionKept
<1>10. pending' = pending
  BY DEF AddHandsOver
<1> HIDE DEF fs
<1> QED
  BY <1>1, <1>3, <1>8, <1>9, <1>10, WakingStep

LEMMA AddRunnableJobOK ==
  ASSUME IInv, NEW t \in Threads, AddRunnableJob(t)
  PROVE  IInv'
BY AddAbortsOK, AddHandsOverOK, AddQueuesOK DEF AddRunnableJob

-----------------------------------------------------------------------------
(* WaitForWorkOrJob.                                                       *)

(* The thread's types are types.                                           *)
LEMMA ThreadTypes ==
  ASSUME NEW t \in Threads
  PROVE  WorkTypes[t] \in Seq(Types) /\ IdleTypes[t] \in Seq(Types)
BY JobQueueAssumption

(* A job is taken from a pending list and started.                         *)
LEMMA TakeStep ==
  ASSUME IInv, NEW t \in Threads, NEW fs, Ready(t, fs), Proceed(t, fs),
         NEW c \in Types, NEW q \in Seq(Jobs), pending[c] # <<>>,
         pending' = [pending EXCEPT ![c] = q],
         NEW j \in Jobs, job' = [job EXCEPT ![j].started = TRUE] \/ job' = job,
         ~Topmost(fr[t]), fr[t].op # "wake",
         UNCHANGED <<wti, termEv, isClosing, faulted, victim>>
  PROVE  IInv'
<1>1. job' \in [Jobs -> JobState] /\ JobsKeep({})
  <2>1. job[j] \in JobState
    BY InvFacts
  <2>2. [job[j] EXCEPT !.started = TRUE] \in JobState
    BY <2>1, JobStateOK
  <2>3. job' = [job EXCEPT ![j] = [job[j] EXCEPT !.started = TRUE]] \/ job' = job
    OBVIOUS
  <2>4. LET r == [job[j] EXCEPT !.started = TRUE]
        IN  r.made = job[j].made /\ r.completed = job[j].completed
    BY <2>1 DEF JobState
  <2>5. CASE job' = [job EXCEPT ![j] = [job[j] EXCEPT !.started = TRUE]]
    BY <2>2, <2>4, <2>5, JobChanged
  <2>6. CASE job' = job
    BY <2>6, JobUnchanged
  <2> QED
    BY <2>3, <2>5, <2>6
<1>2. PendingOK
  BY DEF PendingOK, IInv, TypeOK, NoLostWork
<1>3. CloserOK'
  BY <1>1, ReadyCloser
<1>4. isClosing' \in BOOLEAN /\ faulted' \in BOOLEAN
  BY DEF IInv, TypeOK
<1> QED
  BY <1>1, <1>2, <1>3, <1>4, LocalStep DEF Ready

LEMMA TakePendingOK ==
  ASSUME IInv, NEW t \in Threads, NEW types \in Seq(Types), NEW rest,
         TakePending(t, types, rest),
         \A j \in Jobs : Ready(t, <<JobFrame("enter", j, TRUE)>> \o rest),
         ~Topmost(fr[t]), fr[t].op # "wake",
         UNCHANGED <<termEv, isClosing, faulted, victim>>
  PROVE  IInv'
<1>1. PICK i \in DOMAIN types :
        LET j == Head(pending[types[i]])
        IN  /\ FirstPending(types, i)
            /\ pending' = [pending EXCEPT ![types[i]] = Tail(pending[types[i]])]
            /\ job' = [job EXCEPT ![j].started = TRUE]
            /\ Proceed(t, <<JobFrame("enter", j, TRUE)>> \o rest)
            /\ UNCHANGED wti
  BY DEF TakePending
<1> DEFINE c == types[i]
           q == pending[c]
           j == Head(q)
<1>2. c \in Types /\ q \in Seq(Jobs) /\ q # <<>>
  <2>1. c \in Types
    BY ElementOfSeq, LenProperties
  <2> QED
    BY <1>1, <2>1 DEF FirstPending, IInv, TypeOK
<1>3. j \in Jobs /\ Tail(q) \in Seq(Jobs)
  BY <1>2, HeadTailProperties
<1>4. /\ pending' = [pending EXCEPT ![c] = Tail(q)]
      /\ job' = [job EXCEPT ![j].started = TRUE]
      /\ Proceed(t, <<JobFrame("enter", j, TRUE)>> \o rest)
      /\ wti' = wti
  BY <1>1
<1>5. Ready(t, <<JobFrame("enter", j, TRUE)>> \o rest)
  BY <1>3
<1> HIDE DEF j
<1>6. \A fs : Ready(t, fs) /\ Proceed(t, fs) => IInv'
  BY <1>2, <1>3, <1>4, TakeStep
<1> QED
  BY <1>4, <1>5, <1>6

(* Registering in the rings: there is nothing pending to wait for.         *)
LEMMA SleepOK ==
  ASSUME IInv, NEW t \in Threads, NEW types \in Seq(Types), NEW j \in Jobs \cup {NoJob},
         NEW f \in Frame, Sleep(t, types, j, f), UNCHANGED <<termEv, isClosing, faulted, victim>>,
         f.op = "asleep", f.job = j, Replaces(t, <<f>>),
         types # <<>> \/ j # NoJob, NonePending(types),
         j # NoJob => ~job[j].completed,
         ~Topmost(fr[t]), fr[t].op # "wake"
  PROVE  IInv'
<1> DEFINE S == ToSet(types)
<1>1. S \subseteq Types /\ (types # <<>> => S # {})
  <2>1. \A i \in DOMAIN types : types[i] \in Types
    BY ElementOfSeq, LenProperties
  <2>2. types # <<>> => 1 \in DOMAIN types
    BY EmptySeq, LenProperties
  <2> QED
    BY <2>1, <2>2 DEF ToSet
<1>2. \A c \in S : pending[c] = <<>>
  BY DEF NonePending, ToSet
<1> HIDE DEF S
<1>3. wti[t] \in WaitInfo /\ ~Linked(t) /\ ~Woke(t) /\ wti \in [Threads -> WaitInfo]
  BY DEF IInv, TypeOK, WaitOK, Topmost
<1>4. /\ wti'[t] \in WaitInfo /\ wti'[t].catWait = S /\ wti'[t].jobWait = j
      /\ wti'[t].disp = wti[t].disp /\ wti'[t].job = wti[t].job
      /\ wti' \in [Threads -> WaitInfo] /\ \A u \in Threads \ {t} : wti'[u] = wti[u]
  <2>1. wti' = [wti EXCEPT ![t] = [wti[t] EXCEPT !.catWait = S, !.jobWait = j]]
    <3>1. wti' = [wti EXCEPT ![t].catWait = S, ![t].jobWait = j]
      BY DEF Sleep, S
    <3> QED
      BY <1>3, <3>1
  <2>2. \A w \in WaitInfo : LET v == [w EXCEPT !.catWait = S, !.jobWait = j]
                            IN  /\ v \in WaitInfo /\ v.catWait = S /\ v.jobWait = j
                                /\ v.disp = w.disp /\ v.job = w.job
    BY <1>1 DEF WaitInfo
  <2> QED
    BY <1>3, <2>1, <2>2
<1>5. UNCHANGED <<job, pending>> /\ Proceed(t, <<f>>)
  BY DEF Sleep
<1>6. job' \in [Jobs -> JobState] /\ JobsKeep({})
  BY <1>5, JobUnchanged
<1>7. /\ StackAfter(t, <<f>>)
      /\ \A u \in Threads : StackOK(u)'
      /\ \A u \in Threads : HasClose(u)' =>
           \/ HasClose(u)
           \/ u = t /\ \E k \in 1..Len(<<f>>) : <<f>>[k].op \in CloseOps
  BY <1>5, <1>6, StacksOK DEF IInv, JobsKeep
<1>8. fr'[t] = f /\ \A u \in Threads \ {t} : fr'[u] = fr[u]
  BY <1>7 DEF StackAfter
<1>9. CloserOK'
  <2>1. f.op \notin CloseOps
    BY DEF CloseOps
  <2>2. ~\E k \in 1..Len(<<f>>) : <<f>>[k].op \in CloseOps
    BY <2>1, ClosesAmong
  <2> QED
    BY <1>7, <2>2, CloserKept DEF IInv
<1>10. TypeOK'
  BY <1>4, <1>5, <1>7 DEF IInv, TypeOK, StackAfter
<1>11. \A u \in Threads : WaitOK(u)'
  <2>1. WaitOK(t)'
    <3>1. wti'[t].disp = "Invalid"
      BY <1>3, <1>4 DEF Woke
    <3>2. Linked(t)'
      BY <1>1, <1>4 DEF Linked
    <3> QED
      BY <1>4, <1>8, <3>1, <3>2 DEF WaitOK, Woke
  <2>2. ASSUME NEW u \in Threads \ {t}
        PROVE  WaitOK(u)'
    <3>1. Chosen(u) => Chosen(u)'
      BY <1>8 DEF Chosen, Topmost
    <3> QED
      BY <1>4, <1>8, <3>1 DEF IInv, WaitOK, Linked, Woke
  <2> QED
    BY <2>1, <2>2
<1>12. VictimOK'
  BY <1>4, <1>8 DEF IInv, VictimOK, Topmost
<1>13. NoLostWork'
  <2>1. SUFFICES ASSUME NEW c \in Types, pending[c] # <<>>, NEW u \in Threads
                 PROVE  c \notin wti'[u].catWait
    BY <1>5 DEF NoLostWork
  <2>2. CASE u = t
    BY <2>1, <2>2, <1>2, <1>4
  <2>3. CASE u # t
    BY <2>1, <2>3, <1>4 DEF IInv, NoLostWork
  <2> QED
    BY <2>2, <2>3
<1>14. NoLostCompletion'
  <2>1. \A u \in Threads : wti'[u].jobWait # NoJob =>
           \/ wti'[u].jobWait = wti[u].jobWait
           \/ ~job'[wti'[u].jobWait].completed
    BY <1>4, <1>5
  <2> QED
    BY <1>6, <1>7, <2>1, CompletionKept
<1> QED
  BY <1>7, <1>9, <1>10, <1>11, <1>12, <1>13, <1>14 DEF IInv

LEMMA WaitForWorkOK ==
  ASSUME IInv, NEW t \in Threads, NEW b \in BOOLEAN, WaitForWork(t, b)
  PROVE  IInv'
<1> DEFINE types == WorkTypes[t]
           s     == JobFrame("asleep", NoJob, TRUE)
<1>1. /\ fr[t].op = "client" /\ types # <<>> /\ types \in Seq(Types)
      /\ UNCHANGED <<termEv, isClosing, faulted, victim>>
      /\ ~Topmost(fr[t]) /\ fr[t].op # "wake" /\ Base(fr[t]) /\ fr[t] \in Frame
  BY ThreadTypes, InvFacts DEF WaitForWork, Base
<1>2. Ready(t, <<Client(FALSE)>>) /\ \A f : Good(f) => Ready(t, <<f, Client(TRUE)>>)
  BY <1>1, ClientReady
<1>3. CASE Proceed(t, <<Client(FALSE)>>) /\ UNCHANGED <<job, pending, wti>>
  <2>1. job' \in [Jobs -> JobState] /\ JobsKeep({}) /\ faulted' \in BOOLEAN
    BY <1>1, <1>3, JobUnchanged DEF IInv, TypeOK
  <2> QED
    BY <1>1, <1>2, <1>3, <2>1, QuietStep
<1>4. CASE TakePending(t, types, <<Client(TRUE)>>)
  <2>1. ASSUME NEW j \in Jobs
        PROVE  Ready(t, <<JobFrame("enter", j, TRUE)>> \o <<Client(TRUE)>>)
    <3>1. Good(JobFrame("enter", j, TRUE))
      BY GoodFrames DEF JobOps
    <3>2. Ready(t, <<JobFrame("enter", j, TRUE), Client(TRUE)>>)
      BY <1>2, <3>1
    <3> QED
      BY <3>2, Concats
  <2> QED
    BY <1>1, <1>4, <2>1, TakePendingOK
<1>5. CASE NonePending(types) /\ Sleep(t, types, NoJob, s)
  <2>1. s \in Frame /\ s.op = "asleep" /\ s.job = NoJob
    BY FramesOK DEF OtherOps, JobFrame
  <2>2. Base(s) /\ WaitsForMade(s)
    BY <2>1 DEF Base, WaitsForMade
  <2>3. Replaces(t, <<s>>)
    BY <1>1, <2>1, <2>2, ReplaceBase
  <2> HIDE DEF s, types
  <2> QED
    BY <1>1, <1>5, <2>1, <2>3, SleepOK
<1> HIDE DEF s, types
<1>6. \/ Proceed(t, <<Client(FALSE)>>) /\ UNCHANGED <<job, pending, wti>>
      \/ TakePending(t, types, <<Client(TRUE)>>)
      \/ NonePending(types) /\ Sleep(t, types, NoJob, s)
  BY DEF WaitForWork, types, s
<1> QED
  BY <1>3, <1>4, <1>5, <1>6

(* Taking one job out of a list leaves a list.                             *)
LEMMA RemoveAtType ==
  ASSUME NEW q \in Seq(Jobs), NEW i \in DOMAIN q
  PROVE  RemoveAt(q, i) \in Seq(Jobs) /\ q # <<>>
<1>1. Len(q) \in Nat /\ i \in 1..Len(q) /\ \A k \in 1..Len(q) : q[k] \in Jobs
  BY LenProperties, ElementOfSeq
<1>2. q # <<>>
  BY <1>1, EmptySeq
<1>3. SubSeq(q, 1, i - 1) \in Seq(Jobs)
  BY <1>1, SubSeqProperties
<1>4. SubSeq(q, i + 1, Len(q)) \in Seq(Jobs)
  BY <1>1, SubSeqProperties
<1>5. SubSeq(q, 1, i - 1) \o SubSeq(q, i + 1, Len(q)) \in Seq(Jobs)
  BY <1>3, <1>4, ConcatProperties
<1> QED
  BY <1>2, <1>5 DEF RemoveAt

LEMMA WaitForJobOK ==
  ASSUME IInv, NEW t \in Threads, WaitForJob(t)
  PROVE  IInv'
<1> DEFINE j     == fr[t].job
           types == IdleTypes[t]
           open  == ~isClosing /\ ~job[j].completed
           s1    == JobFrame("asleep", j, FALSE)
           s2    == JobFrame("asleep", j, TRUE)
           e     == JobFrame("enter", j, TRUE)
<1>1. /\ fr[t].op = "waitJob" /\ j \in Jobs /\ j # NoJob /\ types \in Seq(Types)
      /\ ~Topmost(fr[t]) /\ fr[t].op # "wake" /\ ~Base(fr[t]) /\ fr[t] \in Frame
      /\ job[j] \in JobState /\ WaitsForMade(fr[t]) /\ job[j].made = "yes"
      /\ UNCHANGED <<termEv, isClosing, faulted, victim>>
  BY ThreadTypes, InvFacts, JobQueueAssumption DEF WaitForJob, JobOps, WaitsForMade
<1>2. /\ Ready(t, <<>>) /\ Good(fr[t])
      /\ \A f : Good(f) => Ready(t, <<f>>) /\ Ready(t, <<f, fr[t]>>)
  BY <1>1, InnerReady DEF Good, CloseOps
<1>3. \A k \in Jobs : Good(JobFrame("enter", k, TRUE))
  BY GoodFrames DEF JobOps
<1>4. faulted' \in BOOLEAN
  BY <1>1 DEF IInv, TypeOK
<1>5. \A b \in BOOLEAN :
         LET s == JobFrame("asleep", j, b)
         IN  s \in Frame /\ s.op = "asleep" /\ s.job = j /\ Replaces(t, <<s>>)
  <2>1. SUFFICES ASSUME NEW b \in BOOLEAN
                 PROVE  LET s == JobFrame("asleep", j, b)
                        IN  s \in Frame /\ s.op = "asleep" /\ s.job = j /\ Replaces(t, <<s>>)
    OBVIOUS
  <2> DEFINE s == JobFrame("asleep", j, b)
  <2>2. s \in Frame /\ s.op = "asleep" /\ s.job = j
    BY <1>1, FramesOK DEF OtherOps, JobFrame
  <2>3. ~Base(s) /\ WaitsForMade(s)
    BY <1>1, <2>2 DEF Base, WaitsForMade
  <2> HIDE DEF s
  <2>4. Replaces(t, <<s>>)
    BY <1>1, <2>2, <2>3, ReplaceInner
  <2> QED
    BY <2>2, <2>4 DEF s
<1>6. CASE Proceed(t, <<>>) /\ UNCHANGED <<job, pending, wti>>
  <2>1. job' \in [Jobs -> JobState] /\ JobsKeep({})
    BY <1>6, JobUnchanged
  <2> QED
    BY <1>1, <1>2, <1>4, <1>6, <2>1, QuietStep
<1>7. CASE open /\ Sleep(t, <<>>, j, s1)
  <2>1. <<>> \in Seq(Types) /\ NonePending(<<>>)
    BY EmptySeq DEF NonePending
  <2>2. s1 \in Frame /\ s1.op = "asleep" /\ s1.job = j /\ Replaces(t, <<s1>>)
    BY <1>5
  <2> HIDE DEF s1, j
  <2> QED
    BY <1>1, <1>7, <2>1, <2>2, SleepOK
<1>8. CASE TakeSpecified(t, j)
  <2>1. Ready(t, <<e>>) /\ Proceed(t, <<e>>)
    BY <1>1, <1>2, <1>3, <1>8 DEF TakeSpecified
  <2>2. job' = [job EXCEPT ![j].started = TRUE] /\ wti' = wti
    BY <1>8 DEF TakeSpecified
  <2> DEFINE c == job[j].type
  <2>3. c \in Types /\ pending[c] \in Seq(Jobs)
    BY <1>1 DEF IInv, TypeOK, JobState
  <2>4. CASE \E i \in DOMAIN pending[c] : pending' = [pending EXCEPT ![c] = RemoveAt(pending[c], i)]
    <3>1. PICK i \in DOMAIN pending[c] : pending' = [pending EXCEPT ![c] = RemoveAt(pending[c], i)]
      BY <2>4
    <3>2. RemoveAt(pending[c], i) \in Seq(Jobs) /\ pending[c] # <<>>
      BY <2>3, RemoveAtType
    <3> HIDE DEF c, j, e
    <3> QED
      BY <1>1, <2>1, <2>2, <2>3, <3>1, <3>2, TakeStep
  <2>5. CASE UNCHANGED pending
    <3>1. job' \in [Jobs -> JobState] /\ JobsKeep({})
      <4>1. [job[j] EXCEPT !.started = TRUE] \in JobState
        BY <1>1, JobStateOK
      <4>2. job' = [job EXCEPT ![j] = [job[j] EXCEPT !.started = TRUE]]
        BY <2>2
      <4>3. LET r == [job[j] EXCEPT !.started = TRUE]
            IN  r.made = job[j].made /\ r.completed = job[j].completed
        BY <1>1 DEF JobState
      <4> QED
        BY <1>1, <4>1, <4>2, <4>3, JobChanged
    <3> HIDE DEF j, e
    <3> QED
      BY <1>1, <1>4, <2>1, <2>2, <2>5, <3>1, QuietStep
  <2> QED
    BY <1>8, <2>4, <2>5 DEF TakeSpecified
<1>9. CASE TakePending(t, types, <<fr[t]>>)
  <2>1. ASSUME NEW k \in Jobs
        PROVE  Ready(t, <<JobFrame("enter", k, TRUE)>> \o <<fr[t]>>)
    BY <1>2, <1>3, Concats
  <2> HIDE DEF types, j
  <2> QED
    BY <1>1, <1>9, <2>1, TakePendingOK
<1>10. CASE open /\ NonePending(types) /\ Sleep(t, types, j, s2)
  <2>1. s2 \in Frame /\ s2.op = "asleep" /\ s2.job = j /\ Replaces(t, <<s2>>)
    BY <1>5
  <2> HIDE DEF s2, j, types
  <2> QED
    BY <1>1, <1>10, <2>1, SleepOK
<1>11. \/ Proceed(t, <<>>) /\ UNCHANGED <<job, pending, wti>>
       \/ open /\ Sleep(t, <<>>, j, s1)
       \/ TakeSpecified(t, j)
       \/ TakePending(t, types, <<fr[t]>>)
       \/ open /\ NonePending(types) /\ Sleep(t, types, j, s2)
  <2> HIDE DEF s1, s2, types, j
  <2> QED
    BY DEF WaitForJob, s1, s2, types, j
<1> QED
  BY <1>6, <1>7, <1>8, <1>9, <1>10, <1>11

(* A woken thread is in no ring and unlinked by nobody.                    *)
LEMMA AwakeOK ==
  ASSUME IInv, NEW t \in Threads, Awake(t)
  PROVE  IInv'
<1> DEFINE w     == wti[t]
           j     == fr[t].job
           k     == JobFrame("waitJob", j, TRUE)
           enter == JobFrame("enter", w.job, TRUE)
<1>1. /\ fr[t].op = "asleep" /\ w.disp # "Invalid" /\ w \in WaitInfo /\ fr[t] \in Frame
      /\ WaitsForMade(fr[t]) /\ j \in Jobs \cup {NoJob} /\ Woke(t) /\ ~Linked(t)
      /\ wti \in [Threads -> WaitInfo]
  BY InvFacts, FramesOK DEF Awake, IInv, TypeOK, WaitOK, Woke
<1>2. /\ wti' = [wti EXCEPT ![t] = Unlinked]
      /\ termEv' = [termEv EXCEPT ![t] = termEv[t] \/ w.disp = "Terminated"]
      /\ UNCHANGED <<job, pending, isClosing, faulted, victim>>
  BY DEF Awake
<1>3. w.disp \in {"DequeuedWork", "StartedByThisThread"} => Good(enter)
  BY <1>1, GoodFrames DEF IInv, WaitOK, JobOps
<1>4. \E fs : Ready(t, fs) /\ Proceed(t, fs)
  <2>1. CASE j = NoJob
    <3>1. Base(fr[t]) /\ w.disp # "StartedByThisThread"
      BY <1>1, <2>1 DEF Base, IInv, WaitOK
    <3>2. ASSUME NEW b \in BOOLEAN
          PROVE  /\ Client(b) \in Frame /\ Base(Client(b)) /\ WaitsForMade(Client(b))
                 /\ ~Topmost(Client(b)) /\ Client(b).op \notin CloseOps
      BY FramesOK DEF Client, JobFrame, Base, WaitsForMade, Topmost, CloseOps
    <3>3. Ready(t, <<Client(FALSE)>>)
      BY <3>1, <3>2, ReplaceBase, ClosesAmong DEF Ready
    <3>4. ASSUME w.disp = "DequeuedWork"
          PROVE  Ready(t, <<enter, Client(TRUE)>>)
      <4>1. Good(enter)
        BY <1>3, <3>4
      <4> HIDE DEF enter
      <4>2. Replaces(t, <<enter, Client(TRUE)>>)
        BY <3>1, <3>2, <4>1, ReplaceBase DEF Good
      <4>3. ~\E i \in 1..Len(<<enter, Client(TRUE)>>) : <<enter, Client(TRUE)>>[i].op \in CloseOps
        BY <3>2, <4>1, ClosesAmong DEF Good
      <4> QED
        BY <4>1, <4>2, <4>3 DEF Ready, Good
    <3>5. \/ Proceed(t, <<Client(FALSE)>>)
          \/ w.disp = "DequeuedWork" /\ Proceed(t, <<enter>> \o <<Client(TRUE)>>)
      BY <2>1, <3>1 DEF Awake
    <3> HIDE DEF enter
    <3> QED
      BY <3>3, <3>4, <3>5, Concats
  <2>2. CASE j # NoJob
    <3>1. ~Base(fr[t]) /\ j \in Jobs
      BY <1>1, <2>2 DEF Base
    <3>2. Good(k)
      <4>1. k \in Frame /\ k.op = "waitJob" /\ k.job = j
        BY <3>1, FramesOK DEF JobOps, JobFrame
      <4> QED
        BY <1>1, <2>2, <4>1 DEF Good, Base, Topmost, WaitsForMade, CloseOps
    <3>3. /\ Ready(t, <<>>)
          /\ \A f : Good(f) => Ready(t, <<f>>) /\ Ready(t, <<f, k>>)
      BY <3>1, <3>2, InnerReady
    <3>4. \/ Proceed(t, <<>>)
          \/ w.disp = "DequeuedWork" /\ Proceed(t, <<enter>> \o <<k>>)
          \/ w.disp = "StartedByThisThread" /\ Proceed(t, <<enter>>)
      BY <2>2 DEF Awake
    <3> HIDE DEF enter, k
    <3> QED
      BY <1>3, <3>3, <3>4, Concats
  <2> QED
    BY <2>1, <2>2
<1>5. PICK fs : Ready(t, fs) /\ Proceed(t, fs)
  BY <1>4
<1>6. job' \in [Jobs -> JobState] /\ JobsKeep({})
  BY <1>2, JobUnchanged
<1>7. StackAfter(t, fs) /\ \A u \in Threads : StackOK(u)'
  BY <1>5, <1>6, StacksOK DEF IInv, JobsKeep, Ready
<1>8. ~Topmost(fr'[t]) /\ \A u \in Threads \ {t} : fr'[u] = fr[u]
  BY <1>5, <1>7, NewTop DEF Ready, StackAfter
<1>9. CloserOK'
  BY <1>2, <1>5, <1>6, ReadyCloser
<1>10. /\ Unlinked.catWait = {} /\ Unlinked.jobWait = NoJob /\ Unlinked.disp = "Invalid"
       /\ Unlinked \in WaitInfo
  BY DEF Unlinked, WaitInfo, Dispositions
<1>11. wti'[t] = Unlinked /\ \A u \in Threads \ {t} : wti'[u] = wti[u]
  BY <1>1, <1>2
<1>12. TypeOK'
  BY <1>2, <1>7, <1>10 DEF IInv, TypeOK, StackAfter
<1>13. \A u \in Threads : WaitOK(u)'
  <2>1. WaitOK(t)'
    BY <1>8, <1>10, <1>11 DEF WaitOK, Linked, Woke, Topmost
  <2>2. ASSUME NEW u \in Threads \ {t}
        PROVE  WaitOK(u)'
    <3>1. Chosen(u) => Chosen(u)'
      BY <1>1, <1>2, <1>8 DEF Chosen
    <3> QED
      BY <1>8, <1>11, <3>1 DEF IInv, WaitOK, Linked, Woke
  <2> QED
    BY <2>1, <2>2
<1>14. VictimOK'
  <2>1. SUFFICES ASSUME NEW v \in Threads, fr'[v].op = "closeWake"
                 PROVE  victim \in Threads /\ fr'[victim].op = "asleep" /\ wti'[victim] = Unlinked
    BY <1>2 DEF VictimOK
  <2>2. v # t
    BY <2>1, <1>8 DEF Topmost
  <2>3. victim \in Threads /\ fr[victim].op = "asleep" /\ wti[victim] = Unlinked
    BY <2>1, <2>2, <1>8 DEF IInv, VictimOK
  <2>4. victim # t
    BY <1>1, <1>10, <2>3
  <2> QED
    BY <2>3, <2>4, <1>8, <1>11
<1>15. NoLostWork'
  BY <1>2, <1>10, <1>11 DEF IInv, NoLostWork
<1>16. NoLostCompletion'
  <2>1. \A u \in Threads : wti'[u].jobWait # NoJob => wti'[u].jobWait = wti[u].jobWait
    BY <1>10, <1>11
  <2> QED
    BY <1>1, <1>6, <1>7, <2>1, CompletionKept
<1> QED
  BY <1>7, <1>9, <1>12, <1>13, <1>14, <1>15, <1>16 DEF IInv

-----------------------------------------------------------------------------
(* Closing.                                                                *)

(* A closer goes on with frames that close.                                *)
LEMMA CloserReady ==
  ASSUME NEW t \in Threads, fr[t].op \in CloseOps, fr[t] \in Frame
  PROVE  /\ HasClose(t) /\ ~Base(fr[t]) /\ WaitsForMade(fr[t])
         /\ \A op \in CloseOps : /\ Replaces(t, <<JobFrame(op, NoJob, TRUE)>>)
                                 /\ JobFrame(op, NoJob, TRUE).op = op
                                 /\ op # "closeWake" => Ready(t, <<JobFrame(op, NoJob, TRUE)>>)
         /\ Ready(t, <<>>)
<1>1. HasClose(t) /\ ~Base(fr[t]) /\ WaitsForMade(fr[t])
  BY DEF HasClose, CloseOps, Base, WaitsForMade
<1>2. ASSUME NEW op \in CloseOps
      PROVE  /\ Replaces(t, <<JobFrame(op, NoJob, TRUE)>>)
             /\ JobFrame(op, NoJob, TRUE).op = op
             /\ op # "closeWake" => Ready(t, <<JobFrame(op, NoJob, TRUE)>>)
  <2> DEFINE f == JobFrame(op, NoJob, TRUE)
  <2>1. f \in Frame /\ f.op = op
    BY FramesOK DEF CloseOps, OtherOps, JobFrame
  <2>2. ~Base(f) /\ WaitsForMade(f)
    BY <2>1 DEF CloseOps, Base, WaitsForMade
  <2>3. op # "closeWake" => ~Topmost(f)
    BY <2>1 DEF CloseOps, Topmost
  <2> HIDE DEF f
  <2>4. Replaces(t, <<f>>)
    BY <1>1, <2>1, <2>2, ReplaceInner
  <2> QED
    BY <1>1, <2>1, <2>3, <2>4 DEF Ready, f
<1>3. Ready(t, <<>>)
  BY <1>1, InnerReady
<1> QED
  BY <1>1, <1>2, <1>3

LEMMA CallCloseOK ==
  ASSUME IInv, NEW t \in Threads, CallClose(t)
  PROVE  IInv'
<1> DEFINE f  == JobFrame("closePop", NoJob, TRUE)
           fs == <<f, fr[t]>>
<1>1. /\ fr[t].op = "client" /\ ~isClosing /\ isClosing' = TRUE /\ Proceed(t, fs)
      /\ UNCHANGED <<job, pending, wti, termEv, faulted, victim>>
      /\ fr[t] \in Frame /\ WaitsForMade(fr[t]) /\ ~Topmost(fr[t]) /\ Base(fr[t])
  BY InvFacts DEF CallClose, Call, Base
<1>2. f \in Frame /\ f.op = "closePop" /\ ~Base(f) /\ ~Topmost(f) /\ WaitsForMade(f)
  BY FramesOK DEF OtherOps, JobFrame, Base, Topmost, WaitsForMade
<1> HIDE DEF f
<1>3. Replaces(t, fs)
  BY <1>1, <1>2, ReplaceBase
<1>4. job' \in [Jobs -> JobState] /\ JobsKeep({})
  BY <1>1, JobUnchanged
<1>5. \A u \in Threads : HasClose(u)' => HasClose(u) \/ u = t
  BY <1>1, <1>3, <1>4, StacksOK DEF IInv, JobsKeep
<1>6. CloserOK'
  BY <1>1, <1>5 DEF IInv, CloserOK
<1>7. PendingOK
  BY <1>1 DEF PendingOK, IInv, TypeOK, NoLostWork
<1>8. isClosing' \in BOOLEAN /\ faulted' \in BOOLEAN
  BY <1>1 DEF IInv, TypeOK
<1>9. fs # <<>> => ~Topmost(fs[1])
  BY <1>2
<1> HIDE DEF fs
<1> QED
  BY <1>1, <1>3, <1>4, <1>6, <1>7, <1>8, <1>9, LocalStep

LEMMA CloseAbortsPendingOK ==
  ASSUME IInv, NEW t \in Threads, CloseAbortsPending(t)
  PROVE  IInv'
<1>1. /\ fr[t].op = "closePop" /\ fr[t] \in Frame /\ fr[t].op \in CloseOps
      /\ ~Topmost(fr[t]) /\ fr[t].op # "wake"
      /\ UNCHANGED <<job, wti, termEv, isClosing, faulted, victim>>
      /\ faulted' \in BOOLEAN
  BY InvFacts DEF CloseAbortsPending, CloseOps, Topmost, IInv, TypeOK
<1>2. HasClose(t) /\ ~Base(fr[t]) /\ WaitsForMade(fr[t])
  BY <1>1, CloserReady
<1>3. CASE \E c \in Types :
             /\ pending[c] # <<>>
             /\ pending' = [pending EXCEPT ![c] = Tail(pending[c])]
             /\ Proceed(t, <<JobFrame("publish", Head(pending[c]), FALSE), fr[t]>>)
  <2>1. PICK c \in Types :
             /\ pending[c] # <<>>
             /\ pending' = [pending EXCEPT ![c] = Tail(pending[c])]
             /\ Proceed(t, <<JobFrame("publish", Head(pending[c]), FALSE), fr[t]>>)
    BY <1>3
  <2> DEFINE f  == JobFrame("publish", Head(pending[c]), FALSE)
             fs == <<f, fr[t]>>
  <2>2. pending[c] \in Seq(Jobs)
    BY DEF IInv, TypeOK
  <2>3. Head(pending[c]) \in Jobs /\ Tail(pending[c]) \in Seq(Jobs)
    BY <2>1, <2>2, HeadTailProperties
  <2>4. Good(f)
    BY <2>3, GoodFrames DEF JobOps
  <2>5. Ready(t, fs)
    <3>1. Replaces(t, fs)
      BY <1>1, <1>2, <2>4, ReplaceInner DEF Good
    <3>2. ~Topmost(fs[1])
      BY <2>4 DEF Good
    <3> QED
      BY <1>2, <3>1, <3>2 DEF Ready
  <2> HIDE DEF fs, f
  <2> QED
    BY <1>1, <2>1, <2>3, <2>5, TakeStep DEF fs, f
<1>4. CASE Proceed(t, <<JobFrame("closeTerm", NoJob, TRUE)>>) /\ UNCHANGED pending
  <2>1. Ready(t, <<JobFrame("closeTerm", NoJob, TRUE)>>)
    BY <1>1, CloserReady DEF CloseOps
  <2>2. job' \in [Jobs -> JobState] /\ JobsKeep({})
    BY <1>1, JobUnchanged
  <2> QED
    BY <1>1, <1>4, <2>1, <2>2, QuietStep
<1> QED
  BY <1>3, <1>4 DEF CloseAbortsPending

(* While t is the closer, no other thread is about to wake a victim.       *)
LEMMA OneCloser ==
  ASSUME IInv, NEW t \in Threads, fr[t].op \in CloseOps
  PROVE  \A v \in Threads \ {t} : fr[v].op # "closeWake"
BY DEF IInv, CloserOK, HasClose, CloseOps

LEMMA CloseUnlinksOK ==
  ASSUME IInv, NEW t \in Threads, CloseUnlinks(t)
  PROVE  IInv'
<1> DEFINE f == JobFrame("closeWake", NoJob, TRUE)
<1>1. /\ fr[t].op = "closeTerm" /\ fr[t] \in Frame /\ fr[t].op \in CloseOps
      /\ ~Topmost(fr[t]) /\ fr[t].op # "wake"
      /\ UNCHANGED <<job, pending, termEv, isClosing, faulted>>
      /\ faulted' \in BOOLEAN
  BY InvFacts DEF CloseUnlinks, CloseOps, Topmost, IInv, TypeOK
<1>2. job' \in [Jobs -> JobState] /\ JobsKeep({})
  BY <1>1, JobUnchanged
<1>3. ASSUME NEW u \in Threads, wti[u].catWait # {}, wti' = [wti EXCEPT ![u] = Unlinked],
             victim' = u, Proceed(t, <<f>>)
      PROVE  IInv'
  <2>1. /\ Replaces(t, <<f>>) /\ f.op = "closeWake" /\ HasClose(t)
    BY <1>1, CloserReady DEF CloseOps
  <2> HIDE DEF f
  <2>2. /\ StackAfter(t, <<f>>)
        /\ \A v \in Threads : StackOK(v)'
        /\ \A v \in Threads : HasClose(v)' =>
             \/ HasClose(v)
             \/ v = t /\ \E k \in 1..Len(<<f>>) : <<f>>[k].op \in CloseOps
    BY <1>2, <1>3, <2>1, StacksOK DEF IInv, JobsKeep
  <2>3. fr'[t] = f /\ \A v \in Threads \ {t} : fr'[v] = fr[v]
    BY <2>2 DEF StackAfter
  <2>4. CloserOK'
    BY <1>1, <2>1, <2>2, CloserKept DEF IInv
  <2>5. /\ Unlinked.catWait = {} /\ Unlinked.jobWait = NoJob /\ Unlinked.disp = "Invalid"
        /\ Unlinked \in WaitInfo
    BY DEF Unlinked, WaitInfo, Dispositions
  <2>6. wti'[u] = Unlinked /\ \A v \in Threads \ {u} : wti'[v] = wti[v]
    BY <1>3 DEF IInv, TypeOK
  <2>7. fr[u].op = "asleep" /\ u # t
    BY <1>1, <1>3 DEF IInv, WaitOK, Linked
  <2>8. TypeOK'
    BY <1>1, <1>3, <2>2, <2>5 DEF IInv, TypeOK, StackAfter
  <2>9. \A v \in Threads : WaitOK(v)'
    <3>1. Chosen(u)'
      BY <1>3, <2>1, <2>3 DEF Chosen
    <3>2. WaitOK(u)'
      BY <2>3, <2>5, <2>6, <2>7, <3>1 DEF WaitOK, Linked, Woke
    <3>3. WaitOK(t)'
      BY <1>1, <2>1, <2>3, <2>6, <2>7 DEF IInv, WaitOK, Linked, Woke
    <3>4. ASSUME NEW v \in Threads \ {t, u}
          PROVE  WaitOK(v)'
      <4>1. ~Chosen(v)
        BY <1>1, OneCloser DEF Chosen
      <4> QED
        BY <2>3, <2>6, <4>1 DEF IInv, WaitOK, Linked, Woke
    <3> QED
      BY <3>2, <3>3, <3>4
  <2>10. VictimOK'
    BY <1>3, <2>3, <2>6, <2>7 DEF VictimOK
  <2>11. NoLostWork'
    BY <1>1, <2>5, <2>6 DEF IInv, NoLostWork
  <2>12. NoLostCompletion'
    <3>1. \A v \in Threads : wti'[v].jobWait # NoJob => wti'[v].jobWait = wti[v].jobWait
      BY <2>5, <2>6
    <3> QED
      BY <1>1, <1>2, <2>2, <3>1, CompletionKept
  <2> QED
    BY <2>2, <2>4, <2>8, <2>9, <2>10, <2>11, <2>12 DEF IInv
<1>4. ASSUME Proceed(t, <<>>), UNCHANGED <<wti, victim>>
      PROVE  IInv'
  <2>1. Ready(t, <<>>)
    BY <1>1, CloserReady
  <2> QED
    BY <1>1, <1>2, <1>4, <2>1, QuietStep
<1> QED
  BY <1>3, <1>4 DEF CloseUnlinks

LEMMA CloseWakesOK ==
  ASSUME IInv, NEW t \in Threads, CloseWakes(t)
  PROVE  IInv'
<1> DEFINE f == JobFrame("closeAck", NoJob, TRUE)
<1>1. /\ fr[t].op = "closeWake" /\ fr[t] \in Frame /\ fr[t].op \in CloseOps
      /\ UNCHANGED <<job, pending, termEv, isClosing, faulted, victim>>
      /\ Proceed(t, <<f>>)
  BY InvFacts DEF CloseWakes, CloseOps
<1>2. PICK u \in Threads : victim = u /\ fr[u].op = "asleep" /\ wti[u] = Unlinked
  BY <1>1 DEF IInv, VictimOK
<1>3. Ready(t, <<f>>) /\ f.op = "closeAck"
  BY <1>1, CloserReady DEF CloseOps
<1> HIDE DEF f
<1>4. job' \in [Jobs -> JobState] /\ JobsKeep({})
  BY <1>1, JobUnchanged
<1>5. StackAfter(t, <<f>>) /\ \A v \in Threads : StackOK(v)'
  BY <1>1, <1>3, <1>4, StacksOK DEF IInv, JobsKeep, Ready
<1>6. fr'[t] = f /\ \A v \in Threads \ {t} : fr'[v] = fr[v]
  BY <1>5 DEF StackAfter
<1>7. CloserOK'
  BY <1>1, <1>3, <1>4, ReadyCloser
<1>8. wti \in [Threads -> WaitInfo]
  BY DEF IInv, TypeOK
<1>9. /\ wti'[u].catWait = {} /\ wti'[u].jobWait = NoJob
      /\ wti'[u].disp = "Terminated" /\ wti'[u] \in WaitInfo
      /\ \A v \in Threads \ {u} : wti'[v] = wti[v]
      /\ wti' \in [Threads -> WaitInfo]
  <2>1. wti' = [wti EXCEPT ![u] = [Unlinked EXCEPT !.disp = "Terminated"]]
    BY <1>2, <1>8 DEF CloseWakes
  <2>2. LET w == [Unlinked EXCEPT !.disp = "Terminated"]
        IN  w.catWait = {} /\ w.jobWait = NoJob /\ w.disp = "Terminated" /\ w \in WaitInfo
    BY DEF Unlinked, WaitInfo, Dispositions
  <2> QED
    BY <1>2, <1>8, <2>1, <2>2
<1>10. TypeOK'
  BY <1>1, <1>5, <1>9 DEF IInv, TypeOK, StackAfter
<1>11. \A v \in Threads : WaitOK(v)'
  <2>1. u # t
    BY <1>1, <1>2
  <2>2. WaitOK(u)'
    BY <1>2, <1>6, <1>9, <2>1 DEF WaitOK, Linked, Woke
  <2>3. ASSUME NEW v \in Threads \ {u}
        PROVE  WaitOK(v)'
    <3>1. ~Chosen(v)
      BY <1>2 DEF Chosen
    <3> QED
      BY <1>1, <1>3, <1>6, <1>9, <3>1 DEF IInv, WaitOK, Linked, Woke
  <2> QED
    BY <2>2, <2>3
<1>12. VictimOK'
  BY <1>1, <1>3, <1>6, OneCloser DEF VictimOK
<1>13. NoLostWork'
  BY <1>1, <1>9 DEF IInv, NoLostWork
<1>14. NoLostCompletion'
  <2>1. \A v \in Threads : wti'[v].jobWait # NoJob => wti'[v].jobWait = wti[v].jobWait
    BY <1>9
  <2> QED
    BY <1>1, <1>4, <1>5, <2>1, CompletionKept
<1> QED
  BY <1>5, <1>7, <1>10, <1>11, <1>12, <1>13, <1>14 DEF IInv

LEMMA CloseAwaitsAckOK ==
  ASSUME IInv, NEW t \in Threads, CloseAwaitsAck(t)
  PROVE  IInv'
<1> DEFINE f == JobFrame("closeTerm", NoJob, TRUE)
<1>1. /\ fr[t].op = "closeAck" /\ fr[t] \in Frame /\ fr[t].op \in CloseOps
      /\ UNCHANGED <<job, pending, wti, isClosing, faulted>>
      /\ termEv' = [termEv EXCEPT ![victim] = FALSE] /\ victim' = NoThread
      /\ Proceed(t, <<f>>)
  BY InvFacts DEF CloseAwaitsAck, CloseOps
<1>2. Ready(t, <<f>>) /\ f.op = "closeTerm"
  BY <1>1, CloserReady DEF CloseOps
<1> HIDE DEF f
<1>3. job' \in [Jobs -> JobState] /\ JobsKeep({})
  BY <1>1, JobUnchanged
<1>4. StackAfter(t, <<f>>) /\ \A v \in Threads : StackOK(v)'
  BY <1>1, <1>2, <1>3, StacksOK DEF IInv, JobsKeep, Ready
<1>5. fr'[t] = f /\ \A v \in Threads \ {t} : fr'[v] = fr[v]
  BY <1>4 DEF StackAfter
<1>6. CloserOK'
  BY <1>1, <1>2, <1>3, ReadyCloser
<1>7. TypeOK'
  BY <1>1, <1>4 DEF IInv, TypeOK, StackAfter
<1>8. \A v \in Threads : fr[v].op # "closeWake"
  BY <1>1, OneCloser
<1>9. \A v \in Threads : WaitOK(v)'
  <2>1. SUFFICES ASSUME NEW v \in Threads
                 PROVE  WaitOK(v)'
    OBVIOUS
  <2>2. ~Chosen(v)
    BY <1>8 DEF Chosen
  <2>3. fr'[v].op = "asleep" <=> fr[v].op = "asleep"
    BY <1>1, <1>2, <1>5
  <2>4. v # t => fr'[v] = fr[v]
    BY <1>5
  <2>5. v = t => ~Linked(v) /\ ~Woke(v)
    BY <1>1 DEF IInv, WaitOK
  <2> QED
    BY <1>1, <2>2, <2>3, <2>4, <2>5 DEF IInv, WaitOK, Linked, Woke
<1>10. VictimOK'
  BY <1>2, <1>5, <1>8 DEF VictimOK
<1>11. NoLostWork'
  BY <1>1 DEF IInv, NoLostWork
<1>12. NoLostCompletion'
  BY <1>1, <1>3, <1>4, CompletionKept
<1> QED
  BY <1>4, <1>6, <1>7, <1>9, <1>10, <1>11, <1>12 DEF IInv

-----------------------------------------------------------------------------
(* The inductive invariant.                                                *)

LEMMA InitInv ==
  ASSUME Init
  PROVE  IInv
<1>1. \A t \in Threads : wti[t] = Unlinked /\ fr[t] = Client(TRUE) /\ stack[t] = <<>>
  BY DEF Init
<1>2. /\ Unlinked.catWait = {} /\ Unlinked.jobWait = NoJob /\ Unlinked.disp = "Invalid"
      /\ Unlinked \in WaitInfo
  BY DEF Unlinked, WaitInfo, Dispositions
<1>3. Client(TRUE) \in Frame /\ Client(TRUE).op = "client"
  BY FramesOK DEF Client, JobFrame
<1>4. NoJobYet \in JobState
  <2>1. NewJob(NormalPriority, {}, FALSE) \in JobState
    BY JobQueueAssumption DEF NewJob, JobState
  <2>2. \A q \in JobState : [q EXCEPT !.made = "no"] \in JobState
    BY DEF JobState
  <2> QED
    BY <2>1, <2>2 DEF NoJobYet
<1>5. TypeOK
  <2>1. job \in [Jobs -> JobState]
    BY <1>4 DEF Init
  <2>2. pending \in [Types -> Seq(Jobs)] /\ stack \in [Threads -> Seq(Frame)]
    BY EmptySeq DEF Init
  <2>3. wti \in [Threads -> WaitInfo] /\ fr \in [Threads -> Frame]
    BY <1>2, <1>3 DEF Init
  <2> QED
    BY <2>1, <2>2, <2>3 DEF Init, TypeOK
<1>6. ASSUME NEW t \in Threads
      PROVE  StackOK(t) /\ WaitOK(t) /\ ~HasClose(t)
  <2>1. Len(stack[t]) = 0
    BY <1>1, EmptySeq
  <2>2. 1..Len(stack[t]) = {}
    BY <2>1
  <2>3. Base(fr[t]) /\ WaitsForMade(fr[t]) /\ fr[t].op \notin CloseOps
    BY <1>1, <1>3 DEF Base, WaitsForMade, CloseOps
  <2>4. StackOK(t) /\ ~HasClose(t)
    BY <1>1, <2>2, <2>3 DEF StackOK, HasClose
  <2>5. WaitOK(t)
    BY <1>1, <1>2, <1>3 DEF WaitOK, Linked, Woke
  <2> QED
    BY <2>4, <2>5
<1>7. CloserOK /\ VictimOK
  BY <1>1, <1>3, <1>6 DEF CloserOK, VictimOK
<1>8. NoLostWork /\ NoLostCompletion
  BY <1>1, <1>2 DEF NoLostWork, NoLostCompletion
<1> QED
  BY <1>5, <1>6, <1>7, <1>8 DEF IInv

LEMMA StutterInv ==
  ASSUME IInv, UNCHANGED vars
  PROVE  IInv'
<1>1. TypeOK' /\ CloserOK' /\ VictimOK'
  BY DEF IInv, vars, TypeOK, CloserOK, HasClose, VictimOK
<1>2. (\A t \in Threads : StackOK(t)') /\ (\A u \in Threads : WaitOK(u)')
  BY DEF IInv, vars, StackOK, WaitsForMade, WaitOK, Linked, Woke, Chosen
<1>3. NoLostWork' /\ NoLostCompletion'
  BY DEF IInv, vars, NoLostWork, NoLostCompletion
<1> QED
  BY <1>1, <1>2, <1>3 DEF IInv

LEMMA NextInv ==
  ASSUME IInv, [Next]_vars
  PROVE  IInv'
<1>1. ASSUME NEW t \in Threads, ClientStep(t)
      PROVE  IInv'
  <2>1. ASSUME NEW j \in Jobs, NEW c \in Types, NEW D \in SUBSET Jobs, CreateJob(t, j, c, D)
        PROVE  IInv'
    BY <2>1, CreateJobOK
  <2>2. ASSUME NEW j \in Jobs, CreateSignaledJob(t, j)
        PROVE  IInv'
    BY <2>2, CreateSignaledJobOK
  <2>3. ASSUME NEW j \in Jobs, NEW ok \in BOOLEAN, SignalDone(t, j, ok)
        PROVE  IInv'
    BY <2>3, SignalDoneOK
  <2>4. ASSUME NEW j \in Jobs, CallWaitForJob(t, j)
        PROVE  IInv'
    BY <2>4, CallWaitForJobOK
  <2>5. ASSUME NEW b \in BOOLEAN, WaitForWork(t, b)
        PROVE  IInv'
    BY <2>5, WaitForWorkOK
  <2>6. ASSUME CallClose(t)
        PROVE  IInv'
    BY <2>6, CallCloseOK
  <2> QED
    BY <1>1, <2>1, <2>2, <2>3, <2>4, <2>5, <2>6 DEF ClientStep
<1>2. ASSUME NEW t \in Threads, QueueStep(t)
      PROVE  IInv'
  BY <1>2, CreatedJobOK, CreateReturnsOK, JobDonePublishOK, JobDoneWakeOK,
     AddRunnableJobOK, AddMarksStartedOK, RunEnterOK, RunnerReturnsOK, WaitForJobOK, AwakeOK,
     CloseAbortsPendingOK, CloseUnlinksOK, CloseWakesOK, CloseAwaitsAckOK
     DEF QueueStep
<1> QED
  BY <1>1, <1>2, StutterInv DEF Next, Step

(* The invariant holds in every behaviour of the queue.                    *)
THEOREM JobQueueInv == Spec => []IInv
<1>1. Init => IInv
  BY InitInv
<1>2. IInv /\ [Next]_vars => IInv'
  BY NextInv
<1> QED
  BY <1>1, <1>2, PTL DEF Spec

(* Every variable of the queue keeps its type, so no list or stack is read *)
(* when it is empty and no call is made for a null job.                    *)
THEOREM JobQueueTypeOK == Spec => []TypeOK
BY JobQueueInv, PTL DEF IInv

(* No lost work, for any number of threads, types and jobs: while a job is *)
(* pending, no thread sleeps that AddRunnableJob or WaitForWorkOrJob would *)
(* have given it to.                                                       *)
THEOREM JobQueueNoLostWork == Spec => []NoLostWork
BY JobQueueInv, PTL DEF IInv

(* No lost completion: no thread is left in the ring of a completed job    *)
(* unless a JobDone is on its way to that ring, although JobDone sets the  *)
(* flag under one mutex and empties the ring under another.                *)
THEOREM JobQueueNoLostCompletion == Spec => []NoLostCompletion
BY JobQueueInv, PTL DEF IInv

(* One wake per wait: the rings, PrivClose's victim and the wake event     *)
(* exclude each other, and concern sleeping threads only.                  *)
THEOREM JobQueueOneWakePerWait == Spec => []OneWakePerWait
<1>1. IInv => OneWakePerWait
  <2>1. SUFFICES ASSUME IInv, NEW u \in Threads
                 PROVE  /\ Linked(u) \/ Woke(u) \/ Chosen(u) => fr[u].op = "asleep"
                        /\ fr[u].op = "asleep" => Linked(u) \/ Woke(u) \/ Chosen(u)
                        /\ ~(Linked(u) /\ Woke(u))
                        /\ ~(Linked(u) /\ Chosen(u))
                        /\ ~(Woke(u) /\ Chosen(u))
    BY DEF OneWakePerWait, Linked, Woke, Chosen
  <2>2. WaitOK(u)
    BY <2>1 DEF IInv
  <2>3. Chosen(u) => fr[u].op = "asleep" /\ ~Linked(u) /\ ~Woke(u)
    <3>1. Chosen(u) => fr[u].op = "asleep" /\ wti[u] = Unlinked
      BY <2>1 DEF IInv, VictimOK, Chosen
    <3> QED
      BY <3>1 DEF Unlinked, Linked, Woke
  <2> QED
    BY <2>2, <2>3 DEF WaitOK
<1> QED
  BY <1>1, JobQueueInv, PTL

-----------------------------------------------------------------------------
(* What PrivClose leaves behind: the proof follows the closer's frames.   *)
(* Each of its loops is left only when what it empties is empty, and what  *)
(* is empty stays so while m_isClosing is set.                             *)

(* t is in the loop of PrivClose that completes the pending jobs, or in a  *)
(* JobDone that this loop has called.                                      *)
Popping(t) == \/ fr[t].op = "closePop"
              \/ \E i \in 1..Len(stack[t]) : stack[t][i].op = "closePop"

NonePendingAtAll == \A c \in Types : pending[c] = <<>>
NoneWaits == \A u \in Threads : wti[u].catWait = {}

ClosingOK ==
  isClosing => /\ NonePendingAtAll \/ \E t \in Threads : Popping(t)
               /\ NoneWaits \/ \E t \in Threads : HasClose(t)

-----------------------------------------------------------------------------
(* Steps of a call stack, by the frames they put in the place of the first.*)

StackSteps(t) ==
  \/ UNCHANGED <<fr, stack>>
  \/ Proceed(t, <<>>)
  \/ \E a : Proceed(t, <<a>>)
  \/ \E a, b : Proceed(t, <<a, b>>)

(* What is below t's frame stays on its stack, and other stacks stay.      *)
KeepsStacks(t) ==
  /\ \A i \in 1..Len(stack[t]) :
       \/ fr'[t] = stack[t][i]
       \/ \E k \in 1..Len(stack'[t]) : stack'[t][k] = stack[t][i]
  /\ \A u \in Threads \ {t} : fr'[u] = fr[u] /\ stack'[u] = stack[u]

LEMMA OneOnTop ==
  ASSUME NEW S, NEW old \in Seq(S), NEW a
  PROVE  Head(<<a>> \o old) = a /\ Tail(<<a>> \o old) = old
<1> DEFINE T == S \cup {a}
           s == <<a>> \o old
<1>1. old \in Seq(T) /\ <<a>> \in Seq(T) /\ Len(<<a>>) = 1 /\ <<a>>[1] = a
  OBVIOUS
<1>2. /\ s \in Seq(T) /\ Len(s) = 1 + Len(old) /\ Len(old) \in Nat
      /\ \A i \in 1..Len(s) : s[i] = IF i <= 1 THEN <<a>>[i] ELSE old[i - 1]
  BY <1>1, ConcatProperties, LenProperties
<1>3. s # <<>>
  BY <1>2, EmptySeq
<1> HIDE DEF s
<1>4. /\ Head(s) = s[1] /\ Tail(s) \in Seq(T) /\ Len(Tail(s)) = Len(s) - 1
      /\ \A i \in 1..Len(Tail(s)) : Tail(s)[i] = s[i + 1]
  BY <1>2, <1>3, HeadTailProperties
<1>5. Head(s) = a
  BY <1>1, <1>2, <1>4
<1>6. Len(Tail(s)) = Len(old) /\ \A i \in 1..Len(old) : Tail(s)[i] = old[i]
  BY <1>2, <1>4
<1>7. Tail(s) = old
  BY <1>1, <1>4, <1>6, SeqEqual
<1> QED
  BY <1>5, <1>7 DEF s

LEMMA TwoOnTop ==
  ASSUME NEW S, NEW old \in Seq(S), NEW a, NEW b
  PROVE  LET s == Tail(<<a, b>> \o old)
         IN  /\ Head(<<a, b>> \o old) = a
             /\ Len(s) = 1 + Len(old) /\ s[1] = b
             /\ \A i \in 1..Len(old) : s[i + 1] = old[i]
<1> DEFINE T == S \cup {a, b}
           s == <<b>> \o old
<1>1. <<a>> \in Seq(T) /\ <<b>> \in Seq(T) /\ old \in Seq(T) /\ Len(<<b>>) = 1
  OBVIOUS
<1>2. /\ s \in Seq(T) /\ Len(s) = 1 + Len(old) /\ Len(old) \in Nat
      /\ \A i \in 1..Len(s) : s[i] = IF i <= 1 THEN <<b>>[i] ELSE old[i - 1]
  BY <1>1, ConcatProperties, LenProperties
<1>3. <<a, b>> \o old = <<a>> \o s
  <2>1. <<a, b>> = <<a>> \o <<b>>
    BY Concats
  <2>2. (<<a>> \o <<b>>) \o old = <<a>> \o (<<b>> \o old)
    BY <1>1, ConcatAssociative
  <2> QED
    BY <2>1, <2>2
<1> HIDE DEF s
<1>4. Head(<<a, b>> \o old) = a /\ Tail(<<a, b>> \o old) = s
  BY <1>2, <1>3, OneOnTop
<1>5. s[1] = b /\ \A i \in 1..Len(old) : s[i + 1] = old[i]
  BY <1>2
<1> QED
  BY <1>2, <1>4, <1>5

LEMMA MovesKeep ==
  ASSUME TypeOK, NEW t \in Threads, StackSteps(t)
  PROVE  KeepsStacks(t)
<1> DEFINE old == stack[t]
<1>1. /\ old \in Seq(Frame) /\ Len(old) \in Nat
      /\ fr \in [Threads -> Frame] /\ stack \in [Threads -> Seq(Frame)]
  BY LenProperties DEF TypeOK
<1>2. CASE UNCHANGED <<fr, stack>>
  BY <1>2 DEF KeepsStacks
<1>3. CASE Proceed(t, <<>>)
  <2>1. <<>> \o old = old
    BY <1>1, ConcatEmptySeq
  <2>2. /\ fr'[t] = Head(old) /\ stack'[t] = Tail(old)
        /\ \A u \in Threads \ {t} : fr'[u] = fr[u] /\ stack'[u] = stack[u]
    BY <1>1, <1>3, <2>1 DEF Proceed
  <2>3. ASSUME NEW i \in 1..Len(old)
        PROVE  fr'[t] = old[i] \/ \E k \in 1..Len(stack'[t]) : stack'[t][k] = old[i]
    <3>1. old # <<>>
      BY <1>1, EmptySeq
    <3>2. /\ Head(old) = old[1] /\ Len(Tail(old)) = Len(old) - 1
          /\ \A k \in 1..Len(Tail(old)) : Tail(old)[k] = old[k + 1]
      BY <1>1, <3>1, HeadTailProperties
    <3>3. i = 1 \/ (i - 1 \in 1..Len(Tail(old)) /\ Tail(old)[i - 1] = old[i])
      BY <1>1, <3>2
    <3> QED
      BY <2>2, <3>2, <3>3
  <2> QED
    BY <2>2, <2>3 DEF KeepsStacks
<1>4. ASSUME NEW a, Proceed(t, <<a>>)
      PROVE  KeepsStacks(t)
  <2>1. Tail(<<a>> \o old) = old
    BY <1>1, OneOnTop
  <2>2. /\ stack'[t] = old
        /\ \A u \in Threads \ {t} : fr'[u] = fr[u] /\ stack'[u] = stack[u]
    BY <1>1, <1>4, <2>1 DEF Proceed
  <2> QED
    BY <2>2 DEF KeepsStacks
<1>5. ASSUME NEW a, NEW b, Proceed(t, <<a, b>>)
      PROVE  KeepsStacks(t)
  <2> DEFINE s == Tail(<<a, b>> \o old)
  <2>1. Len(s) = 1 + Len(old) /\ \A i \in 1..Len(old) : s[i + 1] = old[i]
    BY <1>1, TwoOnTop
  <2>2. /\ stack'[t] = s
        /\ \A u \in Threads \ {t} : fr'[u] = fr[u] /\ stack'[u] = stack[u]
    BY <1>1, <1>5 DEF Proceed
  <2> HIDE DEF s
  <2>3. \A i \in 1..Len(old) : i + 1 \in 1..Len(s) /\ s[i + 1] = old[i]
    BY <1>1, <2>1
  <2> QED
    BY <2>2, <2>3 DEF KeepsStacks
<1> QED
  BY <1>2, <1>3, <1>4, <1>5 DEF StackSteps
-----------------------------------------------------------------------------
(* What a step does to what the closer waits for.                          *)

(* What is empty stays empty while the queue closes.                       *)
EmptyStays ==
  isClosing => /\ \A c \in Types : pending[c] = <<>> => pending'[c] = <<>>
               /\ \A u \in Threads : wti[u].catWait = {} => wti'[u].catWait = {}

(* Steps of a thread whose first frame does not close the queue.           *)
LEMMA OtherStep ==
  ASSUME IInv, ClosingOK, NEW t \in Threads, fr[t].op \notin CloseOps,
         StackSteps(t), EmptyStays, isClosing' = isClosing
  PROVE  ClosingOK'
<1>1. KeepsStacks(t)
  BY MovesKeep DEF IInv
<1>2. ASSUME NEW u \in Threads
      PROVE  (Popping(u) => Popping(u)') /\ (HasClose(u) => HasClose(u)')
  <2>1. CASE u = t
    <3>1. fr[t].op # "closePop"
      BY DEF CloseOps
    <3> QED
      BY <1>1, <2>1, <3>1 DEF KeepsStacks, Popping, HasClose
  <2>2. CASE u # t
    BY <1>1, <2>2 DEF KeepsStacks, Popping, HasClose
  <2> QED
    BY <2>1, <2>2
<1>3. isClosing => (NonePendingAtAll => NonePendingAtAll') /\ (NoneWaits => NoneWaits')
  BY DEF EmptyStays, NonePendingAtAll, NoneWaits
<1>4. ASSUME isClosing'
      PROVE  NonePendingAtAll' \/ \E u \in Threads : Popping(u)'
  BY <1>2, <1>3, <1>4 DEF ClosingOK
<1>5. ASSUME isClosing'
      PROVE  NoneWaits' \/ \E u \in Threads : HasClose(u)'
  BY <1>2, <1>3, <1>5 DEF ClosingOK
<1> QED
  BY <1>4, <1>5 DEF ClosingOK

(* Steps that leave the lists and the rings as they are.                   *)
LEMMA UnchangedStays ==
  ASSUME UNCHANGED <<pending, wti>>
  PROVE  EmptyStays
BY DEF EmptyStays

LEMMA TakeMoves ==
  ASSUME NEW t, NEW types, NEW x, TakePending(t, types, <<x>>)
  PROVE  StackSteps(t)
<1>1. PICK i \in DOMAIN types :
        Proceed(t, <<JobFrame("enter", Head(pending[types[i]]), TRUE)>> \o <<x>>)
  BY DEF TakePending
<1> DEFINE f == JobFrame("enter", Head(pending[types[i]]), TRUE)
<1> HIDE DEF f
<1>2. <<f>> \o <<x>> = <<f, x>>
  BY Concats
<1>3. Proceed(t, <<f, x>>)
  BY <1>1, <1>2 DEF f
<1> QED
  BY <1>3 DEF StackSteps

(* The client's steps, but for the call of Close.                          *)
LEMMA ClientKeeps ==
  ASSUME IInv, ClosingOK, NEW t \in Threads, ClientStep(t), ~CallClose(t)
  PROVE  ClosingOK'
<1>1. InClient(t) => fr[t].op \notin CloseOps
  BY JobQueueAssumption DEF InClient, CloseOps
<1>2. ASSUME NEW j \in Jobs, NEW c \in Types, NEW D \in SUBSET Jobs, CreateJob(t, j, c, D)
      PROVE  ClosingOK'
  BY <1>1, <1>2, OtherStep, UnchangedStays DEF CreateJob, Call, StackSteps
<1>3. ASSUME NEW j \in Jobs, CreateSignaledJob(t, j)
      PROVE  ClosingOK'
  BY <1>1, <1>3, OtherStep, UnchangedStays DEF CreateSignaledJob, StackSteps
<1>4. ASSUME NEW j \in Jobs, NEW ok \in BOOLEAN, SignalDone(t, j, ok)
      PROVE  ClosingOK'
  BY <1>1, <1>4, OtherStep, UnchangedStays DEF SignalDone, Call, StackSteps
<1>5. ASSUME NEW j \in Jobs, CallWaitForJob(t, j)
      PROVE  ClosingOK'
  BY <1>1, <1>5, OtherStep, UnchangedStays DEF CallWaitForJob, Call, StackSteps
<1>6. ASSUME NEW b \in BOOLEAN, WaitForWork(t, b)
      PROVE  ClosingOK'
  <2>1. fr[t].op \notin CloseOps /\ isClosing' = isClosing
    BY <1>6 DEF WaitForWork, CloseOps
  <2>2. StackSteps(t)
    <3>1. CASE \E f : Proceed(t, <<f>>)
      BY <3>1 DEF StackSteps
    <3>2. CASE TakePending(t, WorkTypes[t], <<Client(TRUE)>>)
      BY <3>2, TakeMoves
    <3> QED
      BY <1>6, <3>1, <3>2 DEF WaitForWork, Sleep
  <2>3. EmptyStays
    BY <1>6 DEF WaitForWork, EmptyStays
  <2> QED
    BY <2>1, <2>2, <2>3, OtherStep
<1> QED
  BY <1>2, <1>3, <1>4, <1>5, <1>6 DEF ClientStep

(* The steps of the queue's own code outside PrivClose.                    *)
LEMMA QueueKeeps ==
  ASSUME IInv, ClosingOK, NEW t \in Threads, QueueStep(t), fr[t].op \notin CloseOps
  PROVE  ClosingOK'
<1>1. ASSUME CreatedJob(t)
      PROVE  ClosingOK'
  BY <1>1, OtherStep, UnchangedStays DEF CreatedJob, StackSteps
<1>2. ASSUME CreateReturns(t)
      PROVE  ClosingOK'
  BY <1>2, OtherStep, UnchangedStays DEF CreateReturns, StackSteps
<1>3. ASSUME JobDonePublish(t)
      PROVE  ClosingOK'
  BY <1>3, OtherStep, UnchangedStays DEF JobDonePublish, StackSteps
<1>4. ASSUME JobDoneWake(t)
      PROVE  ClosingOK'
  <2>1. EmptyStays
    BY <1>4, WokenFields DEF JobDoneWake, EmptyStays
  <2> QED
    BY <1>4, <2>1, OtherStep DEF JobDoneWake, StackSteps
<1>5. ASSUME AddRunnableJob(t)
      PROVE  ClosingOK'
  <2>1. PICK j \in fr[t].jobs : AddAborts(t, j) \/ AddHandsOver(t, j) \/ AddQueues(t, j)
    BY <1>5 DEF AddRunnableJob
  <2>2. EmptyStays
    BY <2>1 DEF AddAborts, AddHandsOver, AddQueues, EmptyStays
  <2>3. StackSteps(t)
    <3> DEFINE m == JobFrame("mark", j, FALSE)
               a == AddsFrame(fr[t].jobs \ {j})
    <3>1. Proceed(t, <<m>> \o RestOfAdds(t, j)) \/ Proceed(t, RestOfAdds(t, j))
      BY <2>1 DEF AddAborts, AddHandsOver, AddQueues
    <3>2. RestOfAdds(t, j) = <<>> \/ RestOfAdds(t, j) = <<a>>
      BY DEF RestOfAdds
    <3> HIDE DEF m, a
    <3>3. <<m>> \o <<>> = <<m>> /\ <<m>> \o <<a>> = <<m, a>>
      BY Concats
    <3>4. \/ Proceed(t, <<>>) \/ Proceed(t, <<a>>)
          \/ Proceed(t, <<m>>) \/ Proceed(t, <<m, a>>)
      BY <3>1, <3>2, <3>3
    <3> QED
      BY <3>4 DEF StackSteps
  <2> QED
    BY <1>5, <2>2, <2>3, OtherStep DEF AddRunnableJob
<1>6. ASSUME AddMarksStarted(t)
      PROVE  ClosingOK'
  BY <1>6, OtherStep, UnchangedStays DEF AddMarksStarted, StackSteps
<1>7. ASSUME RunEnter(t)
      PROVE  ClosingOK'
  BY <1>7, OtherStep, UnchangedStays DEF RunEnter, StackSteps
<1>8. ASSUME NEW ok \in BOOLEAN, RunnerReturns(t, ok)
      PROVE  ClosingOK'
  BY <1>8, OtherStep, UnchangedStays DEF RunnerReturns, StackSteps
<1>9. ASSUME WaitForJob(t)
      PROVE  ClosingOK'
  <2>1. EmptyStays
    BY <1>9 DEF WaitForJob, EmptyStays
  <2>2. StackSteps(t)
    <3>1. CASE Proceed(t, <<>>) \/ \E f : Proceed(t, <<f>>)
      BY <3>1 DEF StackSteps
    <3>2. CASE TakePending(t, IdleTypes[t], <<fr[t]>>)
      BY <3>2, TakeMoves
    <3> QED
      BY <1>9, <3>1, <3>2 DEF WaitForJob, TakeSpecified, Sleep
  <2> QED
    BY <1>9, <2>1, <2>2, OtherStep DEF WaitForJob
<1>10. ASSUME Awake(t)
       PROVE  ClosingOK'
  <2>1. EmptyStays
    BY <1>10 DEF Awake, EmptyStays, Unlinked, IInv, TypeOK
  <2>2. StackSteps(t)
    <3> DEFINE enter == JobFrame("enter", wti[t].job, TRUE)
               again == JobFrame("waitJob", fr[t].job, TRUE)
    <3>1. \/ Proceed(t, <<>>) \/ Proceed(t, <<Client(FALSE)>>) \/ Proceed(t, <<enter>>)
          \/ Proceed(t, <<enter>> \o <<Client(TRUE)>>) \/ Proceed(t, <<enter>> \o <<again>>)
      BY <1>10 DEF Awake
    <3> HIDE DEF enter, again
    <3>2. /\ <<enter>> \o <<Client(TRUE)>> = <<enter, Client(TRUE)>>
          /\ <<enter>> \o <<again>> = <<enter, again>>
      BY Concats
    <3>3. \/ Proceed(t, <<>>) \/ Proceed(t, <<Client(FALSE)>>) \/ Proceed(t, <<enter>>)
          \/ Proceed(t, <<enter, Client(TRUE)>>) \/ Proceed(t, <<enter, again>>)
      BY <3>1, <3>2, Zenon
    <3> HIDE DEF Proceed
    <3> QED
      BY <3>3 DEF StackSteps
  <2> QED
    BY <1>10, <2>1, <2>2, OtherStep DEF Awake
<1>11. ~(CloseAbortsPending(t) \/ CloseUnlinks(t) \/ CloseWakes(t) \/ CloseAwaitsAck(t))
  BY DEF CloseAbortsPending, CloseUnlinks, CloseWakes, CloseAwaitsAck, CloseOps
<1> QED
  BY <1>1, <1>2, <1>3, <1>4, <1>5, <1>6, <1>7, <1>8, <1>9, <1>10, <1>11 DEF QueueStep

-----------------------------------------------------------------------------
(* The closer.                                                             *)

(* A step that puts one frame, or two, in the place of t's first.          *)
LEMMA NewFrames ==
  ASSUME TypeOK, NEW t \in Threads
  PROVE  /\ \A a : Proceed(t, <<a>>) => fr'[t] = a
         /\ \A a, b : Proceed(t, <<a, b>>) =>
              fr'[t] = a /\ \E k \in 1..Len(stack'[t]) : stack'[t][k] = b
<1>1. /\ stack[t] \in Seq(Frame)
      /\ fr \in [Threads -> Frame] /\ stack \in [Threads -> Seq(Frame)]
  BY DEF TypeOK
<1>2. ASSUME NEW a, Proceed(t, <<a>>)
      PROVE  fr'[t] = a
  <2>1. Head(<<a>> \o stack[t]) = a
    BY <1>1, OneOnTop
  <2> QED
    BY <1>1, <1>2, <2>1 DEF Proceed
<1>3. ASSUME NEW a, NEW b, Proceed(t, <<a, b>>)
      PROVE  fr'[t] = a /\ \E k \in 1..Len(stack'[t]) : stack'[t][k] = b
  <2> DEFINE s == Tail(<<a, b>> \o stack[t])
  <2>1. Head(<<a, b>> \o stack[t]) = a /\ Len(s) = 1 + Len(stack[t]) /\ s[1] = b
    BY <1>1, TwoOnTop
  <2>2. fr'[t] = a /\ stack'[t] = s
    BY <1>1, <1>3, <2>1 DEF Proceed
  <2> HIDE DEF s
  <2>3. 1 \in 1..Len(s)
    BY <1>1, <2>1, LenProperties
  <2> QED
    BY <2>1, <2>2, <2>3
<1> QED
  BY <1>2, <1>3

LEMMA CallCloseKeeps ==
  ASSUME IInv, NEW t \in Threads, CallClose(t)
  PROVE  ClosingOK'
<1> DEFINE f == JobFrame("closePop", NoJob, TRUE)
<1>1. Proceed(t, <<f, fr[t]>>) /\ f.op = "closePop"
  BY DEF CallClose, Call, JobFrame
<1> HIDE DEF f
<1>2. fr'[t] = f
  BY <1>1, NewFrames DEF IInv
<1>3. Popping(t)' /\ HasClose(t)'
  BY <1>1, <1>2 DEF Popping, HasClose, CloseOps
<1> QED
  BY <1>3 DEF ClosingOK

(* A step of the closer outside its first loop leaves that loop as it is.  *)
LEMMA PoppingKept ==
  ASSUME TypeOK, NEW t \in Threads, fr[t].op # "closePop", StackSteps(t),
         \E u \in Threads : Popping(u)
  PROVE  \E u \in Threads : Popping(u)'
<1>1. KeepsStacks(t)
  BY MovesKeep
<1>2. PICK u \in Threads : Popping(u)
  OBVIOUS
<1>3. CASE u = t
  BY <1>1, <1>2, <1>3, SMTT(30) DEF KeepsStacks, Popping
<1>4. CASE u # t
  BY <1>1, <1>2, <1>4 DEF KeepsStacks, Popping
<1> QED
  BY <1>3, <1>4

LEMMA CloserKeeps ==
  ASSUME IInv, ClosingOK, NEW t \in Threads, QueueStep(t), fr[t].op \in CloseOps
  PROVE  ClosingOK'
<1> DEFINE f(op) == JobFrame(op, NoJob, TRUE)
<1>1. \A op : f(op).op = op
  BY DEF JobFrame
<1>2. TypeOK /\ HasClose(t)
  BY DEF IInv, HasClose
<1>3. ASSUME NEW op \in CloseOps, Proceed(t, <<f(op)>>)
      PROVE  HasClose(t)' /\ StackSteps(t)
  <2>1. fr'[t] = f(op) /\ f(op).op \in CloseOps
    BY <1>1, <1>2, <1>3, NewFrames
  <2> QED
    BY <1>3, <2>1 DEF HasClose, StackSteps
<1> HIDE DEF f
<1>4. ASSUME CloseAbortsPending(t)
      PROVE  ClosingOK'
  <2>1. CASE \E c \in Types :
               Proceed(t, <<JobFrame("publish", Head(pending[c]), FALSE), fr[t]>>)
    <3>1. fr[t].op = "closePop" /\ \E k \in 1..Len(stack'[t]) : stack'[t][k] = fr[t]
      BY <1>2, <1>4, <2>1, NewFrames DEF CloseAbortsPending
    <3>2. Popping(t)' /\ HasClose(t)'
      BY <3>1 DEF Popping, HasClose, CloseOps
    <3> QED
      BY <3>2 DEF ClosingOK
  <2>2. CASE NonePendingAtAll /\ UNCHANGED pending /\ Proceed(t, <<f("closeTerm")>>)
    <3>1. NonePendingAtAll' /\ HasClose(t)'
      BY <1>3, <2>2 DEF NonePendingAtAll, CloseOps
    <3> QED
      BY <3>1 DEF ClosingOK
  <2> QED
    BY <1>4, <2>1, <2>2 DEF CloseAbortsPending, NonePendingAtAll, f
<1>5. ASSUME fr[t].op # "closePop", UNCHANGED <<pending, isClosing>>, StackSteps(t),
             HasClose(t)' \/ NoneWaits'
      PROVE  ClosingOK'
  BY <1>2, <1>5, PoppingKept DEF ClosingOK, NonePendingAtAll
<1>6. ASSUME CloseUnlinks(t)
      PROVE  ClosingOK'
  <2>1. fr[t].op # "closePop" /\ UNCHANGED <<pending, isClosing>>
    BY <1>6 DEF CloseUnlinks
  <2>2. CASE Proceed(t, <<f("closeWake")>>)
    BY <1>3, <1>5, <2>1, <2>2 DEF CloseOps
  <2>3. CASE NoneWaits /\ UNCHANGED wti /\ Proceed(t, <<>>)
    <3>1. NoneWaits' /\ StackSteps(t)
      BY <2>3 DEF NoneWaits, StackSteps
    <3> QED
      BY <1>5, <2>1, <3>1
  <2> QED
    BY <1>6, <2>2, <2>3 DEF CloseUnlinks, NoneWaits, f
<1>7. ASSUME CloseWakes(t)
      PROVE  ClosingOK'
  <2>1. fr[t].op # "closePop" /\ UNCHANGED <<pending, isClosing>> /\ Proceed(t, <<f("closeAck")>>)
    BY <1>7 DEF CloseWakes, f
  <2> QED
    BY <1>3, <1>5, <2>1 DEF CloseOps
<1>8. ASSUME CloseAwaitsAck(t)
      PROVE  ClosingOK'
  <2>1. fr[t].op # "closePop" /\ UNCHANGED <<pending, isClosing>> /\ Proceed(t, <<f("closeTerm")>>)
    BY <1>8 DEF CloseAwaitsAck, f
  <2> QED
    BY <1>3, <1>5, <2>1 DEF CloseOps
<1>9. CloseAbortsPending(t) \/ CloseUnlinks(t) \/ CloseWakes(t) \/ CloseAwaitsAck(t)
  BY DEF QueueStep, CreatedJob, CreateReturns, JobDonePublish, JobDoneWake, AddRunnableJob,
         AddMarksStarted, RunEnter, RunnerReturns, WaitForJob, Awake, CloseOps
<1> QED
  BY <1>4, <1>6, <1>7, <1>8, <1>9

-----------------------------------------------------------------------------
LEMMA NextClosing ==
  ASSUME IInv, ClosingOK, [Next]_vars
  PROVE  ClosingOK'
<1>1. ASSUME NEW t \in Threads, Step(t)
      PROVE  ClosingOK'
  BY <1>1, ClientKeeps, QueueKeeps, CallCloseKeeps, CloserKeeps DEF Step
<1>2. ASSUME UNCHANGED vars
      PROVE  ClosingOK'
  BY <1>2 DEF vars, ClosingOK, NonePendingAtAll, NoneWaits, Popping, HasClose
<1> QED
  BY <1>1, <1>2 DEF Next

(* Closing terminates what it has to: when the thread that called Close is *)
(* out of PrivClose, no job is pending and no thread sleeps in a list's    *)
(* ring, however many jobs were made runnable and threads went to sleep    *)
(* while it was closing.                                                   *)
THEOREM JobQueueClosedQueueIsEmpty == Spec => []ClosedQueueIsEmpty
<1>1. Init => ClosingOK
  BY DEF Init, ClosingOK
<1>2. IInv /\ ClosingOK /\ [Next]_vars => ClosingOK'
  BY NextClosing
<1>3. IInv /\ ClosingOK => ClosedQueueIsEmpty
  <2>1. SUFFICES ASSUME IInv, ClosingOK, isClosing,
                        \A t \in Threads : \A f \in Frames(t) : f.op \notin CloseOps
                 PROVE  NonePendingAtAll /\ NoneWaits
    BY DEF ClosedQueueIsEmpty, NonePendingAtAll, NoneWaits
  <2>2. ASSUME NEW t \in Threads
        PROVE  ~HasClose(t)
    <3>1. \A i \in 1..Len(stack[t]) : stack[t][i] \in Frames(t)
      BY DEF Frames, ToSet, IInv, TypeOK
    <3>2. fr[t] \in Frames(t)
      BY DEF Frames
    <3> QED
      BY <2>1, <3>1, <3>2 DEF HasClose
  <2>3. \A t \in Threads : Popping(t) => HasClose(t)
    BY DEF Popping, HasClose, CloseOps
  <2> QED
    BY <2>1, <2>2, <2>3 DEF ClosingOK
<1> QED
  BY <1>1, <1>2, <1>3, JobQueueInv, PTL DEF Spec

-----------------------------------------------------------------------------
(* No job is dropped on its way from CreateJob to its completion, for any  *)
(* number of threads and jobs and every schedule: not even where a job is  *)
(* started or completed twice.                                             *)

(* What the frame f does with the job j: carry it out or complete it, add  *)
(* it to a list, or create it.                                             *)
Starts(f, j)  == f.op \in {"enter", "run", "publish", "mark"} /\ f.job = j
Adds(f, j)    == f.op = "adds" /\ j \in f.jobs
Creates(f, j) == f.op = "created" /\ f.job = j

(* The frame f is on t's call stack.                                       *)
Somewhere(t, f) == f = fr[t] \/ \E i \in 1..Len(stack[t]) : f = stack[t][i]

(* Where a job may be.                                                     *)
InHands(j)  == \E t \in Threads : \E f \in Frame : Somewhere(t, f) /\ Starts(f, j)
Added(j)    == \E t \in Threads : \E f \in Frame : Somewhere(t, f) /\ Adds(f, j)
Creating(j) == \E t \in Threads : Creates(fr[t], j)
Listed(j)   == \E c \in Types : \E i \in 1..Len(pending[c]) : pending[c][i] = j
HandedTo(u, j) == /\ wti[u].job = j /\ fr[u].ok
                  /\ wti[u].disp \in {"DequeuedWork", "StartedByThisThread"}
Handed(j)   == \E u \in Threads : HandedTo(u, j)

(* The dependencies that will still count down for j, once each.           *)
Downs(j) == {d \in Jobs : j \in job[d].downs}
Open(j)  == {d \in Downs(j) : ~job[d].completed}

Placed(j) == \/ Listed(j) \/ Added(j) \/ InHands(j)
             \/ Creating(j) /\ job[j].numWaiting = 0 /\ Downs(j) = {}

(* A job that waits has dependencies to wait for, one that waits for none  *)
(* is somewhere, and one that was started is with the thread that did.     *)
JobOK(j) ==
  job[j].made # "no" /\ ~job[j].completed =>
    /\ job[j].signaler = "none" /\ job[j].numWaiting >= 1
         => job[j].numWaiting <= Cardinality(Open(j))
    /\ job[j].signaler = "none" /\ ~(job[j].numWaiting >= 1) /\ ~job[j].started => Placed(j)
    /\ job[j].started => InHands(j) \/ Handed(j)
    /\ job[j].signaler = "done" => InHands(j)

GraphOK == \A d \in Jobs :
  /\ \A j \in job[d].downs : d \in job[j].deps /\ job[j].made # "no"
  /\ job[d].made = "no" => job[d].downs = {}

(* A thread that would not run the job it is handed sleeps in the ring of  *)
(* a job that was started before.                                          *)
SleeperOK(u) ==
  /\ wti[u].catWait # {} => fr[u].ok
  /\ wti[u].jobWait # NoJob /\ ~fr[u].ok => job[wti[u].jobWait].started

(* A job whose creation goes on is made.                                   *)
MakesOK(t) == \A f \in Frame :
  Somewhere(t, f) /\ f.op \in {"created", "return"} => job[f.job].made # "no"

DInv == /\ GraphOK
        /\ \A t \in Threads : SleeperOK(t) /\ MakesOK(t)
        /\ \A j \in Jobs : JobOK(j)

-----------------------------------------------------------------------------
(* Call stacks.                                                            *)

(* t's frame is replaced by the frames in S, of which one may be the same. *)
StepsTo(t, S) ==
  /\ S \subseteq Frame
  /\ \A u \in Threads \ {t} : fr'[u] = fr[u] /\ stack'[u] = stack[u]
  /\ \A f \in Frame : Somewhere(t, f) /\ f # fr[t] => Somewhere(t, f)'
  /\ \A f \in Frame : Somewhere(t, f)' => Somewhere(t, f) \/ f \in S
  /\ \A f \in S : Somewhere(t, f)'

LEMMA StepsAre ==
  ASSUME IInv, NEW t \in Threads
  PROVE  /\ UNCHANGED <<fr, stack>> => StepsTo(t, {})
         /\ Proceed(t, <<>>) /\ ~Base(fr[t]) => StepsTo(t, {})
         /\ \A a \in Frame : Proceed(t, <<a>>) => StepsTo(t, {a})
         /\ \A a, b \in Frame : Proceed(t, <<a, b>>) => StepsTo(t, {a, b})
<1> DEFINE old == stack[t]
<1>1. /\ old \in Seq(Frame) /\ Len(old) \in Nat
      /\ fr \in [Threads -> Frame] /\ stack \in [Threads -> Seq(Frame)]
  BY LenProperties DEF IInv, TypeOK
<1>2. ASSUME UNCHANGED <<fr, stack>>
      PROVE  StepsTo(t, {})
  BY <1>2 DEF StepsTo, Somewhere
<1>3. ASSUME Proceed(t, <<>>), ~Base(fr[t])
      PROVE  StepsTo(t, {})
  <2>1. old # <<>>
    BY <1>3 DEF IInv, StackOK
  <2>2. <<>> \o old = old
    BY <1>1, ConcatEmptySeq
  <2>3. /\ fr'[t] = old[1] /\ stack'[t] = Tail(old)
        /\ Len(Tail(old)) = Len(old) - 1 /\ Len(old) >= 1
        /\ \A i \in 1..Len(Tail(old)) : Tail(old)[i] = old[i + 1]
    BY <1>1, <1>3, <2>1, <2>2, HeadTailProperties, EmptySeq DEF Proceed
  <2>4. \A u \in Threads \ {t} : fr'[u] = fr[u] /\ stack'[u] = stack[u]
    BY <1>1, <1>3 DEF Proceed
  <2>5. \A i \in 1..Len(old) : i = 1 \/ (i - 1 \in 1..Len(Tail(old)) /\ Tail(old)[i - 1] = old[i])
    BY <1>1, <2>3
  <2>6. \A i \in 1..Len(Tail(old)) : i + 1 \in 1..Len(old)
    BY <1>1, <2>3
  <2>7. 1 \in 1..Len(old)
    BY <1>1, <2>3
  <2> HIDE DEF old
  <2> QED
    BY <2>3, <2>4, <2>5, <2>6, <2>7 DEF StepsTo, Somewhere, old
<1>4. ASSUME NEW a \in Frame, Proceed(t, <<a>>)
      PROVE  StepsTo(t, {a})
  <2>1. Head(<<a>> \o old) = a /\ Tail(<<a>> \o old) = old
    BY <1>1, OneOnTop
  <2>2. /\ fr'[t] = a /\ stack'[t] = old
        /\ \A u \in Threads \ {t} : fr'[u] = fr[u] /\ stack'[u] = stack[u]
    BY <1>1, <1>4, <2>1 DEF Proceed
  <2> QED
    BY <2>2 DEF StepsTo, Somewhere
<1>5. ASSUME NEW a \in Frame, NEW b \in Frame, Proceed(t, <<a, b>>)
      PROVE  StepsTo(t, {a, b})
  <2> DEFINE s == Tail(<<a, b>> \o old)
  <2>1. /\ Head(<<a, b>> \o old) = a
        /\ Len(s) = 1 + Len(old) /\ s[1] = b /\ \A i \in 1..Len(old) : s[i + 1] = old[i]
    BY <1>1, TwoOnTop
  <2>2. /\ fr'[t] = a /\ stack'[t] = s
        /\ \A u \in Threads \ {t} : fr'[u] = fr[u] /\ stack'[u] = stack[u]
    BY <1>1, <1>5, <2>1 DEF Proceed
  <2> HIDE DEF s
  <2>3. 1 \in 1..Len(s) /\ \A i \in 1..Len(old) : i + 1 \in 1..Len(s)
    BY <1>1, <2>1
  <2>4. \A i \in 1..Len(s) : i = 1 \/ (i - 1 \in 1..Len(old) /\ s[i] = old[i - 1])
    <3>1. ASSUME NEW i \in 1..Len(s), i # 1
          PROVE  i - 1 \in 1..Len(old) /\ (i - 1) + 1 = i
      BY <1>1, <2>1, <3>1
    <3> QED
      BY <2>1, <3>1
  <2> HIDE DEF old
  <2> QED
    BY <2>1, <2>2, <2>3, <2>4 DEF StepsTo, Somewhere, old
<1> QED
  BY <1>2, <1>3, <1>4, <1>5

(* A job stays where it is unless it is in t's frame.                      *)
LEMMA PlacesKept ==
  ASSUME IInv, NEW t \in Threads, NEW S, StepsTo(t, S), NEW j
  PROVE  /\ InHands(j) => InHands(j)' \/ Starts(fr[t], j)
         /\ Added(j) => Added(j)' \/ Adds(fr[t], j)
         /\ Creating(j) => Creating(j)' \/ Creates(fr[t], j)
         /\ \A f \in S : (Starts(f, j) => InHands(j)') /\ (Adds(f, j) => Added(j)')
<1>1. \A u \in Threads, f \in Frame : Somewhere(u, f) /\ ~(u = t /\ f = fr[t]) => Somewhere(u, f)'
  BY DEF StepsTo, Somewhere
<1>2. \A u \in Threads \ {t} : fr'[u] = fr[u]
  BY DEF StepsTo
<1>3. S \subseteq Frame /\ \A f \in S : Somewhere(t, f)'
  BY DEF StepsTo
<1>4. InHands(j) => InHands(j)' \/ Starts(fr[t], j)
  BY <1>1 DEF InHands
<1>5. Added(j) => Added(j)' \/ Adds(fr[t], j)
  BY <1>1 DEF Added
<1>6. Creating(j) => Creating(j)' \/ Creates(fr[t], j)
  BY <1>2 DEF Creating
<1>7. \A f \in S : (Starts(f, j) => InHands(j)') /\ (Adds(f, j) => Added(j)')
  BY <1>3 DEF InHands, Added
<1> QED
  BY <1>4, <1>5, <1>6, <1>7

LEMMA MakesKept ==
  ASSUME IInv, DInv, NEW t \in Threads, NEW S, StepsTo(t, S),
         \A k \in Jobs : job[k].made # "no" => job'[k].made # "no",
         \A f \in S : f.op \in {"created", "return"} => job'[f.job].made # "no"
  PROVE  \A u \in Threads : MakesOK(u)'
<1>1. SUFFICES ASSUME NEW u \in Threads, NEW f \in Frame, Somewhere(u, f)',
                      f.op \in {"created", "return"}
               PROVE  job'[f.job].made # "no"
  BY DEF MakesOK
<1>2. f.job \in Jobs
  BY <1>1, FramesOK DEF JobOps
<1>3. Somewhere(u, f) \/ f \in S
  BY <1>1 DEF StepsTo, Somewhere
<1> QED
  BY <1>1, <1>2, <1>3 DEF DInv, MakesOK

-----------------------------------------------------------------------------
(* Jobs.                                                                   *)

(* What the invariant says of a job is about these fields, and started.    *)
SameFacts(k) ==
  LET p == job[k]
      q == job'[k]
  IN  /\ p.made # "no" <=> q.made # "no"
      /\ q.completed = p.completed /\ q.numWaiting = p.numWaiting /\ q.signaler = p.signaler
      /\ p.started => q.started

SameLinks(k) == job'[k].downs = job[k].downs /\ job'[k].deps = job[k].deps

(* k is where it was, or in the hands of a thread, or handed to one.       *)
Kept(k) ==
  /\ InHands(k) => InHands(k)'
  /\ \/ InHands(k)'
     \/ job'[k].started /\ Handed(k)'
     \/ /\ job'[k].started = job[k].started
        /\ Placed(k) => Placed(k)'
        /\ Handed(k) => Handed(k)'

LEMMA JobKept ==
  ASSUME NEW k, JobOK(k), SameFacts(k), Open(k)' = Open(k),
         job[k].made # "no" /\ ~job[k].completed => Kept(k)
  PROVE  JobOK(k)'
<1>1. InHands(k)' => Placed(k)'
  BY DEF Placed
<1> QED
  BY <1>1 DEF JobOK, SameFacts, Kept

LEMMA GraphKept ==
  ASSUME IInv, DInv,
         \A k \in Jobs : SameLinks(k) /\ (job[k].made # "no" <=> job'[k].made # "no")
  PROVE  GraphOK' /\ \A k \in Jobs : Downs(k)' = Downs(k)
<1>1. \A k \in Jobs : Downs(k)' = Downs(k)
  BY DEF SameLinks, Downs
<1>2. ASSUME NEW d \in Jobs, NEW j \in job'[d].downs
      PROVE  d \in job'[j].deps /\ job'[j].made # "no"
  <2>1. j \in job[d].downs
    BY <1>2 DEF SameLinks
  <2>2. j \in Jobs
    BY <2>1 DEF IInv, TypeOK, JobState
  <2> QED
    BY <2>1, <2>2 DEF DInv, GraphOK, SameLinks
<1>3. ASSUME NEW d \in Jobs, job'[d].made = "no"
      PROVE  job'[d].downs = {}
  BY <1>3 DEF DInv, GraphOK, SameLinks
<1> QED
  BY <1>1, <1>2, <1>3 DEF GraphOK

LEMMA JobsKept ==
  ASSUME IInv, DInv,
         \A k \in Jobs : /\ SameFacts(k) /\ SameLinks(k)
                         /\ job[k].made # "no" /\ ~job[k].completed => Kept(k)
  PROVE  GraphOK' /\ \A k \in Jobs : JobOK(k)'
<1>1. GraphOK' /\ \A k \in Jobs : Downs(k)' = Downs(k)
  BY GraphKept DEF SameFacts
<1>2. \A k \in Jobs : Open(k)' = Open(k)
  BY <1>1 DEF SameFacts, Open, Downs
<1>3. \A k \in Jobs : JobOK(k)'
  BY <1>2, JobKept DEF DInv
<1> QED
  BY <1>1, <1>3

-----------------------------------------------------------------------------
(* Steps of a thread that is awake.                                        *)

(* Threads that were woken stay as they are; others may be unlinked.       *)
WaitsKept == \A u \in Threads :
  /\ Woke(u) => wti'[u] = wti[u]
  /\ wti'[u] = wti[u] \/ (wti'[u].catWait = {} /\ wti'[u].jobWait = NoJob)

LEMMA HandedKept ==
  ASSUME IInv, NEW t \in Threads, NEW S, StepsTo(t, S), fr[t].op # "asleep",
         \A u \in Threads : Woke(u) => wti'[u] = wti[u], NEW k
  PROVE  Handed(k) => Handed(k)'
<1>1. SUFFICES ASSUME NEW u \in Threads, HandedTo(u, k)
               PROVE  HandedTo(u, k)'
  BY DEF Handed
<1>2. Woke(u)
  BY <1>1 DEF HandedTo, Woke
<1>3. u # t
  BY <1>2 DEF IInv, WaitOK
<1>4. fr'[u] = fr[u] /\ wti'[u] = wti[u]
  BY <1>2, <1>3 DEF StepsTo
<1> QED
  BY <1>1, <1>4 DEF HandedTo

LEMMA SleepersKept ==
  ASSUME IInv, DInv, NEW t \in Threads, NEW S, StepsTo(t, S), fr[t].op # "asleep",
         \A k \in Jobs : job[k].made # "no" /\ job[k].started => job'[k].started,
         NEW u \in Threads,
         wti'[u] = wti[u] \/ (wti'[u].catWait = {} /\ wti'[u].jobWait = NoJob)
  PROVE  SleeperOK(u)'
<1>1. CASE wti'[u].catWait = {} /\ wti'[u].jobWait = NoJob
  BY <1>1 DEF SleeperOK
<1>2. CASE wti'[u] = wti[u] /\ Linked(u)
  <2>1. u # t /\ fr'[u] = fr[u]
    BY <1>2 DEF IInv, WaitOK, StepsTo
  <2>2. wti[u].jobWait # NoJob => wti[u].jobWait \in Jobs /\ job[wti[u].jobWait].made # "no"
    <3>1. wti[u].jobWait \in Jobs \cup {NoJob}
      BY DEF IInv, TypeOK, WaitInfo
    <3>2. wti[u].jobWait # NoJob => fr[u].job = wti[u].jobWait /\ fr[u].op = "asleep"
      BY DEF IInv, WaitOK, Linked
    <3> QED
      BY <3>1, <3>2 DEF IInv, StackOK, WaitsForMade
  <2> QED
    BY <1>2, <2>1, <2>2 DEF DInv, SleeperOK
<1>3. CASE wti'[u] = wti[u] /\ ~Linked(u)
  BY <1>3 DEF SleeperOK, Linked
<1> QED
  BY <1>1, <1>2, <1>3

(* What was to be done with k in t's frame is still to be done.            *)
FramePassedOn(t, k) ==
  /\ Starts(fr[t], k) => InHands(k)'
  /\ Adds(fr[t], k) => Added(k)' \/ InHands(k)'
  /\ Creates(fr[t], k) /\ job[k].numWaiting = 0 => Added(k)'

LEMMA AwakeKeeps ==
  ASSUME IInv, NEW t \in Threads, NEW S, StepsTo(t, S), fr[t].op # "asleep",
         \A u \in Threads : Woke(u) => wti'[u] = wti[u],
         NEW k \in Jobs, job'[k].started = job[k].started,
         Downs(k)' = Downs(k), job'[k].numWaiting = job[k].numWaiting,
         Listed(k) => Listed(k)', FramePassedOn(t, k)
  PROVE  Kept(k)
<1>2. InHands(k) => InHands(k)'
  BY PlacesKept DEF FramePassedOn
<1>3. Added(k) => Added(k)' \/ InHands(k)'
  BY PlacesKept DEF FramePassedOn
<1>4. Creating(k) /\ job[k].numWaiting = 0 => Creating(k)' \/ Added(k)'
  BY PlacesKept DEF FramePassedOn
<1>5. Placed(k) => Placed(k)'
  BY <1>2, <1>3, <1>4 DEF Placed
<1>6. Handed(k) => Handed(k)'
  BY HandedKept
<1> QED
  BY <1>2, <1>5, <1>6 DEF Kept

(* Steps that change neither what the invariant says of the jobs nor the   *)
(* lists.                                                                  *)
LEMMA QuietKeeps ==
  ASSUME IInv, DInv, NEW t \in Threads, NEW S, StepsTo(t, S), fr[t].op # "asleep",
         WaitsKept, pending' = pending,
         \A k \in Jobs : SameFacts(k) /\ SameLinks(k) /\ job'[k].started = job[k].started,
         \A f \in S : f.op \in {"created", "return"} => job'[f.job].made # "no",
         \A k \in Jobs : FramePassedOn(t, k)
  PROVE  DInv'
<1>1. \A k \in Jobs : Listed(k)' = Listed(k)
  BY DEF Listed
<1>2. \A k \in Jobs : Kept(k)
  <2>1. \A k \in Jobs : Downs(k)' = Downs(k)
    BY DEF SameLinks, Downs
  <2> QED
    BY <1>1, <2>1, AwakeKeeps DEF WaitsKept, SameFacts
<1>3. GraphOK' /\ \A k \in Jobs : JobOK(k)'
  BY <1>2, JobsKept
<1>4. \A u \in Threads : SleeperOK(u)'
  BY SleepersKept DEF WaitsKept, SameFacts
<1>5. \A u \in Threads : MakesOK(u)'
  BY MakesKept DEF SameFacts
<1> QED
  BY <1>3, <1>4, <1>5 DEF DInv

(* Changes that leave what the invariant says of the jobs as it is.        *)
LEMMA FieldsQuiet ==
  ASSUME IInv, NEW j \in Jobs,
         \/ job' = job
         \/ job' = [job EXCEPT ![j].queued = TRUE]
         \/ job' = [job EXCEPT ![j].runner = FALSE]
         \/ job' = [job EXCEPT ![j].runs = @ + 1]
         \/ job[j].made # "no" /\ job' = [job EXCEPT ![j].made = "yes"]
  PROVE  \A k \in Jobs : SameFacts(k) /\ SameLinks(k) /\ job'[k].started = job[k].started
<1>1. job \in [Jobs -> JobState] /\ job[j] \in JobState
  BY DEF IInv, TypeOK
<1>2. CASE job' = job
  BY <1>2 DEF SameFacts, SameLinks
<1>3. CASE job' = [job EXCEPT ![j].queued = TRUE]
  BY <1>1, <1>3 DEF SameFacts, SameLinks, JobState
<1>4. CASE job' = [job EXCEPT ![j].runner = FALSE]
  BY <1>1, <1>4 DEF SameFacts, SameLinks, JobState
<1>5. CASE job' = [job EXCEPT ![j].runs = @ + 1]
  BY <1>1, <1>5 DEF SameFacts, SameLinks, JobState
<1>6. CASE job[j].made # "no" /\ job' = [job EXCEPT ![j].made = "yes"]
  BY <1>1, <1>6 DEF SameFacts, SameLinks, JobState
<1> QED
  BY <1>2, <1>3, <1>4, <1>5, <1>6

(* Frames with which nothing is to be done for a job, and frames that are  *)
(* replaced by one that carries out the same job.                          *)
LEMMA PassedOn ==
  ASSUME IInv, NEW t \in Threads, NEW S, StepsTo(t, S),
         \/ fr[t].op \notin HoldingOps \cup {"adds"}
         \/ fr[t].op \in {"enter", "run", "publish", "mark"} /\ \E f \in S : Starts(f, fr[t].job)
  PROVE  \A k \in Jobs : FramePassedOn(t, k)
<1>1. ASSUME NEW k \in Jobs
      PROVE  FramePassedOn(t, k)
  <2>1. \A f \in S : Starts(f, k) => InHands(k)'
    BY PlacesKept
  <2> QED
    BY <2>1 DEF FramePassedOn, Starts, Adds, Creates, HoldingOps
<1> QED
  BY <1>1

LEMMA ClientFrame ==
  ASSUME IInv, NEW t \in Threads, InClient(t)
  PROVE  fr[t] \in Frame /\ fr[t].op \in {"client", "run"}
BY JobQueueAssumption, InvFacts DEF InClient

LEMMA CallQuiet ==
  ASSUME IInv, DInv, NEW t \in Threads, InClient(t), NEW f \in Frame, Call(t, f),
         f.op \notin {"created", "return"}, UNCHANGED <<job, pending, wti>>
  PROVE  DInv'
<1>1. fr[t] \in Frame /\ fr[t].op \in {"client", "run"}
  BY ClientFrame
<1>2. StepsTo(t, {f, fr[t]})
  BY <1>1, StepsAre DEF Call
<1>3. \A k \in Jobs : FramePassedOn(t, k)
  <2>1. \/ fr[t].op \notin HoldingOps \cup {"adds"}
        \/ fr[t].op \in {"enter", "run", "publish", "mark"} /\ Starts(fr[t], fr[t].job)
    BY <1>1 DEF HoldingOps, Starts
  <2> QED
    BY <1>2, <2>1, PassedOn
<1>4. \A k \in Jobs : SameFacts(k) /\ SameLinks(k) /\ job'[k].started = job[k].started
  BY DEF SameFacts, SameLinks
<1>5. WaitsKept
  BY DEF WaitsKept
<1>6. \A g \in {f, fr[t]} : g.op \notin {"created", "return"}
  BY <1>1
<1> QED
  BY <1>1, <1>2, <1>3, <1>4, <1>5, <1>6, QuietKeeps

LEMMA CallWaitForJobKeeps ==
  ASSUME IInv, DInv, NEW t \in Threads, NEW j \in Jobs, CallWaitForJob(t, j)
  PROVE  DInv'
<1>1. JobFrame("waitJob", j, TRUE) \in Frame
  BY FramesOK DEF JobOps
<1>2. JobFrame("waitJob", j, TRUE).op = "waitJob"
  BY DEF JobFrame
<1> QED
  BY <1>1, <1>2, CallQuiet DEF CallWaitForJob

LEMMA CallCloseDrops ==
  ASSUME IInv, DInv, NEW t \in Threads, CallClose(t)
  PROVE  DInv'
<1>1. JobFrame("closePop", NoJob, TRUE) \in Frame
  BY FramesOK DEF OtherOps
<1>2. JobFrame("closePop", NoJob, TRUE).op = "closePop"
  BY DEF JobFrame
<1> QED
  BY <1>1, <1>2, CallQuiet DEF CallClose

(* A step that puts one frame in the place of t's, or returns.             *)
LEMMA ReplaceQuiet ==
  ASSUME IInv, DInv, NEW t \in Threads, fr[t].op # "asleep",
         NEW S, StepsTo(t, S), \A f \in S : f.op \notin {"created", "return"},
         \/ fr[t].op \notin HoldingOps \cup {"adds"}
         \/ fr[t].op \in {"enter", "run", "publish", "mark"} /\ \E f \in S : Starts(f, fr[t].job),
         WaitsKept, pending' = pending,
         \A k \in Jobs : SameFacts(k) /\ SameLinks(k) /\ job'[k].started = job[k].started
  PROVE  DInv'
<1>1. \A k \in Jobs : FramePassedOn(t, k)
  BY PassedOn
<1> QED
  BY <1>1, QuietKeeps

LEMMA CreatedJobKeeps ==
  ASSUME IInv, DInv, NEW t \in Threads, CreatedJob(t)
  PROVE  DInv'
<1> DEFINE j == fr[t].job
           a == AddsFrame({j})
           r == JobFrame("return", j, TRUE)
<1>1. fr[t].op = "created" /\ j \in Jobs
  BY InvFacts DEF CreatedJob, JobOps
<1>2. a \in Frame /\ r \in Frame
  BY <1>1, FramesOK DEF JobOps
<1>3. /\ a.op = "adds" /\ a.jobs = {j} /\ r.op = "return" /\ r.job = j
  BY DEF AddsFrame, JobFrame
<1>4. \A k \in Jobs : SameFacts(k) /\ SameLinks(k) /\ job'[k].started = job[k].started
  BY DEF SameFacts, SameLinks, CreatedJob
<1>5. WaitsKept /\ pending' = pending
  BY DEF WaitsKept, CreatedJob
<1>6. job'[j].made # "no"
  <2>1. fr[t] \in Frame
    BY InvFacts
  <2> QED
    BY <1>1, <2>1 DEF DInv, MakesOK, Somewhere, CreatedJob
<1>7. PICK S \in {{a, r}, {r}} : StepsTo(t, S) /\ (job[j].numWaiting = 0 => a \in S)
  <2>1. Proceed(t, IF job[j].numWaiting = 0 THEN <<a, r>> ELSE <<r>>)
    BY DEF CreatedJob
  <2> HIDE DEF a, r, j
  <2> QED
    BY <1>2, <2>1, StepsAre
<1>8. ASSUME NEW k \in Jobs
      PROVE  FramePassedOn(t, k)
  <2>1. \A f \in S : Adds(f, k) => Added(k)'
    BY <1>7, PlacesKept
  <2>2. Creates(fr[t], k) => k = j
    BY DEF Creates
  <2>3. Adds(a, j)
    BY <1>3 DEF Adds
  <2> HIDE DEF a, j
  <2> QED
    BY <1>1, <1>7, <2>1, <2>2, <2>3 DEF FramePassedOn, Starts, Adds
<1>9. \A f \in S : f.op \in {"created", "return"} => job'[f.job].made # "no"
  BY <1>3, <1>6, <1>7
<1> HIDE DEF a, r, j
<1> QED
  BY <1>1, <1>4, <1>5, <1>7, <1>8, <1>9, QuietKeeps

LEMMA CreateReturnsKeeps ==
  ASSUME IInv, DInv, NEW t \in Threads, CreateReturns(t)
  PROVE  DInv'
<1>1. fr[t].op = "return" /\ fr[t].job \in Jobs /\ ~Base(fr[t]) /\ fr[t] \in Frame
  BY InvFacts DEF CreateReturns, JobOps
<1>2. job[fr[t].job].made # "no"
  BY <1>1 DEF DInv, MakesOK, Somewhere
<1>3. \A k \in Jobs : SameFacts(k) /\ SameLinks(k) /\ job'[k].started = job[k].started
  BY <1>1, <1>2, FieldsQuiet DEF CreateReturns
<1>4. StepsTo(t, {}) /\ WaitsKept /\ pending' = pending
  BY <1>1, StepsAre DEF CreateReturns, WaitsKept
<1> QED
  BY <1>1, <1>3, <1>4, ReplaceQuiet DEF HoldingOps

LEMMA JobDoneWakeKeeps ==
  ASSUME IInv, DInv, NEW t \in Threads, JobDoneWake(t)
  PROVE  DInv'
<1>1. fr[t].op = "wake" /\ fr[t].job \in Jobs /\ ~Base(fr[t])
  BY InvFacts DEF JobDoneWake, JobOps
<1>2. \A k \in Jobs : SameFacts(k) /\ SameLinks(k) /\ job'[k].started = job[k].started
  BY DEF JobDoneWake, SameFacts, SameLinks
<1>3. WaitsKept
  <2>1. ASSUME NEW u \in Threads
        PROVE  /\ Woke(u) => wti'[u] = wti[u]
               /\ wti'[u] = wti[u] \/ (wti'[u].catWait = {} /\ wti'[u].jobWait = NoJob)
    <3>1. Woke(u) => wti[u].jobWait = NoJob
      BY DEF IInv, WaitOK, Linked
    <3>2. fr[t].job # NoJob
      BY <1>1, JobQueueAssumption
    <3> QED
      BY <3>1, <3>2, WokenFields DEF JobDoneWake
  <2> QED
    BY <2>1 DEF WaitsKept
<1>4. StepsTo(t, {}) /\ pending' = pending
  BY <1>1, StepsAre DEF JobDoneWake
<1> QED
  BY <1>1, <1>2, <1>3, <1>4, ReplaceQuiet DEF HoldingOps

LEMMA StartFrames ==
  ASSUME NEW op \in {"enter", "run", "publish", "mark"}, NEW j \in Jobs, NEW ok \in BOOLEAN
  PROVE  LET f == JobFrame(op, j, ok)
         IN  f \in Frame /\ Starts(f, j) /\ f.op = op
BY FramesOK DEF JobOps, JobFrame, Starts

LEMMA RunEnterKeeps ==
  ASSUME IInv, DInv, NEW t \in Threads, RunEnter(t)
  PROVE  DInv'
<1> DEFINE j == fr[t].job
           F == {JobFrame("publish", j, FALSE), JobFrame("publish", j, TRUE), JobFrame("run", j, TRUE)}
<1>1. fr[t].op = "enter" /\ j \in Jobs
  BY InvFacts DEF RunEnter, JobOps
<1>2. \A f \in F : f \in Frame /\ Starts(f, j) /\ f.op \notin {"created", "return"}
  BY <1>1, StartFrames
<1>3. PICK f \in F : Proceed(t, <<f>>)
  BY DEF RunEnter
<1>4. StepsTo(t, {f})
  BY <1>2, <1>3, StepsAre
<1>5. \A k \in Jobs : SameFacts(k) /\ SameLinks(k) /\ job'[k].started = job[k].started
  BY <1>1, FieldsQuiet DEF RunEnter
<1>6. WaitsKept /\ pending' = pending
  BY DEF RunEnter, WaitsKept
<1> HIDE DEF F
<1> QED
  BY <1>1, <1>2, <1>4, <1>5, <1>6, ReplaceQuiet

LEMMA RunnerReturnsKeeps ==
  ASSUME IInv, DInv, NEW t \in Threads, NEW ok \in BOOLEAN, RunnerReturns(t, ok)
  PROVE  DInv'
<1> DEFINE j == fr[t].job
           f == JobFrame("publish", j, ok)
<1>1. fr[t].op = "run" /\ j \in Jobs
  BY InvFacts DEF RunnerReturns, JobOps
<1>2. f \in Frame /\ Starts(f, j) /\ f.op \notin {"created", "return"}
  BY <1>1, FramesOK DEF JobOps, JobFrame, Starts
<1>3. StepsTo(t, {f})
  BY <1>2, StepsAre DEF RunnerReturns
<1>4. \A k \in Jobs : SameFacts(k) /\ SameLinks(k) /\ job'[k].started = job[k].started
  BY <1>1, FieldsQuiet DEF RunnerReturns
<1>5. WaitsKept /\ pending' = pending
  BY DEF RunnerReturns, WaitsKept
<1> HIDE DEF f
<1> QED
  BY <1>1, <1>2, <1>3, <1>4, <1>5, ReplaceQuiet

(* The frames after a job is taken out of the set t is adding.             *)
LEMMA RestFrames ==
  ASSUME IInv, NEW t \in Threads, fr[t].op = "adds", NEW j \in fr[t].jobs
  PROVE  LET m == JobFrame("mark", j, FALSE)
             a == AddsFrame(fr[t].jobs \ {j})
         IN  /\ m \in Frame /\ a \in Frame
             /\ Starts(m, j) /\ m.op = "mark" /\ a.op = "adds"
             /\ \A k \in Jobs : Adds(a, k) <=> Adds(fr[t], k) /\ k # j
             /\ Proceed(t, <<m>> \o RestOfAdds(t, j)) =>
                  \E S \in SUBSET {m, a} :
                    StepsTo(t, S) /\ m \in S /\ (fr[t].jobs # {j} => a \in S)
             /\ Proceed(t, RestOfAdds(t, j)) =>
                  \E S \in SUBSET {a} : StepsTo(t, S) /\ (fr[t].jobs # {j} => a \in S)
<1> DEFINE m == JobFrame("mark", j, FALSE)
           a == AddsFrame(fr[t].jobs \ {j})
<1>1. fr[t] \in Frame /\ fr[t].jobs \subseteq Jobs /\ j \in Jobs /\ ~Base(fr[t])
  BY InvFacts, FramesOK DEF Base
<1>2. m \in Frame /\ a \in Frame
  BY <1>1, FramesOK DEF JobOps
<1>3. m.op = "mark" /\ m.job = j /\ a.op = "adds" /\ a.jobs = fr[t].jobs \ {j}
  BY DEF JobFrame, AddsFrame
<1>4. RestOfAdds(t, j) = IF fr[t].jobs = {j} THEN <<>> ELSE <<a>>
  BY DEF RestOfAdds
<1> HIDE DEF m, a
<1>5. <<m>> \o <<>> = <<m>> /\ <<m>> \o <<a>> = <<m, a>>
  BY Concats
<1>6. ASSUME Proceed(t, <<m>> \o RestOfAdds(t, j))
      PROVE  \E S \in SUBSET {m, a} :
               StepsTo(t, S) /\ m \in S /\ (fr[t].jobs # {j} => a \in S)
  <2>1. CASE fr[t].jobs = {j}
    <3>1. StepsTo(t, {m})
      BY <1>2, <1>4, <1>5, <1>6, <2>1, StepsAre
    <3> QED
      BY <2>1, <3>1
  <2>2. CASE fr[t].jobs # {j}
    <3>1. StepsTo(t, {m, a})
      BY <1>2, <1>4, <1>5, <1>6, <2>2, StepsAre
    <3> QED
      BY <2>2, <3>1
  <2> QED
    BY <2>1, <2>2
<1>7. ASSUME Proceed(t, RestOfAdds(t, j))
      PROVE  \E S \in SUBSET {a} : StepsTo(t, S) /\ (fr[t].jobs # {j} => a \in S)
  <2>1. CASE fr[t].jobs = {j}
    <3>1. StepsTo(t, {})
      BY <1>1, <1>4, <1>7, <2>1, StepsAre
    <3> QED
      BY <2>1, <3>1
  <2>2. CASE fr[t].jobs # {j}
    <3>1. StepsTo(t, {a})
      BY <1>2, <1>4, <1>7, <2>2, StepsAre
    <3> QED
      BY <2>2, <3>1
  <2> QED
    BY <2>1, <2>2
<1>8. \A k \in Jobs : Adds(a, k) <=> Adds(fr[t], k) /\ k # j
  BY <1>3 DEF Adds
<1>9. Starts(m, j)
  BY <1>3 DEF Starts
<1> QED
  BY <1>2, <1>3, <1>6, <1>7, <1>8, <1>9 DEF m, a

LEMMA AddAbortsKeeps ==
  ASSUME IInv, DInv, NEW t \in Threads, fr[t].op = "adds", NEW j \in fr[t].jobs,
         AddAborts(t, j)
  PROVE  DInv'
<1> DEFINE m == JobFrame("mark", j, FALSE)
           a == AddsFrame(fr[t].jobs \ {j})
<1>1. j \in Jobs /\ fr[t].jobs \subseteq Jobs
  BY InvFacts, FramesOK
<1>2. PICK S \in SUBSET {m, a} : StepsTo(t, S) /\ m \in S /\ (fr[t].jobs # {j} => a \in S)
  BY RestFrames DEF AddAborts
<1>3. /\ Starts(m, j) /\ m.op = "mark" /\ a.op = "adds"
      /\ \A k \in Jobs : Adds(a, k) <=> Adds(fr[t], k) /\ k # j
  BY RestFrames
<1> HIDE DEF m, a
<1>4. ASSUME NEW k \in Jobs
      PROVE  FramePassedOn(t, k)
  <2>1. \A f \in S : (Starts(f, k) => InHands(k)') /\ (Adds(f, k) => Added(k)')
    BY <1>2, PlacesKept
  <2>2. CASE k = j
    BY <1>2, <1>3, <2>1, <2>2 DEF FramePassedOn, Starts, Creates
  <2>3. CASE k # j
    <3>1. Adds(fr[t], k) => a \in S /\ Adds(a, k)
      BY <1>2, <1>3, <2>3 DEF Adds
    <3> QED
      BY <2>1, <3>1 DEF FramePassedOn, Starts, Creates
  <2> QED
    BY <2>2, <2>3
<1>5. \A k \in Jobs : SameFacts(k) /\ SameLinks(k) /\ job'[k].started = job[k].started
  BY <1>1, FieldsQuiet DEF AddAborts
<1>6. WaitsKept /\ pending' = pending
  BY DEF AddAborts, WaitsKept
<1>7. \A f \in S : f.op \notin {"created", "return"}
  BY <1>2, <1>3
<1> QED
  BY <1>2, <1>4, <1>5, <1>6, <1>7, QuietKeeps

-----------------------------------------------------------------------------
(* PrivClose, but for the jobs it completes.                               *)

LEMMA CloserQuiet ==
  ASSUME IInv, DInv, NEW t \in Threads, fr[t].op \in CloseOps,
         NEW S, StepsTo(t, S), \A f \in S : f.op \in CloseOps,
         WaitsKept, UNCHANGED <<job, pending>>
  PROVE  DInv'
<1>1. \A k \in Jobs : SameFacts(k) /\ SameLinks(k) /\ job'[k].started = job[k].started
  BY DEF SameFacts, SameLinks
<1>2. fr[t].op # "asleep" /\ fr[t].op \notin HoldingOps \cup {"adds"}
  BY DEF CloseOps, HoldingOps
<1>3. \A f \in S : f.op \notin {"created", "return"}
  BY DEF CloseOps
<1> QED
  BY <1>1, <1>2, <1>3, ReplaceQuiet

LEMMA CloseFrames ==
  ASSUME IInv, NEW t \in Threads, fr[t].op \in CloseOps
  PROVE  /\ Proceed(t, <<>>) => StepsTo(t, {})
         /\ \A op \in CloseOps : LET f == JobFrame(op, NoJob, TRUE)
                                 IN  f.op \in CloseOps /\ (Proceed(t, <<f>>) => StepsTo(t, {f}))
<1>1. ~Base(fr[t])
  BY DEF CloseOps, Base
<1>2. \A op \in CloseOps : JobFrame(op, NoJob, TRUE) \in Frame /\ JobFrame(op, NoJob, TRUE).op = op
  BY FramesOK DEF CloseOps, OtherOps, JobFrame
<1> QED
  BY <1>1, <1>2, StepsAre

LEMMA CloseUnlinksKeeps ==
  ASSUME IInv, DInv, NEW t \in Threads, CloseUnlinks(t)
  PROVE  DInv'
<1> DEFINE f == JobFrame("closeWake", NoJob, TRUE)
<1>1. fr[t].op \in CloseOps /\ UNCHANGED <<job, pending>>
  BY DEF CloseUnlinks, CloseOps
<1>2. CASE Proceed(t, <<f>>) /\ \E u \in Threads : wti[u].catWait # {} /\ wti' = [wti EXCEPT ![u] = Unlinked]
  <2>1. StepsTo(t, {f}) /\ f.op \in CloseOps
    BY <1>1, <1>2, CloseFrames DEF CloseOps
  <2>2. WaitsKept
    <3>1. PICK u \in Threads : wti[u].catWait # {} /\ wti' = [wti EXCEPT ![u] = Unlinked]
      BY <1>2
    <3>2. ~Woke(u)
      BY <3>1 DEF IInv, WaitOK, Linked
    <3>3. wti \in [Threads -> WaitInfo]
      BY DEF IInv, TypeOK
    <3> QED
      BY <3>1, <3>2, <3>3 DEF WaitsKept, Unlinked
  <2> QED
    BY <1>1, <2>1, <2>2, CloserQuiet
<1>3. CASE Proceed(t, <<>>) /\ UNCHANGED wti
  <2>1. StepsTo(t, {}) /\ WaitsKept
    BY <1>1, <1>3, CloseFrames DEF WaitsKept
  <2> QED
    BY <1>1, <2>1, CloserQuiet
<1> QED
  BY <1>2, <1>3 DEF CloseUnlinks

LEMMA CloseWakesKeeps ==
  ASSUME IInv, DInv, NEW t \in Threads, CloseWakes(t)
  PROVE  DInv'
<1> DEFINE f == JobFrame("closeAck", NoJob, TRUE)
<1>1. fr[t].op \in CloseOps /\ UNCHANGED <<job, pending>>
  BY DEF CloseWakes, CloseOps
<1>2. StepsTo(t, {f}) /\ f.op \in CloseOps
  BY <1>1, CloseFrames DEF CloseWakes, CloseOps
<1>3. WaitsKept
  <2>1. /\ victim \in Threads /\ wti[victim] = Unlinked
        /\ wti' = [wti EXCEPT ![victim].disp = "Terminated"] /\ wti \in [Threads -> WaitInfo]
    BY DEF CloseWakes, IInv, VictimOK, TypeOK
  <2>2. /\ wti'[victim].catWait = {} /\ wti'[victim].jobWait = NoJob /\ ~Woke(victim)
        /\ \A u \in Threads \ {victim} : wti'[u] = wti[u]
    BY <2>1 DEF Unlinked, Woke
  <2> QED
    BY <2>2 DEF WaitsKept
<1> HIDE DEF f
<1> QED
  BY <1>1, <1>2, <1>3, CloserQuiet

LEMMA CloseAwaitsAckKeeps ==
  ASSUME IInv, DInv, NEW t \in Threads, CloseAwaitsAck(t)
  PROVE  DInv'
<1> DEFINE f == JobFrame("closeTerm", NoJob, TRUE)
<1>1. fr[t].op \in CloseOps /\ UNCHANGED <<job, pending>> /\ WaitsKept
  BY DEF CloseAwaitsAck, CloseOps, WaitsKept
<1>2. StepsTo(t, {f}) /\ f.op \in CloseOps
  BY <1>1, CloseFrames DEF CloseAwaitsAck, CloseOps
<1> HIDE DEF f
<1> QED
  BY <1>1, <1>2, CloserQuiet

-----------------------------------------------------------------------------
(* Steps that move a job.                                                  *)

(* The job j goes to a frame that carries it out.                          *)
LEMMA StartKeeps ==
  ASSUME IInv, DInv, NEW t \in Threads, fr[t].op # "asleep",
         NEW S, StepsTo(t, S), \A f \in S : f.op \notin {"created", "return"},
         NEW j \in Jobs, \E f \in S : Starts(f, j),
         job' = [job EXCEPT ![j].started = TRUE] \/ job' = job,
         wti' = wti,
         \A k \in Jobs \ {j} : FramePassedOn(t, k) /\ (Listed(k) => Listed(k)')
  PROVE  DInv'
<1>1. /\ \A k \in Jobs : SameFacts(k) /\ SameLinks(k)
      /\ \A k \in Jobs \ {j} : job'[k].started = job[k].started
  <2>1. job \in [Jobs -> JobState] /\ job[j] \in JobState
    BY DEF IInv, TypeOK
  <2>2. CASE job' = job
    BY <2>2 DEF SameFacts, SameLinks
  <2>3. CASE job' = [job EXCEPT ![j].started = TRUE]
    BY <2>1, <2>3 DEF SameFacts, SameLinks, JobState
  <2> QED
    BY <2>2, <2>3
<1>2. InHands(j)'
  BY PlacesKept
<1>3. ASSUME NEW k \in Jobs
      PROVE  Kept(k)
  <2>1. CASE k = j
    BY <1>2, <2>1 DEF Kept
  <2>2. CASE k # j
    <3>1. Downs(k)' = Downs(k) /\ job'[k].numWaiting = job[k].numWaiting
      BY <1>1 DEF SameFacts, SameLinks, Downs
    <3> QED
      BY <1>1, <2>2, <3>1, AwakeKeeps
  <2> QED
    BY <2>1, <2>2
<1>4. GraphOK' /\ \A k \in Jobs : JobOK(k)'
  BY <1>1, <1>3, JobsKept
<1>5. \A u \in Threads : SleeperOK(u)'
  BY <1>1, SleepersKept DEF SameFacts
<1>6. \A u \in Threads : MakesOK(u)'
  BY <1>1, MakesKept DEF SameFacts
<1> QED
  BY <1>4, <1>5, <1>6 DEF DInv

LEMMA AddMarksStartedKeeps ==
  ASSUME IInv, DInv, NEW t \in Threads, AddMarksStarted(t)
  PROVE  DInv'
<1> DEFINE j == fr[t].job
           f == JobFrame("publish", j, FALSE)
<1>1. fr[t].op = "mark" /\ j \in Jobs
  BY InvFacts DEF AddMarksStarted, JobOps
<1>2. f \in Frame /\ Starts(f, j) /\ f.op = "publish"
  BY <1>1, StartFrames
<1>3. StepsTo(t, {f})
  BY <1>2, StepsAre DEF AddMarksStarted
<1>4. \A k \in Jobs : FramePassedOn(t, k) /\ (Listed(k) => Listed(k)')
  BY <1>1, <1>2, <1>3, PassedOn DEF AddMarksStarted, Listed
<1>5. job' = [job EXCEPT ![j].started = TRUE] /\ wti' = wti
  BY DEF AddMarksStarted
<1> HIDE DEF f
<1> QED
  BY <1>1, <1>2, <1>3, <1>4, <1>5, StartKeeps

(* Taking the first job of a list leaves the others listed.                *)
LEMMA TailListed ==
  ASSUME IInv, NEW c \in Types, pending[c] # <<>>,
         pending' = [pending EXCEPT ![c] = Tail(pending[c])]
  PROVE  /\ Head(pending[c]) \in Jobs
         /\ \A k \in Jobs \ {Head(pending[c])} : Listed(k) => Listed(k)'
<1> DEFINE q == pending[c]
<1>1. pending \in [Types -> Seq(Jobs)] /\ q \in Seq(Jobs) /\ Len(q) \in Nat
  BY LenProperties DEF IInv, TypeOK
<1>2. /\ Head(q) \in Jobs /\ Head(q) = q[1] /\ Len(Tail(q)) = Len(q) - 1
      /\ \A i \in 1..Len(Tail(q)) : Tail(q)[i] = q[i + 1]
  BY <1>1, HeadTailProperties
<1>3. pending'[c] = Tail(q) /\ \A b \in Types \ {c} : pending'[b] = pending[b]
  BY <1>1
<1> HIDE DEF q
<1>4. ASSUME NEW k \in Jobs \ {Head(q)}, NEW b \in Types, NEW i \in 1..Len(pending[b]),
             pending[b][i] = k
      PROVE  Listed(k)'
  <2>1. CASE b = c
    <3>1. i # 1 /\ pending[b] = q
      BY <1>2, <1>4, <2>1 DEF q
    <3>2. i - 1 \in 1..Len(Tail(q)) /\ Tail(q)[i - 1] = k
      BY <1>1, <1>2, <1>4, <2>1, <3>1
    <3> QED
      BY <1>3, <3>2 DEF Listed
  <2>2. CASE b # c
    BY <1>3, <1>4, <2>2 DEF Listed
  <2> QED
    BY <2>1, <2>2
<1>5. \A k \in Jobs \ {Head(q)} : Listed(k) => Listed(k)'
  BY <1>4 DEF Listed
<1> QED
  BY <1>2, <1>5 DEF q

LEMMA TakePendingKeeps ==
  ASSUME IInv, DInv, NEW t \in Threads, fr[t].op \notin HoldingOps \cup {"adds", "asleep"},
         NEW types \in Seq(Types), NEW rest \in Frame, rest.op \notin {"created", "return"},
         TakePending(t, types, <<rest>>)
  PROVE  DInv'
<1>1. PICK i \in DOMAIN types :
        LET j == Head(pending[types[i]])
        IN  /\ FirstPending(types, i)
            /\ pending' = [pending EXCEPT ![types[i]] = Tail(pending[types[i]])]
            /\ job' = [job EXCEPT ![j].started = TRUE]
            /\ Proceed(t, <<JobFrame("enter", j, TRUE)>> \o <<rest>>)
            /\ UNCHANGED wti
  BY DEF TakePending
<1> DEFINE c == types[i]
           j == Head(pending[c])
           f == JobFrame("enter", j, TRUE)
<1>2. c \in Types /\ pending[c] # <<>> /\ pending' = [pending EXCEPT ![c] = Tail(pending[c])]
  BY <1>1, ElementOfSeq, LenProperties DEF FirstPending
<1>3. j \in Jobs /\ \A k \in Jobs \ {j} : Listed(k) => Listed(k)'
  BY <1>2, TailListed
<1>4. f \in Frame /\ Starts(f, j) /\ f.op = "enter"
  BY <1>3, StartFrames
<1>5. Proceed(t, <<f>> \o <<rest>>) /\ wti' = wti /\ job' = [job EXCEPT ![j].started = TRUE]
  BY <1>1
<1> HIDE DEF f, j
<1>6. StepsTo(t, {f, rest})
  <2>1. <<f>> \o <<rest>> = <<f, rest>>
    BY Concats
  <2> QED
    BY <1>4, <1>5, <2>1, StepsAre
<1>7. \A k \in Jobs : FramePassedOn(t, k)
  BY <1>6, PassedOn
<1>8. /\ \A g \in {f, rest} : g.op \notin {"created", "return"}
      /\ fr[t].op # "asleep" /\ \E g \in {f, rest} : Starts(g, j)
  BY <1>4
<1> QED
  BY <1>3, <1>4, <1>5, <1>6, <1>7, <1>8, StartKeeps

LEMMA RemoveAtFields ==
  ASSUME NEW q \in Seq(Jobs), NEW n \in 1..Len(q)
  PROVE  /\ Len(RemoveAt(q, n)) = Len(q) - 1
         /\ \A i \in 1..(Len(q) - 1) : RemoveAt(q, n)[i] = IF i < n THEN q[i] ELSE q[i + 1]
<1> DEFINE a == SubSeq(q, 1, n - 1)
           b == SubSeq(q, n + 1, Len(q))
<1>1. Len(q) \in Nat /\ \A k \in 1..Len(q) : q[k] \in Jobs
  BY LenProperties, ElementOfSeq
<1>2. a \in Seq(Jobs) /\ Len(a) = n - 1 /\ \A i \in 1..(n - 1) : a[i] = q[i]
  <2>1. \A i \in 1..(n - 1) : q[i] \in Jobs
    BY <1>1
  <2> QED
    BY <1>1, <2>1, SubSeqProperties
<1>3. b \in Seq(Jobs) /\ Len(b) = Len(q) - n /\ \A i \in 1..(Len(q) - n) : b[i] = q[n + i]
  <2>1. \A i \in (n + 1)..Len(q) : q[i] \in Jobs
    BY <1>1
  <2>2. /\ b \in Seq(Jobs)
        /\ Len(b) = IF n + 1 <= Len(q) THEN Len(q) - (n + 1) + 1 ELSE 0
        /\ \A i \in 1..(Len(q) - (n + 1) + 1) : b[i] = q[(n + 1) + i - 1]
    BY <1>1, <2>1, SubSeqProperties
  <2> HIDE DEF b
  <2>3. Len(b) = Len(q) - n
    BY <1>1, <2>2
  <2>4. \A i \in 1..(Len(q) - n) : i \in 1..(Len(q) - (n + 1) + 1) /\ (n + 1) + i - 1 = n + i
    BY <1>1
  <2> QED
    BY <2>2, <2>3, <2>4
<1>4. RemoveAt(q, n) = a \o b
  BY DEF RemoveAt
<1> HIDE DEF a, b
<1>5. /\ Len(a \o b) = Len(a) + Len(b)
      /\ \A i \in 1..(Len(a) + Len(b)) : (a \o b)[i] = IF i <= Len(a) THEN a[i] ELSE b[i - Len(a)]
  BY <1>2, <1>3, ConcatProperties
<1>6. ASSUME NEW i \in 1..(Len(q) - 1)
      PROVE  (a \o b)[i] = IF i < n THEN q[i] ELSE q[i + 1]
  <2>1. CASE i < n
    <3>1. i <= Len(a) /\ i \in 1..(n - 1) /\ i \in 1..(Len(a) + Len(b))
      BY <1>1, <1>2, <1>3, <2>1
    <3> QED
      BY <1>2, <1>5, <2>1, <3>1
  <2>2. CASE ~(i < n)
    <3>1. /\ ~(i <= Len(a)) /\ i \in 1..(Len(a) + Len(b))
          /\ i - Len(a) \in 1..(Len(q) - n) /\ n + (i - Len(a)) = i + 1
      BY <1>1, <1>2, <1>3, <2>2
    <3> QED
      BY <1>3, <1>5, <2>2, <3>1
  <2> QED
    BY <2>1, <2>2
<1>7. Len(a \o b) = Len(q) - 1
  BY <1>1, <1>2, <1>3, <1>5
<1> QED
  BY <1>4, <1>6, <1>7

(* Taking a job out of the middle of its list leaves the others listed.    *)
LEMMA RemoveListed ==
  ASSUME IInv, NEW c \in Types, NEW n \in 1..Len(pending[c]),
         pending' = [pending EXCEPT ![c] = RemoveAt(pending[c], n)]
  PROVE  \A k \in Jobs \ {pending[c][n]} : Listed(k) => Listed(k)'
<1> DEFINE q == pending[c]
           r == RemoveAt(q, n)
<1>1. pending \in [Types -> Seq(Jobs)] /\ q \in Seq(Jobs) /\ Len(q) \in Nat
  BY LenProperties DEF IInv, TypeOK
<1>2. /\ Len(r) = Len(q) - 1
      /\ \A i \in 1..Len(r) : r[i] = IF i < n THEN q[i] ELSE q[i + 1]
  BY <1>1, RemoveAtFields
<1>3. pending'[c] = r /\ \A b \in Types \ {c} : pending'[b] = pending[b]
  BY <1>1
<1> HIDE DEF q, r
<1>4. ASSUME NEW k \in Jobs \ {q[n]}, NEW b \in Types, NEW i \in 1..Len(pending[b]),
             pending[b][i] = k
      PROVE  Listed(k)'
  <2>1. CASE b = c
    <3>1. i # n /\ i \in 1..Len(q) /\ q[i] = k /\ n \in 1..Len(q)
      BY <1>4, <2>1 DEF q
    <3>2. CASE i < n
      <4>1. i \in 1..Len(r)
        BY <1>1, <1>2, <3>1, <3>2
      <4>2. r[i] = k
        BY <1>2, <3>1, <3>2, <4>1
      <4> QED
        BY <1>3, <4>1, <4>2 DEF Listed
    <3>3. CASE i > n
      <4>1. i - 1 \in 1..Len(r) /\ ~(i - 1 < n) /\ (i - 1) + 1 = i
        BY <1>1, <1>2, <3>1, <3>3
      <4>2. r[i - 1] = k
        BY <1>2, <3>1, <4>1
      <4> QED
        BY <1>3, <4>1, <4>2 DEF Listed
    <3> QED
      BY <3>1, <3>2, <3>3
  <2>2. CASE b # c
    BY <1>3, <1>4, <2>2 DEF Listed
  <2> QED
    BY <2>1, <2>2
<1>5. \A k \in Jobs \ {q[n]} : Listed(k) => Listed(k)'
  BY <1>4 DEF Listed
<1> QED
  BY <1>5 DEF q

LEMMA TakeSpecifiedKeeps ==
  ASSUME IInv, DInv, NEW t \in Threads, fr[t].op = "waitJob", NEW j \in Jobs,
         TakeSpecified(t, j)
  PROVE  DInv'
<1> DEFINE f == JobFrame("enter", j, TRUE)
           c == job[j].type
<1>1. f \in Frame /\ Starts(f, j) /\ f.op = "enter"
  BY StartFrames
<1>2. StepsTo(t, {f})
  BY <1>1, StepsAre DEF TakeSpecified
<1>3. \A k \in Jobs : FramePassedOn(t, k)
  BY <1>2, PassedOn DEF HoldingOps
<1>4. c \in Types /\ pending \in [Types -> Seq(Jobs)] /\ pending[c] \in Seq(Jobs)
  BY InvFacts DEF IInv, TypeOK, JobState
<1>5. \A k \in Jobs \ {j} : Listed(k) => Listed(k)'
  <2>1. CASE pending' = pending
    BY <2>1 DEF Listed
  <2>2. CASE \E i \in DOMAIN pending[c] :
               pending[c][i] = j /\ pending' = [pending EXCEPT ![c] = RemoveAt(pending[c], i)]
    <3>1. PICK i \in DOMAIN pending[c] :
            pending[c][i] = j /\ pending' = [pending EXCEPT ![c] = RemoveAt(pending[c], i)]
      BY <2>2
    <3>2. i \in 1..Len(pending[c])
      BY <1>4, LenProperties
    <3> HIDE DEF c
    <3> QED
      BY <1>4, <3>1, <3>2, RemoveListed
  <2> QED
    BY <2>1, <2>2 DEF TakeSpecified
<1>6. job' = [job EXCEPT ![j].started = TRUE] /\ wti' = wti
  BY DEF TakeSpecified
<1> HIDE DEF f
<1> QED
  BY <1>1, <1>2, <1>3, <1>5, <1>6, StartKeeps

(* Going to sleep; a thread that would not run a job sleeps only in the    *)
(* ring of a job that was started.                                         *)
LEMMA SleepKeeps ==
  ASSUME IInv, DInv, NEW t \in Threads, fr[t].op \in {"client", "waitJob"},
         NEW types, NEW j, NEW f \in Frame, f.op = "asleep", Sleep(t, types, j, f),
         ToSet(types) # {} => f.ok, j # NoJob /\ ~f.ok => job[j].started
  PROVE  DInv'
<1>1. StepsTo(t, {f}) /\ fr'[t] = f /\ UNCHANGED <<job, pending>>
  BY StepsAre, NewFrames DEF Sleep, IInv
<1>2. \A k \in Jobs : SameFacts(k) /\ SameLinks(k) /\ job'[k].started = job[k].started
  BY <1>1 DEF SameFacts, SameLinks
<1>3. \A k \in Jobs : FramePassedOn(t, k)
  BY <1>1, PassedOn DEF HoldingOps
<1>4. wti \in [Threads -> WaitInfo] /\ ~Woke(t)
  BY DEF IInv, TypeOK, WaitOK
<1>5. /\ \A u \in Threads \ {t} : wti'[u] = wti[u]
      /\ wti'[t].catWait = ToSet(types) /\ wti'[t].jobWait = j
  BY <1>4 DEF Sleep, WaitInfo
<1>6. ASSUME NEW k \in Jobs
      PROVE  Kept(k)
  <2>1. Downs(k)' = Downs(k) /\ Listed(k)' = Listed(k)
    BY <1>1 DEF Downs, Listed
  <2> QED
    BY <1>1, <1>2, <1>3, <1>4, <1>5, <2>1, AwakeKeeps DEF SameFacts
<1>7. GraphOK' /\ \A k \in Jobs : JobOK(k)'
  BY <1>2, <1>6, JobsKept
<1>8. ASSUME NEW u \in Threads
      PROVE  SleeperOK(u)'
  <2>1. CASE u = t
    BY <1>1, <1>5, <2>1 DEF SleeperOK
  <2>2. CASE u # t
    BY <1>1, <1>2, <1>5, <2>2, SleepersKept DEF SameFacts
  <2> QED
    BY <2>1, <2>2
<1>9. \A u \in Threads : MakesOK(u)'
  BY <1>1, <1>2, MakesKept DEF SameFacts
<1> QED
  BY <1>7, <1>8, <1>9 DEF DInv

(* A return, or a client's frame, without any other change.                *)
LEMMA IdleKeeps ==
  ASSUME IInv, DInv, NEW t \in Threads, fr[t].op \in {"client", "waitJob"},
         NEW S, StepsTo(t, S), \A f \in S : f.op \notin {"created", "return"},
         UNCHANGED <<job, pending, wti>>
  PROVE  DInv'
<1>1. \A k \in Jobs : SameFacts(k) /\ SameLinks(k) /\ job'[k].started = job[k].started
  BY DEF SameFacts, SameLinks
<1>2. fr[t].op # "asleep" /\ fr[t].op \notin HoldingOps \cup {"adds"}
  BY DEF HoldingOps
<1>3. WaitsKept
  BY DEF WaitsKept
<1> QED
  BY <1>1, <1>2, <1>3, ReplaceQuiet

LEMMA WaitForWorkKeeps ==
  ASSUME IInv, DInv, NEW t \in Threads, NEW b \in BOOLEAN, WaitForWork(t, b)
  PROVE  DInv'
<1> DEFINE types == WorkTypes[t]
<1>1. fr[t].op = "client" /\ types \in Seq(Types)
  BY ThreadTypes DEF WaitForWork
<1>2. \A ok \in BOOLEAN : Client(ok) \in Frame /\ Client(ok).op = "client"
  BY FramesOK DEF Client, JobFrame
<1>3. CASE Proceed(t, <<Client(FALSE)>>) /\ UNCHANGED <<job, pending, wti>>
  <2>1. StepsTo(t, {Client(FALSE)})
    BY <1>2, <1>3, StepsAre
  <2> QED
    BY <1>1, <1>2, <1>3, <2>1, IdleKeeps
<1>4. CASE TakePending(t, types, <<Client(TRUE)>>)
  <2>1. fr[t].op \notin HoldingOps \cup {"adds", "asleep"}
    BY <1>1 DEF HoldingOps
  <2> QED
    BY <1>1, <1>2, <1>4, <2>1, TakePendingKeeps
<1>5. CASE Sleep(t, types, NoJob, JobFrame("asleep", NoJob, TRUE))
  <2> DEFINE f == JobFrame("asleep", NoJob, TRUE)
  <2>1. f \in Frame /\ f.op = "asleep" /\ f.ok
    BY FramesOK DEF OtherOps, JobFrame
  <2> HIDE DEF f
  <2> QED
    BY <1>1, <1>5, <2>1, SleepKeeps DEF f
<1> QED
  BY <1>3, <1>4, <1>5 DEF WaitForWork

LEMMA WaitForJobKeeps ==
  ASSUME IInv, DInv, NEW t \in Threads, WaitForJob(t)
  PROVE  DInv'
<1> DEFINE j     == fr[t].job
           types == IdleTypes[t]
           f(ok) == JobFrame("asleep", j, ok)
<1>1. /\ fr[t].op = "waitJob" /\ j \in Jobs /\ fr[t] \in Frame /\ ~Base(fr[t])
      /\ types \in Seq(Types)
  BY InvFacts, ThreadTypes DEF WaitForJob, JobOps
<1>2. \A ok \in BOOLEAN : f(ok) \in Frame /\ f(ok).op = "asleep" /\ f(ok).ok = ok
  BY <1>1, FramesOK DEF OtherOps, JobFrame
<1> HIDE DEF f
<1>3. CASE Proceed(t, <<>>) /\ UNCHANGED <<job, pending, wti>>
  <2>1. StepsTo(t, {})
    BY <1>1, <1>3, StepsAre
  <2> QED
    BY <1>1, <1>3, <2>1, IdleKeeps
<1>4. CASE job[j].started /\ Sleep(t, <<>>, j, f(FALSE))
  <2>1. ToSet(<<>>) = {}
    BY DEF ToSet
  <2> QED
    BY <1>1, <1>2, <1>4, <2>1, SleepKeeps
<1>5. CASE TakeSpecified(t, j)
  BY <1>1, <1>5, TakeSpecifiedKeeps
<1>6. CASE TakePending(t, types, <<fr[t]>>)
  <2>1. fr[t].op \notin HoldingOps \cup {"adds", "asleep"}
    BY <1>1 DEF HoldingOps
  <2> QED
    BY <1>1, <1>6, <2>1, TakePendingKeeps
<1>7. CASE Sleep(t, types, j, f(TRUE))
  BY <1>1, <1>2, <1>7, SleepKeeps
<1> QED
  BY <1>3, <1>4, <1>5, <1>6, <1>7 DEF WaitForJob, f

LEMMA AwakeStep ==
  ASSUME IInv, DInv, NEW t \in Threads, Awake(t)
  PROVE  DInv'
<1> DEFINE w     == wti[t]
           enter == JobFrame("enter", w.job, TRUE)
           again == IF fr[t].job = NoJob THEN Client(TRUE) ELSE JobFrame("waitJob", fr[t].job, TRUE)
           given == fr[t].ok /\ w.disp \in {"DequeuedWork", "StartedByThisThread"}
<1>1. /\ fr[t].op = "asleep" /\ fr[t] \in Frame /\ wti' = [wti EXCEPT ![t] = Unlinked]
      /\ UNCHANGED <<job, pending>> /\ wti \in [Threads -> WaitInfo]
  BY InvFacts DEF Awake, IInv, TypeOK
<1>2. given => w.job \in Jobs /\ enter \in Frame /\ Starts(enter, w.job) /\ enter.op = "enter"
  <2>1. given => w.job \in Jobs
    BY DEF IInv, WaitOK
  <2> QED
    BY <2>1, StartFrames
<1>3. /\ again \in Frame /\ again.op \notin {"created", "return"}
      /\ Client(FALSE) \in Frame /\ Client(FALSE).op = "client"
  <2>1. fr[t].job \in Jobs \cup {NoJob}
    BY <1>1, FramesOK
  <2> QED
    BY <2>1, FramesOK DEF JobOps, JobFrame, Client
<1>4. PICK S : /\ StepsTo(t, S) /\ \A f \in S : f.op \notin {"created", "return"}
               /\ given => enter \in S
  <2>1. CASE given /\ w.disp = "DequeuedWork"
    <3>1. Proceed(t, <<enter>> \o <<again>>)
      BY <2>1 DEF Awake
    <3> HIDE DEF enter, again
    <3>2. Proceed(t, <<enter, again>>)
      BY <3>1, Concats
    <3>3. StepsTo(t, {enter, again})
      BY <1>2, <1>3, <2>1, <3>2, StepsAre
    <3> QED
      BY <1>2, <1>3, <2>1, <3>3
  <2>2. CASE given /\ w.disp = "StartedByThisThread"
    <3>1. Proceed(t, <<enter>>)
      BY <2>2 DEF Awake
    <3> HIDE DEF enter
    <3>2. StepsTo(t, {enter})
      BY <1>2, <2>2, <3>1, StepsAre
    <3> QED
      BY <1>2, <2>2, <3>2
  <2>3. CASE ~given
    <3>1. Proceed(t, IF fr[t].job = NoJob THEN <<Client(FALSE)>> ELSE <<>>)
      BY <2>3 DEF Awake
    <3>2. CASE fr[t].job = NoJob
      <4>1. StepsTo(t, {Client(FALSE)})
        BY <1>3, <3>1, <3>2, StepsAre
      <4> WITNESS {Client(FALSE)}
      <4> QED
        BY <1>3, <2>3, <4>1
    <3>3. CASE fr[t].job # NoJob
      <4>1. ~Base(fr[t])
        BY <1>1, <3>3 DEF Base
      <4>2. StepsTo(t, {})
        BY <3>1, <3>3, <4>1, StepsAre
      <4> DEFINE none == {}
      <4>3. StepsTo(t, none) /\ \A f \in none : f.op \notin {"created", "return"}
        BY <4>2
      <4> HIDE DEF none
      <4> QED
        BY <2>3, <4>3
    <3> QED
      BY <3>2, <3>3
  <2> QED
    BY <2>1, <2>2, <2>3
<1> HIDE DEF enter, again
<1>5. \A k \in Jobs : SameFacts(k) /\ SameLinks(k) /\ job'[k].started = job[k].started
  BY <1>1 DEF SameFacts, SameLinks
<1>6. \A u \in Threads \ {t} : wti'[u] = wti[u] /\ fr'[u] = fr[u]
  BY <1>1, <1>4 DEF StepsTo
<1>7. ASSUME NEW k \in Jobs
      PROVE  Kept(k)
  <2>1. ~Starts(fr[t], k) /\ ~Adds(fr[t], k) /\ ~Creates(fr[t], k)
    BY <1>1 DEF Starts, Adds, Creates
  <2>2. /\ InHands(k) => InHands(k)'
        /\ Added(k) => Added(k)'
        /\ Creating(k) => Creating(k)'
        /\ \A f \in S : Starts(f, k) => InHands(k)'
    BY <1>4, <2>1, PlacesKept
  <2>3. Placed(k) => Placed(k)'
    <3>1. Downs(k)' = Downs(k) /\ Listed(k)' = Listed(k) /\ job'[k].numWaiting = job[k].numWaiting
      BY <1>1 DEF Downs, Listed
    <3> QED
      BY <2>2, <3>1 DEF Placed
  <2>4. Handed(k) => Handed(k)' \/ InHands(k)'
    <3>1. HandedTo(t, k) => InHands(k)'
      BY <1>2, <1>4, <2>2 DEF HandedTo
    <3>2. \A u \in Threads \ {t} : HandedTo(u, k) => HandedTo(u, k)'
      BY <1>6 DEF HandedTo
    <3> QED
      BY <3>1, <3>2 DEF Handed
  <2> QED
    BY <1>5, <2>2, <2>3, <2>4 DEF Kept
<1>8. GraphOK' /\ \A k \in Jobs : JobOK(k)'
  BY <1>5, <1>7, JobsKept
<1>9. ASSUME NEW u \in Threads
      PROVE  SleeperOK(u)'
  <2>1. CASE u = t
    BY <1>1, <2>1 DEF SleeperOK, Unlinked
  <2>2. CASE u # t
    BY <1>1, <1>6, <2>2 DEF DInv, SleeperOK
  <2> QED
    BY <2>1, <2>2
<1>10. \A u \in Threads : MakesOK(u)'
  BY <1>4, <1>5, MakesKept DEF SameFacts
<1> QED
  BY <1>8, <1>9, <1>10 DEF DInv

(* PrivClose completes the first job of a list.                            *)
LEMMA CloseAbortsPendingKeeps ==
  ASSUME IInv, DInv, NEW t \in Threads, CloseAbortsPending(t)
  PROVE  DInv'
<1>1. fr[t].op = "closePop" /\ fr[t] \in Frame /\ UNCHANGED <<job, wti>>
  BY InvFacts DEF CloseAbortsPending
<1>2. ASSUME NEW c \in Types, pending[c] # <<>>,
             pending' = [pending EXCEPT ![c] = Tail(pending[c])],
             Proceed(t, <<JobFrame("publish", Head(pending[c]), FALSE), fr[t]>>)
      PROVE  DInv'
  <2> DEFINE j == Head(pending[c])
             f == JobFrame("publish", j, FALSE)
  <2>1. j \in Jobs /\ \A k \in Jobs \ {j} : Listed(k) => Listed(k)'
    BY <1>2, TailListed
  <2>2. f \in Frame /\ Starts(f, j) /\ f.op = "publish"
    BY <2>1, StartFrames
  <2>3. Proceed(t, <<f, fr[t]>>)
    BY <1>2
  <2> HIDE DEF f, j
  <2>4. StepsTo(t, {f, fr[t]})
    BY <1>1, <2>2, <2>3, StepsAre
  <2>5. \A k \in Jobs : FramePassedOn(t, k)
    BY <1>1, <2>4, PassedOn DEF HoldingOps
  <2>6. /\ \A g \in {f, fr[t]} : g.op \notin {"created", "return"}
        /\ fr[t].op # "asleep" /\ \E g \in {f, fr[t]} : Starts(g, j)
    BY <1>1, <2>2
  <2> QED
    BY <1>1, <2>1, <2>4, <2>5, <2>6, StartKeeps
<1>3. CASE Proceed(t, <<JobFrame("closeTerm", NoJob, TRUE)>>) /\ UNCHANGED pending
  <2> DEFINE f == JobFrame("closeTerm", NoJob, TRUE)
  <2>1. fr[t].op \in CloseOps
    BY <1>1 DEF CloseOps
  <2>2. StepsTo(t, {f}) /\ f.op \in CloseOps
    BY <1>3, <2>1, CloseFrames DEF CloseOps
  <2>3. WaitsKept
    BY <1>1 DEF WaitsKept
  <2> HIDE DEF f
  <2> QED
    BY <1>1, <1>3, <2>1, <2>2, <2>3, CloserQuiet
<1> QED
  BY <1>2, <1>3 DEF CloseAbortsPending

(* AddRunnableJob, where the job is not aborted: the job is put in a list  *)
(* or given to a thread, and the others are still to be added.             *)
LEMMA AddsKeep ==
  ASSUME IInv, DInv, NEW t \in Threads, fr[t].op = "adds", NEW j \in fr[t].jobs,
         Proceed(t, RestOfAdds(t, j)), WaitsKept,
         \A k \in Jobs : SameFacts(k) /\ SameLinks(k),
         \A k \in Jobs \ {j} : job'[k].started = job[k].started,
         \A k \in Jobs : Listed(k) => Listed(k)',
         (\A k \in Jobs : InHands(k) => InHands(k)') /\ (\A k \in Jobs : Handed(k) => Handed(k)')
           /\ job[j].made # "no" /\ ~job[j].completed => Kept(j)
  PROVE  DInv'
<1> DEFINE a == AddsFrame(fr[t].jobs \ {j})
<1>1. PICK S \in SUBSET {a} : StepsTo(t, S) /\ (fr[t].jobs # {j} => a \in S)
  BY RestFrames
<1>2. a.op = "adds" /\ \A k \in Jobs : Adds(a, k) <=> Adds(fr[t], k) /\ k # j
  BY RestFrames
<1> HIDE DEF a
<1>3. \A u \in Threads : Woke(u) => wti'[u] = wti[u]
  BY DEF WaitsKept
<1>4. ASSUME NEW k \in Jobs
      PROVE  (InHands(k) => InHands(k)') /\ (Handed(k) => Handed(k)')
  <2>1. InHands(k) => InHands(k)'
    BY <1>1, PlacesKept DEF Starts
  <2>2. Handed(k) => Handed(k)'
    BY <1>1, <1>3, HandedKept
  <2> QED
    BY <2>1, <2>2
<1>5. ASSUME NEW k \in Jobs \ {j}
      PROVE  Kept(k)
  <2>1. \A f \in S : (Starts(f, k) => InHands(k)') /\ (Adds(f, k) => Added(k)')
    BY <1>1, PlacesKept
  <2>2. Adds(fr[t], k) => a \in S /\ Adds(a, k)
    BY <1>1, <1>2 DEF Adds
  <2>3. FramePassedOn(t, k)
    BY <2>1, <2>2 DEF FramePassedOn, Starts, Creates
  <2>4. Downs(k)' = Downs(k) /\ job'[k].numWaiting = job[k].numWaiting
    BY DEF SameFacts, SameLinks, Downs
  <2> QED
    BY <1>1, <1>3, <2>3, <2>4, AwakeKeeps
<1>6. GraphOK' /\ \A k \in Jobs : JobOK(k)'
  <2>1. \A k \in Jobs : job[k].made # "no" /\ ~job[k].completed => Kept(k)
    BY <1>4, <1>5
  <2> QED
    BY <2>1, JobsKept
<1>7. \A u \in Threads : SleeperOK(u)'
  BY <1>1, SleepersKept DEF SameFacts, WaitsKept
<1>8. \A u \in Threads : MakesOK(u)'
  BY <1>1, <1>2, MakesKept DEF SameFacts
<1> QED
  BY <1>6, <1>7, <1>8 DEF DInv

LEMMA AddQueuesKeeps ==
  ASSUME IInv, DInv, NEW t \in Threads, fr[t].op = "adds", NEW j \in fr[t].jobs,
         AddQueues(t, j)
  PROVE  DInv'
<1> DEFINE c == job[j].type
           q == pending[c]
<1>1. j \in Jobs /\ c \in Types
  BY InvFacts, FramesOK DEF JobState
<1>2. /\ pending \in [Types -> Seq(Jobs)] /\ q \in Seq(Jobs) /\ Len(q) \in Nat
      /\ pending' = [pending EXCEPT ![c] = Append(q, j)]
  BY <1>1, LenProperties DEF IInv, TypeOK, AddQueues
<1>3. /\ Len(Append(q, j)) = Len(q) + 1 /\ Append(q, j)[Len(q) + 1] = j
      /\ \A i \in 1..Len(q) : Append(q, j)[i] = q[i]
  BY <1>1, <1>2, AppendProperties
<1>4. pending'[c] = Append(q, j) /\ \A b \in Types \ {c} : pending'[b] = pending[b]
  BY <1>1, <1>2
<1> HIDE DEF c, q
<1>5. Listed(j)'
  <2>1. Len(q) + 1 \in 1..Len(pending'[c]) /\ pending'[c][Len(q) + 1] = j
    BY <1>2, <1>3, <1>4
  <2> QED
    BY <1>1, <2>1 DEF Listed
<1>6. ASSUME NEW k \in Jobs, Listed(k)
      PROVE  Listed(k)'
  <2>1. PICK b \in Types : \E i \in 1..Len(pending[b]) : pending[b][i] = k
    BY <1>6 DEF Listed
  <2>2. PICK i \in 1..Len(pending[b]) : pending[b][i] = k
    BY <2>1
  <2>3. CASE b = c
    <3>1. i \in 1..Len(q) /\ q[i] = k
      BY <2>2, <2>3 DEF q
    <3>2. i \in 1..Len(pending'[c]) /\ pending'[c][i] = k
      BY <1>2, <1>3, <1>4, <3>1
    <3> QED
      BY <1>1, <3>2 DEF Listed
  <2>4. CASE b # c
    BY <1>4, <2>2, <2>4 DEF Listed
  <2> QED
    BY <2>3, <2>4
<1>7. \A k \in Jobs : SameFacts(k) /\ SameLinks(k) /\ job'[k].started = job[k].started
  BY <1>1, FieldsQuiet DEF AddQueues
<1>8. WaitsKept
  BY DEF AddQueues, WaitsKept
<1>9. ASSUME \A k \in Jobs : InHands(k) => InHands(k)', \A k \in Jobs : Handed(k) => Handed(k)'
      PROVE  Kept(j)
  BY <1>1, <1>5, <1>7, <1>9 DEF Kept, Placed
<1>10. Proceed(t, RestOfAdds(t, j))
  BY DEF AddQueues
<1> QED
  BY <1>6, <1>7, <1>8, <1>9, <1>10, AddsKeep

(* A thread that would not run the job is woken only where the job was     *)
(* started before, by the thread that has it now.                          *)
LEMMA AddHandsOverKeeps ==
  ASSUME IInv, DInv, NEW t \in Threads, fr[t].op = "adds", NEW j \in fr[t].jobs,
         AddHandsOver(t, j)
  PROVE  DInv'
<1> DEFINE c == job[j].type
<1>1. j \in Jobs /\ j # NoJob /\ wti \in [Threads -> WaitInfo]
  BY InvFacts, FramesOK, JobQueueAssumption DEF IInv, TypeOK
<1>2. PICK u \in Threads, d \in {"StartedByThisThread", "DequeuedWork"} :
        /\ wti' = [wti EXCEPT ![u] = Woken(d, j)]
        /\ wti[u].jobWait = j \/ wti[u].catWait # {}
  <2>1. CASE \E u \in JobWaiters(j) : wti' = [wti EXCEPT ![u] = Woken("StartedByThisThread", j)]
    BY <2>1 DEF JobWaiters
  <2>2. CASE \E u \in Candidates(c) : wti' = [wti EXCEPT ![u] = Woken("DequeuedWork", j)]
    <3>1. \A u \in Candidates(c) : u \in Threads /\ wti[u].catWait # {}
      <4> HIDE DEF c
      <4> QED
        BY DEF Candidates, Specialized
    <3> QED
      BY <2>2, <3>1
  <2> QED
    BY <2>1, <2>2 DEF AddHandsOver
<1>3. wti'[u] = Woken(d, j) /\ \A v \in Threads \ {u} : wti'[v] = wti[v]
  BY <1>1, <1>2
<1>4. Linked(u) /\ ~Woke(u) /\ fr[u].op = "asleep" /\ u # t
  BY <1>1, <1>2 DEF IInv, WaitOK, Linked
<1>5. WaitsKept
  BY <1>3, <1>4, WokenFields DEF WaitsKept
<1>6. /\ \A k \in Jobs : SameFacts(k) /\ SameLinks(k) /\ (Listed(k) => Listed(k)')
      /\ \A k \in Jobs \ {j} : job'[k].started = job[k].started
      /\ job'[j].started
  <2>1. job \in [Jobs -> JobState] /\ job[j] \in JobState
    BY <1>1 DEF IInv, TypeOK
  <2>2. job' = [job EXCEPT ![j].queued = TRUE, ![j].started = TRUE] /\ pending' = pending
    BY DEF AddHandsOver
  <2> QED
    BY <1>1, <2>1, <2>2 DEF SameFacts, SameLinks, Listed, JobState
<1>7. Proceed(t, RestOfAdds(t, j))
  BY DEF AddHandsOver
<1>8. fr'[u] = fr[u]
  BY <1>4, <1>7 DEF Proceed, IInv, TypeOK
<1>9. ASSUME \A k \in Jobs : InHands(k) => InHands(k)', \A k \in Jobs : Handed(k) => Handed(k)',
             job[j].made # "no", ~job[j].completed
      PROVE  Kept(j)
  <2>1. CASE fr[u].ok
    <3>1. HandedTo(u, j)'
      BY <1>3, <1>8, <2>1, WokenFields DEF HandedTo
    <3> QED
      BY <1>1, <1>6, <1>9, <3>1 DEF Kept, Handed
  <2>2. CASE ~fr[u].ok
    <3>1. job[j].started
      BY <1>1, <1>2, <2>2 DEF DInv, SleeperOK
    <3>2. InHands(j) \/ Handed(j)
      BY <1>1, <1>9, <3>1 DEF DInv, JobOK
    <3> QED
      BY <1>1, <1>6, <1>9, <3>2 DEF Kept
  <2> QED
    BY <2>1, <2>2
<1> QED
  BY <1>5, <1>6, <1>7, <1>9, AddsKeep

-----------------------------------------------------------------------------
(* Steps that change a job's creation, its signaler or its dependencies.   *)

(* What a step of t leaves alone of a job that it only carries on.         *)
LEMMA OthersKept ==
  ASSUME IInv, DInv, NEW t \in Threads, NEW S, StepsTo(t, S), fr[t].op # "asleep",
         UNCHANGED <<pending, wti>>, NEW k \in Jobs, SameFacts(k),
         job'[k].started = job[k].started, FramePassedOn(t, k),
         Downs(k)' = Downs(k), Open(k)' = Open(k)
  PROVE  JobOK(k)'
<1>1. Listed(k)' = Listed(k)
  BY DEF Listed
<1>2. Kept(k)
  BY <1>1, AwakeKeeps DEF SameFacts
<1> QED
  BY <1>2, JobKept DEF DInv

LEMMA SignalDoneKeeps ==
  ASSUME IInv, DInv, NEW t \in Threads, NEW j \in Jobs, NEW ok \in BOOLEAN, SignalDone(t, j, ok)
  PROVE  DInv'
<1> DEFINE f == JobFrame("publish", j, ok)
<1>1. fr[t] \in Frame /\ fr[t].op \in {"client", "run"} /\ UNCHANGED <<pending, wti>>
  BY ClientFrame DEF SignalDone
<1>2. f \in Frame /\ Starts(f, j) /\ f.op = "publish"
  BY StartFrames
<1>3. Proceed(t, <<f, fr[t]>>)
  BY DEF SignalDone, Call
<1> HIDE DEF f
<1>4. StepsTo(t, {f, fr[t]})
  BY <1>1, <1>2, <1>3, StepsAre
<1>5. /\ \A k \in Jobs \ {j} : job'[k] = job[k]
      /\ \A k \in Jobs : /\ SameLinks(k) /\ job'[k].made = job[k].made
                         /\ job'[k].completed = job[k].completed
                         /\ job'[k].started = job[k].started
      /\ job'[j].signaler = "done"
  <2>1. job \in [Jobs -> JobState] /\ job[j] \in JobState /\ job' = [job EXCEPT ![j].signaler = "done"]
    BY DEF IInv, TypeOK, SignalDone
  <2> QED
    BY <2>1 DEF JobState, SameLinks
<1>6. GraphOK' /\ \A k \in Jobs : Downs(k)' = Downs(k)
  BY <1>5, GraphKept
<1>7. \A k \in Jobs : Open(k)' = Open(k)
  BY <1>5, <1>6 DEF Open, Downs
<1>8. \A k \in Jobs : FramePassedOn(t, k)
  <2>1. \/ fr[t].op \notin HoldingOps \cup {"adds"}
        \/ fr[t].op \in {"enter", "run", "publish", "mark"} /\ Starts(fr[t], fr[t].job)
    BY <1>1 DEF HoldingOps, Starts
  <2> QED
    BY <1>4, <2>1, PassedOn
<1>9. ASSUME NEW k \in Jobs
      PROVE  JobOK(k)'
  <2>1. CASE k = j
    <3>1. InHands(j)'
      BY <1>2, <1>4, PlacesKept
    <3> QED
      BY <1>5, <2>1, <3>1 DEF JobOK
  <2>2. CASE k # j
    <3>1. SameFacts(k)
      BY <1>5, <2>2 DEF SameFacts
    <3> QED
      BY <1>1, <1>4, <1>5, <1>6, <1>7, <1>8, <3>1, OthersKept
  <2> QED
    BY <2>1, <2>2
<1>10. \A u \in Threads : SleeperOK(u)'
  BY <1>1, <1>4, <1>5, SleepersKept
<1>11. \A g \in {f, fr[t]} : g.op \notin {"created", "return"}
  BY <1>1, <1>2
<1>12. \A u \in Threads : MakesOK(u)'
  BY <1>4, <1>5, <1>11, MakesKept
<1> QED
  BY <1>6, <1>9, <1>10, <1>12 DEF DInv

(* A job that is created: nothing counts down for it yet.                  *)
LEMMA UnmadeLinks ==
  ASSUME IInv, DInv, NEW j \in Jobs, job[j].made = "no"
  PROVE  Downs(j) = {} /\ job[j].downs = {}
BY DEF DInv, GraphOK, Downs

LEMMA CreateSignaledJobKeeps ==
  ASSUME IInv, DInv, NEW t \in Threads, NEW j \in Jobs, CreateSignaledJob(t, j)
  PROVE  DInv'
<1>1. /\ fr[t] \in Frame /\ fr[t].op \in {"client", "run"}
      /\ UNCHANGED <<fr, stack, pending, wti>> /\ job[j].made = "no"
  BY ClientFrame DEF CreateSignaledJob
<1>2. StepsTo(t, {fr[t]})
  BY <1>1 DEF StepsTo, Somewhere
<1>3. /\ \A k \in Jobs \ {j} : job'[k] = job[k]
      /\ job'[j].made = "yes" /\ job'[j].signaler = "held" /\ job'[j].downs = {}
      /\ ~job'[j].started /\ job \in [Jobs -> JobState]
  BY DEF CreateSignaledJob, NewJob, IInv, TypeOK
<1>4. Downs(j) = {} /\ job[j].downs = {}
  BY <1>1, UnmadeLinks
<1>5. \A k \in Jobs : Downs(k)' = Downs(k) /\ Open(k)' = Open(k)
  <2>1. \A d \in Jobs : job'[d].downs = job[d].downs
    BY <1>3, <1>4
  <2>2. \A k \in Jobs : Downs(k)' = Downs(k) /\ j \notin Downs(k)
    BY <1>4, <2>1 DEF Downs
  <2>3. \A k \in Jobs : \A d \in Downs(k) : job'[d].completed = job[d].completed
    BY <1>3, <2>2 DEF Downs
  <2> QED
    BY <2>2, <2>3 DEF Open
<1>6. GraphOK'
  <2>1. ASSUME NEW d \in Jobs, NEW k \in job'[d].downs
        PROVE  d \in job'[k].deps /\ job'[k].made # "no"
    <3>1. d # j /\ k \in job[d].downs
      BY <1>3, <2>1
    <3>2. d \in job[k].deps /\ job[k].made # "no" /\ k \in Jobs
      BY <1>3, <3>1 DEF DInv, GraphOK, JobState
    <3> QED
      BY <1>1, <1>3, <3>2
  <2>2. \A d \in Jobs : job'[d].made = "no" => job'[d].downs = {}
    BY <1>3 DEF DInv, GraphOK
  <2> QED
    BY <2>1, <2>2 DEF GraphOK
<1>7. \A k \in Jobs : FramePassedOn(t, k)
  <2>1. \/ fr[t].op \notin HoldingOps \cup {"adds"}
        \/ fr[t].op \in {"enter", "run", "publish", "mark"} /\ Starts(fr[t], fr[t].job)
    BY <1>1 DEF HoldingOps, Starts
  <2> QED
    BY <1>2, <2>1, PassedOn
<1>8. ASSUME NEW k \in Jobs
      PROVE  JobOK(k)'
  <2>1. CASE k = j
    BY <1>3, <2>1 DEF JobOK
  <2>2. CASE k # j
    <3>1. SameFacts(k) /\ job'[k].started = job[k].started
      BY <1>3, <2>2 DEF SameFacts
    <3> QED
      BY <1>1, <1>2, <1>5, <1>7, <3>1, OthersKept
  <2> QED
    BY <2>1, <2>2
<1>9. \A k \in Jobs : job[k].made # "no" => job'[k].made # "no" /\ job'[k].started = job[k].started
  BY <1>1, <1>3
<1>10. \A u \in Threads : SleeperOK(u)'
  BY <1>1, <1>2, <1>9, SleepersKept
<1>11. \A u \in Threads : MakesOK(u)'
  BY <1>1, <1>2, <1>9, MakesKept
<1> QED
  BY <1>6, <1>8, <1>10, <1>11 DEF DInv

(* A new job waits for as many dependencies as will count down for it.     *)
LEMMA CreateJobKeeps ==
  ASSUME IInv, DInv, NEW t \in Threads, NEW j \in Jobs, NEW c \in Types, NEW D \in SUBSET Jobs,
         CreateJob(t, j, c, D)
  PROVE  DInv'
<1> DEFINE aborted == \E d \in D : job[d].failed
           open    == {d \in D : ~job[d].completed}
           f       == JobFrame("created", j, TRUE)
<1>1. /\ fr[t] \in Frame /\ fr[t].op \in {"client", "run"} /\ UNCHANGED <<pending, wti>>
      /\ job[j].made = "no" /\ D \subseteq Made
  BY ClientFrame DEF CreateJob
<1>2. f \in Frame /\ f.op = "created" /\ f.job = j
  BY FramesOK DEF JobOps, JobFrame
<1>3. Proceed(t, <<f, fr[t]>>)
  BY DEF CreateJob, Call
<1> HIDE DEF f
<1>4. StepsTo(t, {f, fr[t]}) /\ fr'[t] = f
  BY <1>1, <1>2, <1>3, StepsAre, NewFrames DEF IInv
<1>5. /\ job'[j].made = "making" /\ job'[j].deps = D /\ job'[j].downs = {} /\ ~job'[j].started
      /\ job'[j].signaler = "none" /\ job'[j].completed = aborted
      /\ job'[j].numWaiting = IF aborted THEN 0 ELSE Cardinality(open)
      /\ \A k \in Jobs \ {j} :
           job'[k] = IF k \in open /\ ~aborted THEN [job[k] EXCEPT !.downs = @ \cup {j}] ELSE job[k]
  <2>1. job' = [k \in Jobs |->
                   IF k = j THEN [NewJob(c, D, TRUE) EXCEPT
                                    !.numWaiting = IF aborted THEN 0 ELSE Cardinality(open),
                                    !.completed = aborted, !.failed = aborted]
                   ELSE IF k \in open /\ ~aborted THEN [job[k] EXCEPT !.downs = @ \cup {j}]
                   ELSE job[k]]
    BY DEF CreateJob
  <2> HIDE DEF aborted, open
  <2> QED
    BY <2>1 DEF NewJob
<1>6. j \notin D /\ job \in [Jobs -> JobState]
  BY <1>1 DEF Made, IInv, TypeOK
<1>7. \A k \in Jobs \ {j} :
        /\ SameFacts(k) /\ job'[k].made = job[k].made /\ job'[k].started = job[k].started
        /\ job'[k].completed = job[k].completed /\ job'[k].deps = job[k].deps
        /\ job'[k].downs = IF k \in open /\ ~aborted THEN job[k].downs \cup {j} ELSE job[k].downs
  <2> HIDE DEF open, aborted
  <2>1. SUFFICES ASSUME NEW k \in Jobs \ {j}
                 PROVE  /\ job'[k].made = job[k].made /\ job'[k].started = job[k].started
                        /\ job'[k].completed = job[k].completed /\ job'[k].deps = job[k].deps
                        /\ job'[k].numWaiting = job[k].numWaiting
                        /\ job'[k].signaler = job[k].signaler
                        /\ job'[k].downs = IF k \in open /\ ~aborted THEN job[k].downs \cup {j}
                                                                      ELSE job[k].downs
    BY DEF SameFacts
  <2>2. job[k] \in JobState
    BY <1>6
  <2>3. CASE k \in open /\ ~aborted
    <3>1. job'[k] = [job[k] EXCEPT !.downs = job[k].downs \cup {j}]
      BY <1>5, <2>3
    <3> QED
      BY <2>2, <2>3, <3>1 DEF JobState
  <2>4. CASE ~(k \in open /\ ~aborted)
    BY <1>5, <2>4
  <2> QED
    BY <2>3, <2>4
<1>8. Downs(j) = {} /\ job[j].downs = {}
  BY <1>1, UnmadeLinks
<1>9. ASSUME NEW k \in Jobs \ {j}
      PROVE  Downs(k)' = Downs(k) /\ Open(k)' = Open(k)
  <2>1. \A d \in Jobs : k \in job'[d].downs <=> k \in job[d].downs
    BY <1>5, <1>7, <1>8
  <2>2. Downs(k)' = Downs(k) /\ j \notin Downs(k)
    BY <1>8, <2>1 DEF Downs
  <2>3. \A d \in Downs(k) : job'[d].completed = job[d].completed
    BY <1>7, <2>2 DEF Downs
  <2> QED
    BY <2>2, <2>3 DEF Open
<1>10. GraphOK'
  <2>1. ASSUME NEW d \in Jobs, NEW k \in job'[d].downs
        PROVE  d \in job'[k].deps /\ job'[k].made # "no"
    <3>1. d # j
      BY <1>5, <2>1
    <3>2. CASE k \in job[d].downs
      <4>1. d \in job[k].deps /\ job[k].made # "no" /\ k \in Jobs
        BY <1>6, <3>2 DEF DInv, GraphOK, JobState
      <4> QED
        BY <1>1, <1>7, <4>1
    <3>3. CASE k \notin job[d].downs
      <4>1. k = j /\ d \in open
        BY <1>7, <2>1, <3>1, <3>3
      <4> QED
        BY <1>5, <4>1
    <3> QED
      BY <3>2, <3>3
  <2>2. ASSUME NEW d \in Jobs, job'[d].made = "no"
        PROVE  job'[d].downs = {}
    <3>1. d # j /\ job[d].made = "no"
      BY <1>5, <1>7, <2>2
    <3>2. d \notin open
      BY <1>1, <3>1 DEF Made
    <3> QED
      BY <1>7, <3>1, <3>2 DEF DInv, GraphOK
  <2> QED
    BY <2>1, <2>2 DEF GraphOK
<1>11. JobOK(j)'
  <2>1. SUFFICES ASSUME ~aborted
                 PROVE  JobOK(j)'
    BY <1>5 DEF JobOK
  <2>2. Downs(j)' = open
    <3>1. \A d \in Jobs : j \in job'[d].downs <=> d \in open
      <4>1. \A d \in Jobs : j \notin job[d].downs
        BY <1>8 DEF Downs
      <4>2. j \notin open
        BY <1>6
      <4> HIDE DEF open, aborted
      <4> QED
        BY <1>5, <1>7, <2>1, <4>1, <4>2
    <3> QED
      BY <3>1 DEF Downs
  <2>3. Open(j)' = open
    <3>1. \A d \in open : d \in Jobs \ {j} /\ ~job[d].completed
      BY <1>6
    <3> HIDE DEF open
    <3> QED
      BY <1>7, <2>2, <3>1 DEF Open
  <2>4. IsFiniteSet(open) /\ Cardinality(open) \in Nat
    BY JobQueueAssumption, FS_Subset, FS_CardinalityType
  <2>5. Cardinality(open) = 0 => open = {}
    BY <2>4, FS_EmptySet
  <2>6. Creating(j)'
    BY <1>2, <1>4 DEF Creating, Creates
  <2> HIDE DEF open, aborted
  <2>7. job'[j].numWaiting = Cardinality(open)
    BY <1>5, <2>1
  <2>8. ~(job'[j].numWaiting >= 1) => Placed(j)'
    BY <2>2, <2>4, <2>5, <2>6, <2>7 DEF Placed
  <2>9. job'[j].numWaiting <= Cardinality(Open(j)')
    BY <2>3, <2>4, <2>7
  <2> QED
    BY <1>5, <2>8, <2>9 DEF JobOK
<1> HIDE DEF open, aborted
<1>12. \A k \in Jobs : FramePassedOn(t, k)
  <2>1. \/ fr[t].op \notin HoldingOps \cup {"adds"}
        \/ fr[t].op \in {"enter", "run", "publish", "mark"} /\ Starts(fr[t], fr[t].job)
    BY <1>1 DEF HoldingOps, Starts
  <2> QED
    BY <1>4, <2>1, PassedOn
<1>13. \A k \in Jobs \ {j} : JobOK(k)'
  BY <1>1, <1>4, <1>7, <1>9, <1>12, OthersKept
<1>14. \A k \in Jobs : job[k].made # "no" => job'[k].made # "no" /\ job'[k].started = job[k].started
  BY <1>1, <1>7
<1>15. \A u \in Threads : SleeperOK(u)'
  BY <1>1, <1>4, <1>14, SleepersKept
<1>16. \A u \in Threads : MakesOK(u)'
  <2>1. \A g \in {f, fr[t]} : g.op \in {"created", "return"} => job'[g.job].made # "no"
    BY <1>1, <1>2, <1>5
  <2> QED
    BY <1>4, <1>14, <2>1, MakesKept
<1> QED
  BY <1>10, <1>11, <1>13, <1>15, <1>16 DEF DInv

(* JobDone counts down for each dependent job, at most once for each of    *)
(* its open dependencies, and adds those that wait for nothing any more.   *)
LEMMA JobDonePublishKeeps ==
  ASSUME IInv, DInv, NEW t \in Threads, JobDonePublish(t)
  PROVE  DInv'
<1>0. PICK j \in Jobs : fr[t].job = j
  BY InvFacts DEF JobDonePublish, JobOps
<1> DEFINE newly == {k \in job[j].downs : job[k].numWaiting = 1}
           w     == JobFrame("wake", j, TRUE)
           a     == AddsFrame(newly)
<1>1. /\ fr[t].op = "publish" /\ UNCHANGED <<pending, wti>>
      /\ job \in [Jobs -> JobState] /\ \A k \in Jobs : job[k] \in JobState
  BY InvFacts DEF JobDonePublish, IInv, TypeOK
<1>2. newly \subseteq Jobs
  BY <1>1 DEF JobState
<1>3. w \in Frame /\ w.op = "wake" /\ a \in Frame /\ a.op = "adds" /\ a.jobs = newly
  BY <1>1, <1>2, FramesOK DEF JobOps, JobFrame, AddsFrame
<1>4. job' = [k \in Jobs |->
                IF k = j THEN [job[j] EXCEPT !.completed = TRUE, !.failed = ~fr[t].ok]
                ELSE IF k \in job[j].downs
                  THEN [job[k] EXCEPT !.numWaiting = job[k].numWaiting - 1,
                                      !.depFailed = job[k].depFailed \/ ~fr[t].ok]
                ELSE job[k]]
  BY <1>0 DEF JobDonePublish
<1>5. Proceed(t, IF newly = {} THEN <<w>> ELSE <<w, a>>)
  BY <1>0 DEF JobDonePublish
<1> HIDE DEF w, a
<1>6. PICK S : /\ StepsTo(t, S) /\ \A f \in S : f.op \notin {"created", "return"}
               /\ newly # {} => a \in S
  <2>1. CASE newly = {}
    <3>1. StepsTo(t, {w})
      BY <1>3, <1>5, <2>1, StepsAre
    <3> HIDE DEF newly
    <3> QED
      BY <1>3, <2>1, <3>1
  <2>2. CASE newly # {}
    <3>1. StepsTo(t, {w, a})
      BY <1>3, <1>5, <2>2, StepsAre
    <3> HIDE DEF newly
    <3> QED
      BY <1>3, <2>2, <3>1
  <2> QED
    BY <2>1, <2>2
<1>7. ASSUME NEW k \in Jobs
      PROVE  /\ SameLinks(k) /\ job'[k].made = job[k].made /\ job'[k].started = job[k].started
             /\ job'[k].signaler = job[k].signaler
             /\ job'[k].completed = (job[k].completed \/ k = j)
             /\ k # j => job'[k].numWaiting = IF k \in job[j].downs THEN job[k].numWaiting - 1
                                                                    ELSE job[k].numWaiting
  <2>1. CASE k = j
    <3>1. job'[k] = [job[k] EXCEPT !.completed = TRUE, !.failed = ~fr[t].ok]
      BY <1>1, <1>4, <2>1
    <3> QED
      BY <1>1, <2>1, <3>1 DEF JobState, SameLinks
  <2>2. CASE k # j /\ k \in job[j].downs
    <3>1. job'[k] = [job[k] EXCEPT !.numWaiting = job[k].numWaiting - 1,
                                   !.depFailed = job[k].depFailed \/ ~fr[t].ok]
      BY <1>4, <2>2
    <3>2. job[k] \in JobState
      BY <1>1
    <3> QED
      BY <2>2, <3>1, <3>2 DEF JobState, SameLinks
  <2>3. CASE k # j /\ k \notin job[j].downs
    <3>1. job'[k] = job[k] /\ job[k] \in JobState
      BY <1>1, <1>4, <2>3
    <3> QED
      BY <2>3, <3>1 DEF JobState, SameLinks
  <2> QED
    BY <2>1, <2>2, <2>3
<1>8. GraphOK' /\ \A k \in Jobs : Downs(k)' = Downs(k)
  BY <1>7, GraphKept
<1>9. \A k \in Jobs : Open(k)' = Open(k) \ {j}
  BY <1>7, <1>8 DEF Open, Downs
<1>10. ASSUME NEW k \in Jobs \ {j}
       PROVE  FramePassedOn(t, k)
  BY <1>0, <1>1, <1>10 DEF FramePassedOn, Starts, Adds, Creates
<1>11. ASSUME NEW k \in Jobs \ {j}, k \notin job[j].downs
       PROVE  JobOK(k)'
  <2>1. j \notin Open(k)
    BY <1>11 DEF Open, Downs
  <2>2. SameFacts(k) /\ Open(k)' = Open(k)
    <3>1. Open(k)' = Open(k)
      BY <1>9, <1>11, <2>1
    <3>2. /\ job'[k].made = job[k].made /\ job'[k].started = job[k].started
          /\ job'[k].signaler = job[k].signaler /\ job'[k].numWaiting = job[k].numWaiting
          /\ job'[k].completed = (job[k].completed \/ k = j)
      BY <1>7, <1>11
    <3>3. job'[k].completed = job[k].completed
      BY <1>7, <1>11, <1>1, SMTT(30) DEF JobState
    <3> QED
      BY <3>1, <3>2, <3>3 DEF SameFacts
  <2> QED
    BY <1>1, <1>6, <1>7, <1>8, <1>10, <2>2, OthersKept
<1>12. ASSUME NEW k \in Jobs \ {j}, k \in job[j].downs
       PROVE  JobOK(k)'
  <2>1. /\ job'[k].numWaiting = job[k].numWaiting - 1 /\ job[k].numWaiting \in Int
        /\ job[k] \in JobState
    BY <1>1, <1>7, <1>12 DEF JobState
  <2>2. /\ InHands(k) => InHands(k)'
        /\ \A f \in S : Adds(f, k) => Added(k)'
    BY <1>6, <1>10, PlacesKept DEF FramePassedOn
  <2>3. Added(k) => Added(k)'
    <3>1. ~Adds(fr[t], k)
      BY <1>1 DEF Adds
    <3> QED
      BY <1>6, <3>1, PlacesKept
  <2>4. Handed(k) => Handed(k)'
    BY <1>1, <1>6, HandedKept
  <2>5. j \in Downs(k) /\ Listed(k)' = Listed(k)
    BY <1>1, <1>12 DEF Downs, Listed
  <2>6. Placed(k) => Placed(k)'
    BY <2>2, <2>3, <2>5 DEF Placed
  <2>7. job[k].numWaiting = 1 => Placed(k)'
    <3>1. job[k].numWaiting = 1 => k \in newly
      BY <1>12
    <3> HIDE DEF newly
    <3> QED
      BY <1>3, <1>6, <2>2, <3>1 DEF Placed, Adds
  <2>8. ASSUME job[k].numWaiting <= Cardinality(Open(k))
        PROVE  job'[k].numWaiting <= Cardinality(Open(k)')
    <3>1. IsFiniteSet(Open(k)) /\ Cardinality(Open(k)) \in Nat
      BY JobQueueAssumption, FS_Subset, FS_CardinalityType DEF Open, Downs
    <3>2. Cardinality(Open(k) \ {j}) >= Cardinality(Open(k)) - 1
      BY <3>1, FS_RemoveElement
    <3>3. Cardinality(Open(k) \ {j}) \in Nat
      BY <3>1, FS_Subset, FS_CardinalityType
    <3> QED
      BY <1>9, <2>1, <2>8, <3>1, <3>2, <3>3
  <2>9. JobOK(k)
    BY DEF DInv
  <2>10. job'[k].numWaiting >= 1 => job[k].numWaiting >= 1
    BY <2>1
  <2>11. ~(job'[k].numWaiting >= 1) => job[k].numWaiting = 1 \/ ~(job[k].numWaiting >= 1)
    BY <2>1
  <2>12. /\ job'[k].made = job[k].made /\ job'[k].started = job[k].started
         /\ job'[k].signaler = job[k].signaler
         /\ ~job'[k].completed => ~job[k].completed
    BY <1>7, <1>12
  <2>13. SUFFICES ASSUME job[k].made # "no", ~job[k].completed
                  PROVE  JobOK(k)'
    BY <2>12 DEF JobOK
  <2>14. job'[k].signaler = "none" /\ job'[k].numWaiting >= 1
           => job'[k].numWaiting <= Cardinality(Open(k)')
    BY <2>8, <2>9, <2>10, <2>12, <2>13 DEF JobOK
  <2>15. job'[k].signaler = "none" /\ ~(job'[k].numWaiting >= 1) /\ ~job'[k].started => Placed(k)'
    BY <2>6, <2>7, <2>9, <2>11, <2>12, <2>13 DEF JobOK
  <2>16. job'[k].started => InHands(k)' \/ Handed(k)'
    BY <2>2, <2>4, <2>9, <2>12, <2>13 DEF JobOK
  <2>17. job'[k].signaler = "done" => InHands(k)'
    BY <2>2, <2>9, <2>12, <2>13 DEF JobOK
  <2> QED
    BY <2>14, <2>15, <2>16, <2>17 DEF JobOK
<1>13. JobOK(j)'
  BY <1>1, <1>7 DEF JobOK
<1>14. \A k \in Jobs : JobOK(k)'
  BY <1>11, <1>12, <1>13
<1>15. \A u \in Threads : SleeperOK(u)'
  BY <1>1, <1>6, <1>7, SleepersKept
<1>16. \A u \in Threads : MakesOK(u)'
  BY <1>6, <1>7, MakesKept
<1> QED
  BY <1>8, <1>14, <1>15, <1>16 DEF DInv

-----------------------------------------------------------------------------
LEMMA NextKeeps ==
  ASSUME IInv, DInv, [Next]_vars
  PROVE  DInv'
<1>1. ASSUME NEW t \in Threads, ClientStep(t)
      PROVE  DInv'
  BY <1>1, CreateJobKeeps, CreateSignaledJobKeeps, SignalDoneKeeps, CallWaitForJobKeeps,
     WaitForWorkKeeps, CallCloseDrops DEF ClientStep
<1>2. ASSUME NEW t \in Threads, AddRunnableJob(t)
      PROVE  DInv'
  BY <1>2, AddAbortsKeeps, AddHandsOverKeeps, AddQueuesKeeps DEF AddRunnableJob
<1>3. ASSUME NEW t \in Threads, QueueStep(t)
      PROVE  DInv'
  BY <1>2, <1>3, CreatedJobKeeps, CreateReturnsKeeps, JobDonePublishKeeps, JobDoneWakeKeeps,
     AddMarksStartedKeeps, RunEnterKeeps, RunnerReturnsKeeps, WaitForJobKeeps, AwakeStep,
     CloseAbortsPendingKeeps, CloseUnlinksKeeps, CloseWakesKeeps, CloseAwaitsAckKeeps
  DEF QueueStep
<1>4. ASSUME UNCHANGED vars
      PROVE  DInv'
  <2>1. UNCHANGED <<job, pending, wti, fr, stack>>
    BY <1>4 DEF vars
  <2>2. GraphOK'
    BY <2>1 DEF DInv, GraphOK
  <2>3. \A t \in Threads : SleeperOK(t)' /\ MakesOK(t)'
    BY <2>1 DEF DInv, SleeperOK, MakesOK, Somewhere
  <2>4. ASSUME NEW j \in Jobs
        PROVE  JobOK(j)'
    <3>1. /\ InHands(j)' = InHands(j) /\ Added(j)' = Added(j)
          /\ Creating(j)' = Creating(j)
      BY <2>1 DEF InHands, Added, Creating, Somewhere
    <3>2. /\ Listed(j)' = Listed(j) /\ Handed(j)' = Handed(j)
          /\ Downs(j)' = Downs(j) /\ Open(j)' = Open(j)
      BY <2>1 DEF Listed, Handed, HandedTo, Downs, Open
    <3>3. JobOK(j)
      BY DEF DInv
    <3> QED
      BY <2>1, <3>1, <3>2, <3>3 DEF JobOK, Placed
  <2> QED
    BY <2>2, <2>3, <2>4 DEF DInv
<1> QED
  BY <1>1, <1>3, <1>4 DEF Next, Step

LEMMA InitKeeps ==
  ASSUME Init
  PROVE  DInv
<1>1. \A j \in Jobs : job[j].made = "no" /\ job[j].downs = {}
  BY DEF Init, NoJobYet, NewJob
<1>2. \A t \in Threads : fr[t] = Client(TRUE) /\ stack[t] = <<>>
  BY DEF Init
<1>3. \A t \in Threads : SleeperOK(t)
  <2>1. \A t \in Threads : wti[t].catWait = {} /\ wti[t].jobWait = NoJob
    BY DEF Init, Unlinked
  <2> QED
    BY <2>1 DEF SleeperOK
<1>4. \A t \in Threads : MakesOK(t)
  BY <1>2 DEF MakesOK, Somewhere, Client, JobFrame
<1> QED
  BY <1>1, <1>3, <1>4 DEF DInv, GraphOK, JobOK

(* No job is dropped: whatever is created, aborted, handed over, taken or  *)
(* closed, and in every interleaving, a job whose dependencies and         *)
(* signaler are done is complete, or some list, wake or thread has it.     *)
THEOREM JobQueueNoDroppedJob == Spec => []NoDroppedJob
<1>1. Init => DInv
  BY InitKeeps
<1>2. IInv /\ DInv /\ [Next]_vars => DInv'
  BY NextKeeps
<1>3. IInv /\ DInv => NoDroppedJob
  <2>1. SUFFICES ASSUME IInv, DInv, NEW j \in Jobs, job[j].made # "no", ~job[j].completed,
                        job[j].signaler # "held", \A d \in job[j].deps : job[d].completed
                 PROVE  \/ \E c \in Types : j \in ToSet(pending[c])
                        \/ \E u \in Threads : wti[u].job = j
                        \/ \E t \in Threads : \E f \in Frames(t) :
                             \/ f.op \in HoldingOps /\ f.job = j
                             \/ f.op = "adds" /\ j \in f.jobs
    BY DEF NoDroppedJob
  <2>2. Open(j) = {}
    BY <2>1 DEF Open, Downs, DInv, GraphOK
  <2>3. job[j] \in JobState
    BY <2>1 DEF IInv, TypeOK
  <2>4. job[j].signaler = "none" => ~(job[j].numWaiting >= 1)
    <3>1. Cardinality(Open(j)) = 0
      BY <2>2, FS_EmptySet
    <3> QED
      BY <2>1, <2>3, <3>1 DEF DInv, JobOK, JobState
  <2>5. Placed(j) \/ Handed(j) \/ InHands(j)
    BY <2>1, <2>3, <2>4 DEF DInv, JobOK, JobState
  <2>6. \A t \in Threads, f \in Frame : Somewhere(t, f) => f \in Frames(t)
    BY DEF Somewhere, Frames, ToSet, IInv, TypeOK
  <2>7. Listed(j) => \E c \in Types : j \in ToSet(pending[c])
    BY DEF Listed, ToSet, IInv, TypeOK
  <2>8. Handed(j) => \E u \in Threads : wti[u].job = j
    BY DEF Handed, HandedTo
  <2>9. InHands(j) => \E t \in Threads : \E f \in Frames(t) : f.op \in HoldingOps /\ f.job = j
    BY <2>6 DEF InHands, Starts, HoldingOps
  <2>10. Added(j) => \E t \in Threads : \E f \in Frames(t) : f.op = "adds" /\ j \in f.jobs
    BY <2>6 DEF Added, Adds
  <2>11. Creating(j) => \E t \in Threads : \E f \in Frames(t) : f.op \in HoldingOps /\ f.job = j
    BY DEF Creating, Creates, Frames, HoldingOps
  <2> QED
    BY <2>5, <2>7, <2>8, <2>9, <2>10, <2>11 DEF Placed
<1> QED
  BY <1>1, <1>2, <1>3, JobQueueInv, PTL DEF Spec
=============================================================================
