------------------------------ MODULE JobQueue ------------------------------
(***************************************************************************)
(* The asynchronous job queue of RKit_Utilities/JobQueue.cpp, used by any  *)
(* number of threads at once.  One step is one critical section of         *)
(* m_distributorMutex or m_depGraphMutex, or one access the code makes     *)
(* with neither held.                                                      *)
(*                                                                         *)
(* A thread is its call stack: fr[t] is the function it is in and stack[t] *)
(* the frames below.  JobDone and AddRunnableJob call each other, and a    *)
(* job's runner may call back into the queue, so both are needed.          *)
(*                                                                         *)
(* Abstractions.  The intrusive wait rings are the set of the threads      *)
(* whose wti names the ring, so which member of a ring is taken is left    *)
(* open; so is the order in which the jobs one completion makes runnable   *)
(* are added, and the order in which PrivClose visits the lists.  The      *)
(* doubly-linked pending lists are sequences.  m_result is whether a fault *)
(* was recorded.  Memory exhaustion in CreateJob is not modelled, nor is a *)
(* dependency list that names one job twice.  A job is added to a pending  *)
(* list it is in already only when CreateJob and DependencyDone both make  *)
(* it runnable; the list's links are corrupt then, and the sequence here   *)
(* names the job twice.                                                    *)
(***************************************************************************)
EXTENDS Integers, FiniteSets, SequencesExt

CONSTANTS
  Threads, Jobs, Types,  \* the participating threads, JobImpl's, JobType's
  NormalPriority,        \* JobType::kNormalPriority
  NoJob, NoThread,       \* the null pointers
  WorkTypes,             \* the job types each thread passes to WaitForWork
  IdleTypes,             \* the idle job types each thread passes to WaitForJob
  Contexts,              \* "client" and/or "run": code that makes, signals and waits for jobs
  Creators,              \* the threads that do so
  MaxDepth,              \* bound on a thread's call stack when it calls in
  MayFail,               \* whether runners and signalers report failure
  MayClose,              \* whether a client closes the queue
  NameFailed,            \* whether clients name a dependency that already failed
  Uninterrupted          \* unlocked windows in which no other thread is scheduled

ASSUME JobQueueAssumption ==
  /\ NoJob \notin Jobs /\ NoThread \notin Threads
  /\ IsFiniteSet(Jobs) /\ NormalPriority \in Types
  /\ WorkTypes \in [Threads -> Seq(Types)]
  /\ IdleTypes \in [Threads -> Seq(Types)]
  /\ Creators \subseteq Threads /\ Contexts \subseteq {"client", "run"}
  /\ MaxDepth \in Nat
  /\ {MayFail, MayClose, NameFailed} \subseteq BOOLEAN

VARIABLES
  job,        \* the fields of each JobImpl
  pending,    \* m_pendingJobLists
  wti,        \* the JobQueueWaitingThreadInfo of each thread, with its wake event
  termEv,     \* the terminated event of each thread is signaled
  fr, stack,  \* each thread's current frame and the frames below it
  isClosing,  \* m_isClosing
  faulted,    \* m_result is not OK
  victim      \* the thread PrivClose has unlinked and is about to wake

vars == <<job, pending, wti, termEv, fr, stack, isClosing, faulted, victim>>

JobOps   == {"run", "created", "return", "enter", "publish", "wake", "mark", "waitJob"}
OtherOps == {"client", "adds", "asleep", "closePop", "closeTerm", "closeWake", "closeAck"}

Frame == [op : JobOps, job : Jobs, ok : BOOLEAN, jobs : SUBSET Jobs]
           \cup [op : OtherOps, job : Jobs \cup {NoJob}, ok : BOOLEAN, jobs : SUBSET Jobs]
JobFrame(op, j, ok) == [op |-> op, job |-> j, ok |-> ok, jobs |-> {}]
AddsFrame(S) == [op |-> "adds", job |-> NoJob, ok |-> TRUE, jobs |-> S]
Client(ok) == JobFrame("client", NoJob, ok)

(* Phase of a job's creation, its dependencies and runs are history; the   *)
(* other fields are JobImpl's, and the state of its signaler if it has one.*)
JobState ==
  [made : {"no", "making", "yes"}, deps : SUBSET Jobs, runs : Nat,
   type : Types, runner : BOOLEAN, signaler : {"none", "held", "done"},
   numWaiting : Int, downs : SUBSET Jobs,
   completed : BOOLEAN, failed : BOOLEAN, depFailed : BOOLEAN,
   queued : BOOLEAN, started : BOOLEAN]

NewJob(c, D, hasRunner) ==
  [made |-> "making", deps |-> D, runs |-> 0,
   type |-> c, runner |-> hasRunner, signaler |-> "none",
   numWaiting |-> 0, downs |-> {},
   completed |-> FALSE, failed |-> FALSE, depFailed |-> FALSE,
   queued |-> FALSE, started |-> FALSE]

NoJobYet == [NewJob(NormalPriority, {}, FALSE) EXCEPT !.made = "no"]

Dispositions == {"Invalid", "Terminated", "DequeuedWork", "CompletedByAnotherThread", "StartedByThisThread"}

(* disp # "Invalid" when the wake event is signaled.                       *)
WaitInfo == [catWait : SUBSET Types, jobWait : Jobs \cup {NoJob},
             disp : Dispositions, job : Jobs \cup {NoJob}]
Unlinked == [catWait |-> {}, jobWait |-> NoJob, disp |-> "Invalid", job |-> NoJob]

Made == {j \in Jobs : job[j].made = "yes"}

\* m_distWaitingThreadsRing of j.
JobWaiters(j) == {u \in Threads : wti[u].jobWait = j}

-----------------------------------------------------------------------------
(* Threads' stacks.                                                        *)

(* Replace t's frame by the frames fs; with fs = <<>>, return.             *)
Proceed(t, fs) ==
  LET s == fs \o stack[t]
  IN  /\ fr' = [fr EXCEPT ![t] = Head(s)]
      /\ stack' = [stack EXCEPT ![t] = Tail(s)]

(* Client code of t calls a function whose frame is f.                     *)
Call(t, f) == Proceed(t, <<f, fr[t]>>)

(* t is in code outside the queue that may call in.                        *)
InClient(t) == /\ fr[t].op \in Contexts
               /\ t \in Creators
               /\ Len(stack[t]) < MaxDepth

\* Mutant of Woken: the thread is not told which job it was given.
WokenWithoutJob(disp, j) == [Unlinked EXCEPT !.disp = disp]

(* UnlinkWaitingThread followed by Wake, of the thread u.                  *)
Woken(disp, j) == [Unlinked EXCEPT !.disp = disp, !.job = j]

-----------------------------------------------------------------------------
(* CreateJob: the dependency graph section, then the unlocked test of      *)
(* m_numWaitingDependencies.                                               *)

CreateJob(t, j, c, D) ==
  LET aborted == \E d \in D : job[d].failed
      open    == {d \in D : ~job[d].completed}
      new     == [NewJob(c, D, TRUE) EXCEPT
                    !.numWaiting = IF aborted THEN 0 ELSE Cardinality(open),
                    !.completed = aborted, !.failed = aborted]
  IN  /\ InClient(t)
      /\ job[j].made = "no" /\ D \subseteq Made
      /\ aborted => NameFailed
      /\ job' = [k \in Jobs |->
                   IF k = j THEN new
                   ELSE IF k \in open /\ ~aborted THEN [job[k] EXCEPT !.downs = @ \cup {j}]
                   ELSE job[k]]
      /\ Call(t, JobFrame("created", j, TRUE))
      /\ UNCHANGED <<pending, wti, termEv, isClosing, faulted, victim>>

CreatedJob(t) ==
  LET j == fr[t].job
  IN  /\ fr[t].op = "created"
      /\ Proceed(t, IF job[j].numWaiting = 0
                      THEN <<AddsFrame({j}), JobFrame("return", j, TRUE)>>
                      ELSE <<JobFrame("return", j, TRUE)>>)
      /\ UNCHANGED <<job, pending, wti, termEv, isClosing, faulted, victim>>

(* The caller has *outJob and may share it.                                *)
CreateReturns(t) ==
  /\ fr[t].op = "return"
  /\ job' = [job EXCEPT ![fr[t].job].made = "yes"]
  /\ Proceed(t, <<>>)
  /\ UNCHANGED <<pending, wti, termEv, isClosing, faulted, victim>>

CreateSignaledJob(t, j) ==
  /\ InClient(t)
  /\ job[j].made = "no"
  /\ job' = [job EXCEPT ![j] = [NewJob(NormalPriority, {}, FALSE) EXCEPT !.made = "yes", !.signaler = "held"]]
  /\ UNCHANGED <<pending, wti, termEv, fr, stack, isClosing, faulted, victim>>

(* SignalDone, or the signaler is destroyed unsignaled (ok = FALSE).       *)
SignalDone(t, j, ok) ==
  /\ InClient(t)
  /\ job[j].signaler = "held"
  /\ ok \/ MayFail
  /\ job' = [job EXCEPT ![j].signaler = "done"]
  /\ faulted' = (faulted \/ ~ok)
  /\ Call(t, JobFrame("publish", j, ok))
  /\ UNCHANGED <<pending, wti, termEv, isClosing, victim>>

-----------------------------------------------------------------------------
\* Mutant of JobDonePublish: the failure does not reach the dependent jobs.
PublishHidesFailure(t) ==
  LET j     == fr[t].job
      newly == {k \in job[j].downs : job[k].numWaiting = 1}
  IN  /\ fr[t].op = "publish"
      /\ job' = [k \in Jobs |->
                   IF k = j THEN [job[j] EXCEPT !.completed = TRUE, !.failed = ~fr[t].ok]
                   ELSE IF k \in job[j].downs THEN [job[k] EXCEPT !.numWaiting = @ - 1]
                   ELSE job[k]]
      /\ Proceed(t, <<JobFrame("wake", j, TRUE), AddsFrame(newly)>>)
      /\ UNCHANGED <<pending, wti, termEv, isClosing, faulted, victim>>

(* JobDone: the dependency graph section, waking the threads that wait for *)
(* the job, then AddRunnableJob of each job it made runnable.              *)

JobDonePublish(t) ==
  LET j     == fr[t].job
      newly == {k \in job[j].downs : job[k].numWaiting = 1}
  IN  /\ fr[t].op = "publish"
      /\ job' = [k \in Jobs |->
                   IF k = j THEN [job[j] EXCEPT !.completed = TRUE, !.failed = ~fr[t].ok]
                   ELSE IF k \in job[j].downs
                     THEN [job[k] EXCEPT !.numWaiting = @ - 1,
                                         !.depFailed = @ \/ ~fr[t].ok]
                   ELSE job[k]]
      /\ Proceed(t, IF newly = {} THEN <<JobFrame("wake", j, TRUE)>>
                    ELSE <<JobFrame("wake", j, TRUE), AddsFrame(newly)>>)
      /\ UNCHANGED <<pending, wti, termEv, isClosing, faulted, victim>>

\* Mutants of JobDoneWake: only the first thread of the ring is woken, or none.
WakesFirstOnly(t) ==
  /\ fr[t].op = "wake"
  /\ IF JobWaiters(fr[t].job) = {} THEN UNCHANGED wti
     ELSE \E u \in JobWaiters(fr[t].job) :
            wti' = [wti EXCEPT ![u] = Woken("CompletedByAnotherThread", NoJob)]
  /\ Proceed(t, <<>>)
  /\ UNCHANGED <<job, pending, termEv, isClosing, faulted, victim>>

WakesNobody(t) ==
  /\ fr[t].op = "wake"
  /\ Proceed(t, <<>>)
  /\ UNCHANGED <<job, pending, wti, termEv, isClosing, faulted, victim>>

JobDoneWake(t) ==
  /\ fr[t].op = "wake"
  /\ wti' = [u \in Threads |-> IF wti[u].jobWait = fr[t].job
                                 THEN Woken("CompletedByAnotherThread", NoJob) ELSE wti[u]]
  /\ Proceed(t, <<>>)
  /\ UNCHANGED <<job, pending, termEv, isClosing, faulted, victim>>

(* The threads AddRunnableJob may hand a job of type c to: one that waits  *)
(* for that type alone if there is one.                                    *)
Specialized(c) == {u \in Threads : wti[u].catWait = {c}}
\* Mutant of Candidates: threads that wait for several types are forgotten.
SpecializedOnly(c) == Specialized(c)

Candidates(c) == IF Specialized(c) # {} THEN Specialized(c)
                 ELSE {u \in Threads : c \in wti[u].catWait}

(* The frames left once j is out of the set t is adding.                   *)
RestOfAdds(t, j) == IF fr[t].jobs = {j} THEN <<>> ELSE <<AddsFrame(fr[t].jobs \ {j})>>

\* Mutant of AddAborts: the job is aborted without JobDone.
AbortsSilently(t, j) ==
  /\ job[j].depFailed \/ isClosing
  /\ job' = [job EXCEPT ![j].queued = TRUE]
  /\ Proceed(t, RestOfAdds(t, j))
  /\ UNCHANGED <<pending, wti>>

AddAborts(t, j) ==
  /\ job[j].depFailed \/ isClosing
  /\ job' = [job EXCEPT ![j].queued = TRUE]
  /\ Proceed(t, <<JobFrame("mark", j, FALSE)>> \o RestOfAdds(t, j))
  /\ UNCHANGED <<pending, wti>>

AddHandsOver(t, j) ==
  /\ ~job[j].depFailed /\ ~isClosing
  /\ \/ \E u \in JobWaiters(j) :
          wti' = [wti EXCEPT ![u] = Woken("StartedByThisThread", j)]
     \/ /\ JobWaiters(j) = {}
        /\ \E u \in Candidates(job[j].type) :
             wti' = [wti EXCEPT ![u] = Woken("DequeuedWork", j)]
  /\ job' = [job EXCEPT ![j].queued = TRUE, ![j].started = TRUE]
  /\ Proceed(t, RestOfAdds(t, j))
  /\ UNCHANGED pending

\* Mutant of AddQueues: jobs are still queued while the queue closes.
QueuesWhenClosing(t, j) ==
  /\ ~job[j].depFailed
  /\ JobWaiters(j) = {} /\ Candidates(job[j].type) = {}
  /\ job' = [job EXCEPT ![j].queued = TRUE]
  /\ pending' = [pending EXCEPT ![job[j].type] = Append(@, j)]
  /\ Proceed(t, RestOfAdds(t, j))
  /\ UNCHANGED wti

AddQueues(t, j) ==
  /\ ~job[j].depFailed /\ ~isClosing
  /\ JobWaiters(j) = {} /\ Candidates(job[j].type) = {}
  /\ job' = [job EXCEPT ![j].queued = TRUE]
  /\ pending' = [pending EXCEPT ![job[j].type] = Append(@, j)]
  /\ Proceed(t, RestOfAdds(t, j))
  /\ UNCHANGED wti

AddRunnableJob(t) ==
  /\ fr[t].op = "adds"
  /\ \E j \in fr[t].jobs : AddAborts(t, j) \/ AddHandsOver(t, j) \/ AddQueues(t, j)
  /\ UNCHANGED <<termEv, isClosing, faulted, victim>>

(* The abort path sets m_distJobWasStarted after it has unlocked.          *)
AddMarksStarted(t) ==
  /\ fr[t].op = "mark"
  /\ job' = [job EXCEPT ![fr[t].job].started = TRUE]
  /\ Proceed(t, <<JobFrame("publish", fr[t].job, FALSE)>>)
  /\ UNCHANGED <<pending, wti, termEv, isClosing, faulted, victim>>

-----------------------------------------------------------------------------
(* JobImpl::Run.                                                           *)

RunEnter(t) ==
  LET j == fr[t].job
  IN  /\ fr[t].op = "enter"
      /\ \/ /\ job[j].depFailed
            /\ job' = [job EXCEPT ![j].runner = FALSE]
            /\ Proceed(t, <<JobFrame("publish", j, FALSE)>>)
         \/ /\ ~job[j].depFailed /\ job[j].runner
            /\ job' = [job EXCEPT ![j].runs = @ + 1]
            /\ Proceed(t, <<JobFrame("run", j, TRUE)>>)
         \/ /\ ~job[j].depFailed /\ ~job[j].runner
            /\ Proceed(t, <<JobFrame("publish", j, TRUE)>>)
            /\ UNCHANGED job
      /\ UNCHANGED <<pending, wti, termEv, isClosing, faulted, victim>>

RunnerReturns(t, ok) ==
  /\ fr[t].op = "run"
  /\ ok \/ MayFail
  /\ job' = [job EXCEPT ![fr[t].job].runner = FALSE]
  /\ faulted' = (faulted \/ ~ok)
  /\ Proceed(t, <<JobFrame("publish", fr[t].job, ok)>>)
  /\ UNCHANGED <<pending, wti, termEv, isClosing, victim>>

-----------------------------------------------------------------------------
(* WaitForWorkOrJob, in the two ways it is called.                         *)

(* The first of the given types, in order, that has a pending job.         *)
FirstPending(types, i) ==
  /\ i \in DOMAIN types /\ pending[types[i]] # <<>>
  /\ \A k \in 1..(i - 1) : pending[types[k]] = <<>>
NonePending(types) == \A i \in DOMAIN types : pending[types[i]] = <<>>

(* Take the first pending job of the types and go on with it, then rest.   *)
TakePending(t, types, rest) ==
  \E i \in DOMAIN types :
    LET j == Head(pending[types[i]])
    IN  /\ FirstPending(types, i)
        /\ pending' = [pending EXCEPT ![types[i]] = Tail(@)]
        /\ job' = [job EXCEPT ![j].started = TRUE]
        /\ Proceed(t, <<JobFrame("enter", j, TRUE)>> \o rest)
        /\ UNCHANGED wti

(* Register t in the rings and sleep.                                      *)
Sleep(t, types, j, f) ==
  /\ wti' = [wti EXCEPT ![t].catWait = ToSet(types), ![t].jobWait = j]
  /\ Proceed(t, <<f>>)
  /\ UNCHANGED <<job, pending>>

WaitForWork(t, waitIfDepleted) ==
  LET types == WorkTypes[t]
  IN  /\ fr[t].op = "client" /\ types # <<>>
      /\ \/ /\ isClosing
            /\ Proceed(t, <<Client(FALSE)>>) /\ UNCHANGED <<job, pending, wti>>
         \/ /\ ~isClosing
            /\ TakePending(t, types, <<Client(TRUE)>>)
         \/ /\ ~isClosing /\ NonePending(types) /\ ~waitIfDepleted
            /\ Proceed(t, <<Client(FALSE)>>) /\ UNCHANGED <<job, pending, wti>>
         \/ /\ ~isClosing /\ NonePending(types) /\ waitIfDepleted
            /\ Sleep(t, types, NoJob, JobFrame("asleep", NoJob, TRUE))
      /\ UNCHANGED <<termEv, isClosing, faulted, victim>>

CallWaitForJob(t, j) ==
  /\ InClient(t) /\ j \in Made
  /\ Call(t, JobFrame("waitJob", j, TRUE))
  /\ UNCHANGED <<job, pending, wti, termEv, isClosing, faulted, victim>>

(* The job waited for is runnable and nobody started it: take it out of    *)
(* its pending list, if it is on it.                                       *)
TakeSpecified(t, j) ==
  LET c == job[j].type
  IN  /\ \/ \E i \in DOMAIN pending[c] :
              /\ pending[c][i] = j
              /\ pending' = [pending EXCEPT ![c] = RemoveAt(@, i)]
         \/ /\ \A i \in DOMAIN pending[c] : pending[c][i] # j
            /\ UNCHANGED pending
      /\ job' = [job EXCEPT ![j].started = TRUE]
      /\ Proceed(t, <<JobFrame("enter", j, TRUE)>>)
      /\ UNCHANGED wti

\* Mutant of WaitForJob: a job that was started passes for completed.
WaitsForStart(t) ==
  LET j    == fr[t].job
      open == ~isClosing /\ ~job[j].started
  IN  /\ fr[t].op = "waitJob"
      /\ \/ /\ ~open
            /\ Proceed(t, <<>>) /\ UNCHANGED <<job, pending, wti>>
         \/ /\ open /\ job[j].queued
            /\ TakeSpecified(t, j)
         \/ /\ open /\ ~job[j].queued
            /\ TakePending(t, IdleTypes[t], <<fr[t]>>)
         \/ /\ open /\ ~job[j].queued /\ NonePending(IdleTypes[t])
            /\ Sleep(t, IdleTypes[t], j, JobFrame("asleep", j, TRUE))
      /\ UNCHANGED <<termEv, isClosing, faulted, victim>>

WaitForJob(t) ==
  LET j     == fr[t].job
      types == IdleTypes[t]
      open  == ~isClosing /\ ~job[j].completed
  IN  /\ fr[t].op = "waitJob"
      /\ \/ /\ ~open
            /\ Proceed(t, <<>>) /\ UNCHANGED <<job, pending, wti>>
         \/ /\ open /\ job[j].started
            /\ Sleep(t, <<>>, j, JobFrame("asleep", j, FALSE))
         \/ /\ open /\ ~job[j].started /\ job[j].queued
            /\ TakeSpecified(t, j)
         \/ /\ open /\ ~job[j].started /\ ~job[j].queued
            /\ TakePending(t, types, <<fr[t]>>)
         \/ /\ open /\ ~job[j].started /\ ~job[j].queued /\ NonePending(types)
            /\ Sleep(t, types, j, JobFrame("asleep", j, TRUE))
      /\ UNCHANGED <<termEv, isClosing, faulted, victim>>

\* Mutant of Awake: a terminated thread does not signal its terminated event.
AwakeUnacknowledged(t) ==
  LET w     == wti[t]
      j     == fr[t].job
      again == IF j = NoJob THEN <<Client(TRUE)>> ELSE <<JobFrame("waitJob", j, TRUE)>>
      back  == IF j = NoJob THEN <<Client(FALSE)>> ELSE <<>>
      enter == JobFrame("enter", w.job, TRUE)
  IN  /\ fr[t].op = "asleep" /\ w.disp # "Invalid"
      /\ wti' = [wti EXCEPT ![t] = Unlinked]
      /\ Proceed(t, CASE fr[t].ok /\ w.disp = "DequeuedWork"        -> <<enter>> \o again
                      [] fr[t].ok /\ w.disp = "StartedByThisThread" -> <<enter>>
                      [] OTHER                                      -> back)
      /\ UNCHANGED <<job, pending, termEv, isClosing, faulted, victim>>

(* AwaitWake returns.  A thread that waits only for completion (ok FALSE)  *)
(* returns whatever the disposition.                                       *)
Awake(t) ==
  LET w     == wti[t]
      j     == fr[t].job
      again == IF j = NoJob THEN <<Client(TRUE)>> ELSE <<JobFrame("waitJob", j, TRUE)>>
      back  == IF j = NoJob THEN <<Client(FALSE)>> ELSE <<>>
      enter == JobFrame("enter", w.job, TRUE)
  IN  /\ fr[t].op = "asleep" /\ w.disp # "Invalid"
      /\ wti' = [wti EXCEPT ![t] = Unlinked]
      /\ termEv' = [termEv EXCEPT ![t] = @ \/ w.disp = "Terminated"]
      /\ Proceed(t, CASE fr[t].ok /\ w.disp = "DequeuedWork"        -> <<enter>> \o again
                      [] fr[t].ok /\ w.disp = "StartedByThisThread" -> <<enter>>
                      [] OTHER                                      -> back)
      /\ UNCHANGED <<job, pending, isClosing, faulted, victim>>

-----------------------------------------------------------------------------
(* Close, called once: after the first call returns the lists and rings    *)
(* are empty and stay so, and a second call changes nothing.               *)

CloseOps == {"closePop", "closeTerm", "closeWake", "closeAck"}

CallClose(t) ==
  /\ InClient(t) /\ fr[t].op = "client" /\ MayClose /\ ~isClosing
  /\ isClosing' = TRUE
  /\ Call(t, JobFrame("closePop", NoJob, TRUE))
  /\ UNCHANGED <<job, pending, wti, termEv, faulted, victim>>

CloseAbortsPending(t) ==
  /\ fr[t].op = "closePop"
  /\ \/ \E c \in Types :
          /\ pending[c] # <<>>
          /\ pending' = [pending EXCEPT ![c] = Tail(@)]
          /\ Proceed(t, <<JobFrame("publish", Head(pending[c]), FALSE), fr[t]>>)
     \/ /\ \A c \in Types : pending[c] = <<>>
        /\ Proceed(t, <<JobFrame("closeTerm", NoJob, TRUE)>>)
        /\ UNCHANGED pending
  /\ UNCHANGED <<job, wti, termEv, isClosing, faulted, victim>>

\* Mutant of CloseUnlinks: the thread to terminate stays in its rings.
CloseLeavesLinked(t) ==
  /\ fr[t].op = "closeTerm"
  /\ \/ \E u \in Threads :
          /\ wti[u].catWait # {}
          /\ victim' = u
          /\ Proceed(t, <<JobFrame("closeWake", NoJob, TRUE)>>)
     \/ /\ \A u \in Threads : wti[u].catWait = {}
        /\ Proceed(t, <<>>)
        /\ UNCHANGED victim
  /\ UNCHANGED <<job, pending, wti, termEv, isClosing, faulted>>

CloseUnlinks(t) ==
  /\ fr[t].op = "closeTerm"
  /\ \/ \E u \in Threads :
          /\ wti[u].catWait # {}
          /\ wti' = [wti EXCEPT ![u] = Unlinked]
          /\ victim' = u
          /\ Proceed(t, <<JobFrame("closeWake", NoJob, TRUE)>>)
     \/ /\ \A u \in Threads : wti[u].catWait = {}
        /\ Proceed(t, <<>>)
        /\ UNCHANGED <<wti, victim>>
  /\ UNCHANGED <<job, pending, termEv, isClosing, faulted>>

CloseWakes(t) ==
  /\ fr[t].op = "closeWake"
  /\ wti' = [wti EXCEPT ![victim].disp = "Terminated"]
  /\ Proceed(t, <<JobFrame("closeAck", NoJob, TRUE)>>)
  /\ UNCHANGED <<job, pending, termEv, isClosing, faulted, victim>>

CloseAwaitsAck(t) ==
  /\ fr[t].op = "closeAck" /\ termEv[victim]
  /\ termEv' = [termEv EXCEPT ![victim] = FALSE]
  /\ victim' = NoThread
  /\ Proceed(t, <<JobFrame("closeTerm", NoJob, TRUE)>>)
  /\ UNCHANGED <<job, pending, wti, isClosing, faulted>>

-----------------------------------------------------------------------------
Init ==
  /\ job = [j \in Jobs |-> NoJobYet]
  /\ pending = [c \in Types |-> <<>>]
  /\ wti = [t \in Threads |-> Unlinked]
  /\ termEv = [t \in Threads |-> FALSE]
  /\ fr = [t \in Threads |-> Client(TRUE)]
  /\ stack = [t \in Threads |-> <<>>]
  /\ isClosing = FALSE /\ faulted = FALSE
  /\ victim = NoThread

(* Calls made by the code outside the queue.                               *)
ClientStep(t) ==
  \/ \E j \in Jobs, c \in Types, D \in SUBSET Jobs : CreateJob(t, j, c, D)
  \/ \E j \in Jobs : CreateSignaledJob(t, j)
  \/ \E j \in Jobs, ok \in BOOLEAN : SignalDone(t, j, ok)
  \/ \E j \in Jobs : CallWaitForJob(t, j)
  \/ \E b \in BOOLEAN : WaitForWork(t, b)
  \/ CallClose(t)

(* Steps of the queue's own code, and of the job it is running.            *)
QueueStep(t) ==
  \/ CreatedJob(t) \/ CreateReturns(t)
  \/ JobDonePublish(t) \/ JobDoneWake(t)
  \/ AddRunnableJob(t) \/ AddMarksStarted(t)
  \/ RunEnter(t) \/ \E ok \in BOOLEAN : RunnerReturns(t, ok)
  \/ WaitForJob(t) \/ Awake(t)
  \/ CloseAbortsPending(t) \/ CloseUnlinks(t) \/ CloseWakes(t) \/ CloseAwaitsAck(t)

(* The schedules considered: no thread runs while another is in one of the *)
(* windows of Uninterrupted.                                               *)
MayRun(t) == \A u \in Threads \ {t} : fr[u].op \notin Uninterrupted

Step(t) == MayRun(t) /\ (ClientStep(t) \/ QueueStep(t))
Next == \E t \in Threads : Step(t)

Spec == Init /\ [][Next]_vars

-----------------------------------------------------------------------------
(* Type invariant.                                                         *)
TypeOK ==
  /\ job \in [Jobs -> JobState]
  /\ pending \in [Types -> Seq(Jobs)]
  /\ wti \in [Threads -> WaitInfo]
  /\ termEv \in [Threads -> BOOLEAN]
  /\ fr \in [Threads -> Frame]
  /\ stack \in [Threads -> Seq(Frame)]
  /\ isClosing \in BOOLEAN /\ faulted \in BOOLEAN
  /\ victim \in Threads \cup {NoThread}

(* No lost work: while a job of some type is pending, no thread sleeps     *)
(* that would have taken a job of that type.  AddRunnableJob looks for a   *)
(* thread before it queues, WaitForWorkOrJob for a job before it sleeps.   *)
NoLostWork ==
  \A c \in Types : pending[c] # <<>> => \A u \in Threads : c \notin wti[u].catWait

(* No lost completion: a thread in the ring of a completed job is about to *)
(* be woken by a JobDone that has not reached the ring yet, although the   *)
(* completed flag and the ring are under different mutexes.                *)
NoLostCompletion ==
  \A u \in Threads :
    LET j == wti[u].jobWait
    IN  j # NoJob /\ job[j].completed
          => \E t \in Threads : fr[t].op = "wake" /\ fr[t].job = j

(* One wake per wait: a thread is in a ring, or unlinked by PrivClose, or  *)
(* has its wake event signaled, only while it sleeps, and in one of these  *)
(* ways only; so the wake event of a thread that is awake is never         *)
(* signaled, and no wake hits a thread's next wait.                        *)
OneWakePerWait ==
  \A u \in Threads :
    LET linked == wti[u].catWait # {} \/ wti[u].jobWait # NoJob
        woken  == wti[u].disp # "Invalid"
        chosen == victim = u /\ \E t \in Threads : fr[t].op = "closeWake"
    IN  /\ linked \/ woken \/ chosen => fr[u].op = "asleep"
        /\ fr[u].op = "asleep" => linked \/ woken \/ chosen
        /\ ~(linked /\ woken) /\ ~(linked /\ chosen) /\ ~(woken /\ chosen)

Frames(t) == {fr[t]} \cup ToSet(stack[t])

(* No job is dropped: a job that is neither complete nor waiting for a     *)
(* dependency or a signaler is pending, handed to a thread that has not    *)
(* woken yet, or in the hands of a thread, whose creator may be the one    *)
(* that is still to find that it waits for nothing.                        *)
HoldingOps == {"created", "enter", "run", "publish", "mark"}

NoDroppedJob ==
  \A j \in Jobs : job[j].made # "no" =>
    LET inList  == \E c \in Types : j \in ToSet(pending[c])
        handed  == \E u \in Threads : wti[u].job = j
        inHands == \E t \in Threads : \E f \in Frames(t) :
                     \/ f.op \in HoldingOps /\ f.job = j
                     \/ f.op = "adds" /\ j \in f.jobs
        waiting == \/ job[j].signaler = "held"
                   \/ \E d \in job[j].deps : ~job[d].completed
    IN  job[j].completed \/ waiting \/ inList \/ handed \/ inHands

(* A call to WaitForJob that returns from its first look or from its sleep *)
(* leaves the job completed, unless the queue was closed.                  *)
WaitedJobIsDone ==
  [][\A t \in Threads :
       /\ fr[t].op \in {"waitJob", "asleep"} /\ fr[t].job # NoJob
       /\ Len(stack'[t]) < Len(stack[t])
       => isClosing \/ job[fr[t].job].completed]_vars

(* Closing terminates: once a thread that closes the queue has returned,   *)
(* nothing is pending and no thread waits for work.                        *)
ClosedQueueIsEmpty ==
  isClosing /\ (\A t \in Threads : \A f \in Frames(t) : f.op \notin CloseOps)
    => \A c \in Types : pending[c] = <<>> /\ \A u \in Threads : c \notin wti[u].catWait
=============================================================================
