------------------------------ MODULE ThreadPool ------------------------------
(***************************************************************************)
(* RKit_Utilities/ThreadPool.cpp over the job queue: worker threads that   *)
(* wait for work and leave on a fault, the main thread that creates jobs,  *)
(* waits for them and finally closes the pool, and other threads, such as  *)
(* the asynchronous I/O thread, that hold signalers.                       *)
(***************************************************************************)
EXTENDS JobQueue

CONSTANTS
  Main,      \* the thread that owns the pool
  Worker,    \* the sequence of the pool's threads, m_threads
  Helpers    \* threads outside the pool, which only signal

VARIABLES
  loop,      \* where each worker is in ThreadPoolThreadContext::Run
  joined     \* PrivClose has finalized every thread

poolVars == <<vars, loop, joined>>

Workers == ToSet(Worker)

ASSUME PoolAssumption == Workers \subseteq Threads /\ Workers \cap Helpers = {}

(* ThreadPool::Initialize: the job types of each worker; the main thread   *)
(* has none of its own when there are workers.                             *)
MainThreadJobTypes == IF Len(Worker) > 0 THEN <<>> ELSE <<"Normal", "IO">>
\* Mutant of PoolWorkTypes: an off-by-one leaves no thread for I/O jobs.
NoThreadForIO ==
  [t \in Threads |-> IF t \in Workers THEN <<"Normal">> ELSE MainThreadJobTypes]

PoolWorkTypes ==
  [t \in Threads |->
     CASE t \in Workers /\ Len(Worker) = 1              -> <<"IO", "Normal">>
       [] t \in Workers /\ Len(Worker) > 1 /\ t = Worker[1] -> <<"IO">>
       [] t \in Workers /\ Len(Worker) > 1 /\ t # Worker[1] -> <<"Normal">>
       [] OTHER                                         -> MainThreadJobTypes]
PoolIdleTypes == [t \in Threads |-> MainThreadJobTypes]

PoolInit ==
  /\ Init
  /\ loop = [t \in Workers |-> "wait"]
  /\ joined = FALSE

(* The worker loop: wait for work, run it, leave if there was none or the  *)
(* queue has a fault.                                                      *)
WorkerWaits(t) ==
  /\ loop[t] = "wait" /\ MayRun(t)
  /\ WaitForWork(t, TRUE)
  /\ loop' = [loop EXCEPT ![t] = "check"]
  /\ UNCHANGED joined

WorkerChecks(t) ==
  /\ loop[t] = "check" /\ fr[t].op = "client"
  /\ loop' = [loop EXCEPT ![t] = IF fr[t].ok /\ ~faulted THEN "wait" ELSE "exited"]
  /\ UNCHANGED <<vars, joined>>

(* Code running on the main thread, or in a job.                           *)
ClientCall(t) ==
  \/ \E j \in Jobs, c \in Types, D \in SUBSET Jobs : CreateJob(t, j, c, D)
  \/ \E j \in Jobs : CreateSignaledJob(t, j)
  \/ /\ t = Main /\ fr[t].op = "client"
     /\ \/ \E j \in Jobs : CallWaitForJob(t, j)
        \/ WaitForWork(t, FALSE)
        \/ CallClose(t)

ClientCalls(t) ==
  /\ MayRun(t) /\ ClientCall(t)
  /\ t \in Workers => fr[t].op = "run"
  /\ t = Main => ~isClosing \/ joined     \* PrivClose also joins the threads
  /\ t \notin Helpers
  /\ UNCHANGED <<loop, joined>>

Signals(t, j) ==
  /\ MayRun(t) /\ t \in Helpers
  /\ \E ok \in BOOLEAN : SignalDone(t, j, ok)
  /\ UNCHANGED <<loop, joined>>

Queue(t) == MayRun(t) /\ QueueStep(t) /\ UNCHANGED <<loop, joined>>

\* Mutant of JoinsWorkers: the pool is gone before its threads have ended.
JoinsWithoutWaiting ==
  /\ isClosing /\ fr[Main].op = "client" /\ ~joined
  /\ joined' = TRUE
  /\ UNCHANGED <<vars, loop>>

(* PrivClose, after the queue is closed, waits for every thread to end.    *)
JoinsWorkers ==
  /\ isClosing /\ fr[Main].op = "client" /\ ~joined
  /\ \A t \in Workers : loop[t] = "exited"
  /\ joined' = TRUE
  /\ UNCHANGED <<vars, loop>>

(* What each thread does if it is scheduled: the queue's code it is in,    *)
(* the worker loop, PrivClose, and letting go of every signaler it holds.  *)
OwnStep(t) ==
  \/ Queue(t)
  \/ t \in Workers /\ (WorkerWaits(t) \/ WorkerChecks(t))
  \/ t = Main /\ JoinsWorkers
  \/ \E j \in Jobs : Signals(t, j)

PoolNext == \E t \in Threads : OwnStep(t) \/ ClientCalls(t)

(* Each thread is scheduled, a job's runner returns, and whoever holds a   *)
(* signaler signals it or lets go of it; nothing makes clients call.       *)
Fairness == \A t \in Threads : WF_poolVars(OwnStep(t))

PoolSpec == PoolInit /\ [][PoolNext]_poolVars /\ Fairness

-----------------------------------------------------------------------------
PoolTypeOK == TypeOK /\ loop \in [Workers -> {"wait", "check", "exited"}] /\ joined \in BOOLEAN

(* Unless the queue has a fault, no job is left behind: each runs, or is   *)
(* aborted because the pool closes.  Closing leaves none behind whether or *)
(* not there was a fault.  (Only finitely many can be made.)               *)
JobsEnd == <>[]((faulted /\ ~isClosing) \/ \A j \in Made : job[j].completed)

(* The main thread gets out of what it blocks in: closing the pool stops   *)
(* every worker and goes on, and WaitForJob returns, unless a fault made   *)
(* the workers leave.                                                      *)
MainThreadGoesOn ==
  /\ []<>(isClosing => joined)
  /\ []<>(fr[Main].op \in {"waitJob", "asleep"} => faulted)

(* After the pool is closed no worker is inside the queue or a job.        *)
NoWorkAfterJoin == joined => \A t \in Workers : fr[t].op = "client" /\ stack[t] = <<>>
===============================================================================
