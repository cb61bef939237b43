--------------------------- MODULE ThreadPoolProofs ---------------------------
(***************************************************************************)
(* Proofs about ThreadPool: what is proved of the job queue holds in the   *)
(* pool, and no worker is left in the queue once the pool is closed.       *)
(***************************************************************************)
EXTENDS ThreadPool, JobQueueProofs

(* A worker that has left its loop is not inside the queue, and the main   *)
(* thread goes on only after all of them have left.                        *)
PoolInv ==
  /\ IInv
  /\ loop \in [Workers -> {"wait", "check", "exited"}] /\ joined \in BOOLEAN
  /\ \A t \in Workers : loop[t] = "exited" => fr[t].op = "client"
  /\ joined => \A t \in Workers : loop[t] = "exited"

-----------------------------------------------------------------------------
(* A thread's steps leave the frames of the others alone.                  *)

LEMMA ProceedIsLocal ==
  ASSUME TypeOK, NEW t \in Threads, NEW u \in Threads \ {t}, NEW fs, Proceed(t, fs)
  PROVE  fr'[u] = fr[u]
BY DEF Proceed, TypeOK

LEMMA AddIsLocal ==
  ASSUME TypeOK, NEW t \in Threads, NEW u \in Threads \ {t}, AddRunnableJob(t)
  PROVE  fr'[u] = fr[u]
<1>1. PICK j \in fr[t].jobs : AddAborts(t, j) \/ AddHandsOver(t, j) \/ AddQueues(t, j)
  BY DEF AddRunnableJob
<1> QED
  BY <1>1, ProceedIsLocal DEF AddAborts, AddHandsOver, AddQueues

LEMMA WaitIsLocal ==
  ASSUME TypeOK, NEW t \in Threads, NEW u \in Threads \ {t},
         WaitForJob(t) \/ \E b \in BOOLEAN : WaitForWork(t, b)
  PROVE  fr'[u] = fr[u]
<1>1. ASSUME NEW types, NEW rest, TakePending(t, types, rest)
      PROVE  fr'[u] = fr[u]
  BY <1>1, ProceedIsLocal DEF TakePending
<1>2. ASSUME NEW types, NEW j, NEW f, Sleep(t, types, j, f)
      PROVE  fr'[u] = fr[u]
  BY <1>2, ProceedIsLocal DEF Sleep
<1>3. ASSUME NEW j, TakeSpecified(t, j)
      PROVE  fr'[u] = fr[u]
  BY <1>3, ProceedIsLocal DEF TakeSpecified
<1>4. ASSUME NEW b \in BOOLEAN, WaitForWork(t, b)
      PROVE  fr'[u] = fr[u]
  BY <1>1, <1>2, <1>4, ProceedIsLocal DEF WaitForWork
<1>5. ASSUME WaitForJob(t)
      PROVE  fr'[u] = fr[u]
  BY <1>1, <1>2, <1>3, <1>5, ProceedIsLocal DEF WaitForJob
<1> QED
  BY <1>4, <1>5

LEMMA QueueStepIsLocal ==
  ASSUME TypeOK, NEW t \in Threads, NEW u \in Threads \ {t}, QueueStep(t)
  PROVE  fr'[u] = fr[u]
<1>1. CASE CreatedJob(t) \/ CreateReturns(t)
  BY <1>1, ProceedIsLocal DEF CreatedJob, CreateReturns
<1>2. CASE JobDonePublish(t) \/ JobDoneWake(t)
  BY <1>2, ProceedIsLocal DEF JobDonePublish, JobDoneWake
<1>3. CASE AddRunnableJob(t)
  BY <1>3, AddIsLocal
<1>4. CASE AddMarksStarted(t) \/ RunEnter(t)
  BY <1>4, ProceedIsLocal DEF AddMarksStarted, RunEnter
<1>5. CASE \E ok \in BOOLEAN : RunnerReturns(t, ok)
  BY <1>5, ProceedIsLocal DEF RunnerReturns
<1>6. CASE WaitForJob(t)
  BY <1>6, WaitIsLocal
<1>7. CASE Awake(t)
  BY <1>7, ProceedIsLocal DEF Awake
<1>8. CASE CloseAbortsPending(t) \/ CloseUnlinks(t)
  BY <1>8, ProceedIsLocal DEF CloseAbortsPending, CloseUnlinks
<1>9. CASE CloseWakes(t) \/ CloseAwaitsAck(t)
  BY <1>9, ProceedIsLocal DEF CloseWakes, CloseAwaitsAck
<1> QED
  BY <1>1, <1>2, <1>3, <1>4, <1>5, <1>6, <1>7, <1>8, <1>9 DEF QueueStep

LEMMA ClientStepIsLocal ==
  ASSUME TypeOK, NEW t \in Threads, NEW u \in Threads \ {t}, ClientStep(t)
  PROVE  fr'[u] = fr[u]
<1>1. CASE \E j \in Jobs, c \in Types, D \in SUBSET Jobs : CreateJob(t, j, c, D)
  BY <1>1, ProceedIsLocal DEF CreateJob, Call
<1>2. CASE \E j \in Jobs : CreateSignaledJob(t, j) \/ CallWaitForJob(t, j)
  BY <1>2, ProceedIsLocal DEF CreateSignaledJob, CallWaitForJob, Call
<1>3. CASE \E j \in Jobs, ok \in BOOLEAN : SignalDone(t, j, ok)
  BY <1>3, ProceedIsLocal DEF SignalDone, Call
<1>4. CASE \E b \in BOOLEAN : WaitForWork(t, b)
  BY <1>4, WaitIsLocal
<1>5. CASE CallClose(t)
  BY <1>5, ProceedIsLocal DEF CallClose, Call
<1> QED
  BY <1>1, <1>2, <1>3, <1>4, <1>5 DEF ClientStep

\* The queue's own code does nothing for a thread that is outside of it.
LEMMA ClientIsOutside ==
  ASSUME NEW t \in Threads, fr[t].op = "client"
  PROVE  ~QueueStep(t)
BY DEF QueueStep, CreatedJob, CreateReturns, JobDonePublish, JobDoneWake, AddRunnableJob,
       AddMarksStarted, RunEnter, RunnerReturns, WaitForJob, Awake, CloseAbortsPending,
       CloseUnlinks, CloseWakes, CloseAwaitsAck

-----------------------------------------------------------------------------
(* The pool's steps.                                                       *)

\* A step of the queue in which t, if it is a worker, has not left its loop.
LEMMA WorkKept ==
  ASSUME PoolInv, NEW t \in Threads, ClientStep(t) \/ QueueStep(t), MayRun(t),
         t \in Workers => loop[t] # "exited"
  PROVE  /\ IInv'
         /\ \A u \in Workers : loop[u] = "exited" => fr'[u].op = "client"
<1>1. IInv'
  <2>1. Step(t)
    BY DEF Step
  <2> QED
    BY <2>1, NextInv DEF Next, PoolInv
<1>2. ASSUME NEW u \in Workers, loop[u] = "exited"
      PROVE  fr'[u].op = "client"
  <2>1. u \in Threads \ {t} /\ TypeOK
    BY <1>2, PoolAssumption DEF PoolInv, IInv
  <2>2. fr'[u] = fr[u]
    BY <2>1, QueueStepIsLocal, ClientStepIsLocal
  <2> QED
    BY <1>2, <2>2 DEF PoolInv
<1> QED
  BY <1>1, <1>2

LEMMA PoolInitInv ==
  ASSUME PoolInit
  PROVE  PoolInv
BY InitInv DEF PoolInit, PoolInv

LEMMA PoolNextInv ==
  ASSUME PoolInv, [PoolNext]_poolVars
  PROVE  PoolInv'
<1>1. ASSUME NEW t \in Threads, Queue(t)
      PROVE  PoolInv'
  <2>1. t \in Workers => loop[t] # "exited"
    BY <1>1, ClientIsOutside DEF PoolInv, Queue
  <2> QED
    BY <1>1, <2>1, WorkKept DEF Queue, PoolInv
<1>2. ASSUME NEW t \in Workers, WorkerWaits(t)
      PROVE  PoolInv'
  <2>1. t \in Threads /\ ClientStep(t)
    BY <1>2, PoolAssumption DEF WorkerWaits, ClientStep
  <2>2. IInv' /\ \A u \in Workers : loop[u] = "exited" => fr'[u].op = "client"
    BY <1>2, <2>1, WorkKept DEF WorkerWaits
  <2> QED
    BY <1>2, <2>2 DEF WorkerWaits, PoolInv
<1>3. ASSUME NEW t \in Workers, WorkerChecks(t)
      PROVE  PoolInv'
  <2>1. IInv'
    BY <1>3, StutterInv DEF WorkerChecks, PoolInv
  <2> QED
    BY <1>3, <2>1 DEF WorkerChecks, PoolInv, vars
<1>4. ASSUME JoinsWorkers
      PROVE  PoolInv'
  <2>1. IInv'
    BY <1>4, StutterInv DEF JoinsWorkers, PoolInv
  <2> QED
    BY <1>4, <2>1 DEF JoinsWorkers, PoolInv, vars
<1>5. ASSUME NEW t \in Threads, NEW j \in Jobs, Signals(t, j)
      PROVE  PoolInv'
  <2>1. ClientStep(t) /\ MayRun(t) /\ t \notin Workers
    BY <1>5, PoolAssumption DEF Signals, ClientStep
  <2> QED
    BY <1>5, <2>1, WorkKept DEF Signals, PoolInv
<1>6. ASSUME NEW t \in Threads, ClientCalls(t)
      PROVE  PoolInv'
  <2>1. ClientStep(t) /\ MayRun(t)
    BY <1>6 DEF ClientCalls, ClientCall, ClientStep
  <2>2. t \in Workers => loop[t] # "exited"
    BY <1>6 DEF ClientCalls, PoolInv
  <2> QED
    BY <1>6, <2>1, <2>2, WorkKept DEF ClientCalls, PoolInv
<1>7. CASE UNCHANGED poolVars
  <2>1. IInv'
    BY <1>7, StutterInv DEF poolVars, PoolInv
  <2> QED
    BY <1>7, <2>1 DEF poolVars, vars, PoolInv
<1> QED
  BY <1>1, <1>2, <1>3, <1>4, <1>5, <1>6, <1>7 DEF PoolNext, OwnStep

(* The invariant of the queue and of the worker loop holds in every        *)
(* behaviour of the pool, whatever clients call.                           *)
THEOREM ThreadPoolInv == PoolSpec => []PoolInv
<1>1. PoolInit => PoolInv
  BY PoolInitInv
<1>2. PoolInv /\ [PoolNext]_poolVars => PoolInv'
  BY PoolNextInv
<1> QED
  BY <1>1, <1>2, PTL DEF PoolSpec

(* The types of the pool's variables, and of the queue's in the pool.      *)
THEOREM ThreadPoolTypeOK == PoolSpec => []PoolTypeOK
<1>1. PoolInv => PoolTypeOK
  BY DEF PoolInv, IInv, PoolTypeOK
<1> QED
  BY <1>1, ThreadPoolInv, PTL

(* When PrivClose has joined its threads, none of them is in the queue or  *)
(* in a job, for any number of workers and any jobs, faults included: what *)
(* the destructor frees next is not in use.                                *)
THEOREM ThreadPoolNoWorkAfterJoin == PoolSpec => []NoWorkAfterJoin
<1>1. ASSUME PoolInv, joined, NEW t \in Workers
      PROVE  fr[t].op = "client" /\ stack[t] = <<>>
  <2>1. fr[t].op = "client" /\ StackOK(t)
    BY <1>1, PoolAssumption DEF PoolInv, IInv
  <2> QED
    BY <2>1 DEF StackOK, Base
<1>2. PoolInv => NoWorkAfterJoin
  BY <1>1 DEF NoWorkAfterJoin
<1> QED
  BY <1>2, ThreadPoolInv, PTL

(* In the pool, a job that is pending is never left by a worker that would *)
(* take it and sleeps, and no thread sleeps on a job that has completed.   *)
THEOREM ThreadPoolLosesNoWake == PoolSpec => [](NoLostWork /\ NoLostCompletion)
<1>1. PoolInv => NoLostWork /\ NoLostCompletion
  BY DEF PoolInv, IInv
<1> QED
  BY <1>1, ThreadPoolInv, PTL
===============================================================================
