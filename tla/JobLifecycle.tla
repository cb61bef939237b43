----------------------------- MODULE JobLifecycle -----------------------------
(***************************************************************************)
(* What the job queue promises about a job, whatever threads and lists it  *)
(* is made of: src/notes/jobs.txt and RKit/Core/JobQueue.h.  A job starts  *)
(* at most once, when all its dependencies have succeeded; it is aborted   *)
(* without having run only because a dependency failed or the queue is     *)
(* closing; what it ended with never changes.                              *)
(***************************************************************************)
CONSTANTS Jobs

VARIABLES phase,   \* of each job
          needs,   \* its dependencies
          closing

lifecycleVars == <<phase, needs, closing>>

Phases == {"absent", "waiting", "running", "succeeded", "failed"}
Ended == {"succeeded", "failed"}

Init ==
  /\ phase = [j \in Jobs |-> "absent"]
  /\ needs = [j \in Jobs |-> {}]
  /\ closing = FALSE

Create(j, D) ==
  /\ phase[j] = "absent"
  /\ \A d \in D : phase[d] # "absent"
  /\ phase' = [phase EXCEPT ![j] = "waiting"]
  /\ needs' = [needs EXCEPT ![j] = D]
  /\ UNCHANGED closing

Start(j) ==
  /\ phase[j] = "waiting"
  /\ \A d \in needs[j] : phase[d] = "succeeded"
  /\ phase' = [phase EXCEPT ![j] = "running"]
  /\ UNCHANGED <<needs, closing>>

Finish(j, how) ==
  /\ phase[j] = "running"
  /\ phase' = [phase EXCEPT ![j] = how]
  /\ UNCHANGED <<needs, closing>>

(* A placeholder job has no dependencies and ends as its signaler says.    *)
Signal(j, how) ==
  /\ phase[j] = "waiting" /\ needs[j] = {}
  /\ phase' = [phase EXCEPT ![j] = how]
  /\ UNCHANGED <<needs, closing>>

Abort(j) ==
  /\ phase[j] = "waiting"
  /\ closing \/ \E d \in needs[j] : phase[d] = "failed"
  /\ phase' = [phase EXCEPT ![j] = "failed"]
  /\ UNCHANGED <<needs, closing>>

Close == closing' = TRUE /\ UNCHANGED <<phase, needs>>

Next ==
  \/ \E j \in Jobs : \/ \E D \in SUBSET Jobs : Create(j, D)
                     \/ Start(j) \/ Abort(j)
                     \/ \E how \in Ended : Finish(j, how) \/ Signal(j, how)
  \/ Close

Spec == Init /\ [][Next]_lifecycleVars
===============================================================================
