------------------------------ MODULE MCJobQueue ------------------------------
(* The job queue on small instances.                                       *)
EXTENDS JobQueueLifecycle

CONSTANTS m, w1, w2, j1, j2, j3

\* One client thread and two workers, one of them for both types.
WorkTypesOf(t) == CASE t = w1 -> <<"IO", "Normal">> [] t = w2 -> <<"Normal">> [] OTHER -> <<>>
MCWorkTypes == [t \in Threads |-> WorkTypesOf(t)]
\* The client's thread runs normal jobs while it waits for one.
MCIdleTypes == [t \in Threads |-> IF t = m THEN <<"Normal">> ELSE <<>>]
JobSymmetry == Permutations(Jobs)

(* src/notes/jobs.txt says of a new job that it "will start when all       *)
(* dependencies are done, or abort if one of them fails": no job's runner  *)
(* has been started unless all its dependencies have succeeded.            *)
AbortsIfDependencyFails ==
  \A j \in Jobs : job[j].runs > 0 => \A d \in job[j].deps : job[d].completed /\ ~job[d].failed

(* The assertion of WaitForWorkOrJob about a thread that waits for a job   *)
(* that was already started: what wakes it is the job's completion.        *)
StartedJobWakesByCompletion ==
  \A t \in Threads : fr[t].op = "asleep" /\ ~fr[t].ok
                       => wti[t].disp \in {"Invalid", "CompletedByAnotherThread"}
===============================================================================
