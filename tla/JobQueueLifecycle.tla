---------------------------- MODULE JobQueueLifecycle ----------------------------
(* The job queue as an implementation of JobLifecycle.                     *)
EXTENDS JobQueue

(* The refinement mapping.                                                 *)
PhaseOf(j) ==
  CASE job[j].made = "no"                      -> "absent"
    [] job[j].made # "no" /\ job[j].completed /\ job[j].failed       -> "failed"
    [] job[j].made # "no" /\ job[j].completed /\ ~job[j].failed      -> "succeeded"
    [] job[j].made # "no" /\ ~job[j].completed /\ job[j].runs > 0    -> "running"
    [] OTHER                                   -> "waiting"

Lifecycle == INSTANCE JobLifecycle WITH
               phase <- [j \in Jobs |-> PhaseOf(j)],
               needs <- [j \in Jobs |-> job[j].deps],
               closing <- isClosing

(* The queue keeps the promise of JobLifecycle.                            *)
KeepsLifecycle == Lifecycle!Spec
==================================================================================
