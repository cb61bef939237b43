----------------------------- MODULE Containers -----------------------------
(***************************************************************************)
(* Three parts of rkit's library that share no state: the ring buffer, the *)
(* hash table and sorting.  Each is explored alone.                        *)
(***************************************************************************)
EXTENDS ResizableRingBuffer, HashTable, Sorting

CONSTANTS x1, x2, x3, x4, x5

\* Two keys of the same main position, one of the slot behind it, one that
\* moves to another slot in a larger table, and one of the last slot.
MCHashOf == (x1 :> 0) @@ (x2 :> 0) @@ (x3 :> 1) @@ (x4 :> 4) @@ (x5 :> 3)

\* All short arrays of three values, longer ones of two, and sorted ones.
MCInputs ==
  UNION {[1..n -> 1..3] : n \in 0..9} \cup UNION {[1..n -> 0..1] : n \in 10..13}
  \cup {[i \in 1..n |-> i] : n \in 0..24}

VARIABLE part  \* the part that is explored

containerVars == <<part, rbVars, tableVars, sortVars>>

ContainersInit ==
  /\ part \in {"ring buffer", "hash table", "sorting"}
  /\ Init /\ HashTableInit
  /\ IF part = "sorting" THEN SortingInit
     ELSE original = <<>> /\ array = <<>> /\ limit = 0 /\ isSorted = FALSE

ContainersNext ==
  /\ UNCHANGED part
  /\ \/ part = "ring buffer" /\ Next /\ UNCHANGED <<tableVars, sortVars>>
     \/ part = "hash table" /\ HashTableNext /\ UNCHANGED <<rbVars, sortVars>>
     \/ part = "sorting" /\ SortingNext /\ UNCHANGED <<rbVars, tableVars>>

ContainersSpec == ContainersInit /\ [][ContainersNext]_containerVars

(* The types of the tables and rings.                                      *)
ContainersTypeOK == RBTypeOK /\ HashTableTypeOK
=============================================================================
