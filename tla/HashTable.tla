------------------------------ MODULE HashTable ------------------------------
(***************************************************************************)
(* The hash table of rkit (include/rkit/Core/HashTable.h), of HashMap and  *)
(* HashSet.  A table has as many slots as its capacity, a power of two.    *)
(* Each slot is in a ring of slots, m_next, in which it stays when its     *)
(* entry is removed: rings are joined, and taken apart only by a rehash.   *)
(* An entry is in the ring of its main position, the slot its hash value   *)
(* stands for.  Values go where their keys go and are left out.            *)
(***************************************************************************)
EXTENDS Integers, FiniteSets, SequencesExt

CONSTANTS
  TableKeys,      \* the keys that are set and removed
  HashOf,         \* per key: its hash value
  FirstCapacity,  \* the smallest capacity: 16 in the code
  NoKey           \* what a slot without an entry holds

ASSUME HashTableAssumption == NoKey \notin TableKeys /\ HashOf \in [TableKeys -> Nat]

VARIABLES
  table,   \* m_capacity, m_next, the keys of the slots with m_used, m_count, m_freePosScan
  entries  \* the keys that have been set and not removed

tableVars == <<table, entries>>

EmptyTable(n) ==
  [cap |-> n, next |-> [p \in 0..(n - 1) |-> p], key |-> [p \in 0..(n - 1) |-> NoKey],
   count |-> 0, scan |-> 0]

GetMainPosition(t, k) == HashOf[k] % t.cap

GetOccupancyAt(t, p) == t.key[p] # NoKey

(* The slots a walk along m_next comes to, from p on.                      *)
Ring(t, p) ==
  LET walk[n \in 0..t.cap] == IF n = 0 THEN p ELSE t.next[walk[n - 1]]
  IN  {walk[n] : n \in 0..t.cap}

(* FindKeyPosition: where a walk from the main position finds the key.     *)
FindKeyPosition(t, k) ==
  IF t.cap = 0 THEN {} ELSE {p \in Ring(t, GetMainPosition(t, k)) : t.key[p] = k}

ReserveMainPosition(t, k, p) == [t EXCEPT !.key[p] = k, !.count = @ + 1]

\* Mutant of Joined: the free slot is taken out of the ring it was in.
JoinedAlone(t, main, free) ==
  [t.next EXCEPT ![free] = t.next[main], ![main] = free]

(* The ring of the free slot, in m_next, behind the main position.         *)
Joined(t, main, free) ==
  LET last == CHOOSE p \in Ring(t, free) : t.next[p] = free
  IN  IF main \in Ring(t, free) THEN t.next
      ELSE [t.next EXCEPT ![last] = t.next[main], ![main] = free]

(* The main position is taken.  Its entry stays if it is in its own main   *)
(* position, and is moved to the free slot otherwise.                      *)
ReserveNonMainPosition(t, k, main, free) ==
  LET other == t.key[main]
      stays == GetMainPosition(t, other) = main
  IN  [t EXCEPT !.key = IF stays THEN [@ EXCEPT ![free] = k]
                        ELSE [@ EXCEPT ![free] = other, ![main] = k],
                !.next = Joined(t, main, free), !.count = @ + 1]

(* CreatePositionForNewEntryNoResize: the next free slot behind the main   *)
(* position, around the end.                                               *)
AddedWithoutResize(t, k) ==
  LET main == GetMainPosition(t, k)
      steps == {n \in 1..(t.cap - 1) : ~GetOccupancyAt(t, (main + n) % t.cap)}
  IN  IF ~GetOccupancyAt(t, main) THEN ReserveMainPosition(t, k, main)
      ELSE ReserveNonMainPosition(t, k, main, (main + Min(steps)) % t.cap)

(* Resize: the entries go to the new table in the order of their slots.    *)
Resized(t, newCapacity) ==
  LET used == SelectSeq([i \in 1..t.cap |-> i - 1], LAMBDA p : GetOccupancyAt(t, p))
  IN  FoldLeft(LAMBDA new, p : AddedWithoutResize(new, t.key[p]), EmptyTable(newCapacity), used)

(* Rehash, to the smallest capacity with room for so many entries.         *)
Rehashed(t, minimum) ==
  Resized(t, CHOOSE n \in {FirstCapacity * 2^i : i \in 0..minimum} :
               /\ n >= minimum
               /\ n = FirstCapacity \/ n \div 2 < minimum)

(* CreatePositionForNewEntry: the first free slot that has not been looked *)
(* at since the last rehash.  Slots that are freed behind it wait for the  *)
(* next one, unless they are somebody's main position.                     *)
Added(t, k) ==
  LET main == GetMainPosition(t, k)
      free == {p \in t.scan..(t.cap - 1) : ~GetOccupancyAt(t, p)}
  IN  IF t.cap > 0 /\ ~GetOccupancyAt(t, main) THEN ReserveMainPosition(t, k, main)
      ELSE IF free = {} THEN AddedWithoutResize(Rehashed(t, t.count + 1), k)
      ELSE ReserveNonMainPosition([t EXCEPT !.scan = Min(free) + 1], k, main, Min(free))

(* Set of HashMap, Add of HashSet, of a key that is not there.             *)
SetKey(k) ==
  /\ FindKeyPosition(table, k) = {}
  /\ table' = Added(table, k)
  /\ entries' = entries \cup {k}

(* Remove: the slot stays in its ring.                                     *)
RemoveKey(k) ==
  /\ \E p \in FindKeyPosition(table, k) :
       table' = [table EXCEPT !.key[p] = NoKey, !.count = @ - 1]
  /\ entries' = entries \ {k}

ClearTable ==
  /\ table' = EmptyTable(0)
  /\ entries' = {}

HashTableInit == table = EmptyTable(0) /\ entries = {}

HashTableNext == ClearTable \/ \E k \in TableKeys : SetKey(k) \/ RemoveKey(k)

HashTableSpec == HashTableInit /\ [][HashTableNext]_tableVars

-----------------------------------------------------------------------------
HashTableTypeOK ==
  /\ table.next \in [0..(table.cap - 1) -> 0..(table.cap - 1)]
  /\ table.key \in [0..(table.cap - 1) -> TableKeys \cup {NoKey}]
  /\ table.scan \in 0..table.cap

(* A walk finds a key exactly if it has been set and not removed, and in   *)
(* one slot; it comes back to where it began, so that it ends; and the     *)
(* slots in use are as many as entries and as m_count, whatever has been   *)
(* removed, moved out of its slot and rehashed before.                     *)
TableFindsEntries ==
  /\ \A k \in TableKeys :
       Cardinality(FindKeyPosition(table, k)) = (IF k \in entries THEN 1 ELSE 0)
  /\ \A p \in DOMAIN table.next : p \in Ring(table, table.next[p])
  /\ {table.key[p] : p \in DOMAIN table.key} \ {NoKey} = entries
  /\ table.count = Cardinality({p \in DOMAIN table.key : GetOccupancyAt(table, p)})
  /\ table.count = Cardinality(entries)
=============================================================================
