------------------------------- MODULE Sorting -------------------------------
(***************************************************************************)
(* QuickSort and SmoothSort of rkit (include/rkit/Core/QuickSort.h,        *)
(* SmoothSort.h): partitions around the last element, and a smooth sort of *)
(* what is left at some depth, so that sorted input, the worst of a quick  *)
(* sort, still ends in n log n steps.                                      *)
(*                                                                         *)
(* An array is a sequence and an iterator the position before its element, *)
(* the first being 0.  The pair of words that says which heaps there are   *)
(* is one number: its high word is 0 in every array that fits in memory.   *)
(***************************************************************************)
EXTENDS Integers, FiniteSets, SequencesExt

CONSTANTS
  Inputs,      \* the arrays that are sorted
  DepthLimits  \* how deep partitions go before the smooth sort: 20 in the code

VARIABLES
  original,  \* the array before it is sorted
  array,     \* the array
  limit,     \* the depth limit
  isSorted   \* QuickSort has returned

sortVars == <<original, array, limit, isSorted>>

At(a, i) == a[i + 1]

SwapAt(a, i, j) == [a EXCEPT ![i + 1] = a[j + 1], ![j + 1] = a[i + 1]]

(* LeonardoSequence_t::kNumbers                                            *)
Leonardo[i \in Nat] == IF i < 2 THEN 1 ELSE Leonardo[i - 1] + Leonardo[i - 2] + 1

(* SmoothSortPairNTZ of a pair whose high word is 0: FindLowestSet answers *)
(* -1 if no bit is set.                                                    *)
PairNTZ(p) ==
  IF p = 1 THEN -1 ELSE CHOOSE n \in 0..p : (p - 1) % 2^n = 0 /\ (p - 1) \div 2^n % 2 = 1

(* SmoothSortSift: the element at the head of a heap of Leonardo[pshift]   *)
(* goes down to where neither child is larger.                             *)
RECURSIVE SmoothSortSift(_, _, _)
SmoothSortSift(a, head, pshift) ==
  LET rt == head - 1
      lf == head - 1 - Leonardo[pshift - 2]
  IN  IF pshift <= 1 \/ (At(a, head) >= At(a, lf) /\ At(a, head) >= At(a, rt)) THEN a
      ELSE IF At(a, lf) >= At(a, rt) THEN SmoothSortSift(SwapAt(a, lf, head), lf, pshift - 1)
      ELSE SmoothSortSift(SwapAt(a, rt, head), rt, pshift - 2)

(* SmoothSortTrinkle: it goes to the heads of the heaps before as long as  *)
(* they are larger, and down from there.                                   *)
RECURSIVE SmoothSortTrinkle(_, _, _, _, _)
SmoothSortTrinkle(a, head, p, pshift, trusty) ==
  LET stepson == head - Leonardo[pshift]
      trail == PairNTZ(p)
      lf == head - 1 - Leonardo[pshift - 2]
      staysForChild == /\ ~trusty /\ pshift > 1
                       /\ At(a, head - 1) >= At(a, stepson) \/ At(a, lf) >= At(a, stepson)
  IN  IF p # 1 /\ At(a, head) < At(a, stepson) /\ ~staysForChild
      THEN SmoothSortTrinkle(SwapAt(a, head, stepson), stepson, p \div 2^trail, pshift + trail, FALSE)
      ELSE IF trusty THEN a ELSE SmoothSortSift(a, head, pshift)

WithLowBit(p) == IF p % 2 = 1 THEN p ELSE p + 1

\* Mutant of IsLast: a heap that takes all that is left is not the last.
IsSurelyLast(pshift, left) == Leonardo[pshift - 1] > left

\* Whether the heap at the head becomes part of no other one.
IsLast(pshift, left) == Leonardo[pshift - 1] >= left

(* A pass of the first loop of SmoothSortImpl: the element at the head     *)
(* joins two heaps or is one of its own.                                   *)
Heaped(s, head, high) ==
  LET sifted == SmoothSortSift(s.a, head, s.pshift)
  IN  IF s.p % 4 = 3
      THEN [a |-> sifted, p |-> WithLowBit(s.p \div 4), pshift |-> s.pshift + 2]
      ELSE [a |-> IF IsLast(s.pshift, high - head) THEN SmoothSortTrinkle(s.a, head, s.p, s.pshift, FALSE) ELSE sifted,
            p |-> WithLowBit(IF s.pshift = 1 THEN s.p * 2 ELSE s.p * 2^(s.pshift - 1)),
            pshift |-> IF s.pshift = 1 THEN 0 ELSE 1]

(* A pass of the last loop: the head, the largest element left, stays, and *)
(* its children become heads.  The pair is odd here.                       *)
Dequeued(s, head) ==
  LET trail == PairNTZ(s.p)
      left  == SmoothSortTrinkle(s.a, head - Leonardo[s.pshift - 2], s.p * 2 - 1, s.pshift - 1, TRUE)
      p     == WithLowBit((s.p * 2 - 1) * 2)
  IN  IF s.pshift <= 1
      THEN [s EXCEPT !.p = @ \div 2^trail, !.pshift = @ + trail]
      ELSE [a |-> SmoothSortTrinkle(left, head, p, s.pshift - 2, TRUE), p |-> p, pshift |-> s.pshift - 2]

RECURSIVE DequeuedAll(_, _)
DequeuedAll(s, head) ==
  IF s.pshift = 1 /\ s.p = 1 THEN s.a ELSE DequeuedAll(Dequeued(s, head - 1), head - 1)

(* SmoothSortImpl of the elements from begin on and before end.            *)
SmoothSortImpl(a, begin, end) ==
  LET high  == end - 1
      heads == [i \in 1..(high - begin) |-> begin + i - 1]
      heaps == FoldLeft(LAMBDA s, head : Heaped(s, head, high), [a |-> a, p |-> 1, pshift |-> 1], heads)
  IN  DequeuedAll([heaps EXCEPT !.a = SmoothSortTrinkle(@, high, heaps.p, heaps.pshift, FALSE)], high)

(* QuickSortPartition: what is not larger than the last element goes to    *)
(* the front, and that element behind it.                                  *)
QuickSortPartition(a, begin, end) ==
  LET pivot == end - 1
      Kept(s, scan) == IF At(s.a, pivot) < At(s.a, scan) THEN s
                       ELSE [a |-> SwapAt(s.a, s.newPivot, scan), newPivot |-> s.newPivot + 1]
      kept == FoldLeft(Kept, [a |-> a, newPivot |-> begin],
                       [i \in 1..(pivot - begin) |-> begin + i - 1])
  IN  [kept EXCEPT !.a = SwapAt(@, kept.newPivot, pivot)]

RECURSIVE QuickSortRecursive(_, _, _, _)
QuickSortRecursive(a, begin, end, depth) ==
  LET part == QuickSortPartition(a, begin, end)
  IN  IF begin = end THEN a
      ELSE IF depth > limit THEN SmoothSortImpl(a, begin, end)
      ELSE QuickSortRecursive(QuickSortRecursive(part.a, begin, part.newPivot, depth + 1),
                              part.newPivot + 1, end, depth + 1)

QuickSort ==
  /\ ~isSorted
  /\ array' = QuickSortRecursive(array, 0, Len(array), 0)
  /\ isSorted' = TRUE
  /\ UNCHANGED <<original, limit>>

SortingInit ==
  /\ original \in Inputs /\ limit \in DepthLimits
  /\ array = original /\ isSorted = FALSE

SortingNext == QuickSort

SortingSpec == SortingInit /\ [][SortingNext]_sortVars

-----------------------------------------------------------------------------
Count(a, v) == Cardinality({i \in DOMAIN a : a[i] = v})

(* What QuickSort returns has the elements it was given, in order, however *)
(* deep the partitions go before the smooth sort takes over.               *)
SortedArrayIsInOrder ==
  isSorted =>
    /\ \A i \in 1..(Len(array) - 1) : array[i] <= array[i + 1]
    /\ \A v \in ToSet(original) : Count(array, v) = Count(original, v)
=============================================================================
