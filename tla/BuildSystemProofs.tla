-------------------------- MODULE BuildSystemProofs --------------------------
(***************************************************************************)
(* What holds of the incremental build for any nodes and sources, whatever *)
(* the texts and the sizes of the instances:                               *)
(*   - the cache file is whole after a kill at any step (CacheInv);        *)
(*   - the state keeps its types (TypesInv);                               *)
(*   - the check of the graph visits every node once, on a stack whose     *)
(*     nodes depend on one another, and completes a node after its         *)
(*     dependencies (GraphInv);                                            *)
(*   - the strata of a graph without circles order it, and the compile     *)
(*     loop has the nodes behind it up to date (CompileInv);               *)
(*   - a build reports a circle exactly where there is one;                *)
(*   - what nodes record of files is about the files they may read and     *)
(*     write, and what the process knows of its own files is true          *)
(*     (RecordInv);                                                        *)
(*   - content is kept, under the ID of what it is (ContentOK).            *)
(***************************************************************************)
EXTENDS BuildSystem, TLAPS, FiniteSetTheorems, WellFoundedInduction

(* Induction over a set of numbers.                                        *)
NumbersBelow == OpToRel(<, Nat)

LEMMA SetInduction ==
  ASSUME NEW T \in SUBSET Nat, 0 \in T, \A n \in T : n + 1 \in T
  PROVE  T = Nat
<1>1. SUFFICES ASSUME Nat \ T # {} PROVE FALSE
  OBVIOUS
<1>2. IsWellFoundedOn(NumbersBelow, Nat)
  BY NatLessThanWellFounded DEF NumbersBelow
<1>3. PICK x \in Nat \ T : \A y \in Nat \ T : ~(<<y, x>> \in NumbersBelow)
  BY <1>1, <1>2, WFMin
<1>4. x # 0 /\ x - 1 \in Nat /\ x - 1 < x
  BY <1>3
<1>5. <<x - 1, x>> \in NumbersBelow
  BY <1>4 DEF NumbersBelow, OpToRel
<1>6. x - 1 \in T /\ (x - 1) + 1 = x
  BY <1>3, <1>4, <1>5
<1> QED
  BY <1>3, <1>6

LEMMA LeastNumber ==
  ASSUME NEW S \in SUBSET Nat, S # {}
  PROVE  Min(S) \in S /\ \A k \in S : Min(S) <= k
<1>1. IsWellFoundedOn(NumbersBelow, Nat)
  BY NatLessThanWellFounded DEF NumbersBelow
<1>2. PICK x \in S : \A y \in S : ~(<<y, x>> \in NumbersBelow)
  BY <1>1, WFMin
<1>3. ASSUME NEW y \in S
      PROVE  x <= y
  <2>1. SUFFICES ASSUME y < x PROVE FALSE
    OBVIOUS
  <2>2. <<y, x>> \in NumbersBelow
    BY <2>1 DEF NumbersBelow, OpToRel
  <2> QED
    BY <1>2, <2>2
<1> QED
  BY <1>2, <1>3 DEF Min

LEMMA GreatestNumber ==
  ASSUME NEW N \in Nat, NEW S \in SUBSET (0..N), S # {}
  PROVE  Max(S) \in S /\ \A k \in S : k <= Max(S)
<1> DEFINE T == {N - k : k \in S}
<1>1. T \in SUBSET Nat /\ T # {}
  <2>1. \A k \in S : N - k \in Nat
    OBVIOUS
  <2> QED
    BY <2>1
<1>2. Min(T) \in T /\ \A k \in T : Min(T) <= k
  BY <1>1, LeastNumber
<1>3. PICK m \in S : Min(T) = N - m
  BY <1>2
<1>4. \A k \in S : k <= m
  <2> TAKE k \in S
  <2>1. Min(T) <= N - k
    BY <1>2
  <2> QED
    BY <1>3, <2>1
<1> QED
  BY <1>4 DEF Max

(* A function that is defined by recursion on numbers, its step being      *)
(* given as a function.                                                    *)
StepOf(N, X) == [(1..N) \X X -> X]
Repeats(f, N, first, step) == f[0] = first /\ \A i \in 1..N : f[i] = step[<<i, f[i - 1]>>]

LEMMA Recursion ==
  ASSUME NEW X, NEW N \in Nat, NEW first \in X, NEW step \in StepOf(N, X)
  PROVE  \E f \in [0..N -> X] : Repeats(f, N, first, step)
<1> DEFINE T == {k \in Nat : k <= N => \E f \in [0..k -> X] : Repeats(f, k, first, step)}
<1>1. 0 \in T
  <2>1. [i \in 0..0 |-> first] \in [0..0 -> X] /\ Repeats([i \in 0..0 |-> first], 0, first, step)
    BY DEF Repeats
  <2> QED
    BY <2>1
<1>2. \A k \in T : k + 1 \in T
  <2> SUFFICES ASSUME NEW k \in T, k + 1 <= N
               PROVE  \E f \in [0..(k + 1) -> X] : Repeats(f, k + 1, first, step)
    OBVIOUS
  <2>1. PICK f \in [0..k -> X] : Repeats(f, k, first, step)
    OBVIOUS
  <2> DEFINE g == [i \in 0..(k + 1) |-> IF i = k + 1 THEN step[<<k + 1, f[k]>>] ELSE f[i]]
  <2>2. k \in Nat /\ k + 1 \in 1..N
    OBVIOUS
  <2>3. step[<<k + 1, f[k]>>] \in X
    BY <2>1, <2>2 DEF StepOf
  <2>4. g \in [0..(k + 1) -> X]
    BY <2>1, <2>3
  <2>5. g[0] = first
    BY <2>1, <2>2 DEF Repeats
  <2>6. ASSUME NEW i \in 1..(k + 1)
        PROVE  g[i] = step[<<i, g[i - 1]>>]
    <3>1. CASE i = k + 1
      <4>1. i - 1 = k /\ g[i - 1] = f[k] /\ g[i] = step[<<k + 1, f[k]>>]
        BY <2>2, <3>1
      <4> QED
        BY <3>1, <4>1
    <3>2. CASE i \in 1..k
      <4>1. i - 1 \in 0..k /\ g[i - 1] = f[i - 1] /\ g[i] = f[i]
        BY <2>2, <3>2
      <4> QED
        BY <2>1, <3>2, <4>1 DEF Repeats
    <3> QED
      BY <3>1, <3>2
  <2>7. Repeats(g, k + 1, first, step)
    <3> HIDE DEF g
    <3> QED
      BY <2>5, <2>6 DEF Repeats
  <2> QED
    BY <2>4, <2>7
<1>3. T = Nat
  <2> HIDE DEF T
  <2> QED
    BY <1>1, <1>2, SetInduction DEF T
<1>4. N \in T
  BY <1>3
<1> QED
  BY <1>4

LEMMA AppendElements ==
  ASSUME NEW A, NEW s \in Seq(A), NEW x \in A
  PROVE  ToSet(Append(s, x)) = ToSet(s) \cup {x}
<1>1. /\ DOMAIN s = 1..Len(s) /\ DOMAIN Append(s, x) = 1..(Len(s) + 1) /\ Len(s) \in Nat
      /\ \A i \in 1..Len(s) : Append(s, x)[i] = s[i]
      /\ Append(s, x)[Len(s) + 1] = x
  OBVIOUS
<1>2. ToSet(Append(s, x)) \subseteq ToSet(s) \cup {x}
  BY <1>1 DEF ToSet
<1>3. x \in ToSet(Append(s, x))
  BY <1>1 DEF ToSet
<1>4. ToSet(s) \subseteq ToSet(Append(s, x))
  BY <1>1 DEF ToSet
<1> QED
  BY <1>2, <1>3, <1>4

-----------------------------------------------------------------------------
(* Among keeps the elements of a sequence that are in S, and no others.    *)
Adds(f, s, S, i) == f[i] = IF s[i] \in S THEN Append(f[i - 1], s[i]) ELSE f[i - 1]
Filters(f, s, S) == f[0] = <<>> /\ \A i \in 1..Len(s) : Adds(f, s, S, i)

LEMMA AmongSteps ==
  ASSUME NEW A, NEW s \in Seq(A), NEW S
  PROVE  \E f \in [0..Len(s) -> Seq(A)] : Filters(f, s, S) /\ Among(s, S) = f[Len(s)]
<1> DEFINE N == Len(s)
           step == [p \in (1..N) \X Seq(A) |->
                      IF s[p[1]] \in S THEN Append(p[2], s[p[1]]) ELSE p[2]]
           Is(f) == f = [i \in 0..N |->
                           IF i = 0 THEN <<>>
                           ELSE IF s[i] \in S THEN Append(f[i - 1], s[i]) ELSE f[i - 1]]
<1>1. /\ N \in Nat /\ <<>> \in Seq(A) /\ \A i \in 1..N : s[i] \in A
      /\ \A i \in 0..N : i # 0 => i \in 1..N
      /\ \A i \in 1..N : i - 1 \in 0..N /\ i \in 0..N
      /\ 0 \in 0..N /\ N \in 0..N /\ \A i \in 0..N : i \in Nat
  OBVIOUS
<1>2. step \in StepOf(N, Seq(A))
  BY <1>1 DEF StepOf
<1>3. PICK g \in [0..N -> Seq(A)] : Repeats(g, N, <<>>, step)
  <2> HIDE DEF step, N
  <2> QED
    BY <1>1, <1>2, Recursion
<1>4. ASSUME NEW i \in 1..N
      PROVE  Adds(g, s, S, i)
  <2>1. g[i - 1] \in Seq(A) /\ g[i] = step[<<i, g[i - 1]>>]
    BY <1>1, <1>3 DEF Repeats
  <2> QED
    BY <2>1 DEF Adds
<1>5. Is(g)
  <2> HIDE DEF N
  <2>1. g = [i \in 0..N |-> g[i]]
    BY <1>3
  <2>2. g[0] = <<>>
    BY <1>3 DEF Repeats
  <2> QED
    BY <1>1, <1>4, <2>1, <2>2 DEF Adds
<1> DEFINE f == CHOOSE h : Is(h)
<1>6. Is(f)
  BY <1>5
<1>7. Among(s, S) = f[N]
  BY DEF Among
<1> HIDE DEF f, step
<1>8. f[0] = <<>> /\ \A i \in 1..N : Adds(f, s, S, i)
  <2> HIDE DEF N
  <2>1. \A i \in 0..N : f[i] = IF i = 0 THEN <<>>
                               ELSE IF s[i] \in S THEN Append(f[i - 1], s[i]) ELSE f[i - 1]
    BY <1>6
  <2> QED
    BY <1>1, <2>1 DEF Adds
<1> HIDE DEF N
<1> DEFINE T == {k \in Nat : k <= N => f[k] = g[k]}
<1>9. T = Nat
  <2>1. 0 \in T
    BY <1>3, <1>8 DEF Repeats
  <2>2. \A k \in T : k + 1 \in T
    <3> SUFFICES ASSUME NEW k \in T, k + 1 <= N
                 PROVE  f[k + 1] = g[k + 1]
      OBVIOUS
    <3>1. k + 1 \in 1..N /\ (k + 1) - 1 = k /\ f[k] = g[k]
      BY <1>1
    <3> HIDE DEF T
    <3>2. Adds(f, s, S, k + 1) /\ Adds(g, s, S, k + 1)
      BY <1>4, <1>8, <3>1
    <3> QED
      BY <3>1, <3>2 DEF Adds
  <2> HIDE DEF T
  <2> QED
    BY <2>1, <2>2, SetInduction DEF T
<1>10. N \in T
  BY <1>1, <1>9
<1>11. Among(s, S) = g[N]
  BY <1>7, <1>10
<1>12. g[0] = <<>>
  BY <1>3 DEF Repeats
<1>13. Filters(g, s, S)
  BY <1>4, <1>12 DEF Filters, N
<1> QED
  BY <1>3, <1>11, <1>13 DEF N

LEMMA AmongElements ==
  ASSUME NEW A, NEW s \in Seq(A), NEW S
  PROVE  Among(s, S) \in Seq(A) /\ ToSet(Among(s, S)) = ToSet(s) \cap S
<1> DEFINE N == Len(s)
           upTo(k) == {s[i] : i \in 1..k}
<1>1. N \in Nat /\ N \in 0..N /\ ToSet(s) = upTo(N) /\ \A i \in 1..N : s[i] \in A
  BY DEF ToSet
<1>2. PICK f \in [0..N -> Seq(A)] : Filters(f, s, S) /\ Among(s, S) = f[N]
  BY AmongSteps
<1> DEFINE T == {k \in Nat : k <= N => ToSet(f[k]) = upTo(k) \cap S}
<1>3. 0 \in T
  BY <1>2 DEF ToSet, Filters
<1>4. ASSUME NEW k \in T
      PROVE  k + 1 \in T
  <2>1. SUFFICES ASSUME k + 1 <= N
                 PROVE  ToSet(f[k + 1]) = upTo(k + 1) \cap S
    OBVIOUS
  <2>2. k \in Nat /\ k \in 0..N /\ k + 1 \in 1..N /\ (k + 1) - 1 = k
    BY <1>1, <2>1
  <2> HIDE DEF N
  <2>3. ToSet(f[k]) = upTo(k) \cap S
    <3>1. k <= N
      BY <1>1, <2>1, <2>2
    <3> HIDE DEF upTo
    <3> QED
      BY <3>1
  <2> HIDE DEF T
  <2>4. f[k] \in Seq(A) /\ s[k + 1] \in A
    BY <1>1, <1>2, <2>2
  <2>5. f[k + 1] = IF s[k + 1] \in S THEN Append(f[k], s[k + 1]) ELSE f[k]
    BY <1>2, <2>2 DEF Filters, Adds, N
  <2>6. upTo(k + 1) = upTo(k) \cup {s[k + 1]}
    BY <2>2
  <2>7. ToSet(Append(f[k], s[k + 1])) = ToSet(f[k]) \cup {s[k + 1]}
    BY <2>4, AppendElements
  <2> QED
    BY <2>3, <2>5, <2>6, <2>7
<1>5. T = Nat
  <2> HIDE DEF T
  <2> QED
    BY <1>3, <1>4, SetInduction DEF T
<1>6. ToSet(f[N]) = upTo(N) \cap S
  <2>1. N \in T
    BY <1>1, <1>5
  <2> QED
    BY <1>1, <2>1
<1> QED
  BY <1>1, <1>2, <1>6

(* FoundIn starts with the root and goes on to what was not found before.  *)
LEMMA FoundInSteps ==
  ASSUME \A n \in Nodes : ToSet(node[n].deps) \subseteq Nodes
  PROVE  /\ DOMAIN FoundIn = 0..Cardinality(Nodes) /\ Cardinality(Nodes) \in Nat
         /\ FoundIn[0] = {Root}
         /\ \A i \in 1..Cardinality(Nodes) :
              FoundIn[i] = UNION {ToSet(node[n].deps) : n \in FoundIn[i - 1]}
<1> DEFINE N == Cardinality(Nodes)
           Beyond(S) == UNION {ToSet(node[n].deps) : n \in S}
           step == [p \in (1..N) \X (SUBSET Nodes) |-> Beyond(p[2])]
           Is(f) == f = [i \in 0..N |->
                           IF i = 0 THEN {Root}
                           ELSE UNION {ToSet(node[n].deps) : n \in f[i - 1]}]
<1>1. N \in Nat /\ {Root} \in SUBSET Nodes
  BY BuildSystemAssumption, FS_CardinalityType DEF Nodes
<1>2. step \in StepOf(N, SUBSET Nodes)
  BY DEF StepOf
<1>3. PICK g \in [0..N -> SUBSET Nodes] : Repeats(g, N, {Root}, step)
  <2> HIDE DEF step, N
  <2> QED
    BY <1>1, <1>2, Recursion
<1>4. ASSUME NEW i \in 1..N
      PROVE  g[i] = Beyond(g[i - 1])
  <2> HIDE DEF N
  <2>1. i \in 1..N /\ i - 1 \in 0..N
    BY <1>1
  <2>2. g[i - 1] \in SUBSET Nodes /\ g[i] = step[<<i, g[i - 1]>>]
    BY <1>3, <2>1 DEF Repeats
  <2> QED
    BY <2>1, <2>2
<1> HIDE DEF N
<1>5. Is(g)
  <2>1. g = [i \in 0..N |-> g[i]]
    BY <1>3
  <2>2. g[0] = {Root} /\ \A i \in 0..N : i # 0 => i \in 1..N
    BY <1>1, <1>3 DEF Repeats
  <2> QED
    BY <1>4, <2>1, <2>2
<1>6. Is(FoundIn)
  BY <1>5 DEF FoundIn, N
<1>7. DOMAIN FoundIn = 0..N
  BY <1>6
<1>8. FoundIn[0] = {Root}
  BY <1>1, <1>6
<1>9. \A i \in 1..N : FoundIn[i] = UNION {ToSet(node[n].deps) : n \in FoundIn[i - 1]}
  <2> TAKE i \in 1..N
  <2>1. i \in 0..N /\ i # 0
    BY <1>1
  <2> QED
    BY <1>6, <2>1
<1> QED
  BY <1>1, <1>7, <1>8, <1>9 DEF N

(* A strict total order B of a finite set can be listed.                   *)
LEMMA OrderIsListed ==
  ASSUME NEW R, IsFiniteSet(R), NEW B,
         \A x \in R : <<x, x>> \notin B,
         \A x, y, z \in R : <<x, y>> \in B /\ <<y, z>> \in B => <<x, z>> \in B,
         \A x, y \in R : x = y \/ <<x, y>> \in B \/ <<y, x>> \in B
  PROVE  \E s \in [1..Cardinality(R) -> R] :
           \A i, j \in 1..Cardinality(R) : i < j => <<s[i], s[j]>> \in B
<1> DEFINE L == Cardinality(R)
           Under(x) == {y \in R : <<y, x>> \in B}
           rank == [x \in R |-> Cardinality(Under(x)) + 1]
<1>1. L \in Nat /\ IsFiniteSet(1..L) /\ Cardinality(1..L) = L
  <2>1. L \in Nat
    BY FS_CardinalityType
  <2> HIDE DEF L
  <2> QED
    BY <2>1, FS_Interval
<1>2. ASSUME NEW x \in R
      PROVE  IsFiniteSet(Under(x)) /\ Cardinality(Under(x)) \in Nat /\ Cardinality(Under(x)) < L
  <2>1. Under(x) \in SUBSET R /\ Under(x) # R
    OBVIOUS
  <2> HIDE DEF Under
  <2>2. IsFiniteSet(Under(x)) /\ Cardinality(Under(x)) <= L /\ L # Cardinality(Under(x))
    BY <2>1, FS_Subset
  <2>3. Cardinality(Under(x)) \in Nat
    BY <2>2, FS_CardinalityType
  <2> QED
    BY <1>1, <2>2, <2>3
<1>3. ASSUME NEW x \in R, NEW y \in R, <<x, y>> \in B
      PROVE  Cardinality(Under(x)) < Cardinality(Under(y))
  <2>1. Under(x) \in SUBSET Under(y)
    BY <1>3
  <2>2. x \in Under(y) /\ x \notin Under(x)
    BY <1>3
  <2>3. IsFiniteSet(Under(y)) /\ Cardinality(Under(y)) \in Nat /\ Cardinality(Under(x)) \in Nat
    BY <1>2
  <2> HIDE DEF Under
  <2>4. Cardinality(Under(x)) <= Cardinality(Under(y)) /\ Cardinality(Under(y)) # Cardinality(Under(x))
    BY <2>1, <2>2, <2>3, FS_Subset
  <2> QED
    BY <2>3, <2>4
<1> HIDE DEF Under, L
<1>4. rank \in [R -> 1..L]
  BY <1>1, <1>2
<1>5. ASSUME NEW x \in R, NEW y \in R, rank[x] = rank[y]
      PROVE  x = y
  <2>1. /\ Cardinality(Under(x)) \in Nat /\ Cardinality(Under(y)) \in Nat
        /\ Cardinality(Under(x)) + 1 = Cardinality(Under(y)) + 1
    BY <1>2, <1>5
  <2>2. ~(<<x, y>> \in B) /\ ~(<<y, x>> \in B)
    BY <1>3, <2>1
  <2> QED
    BY <2>2
<1> HIDE DEF rank
<1>6. \A i \in 1..L : \E x \in R : rank[x] = i
  <2>1. IsFiniteSet(1..L) /\ Cardinality(R) = Cardinality(1..L)
    BY <1>1 DEF L
  <2>2. rank \in Injection(R, 1..L)
    BY <1>4, <1>5 DEF Injection, IsInjective
  <2>3. rank \in Surjection(R, 1..L)
    BY <2>1, <2>2, FS_Injection
  <2> QED
    BY <2>3 DEF Surjection
<1> DEFINE s == [i \in 1..L |-> CHOOSE x \in R : rank[x] = i]
<1>7. \A i \in 1..L : s[i] \in R /\ rank[s[i]] = i
  BY <1>6
<1>8. s \in [1..L -> R]
  BY <1>6
<1> HIDE DEF s
<1>9. ASSUME NEW i \in 1..L, NEW j \in 1..L, i < j
      PROVE  <<s[i], s[j]>> \in B
  <2>1. s[i] \in R /\ s[j] \in R /\ rank[s[i]] = i /\ rank[s[j]] = j
    BY <1>7
  <2>2. s[i] # s[j]
    BY <1>1, <1>9, <2>1
  <2>3. CASE <<s[j], s[i]>> \in B
    <3>1. Cardinality(Under(s[j])) < Cardinality(Under(s[i]))
      BY <1>3, <2>1, <2>3
    <3>2. rank[s[j]] < rank[s[i]]
      BY <1>2, <2>1, <3>1 DEF rank
    <3> QED
      BY <1>1, <1>9, <2>1, <3>2
  <2> QED
    BY <2>1, <2>2, <2>3
<1> QED
  BY <1>8, <1>9 DEF L

(* Conversely, a list in strict order has no element twice, and has all of *)
(* them if it is long enough.                                              *)
Lists(s, R, B) ==
  /\ IsFiniteSet(R) /\ \A x \in R : <<x, x>> \notin B
  /\ s \in [1..Cardinality(R) -> R]
  /\ \A i, j \in 1..Cardinality(R) : i < j => <<s[i], s[j]>> \in B

ListsOnce(s, R) ==
  /\ \A i, j \in 1..Cardinality(R) : s[i] = s[j] => i = j
  /\ \A x \in R : \E i \in 1..Cardinality(R) : s[i] = x

LEMMA ListIsComplete ==
  ASSUME NEW R, NEW B, NEW s, Lists(s, R, B)
  PROVE  ListsOnce(s, R)
<1> USE DEF Lists
<1> DEFINE L == Cardinality(R)
<1>1. L \in Nat
  BY FS_CardinalityType
<1> HIDE DEF L
<1>2. ASSUME NEW i \in 1..L, NEW j \in 1..L, s[i] = s[j]
      PROVE  i = j
  <2>1. s[i] \in R
    BY DEF L
  <2>2. ~(i < j) /\ ~(j < i)
    BY <1>2, <2>1 DEF L
  <2> QED
    BY <1>1, <2>2
<1>3. Cardinality(1..L) = Cardinality(R)
  BY <1>1, FS_Interval DEF L
<1>4. s \in [1..L -> R]
  BY DEF L
<1>5. \A x \in R : \E i \in 1..L : s[i] = x
  <2>1. s \in Injection(1..L, R)
    BY <1>2, <1>4 DEF Injection, IsInjective
  <2>2. s \in Surjection(1..L, R)
    BY <1>3, <2>1, FS_Injection
  <2> QED
    BY <2>2 DEF Surjection
<1> QED
  BY <1>2, <1>5 DEF L, ListsOnce

(* A list without duplicates is as long as its set of elements is large.   *)
LEMMA LengthOfList ==
  ASSUME NEW A, NEW s \in Seq(A), IsInjective(s)
  PROVE  IsFiniteSet(ToSet(s)) /\ Cardinality(ToSet(s)) = Len(s)
<1>1. Len(s) \in Nat /\ DOMAIN s = 1..Len(s) /\ s \in [1..Len(s) -> ToSet(s)]
  BY DEF ToSet
<1>2. IsFiniteSet(1..Len(s)) /\ Cardinality(1..Len(s)) = Len(s)
  <2> DEFINE n == Len(s)
  <2>1. 1 \in Int /\ n \in Int /\ n \in Nat
    BY <1>1
  <2> HIDE DEF n
  <2>2. IsFiniteSet(1..n) /\ Cardinality(1..n) = IF 1 > n THEN 0 ELSE n - 1 + 1
    BY <2>1, FS_Interval
  <2>3. Cardinality(1..n) = n
    BY <2>1, <2>2
  <2> QED BY <2>2, <2>3 DEF n
<1>3. s \in Bijection(1..Len(s), ToSet(s))
  <2>1. s \in Injection(1..Len(s), ToSet(s))
    BY <1>1 DEF Injection, IsInjective
  <2>2. s \in Surjection(1..Len(s), ToSet(s))
    <3>1. \A x \in ToSet(s) : \E n \in 1..Len(s) : s[n] = x
      BY <1>1 DEF ToSet
    <3> QED BY <1>1, <3>1 DEF Surjection
  <2> QED BY <2>1, <2>2 DEF Bijection
<1>4. ExistsBijection(1..Len(s), ToSet(s))
  BY <1>3 DEF ExistsBijection
<1> QED
  BY <1>2, <1>4, FS_Bijection

-----------------------------------------------------------------------------
(* The cache file.                                                         *)
HasRun(r) ==
  r = [pc |-> r.pc, phase |-> r.phase, compiled |-> r.compiled, stack |-> r.stack,
       relevant |-> r.relevant, at |-> r.at, cached |-> r.cached, scan |-> r.scan,
       source |-> r.source, work |-> r.work, copy |-> r.copy, pending |-> r.pending]

RunOK == HasRun(run)

CacheOK ==
  cache = [pos |-> cache.pos, nodes |-> cache.nodes, whole |-> cache.whole, length |-> cache.length]

(* An instance that begins at pos lies behind the header, in a file of the *)
(* given length.                                                           *)
InFile(pos, nodes, length) ==
  /\ pos \in Nat \ {0} /\ SizeOf(nodes) \in Nat
  /\ pos + SizeOf(nodes) <= length

(* The header names no instance or one in the file; while the process is   *)
(* between the two writes of SaveCache the new one is in the file too.     *)
CacheInv ==
  /\ RunOK /\ CacheOK
  /\ cache.length \in Nat \ {0} /\ cache.whole = TRUE
  /\ \/ cache.pos = 0 /\ SizeOf(cache.nodes) = 0
     \/ InFile(cache.pos, cache.nodes, cache.length)
  /\ run.pc = "save" => InFile(run.pending.pos, run.pending.nodes, cache.length)

-----------------------------------------------------------------------------
(* All steps but the two of SaveCache leave the cache file alone, and do   *)
(* not get to where it is saved.                                           *)
Elsewhere == cache' = cache /\ RunOK' /\ (run'.pc # "save" \/ run' = run)

LEMMA ChecksElsewhere ==
  ASSUME RunOK, Checks
  PROVE  Elsewhere
<1>1. ASSUME NEW n \in Nodes, CheckFiles(n)
      PROVE  Elsewhere
  BY <1>1 DEF CheckFiles, Elsewhere, RunOK, HasRun, disk, AtTop
<1>2. ASSUME NEW n \in Nodes, CheckDependency(n)
      PROVE  Elsewhere
  BY <1>2 DEF CheckDependency, Elsewhere, RunOK, HasRun, disk, AtTop
<1>3. ASSUME NEW n \in Nodes, CircularDependency(n)
      PROVE  Elsewhere
  BY <1>3 DEF CircularDependency, Ends, NoRun, Elsewhere, RunOK, HasRun, disk
<1>4. ASSUME NEW n \in Nodes, DependenciesChecked(n)
      PROVE  Elsewhere
  BY <1>4 DEF DependenciesChecked, Elsewhere, RunOK, HasRun, disk, AtTop
<1>5. ASSUME Stratify
      PROVE  Elsewhere
  BY <1>5 DEF Stratify, Elsewhere, RunOK, HasRun, disk
<1> QED
  BY <1>1, <1>2, <1>3, <1>4, <1>5 DEF Checks

LEMMA WorkDoneElsewhere ==
  ASSUME RunOK, NEW x, NEW cached, WorkDone(x, cached)
  PROVE  RunOK' /\ run'.pc # "save"
BY DEF WorkDone, RunOK, HasRun, Work

LEMMA WorksElsewhere ==
  ASSUME RunOK, Works
  PROVE  Elsewhere
<1>1. ASSUME NotCompiledAgain
      PROVE  Elsewhere
  BY <1>1 DEF NotCompiledAgain, AtCompile, Elsewhere, RunOK, HasRun, disk
<1>2. ASSUME CompileDepsNode
      PROVE  Elsewhere
  BY <1>2 DEF CompileDepsNode, AtCompile, Elsewhere, RunOK, HasRun, disk
<1>3. ASSUME StartCompile
      PROVE  Elsewhere
  BY <1>3 DEF StartCompile, AtCompile, WorkOn, NoWork, Elsewhere, RunOK, HasRun, disk
<1>4. ASSUME OpenInput
      PROVE  Elsewhere
  BY <1>4 DEF OpenInput, Work, Elsewhere, RunOK, HasRun, disk
<1>5. ASSUME CannotRead
      PROVE  Elsewhere
  BY <1>5 DEF CannotRead, Ends, NoRun, Elsewhere, RunOK, HasRun, disk
<1>6. ASSUME DepsFileAnalysed
      PROVE  Elsewhere
  BY <1>6, WorkDoneElsewhere DEF DepsFileAnalysed, Elsewhere, disk
<1>7. ASSUME ListedButGone
      PROVE  Elsewhere
  BY <1>7 DEF ListedButGone, Ends, NoRun, Elsewhere, RunOK, HasRun, disk
<1>8. ASSUME CreateOutput
      PROVE  Elsewhere
  BY <1>8 DEF CreateOutput, AllRead, Work, Elsewhere, RunOK, HasRun, disk
<1>9. ASSUME CloseOutput
      PROVE  Elsewhere
  BY <1>9, WorkDoneElsewhere DEF CloseOutput, Elsewhere, disk
<1>10. ASSUME NEW n \in DepsNodes, ReadDepsFile(n)
      PROVE  Elsewhere
  BY <1>10 DEF ReadDepsFile, Reads, DoneReading, Work, Elsewhere, RunOK, HasRun, disk
<1>11. ASSUME NEW n \in Assets, ReadAssetSource(n)
      PROVE  Elsewhere
  BY <1>11 DEF ReadAssetSource, Reads, DoneReading, Work, Elsewhere, RunOK, HasRun, disk
<1>12. ASSUME NEW n \in Assets, TryOptional(n)
      PROVE  Elsewhere
  BY <1>12 DEF TryOptional, DoneReading, Work, Elsewhere, RunOK, HasRun, disk
<1>13. ASSUME NEW n \in Assets, ReadAnalysis(n)
      PROVE  Elsewhere
  BY <1>13 DEF ReadAnalysis, Reads, DoneReading, Work, Elsewhere, RunOK, HasRun, disk
<1>14. ASSUME NEW n \in Assets, IndexCAS(n)
      PROVE  Elsewhere
  BY <1>14 DEF IndexCAS, Reads, DoneReading, Work, Elsewhere, RunOK, HasRun, disk
<1>15. ASSUME NEW n \in Leaves, ReadLeaf(n)
      PROVE  Elsewhere
  BY <1>15 DEF ReadLeaf, Reads, DoneReading, Work, Elsewhere, RunOK, HasRun, disk
<1> QED
  BY <1>1, <1>2, <1>3, <1>4, <1>5, <1>6, <1>7, <1>8, <1>9, <1>10, <1>11, <1>12, <1>13, <1>14, <1>15 DEF Works

(* The steps of Finishes before SaveCache.                                 *)
LEMMA FinishesElsewhere ==
  ASSUME RunOK, Finishes, ~WriteInstance, ~WriteHeader
  PROVE  Elsewhere
<1>1. ASSUME NothingToExport
      PROVE  Elsewhere
  BY <1>1 DEF NothingToExport, AllCompiled, Elsewhere, RunOK, HasRun, disk
<1>2. ASSUME CreateCatalog
      PROVE  Elsewhere
  BY <1>2 DEF CreateCatalog, AllCompiled, Elsewhere, RunOK, HasRun, disk
<1>3. ASSUME WriteCatalog
      PROVE  Elsewhere
  BY <1>3 DEF WriteCatalog, Elsewhere, RunOK, HasRun, disk
<1>4. ASSUME MoveContent
      PROVE  Elsewhere
  BY <1>4 DEF MoveContent, Elsewhere, RunOK, HasRun, disk
<1>5. ASSUME NEW id, CopyContent(id)
      PROVE  Elsewhere
  BY <1>5 DEF CopyContent, Elsewhere, RunOK, HasRun, disk
<1>6. ASSUME NEW id, NoContentSource(id)
      PROVE  Elsewhere
  BY <1>6 DEF NoContentSource, Ends, NoRun, Elsewhere, RunOK, HasRun, disk
<1> QED
  BY <1>1, <1>2, <1>3, <1>4, <1>5, <1>6 DEF Finishes

LEMMA OthersElsewhere ==
  ASSUME RunOK, Begin \/ Killed \/ Environment
  PROVE  Elsewhere
<1>1. ASSUME Begin
      PROVE  Elsewhere
  BY <1>1 DEF Begin, NoRun, Elsewhere, RunOK, HasRun, disk
<1>2. ASSUME Killed
      PROVE  Elsewhere
  BY <1>2 DEF Killed, Ends, NoRun, Elsewhere, RunOK, HasRun, disk
<1>3. ASSUME Environment
      PROVE  Elsewhere
  <2>1. cache' = cache /\ run' = run
    BY <1>3 DEF Environment, Edit, RemoveFile, RemoveContent, Upgrade, Disturbs
  <2> QED
    BY <2>1 DEF Elsewhere, RunOK, HasRun
<1> QED
  BY <1>1, <1>2, <1>3

LEMMA ElsewhereKeeps ==
  ASSUME CacheInv, Elsewhere
  PROVE  CacheInv'
BY DEF CacheInv, Elsewhere, CacheOK, InFile

-----------------------------------------------------------------------------
(* SaveCache.                                                              *)

(* The new instance goes before the active one if there is room between it *)
(* and the header, and behind it otherwise: they never share a place.      *)
LEMMA WriteInstanceKeeps ==
  ASSUME CacheInv, WriteInstance
  PROVE  CacheInv'
<1> DEFINE nodes == [n \in Nodes \cap ToSet(run.relevant) |-> node[n]]
           size  == SizeOf(nodes)
           pos   == IF CanWriteBefore(size) THEN 1 ELSE cache.length
           top   == Max({cache.length, pos + size})
           overwrites == pos < cache.pos + SizeOf(cache.nodes) /\ cache.pos < pos + size
<1>1. size \in Nat
  <2>1. DOMAIN nodes \subseteq Nodes /\ IsFiniteSet(Nodes)
    BY BuildSystemAssumption
  <2>2. IsFiniteSet(DOMAIN nodes)
    BY <2>1, FS_Subset
  <2> QED
    BY <2>2, FS_CardinalityType DEF SizeOf
<1>2. /\ cache.length \in Nat \ {0} /\ cache.pos \in Nat /\ SizeOf(cache.nodes) \in Nat
      /\ cache.pos + SizeOf(cache.nodes) <= cache.length
  BY DEF CacheInv, InFile
<1>3. /\ cache' = [cache EXCEPT !.nodes = IF overwrites THEN <<>> ELSE cache.nodes,
                                !.whole = cache.whole /\ ~overwrites, !.length = top]
      /\ run' = [run EXCEPT !.pc = "save", !.pending = [pos |-> pos, nodes |-> nodes]]
  BY DEF WriteInstance
<1> HIDE DEF nodes, size
<1>4. pos \in Nat \ {0}
  BY <1>2
<1>5. top \in Nat /\ top >= cache.length /\ top >= pos + size
  <2>1. \A x, y \in Nat : /\ Max({x, y}) \in Nat
                         /\ Max({x, y}) >= x /\ Max({x, y}) >= y
    <3>1. ASSUME NEW x \in Nat, NEW y \in Nat
          PROVE  \E m \in {x, y} : \A z \in {x, y} : m >= z
      BY <3>1
    <3> QED
      BY <3>1 DEF Max
  <2> QED
    BY <1>1, <1>2, <1>4, <2>1
<1>6. ~overwrites
  <2>1. CASE CanWriteBefore(size)
    BY <1>1, <1>2, <2>1 DEF CanWriteBefore, CacheInv, InFile
  <2>2. CASE ~CanWriteBefore(size)
    BY <1>1, <1>2, <2>2
  <2> QED
    BY <2>1, <2>2
<1> HIDE DEF pos, top, overwrites
<1>7. /\ cache'.pos = cache.pos /\ cache'.nodes = cache.nodes /\ cache'.whole = TRUE
      /\ cache'.length = top /\ CacheOK'
  BY <1>3, <1>6 DEF CacheInv, CacheOK
<1>8. run'.pending.pos = pos /\ run'.pending.nodes = nodes /\ RunOK'
  BY <1>3 DEF CacheInv, RunOK, HasRun
<1>9. \/ cache'.pos = 0 /\ SizeOf(cache'.nodes) = 0
      \/ InFile(cache'.pos, cache'.nodes, cache'.length)
  BY <1>2, <1>5, <1>7 DEF CacheInv, InFile
<1>10. InFile(run'.pending.pos, run'.pending.nodes, cache'.length)
  BY <1>1, <1>4, <1>5, <1>7, <1>8 DEF InFile, size
<1> QED
  BY <1>2, <1>5, <1>7, <1>8, <1>9, <1>10 DEF CacheInv

(* The header names the new instance.                                      *)
LEMMA WriteHeaderKeeps ==
  ASSUME CacheInv, WriteHeader
  PROVE  CacheInv'
<1>1. /\ run.pc = "save" /\ run' = NoRun
      /\ cache' = [cache EXCEPT !.pos = run.pending.pos, !.nodes = run.pending.nodes, !.whole = TRUE]
  BY DEF WriteHeader
<1>2. /\ cache'.pos = run.pending.pos /\ cache'.nodes = run.pending.nodes
      /\ cache'.whole = TRUE /\ cache'.length = cache.length /\ CacheOK'
  BY <1>1 DEF CacheInv, CacheOK
<1>3. RunOK' /\ run'.pc = "idle"
  BY <1>1 DEF NoRun, RunOK, HasRun
<1> QED
  BY <1>1, <1>2, <1>3 DEF CacheInv, InFile

-----------------------------------------------------------------------------
LEMMA InitCache ==
  ASSUME Init
  PROVE  CacheInv
<1>1. run = NoRun /\ cache = NoCache
  BY DEF Init
<1>2. SizeOf(cache.nodes) = 0
  <2>1. DOMAIN <<>> = {}
    OBVIOUS
  <2> QED
    BY <1>1, <2>1, FS_EmptySet DEF NoCache, SizeOf
<1> QED
  BY <1>1, <1>2 DEF NoRun, NoCache, CacheInv, RunOK, HasRun, CacheOK

LEMMA NextCache ==
  ASSUME CacheInv, [Next]_bsVars
  PROVE  CacheInv'
<1>1. CASE Next
  BY <1>1, ChecksElsewhere, WorksElsewhere, FinishesElsewhere, OthersElsewhere,
     ElsewhereKeeps, WriteInstanceKeeps, WriteHeaderKeeps DEF Next, CacheInv
<1>2. CASE UNCHANGED bsVars
  BY <1>2 DEF bsVars, disk, CacheInv, RunOK, HasRun, CacheOK, InFile
<1> QED
  BY <1>1, <1>2

(* SaveCache never writes over the instance that the header names, and     *)
(* names the new one only when it is in the file: a process killed at any  *)
(* step leaves a cache that the next one can load.                         *)
THEOREM BuildSystemCacheIsWhole == Spec => []CacheIsWhole
<1>1. Init => CacheInv
  BY InitCache
<1>2. CacheInv /\ [Next]_bsVars => CacheInv'
  BY NextCache
<1>3. CacheInv => CacheIsWhole
  BY DEF CacheInv, CacheIsWhole
<1> QED
  BY <1>1, <1>2, <1>3, PTL DEF Spec

-----------------------------------------------------------------------------
(* What the state is made of.                                              *)
HasFields(x) ==
  x = [state |-> x.state, version |-> x.version, analysis |-> x.analysis, compile |-> x.compile,
       cas |-> x.cas, scan |-> x.scan, deps |-> x.deps]

HasLists(part) == part = [inputs |-> part.inputs, products |-> part.products]

IsNode(x) ==
  /\ HasFields(x) /\ HasLists(x.analysis) /\ HasLists(x.compile)
  /\ x.state \in {"unanalyzed", "uncompiled", "current"}
  /\ x.scan \in Seq(Nodes) \cup {None} /\ x.deps \in Seq(Nodes)

NodesOK == DOMAIN node = Nodes /\ \A n \in Nodes : IsNode(node[n])
SavedOK(nodes) == DOMAIN nodes \subseteq Nodes /\ \A n \in DOMAIN nodes : IsNode(nodes[n])

TextsOK ==
  DOMAIN file = Files /\ \A n \in Nodes : file[Source(n)].data \in Texts[n] \cup {Absent}

(* The process, and what a node's compiler is at.                          *)
HasWork(w) ==
  w = [node |-> w.node, stage |-> w.stage, todo |-> w.todo, open |-> w.open,
       created |-> w.created, items |-> w.items, made |-> w.made]

WorkOK ==
  /\ HasWork(Work)
  /\ Work.open \in BOOLEAN /\ Work.created \in BOOLEAN
  /\ run.pc # "work" => Work = NoWork
  /\ run.pc = "work" =>
       /\ Work.node \in Nodes /\ Work.stage \in {"analysis", "compile"}
       /\ Work.open => Work.todo # <<>>
       /\ Work.created => Work.todo = <<>>
       /\ Work.node \in DepsNodes => Work.stage = "analysis" /\ ~Work.created
       /\ Work.node \in DepsNodes /\ Work.todo = <<>> => Work.items \in Seq(Nodes)

ProcessOK ==
  /\ run.pc \in {"idle", "check", "work", "compile", "catalog", "content", "save"}
  /\ run.phase \in [Nodes -> {"none", "files", "enumerate", "nodes", "completed"}]
  /\ run.stack \in Seq(Nodes) /\ run.relevant \in Seq(Nodes) /\ run.at \in Nat
  /\ run.scan \in Seq(Nodes) \cup {None}
  /\ run.pc = "idle" => run = NoRun

TypesInv ==
  /\ RunOK /\ NodesOK /\ TextsOK /\ ProcessOK /\ WorkOK
  /\ SavedOK(cache.nodes) /\ (run.pc = "save" => SavedOK(run.pending.nodes))

(* No step but those of a compiler's output and of the environment writes  *)
(* to a file, and none but SaveCache to the cache.                         *)

(* The process keeps its parts when one of them changes.                   *)
LEMMA PartsStay ==
  ASSUME NEW r, HasRun(r), NEW v
  PROVE  /\ HasRun([r EXCEPT !.pc = v]) /\ HasRun([r EXCEPT !.phase = v])
         /\ HasRun([r EXCEPT !.compiled = v]) /\ HasRun([r EXCEPT !.stack = v])
         /\ HasRun([r EXCEPT !.relevant = v]) /\ HasRun([r EXCEPT !.at = v])
         /\ HasRun([r EXCEPT !.cached = v]) /\ HasRun([r EXCEPT !.scan = v])
         /\ HasRun([r EXCEPT !.source = v]) /\ HasRun([r EXCEPT !.work = v])
         /\ HasRun([r EXCEPT !.copy = v]) /\ HasRun([r EXCEPT !.pending = v])
<1>1. HasRun([r EXCEPT !.pc = v]) /\ HasRun([r EXCEPT !.phase = v])
  BY DEF HasRun
<1>2. HasRun([r EXCEPT !.compiled = v]) /\ HasRun([r EXCEPT !.stack = v])
  BY DEF HasRun
<1>3. HasRun([r EXCEPT !.relevant = v]) /\ HasRun([r EXCEPT !.at = v])
  BY DEF HasRun
<1>4. HasRun([r EXCEPT !.cached = v]) /\ HasRun([r EXCEPT !.scan = v])
  BY DEF HasRun
<1>5. HasRun([r EXCEPT !.source = v]) /\ HasRun([r EXCEPT !.work = v])
  BY DEF HasRun
<1>6. HasRun([r EXCEPT !.copy = v]) /\ HasRun([r EXCEPT !.pending = v])
  BY DEF HasRun
<1> QED
  BY <1>1, <1>2, <1>3, <1>4, <1>5, <1>6

LEMMA WorkStays ==
  ASSUME NEW w, HasWork(w), NEW v
  PROVE  /\ HasWork([w EXCEPT !.node = v]) /\ HasWork([w EXCEPT !.stage = v])
         /\ HasWork([w EXCEPT !.todo = v]) /\ HasWork([w EXCEPT !.open = v])
         /\ HasWork([w EXCEPT !.created = v]) /\ HasWork([w EXCEPT !.items = v])
         /\ HasWork([w EXCEPT !.made = v])
<1>1. HasWork([w EXCEPT !.node = v]) /\ HasWork([w EXCEPT !.stage = v])
  BY DEF HasWork
<1>2. HasWork([w EXCEPT !.todo = v]) /\ HasWork([w EXCEPT !.open = v])
  BY DEF HasWork
<1>3. HasWork([w EXCEPT !.created = v]) /\ HasWork([w EXCEPT !.items = v])
  BY DEF HasWork
<1>4. HasWork([w EXCEPT !.made = v])
  BY DEF HasWork
<1> QED
  BY <1>1, <1>2, <1>3, <1>4

(* The work that is begun on a node.                                       *)
Starts(w, n, stage, todo) ==
  /\ HasWork(w) /\ w.node = n /\ w.stage = stage /\ w.todo = todo
  /\ w.open = FALSE /\ w.created = FALSE /\ w.items = <<>> /\ w.made = <<>>

LEMMA NewWork ==
  ASSUME NEW n, NEW stage, NEW todo
  PROVE  Starts(WorkOn(n, stage, todo), n, stage, todo)
<1> DEFINE w1 == [NoWork EXCEPT !.node = n]
           w2 == [w1 EXCEPT !.stage = stage]
           w3 == [w2 EXCEPT !.todo = todo]
<1>1. WorkOn(n, stage, todo) = w3
  BY DEF WorkOn, NoWork
<1>2. HasWork(NoWork)
  BY DEF NoWork, HasWork
<1>3. HasWork(w1) /\ w1.node = n /\ w1.open = FALSE /\ w1.created = FALSE /\ w1.items = <<>>
      /\ w1.made = <<>>
  BY <1>2, WorkStays DEF NoWork
<1> HIDE DEF w1
<1>4. HasWork(w2) /\ w2.node = n /\ w2.stage = stage /\ w2.open = FALSE /\ w2.created = FALSE
      /\ w2.items = <<>> /\ w2.made = <<>>
  <2>1. HasWork(w2)
    BY <1>3, WorkStays
  <2> QED
    BY <1>3, <2>1 DEF HasWork
<1> HIDE DEF w2
<1>5. HasWork(w3) /\ w3.node = n /\ w3.stage = stage /\ w3.todo = todo /\ w3.open = FALSE
      /\ w3.created = FALSE /\ w3.items = <<>> /\ w3.made = <<>>
  <2>1. HasWork(w3)
    BY <1>4, WorkStays
  <2> QED
    BY <1>4, <2>1 DEF HasWork
<1> QED
  BY <1>1, <1>5 DEF Starts

LEMMA NewNodeIsNode == IsNode(NewNode)
BY DEF IsNode, HasFields, HasLists, NewNode, NoFiles

LEMMA NoRunIsProcess ==
  ASSUME run' = NoRun
  PROVE  RunOK' /\ ProcessOK' /\ WorkOK'
<1>1. run'.pc = "idle" /\ run'.work = NoWork /\ RunOK'
  BY DEF NoRun, RunOK, HasRun
<1>2. ProcessOK'
  BY DEF NoRun, ProcessOK
<1>3. WorkOK'
  BY <1>1 DEF WorkOK, HasWork, Work, NoWork
<1> QED
  BY <1>1, <1>2, <1>3

(* The nodes in the next state, when one of them changes at most.          *)
LEMMA OneNodeChanges ==
  ASSUME NodesOK, NEW n \in Nodes, NEW x, IsNode(x), node' = [node EXCEPT ![n] = x]
  PROVE  NodesOK' /\ node'[n] = x /\ \A m \in Nodes : m # n => node'[m] = node[m]
BY DEF NodesOK

LEMMA SameTexts ==
  ASSUME TextsOK, file' = file
  PROVE  TextsOK'
BY DEF TextsOK

LEMMA SameSaved ==
  ASSUME TypesInv, cache' = cache, run'.pc # "save"
  PROVE  SavedOK(cache.nodes)' /\ (run.pc = "save" => SavedOK(run.pending.nodes))'
BY DEF TypesInv, SavedOK

LEMMA EndsTypes ==
  ASSUME TypesInv, NEW how, Ends(how), disk' = disk
  PROVE  TypesInv'
<1>1. run' = NoRun /\ node' = [n \in Nodes |-> NewNode] /\ file' = file /\ cache' = cache
  BY DEF Ends, disk
<1>2. NodesOK'
  BY <1>1, NewNodeIsNode DEF NodesOK
<1>3. RunOK' /\ ProcessOK' /\ WorkOK' /\ run'.pc = "idle"
  BY <1>1, NoRunIsProcess DEF NoRun
<1> QED
  BY <1>1, <1>2, <1>3, SameTexts, SameSaved DEF TypesInv

LEMMA FieldsStay ==
  ASSUME NEW x, HasFields(x), NEW v
  PROVE  /\ HasFields([x EXCEPT !.state = v]) /\ HasFields([x EXCEPT !.version = v])
         /\ HasFields([x EXCEPT !.analysis = v]) /\ HasFields([x EXCEPT !.compile = v])
         /\ HasFields([x EXCEPT !.cas = v]) /\ HasFields([x EXCEPT !.scan = v])
         /\ HasFields([x EXCEPT !.deps = v])
<1>1. HasFields([x EXCEPT !.state = v]) /\ HasFields([x EXCEPT !.version = v])
  BY DEF HasFields
<1>2. HasFields([x EXCEPT !.analysis = v]) /\ HasFields([x EXCEPT !.compile = v])
  BY DEF HasFields
<1>3. HasFields([x EXCEPT !.cas = v]) /\ HasFields([x EXCEPT !.scan = v])
  BY DEF HasFields
<1>4. HasFields([x EXCEPT !.deps = v])
  BY DEF HasFields
<1> QED
  BY <1>1, <1>2, <1>3, <1>4

LEMMA SetStateIsNode ==
  ASSUME NEW x, IsNode(x), NEW s \in {"unanalyzed", "uncompiled", "current"}
  PROVE  /\ IsNode(SetState(x, s)) /\ SetState(x, s).state = s
         /\ SetState(x, s).version = x.version /\ SetState(x, s).scan = x.scan
         /\ SetState(x, s).cas = x.cas
         /\ SetState(x, s).deps = IF s = "unanalyzed" THEN <<>> ELSE x.deps
         /\ SetState(x, s).analysis = IF s = "unanalyzed" THEN NoFiles ELSE x.analysis
         /\ SetState(x, s).compile = IF s = "current" THEN x.compile ELSE NoFiles
<1> DEFINE compile == IF s = "current" THEN x.compile ELSE NoFiles
           analysis == IF s = "unanalyzed" THEN NoFiles ELSE x.analysis
           deps == IF s = "unanalyzed" THEN <<>> ELSE x.deps
           x1 == [x EXCEPT !.state = s]
           x2 == [x1 EXCEPT !.compile = compile]
           x3 == [x2 EXCEPT !.analysis = analysis]
           x4 == [x3 EXCEPT !.deps = deps]
<1>1. HasFields(SetState(x, s))
  <2>1. SetState(x, s) = [x EXCEPT !.state = s, !.compile = compile, !.analysis = analysis,
                                   !.deps = deps]
    BY DEF SetState
  <2> HIDE DEF compile, analysis, deps
  <2>2. [x EXCEPT !.state = s, !.compile = compile, !.analysis = analysis, !.deps = deps] = x4
    OBVIOUS
  <2>3. HasFields(x1)
    BY FieldsStay DEF IsNode
  <2> HIDE DEF x1
  <2>4. HasFields(x2)
    BY <2>3, FieldsStay
  <2> HIDE DEF x2
  <2>5. HasFields(x3)
    BY <2>4, FieldsStay
  <2> HIDE DEF x3
  <2>6. HasFields(x4)
    BY <2>5, FieldsStay
  <2> QED
    BY <2>1, <2>2, <2>6
<1>2. /\ SetState(x, s).state = s
      /\ SetState(x, s).version = x.version /\ SetState(x, s).scan = x.scan
      /\ SetState(x, s).cas = x.cas
      /\ SetState(x, s).deps = deps
      /\ SetState(x, s).analysis = analysis
      /\ SetState(x, s).compile = compile
  BY DEF IsNode, HasFields, SetState
<1>3. deps \in Seq(Nodes)
  BY DEF IsNode
<1> HIDE DEF compile, analysis, deps
<1>4. IsNode(SetState(x, s))
  <2>1. HasLists(NoFiles)
    BY DEF HasLists, NoFiles
  <2>2. HasLists(analysis) /\ HasLists(compile)
    BY <2>1 DEF IsNode, analysis, compile
  <2> QED
    BY <1>1, <1>2, <1>3, <2>2 DEF IsNode
<1> QED
  BY <1>2, <1>4 DEF compile, analysis, deps

VersionSet(x, y, v) ==
  /\ IsNode(y) /\ y.version = v /\ y.state = x.state /\ y.deps = x.deps /\ y.scan = x.scan
  /\ y.cas = x.cas /\ y.analysis = x.analysis /\ y.compile = x.compile

LEMMA SetVersionIsNode ==
  ASSUME NEW x, IsNode(x), NEW v
  PROVE  VersionSet(x, [x EXCEPT !.version = v], v)
<1> DEFINE y == [x EXCEPT !.version = v]
<1>1. HasFields(x) /\ HasFields(y)
  BY FieldsStay DEF IsNode
<1>2. /\ y.version = v /\ y.state = x.state /\ y.deps = x.deps /\ y.scan = x.scan
      /\ y.cas = x.cas /\ y.analysis = x.analysis /\ y.compile = x.compile
  BY <1>1 DEF HasFields
<1> HIDE DEF y
<1>3. IsNode(y)
  BY <1>1, <1>2 DEF IsNode
<1> QED
  BY <1>2, <1>3 DEF y, VersionSet


(* A node after one of its lists has changed.                              *)
InputsSet(x, y, stage, list) ==
  /\ IsNode(y) /\ y.version = x.version /\ y.state = x.state /\ y.deps = x.deps
  /\ y.scan = x.scan /\ y.cas = x.cas
  /\ y[stage].inputs = list /\ y[stage].products = x[stage].products
  /\ stage = "analysis" => y.analysis.inputs = list /\ y.compile = x.compile
  /\ stage = "compile" => y.compile.inputs = list /\ y.analysis = x.analysis

LEMMA SetInputs ==
  ASSUME NEW x, IsNode(x), NEW stage \in {"analysis", "compile"}, NEW list
  PROVE  InputsSet(x, [x EXCEPT ![stage].inputs = list], stage, list)
<1>1. CASE stage = "analysis"
  <2> DEFINE part == [x.analysis EXCEPT !.inputs = list]
             y == [x EXCEPT !.analysis = part]
  <2>1. [x EXCEPT ![stage].inputs = list] = y
    BY <1>1
  <2>2. HasLists(part) /\ part.inputs = list /\ part.products = x.analysis.products
    BY DEF IsNode, HasLists
  <2> HIDE DEF part
  <2>3. HasFields(y)
    BY FieldsStay DEF IsNode
  <2>4. /\ y.analysis = part /\ y.version = x.version /\ y.state = x.state /\ y.deps = x.deps
        /\ y.scan = x.scan /\ y.cas = x.cas /\ y.compile = x.compile
    BY DEF IsNode, HasFields
  <2> HIDE DEF y
  <2>5. IsNode(y)
    BY <2>2, <2>3, <2>4 DEF IsNode
  <2> QED
    BY <1>1, <2>1, <2>2, <2>4, <2>5 DEF InputsSet
<1>2. CASE stage = "compile"
  <2> DEFINE part == [x.compile EXCEPT !.inputs = list]
             y == [x EXCEPT !.compile = part]
  <2>1. [x EXCEPT ![stage].inputs = list] = y
    BY <1>2
  <2>2. HasLists(part) /\ part.inputs = list /\ part.products = x.compile.products
    BY DEF IsNode, HasLists
  <2> HIDE DEF part
  <2>3. HasFields(y)
    BY FieldsStay DEF IsNode
  <2>4. /\ y.compile = part /\ y.version = x.version /\ y.state = x.state /\ y.deps = x.deps
        /\ y.scan = x.scan /\ y.cas = x.cas /\ y.analysis = x.analysis
    BY DEF IsNode, HasFields
  <2> HIDE DEF y
  <2>5. IsNode(y)
    BY <2>2, <2>3, <2>4 DEF IsNode
  <2> QED
    BY <1>2, <2>1, <2>2, <2>4, <2>5 DEF InputsSet
<1> QED
  BY <1>1, <1>2

ProductsSet(x, y, stage, list) ==
  /\ IsNode(y) /\ y.version = x.version /\ y.state = x.state /\ y.deps = x.deps
  /\ y.scan = x.scan /\ y.cas = x.cas
  /\ y[stage].products = list /\ y[stage].inputs = x[stage].inputs
  /\ stage = "analysis" => y.analysis.products = list /\ y.compile = x.compile
  /\ stage = "compile" => y.compile.products = list /\ y.analysis = x.analysis

LEMMA SetProducts ==
  ASSUME NEW x, IsNode(x), NEW stage \in {"analysis", "compile"}, NEW list
  PROVE  ProductsSet(x, [x EXCEPT ![stage].products = list], stage, list)
<1>1. CASE stage = "analysis"
  <2> DEFINE part == [x.analysis EXCEPT !.products = list]
             y == [x EXCEPT !.analysis = part]
  <2>1. [x EXCEPT ![stage].products = list] = y
    BY <1>1
  <2>2. HasLists(part) /\ part.products = list /\ part.inputs = x.analysis.inputs
    BY DEF IsNode, HasLists
  <2> HIDE DEF part
  <2>3. HasFields(y)
    BY FieldsStay DEF IsNode
  <2>4. /\ y.analysis = part /\ y.version = x.version /\ y.state = x.state /\ y.deps = x.deps
        /\ y.scan = x.scan /\ y.cas = x.cas /\ y.compile = x.compile
    BY DEF IsNode, HasFields
  <2> HIDE DEF y
  <2>5. IsNode(y)
    BY <2>2, <2>3, <2>4 DEF IsNode
  <2> QED
    BY <1>1, <2>1, <2>2, <2>4, <2>5 DEF ProductsSet
<1>2. CASE stage = "compile"
  <2> DEFINE part == [x.compile EXCEPT !.products = list]
             y == [x EXCEPT !.compile = part]
  <2>1. [x EXCEPT ![stage].products = list] = y
    BY <1>2
  <2>2. HasLists(part) /\ part.products = list /\ part.inputs = x.compile.inputs
    BY DEF IsNode, HasLists
  <2> HIDE DEF part
  <2>3. HasFields(y)
    BY FieldsStay DEF IsNode
  <2>4. /\ y.compile = part /\ y.version = x.version /\ y.state = x.state /\ y.deps = x.deps
        /\ y.scan = x.scan /\ y.cas = x.cas /\ y.analysis = x.analysis
    BY DEF IsNode, HasFields
  <2> HIDE DEF y
  <2>5. IsNode(y)
    BY <2>2, <2>3, <2>4 DEF IsNode
  <2> QED
    BY <1>2, <2>1, <2>2, <2>4, <2>5 DEF ProductsSet
<1> QED
  BY <1>1, <1>2

DepsSet(x, y, v) ==
  /\ IsNode(y) /\ y.deps = v
  /\ y.version = x.version /\ y.state = x.state /\ y.scan = x.scan
  /\ y.cas = x.cas /\ y.analysis = x.analysis /\ y.compile = x.compile

LEMMA SetDeps ==
  ASSUME NEW x, IsNode(x), NEW v \in Seq(Nodes)
  PROVE  DepsSet(x, [x EXCEPT !.deps = v], v)
<1> DEFINE y == [x EXCEPT !.deps = v]
<1>1. HasFields(x) /\ HasFields(y)
  BY FieldsStay DEF IsNode
<1>2. /\ y.deps = v
      /\ y.version = x.version /\ y.state = x.state /\ y.scan = x.scan
      /\ y.cas = x.cas /\ y.analysis = x.analysis /\ y.compile = x.compile
  BY <1>1 DEF HasFields
<1> HIDE DEF y
<1>3. IsNode(y)
  BY <1>1, <1>2 DEF IsNode
<1> QED
  BY <1>2, <1>3 DEF y, DepsSet

ScanSet(x, y, v) ==
  /\ IsNode(y) /\ y.scan = v
  /\ y.version = x.version /\ y.state = x.state /\ y.deps = x.deps
  /\ y.cas = x.cas /\ y.analysis = x.analysis /\ y.compile = x.compile

LEMMA SetScan ==
  ASSUME NEW x, IsNode(x), NEW v \in Seq(Nodes) \cup {None}
  PROVE  ScanSet(x, [x EXCEPT !.scan = v], v)
<1> DEFINE y == [x EXCEPT !.scan = v]
<1>1. HasFields(x) /\ HasFields(y)
  BY FieldsStay DEF IsNode
<1>2. /\ y.scan = v
      /\ y.version = x.version /\ y.state = x.state /\ y.deps = x.deps
      /\ y.cas = x.cas /\ y.analysis = x.analysis /\ y.compile = x.compile
  BY <1>1 DEF HasFields
<1> HIDE DEF y
<1>3. IsNode(y)
  BY <1>1, <1>2 DEF IsNode
<1> QED
  BY <1>2, <1>3 DEF y, ScanSet

CASSet(x, y, v) ==
  /\ IsNode(y) /\ y.cas = v
  /\ y.version = x.version /\ y.state = x.state /\ y.deps = x.deps
  /\ y.scan = x.scan /\ y.analysis = x.analysis /\ y.compile = x.compile

LEMMA SetCAS ==
  ASSUME NEW x, IsNode(x), NEW v
  PROVE  CASSet(x, [x EXCEPT !.cas = v], v)
<1> DEFINE y == [x EXCEPT !.cas = v]
<1>1. HasFields(x) /\ HasFields(y)
  BY FieldsStay DEF IsNode
<1>2. /\ y.cas = v
      /\ y.version = x.version /\ y.state = x.state /\ y.deps = x.deps
      /\ y.scan = x.scan /\ y.analysis = x.analysis /\ y.compile = x.compile
  BY <1>1 DEF HasFields
<1> HIDE DEF y
<1>3. IsNode(y)
  BY <1>1, <1>2 DEF IsNode
<1> QED
  BY <1>2, <1>3 DEF y, CASSet

LEMMA NoRunFields ==
  /\ NoRun.pc = "idle" /\ NoRun.phase = [n \in Nodes |-> "none"] /\ NoRun.compiled = {}
  /\ NoRun.stack = <<>> /\ NoRun.relevant = <<>> /\ NoRun.at = 0 /\ NoRun.cached = <<>>
  /\ NoRun.scan = None /\ NoRun.source = <<>> /\ NoRun.work = NoWork /\ NoRun.copy = None
  /\ NoRun.pending = None
BY DEF NoRun

LEMMA RootIsNode == Root \in Nodes /\ Root \in DepsNodes
BY BuildSystemAssumption DEF Nodes

(* What Begin leaves of the process before.                                *)
LEMMA BeginSets ==
  ASSUME Begin
  PROVE  /\ RunOK' /\ run'.pc = "check" /\ run'.relevant = <<Root>> /\ run'.stack = <<Root>>
         /\ run'.phase = [n \in Nodes |-> IF n = Root THEN "files" ELSE "none"]
         /\ run'.at = 0 /\ run'.compiled = {} /\ run'.cached = <<>> /\ run'.scan = None
         /\ run'.source = <<>> /\ run'.work = NoWork /\ run'.copy = None
BY RootIsNode DEF Begin, NoRun, RunOK, HasRun

LEMMA BeginTypes ==
  ASSUME TypesInv, Begin
  PROVE  TypesInv'
<1>1. file' = file /\ cache' = cache
  BY DEF Begin, disk
<1>2. NodesOK'
  <2>1. node' = [n \in Nodes |-> IF n \in DOMAIN cache.nodes THEN cache.nodes[n] ELSE NewNode]
    BY DEF Begin
  <2> QED
    BY <2>1, NewNodeIsNode DEF NodesOK, TypesInv, SavedOK
<1>3. ProcessOK'
  <2>1. /\ run'.pc = "check" /\ run'.relevant = <<Root>> /\ run'.stack = <<Root>>
        /\ run'.phase = [n \in Nodes |-> IF n = Root THEN "files" ELSE "none"]
        /\ run'.at = 0 /\ run'.scan = None
    BY BeginSets
  <2> QED
    BY <2>1, RootIsNode DEF ProcessOK
<1>4. WorkOK'
  <2>1. run'.work = NoWork /\ run'.pc = "check"
    BY BeginSets
  <2> QED
    BY <2>1 DEF WorkOK, HasWork, Work, NoWork
<1>5. RunOK' /\ run'.pc # "save"
  BY BeginSets
<1> QED
  BY <1>1, <1>2, <1>3, <1>4, <1>5, SameTexts, SameSaved DEF TypesInv

-----------------------------------------------------------------------------
(* A step that leaves the files and the cache alone, one node at most      *)
(* changes, and the compilers' work does not.                              *)
LEMMA PlainStep ==
  ASSUME TypesInv, NodesOK', RunOK', ProcessOK', file' = file, cache' = cache, run'.work = NoWork,
         run'.pc \notin {"work", "save"}
  PROVE  TypesInv'
<1>1. WorkOK'
  BY DEF WorkOK, HasWork, Work, NoWork
<1> QED
  BY <1>1, SameTexts, SameSaved DEF TypesInv

LEMMA CheckFilesSets ==
  ASSUME TypesInv, NEW n \in Nodes, CheckFiles(n)
  PROVE  /\ run.pc = "check" /\ run.stack # <<>> /\ n = Top /\ run.phase[n] = "files"
         /\ RunOK' /\ disk' = disk /\ past' = past
         /\ run'.stack = run.stack /\ run'.relevant = run.relevant /\ run'.at = run.at
         /\ run'.compiled = run.compiled /\ run'.source = run.source /\ run'.copy = run.copy
         /\ run'.scan \in {run.scan, Scan}
         /\ \/ /\ run'.pc = "work" /\ n \notin Leaves
               /\ run'.phase = [run.phase EXCEPT ![n] = "enumerate"]
               /\ run'.work = WorkOn(n, "analysis", <<Source(n)>>)
               /\ node' = [node EXCEPT ![n] = [SetState(node[n], "unanalyzed") EXCEPT
                                                 !.version = version[n]]]
            \/ /\ run'.pc = "check" /\ run'.phase = [run.phase EXCEPT ![n] = "nodes"]
               /\ run'.work = run.work
               /\ \/ node' = [node EXCEPT ![n] = node[n]] /\ node[n].state # "unanalyzed"
                  \/ node' = [node EXCEPT ![n] = SetState(node[n], "uncompiled")]
                     /\ node[n].state = "current"
                  \/ n \in Leaves /\ node' = [node EXCEPT ![n] =
                                               SetState(SetState(node[n], "unanalyzed"), "uncompiled")]
<1> DEFINE upToDate == node[n].version = version[n]
           checksCompile == upToDate /\ node[n].state = "current"
           checksAnalysis == upToDate /\ node[n].state # "unanalyzed"
           scans == checksAnalysis /\ Stale(n, "analysis") = 0 /\ node[n].scan # None
           recompile == checksCompile /\ \/ Stale(n, "compile") # 0
                                         \/ \E id \in node[n].cas : id \notin DOMAIN content
           reanalyse == \/ ~checksAnalysis \/ Stale(n, "analysis") # 0
                        \/ scans /\ Scan # node[n].scan
           scanned == IF scans THEN Scan ELSE run.scan
           cached == Resolved((IF checksCompile THEN Examined(n, "compile") ELSE {})
                              \cup (IF checksAnalysis THEN Examined(n, "analysis") ELSE {}))
           looked == [run EXCEPT !.scan = scanned, !.cached = cached]
<1>1. /\ AtTop(n, "files")
      /\ IF reanalyse /\ n \notin Leaves
         THEN /\ node' = [node EXCEPT ![n] =
                            [SetState(node[n], "unanalyzed") EXCEPT !.version = version[n]]]
              /\ run' = [looked EXCEPT !.pc = "work", !.phase[n] = "enumerate",
                           !.work = WorkOn(n, "analysis", <<Source(n)>>)]
         ELSE /\ node' = [node EXCEPT ![n] =
                            IF reanalyse THEN SetState(SetState(node[n], "unanalyzed"), "uncompiled")
                            ELSE IF recompile THEN SetState(node[n], "uncompiled") ELSE node[n]]
              /\ run' = [looked EXCEPT !.phase[n] = "nodes"]
      /\ UNCHANGED <<disk, past>>
  BY DEF CheckFiles
<1>2. recompile => node[n].state = "current"
  OBVIOUS
<1>3. ~reanalyse => node[n].state # "unanalyzed"
  OBVIOUS
<1>4. scanned \in {run.scan, Scan}
  OBVIOUS
<1> HIDE DEF recompile, reanalyse, cached, scanned
<1>5. /\ looked.pc = run.pc /\ looked.phase = run.phase /\ looked.compiled = run.compiled
      /\ looked.stack = run.stack /\ looked.relevant = run.relevant /\ looked.at = run.at
      /\ looked.cached = cached /\ looked.scan = scanned /\ looked.source = run.source
      /\ looked.work = run.work /\ looked.copy = run.copy /\ looked.pending = run.pending
      /\ HasRun(looked)
  <2> DEFINE r1 == [run EXCEPT !.scan = scanned]
  <2>1. HasRun(run)
    BY DEF TypesInv, RunOK
  <2>2. HasRun(r1)
    BY <2>1, PartsStay
  <2>3. /\ r1.pc = run.pc /\ r1.phase = run.phase /\ r1.compiled = run.compiled
        /\ r1.stack = run.stack /\ r1.relevant = run.relevant /\ r1.at = run.at
        /\ r1.scan = scanned /\ r1.source = run.source
        /\ r1.work = run.work /\ r1.copy = run.copy /\ r1.pending = run.pending
    BY <2>1 DEF HasRun
  <2>4. looked = [r1 EXCEPT !.cached = cached]
    OBVIOUS
  <2> HIDE DEF r1, looked
  <2>5. HasRun(looked)
    BY <2>2, <2>4, PartsStay
  <2>6. /\ looked.pc = r1.pc /\ looked.phase = r1.phase /\ looked.compiled = r1.compiled
        /\ looked.stack = r1.stack /\ looked.relevant = r1.relevant /\ looked.at = r1.at
        /\ looked.cached = cached /\ looked.scan = r1.scan /\ looked.source = r1.source
        /\ looked.work = r1.work /\ looked.copy = r1.copy /\ looked.pending = r1.pending
    BY <2>2, <2>4 DEF HasRun
  <2> QED
    BY <2>3, <2>5, <2>6
<1> HIDE DEF looked
<1>6. run.pc = "check" /\ run.stack # <<>> /\ n = Top /\ run.phase[n] = "files"
  BY <1>1 DEF AtTop
<1>7. CASE reanalyse /\ n \notin Leaves
  <2> DEFINE work == WorkOn(n, "analysis", <<Source(n)>>)
             phase == [looked.phase EXCEPT ![n] = "enumerate"]
             r1 == [looked EXCEPT !.pc = "work"]
             r2 == [r1 EXCEPT !.phase = phase]
  <2>1. /\ run' = [looked EXCEPT !.pc = "work", !.phase[n] = "enumerate", !.work = work]
        /\ node' = [node EXCEPT ![n] = [SetState(node[n], "unanalyzed") EXCEPT
                                                 !.version = version[n]]]
    BY <1>1, <1>7
  <2> HIDE DEF work
  <2>2. run' = [r2 EXCEPT !.work = work]
    BY <2>1, <1>5 DEF HasRun
  <2>3. HasRun(r1) /\ HasRun(r2) /\ HasRun(run')
    <3>1. HasRun(r1)
      BY <1>5, PartsStay
    <3> HIDE DEF r1
    <3>2. HasRun(r2)
      BY <3>1, PartsStay
    <3> HIDE DEF r2
    <3> QED
      BY <2>2, <3>1, <3>2, PartsStay
  <2>4. /\ run'.pc = "work" /\ run'.phase = phase /\ run'.compiled = looked.compiled
        /\ run'.stack = looked.stack /\ run'.relevant = looked.relevant /\ run'.at = looked.at
        /\ run'.scan = looked.scan /\ run'.source = looked.source
        /\ run'.work = work /\ run'.copy = looked.copy
    BY <2>1, <1>5 DEF HasRun
  <2> HIDE DEF phase
  <2>5. phase = [run.phase EXCEPT ![n] = "enumerate"]
    BY <1>5 DEF phase
  <2>6. disk' = disk /\ past' = past
    BY <1>1
  <2>7. RunOK'
    BY <2>3 DEF RunOK
  <2> QED
    BY <2>1, <2>4, <2>5, <2>6, <2>7, <1>4, <1>5, <1>6, <1>7 DEF work
<1>8. CASE ~(reanalyse /\ n \notin Leaves)
  <2>1. RunOK' /\ run'.pc = "check" /\ run'.phase = [run.phase EXCEPT ![n] = "nodes"]
        /\ run'.stack = run.stack /\ run'.relevant = run.relevant /\ run'.at = run.at
        /\ run'.compiled = run.compiled /\ run'.source = run.source /\ run'.copy = run.copy
        /\ run'.scan = scanned /\ run'.work = run.work
    BY <1>1, <1>5, <1>6, <1>8 DEF RunOK, HasRun
  <2>2. \/ node' = [node EXCEPT ![n] = node[n]] /\ ~reanalyse
        \/ node' = [node EXCEPT ![n] = SetState(node[n], "uncompiled")] /\ recompile
        \/ n \in Leaves /\ node' = [node EXCEPT ![n] =
                                     SetState(SetState(node[n], "unanalyzed"), "uncompiled")]
    BY <1>1, <1>8
  <2> QED
    BY <1>1, <1>2, <1>3, <1>4, <1>6, <2>1, <2>2
<1> QED
  BY <1>7, <1>8

LEMMA ScanIsNodes ==
  ASSUME TypesInv
  PROVE  InDirectory \in Seq(Nodes) /\ Scan \in Seq(Nodes)
<1>1. InDirectory \in Seq(Nodes)
  BY BuildSystemAssumption, AmongElements DEF InDirectory
<1> QED
  BY <1>1 DEF Scan, TypesInv, ProcessOK

LEMMA CheckFilesTypes ==
  ASSUME TypesInv, NEW n \in Nodes, CheckFiles(n)
  PROVE  TypesInv'
<1>1. IsNode(node[n]) /\ NodesOK
  BY DEF TypesInv, NodesOK
<1>2. RunOK' /\ file' = file /\ cache' = cache
  BY CheckFilesSets DEF disk
<1>3. NodesOK'
  <2>1. IsNode([SetState(node[n], "unanalyzed") EXCEPT !.version = version[n]])
    <3>1. IsNode(SetState(node[n], "unanalyzed"))
      BY <1>1, SetStateIsNode
    <3> QED
      BY <3>1, SetVersionIsNode DEF VersionSet
  <2>2. IsNode(SetState(node[n], "uncompiled"))
    BY <1>1, SetStateIsNode
  <2>3. IsNode(SetState(SetState(node[n], "unanalyzed"), "uncompiled"))
    BY <1>1, SetStateIsNode
  <2>4. CASE node' = [node EXCEPT ![n] = [SetState(node[n], "unanalyzed") EXCEPT !.version = version[n]]]
    BY <1>1, <2>1, <2>4, OneNodeChanges
  <2>5. CASE node' = [node EXCEPT ![n] = node[n]]
    BY <1>1, <2>5, OneNodeChanges
  <2>6. CASE node' = [node EXCEPT ![n] = SetState(node[n], "uncompiled")]
    BY <1>1, <2>2, <2>6, OneNodeChanges
  <2>7. CASE node' = [node EXCEPT ![n] = SetState(SetState(node[n], "unanalyzed"), "uncompiled")]
    BY <1>1, <2>3, <2>7, OneNodeChanges
  <2> QED
    BY <2>4, <2>5, <2>6, <2>7, CheckFilesSets
<1>4. ProcessOK'
  <2>1. run'.pc \in {"work", "check"} /\ run'.scan \in Seq(Nodes) \cup {None}
    BY CheckFilesSets, ScanIsNodes DEF TypesInv, ProcessOK
  <2>2. run'.phase \in [Nodes -> {"none", "files", "enumerate", "nodes", "completed"}]
    BY CheckFilesSets DEF TypesInv, ProcessOK
  <2> QED
    BY <2>1, <2>2, CheckFilesSets DEF TypesInv, ProcessOK
<1>5. WorkOK'
  <2>1. CASE run'.pc = "work"
    <3>1. n \notin Leaves
          /\ run'.work = WorkOn(n, "analysis", <<Source(n)>>)
      BY <2>1, CheckFilesSets
    <3>2. /\ HasWork(run'.work) /\ run'.work.node = n /\ run'.work.stage = "analysis"
          /\ run'.work.todo = <<Source(n)>> /\ run'.work.open = FALSE /\ run'.work.created = FALSE
      <4>1. Starts(run'.work, n, "analysis", <<Source(n)>>)
        BY <3>1, NewWork
      <4> QED
        BY <4>1 DEF Starts
    <3>3. <<Source(n)>> # <<>>
      OBVIOUS
    <3> HIDE DEF Source
    <3> QED
      BY <2>1, <3>2, <3>3 DEF WorkOK, Work
  <2>2. CASE run'.pc # "work"
    <3>1. run'.work = NoWork
      BY <2>2, CheckFilesSets DEF TypesInv, WorkOK, Work
    <3> QED
      BY <2>2, <3>1 DEF WorkOK, HasWork, Work, NoWork
  <2> QED
    BY <2>1, <2>2
<1>6. run'.pc # "save"
  BY CheckFilesSets
<1> QED
  BY <1>2, <1>3, <1>4, <1>5, <1>6, SameTexts, SameSaved DEF TypesInv

LEMMA FrontIsSeq ==
  ASSUME NEW A, NEW s \in Seq(A), s # <<>>
  PROVE  /\ Front(s) \in Seq(A) /\ Len(Front(s)) = Len(s) - 1 /\ Len(s) \in Nat \ {0}
         /\ \A i \in 1..Len(s) - 1 : Front(s)[i] = s[i]
         /\ Last(s) \in A /\ Last(s) = s[Len(s)]
BY DEF Front, Last

LEMMA NextDependencyIs ==
  ASSUME TypesInv, NEW n \in Nodes
  PROVE  \/ NextDependency(n) = 0 /\ \A d \in ToSet(node[n].deps) : run.phase[d] = "completed"
         \/ /\ NextDependency(n) \in 1..Len(node[n].deps) /\ NextDependency(n) # 0
            /\ node[n].deps[NextDependency(n)] \in ToSet(node[n].deps)
            /\ node[n].deps[NextDependency(n)] \in Nodes
            /\ run.phase[node[n].deps[NextDependency(n)]] # "completed"
<1> DEFINE deps == node[n].deps
           I == {i \in 1..Len(deps) : run.phase[deps[i]] # "completed"}
<1>1. NextDependency(n) = IF I # {} THEN Min(I) ELSE 0
  BY DEF NextDependency, SelectInSeq
<1>2. deps \in Seq(Nodes)
  BY DEF TypesInv, NodesOK, IsNode
<1>3. I # {} => Min(I) \in I
  <2>1. I \in SUBSET Nat
    OBVIOUS
  <2> HIDE DEF I
  <2> QED
    BY <2>1, LeastNumber
<1> HIDE DEF deps
<1>4. CASE I = {}
  <2>1. \A i \in 1..Len(deps) : run.phase[deps[i]] = "completed"
    BY <1>4
  <2>2. \A d \in ToSet(deps) : run.phase[d] = "completed"
    BY <1>2, <2>1 DEF ToSet
  <2> QED
    BY <1>1, <1>4, <2>2 DEF deps
<1>5. CASE I # {}
  <2>1. NextDependency(n) \in I
    BY <1>1, <1>3, <1>5
  <2>2. NextDependency(n) \in 1..Len(deps) /\ run.phase[deps[NextDependency(n)]] # "completed"
    BY <2>1
  <2>3. deps[NextDependency(n)] \in ToSet(deps) /\ deps[NextDependency(n)] \in Nodes
    BY <1>2, <2>2 DEF ToSet
  <2>4. NextDependency(n) # 0
    BY <2>2
  <2> QED
    BY <2>2, <2>3, <2>4 DEF deps
<1> QED
  BY <1>4, <1>5

LEMMA CheckDependencySets ==
  ASSUME TypesInv, NEW n \in Nodes, CheckDependency(n)
  PROVE  \E d \in ToSet(node[n].deps) :
         /\ d \in Nodes /\ run.phase[d] = "none"
         /\ run.pc = "check" /\ run.stack # <<>> /\ n = Top /\ run.phase[n] = "nodes"
         /\ RunOK' /\ disk' = disk /\ past' = past /\ node' = node
         /\ run'.pc = "check" /\ run'.relevant = Append(run.relevant, d)
         /\ run'.stack = Append(run.stack, d) /\ run'.phase = [run.phase EXCEPT ![d] = "files"]
         /\ run'.at = run.at /\ run'.compiled = run.compiled /\ run'.cached = run.cached
         /\ run'.scan = run.scan /\ run'.source = run.source /\ run'.work = run.work
         /\ run'.copy = run.copy /\ run'.pending = run.pending
<1> DEFINE d == node[n].deps[NextDependency(n)]
<1>1. d \in ToSet(node[n].deps) /\ d \in Nodes
  BY NextDependencyIs DEF CheckDependency
<1>2. /\ AtTop(n, "nodes") /\ run.phase[d] = "none" /\ disk' = disk /\ past' = past /\ node' = node
      /\ run' = [run EXCEPT !.relevant = Append(@, d), !.stack = Append(@, d), !.phase[d] = "files"]
  BY DEF CheckDependency
<1> HIDE DEF d
<1>3. /\ run.pc = "check" /\ run.stack # <<>> /\ n = Top /\ run.phase[n] = "nodes"
  BY <1>2 DEF AtTop
<1>4. /\ RunOK'
      /\ run'.pc = run.pc /\ run'.relevant = Append(run.relevant, d)
      /\ run'.stack = Append(run.stack, d) /\ run'.phase = [run.phase EXCEPT ![d] = "files"]
      /\ run'.at = run.at /\ run'.compiled = run.compiled /\ run'.cached = run.cached
      /\ run'.scan = run.scan /\ run'.source = run.source /\ run'.work = run.work
      /\ run'.copy = run.copy /\ run'.pending = run.pending
  BY <1>2 DEF RunOK, HasRun, TypesInv
<1> QED
  BY <1>1, <1>2, <1>3, <1>4

LEMMA CheckDependencyTypes ==
  ASSUME TypesInv, NEW n \in Nodes, CheckDependency(n)
  PROVE  TypesInv'
<1>1. PICK d \in ToSet(node[n].deps) :
         /\ d \in Nodes /\ run.pc = "check"
         /\ RunOK' /\ disk' = disk /\ node' = node
         /\ run'.pc = "check" /\ run'.relevant = Append(run.relevant, d)
         /\ run'.stack = Append(run.stack, d) /\ run'.phase = [run.phase EXCEPT ![d] = "files"]
         /\ run'.at = run.at /\ run'.scan = run.scan /\ run'.work = run.work
  BY CheckDependencySets
<1>2. ProcessOK'
  BY <1>1 DEF TypesInv, ProcessOK
<1>3. NodesOK' /\ run'.work = NoWork /\ file' = file /\ cache' = cache
  BY <1>1 DEF TypesInv, NodesOK, WorkOK, Work, disk
<1> QED
  BY <1>1, <1>2, <1>3, PlainStep

LEMMA DependenciesCheckedSets ==
  ASSUME TypesInv, NEW n \in Nodes, DependenciesChecked(n)
  PROVE  /\ run.pc = "check" /\ run.stack # <<>> /\ n = Top /\ run.phase[n] = "nodes"
         /\ \A d \in ToSet(node[n].deps) : run.phase[d] = "completed"
         /\ RunOK' /\ disk' = disk /\ past' = past
         /\ run'.pc = "check" /\ run'.relevant = run.relevant
         /\ run'.stack = Front(run.stack) /\ run'.phase = [run.phase EXCEPT ![n] = "completed"]
         /\ run'.at = run.at /\ run'.compiled = run.compiled /\ run'.cached = run.cached
         /\ run'.scan = run.scan /\ run'.source = run.source /\ run'.work = run.work
         /\ run'.copy = run.copy /\ run'.pending = run.pending
         /\ \/ /\ \E d \in ToSet(node[n].deps) : node[d].state # "current"
               /\ node' = [node EXCEPT ![n] = SetState(node[n], "uncompiled")]
            \/ /\ \A d \in ToSet(node[n].deps) : node[d].state = "current"
               /\ node' = node
<1>1. /\ AtTop(n, "nodes") /\ NextDependency(n) = 0 /\ disk' = disk /\ past' = past
      /\ run' = [run EXCEPT !.phase[n] = "completed", !.stack = Front(@)]
      /\ node' = IF \E d \in ToSet(node[n].deps) : node[d].state # "current"
                 THEN [node EXCEPT ![n] = SetState(@, "uncompiled")] ELSE node
  BY DEF DependenciesChecked
<1>2. run.pc = "check" /\ run.stack # <<>> /\ n = Top /\ run.phase[n] = "nodes"
  BY <1>1 DEF AtTop
<1>3. \A d \in ToSet(node[n].deps) : run.phase[d] = "completed"
  BY <1>1, NextDependencyIs
<1>4. /\ RunOK'
      /\ run'.pc = run.pc /\ run'.relevant = run.relevant
      /\ run'.stack = Front(run.stack) /\ run'.phase = [run.phase EXCEPT ![n] = "completed"]
      /\ run'.at = run.at /\ run'.compiled = run.compiled /\ run'.cached = run.cached
      /\ run'.scan = run.scan /\ run'.source = run.source /\ run'.work = run.work
      /\ run'.copy = run.copy /\ run'.pending = run.pending
  BY <1>1 DEF RunOK, HasRun, TypesInv
<1> QED
  BY <1>1, <1>2, <1>3, <1>4

LEMMA DependenciesCheckedTypes ==
  ASSUME TypesInv, NEW n \in Nodes, DependenciesChecked(n)
  PROVE  TypesInv'
<1>1. NodesOK'
  <2>1. IsNode(SetState(node[n], "uncompiled"))
    BY SetStateIsNode DEF TypesInv, NodesOK
  <2>2. CASE node' = [node EXCEPT ![n] = SetState(node[n], "uncompiled")]
    BY <2>1, <2>2, OneNodeChanges DEF TypesInv
  <2>3. CASE node' = node
    BY <2>3 DEF TypesInv, NodesOK
  <2> QED
    BY <2>2, <2>3, DependenciesCheckedSets
<1>2. /\ RunOK' /\ disk' = disk /\ run.pc = "check"
      /\ run'.pc = "check" /\ run'.relevant = run.relevant /\ run.stack # <<>>
      /\ run'.stack = Front(run.stack) /\ run'.phase = [run.phase EXCEPT ![n] = "completed"]
      /\ run'.at = run.at /\ run'.scan = run.scan /\ run'.work = run.work
  BY DependenciesCheckedSets
<1>3. run'.stack \in Seq(Nodes)
  <2>1. run.stack \in Seq(Nodes) /\ run.stack # <<>>
    BY <1>2 DEF TypesInv, ProcessOK
  <2>2. Front(run.stack) \in Seq(Nodes)
    BY <2>1, FrontIsSeq
  <2> QED
    BY <1>2, <2>2
<1>4. ProcessOK'
  BY <1>2, <1>3 DEF TypesInv, ProcessOK
<1>5. run'.work = NoWork /\ file' = file /\ cache' = cache
  BY <1>2 DEF TypesInv, WorkOK, Work, disk
<1> QED
  BY <1>1, <1>2, <1>4, <1>5, PlainStep

-----------------------------------------------------------------------------
(* The compile loop and the compilers' work.                               *)
LEMMA NextNodeIs ==
  ASSUME TypesInv, run.at < Len(run.relevant)
  PROVE  /\ NextNode \in Nodes /\ Len(run.relevant) - run.at \in 1..Len(run.relevant)
         /\ NextNode = run.relevant[Len(run.relevant) - run.at]
<1>1. run.relevant \in Seq(Nodes) /\ run.at \in Nat /\ Len(run.relevant) \in Nat
  BY DEF TypesInv, ProcessOK
<1>2. Len(run.relevant) - run.at \in 1..Len(run.relevant)
  BY <1>1
<1> QED
  BY <1>1, <1>2 DEF NextNode

LEMMA NotCompiledAgainSets ==
  ASSUME TypesInv, NotCompiledAgain
  PROVE  /\ run.pc = "compile" /\ run.at < Len(run.relevant) /\ node[NextNode].state # "uncompiled"
         /\ RunOK' /\ disk' = disk /\ past' = past /\ node' = node
         /\ run'.pc = "compile" /\ run'.relevant = run.relevant /\ run'.stack = run.stack
         /\ run'.phase = run.phase /\ run'.at = run.at + 1 /\ run'.compiled = run.compiled
         /\ run'.cached = run.cached /\ run'.scan = run.scan /\ run'.source = run.source
         /\ run'.work = run.work /\ run'.copy = run.copy
BY DEF NotCompiledAgain, AtCompile, RunOK, HasRun, TypesInv

LEMMA NotCompiledAgainTypes ==
  ASSUME TypesInv, NotCompiledAgain
  PROVE  TypesInv'
<1>1. ProcessOK'
  BY NotCompiledAgainSets DEF TypesInv, ProcessOK
<1>2. NodesOK' /\ run'.work = NoWork /\ file' = file /\ cache' = cache
  BY NotCompiledAgainSets DEF TypesInv, NodesOK, WorkOK, Work, disk
<1> QED
  BY <1>1, <1>2, NotCompiledAgainSets, PlainStep

LEMMA CompileDepsNodeSets ==
  ASSUME TypesInv, CompileDepsNode
  PROVE  /\ run.pc = "compile" /\ run.at < Len(run.relevant)
         /\ node[NextNode].state = "uncompiled" /\ NextNode \in DepsNodes
         /\ RunOK' /\ disk' = disk /\ past' = past
         /\ node' = [node EXCEPT ![NextNode] =
                       [SetState(node[NextNode], "current") EXCEPT !.version = version[NextNode]]]
         /\ run'.pc = "compile" /\ run'.relevant = run.relevant /\ run'.stack = run.stack
         /\ run'.phase = run.phase /\ run'.at = run.at + 1
         /\ run'.compiled = run.compiled \cup {NextNode}
         /\ run'.cached = run.cached /\ run'.scan = run.scan /\ run'.source = run.source
         /\ run'.work = run.work /\ run'.copy = run.copy
BY DEF CompileDepsNode, AtCompile, RunOK, HasRun, TypesInv

LEMMA CompileDepsNodeTypes ==
  ASSUME TypesInv, CompileDepsNode
  PROVE  TypesInv'
<1> DEFINE n == NextNode
           y == SetState(node[n], "current")
           x == [y EXCEPT !.version = version[n]]
<1>1. /\ run.at < Len(run.relevant) /\ node' = [node EXCEPT ![n] = x] /\ RunOK'
      /\ disk' = disk
      /\ run'.pc = "compile" /\ run'.relevant = run.relevant /\ run'.stack = run.stack
      /\ run'.phase = run.phase /\ run'.at = run.at + 1 /\ run'.scan = run.scan
      /\ run'.work = run.work /\ run.pc = "compile"
  BY CompileDepsNodeSets
<1>2. n \in Nodes
  BY <1>1, NextNodeIs
<1> HIDE DEF n
<1>3. IsNode(y)
  BY <1>2, SetStateIsNode DEF TypesInv, NodesOK
<1> HIDE DEF y
<1>4. IsNode(x)
  BY <1>3, SetVersionIsNode DEF VersionSet
<1> HIDE DEF x
<1>5. NodesOK'
  BY <1>1, <1>2, <1>4, OneNodeChanges DEF TypesInv
<1>6. ProcessOK'
  BY <1>1 DEF TypesInv, ProcessOK
<1>7. run'.work = NoWork /\ file' = file /\ cache' = cache
  BY <1>1 DEF TypesInv, WorkOK, Work, disk
<1> QED
  BY <1>1, <1>5, <1>6, <1>7, PlainStep

LEMMA StartCompileSets ==
  ASSUME TypesInv, StartCompile
  PROVE  /\ run.pc = "compile" /\ run.at < Len(run.relevant)
         /\ node[NextNode].state = "uncompiled" /\ NextNode \notin DepsNodes
         /\ RunOK' /\ disk' = disk /\ past' = past
         /\ node' = [node EXCEPT ![NextNode] = [node[NextNode] EXCEPT !.version = version[NextNode]]]
         /\ run'.pc = "work" /\ run'.relevant = run.relevant /\ run'.stack = run.stack
         /\ run'.phase = run.phase /\ run'.at = run.at /\ run'.compiled = run.compiled
         /\ run'.cached = run.cached /\ run'.scan = run.scan /\ run'.source = run.source
         /\ run'.copy = run.copy
         /\ run'.work = WorkOn(NextNode, "compile",
                                  IF NextNode \in Leaves THEN <<Source(NextNode)>>
                                  ELSE <<Analysis(NextNode)>>)
<1> DEFINE todo == IF NextNode \in Leaves THEN <<Source(NextNode)>> ELSE <<Analysis(NextNode)>>
           n == NextNode
<1>1. /\ run.pc = "compile" /\ run.at < Len(run.relevant)
      /\ node[n].state = "uncompiled" /\ n \notin DepsNodes
      /\ disk' = disk /\ past' = past
      /\ node' = [node EXCEPT ![n].version = version[n]]
      /\ run' = [run EXCEPT !.pc = "work",
                            !.work = WorkOn(n, "compile", todo)]
  BY DEF StartCompile, AtCompile
<1> HIDE DEF n, todo
<1>2. node' = [node EXCEPT ![n] = [node[n] EXCEPT !.version = version[n]]]
  BY <1>1
<1>3. /\ RunOK' /\ run'.pc = "work" /\ run'.relevant = run.relevant /\ run'.stack = run.stack
      /\ run'.phase = run.phase /\ run'.at = run.at /\ run'.compiled = run.compiled
      /\ run'.cached = run.cached /\ run'.scan = run.scan /\ run'.source = run.source
      /\ run'.copy = run.copy
      /\ run'.work = WorkOn(n, "compile", todo)
  BY <1>1 DEF RunOK, HasRun, TypesInv
<1> QED
  BY <1>1, <1>2, <1>3 DEF n, todo

LEMMA StartCompileTypes ==
  ASSUME TypesInv, StartCompile
  PROVE  TypesInv'
<1> DEFINE n == NextNode
           todo == IF NextNode \in Leaves THEN <<Source(NextNode)>> ELSE <<Analysis(NextNode)>>
           x == [node[n] EXCEPT !.version = version[n]]
<1>1. /\ run.at < Len(run.relevant) /\ node' = [node EXCEPT ![n] = x] /\ RunOK'
      /\ disk' = disk /\ n \notin DepsNodes
      /\ run'.pc = "work" /\ run'.relevant = run.relevant /\ run'.stack = run.stack
      /\ run'.phase = run.phase /\ run'.at = run.at /\ run'.scan = run.scan /\ run.pc = "compile"
      /\ run'.work = WorkOn(n, "compile", todo)
  BY StartCompileSets
<1>2. n \in Nodes
  BY <1>1, NextNodeIs
<1> HIDE DEF n, todo
<1>3. IsNode(x)
  BY <1>2, SetVersionIsNode DEF VersionSet, TypesInv, NodesOK
<1> HIDE DEF x
<1>4. NodesOK'
  BY <1>1, <1>2, <1>3, OneNodeChanges DEF TypesInv
<1>5. ProcessOK'
  BY <1>1 DEF TypesInv, ProcessOK
<1>6. WorkOK'
  <2>1. /\ HasWork(run'.work) /\ run'.work.node = n /\ run'.work.stage = "compile"
        /\ run'.work.open = FALSE /\ run'.work.created = FALSE
    <3>1. Starts(run'.work, n, "compile", todo)
      BY <1>1, NewWork
    <3> QED
      BY <3>1 DEF Starts
  <2> QED
    BY <1>1, <1>2, <2>1 DEF WorkOK, Work
<1>7. file' = file /\ cache' = cache
  BY <1>1 DEF disk
<1> QED
  BY <1>1, <1>4, <1>5, <1>6, <1>7, SameTexts, SameSaved DEF TypesInv

(* A step of a compiler's work goes on with the same nodes.                *)
CourseKept(r) ==
  /\ r.phase = run.phase /\ r.stack = run.stack /\ r.relevant = run.relevant
  /\ r.at = run.at /\ r.compiled = run.compiled /\ r.copy = run.copy

SameCourse == CourseKept(run')

LEMMA SameCourseProcess ==
  ASSUME TypesInv, SameCourse, run'.pc = "work", run'.scan \in Seq(Nodes) \cup {None}
  PROVE  ProcessOK'
BY DEF TypesInv, ProcessOK, SameCourse, CourseKept

(* The node that is worked on, and the way its work is left.               *)
LEMMA WorkStep ==
  ASSUME TypesInv, RunOK', ProcessOK', NodesOK', WorkOK', TextsOK', cache' = cache, run'.pc # "save"
  PROVE  TypesInv'
BY SameSaved DEF TypesInv

(* What OpenInput records of the file it opens.                            *)
PathKept == IF Resolve(Reading) = 0 THEN NoFile ELSE Reading

LEMMA OpenInputSets ==
  ASSUME TypesInv, OpenInput
  PROVE  /\ run.pc = "work" /\ Work.todo # <<>> /\ ~Work.open
         /\ RunOK' /\ disk' = disk /\ past' = past /\ SameCourse
         /\ run'.pc = "work" /\ run'.scan = run.scan /\ run'.source = run.source
         /\ run'.cached = Resolved({Reading})
         /\ run'.work = [Work EXCEPT !.open = TRUE]
         /\ node' = [node EXCEPT ![Work.node] =
              [node[Work.node] EXCEPT ![Work.stage].inputs =
                 Recorded(node[Work.node][Work.stage].inputs, PathKept, Resolve(Reading))]]
<1> DEFINE n == Work.node
           cached == Resolved({Reading})
           list == Recorded(node[n][Work.stage].inputs, PathKept, Resolve(Reading))
<1>1. /\ run.pc = "work" /\ Work.todo # <<>> /\ ~Work.open
      /\ run' = [run EXCEPT !.work.open = TRUE, !.cached = cached]
      /\ node' = [node EXCEPT ![n][Work.stage].inputs = list]
      /\ UNCHANGED <<disk, past>>
  BY DEF OpenInput, PathKept
<1> HIDE DEF cached, list
<1>2. /\ RunOK' /\ SameCourse
      /\ run'.pc = "work" /\ run'.scan = run.scan /\ run'.source = run.source
      /\ run'.cached = cached /\ run'.work = [Work EXCEPT !.open = TRUE]
  BY <1>1 DEF RunOK, HasRun, TypesInv, SameCourse, CourseKept, Work
<1>3. node' = [node EXCEPT ![n] = [node[n] EXCEPT ![Work.stage].inputs = list]]
  BY <1>1
<1> QED
  BY <1>1, <1>2, <1>3 DEF cached, list

LEMMA OpenInputTypes ==
  ASSUME TypesInv, OpenInput
  PROVE  TypesInv'
<1> DEFINE n == Work.node
           list == Recorded(node[n][Work.stage].inputs, PathKept, Resolve(Reading))
           x == [node[n] EXCEPT ![Work.stage].inputs = list]
           w == [Work EXCEPT !.open = TRUE]
<1>1. /\ run.pc = "work" /\ Work.todo # <<>> /\ ~Work.open
      /\ RunOK' /\ disk' = disk /\ SameCourse
      /\ run'.pc = "work" /\ run'.scan = run.scan
      /\ run'.work = w /\ node' = [node EXCEPT ![n] = x]
  BY OpenInputSets
<1> HIDE DEF list
<1>2. n \in Nodes /\ Work.stage \in {"analysis", "compile"} /\ IsNode(node[n])
  BY <1>1 DEF TypesInv, WorkOK, NodesOK
<1>3. IsNode(x)
  BY <1>2, SetInputs DEF InputsSet
<1> HIDE DEF x
<1>4. NodesOK'
  BY <1>1, <1>2, <1>3, OneNodeChanges DEF TypesInv
<1>5. ProcessOK'
  BY <1>1, SameCourseProcess DEF TypesInv, ProcessOK
<1>6. WorkOK'
  <2>1. HasWork(Work) /\ HasWork(w)
    BY WorkStays DEF TypesInv, WorkOK
  <2>2. /\ w.node = Work.node /\ w.stage = Work.stage /\ w.todo = Work.todo /\ w.open = TRUE
        /\ w.created = Work.created /\ w.items = Work.items
    BY <2>1 DEF HasWork
  <2> HIDE DEF w
  <2> QED
    BY <1>1, <2>1, <2>2 DEF TypesInv, WorkOK, Work
<1>7. TextsOK' /\ cache' = cache
  BY <1>1, SameTexts DEF TypesInv, disk
<1> QED
  BY <1>1, <1>4, <1>5, <1>6, <1>7, WorkStep

-----------------------------------------------------------------------------
(* The reading of a file.                                                  *)
HasRead(r, w) ==
  /\ HasRun(r) /\ CourseKept(r) /\ r.pc = "work"
  /\ r.scan = run.scan /\ r.source = run.source /\ r.cached = run.cached
  /\ HasWork(r.work) /\ r.work.open = FALSE /\ r.work.created = w.created
  /\ r.work.node = w.node /\ r.work.stage = w.stage /\ r.work.todo = w.todo
  /\ r.work.items = w.items /\ r.work.made = w.made

LEMMA DoneReadingSets ==
  ASSUME TypesInv, run.pc = "work", NEW w, HasWork(w)
  PROVE  HasRead(DoneReading(w), w)
<1> DEFINE closed == [w EXCEPT !.open = FALSE]
           r == [run EXCEPT !.work = closed]
<1>1. HasWork(closed)
  BY WorkStays
<1>2. /\ closed.open = FALSE /\ closed.created = w.created /\ closed.node = w.node
      /\ closed.stage = w.stage /\ closed.todo = w.todo /\ closed.items = w.items
      /\ closed.made = w.made
  BY DEF HasWork
<1>3. DoneReading(w) = r
  BY DEF DoneReading
<1> HIDE DEF closed
<1>4. /\ HasRun(r) /\ CourseKept(r) /\ r.pc = "work" /\ r.work = closed
      /\ r.scan = run.scan /\ r.source = run.source /\ r.cached = run.cached
  BY DEF RunOK, HasRun, TypesInv, CourseKept
<1> HIDE DEF r
<1> QED
  BY <1>1, <1>2, <1>3, <1>4 DEF HasRead

(* What a step of reading leaves, if it gives no items to a deps node.     *)
LEMMA ReadingTypes ==
  ASSUME TypesInv, run.pc = "work", Work.open, SameCourse, RunOK', NodesOK', disk' = disk,
         run'.pc = "work", run'.scan \in Seq(Nodes) \cup {None},
         HasWork(run'.work), run'.work.open = FALSE, run'.work.created = Work.created,
         run'.work.node = Work.node, run'.work.stage = Work.stage,
         Work.node \in DepsNodes /\ run'.work.todo = <<>> => run'.work.items \in Seq(Nodes)
  PROVE  TypesInv'
<1>1. ProcessOK'
  BY SameCourseProcess
<1>2. Work.created = FALSE
  BY DEF TypesInv, WorkOK
<1>3. WorkOK'
  BY <1>2 DEF TypesInv, WorkOK, Work
<1>4. TextsOK' /\ cache' = cache
  BY SameTexts DEF TypesInv, disk
<1> QED
  BY <1>1, <1>3, <1>4, WorkStep

(* Work after some of its parts have changed.                              *)
WorkWith(w, todo, items, made) ==
  /\ HasWork(w) /\ w.node = Work.node /\ w.stage = Work.stage /\ w.created = Work.created
  /\ w.todo = todo /\ w.items = items /\ w.made = made

LEMMA ChangeWork ==
  ASSUME HasWork(Work), NEW todo, NEW items, NEW made
  PROVE  /\ WorkWith([Work EXCEPT !.todo = todo], todo, Work.items, Work.made)
         /\ WorkWith([Work EXCEPT !.todo = todo, !.items = items], todo, items, Work.made)
         /\ WorkWith([Work EXCEPT !.todo = todo, !.made = made], todo, Work.items, made)
         /\ WorkWith([Work EXCEPT !.todo = todo, !.made = made, !.items = items], todo, items, made)
<1> DEFINE w1 == [Work EXCEPT !.todo = todo]
           w2 == [w1 EXCEPT !.items = items]
           w3 == [w1 EXCEPT !.made = made]
           w4 == [w3 EXCEPT !.items = items]
<1>1. WorkWith(w1, todo, Work.items, Work.made)
  <2>1. HasWork(w1)
    BY WorkStays
  <2> QED
    BY <2>1 DEF HasWork, WorkWith
<1>2. /\ [Work EXCEPT !.todo = todo, !.items = items] = w2
      /\ [Work EXCEPT !.todo = todo, !.made = made] = w3
      /\ [Work EXCEPT !.todo = todo, !.made = made, !.items = items] = w4
  BY DEF HasWork
<1> HIDE DEF w1
<1>3. WorkWith(w2, todo, items, Work.made)
  <2>1. HasWork(w2)
    BY <1>1, WorkStays DEF WorkWith
  <2> QED
    BY <1>1, <2>1 DEF HasWork, WorkWith
<1>4. WorkWith(w3, todo, Work.items, made)
  <2>1. HasWork(w3)
    BY <1>1, WorkStays DEF WorkWith
  <2> QED
    BY <1>1, <2>1 DEF HasWork, WorkWith
<1> HIDE DEF w3
<1>5. WorkWith(w4, todo, items, made)
  <2>1. HasWork(w4)
    BY <1>4, WorkStays DEF WorkWith
  <2> QED
    BY <1>4, <2>1 DEF HasWork, WorkWith
<1> HIDE DEF w2, w4
<1> QED
  BY <1>1, <1>2, <1>3, <1>4, <1>5 DEF w1

(* A source that can be read holds one of its node's texts.                *)
LEMMA TextIsText ==
  ASSUME TypesInv, NEW n \in Nodes, file[Source(n)].data \notin {Absent, Partial}
  PROVE  file[Source(n)].data \in Texts[n]
BY DEF TypesInv, TextsOK

Text(n) == file[Source(n)].data
NamesIn(n) == IF Text(n) = Wildcard THEN Scan ELSE Text(n)

LEMMA ReadDepsFileSets ==
  ASSUME TypesInv, NEW n \in DepsNodes, ReadDepsFile(n)
  PROVE  /\ run.pc = "work" /\ Work.node = n /\ Work.open /\ Reading = Source(n)
         /\ Text(n) \in Texts[n] /\ NamesIn(n) \in Seq(Nodes)
         /\ RunOK' /\ SameCourse /\ run'.pc = "work" /\ disk' = disk /\ past' = past
         /\ run'.scan = (IF Text(n) = Wildcard THEN Scan ELSE run.scan)
         /\ run'.source = run.source /\ run'.cached = run.cached
         /\ WorkWith(run'.work, <<>>, NamesIn(n), <<Text(n)>>) /\ run'.work.open = FALSE
         /\ node' = [node EXCEPT ![n] = [node[n] EXCEPT
                       !.scan = IF Text(n) = Wildcard THEN Scan ELSE node[n].scan]]
<1> DEFINE text == Text(n)
           names == NamesIn(n)
           w == [Work EXCEPT !.todo = <<>>, !.made = <<text>>, !.items = names]
           r == DoneReading(w)
           scan == IF text = Wildcard THEN Scan ELSE r.scan
           kept == IF text = Wildcard THEN Scan ELSE node[n].scan
<1>1. /\ Reads(n, Source(n)) /\ disk' = disk /\ past' = past
      /\ node' = [node EXCEPT ![n].scan = kept]
      /\ run' = [r EXCEPT !.scan = scan]
  BY DEF ReadDepsFile, Text, NamesIn
<1>2. /\ run.pc = "work" /\ Work.node = n /\ Work.open /\ Reading = Source(n)
      /\ text \notin {Absent, Partial}
  BY <1>1 DEF Reads, Text
<1>3. n \in Nodes /\ text \in Texts[n]
  BY <1>2, TextIsText DEF Nodes, Text
<1>4. names \in Seq(Nodes)
  BY <1>3, ScanIsNodes, TextsAssumption DEF NamesIn
<1> HIDE DEF text, names
<1>5. WorkWith(w, <<>>, names, <<text>>)
  BY ChangeWork DEF TypesInv, WorkOK
<1> HIDE DEF w
<1>6. HasRead(r, w)
  BY <1>2, <1>5, DoneReadingSets DEF WorkWith
<1> HIDE DEF r, kept
<1>7. /\ HasRun(run') /\ CourseKept(run') /\ run'.pc = "work" /\ run'.scan = scan
      /\ run'.source = run.source /\ run'.cached = run.cached /\ run'.work = r.work
  BY <1>1, <1>6 DEF HasRead, HasRun, CourseKept
<1>8. WorkWith(run'.work, <<>>, names, <<text>>) /\ run'.work.open = FALSE
  BY <1>5, <1>6, <1>7 DEF HasRead, WorkWith
<1>9. scan = IF text = Wildcard THEN Scan ELSE run.scan
  BY <1>6 DEF HasRead
<1>10. node' = [node EXCEPT ![n] = [node[n] EXCEPT !.scan = kept]]
  BY <1>1
<1> QED
  BY <1>1, <1>2, <1>3, <1>4, <1>7, <1>8, <1>9, <1>10 DEF text, names, kept, SameCourse, RunOK

LEMMA ReadDepsFileTypes ==
  ASSUME TypesInv, NEW n \in DepsNodes, ReadDepsFile(n)
  PROVE  TypesInv'
<1> DEFINE kept == IF Text(n) = Wildcard THEN Scan ELSE node[n].scan
           x == [node[n] EXCEPT !.scan = kept]
<1>1. n \in Nodes /\ IsNode(node[n]) /\ Scan \in Seq(Nodes)
  BY ScanIsNodes DEF Nodes, TypesInv, NodesOK
<1>2. kept \in Seq(Nodes) \cup {None}
  BY <1>1 DEF IsNode
<1> HIDE DEF kept
<1>3. IsNode(x)
  BY <1>1, <1>2, SetScan DEF ScanSet
<1>4. node' = [node EXCEPT ![n] = x]
  BY ReadDepsFileSets DEF kept
<1> HIDE DEF x
<1>5. NodesOK'
  BY <1>1, <1>3, <1>4, OneNodeChanges DEF TypesInv
<1>6. run'.scan \in Seq(Nodes) \cup {None}
  BY <1>1, ReadDepsFileSets DEF TypesInv, ProcessOK
<1> QED
  BY <1>5, <1>6, ReadDepsFileSets, ReadingTypes DEF WorkWith

-----------------------------------------------------------------------------
(* What an asset's source names.                                           *)
LEMMA OfElements ==
  ASSUME NEW A, NEW items \in Seq(A), NEW kinds
  PROVE  /\ Of(kinds, items) \in Seq(A)
         /\ ToSet(Of(kinds, items)) = {i \in ToSet(items) : i[1] \in kinds}
<1> DEFINE S == {i \in ToSet(items) : i[1] \in kinds}
<1>1. Of(kinds, items) = Among(items, S)
  BY DEF Of
<1>2. Among(items, S) \in Seq(A) /\ ToSet(Among(items, S)) = ToSet(items) \cap S
  BY AmongElements
<1> QED
  BY <1>1, <1>2

LEMMA SeqElements ==
  ASSUME NEW A, NEW s \in Seq(A)
  PROVE  ToSet(s) \subseteq A /\ \A i \in DOMAIN s : s[i] \in ToSet(s)
BY DEF ToSet

LEMMA NodesOfIs ==
  ASSUME NEW n, NEW items \in Seq(Items(n))
  PROVE  /\ NodesOf(items) \in Seq(Nodes)
         /\ \A m : m \in ToSet(NodesOf(items)) <=>
                     \E i \in ToSet(items) : i[1] \in {"product", "deps"} /\ m = i[2]
<1> DEFINE uses == Of({"product", "deps"}, items)
<1>1. /\ uses \in Seq(Items(n))
      /\ ToSet(uses) = {i \in ToSet(items) : i[1] \in {"product", "deps"}}
  BY OfElements
<1>2. NodesOf(items) = [i \in DOMAIN uses |-> uses[i][2]]
  BY DEF NodesOf
<1>3. ToSet(items) \subseteq Items(n)
  BY SeqElements
<1> HIDE DEF uses
<1>4. \A i \in DOMAIN uses : uses[i] \in ToSet(uses)
  BY <1>1, SeqElements
<1>5. \A i \in ToSet(uses) : i[2] \in Nodes
  <2> SUFFICES ASSUME NEW i \in ToSet(uses) PROVE i[2] \in Nodes
    OBVIOUS
  <2>1. i \in Items(n) /\ i[1] \in {"product", "deps"}
    BY <1>1, <1>3
  <2> QED
    BY <2>1 DEF Items, Product, Source, Optional, Nodes
<1>6. NodesOf(items) \in Seq(Nodes)
  <2>1. DOMAIN uses = 1..Len(uses) /\ Len(uses) \in Nat
    BY <1>1
  <2> QED
    BY <1>2, <1>4, <1>5, <2>1
<1>7. ASSUME NEW m
      PROVE  m \in ToSet(NodesOf(items)) <=>
               \E i \in ToSet(items) : i[1] \in {"product", "deps"} /\ m = i[2]
  <2>1. m \in ToSet(NodesOf(items)) <=> \E i \in DOMAIN uses : m = uses[i][2]
    BY <1>2 DEF ToSet
  <2>2. (\E i \in DOMAIN uses : m = uses[i][2]) <=> \E i \in ToSet(uses) : m = i[2]
    BY DEF ToSet
  <2> QED
    BY <1>1, <2>1, <2>2
<1> QED
  BY <1>6, <1>7

LEMMA ReadAssetSourceSets ==
  ASSUME TypesInv, NEW n \in Assets, ReadAssetSource(n)
  PROVE  /\ run.pc = "work" /\ Work.node = n /\ Work.open /\ Reading = Source(n)
         /\ Work.stage = "analysis" /\ Text(n) \in Texts[n] /\ Text(n) \in Seq(Items(n))
         /\ RunOK' /\ SameCourse /\ run'.pc = "work" /\ disk' = disk /\ past' = past
         /\ run'.scan = run.scan /\ run'.source = run.source /\ run'.cached = run.cached
         /\ WorkWith(run'.work, Of({"optional"}, Text(n)), Text(n), Work.made)
         /\ run'.work.open = FALSE
         /\ node' = [node EXCEPT ![n] = [node[n] EXCEPT !.deps = NodesOf(Text(n))]]
<1> DEFINE text == Text(n)
           todo == Of({"optional"}, text)
           w == [Work EXCEPT !.todo = todo, !.items = text]
           deps == NodesOf(text)
<1>1. /\ Work.stage = "analysis" /\ Reads(n, Source(n)) /\ disk' = disk /\ past' = past
      /\ node' = [node EXCEPT ![n].deps = deps]
      /\ run' = DoneReading(w)
  BY DEF ReadAssetSource, Text
<1>2. /\ run.pc = "work" /\ Work.node = n /\ Work.open /\ Reading = Source(n)
      /\ text \notin {Absent, Partial}
  BY <1>1 DEF Reads, Text
<1>3. n \in Nodes /\ text \in Texts[n] /\ text \in Seq(Items(n))
  BY <1>2, TextIsText, TextsAssumption DEF Nodes, Text
<1> HIDE DEF todo, deps, text
<1>4. WorkWith(w, todo, text, Work.made)
  BY ChangeWork DEF TypesInv, WorkOK
<1> HIDE DEF w
<1>5. HasRead(run', w)
  BY <1>1, <1>2, <1>4, DoneReadingSets DEF WorkWith
<1>6. WorkWith(run'.work, todo, text, Work.made) /\ run'.work.open = FALSE
  BY <1>4, <1>5 DEF HasRead, WorkWith
<1>7. node' = [node EXCEPT ![n] = [node[n] EXCEPT !.deps = deps]]
  BY <1>1
<1> QED
  BY <1>1, <1>2, <1>3, <1>5, <1>6, <1>7 DEF text, todo, deps, HasRead, SameCourse, RunOK

LEMMA AssetIsNoDepsNode ==
  ASSUME NEW n \in Assets \cup Leaves
  PROVE  n \notin DepsNodes /\ n \in Nodes /\ (n \in Assets => n \notin Leaves)
BY BuildSystemAssumption DEF Nodes

LEMMA ReadAssetSourceTypes ==
  ASSUME TypesInv, NEW n \in Assets, ReadAssetSource(n)
  PROVE  TypesInv'
<1> DEFINE deps == NodesOf(Text(n))
           x == [node[n] EXCEPT !.deps = deps]
<1>1. n \in Nodes /\ IsNode(node[n]) /\ n \notin DepsNodes
  BY AssetIsNoDepsNode DEF Nodes, TypesInv, NodesOK
<1>2. deps \in Seq(Nodes)
  BY ReadAssetSourceSets, NodesOfIs
<1> HIDE DEF deps
<1>3. IsNode(x)
  BY <1>1, <1>2, SetDeps DEF DepsSet
<1>4. node' = [node EXCEPT ![n] = x]
  BY ReadAssetSourceSets DEF deps
<1> HIDE DEF x
<1>5. NodesOK'
  BY <1>1, <1>3, <1>4, OneNodeChanges DEF TypesInv
<1>6. run'.scan \in Seq(Nodes) \cup {None}
  BY ReadAssetSourceSets DEF TypesInv, ProcessOK
<1> QED
  BY <1>1, <1>5, <1>6, ReadAssetSourceSets, ReadingTypes DEF WorkWith

(* The steps of reading that leave the nodes alone.                        *)
OnlyReads(n, todo, items, made) ==
  /\ run.pc = "work" /\ Work.node = n /\ Work.open
  /\ RunOK' /\ SameCourse /\ run'.pc = "work" /\ disk' = disk /\ past' = past /\ node' = node
  /\ run'.scan = run.scan /\ run'.source = run.source /\ run'.cached = run.cached
  /\ WorkWith(run'.work, todo, items, made) /\ run'.work.open = FALSE

LEMMA OnlyReadsSets ==
  ASSUME TypesInv, NEW n, run.pc = "work", Work.node = n, Work.open,
         UNCHANGED <<disk, node, past>>, NEW w, run' = DoneReading(w),
         NEW todo, NEW items, NEW made, WorkWith(w, todo, items, made)
  PROVE  OnlyReads(n, todo, items, made)
<1>1. HasRead(run', w)
  BY DoneReadingSets DEF WorkWith
<1>2. WorkWith(run'.work, todo, items, made) /\ run'.work.open = FALSE
  BY <1>1 DEF HasRead, WorkWith
<1> QED
  BY <1>1, <1>2 DEF OnlyReads, HasRead, SameCourse, RunOK

LEMMA OnlyReadsTypes ==
  ASSUME TypesInv, NEW n \in Assets \cup Leaves, NEW todo, NEW items, NEW made,
         OnlyReads(n, todo, items, made)
  PROVE  TypesInv'
<1>1. n \notin DepsNodes
  BY AssetIsNoDepsNode
<1>2. NodesOK' /\ run'.scan \in Seq(Nodes) \cup {None}
  BY DEF TypesInv, NodesOK, ProcessOK, OnlyReads
<1> QED
  BY <1>1, <1>2, ReadingTypes DEF OnlyReads, WorkWith

LEMMA TryOptionalSets ==
  ASSUME TypesInv, NEW n \in Assets, TryOptional(n)
  PROVE  /\ Work.stage = "analysis" /\ Reading = Optional(n)
         /\ OnlyReads(n, Tail(Work.todo),
                      IF file[Optional(n)].data # Absent THEN Work.items
                      ELSE Of({"source", "product", "deps"}, Work.items), Work.made)
<1> DEFINE items == IF file[Optional(n)].data # Absent THEN Work.items
                    ELSE Of({"source", "product", "deps"}, Work.items)
           w == [Work EXCEPT !.todo = Tail(@), !.items = items]
<1>1. /\ run.pc = "work" /\ Work.node = n /\ Work.stage = "analysis" /\ Work.open
      /\ Reading = Optional(n) /\ run' = DoneReading(w) /\ UNCHANGED <<disk, node, past>>
  BY DEF TryOptional
<1> HIDE DEF items
<1>2. WorkWith(w, Tail(Work.todo), items, Work.made)
  BY ChangeWork DEF TypesInv, WorkOK
<1> HIDE DEF w
<1>3. OnlyReads(n, Tail(Work.todo), items, Work.made)
  BY <1>1, <1>2, OnlyReadsSets
<1> QED
  BY <1>1, <1>3 DEF items

NamedIn(n) == file[Analysis(n)].data[2]

LEMMA ReadAnalysisSets ==
  ASSUME TypesInv, NEW n \in Assets, ReadAnalysis(n)
  PROVE  /\ Work.stage = "compile" /\ Reading = Analysis(n)
         /\ file[Analysis(n)].data \notin {Absent, Partial}
         /\ OnlyReads(n, FilesIn(NamedIn(n)), Work.items, Work.made)
<1> DEFINE todo == FilesIn(NamedIn(n))
           w == [Work EXCEPT !.todo = todo]
<1>1. /\ Work.stage = "compile" /\ Reads(n, Analysis(n)) /\ run' = DoneReading(w)
      /\ UNCHANGED <<disk, node, past>>
  BY DEF ReadAnalysis, NamedIn
<1>2. /\ run.pc = "work" /\ Work.node = n /\ Work.open /\ Reading = Analysis(n)
      /\ file[Analysis(n)].data \notin {Absent, Partial}
  BY <1>1 DEF Reads
<1> HIDE DEF todo
<1>3. WorkWith(w, todo, Work.items, Work.made)
  BY ChangeWork DEF TypesInv, WorkOK
<1> HIDE DEF w
<1>4. OnlyReads(n, todo, Work.items, Work.made)
  BY <1>1, <1>2, <1>3, OnlyReadsSets
<1> QED
  BY <1>1, <1>2, <1>4 DEF todo

LEMMA ReadLeafSets ==
  ASSUME TypesInv, NEW n \in Leaves, ReadLeaf(n)
  PROVE  /\ Reading = Source(n) /\ Text(n) \in Texts[n]
         /\ OnlyReads(n, <<>>, Work.items, <<Text(n)>>)
<1> DEFINE made == <<Text(n)>>
           w == [Work EXCEPT !.todo = <<>>, !.made = made]
<1>1. Reads(n, Source(n)) /\ run' = DoneReading(w) /\ UNCHANGED <<disk, node, past>>
  BY DEF ReadLeaf, Text
<1>2. /\ run.pc = "work" /\ Work.node = n /\ Work.open /\ Reading = Source(n)
      /\ Text(n) \notin {Absent, Partial}
  BY <1>1 DEF Reads, Text
<1>3. Text(n) \in Texts[n]
  BY <1>2, TextIsText DEF Nodes, Text
<1> HIDE DEF made
<1>4. WorkWith(w, <<>>, Work.items, made)
  BY ChangeWork DEF TypesInv, WorkOK
<1> HIDE DEF w
<1>5. OnlyReads(n, <<>>, Work.items, made)
  BY <1>1, <1>2, <1>4, OnlyReadsSets
<1> QED
  BY <1>2, <1>3, <1>5 DEF made

(* What the source of some content becomes.                                *)
SourceNoted(id) ==
  IF id \in DOMAIN run.source THEN run.source ELSE With(run.source, id, Reading)

LEMMA IndexCASSets ==
  ASSUME TypesInv, NEW n \in Assets, IndexCAS(n)
  PROVE  /\ run.pc = "work" /\ Work.node = n /\ Work.open /\ Work.stage = "compile"
         /\ Reading # Analysis(n) /\ file[Reading].data \notin {Absent, Partial}
         /\ RunOK' /\ SameCourse /\ run'.pc = "work" /\ disk' = disk /\ past' = past
         /\ run'.scan = run.scan /\ run'.cached = run.cached
         /\ run'.source = SourceNoted(file[Reading].data)
         /\ WorkWith(run'.work, Tail(Work.todo), Work.items, Append(Work.made, file[Reading].data))
         /\ run'.work.open = FALSE
         /\ node' = [node EXCEPT ![n] = [node[n] EXCEPT
                                           !.cas = node[n].cas \cup {file[Reading].data}]]
<1> DEFINE id == file[Reading].data
           todo == Tail(Work.todo)
           made == Append(Work.made, id)
           w == [Work EXCEPT !.todo = todo, !.made = made]
           r == DoneReading(w)
           cas == node[n].cas \cup {id}
           source == IF id \in DOMAIN r.source THEN r.source ELSE With(r.source, id, Reading)
<1>1. /\ Work.stage = "compile" /\ Reading # Analysis(n) /\ Reads(n, Reading)
      /\ disk' = disk /\ past' = past
      /\ node' = [node EXCEPT ![n].cas = cas]
      /\ run' = [r EXCEPT !.source = source]
  BY DEF IndexCAS
<1>2. /\ run.pc = "work" /\ Work.node = n /\ Work.open /\ id \notin {Absent, Partial}
  BY <1>1 DEF Reads
<1> HIDE DEF todo, made
<1>3. WorkWith(w, todo, Work.items, made)
  BY ChangeWork DEF TypesInv, WorkOK
<1> HIDE DEF w
<1>4. HasRead(r, w)
  BY <1>2, <1>3, DoneReadingSets DEF WorkWith
<1> HIDE DEF r
<1>5. source = SourceNoted(id)
  BY <1>4 DEF SourceNoted, HasRead
<1> HIDE DEF source, cas, id
<1>6. /\ HasRun(run') /\ CourseKept(run') /\ run'.pc = "work" /\ run'.scan = run.scan
      /\ run'.source = source /\ run'.cached = run.cached /\ run'.work = r.work
  BY <1>1, <1>4 DEF HasRead, HasRun, CourseKept
<1>7. WorkWith(run'.work, todo, Work.items, made) /\ run'.work.open = FALSE
  BY <1>3, <1>4, <1>6 DEF HasRead, WorkWith
<1>8. node' = [node EXCEPT ![n] = [node[n] EXCEPT !.cas = cas]]
  BY <1>1
<1> QED
  BY <1>1, <1>2, <1>5, <1>6, <1>7, <1>8 DEF id, todo, made, cas, SameCourse, RunOK

LEMMA IndexCASTypes ==
  ASSUME TypesInv, NEW n \in Assets, IndexCAS(n)
  PROVE  TypesInv'
<1> DEFINE cas == node[n].cas \cup {file[Reading].data}
           x == [node[n] EXCEPT !.cas = cas]
<1>1. n \in Nodes /\ IsNode(node[n]) /\ n \notin DepsNodes
  BY AssetIsNoDepsNode DEF Nodes, TypesInv, NodesOK
<1> HIDE DEF cas
<1>2. IsNode(x)
  BY <1>1, SetCAS DEF CASSet
<1>3. node' = [node EXCEPT ![n] = x]
  BY IndexCASSets DEF cas
<1> HIDE DEF x
<1>4. NodesOK'
  BY <1>1, <1>2, <1>3, OneNodeChanges DEF TypesInv
<1>5. run'.scan \in Seq(Nodes) \cup {None}
  BY IndexCASSets DEF TypesInv, ProcessOK
<1> QED
  BY <1>1, <1>4, <1>5, IndexCASSets, ReadingTypes DEF WorkWith

-----------------------------------------------------------------------------
(* The end of a compiler's work.                                           *)
IsDone(x, cached) ==
  /\ run.pc = "work" /\ RunOK'
  /\ run'.stack = run.stack /\ run'.relevant = run.relevant /\ run'.scan = run.scan
  /\ run'.source = run.source /\ run'.copy = run.copy /\ run'.work = NoWork
  /\ run'.cached = cached
  /\ \/ /\ Work.stage = "analysis" /\ run'.pc = "check"
        /\ run'.phase = [run.phase EXCEPT ![Work.node] = "nodes"]
        /\ run'.at = run.at /\ run'.compiled = run.compiled
        /\ node' = [node EXCEPT ![Work.node] = SetState(x, "uncompiled")]
     \/ /\ Work.stage = "compile" /\ run'.pc = "compile" /\ run'.phase = run.phase
        /\ run'.at = run.at + 1 /\ run'.compiled = run.compiled \cup {Work.node}
        /\ node' = [node EXCEPT ![Work.node] = SetState(x, "current")]

LEMMA WorkDoneSets ==
  ASSUME TypesInv, run.pc = "work", NEW x, NEW cached, WorkDone(x, cached)
  PROVE  IsDone(x, cached)
<1> DEFINE n == Work.node
<1>1. HasRun(run) /\ Work.stage \in {"analysis", "compile"}
  BY DEF TypesInv, WorkOK, RunOK
<1>2. CASE Work.stage = "analysis"
  <2> DEFINE phase == [run.phase EXCEPT ![n] = "nodes"]
             r1 == [run EXCEPT !.pc = "check"]
             r2 == [r1 EXCEPT !.work = NoWork]
             r3 == [r2 EXCEPT !.cached = cached]
  <2>1. /\ node' = [node EXCEPT ![n] = SetState(x, "uncompiled")]
        /\ run' = [run EXCEPT !.pc = "check", !.work = NoWork, !.cached = cached,
                              !.phase[n] = "nodes"]
    BY <1>2 DEF WorkDone
  <2>2. HasRun(r1)
    BY <1>1, PartsStay
  <2>3. run' = [r3 EXCEPT !.phase = phase]
    BY <1>1, <2>1 DEF HasRun
  <2> HIDE DEF r1
  <2>4. HasRun(r2)
    BY <2>2, PartsStay
  <2> HIDE DEF r2
  <2>5. HasRun(r3)
    BY <2>4, PartsStay
  <2> HIDE DEF r3, phase
  <2>6. HasRun(run')
    BY <2>3, <2>5, PartsStay
  <2>7. /\ r1.pc = "check" /\ r1.stack = run.stack /\ r1.relevant = run.relevant
        /\ r1.scan = run.scan /\ r1.source = run.source /\ r1.copy = run.copy
        /\ r1.at = run.at /\ r1.compiled = run.compiled
    BY <1>1 DEF HasRun, r1
  <2>8. /\ r2.pc = "check" /\ r2.stack = run.stack /\ r2.relevant = run.relevant
        /\ r2.scan = run.scan /\ r2.source = run.source /\ r2.copy = run.copy
        /\ r2.at = run.at /\ r2.compiled = run.compiled /\ r2.work = NoWork
    BY <2>2, <2>7 DEF HasRun, r2
  <2>9. /\ r3.pc = "check" /\ r3.stack = run.stack /\ r3.relevant = run.relevant
        /\ r3.scan = run.scan /\ r3.source = run.source /\ r3.copy = run.copy
        /\ r3.at = run.at /\ r3.compiled = run.compiled /\ r3.work = NoWork
        /\ r3.cached = cached
    BY <2>4, <2>8 DEF HasRun, r3
  <2>10. /\ run'.pc = "check" /\ run'.stack = run.stack /\ run'.relevant = run.relevant
         /\ run'.scan = run.scan /\ run'.source = run.source /\ run'.copy = run.copy
         /\ run'.at = run.at /\ run'.compiled = run.compiled /\ run'.work = NoWork
         /\ run'.cached = cached /\ run'.phase = phase
    BY <2>3, <2>5, <2>9 DEF HasRun
  <2> QED
    BY <1>2, <2>1, <2>6, <2>10 DEF IsDone, RunOK, phase
<1>3. CASE Work.stage = "compile"
  <2> DEFINE compiled == run.compiled \cup {n}
             r1 == [run EXCEPT !.pc = "compile"]
             r2 == [r1 EXCEPT !.work = NoWork]
             r3 == [r2 EXCEPT !.cached = cached]
             r4 == [r3 EXCEPT !.at = run.at + 1]
  <2>1. /\ node' = [node EXCEPT ![n] = SetState(x, "current")]
        /\ run' = [run EXCEPT !.pc = "compile", !.work = NoWork, !.cached = cached,
                              !.at = @ + 1, !.compiled = @ \cup {n}]
    BY <1>3 DEF WorkDone
  <2>2. HasRun(r1)
    BY <1>1, PartsStay
  <2>3. run' = [r4 EXCEPT !.compiled = compiled]
    BY <1>1, <2>1 DEF HasRun
  <2> HIDE DEF r1
  <2>4. HasRun(r2)
    BY <2>2, PartsStay
  <2> HIDE DEF r2
  <2>5. HasRun(r3)
    BY <2>4, PartsStay
  <2> HIDE DEF r3
  <2>6. HasRun(r4)
    BY <2>5, PartsStay
  <2> HIDE DEF r4, compiled
  <2>7. HasRun(run')
    BY <2>3, <2>6, PartsStay
  <2>8. /\ r1.pc = "compile" /\ r1.stack = run.stack /\ r1.relevant = run.relevant
        /\ r1.scan = run.scan /\ r1.source = run.source /\ r1.copy = run.copy
        /\ r1.phase = run.phase
    BY <1>1 DEF HasRun, r1
  <2>9. /\ r2.pc = "compile" /\ r2.stack = run.stack /\ r2.relevant = run.relevant
        /\ r2.scan = run.scan /\ r2.source = run.source /\ r2.copy = run.copy
        /\ r2.phase = run.phase /\ r2.work = NoWork
    BY <2>2, <2>8 DEF HasRun, r2
  <2>10. /\ r3.pc = "compile" /\ r3.stack = run.stack /\ r3.relevant = run.relevant
         /\ r3.scan = run.scan /\ r3.source = run.source /\ r3.copy = run.copy
         /\ r3.phase = run.phase /\ r3.work = NoWork /\ r3.cached = cached
    BY <2>4, <2>9 DEF HasRun, r3
  <2>11. /\ r4.pc = "compile" /\ r4.stack = run.stack /\ r4.relevant = run.relevant
         /\ r4.scan = run.scan /\ r4.source = run.source /\ r4.copy = run.copy
         /\ r4.phase = run.phase /\ r4.work = NoWork /\ r4.cached = cached
         /\ r4.at = run.at + 1
    BY <2>5, <2>10 DEF HasRun, r4
  <2>12. /\ run'.pc = "compile" /\ run'.stack = run.stack /\ run'.relevant = run.relevant
         /\ run'.scan = run.scan /\ run'.source = run.source /\ run'.copy = run.copy
         /\ run'.phase = run.phase /\ run'.work = NoWork /\ run'.cached = cached
         /\ run'.at = run.at + 1 /\ run'.compiled = compiled
    BY <2>3, <2>6, <2>11 DEF HasRun
  <2> QED
    BY <1>3, <2>1, <2>7, <2>12 DEF IsDone, RunOK, compiled
<1> QED
  BY <1>1, <1>2, <1>3

LEMMA IsDoneTypes ==
  ASSUME TypesInv, NEW x, NEW cached, IsDone(x, cached), IsNode(x), TextsOK', cache' = cache
  PROVE  TypesInv'
<1> DEFINE n == Work.node
<1>1. n \in Nodes /\ run.pc = "work" /\ RunOK'
  BY DEF TypesInv, WorkOK, IsDone
<1>2. IsNode(SetState(x, "uncompiled")) /\ IsNode(SetState(x, "current"))
  BY SetStateIsNode
<1>3. NodesOK'
  <2>1. CASE node' = [node EXCEPT ![n] = SetState(x, "uncompiled")]
    BY <1>1, <1>2, <2>1, OneNodeChanges DEF TypesInv
  <2>2. CASE node' = [node EXCEPT ![n] = SetState(x, "current")]
    BY <1>1, <1>2, <2>2, OneNodeChanges DEF TypesInv
  <2> QED
    BY <2>1, <2>2 DEF IsDone
<1>4. run'.pc \in {"check", "compile"} /\ run'.at \in Nat
  BY DEF IsDone, TypesInv, ProcessOK
<1>5. run'.phase \in [Nodes -> {"none", "files", "enumerate", "nodes", "completed"}]
  BY <1>1 DEF IsDone, TypesInv, ProcessOK
<1>6. ProcessOK'
  BY <1>4, <1>5 DEF IsDone, TypesInv, ProcessOK
<1>7. WorkOK'
  BY <1>4 DEF IsDone, WorkOK, HasWork, Work, NoWork
<1> QED
  BY <1>1, <1>3, <1>4, <1>6, <1>7, SameSaved DEF TypesInv

LEMMA DepsFileAnalysedSets ==
  ASSUME TypesInv, DepsFileAnalysed
  PROVE  /\ run.pc = "work" /\ Work.todo = <<>> /\ Work.created = FALSE
         /\ Work.node \in DepsNodes /\ Work.stage = "analysis" /\ Work.items \in Seq(Nodes)
         /\ ~ListedFileGone /\ disk' = disk /\ past' = past
         /\ IsDone([node[Work.node] EXCEPT
                      !.deps = Work.items,
                      !.analysis.inputs = AllRecorded(node[Work.node].analysis.inputs, ListedFiles)],
                   Resolved(ToSet(ListedFiles)))
<1>1. AllRead /\ Work.node \in DepsNodes /\ ~ListedFileGone /\ disk' = disk /\ past' = past
  BY DEF DepsFileAnalysed
<1>2. run.pc = "work" /\ Work.todo = <<>> /\ Work.created = FALSE
  BY <1>1 DEF AllRead, TypesInv, WorkOK
<1>3. Work.stage = "analysis" /\ Work.items \in Seq(Nodes)
  BY <1>1, <1>2 DEF TypesInv, WorkOK
<1>4. WorkDone([node[Work.node] EXCEPT
                      !.deps = Work.items,
                      !.analysis.inputs = AllRecorded(node[Work.node].analysis.inputs, ListedFiles)],
               Resolved(ToSet(ListedFiles)))
  BY DEF DepsFileAnalysed
<1> QED
  BY <1>1, <1>2, <1>3, <1>4, WorkDoneSets

(* The node after its dependencies and what its analysis read are set.     *)
DepsAndInputsSet(x, y, deps, list) ==
  /\ IsNode(y) /\ y.deps = deps /\ y.state = x.state /\ y.version = x.version
  /\ y.scan = x.scan /\ y.cas = x.cas /\ y.compile = x.compile
  /\ y.analysis.inputs = list /\ y.analysis.products = x.analysis.products

LEMMA SetDepsAndInputs ==
  ASSUME NEW x, IsNode(x), NEW deps \in Seq(Nodes), NEW list
  PROVE  DepsAndInputsSet(x, [x EXCEPT !.deps = deps, !.analysis.inputs = list], deps, list)
<1> DEFINE x1 == [x EXCEPT !.deps = deps]
           x2 == [x1 EXCEPT !["analysis"].inputs = list]
<1>1. DepsSet(x, x1, deps)
  BY SetDeps
<1>2. [x EXCEPT !.deps = deps, !.analysis.inputs = list] = x2
  OBVIOUS
<1> HIDE DEF x1
<1>3. InputsSet(x1, x2, "analysis", list)
  BY <1>1, SetInputs DEF DepsSet
<1> HIDE DEF x2
<1>4. x2.analysis.products = x1.analysis.products /\ x2.analysis.inputs = list
  BY <1>3 DEF InputsSet
<1>5. DepsAndInputsSet(x, x2, deps, list)
  BY <1>1, <1>3, <1>4 DEF DepsSet, InputsSet, DepsAndInputsSet
<1> QED
  BY <1>2, <1>5

LEMMA DepsFileAnalysedTypes ==
  ASSUME TypesInv, DepsFileAnalysed
  PROVE  TypesInv'
<1> DEFINE list == AllRecorded(node[Work.node].analysis.inputs, ListedFiles)
           cached == Resolved(ToSet(ListedFiles))
           x == [node[Work.node] EXCEPT !.deps = Work.items, !.analysis.inputs = list]
<1>1. run.pc = "work" /\ Work.items \in Seq(Nodes) /\ disk' = disk /\ IsDone(x, cached)
  BY DepsFileAnalysedSets
<1> HIDE DEF list, cached
<1>2. IsNode(node[Work.node])
  BY <1>1 DEF TypesInv, WorkOK, NodesOK
<1>3. IsNode(x)
  BY <1>1, <1>2, SetDepsAndInputs DEF DepsAndInputsSet
<1> HIDE DEF x
<1>4. TextsOK' /\ cache' = cache
  BY <1>1, SameTexts DEF disk, TypesInv
<1> QED
  BY <1>1, <1>3, <1>4, IsDoneTypes

-----------------------------------------------------------------------------
(* The output of a compiler.                                               *)
LEMMA OutputIsMade ==
  Output \in {Analysis(Work.node), Product(Work.node)} /\ \A n : Output # Source(n)
BY DEF Output, Source, Analysis, Product

LEMMA WrittenTexts ==
  ASSUME TextsOK, NEW f, \A n \in Nodes : f # Source(n), NEW data, file' = Written(f, data)
  PROVE  TextsOK'
<1> DEFINE kept == [status |-> NewStatus(f), data |-> data]
<1>1. file' = [file EXCEPT ![f] = kept]
  BY DEF Written
<1> HIDE DEF kept
<1>2. DOMAIN file' = DOMAIN file /\ \A n \in Nodes : file'[Source(n)] = file[Source(n)]
  BY <1>1
<1> QED
  BY <1>2 DEF TextsOK

LEMMA CreateOutputSets ==
  ASSUME TypesInv, CreateOutput
  PROVE  /\ run.pc = "work" /\ Work.todo = <<>> /\ Work.created = FALSE /\ Work.open = FALSE
         /\ Work.node \in Assets \cup Leaves
         /\ file' = Written(Output, Partial) /\ cache' = cache /\ catalog' = catalog
         /\ content' = content /\ version' = version /\ past' = past
         /\ RunOK' /\ SameCourse /\ run'.pc = "work" /\ run'.scan = run.scan
         /\ run'.source = run.source /\ run'.cached = run.cached
         /\ run'.work = [Work EXCEPT !.created = TRUE]
         /\ node' = [node EXCEPT ![Work.node] =
              [node[Work.node] EXCEPT ![Work.stage].products =
                 Recorded(node[Work.node][Work.stage].products, Output, 0)]]
<1> DEFINE n == Work.node
           list == Recorded(node[n][Work.stage].products, Output, 0)
<1>1. /\ AllRead /\ n \notin DepsNodes /\ file' = Written(Output, Partial)
      /\ node' = [node EXCEPT ![n][Work.stage].products = list]
      /\ run' = [run EXCEPT !.work.created = TRUE]
      /\ UNCHANGED <<content, catalog, cache, version, past>>
  BY DEF CreateOutput
<1> HIDE DEF list
<1>2. run.pc = "work" /\ Work.todo = <<>> /\ Work.created = FALSE /\ Work.open = FALSE
  BY <1>1 DEF AllRead, TypesInv, WorkOK
<1>3. n \in Assets \cup Leaves
  BY <1>1, <1>2 DEF TypesInv, WorkOK, Nodes
<1>4. /\ RunOK' /\ SameCourse
      /\ run'.pc = "work" /\ run'.scan = run.scan /\ run'.source = run.source
      /\ run'.cached = run.cached /\ run'.work = [Work EXCEPT !.created = TRUE]
  BY <1>1, <1>2 DEF RunOK, HasRun, TypesInv, SameCourse, CourseKept, Work
<1>5. node' = [node EXCEPT ![n] = [node[n] EXCEPT ![Work.stage].products = list]]
  BY <1>1
<1> QED
  BY <1>1, <1>2, <1>3, <1>4, <1>5 DEF list

LEMMA CreateOutputTypes ==
  ASSUME TypesInv, CreateOutput
  PROVE  TypesInv'
<1> DEFINE n == Work.node
           list == Recorded(node[n][Work.stage].products, Output, 0)
           x == [node[n] EXCEPT ![Work.stage].products = list]
           w == [Work EXCEPT !.created = TRUE]
<1>1. /\ run.pc = "work" /\ Work.todo = <<>> /\ Work.created = FALSE /\ Work.open = FALSE
      /\ n \in Assets \cup Leaves
      /\ file' = Written(Output, Partial) /\ cache' = cache
      /\ RunOK' /\ SameCourse /\ run'.pc = "work" /\ run'.scan = run.scan
      /\ run'.work = w /\ node' = [node EXCEPT ![n] = x]
  BY CreateOutputSets
<1> HIDE DEF list
<1>2. n \in Nodes /\ Work.stage \in {"analysis", "compile"} /\ IsNode(node[n]) /\ n \notin DepsNodes
  BY <1>1, AssetIsNoDepsNode DEF TypesInv, WorkOK, NodesOK
<1>3. IsNode(x)
  BY <1>2, SetProducts DEF ProductsSet
<1> HIDE DEF x
<1>4. NodesOK'
  BY <1>1, <1>2, <1>3, OneNodeChanges DEF TypesInv
<1>5. ProcessOK'
  BY <1>1, SameCourseProcess DEF TypesInv, ProcessOK
<1>6. WorkOK'
  <2>1. HasWork(Work) /\ HasWork(w)
    BY WorkStays DEF TypesInv, WorkOK
  <2>2. /\ w.node = Work.node /\ w.stage = Work.stage /\ w.todo = Work.todo
        /\ w.open = Work.open /\ w.created = TRUE
    BY <2>1 DEF HasWork
  <2> HIDE DEF w
  <2> QED
    BY <1>1, <1>2, <2>1, <2>2 DEF WorkOK, Work
<1>7. TextsOK'
  BY <1>1, OutputIsMade, WrittenTexts DEF TypesInv
<1> QED
  BY <1>1, <1>4, <1>5, <1>6, <1>7, WorkStep

Outcome == IF Work.stage = "analysis" THEN Work.items ELSE Work.made

LEMMA CloseOutputSets ==
  ASSUME TypesInv, CloseOutput
  PROVE  /\ run.pc = "work" /\ Work.todo = <<>> /\ Work.created = TRUE /\ Work.open = FALSE
         /\ Work.node \in Assets \cup Leaves
         /\ file' = Written(Output, <<version[Work.node], Outcome>>)
         /\ cache' = cache /\ catalog' = catalog
         /\ content' = content /\ version' = version /\ past' = past
         /\ IsDone([node[Work.node] EXCEPT ![Work.stage].products =
                      Recorded(node[Work.node][Work.stage].products, Output, StatusAtClose)],
                   With(run.cached, Output, StatusAtClose))
<1>1. /\ run.pc = "work" /\ Work.created
      /\ UNCHANGED <<content, catalog, cache, version, past>>
      /\ file' = Written(Output, <<version[Work.node], Outcome>>)
  BY DEF CloseOutput, Outcome
<1>2. /\ Work.todo = <<>> /\ Work.created = TRUE /\ Work.open = FALSE
      /\ Work.node \in Assets \cup Leaves
  BY <1>1 DEF TypesInv, WorkOK, Nodes
<1>3. WorkDone([node[Work.node] EXCEPT ![Work.stage].products =
                  Recorded(node[Work.node][Work.stage].products, Output, StatusAtClose)],
               With(run.cached, Output, StatusAtClose))
  BY DEF CloseOutput
<1>4. IsDone([node[Work.node] EXCEPT ![Work.stage].products =
                  Recorded(node[Work.node][Work.stage].products, Output, StatusAtClose)],
             With(run.cached, Output, StatusAtClose))
  BY <1>1, <1>3, WorkDoneSets
<1> QED
  BY <1>1, <1>2, <1>4

LEMMA CloseOutputTypes ==
  ASSUME TypesInv, CloseOutput
  PROVE  TypesInv'
<1> DEFINE list == Recorded(node[Work.node][Work.stage].products, Output, StatusAtClose)
           cached == With(run.cached, Output, StatusAtClose)
           x == [node[Work.node] EXCEPT ![Work.stage].products = list]
           data == <<version[Work.node], Outcome>>
<1>1. /\ run.pc = "work" /\ file' = Written(Output, data) /\ cache' = cache /\ IsDone(x, cached)
  BY CloseOutputSets
<1> HIDE DEF list, cached, data
<1>2. IsNode(node[Work.node]) /\ Work.stage \in {"analysis", "compile"}
  BY <1>1 DEF TypesInv, WorkOK, NodesOK
<1>3. IsNode(x)
  BY <1>2, SetProducts DEF ProductsSet
<1> HIDE DEF x
<1>4. TextsOK'
  BY <1>1, OutputIsMade, WrittenTexts DEF TypesInv
<1> QED
  BY <1>1, <1>3, <1>4, IsDoneTypes

-----------------------------------------------------------------------------
(* The end of Build.                                                       *)


LEMMA FinishStep ==
  ASSUME TypesInv, run.pc # "work", run'.pc \in {"catalog", "content"}, RunOK',
         node' = node, file' = file, cache' = cache,
         run'.phase = run.phase, run'.stack = run.stack, run'.relevant = run.relevant,
         run'.at = run.at, run'.scan = run.scan, run'.work = run.work
  PROVE  TypesInv'
<1>1. ProcessOK' /\ NodesOK'
  BY DEF TypesInv, ProcessOK, NodesOK
<1>2. run'.work = NoWork
  BY DEF TypesInv, WorkOK, Work
<1> QED
  BY <1>1, <1>2, PlainStep

(* What the steps before SaveCache leave alone.                            *)
Kept ==
  /\ RunOK' /\ run'.phase = run.phase /\ run'.stack = run.stack /\ run'.relevant = run.relevant
  /\ run'.at = run.at /\ run'.scan = run.scan /\ run'.work = run.work
  /\ run'.compiled = run.compiled /\ run'.source = run.source /\ run'.cached = run.cached
  /\ node' = node /\ file' = file /\ cache' = cache /\ version' = version

LEMMA NothingToExportSets ==
  ASSUME TypesInv, NothingToExport
  PROVE  /\ run.pc = "compile" /\ run.at = Len(run.relevant) /\ ~ExportNeeded
         /\ Kept /\ run'.pc = "content" /\ run'.copy = run.copy
         /\ disk' = disk /\ past' = past
BY DEF NothingToExport, AllCompiled, TypesInv, RunOK, HasRun, Kept, disk

LEMMA CreateCatalogSets ==
  ASSUME TypesInv, CreateCatalog
  PROVE  /\ run.pc = "compile" /\ run.at = Len(run.relevant) /\ ExportNeeded
         /\ Kept /\ run'.pc = "catalog" /\ run'.copy = run.copy
         /\ catalog' = Partial /\ content' = content /\ past' = [past EXCEPT !.torn = TRUE]
BY DEF CreateCatalog, AllCompiled, TypesInv, RunOK, HasRun, Kept

LEMMA WriteCatalogSets ==
  ASSUME TypesInv, WriteCatalog
  PROVE  /\ run.pc = "catalog" /\ Kept /\ run'.pc = "content" /\ run'.copy = run.copy
         /\ catalog' = [a \in Exported |-> file[Product(a)].data]
         /\ content' = content /\ past' = past
BY DEF WriteCatalog, TypesInv, RunOK, HasRun, Kept

LEMMA CopyContentSets ==
  ASSUME TypesInv, NEW id, CopyContent(id)
  PROVE  /\ run.pc = "content" /\ run.copy = None /\ id \in Wanted /\ HasSource(id)
         /\ Kept /\ run'.pc = "content" /\ run'.copy = <<id, file[run.source[id]].data>>
         /\ disk' = disk /\ past' = past
<1> DEFINE copy == <<id, file[run.source[id]].data>>
<1>1. /\ run.pc = "content" /\ run.copy = None /\ id \in Wanted /\ HasSource(id)
      /\ run' = [run EXCEPT !.copy = copy] /\ UNCHANGED <<disk, node, past>>
  BY DEF CopyContent
<1> HIDE DEF copy
<1>2. Kept /\ run'.pc = "content" /\ run'.copy = copy
  BY <1>1 DEF TypesInv, RunOK, HasRun, Kept, disk
<1> QED
  BY <1>1, <1>2 DEF copy

LEMMA MoveContentSets ==
  ASSUME TypesInv, MoveContent
  PROVE  /\ run.pc = "content" /\ run.copy # None
         /\ Kept /\ run'.pc = "content" /\ run'.copy = None
         /\ content' = With(content, run.copy[1], run.copy[2])
         /\ catalog' = catalog /\ past' = past
<1>1. /\ run.pc = "content" /\ run.copy # None
      /\ content' = With(content, run.copy[1], run.copy[2])
      /\ run' = [run EXCEPT !.copy = None]
      /\ UNCHANGED <<file, catalog, cache, version, node, past>>
  BY DEF MoveContent
<1>2. Kept /\ run'.pc = "content" /\ run'.copy = None
  BY <1>1 DEF TypesInv, RunOK, HasRun, Kept
<1> QED
  BY <1>1, <1>2

LEMMA KeptTypes ==
  ASSUME TypesInv, Kept, run.pc # "work", run'.pc \in {"catalog", "content"}
  PROVE  TypesInv'
BY FinishStep DEF Kept

-----------------------------------------------------------------------------
(* SaveCache.                                                              *)
ToSave == [n \in Nodes \cap ToSet(run.relevant) |-> node[n]]

LEMMA WriteInstanceSets ==
  ASSUME TypesInv, CacheInv, WriteInstance
  PROVE  /\ run.pc = "content" /\ run.copy = None /\ Wanted = {}
         /\ RunOK' /\ run'.phase = run.phase /\ run'.stack = run.stack
         /\ run'.relevant = run.relevant /\ run'.at = run.at /\ run'.scan = run.scan
         /\ run'.work = run.work /\ run'.compiled = run.compiled
         /\ run'.pc = "save" /\ run'.pending.nodes = ToSave
         /\ cache'.nodes \in {cache.nodes, <<>>}
         /\ node' = node /\ file' = file /\ content' = content /\ catalog' = catalog
         /\ version' = version /\ past' = past
<1> DEFINE size == SizeOf(ToSave)
           pos == IF CanWriteBefore(size) THEN 1 ELSE cache.length
           overwrites == pos < cache.pos + SizeOf(cache.nodes) /\ cache.pos < pos + size
           kept == IF overwrites THEN <<>> ELSE cache.nodes
           top == Max({cache.length, pos + size})
           whole == cache.whole /\ ~overwrites
           pending == [pos |-> pos, nodes |-> ToSave]
<1>1. /\ ReadyToSave
      /\ cache' = [cache EXCEPT !.nodes = kept, !.whole = whole, !.length = top]
      /\ run' = [run EXCEPT !.pc = "save", !.pending = pending]
      /\ UNCHANGED <<file, content, catalog, version, node, past>>
  BY DEF WriteInstance, ToSave
<1>2. kept \in {cache.nodes, <<>>}
  OBVIOUS
<1>3. pending.nodes = ToSave
  OBVIOUS
<1> HIDE DEF kept, top, whole, pending
<1>4. cache'.nodes = kept
  BY <1>1 DEF CacheInv, CacheOK
<1>5. /\ RunOK' /\ run'.phase = run.phase /\ run'.stack = run.stack
      /\ run'.relevant = run.relevant /\ run'.at = run.at /\ run'.scan = run.scan
      /\ run'.work = run.work /\ run'.compiled = run.compiled
      /\ run'.pc = "save" /\ run'.pending = pending
      /\ run'.source = run.source /\ run'.cached = run.cached
  BY <1>1 DEF TypesInv, RunOK, HasRun
<1>6. run.pc = "content" /\ run.copy = None /\ Wanted = {}
  BY <1>1 DEF ReadyToSave
<1> QED
  BY <1>1, <1>2, <1>3, <1>4, <1>5, <1>6 DEF Kept

LEMMA WriteInstanceTypes ==
  ASSUME TypesInv, CacheInv, WriteInstance
  PROVE  TypesInv'
<1>1. ProcessOK' /\ NodesOK' /\ RunOK'
  BY WriteInstanceSets DEF TypesInv, ProcessOK, NodesOK
<1>2. run'.work = NoWork /\ run'.pc = "save"
  BY WriteInstanceSets DEF TypesInv, WorkOK, Work
<1>3. WorkOK'
  BY <1>2 DEF WorkOK, HasWork, Work, NoWork
<1>4. SavedOK(cache'.nodes)
  <2>1. SavedOK(<<>>)
    BY DEF SavedOK
  <2> QED
    BY <2>1, WriteInstanceSets DEF TypesInv
<1>5. SavedOK(run'.pending.nodes)
  <2>1. SavedOK(ToSave)
    BY DEF SavedOK, ToSave, TypesInv, NodesOK
  <2> QED
    BY <2>1, WriteInstanceSets
<1>6. TextsOK'
  BY WriteInstanceSets, SameTexts DEF TypesInv
<1> QED
  BY <1>1, <1>3, <1>4, <1>5, <1>6 DEF TypesInv, SavedOK

LEMMA WriteHeaderSets ==
  ASSUME TypesInv, CacheInv, WriteHeader
  PROVE  /\ run.pc = "save" /\ cache'.nodes = run.pending.nodes
         /\ run' = NoRun /\ node' = [n \in Nodes |-> NewNode]
         /\ file' = file /\ content' = content /\ catalog' = catalog /\ version' = version
         /\ past' = [past EXCEPT !.result = "ok", !.touched = IF @ = "during" THEN @ ELSE "no",
                                 !.torn = @ /\ ~ExportNeeded]
BY DEF WriteHeader, CacheInv, CacheOK

LEMMA WriteHeaderTypes ==
  ASSUME TypesInv, CacheInv, WriteHeader
  PROVE  TypesInv'
<1>1. /\ cache'.nodes = run.pending.nodes /\ SavedOK(run.pending.nodes)
      /\ run' = NoRun /\ node' = [n \in Nodes |-> NewNode] /\ file' = file
  BY WriteHeaderSets DEF TypesInv
<1>2. NodesOK'
  BY <1>1, NewNodeIsNode DEF NodesOK
<1>3. RunOK' /\ ProcessOK' /\ WorkOK' /\ run'.pc = "idle"
  BY <1>1, NoRunIsProcess DEF NoRun
<1>4. SavedOK(cache.nodes)'
  BY <1>1 DEF SavedOK
<1> QED
  BY <1>1, <1>2, <1>3, <1>4, SameTexts DEF TypesInv

-----------------------------------------------------------------------------
(* What happens beside the build.                                          *)
LEMMA BesideTypes ==
  ASSUME TypesInv, node' = node, run' = run, cache' = cache, TextsOK'
  PROVE  TypesInv'
BY DEF TypesInv, RunOK, HasRun, NodesOK, ProcessOK, WorkOK, HasWork, Work, SavedOK

LEMMA EnvironmentSets ==
  ASSUME Environment
  PROVE  /\ node' = node /\ run' = run /\ cache' = cache /\ catalog' = catalog
         /\ \/ \E f \in Edited : \E text \in MayHold(f) : file' = Written(f, text)
            \/ \E f \in Edited \cup Made :
                 (f \in Made => run.pc = "idle") /\ file' = [file EXCEPT ![f] = Missing]
            \/ file' = file /\ run.pc = "idle"
BY DEF Environment, Edit, RemoveFile, RemoveContent, Upgrade, Disturbs, Edited, Made

LEMMA EnvironmentTypes ==
  ASSUME TypesInv, Environment
  PROVE  TypesInv'
<1>1. node' = node /\ run' = run /\ cache' = cache
  BY EnvironmentSets
<1>2. TextsOK'
  <2>1. ASSUME NEW f \in Edited, NEW text \in MayHold(f), file' = Written(f, text)
        PROVE  TextsOK'
    <3>1. CASE \E m \in Assets : f = Optional(m)
      <4>1. \A n \in Nodes : f # Source(n)
        BY <3>1 DEF Optional, Source
      <4> QED
        BY <2>1, <4>1, WrittenTexts DEF TypesInv
    <3>2. CASE \E m \in Nodes : f = Source(m)
      <4>1. PICK m \in Nodes : f = Source(m)
        BY <3>2
      <4>2. text \in Texts[m]
        BY <2>1, <4>1 DEF MayHold, Source
      <4> DEFINE kept == [status |-> NewStatus(f), data |-> text]
      <4>3. file' = [file EXCEPT ![f] = kept] /\ kept.data = text
        BY <2>1 DEF Written
      <4> HIDE DEF kept
      <4>4. \A n \in Nodes : Source(n) = Source(m) => n = m
        BY DEF Source
      <4>5. f \in DOMAIN file
        BY <4>1 DEF TypesInv, TextsOK, Files, Edited
      <4> HIDE DEF MayHold
      <4>6. ASSUME NEW n \in Nodes
            PROVE  file'[Source(n)].data \in Texts[n] \cup {Absent}
        <5>1. CASE n = m
          BY <4>1, <4>2, <4>3, <4>5, <5>1
        <5>2. CASE n # m
          BY <4>1, <4>3, <4>4, <5>2 DEF TypesInv, TextsOK
        <5> QED
          BY <5>1, <5>2
      <4> QED
        BY <4>3, <4>6 DEF TypesInv, TextsOK
    <3> QED
      BY <3>1, <3>2 DEF Edited
  <2>2. ASSUME NEW f \in Edited \cup Made, file' = [file EXCEPT ![f] = Missing]
        PROVE  TextsOK'
    BY <2>2 DEF TypesInv, TextsOK, Missing
  <2>3. CASE file' = file
    BY <2>3, SameTexts DEF TypesInv
  <2> QED
    BY <2>1, <2>2, <2>3, EnvironmentSets
<1> QED
  BY <1>1, <1>2, BesideTypes

LEMMA NoInstanceIsSaved ==
  SavedOK(NoCache.nodes)
BY DEF NoCache, SavedOK

LEMMA InitTypes ==
  ASSUME Init
  PROVE  TypesInv
<1>1. /\ run = NoRun /\ node = [n \in Nodes |-> NewNode] /\ cache = NoCache
      /\ \E first \in [Nodes -> UNION {FirstTexts[n] : n \in Nodes}] :
           /\ \A n \in Nodes : first[n] \in FirstTexts[n]
           /\ file = [f \in Files |-> IF f[1] = "source" THEN [status |-> 1, data |-> first[f[2]]]
                                      ELSE Missing]
  BY DEF Init
<1>2. NodesOK
  BY <1>1, NewNodeIsNode DEF NodesOK
<1>3. RunOK /\ ProcessOK /\ WorkOK /\ run.pc = "idle"
  <2>1. run.pc = "idle" /\ run.work = NoWork /\ RunOK
    BY <1>1 DEF NoRun, RunOK, HasRun
  <2>2. ProcessOK
    BY <1>1 DEF NoRun, ProcessOK
  <2>3. WorkOK
    BY <2>1 DEF WorkOK, HasWork, Work, NoWork
  <2> QED
    BY <2>1, <2>2, <2>3
<1>4. TextsOK
  <2>1. PICK first : 
           /\ \A n \in Nodes : first[n] \in FirstTexts[n]
           /\ file = [f \in Files |-> IF f[1] = "source" THEN [status |-> 1, data |-> first[f[2]]]
                                      ELSE Missing]
    BY <1>1
  <2>2. ASSUME NEW n \in Nodes
        PROVE  file[Source(n)].data \in Texts[n]
    <3>1. Source(n) \in Files /\ Source(n)[1] = "source" /\ Source(n)[2] = n
      BY DEF Files, Edited, Source
    <3>2. file[Source(n)].data = first[n]
      BY <2>1, <3>1
    <3> QED
      BY <2>1, <3>2, BuildSystemAssumption
  <2> QED
    BY <2>1, <2>2 DEF TextsOK
<1>5. SavedOK(cache.nodes)
  BY <1>1, NoInstanceIsSaved
<1> QED
  BY <1>2, <1>3, <1>4, <1>5 DEF TypesInv

-----------------------------------------------------------------------------
(* The check of the graph.                                                 *)
Deps(n) == ToSet(node[n].deps)
Found == ToSet(run.relevant)
Completed == {n \in Nodes : run.phase[n] = "completed"}
Checked == {n \in Nodes : run.phase[n] \in {"nodes", "completed"}}

(* What is relevant are the nodes that the check has come to, once each.   *)
FoundOK ==
  /\ Found = {n \in Nodes : run.phase[n] # "none"} /\ Root \in Found
  /\ IsInjective(run.relevant)

(* The stack is a path through the graph, and holds what is not completed. *)
StackOK ==
  /\ IsInjective(run.stack) /\ ToSet(run.stack) = Found \ Completed
  /\ \A i \in 1..(Len(run.stack) - 1) :
       run.phase[run.stack[i]] = "nodes" /\ run.stack[i + 1] \in Deps(run.stack[i])

(* Nothing was found that the dependencies do not lead to.                 *)
ClosedIn(S, among) == \A n \in among \cap S : Deps(n) \subseteq S
ReachedOK ==
  \A S \in SUBSET Nodes : Root \in S /\ ClosedIn(S, Checked) => Found \subseteq S

(* There is no way from a completed node back to it: its dependencies are  *)
(* in a set that was completed before it.                                  *)
Below(n, S) == n \notin S /\ Deps(n) \subseteq S /\ ClosedIn(S, Nodes)
CompletedOK ==
  \A n \in Completed : Deps(n) \subseteq Completed /\ \E S \in SUBSET Completed : Below(n, S)

StatesOK == \A n \in Checked : node[n].state # "unanalyzed"

SearchOK == FoundOK /\ StackOK /\ ReachedOK /\ CompletedOK /\ StatesOK

Analysing == run.pc = "work" /\ Work.stage = "analysis"
Checking == run.pc = "check" \/ Analysing

ControlOK ==
  /\ ~Checking => run.stack = <<>>
  /\ Checking => run.at = 0 /\ run.compiled = {}
  /\ Analysing => run.stack # <<>> /\ Work.node = Top /\ run.phase[Work.node] = "enumerate"

GraphInv == run.pc # "idle" => SearchOK /\ ControlOK

(* A step that goes no further in the graph.                               *)
LEMMA SearchStays ==
  ASSUME TypesInv, SearchOK,
         run'.phase = run.phase, run'.stack = run.stack, run'.relevant = run.relevant,
         \A n \in Checked : node'[n].deps = node[n].deps /\ node'[n].state # "unanalyzed"
  PROVE  SearchOK'
<1>1. Checked' = Checked /\ Completed' = Completed /\ Found' = Found
  BY DEF Checked, Completed, Found
<1>2. Completed \subseteq Checked
  BY DEF Completed, Checked
<1>3. \A n \in Checked : Deps(n)' = Deps(n)
  BY DEF Deps
<1>4. FoundOK'
  BY <1>1 DEF SearchOK, FoundOK
<1>5. StackOK'
  <2>1. \A i \in 1..(Len(run.stack) - 1) : run.stack[i] \in Nodes
    BY DEF TypesInv, ProcessOK
  <2>2. \A i \in 1..(Len(run.stack) - 1) : run.stack[i] \in Checked
    BY <2>1 DEF SearchOK, StackOK, Checked
  <2>3. \A i \in 1..(Len(run.stack) - 1) : Deps(run.stack[i])' = Deps(run.stack[i])
    BY <1>3, <2>2 DEF Deps
  <2> HIDE DEF Deps
  <2> QED
    BY <1>1, <2>3 DEF SearchOK, StackOK
<1>6. ReachedOK'
  BY <1>1, <1>3 DEF SearchOK, ReachedOK, ClosedIn
<1>7. CompletedOK'
  <2>1. ASSUME NEW n \in Completed
        PROVE  Deps(n)' \subseteq Completed /\ \E S \in SUBSET Completed : Below(n, S)'
    <3>1. PICK S \in SUBSET Completed : Below(n, S)
      BY <2>1 DEF SearchOK, CompletedOK
    <3>2. Below(n, S)'
      BY <1>2, <1>3, <3>1, <2>1 DEF Below, ClosedIn
    <3> QED
      BY <1>2, <1>3, <2>1, <3>2 DEF SearchOK, CompletedOK
  <2> QED
    BY <1>1, <2>1 DEF CompletedOK
<1>8. StatesOK'
  BY <1>1 DEF StatesOK
<1> QED
  BY <1>4, <1>5, <1>6, <1>7, <1>8 DEF SearchOK

LEMMA TopIsLast ==
  ASSUME TypesInv, run.stack # <<>>
  PROVE  /\ Len(run.stack) \in Nat \ {0} /\ Top = run.stack[Len(run.stack)] /\ Top \in Nodes
         /\ Top \in ToSet(run.stack) /\ DOMAIN run.stack = 1..Len(run.stack)
BY DEF TypesInv, ProcessOK, Top, Last, ToSet

(* Begin puts the root on the stack.                                       *)
LEMMA BeginGraph ==
  ASSUME TypesInv, Begin
  PROVE  GraphInv'
<1>1. /\ run'.pc = "check" /\ run'.relevant = <<Root>> /\ run'.stack = <<Root>>
      /\ run'.phase = [n \in Nodes |-> IF n = Root THEN "files" ELSE "none"]
      /\ run'.at = 0 /\ run'.compiled = {}
  BY BeginSets
<1>2. Completed' = {} /\ Checked' = {} /\ Root \in Nodes
  BY <1>1, RootIsNode DEF Completed, Checked
<1>3. ToSet(<<Root>>) = {Root} /\ Len(<<Root>>) = 1 /\ IsInjective(<<Root>>)
  BY DEF ToSet, IsInjective
<1>4. Found' = {Root}
  BY <1>1, <1>3 DEF Found
<1>5. FoundOK'
  BY <1>1, <1>2, <1>3, <1>4 DEF FoundOK
<1>6. StackOK'
  BY <1>1, <1>2, <1>3, <1>4 DEF StackOK
<1>7. ReachedOK' /\ CompletedOK' /\ StatesOK'
  BY <1>2, <1>4 DEF ReachedOK, CompletedOK, StatesOK
<1>8. ControlOK'
  BY <1>1 DEF ControlOK, Checking, Analysing
<1> QED
  BY <1>5, <1>6, <1>7, <1>8 DEF GraphInv, SearchOK

(* The node at the top goes from one phase to another that is not the last.*)
LEMMA PhaseChanges ==
  ASSUME TypesInv, SearchOK, run.stack # <<>>, NEW n, n = Top, run.phase[n] \in {"files", "enumerate"},
         NEW phase \in {"files", "enumerate", "nodes"},
         run'.phase = [run.phase EXCEPT ![n] = phase],
         run'.stack = run.stack, run'.relevant = run.relevant,
         \A m \in Nodes \ {n} : node'[m].deps = node[m].deps /\ node'[m].state = node[m].state,
         phase = "nodes" => node'[n].state # "unanalyzed"
  PROVE  SearchOK'
<1>1. n \in Nodes /\ n \in ToSet(run.stack) /\ run.phase \in [Nodes -> {"none", "files", "enumerate", "nodes", "completed"}]
  BY TopIsLast DEF TypesInv, ProcessOK
<1>2. /\ Completed' = Completed /\ Found' = Found
      /\ Checked' = IF phase = "nodes" THEN Checked \cup {n} ELSE Checked
      /\ n \notin Checked /\ n \notin Completed /\ Completed \subseteq Checked
      /\ Checked \subseteq Nodes
  BY <1>1 DEF Completed, Found, Checked
<1>3. \A m \in Nodes \ {n} : Deps(m)' = Deps(m)
  BY DEF Deps
<1>4. FoundOK'
  BY <1>1, <1>2 DEF SearchOK, FoundOK
<1>5. StackOK'
  <2>1. ASSUME NEW i \in 1..(Len(run.stack) - 1)
        PROVE  run'.phase[run.stack[i]] = "nodes" /\ run.stack[i + 1] \in Deps(run.stack[i])'
    <3>1. run.stack[i] \in Nodes /\ run.phase[run.stack[i]] = "nodes"
          /\ run.stack[i + 1] \in Deps(run.stack[i])
      BY DEF TypesInv, ProcessOK, SearchOK, StackOK
    <3>2. run.stack[i] # n
      BY <3>1
    <3>3. Deps(run.stack[i])' = Deps(run.stack[i])
      <4>1. node'[run.stack[i]].deps = node[run.stack[i]].deps
        BY <3>1, <3>2
      <4> QED
        BY <4>1 DEF Deps
    <3> QED
      BY <1>1, <3>1, <3>2, <3>3
  <2> QED
    BY <1>2, <2>1 DEF SearchOK, StackOK, Deps
<1>6. ReachedOK'
  BY <1>2, <1>3 DEF SearchOK, ReachedOK, ClosedIn
<1>7. CompletedOK'
  <2>1. ASSUME NEW m \in Completed
        PROVE  Deps(m)' \subseteq Completed /\ \E S \in SUBSET Completed : Below(m, S)'
    <3>1. PICK S \in SUBSET Completed : Below(m, S)
      BY <2>1 DEF SearchOK, CompletedOK
    <3>2. m # n /\ m \in Nodes /\ n \notin S
      BY <1>2, <2>1
    <3>3. Below(m, S)'
      BY <1>3, <3>1, <3>2 DEF Below, ClosedIn
    <3> QED
      BY <1>3, <2>1, <3>2, <3>3 DEF SearchOK, CompletedOK
  <2> QED
    BY <1>2, <2>1 DEF CompletedOK
<1>8. StatesOK'
  BY <1>2 DEF SearchOK, StatesOK
<1> QED
  BY <1>4, <1>5, <1>6, <1>7, <1>8 DEF SearchOK

(* What is appended to a list that does not have it.                       *)
LEMMA AppendIsInjective ==
  ASSUME NEW A, NEW s \in Seq(A), IsInjective(s), NEW x \in A, x \notin ToSet(s)
  PROVE  IsInjective(Append(s, x))
<1>1. /\ DOMAIN s = 1..Len(s) /\ DOMAIN Append(s, x) = 1..(Len(s) + 1) /\ Len(s) \in Nat
      /\ \A i \in 1..Len(s) : Append(s, x)[i] = s[i] /\ s[i] # x
      /\ Append(s, x)[Len(s) + 1] = x
  BY DEF ToSet
<1> QED
  BY <1>1 DEF IsInjective

LEMMA FrontElements ==
  ASSUME NEW A, NEW s \in Seq(A), s # <<>>, IsInjective(s)
  PROVE  IsInjective(Front(s)) /\ ToSet(Front(s)) = ToSet(s) \ {Last(s)}
<1>1. /\ Front(s) \in Seq(A) /\ Len(Front(s)) = Len(s) - 1 /\ Len(s) \in Nat \ {0}
      /\ \A i \in 1..Len(s) - 1 : Front(s)[i] = s[i]
      /\ Last(s) = s[Len(s)]
  BY FrontIsSeq
<1>2. DOMAIN s = 1..Len(s) /\ DOMAIN Front(s) = 1..(Len(s) - 1)
  BY <1>1
<1>3. IsInjective(Front(s))
  BY <1>1, <1>2 DEF IsInjective
<1>4. \A i \in 1..(Len(s) - 1) : s[i] # s[Len(s)]
  BY <1>1, <1>2 DEF IsInjective
<1>5. ToSet(Front(s)) = {s[i] : i \in 1..(Len(s) - 1)}
  BY <1>1, <1>2 DEF ToSet
<1>6. ToSet(s) = {s[i] : i \in 1..Len(s)}
  BY <1>2 DEF ToSet
<1>7. \A x : x \in ToSet(s) \ {Last(s)} <=> x \in {s[i] : i \in 1..(Len(s) - 1)}
  BY <1>1, <1>4, <1>6
<1> QED
  BY <1>3, <1>5, <1>7

LEMMA CheckDependencyGraph ==
  ASSUME TypesInv, GraphInv, NEW n \in Nodes, CheckDependency(n)
  PROVE  GraphInv'
<1>1. PICK d \in ToSet(node[n].deps) :
         /\ d \in Nodes /\ run.phase[d] = "none"
         /\ run.pc = "check" /\ run.stack # <<>> /\ n = Top /\ run.phase[n] = "nodes"
         /\ node' = node
         /\ run'.pc = "check" /\ run'.relevant = Append(run.relevant, d)
         /\ run'.stack = Append(run.stack, d) /\ run'.phase = [run.phase EXCEPT ![d] = "files"]
         /\ run'.at = run.at /\ run'.compiled = run.compiled
  BY CheckDependencySets
<1>2. /\ run.stack \in Seq(Nodes) /\ run.relevant \in Seq(Nodes)
      /\ run.phase \in [Nodes -> {"none", "files", "enumerate", "nodes", "completed"}]
  BY DEF TypesInv, ProcessOK
<1>3. SearchOK /\ ControlOK
  BY <1>1 DEF GraphInv
<1>4. Found' = Found \cup {d} /\ d \notin Found
  BY <1>1, <1>2, <1>3, AppendElements DEF Found, SearchOK, FoundOK
<1>5. /\ Completed' = Completed /\ Checked' = Checked /\ n \in Checked /\ d \notin Completed
  BY <1>1, <1>2 DEF Completed, Checked
<1>6. \A m : Deps(m)' = Deps(m)
  BY <1>1 DEF Deps
<1>7. FoundOK'
  <2>1. Found' = {m \in Nodes : run'.phase[m] # "none"}
    BY <1>1, <1>2, <1>3, <1>4 DEF SearchOK, FoundOK
  <2>2. IsInjective(run'.relevant)
    BY <1>1, <1>2, <1>3, <1>4, AppendIsInjective DEF SearchOK, FoundOK, Found
  <2> QED
    BY <1>3, <1>4, <2>1, <2>2 DEF SearchOK, FoundOK
<1>8. StackOK'
  <2>1. d \notin ToSet(run.stack)
    BY <1>3, <1>4 DEF SearchOK, StackOK
  <2>2. IsInjective(run'.stack) /\ ToSet(run'.stack) = ToSet(run.stack) \cup {d}
    BY <1>1, <1>2, <1>3, <2>1, AppendIsInjective, AppendElements DEF SearchOK, StackOK
  <2>3. ToSet(run'.stack) = Found' \ Completed'
    BY <1>3, <1>4, <1>5, <2>2 DEF SearchOK, StackOK
  <2>4. ASSUME NEW i \in 1..(Len(run'.stack) - 1)
        PROVE  run'.phase[run'.stack[i]] = "nodes" /\ run'.stack[i + 1] \in ToSet(node'[run'.stack[i]].deps)
    <3>1. /\ Len(run.stack) \in Nat \ {0} /\ Len(run'.stack) = Len(run.stack) + 1
          /\ Top = run.stack[Len(run.stack)]
          /\ \A k \in 1..Len(run.stack) : run'.stack[k] = run.stack[k]
          /\ run'.stack[Len(run.stack) + 1] = d
      BY <1>1, <1>2, TopIsLast
    <3>2. run.phase[run'.stack[i]] = "nodes" /\ run'.stack[i + 1] \in Deps(run'.stack[i])
      <4>1. CASE i = Len(run.stack)
        BY <1>1, <3>1, <4>1 DEF Deps
      <4>2. CASE i < Len(run.stack)
        BY <1>3, <3>1, <4>2 DEF SearchOK, StackOK
      <4> QED
        BY <3>1, <4>1, <4>2
    <3>3. run'.stack[i] # d
      BY <1>1, <3>2
    <3>4. run'.phase[run'.stack[i]] = run.phase[run'.stack[i]]
      BY <1>1, <1>2, <3>3
    <3> QED
      BY <1>1, <3>2, <3>4 DEF Deps
  <2> QED
    BY <2>2, <2>3, <2>4 DEF StackOK, Deps
<1>9. ReachedOK'
  <2>1. ASSUME NEW S \in SUBSET Nodes, Root \in S, ClosedIn(S, Checked)
        PROVE  Found \cup {d} \subseteq S
    <3>1. Found \subseteq S
      BY <1>3, <2>1 DEF SearchOK, ReachedOK
    <3>2. n \in Found
      BY <1>1, <1>3 DEF SearchOK, FoundOK
    <3>3. d \in S
      BY <1>1, <1>5, <2>1, <3>1, <3>2 DEF ClosedIn, Deps
    <3> QED
      BY <3>1, <3>3
  <2>2. \A S : ClosedIn(S, Checked)' <=> ClosedIn(S, Checked)
    BY <1>5, <1>6 DEF ClosedIn
  <2> QED
    BY <1>4, <2>1, <2>2 DEF ReachedOK
<1>10. CompletedOK'
  BY <1>3, <1>5, <1>6 DEF SearchOK, CompletedOK, Below, ClosedIn
<1>11. StatesOK'
  BY <1>1, <1>3, <1>5 DEF SearchOK, StatesOK
<1>12. ControlOK'
  BY <1>1, <1>3 DEF ControlOK, Checking, Analysing
<1> QED
  BY <1>7, <1>8, <1>9, <1>10, <1>11, <1>12 DEF GraphInv, SearchOK

LEMMA DependenciesCheckedGraph ==
  ASSUME TypesInv, GraphInv, NEW n \in Nodes, DependenciesChecked(n)
  PROVE  GraphInv'
<1>1. /\ run.pc = "check" /\ run.stack # <<>> /\ n = Top /\ run.phase[n] = "nodes"
      /\ \A d \in ToSet(node[n].deps) : run.phase[d] = "completed"
      /\ run'.pc = "check" /\ run'.relevant = run.relevant
      /\ run'.stack = Front(run.stack) /\ run'.phase = [run.phase EXCEPT ![n] = "completed"]
      /\ run'.at = run.at /\ run'.compiled = run.compiled
      /\ node' = [node EXCEPT ![n] = SetState(node[n], "uncompiled")] \/ node' = node
  BY DependenciesCheckedSets
<1>2. /\ run.stack \in Seq(Nodes) /\ run.relevant \in Seq(Nodes) /\ IsNode(node[n]) /\ NodesOK
      /\ run.phase \in [Nodes -> {"none", "files", "enumerate", "nodes", "completed"}]
  BY DEF TypesInv, ProcessOK, NodesOK
<1>3. SearchOK /\ ControlOK
  BY <1>1 DEF GraphInv
<1>4. \A m \in Nodes : /\ node'[m].deps = node[m].deps
                       /\ node[m].state # "unanalyzed" => node'[m].state # "unanalyzed"
  <2>1. /\ IsNode(SetState(node[n], "uncompiled"))
        /\ SetState(node[n], "uncompiled").deps = node[n].deps
        /\ SetState(node[n], "uncompiled").state = "uncompiled"
    BY <1>2, SetStateIsNode
  <2>2. CASE node' = [node EXCEPT ![n] = SetState(node[n], "uncompiled")]
    BY <1>2, <2>1, <2>2, OneNodeChanges
  <2> QED
    BY <1>1, <2>2
<1>5. \A m \in Nodes : Deps(m)' = Deps(m)
  BY <1>4 DEF Deps
<1>6. /\ Completed' = Completed \cup {n} /\ Checked' = Checked /\ n \in Checked
      /\ n \notin Completed /\ Found' = Found /\ Deps(n) \subseteq Completed
  <2>1. Deps(n) \subseteq Nodes
    BY <1>2 DEF Deps, IsNode, ToSet
  <2> QED
    BY <1>1, <1>2, <2>1 DEF Completed, Checked, Found, Deps
<1>7. FoundOK'
  BY <1>1, <1>2, <1>3, <1>6 DEF SearchOK, FoundOK
<1>8. StackOK'
  <2>1. IsInjective(run'.stack) /\ ToSet(run'.stack) = ToSet(run.stack) \ {n}
    BY <1>1, <1>2, <1>3, FrontElements DEF SearchOK, StackOK, Top
  <2>2. ToSet(run'.stack) = Found' \ Completed'
    BY <1>3, <1>6, <2>1 DEF SearchOK, StackOK
  <2>3. ASSUME NEW i \in 1..(Len(run'.stack) - 1)
        PROVE  run'.phase[run'.stack[i]] = "nodes" /\ run'.stack[i + 1] \in ToSet(node'[run'.stack[i]].deps)
    <3>1. /\ Len(run.stack) \in Nat \ {0} /\ Len(run'.stack) = Len(run.stack) - 1
          /\ n = run.stack[Len(run.stack)]
          /\ \A k \in 1..(Len(run.stack) - 1) : run'.stack[k] = run.stack[k]
      <4>1. run.stack \in Seq(Nodes) /\ run.stack # <<>>
        BY <1>1, <1>2
      <4>2. /\ Len(Front(run.stack)) = Len(run.stack) - 1
            /\ \A k \in 1..Len(run.stack) - 1 : Front(run.stack)[k] = run.stack[k]
        BY <4>1, FrontIsSeq
      <4>3. Len(run.stack) \in Nat \ {0} /\ n = run.stack[Len(run.stack)]
        BY <1>1, TopIsLast
      <4> QED
        BY <1>1, <4>2, <4>3
    <3>2. /\ i \in 1..(Len(run.stack) - 1) /\ i + 1 \in 1..(Len(run.stack) - 1)
          /\ i # Len(run.stack)
      BY <3>1
    <3>3. /\ run'.stack[i] = run.stack[i] /\ run'.stack[i + 1] = run.stack[i + 1]
          /\ run.stack[i] \in Nodes
      BY <1>2, <3>1, <3>2
    <3>4. run.stack[i] # n
      <4>1. DOMAIN run.stack = 1..Len(run.stack)
        BY <1>2
      <4>2. \A j, k \in 1..Len(run.stack) : run.stack[j] = run.stack[k] => j = k
        BY <1>3, <4>1 DEF SearchOK, StackOK, IsInjective
      <4>3. i \in 1..Len(run.stack) /\ Len(run.stack) \in 1..Len(run.stack)
        BY <3>1, <3>2
      <4> QED
        BY <3>1, <3>2, <4>2, <4>3
    <3>5. run.phase[run.stack[i]] = "nodes" /\ run.stack[i + 1] \in Deps(run.stack[i])
      BY <1>3, <3>2 DEF SearchOK, StackOK
    <3>6. run'.phase[run.stack[i]] = "nodes"
      BY <1>1, <1>2, <3>3, <3>4, <3>5
    <3>7. node'[run.stack[i]].deps = node[run.stack[i]].deps
      BY <1>4, <3>3
    <3> QED
      BY <3>3, <3>5, <3>6, <3>7 DEF Deps
  <2> QED
    BY <2>1, <2>2, <2>3 DEF StackOK, Deps
<1>9. ReachedOK'
  BY <1>3, <1>5, <1>6 DEF SearchOK, ReachedOK, ClosedIn
<1>10. CompletedOK'
  <2>1. ASSUME NEW m \in Completed
        PROVE  Deps(m) \subseteq Completed /\ \E S \in SUBSET Completed : Below(m, S)
    BY <1>3, <2>1 DEF SearchOK, CompletedOK
  <2>2. Below(n, Completed)
    BY <1>6, <2>1 DEF Below, ClosedIn
  <2>3. \A m \in Nodes : \A S : Below(m, S) => Below(m, S)'
    BY <1>5 DEF Below, ClosedIn
  <2>4. Completed \subseteq Nodes
    BY DEF Completed
  <2>5. ASSUME NEW m \in Completed \cup {n}
        PROVE  /\ Deps(m)' \subseteq Completed \cup {n}
               /\ \E S \in SUBSET (Completed \cup {n}) : Below(m, S)'
    <3>1. CASE m = n
      BY <1>5, <1>6, <2>2, <2>3, <3>1
    <3>2. CASE m \in Completed
      <4>1. PICK S \in SUBSET Completed : Below(m, S)
        BY <2>1, <3>2
      <4> QED
        BY <1>5, <2>1, <2>3, <2>4, <3>2, <4>1
    <3> QED
      BY <3>1, <3>2
  <2> QED
    BY <1>6, <2>5 DEF CompletedOK
<1>11. StatesOK'
  BY <1>3, <1>4, <1>6 DEF SearchOK, StatesOK, Checked
<1>12. ControlOK'
  BY <1>1, <1>3 DEF ControlOK, Checking, Analysing
<1> QED
  BY <1>7, <1>8, <1>9, <1>10, <1>11, <1>12 DEF GraphInv, SearchOK

-----------------------------------------------------------------------------
LEMMA CheckFilesGraph ==
  ASSUME TypesInv, GraphInv, NEW n \in Nodes, CheckFiles(n)
  PROVE  GraphInv'
<1>1. /\ run.pc = "check" /\ run.stack # <<>> /\ n = Top /\ run.phase[n] = "files"
      /\ run'.stack = run.stack /\ run'.relevant = run.relevant /\ run'.at = run.at
      /\ run'.compiled = run.compiled
  BY CheckFilesSets
<1>2. SearchOK /\ ControlOK /\ IsNode(node[n]) /\ NodesOK
  BY <1>1 DEF GraphInv, TypesInv, NodesOK
<1>3. Top' = Top
  BY <1>1 DEF Top
<1>4. run.phase \in [Nodes -> {"none", "files", "enumerate", "nodes", "completed"}]
  BY DEF TypesInv, ProcessOK
<1>5. CASE run'.pc = "work"
  <2> DEFINE x == [SetState(node[n], "unanalyzed") EXCEPT !.version = version[n]]
  <2>1. /\ run'.phase = [run.phase EXCEPT ![n] = "enumerate"]
        /\ run'.work = WorkOn(n, "analysis", <<Source(n)>>)
        /\ node' = [node EXCEPT ![n] = x]
    BY <1>5, CheckFilesSets
  <2> HIDE DEF x
  <2>2. \A m \in Nodes \ {n} : node'[m].deps = node[m].deps /\ node'[m].state = node[m].state
    BY <2>1
  <2>3. SearchOK'
    BY <1>1, <1>2, <2>1, <2>2, PhaseChanges
  <2>4. run'.work.node = n /\ run'.work.stage = "analysis"
    <3>1. Starts(run'.work, n, "analysis", <<Source(n)>>)
      BY <2>1, NewWork
    <3> QED
      BY <3>1 DEF Starts
  <2>5. ControlOK'
    BY <1>1, <1>2, <1>3, <1>4, <1>5, <2>1, <2>4 DEF ControlOK, Checking, Analysing, Work
  <2> QED
    BY <2>3, <2>5 DEF GraphInv
<1>6. CASE run'.pc # "work"
  <2>1. /\ run'.pc = "check" /\ run'.phase = [run.phase EXCEPT ![n] = "nodes"]
        /\ \/ node' = [node EXCEPT ![n] = node[n]] /\ node[n].state # "unanalyzed"
           \/ node' = [node EXCEPT ![n] = SetState(node[n], "uncompiled")]
           \/ node' = [node EXCEPT ![n] = SetState(SetState(node[n], "unanalyzed"), "uncompiled")]
    BY <1>6, CheckFilesSets
  <2>2. SetState(node[n], "uncompiled").state = "uncompiled"
        /\ SetState(SetState(node[n], "unanalyzed"), "uncompiled").state = "uncompiled"
    BY <1>2, SetStateIsNode
  <2>3. PICK x : node' = [node EXCEPT ![n] = x] /\ x.state # "unanalyzed"
    BY <2>1, <2>2
  <2>4. node'[n].state # "unanalyzed"
        /\ \A m \in Nodes \ {n} : node'[m].deps = node[m].deps /\ node'[m].state = node[m].state
    BY <1>2, <2>3 DEF NodesOK
  <2>5. SearchOK'
    BY <1>1, <1>2, <2>1, <2>4, PhaseChanges
  <2>6. ControlOK'
    BY <1>1, <1>2, <2>1 DEF ControlOK, Checking, Analysing
  <2> QED
    BY <2>5, <2>6 DEF GraphInv
<1> QED
  BY <1>5, <1>6

(* The dependencies of the nodes that were checked stay.                   *)
DepsKept == \A n \in Checked : node'[n].deps = node[n].deps /\ node'[n].state # "unanalyzed"

SameDepsStates ==
  \A n \in Nodes : node'[n].deps = node[n].deps /\ node'[n].state = node[n].state

LEMMA SameNodesKept ==
  ASSUME GraphInv, run.pc # "idle", SameDepsStates
  PROVE  DepsKept
BY DEF GraphInv, SearchOK, StatesOK, DepsKept, Checked, SameDepsStates

LEMMA OneNodeSame ==
  ASSUME TypesInv, NEW n \in Nodes, NEW x, IsNode(x), node' = [node EXCEPT ![n] = x],
         x.deps = node[n].deps, x.state = node[n].state
  PROVE  SameDepsStates
BY OneNodeChanges DEF TypesInv, SameDepsStates

(* A step of a compiler's work on the same node.                           *)
Continues ==
  /\ run.pc = "work" /\ run'.pc = "work" /\ SameCourse
  /\ run'.work.node = Work.node /\ run'.work.stage = Work.stage

LEMMA OneNodeKept ==
  ASSUME GraphInv, TypesInv, run.pc # "idle", NEW n \in Nodes, NEW x, node' = [node EXCEPT ![n] = x],
         n \in Checked => x.deps = node[n].deps /\ x.state # "unanalyzed"
  PROVE  DepsKept
<1>1. \A m \in Checked : m \in Nodes /\ node[m].state # "unanalyzed"
  BY DEF GraphInv, SearchOK, StatesOK, Checked
<1>2. DOMAIN node = Nodes
  BY DEF TypesInv, NodesOK
<1> QED
  BY <1>1, <1>2 DEF DepsKept

(* A step of a compiler's work.                                            *)
LEMMA WorkGraph ==
  ASSUME TypesInv, GraphInv, Continues, DepsKept
  PROVE  GraphInv'
<1> USE DEF Continues
<1>1. SearchOK /\ ControlOK
  BY DEF GraphInv
<1>2. SearchOK'
  BY <1>1, SearchStays DEF SameCourse, CourseKept, DepsKept
<1>3. ControlOK'
  BY <1>1 DEF ControlOK, Checking, Analysing, SameCourse, CourseKept, Work, Top
<1> QED
  BY <1>2, <1>3 DEF GraphInv

(* A step after the check.                                                 *)
LEMMA LaterGraph ==
  ASSUME TypesInv, GraphInv, run.pc # "idle", ~Checking, ~Checking', DepsKept,
         run'.phase = run.phase, run'.stack = run.stack, run'.relevant = run.relevant
  PROVE  GraphInv'
<1>1. SearchOK /\ ControlOK
  BY DEF GraphInv
<1>2. SearchOK'
  BY <1>1, SearchStays DEF DepsKept
<1>3. ControlOK'
  BY <1>1 DEF ControlOK, Checking
<1> QED
  BY <1>2, <1>3 DEF GraphInv

LEMMA WorkIsNotChecked ==
  ASSUME GraphInv, Analysing
  PROVE  Work.node \notin Checked
BY DEF GraphInv, ControlOK, Checked, Analysing

LEMMA OpenInputSame ==
  ASSUME TypesInv, OpenInput
  PROVE  Continues /\ SameDepsStates
<1> DEFINE n == Work.node
           list == Recorded(node[n][Work.stage].inputs, PathKept, Resolve(Reading))
           x == [node[n] EXCEPT ![Work.stage].inputs = list]
           w == [Work EXCEPT !.open = TRUE]
<1>1. /\ run.pc = "work" /\ SameCourse /\ run'.pc = "work"
      /\ run'.work = w /\ node' = [node EXCEPT ![n] = x]
  BY OpenInputSets
<1> HIDE DEF list
<1>2. n \in Nodes /\ Work.stage \in {"analysis", "compile"} /\ IsNode(node[n]) /\ HasWork(Work)
  BY <1>1 DEF TypesInv, WorkOK, NodesOK
<1>3. IsNode(x) /\ x.deps = node[n].deps /\ x.state = node[n].state
  BY <1>2, SetInputs DEF InputsSet
<1>4. w.node = n /\ w.stage = Work.stage
  BY <1>2 DEF HasWork
<1> HIDE DEF x, w
<1> QED
  BY <1>1, <1>2, <1>3, <1>4, OneNodeSame DEF Continues

LEMMA ReadDepsFileGraph ==
  ASSUME TypesInv, GraphInv, NEW n \in DepsNodes, ReadDepsFile(n)
  PROVE  GraphInv'
<1> DEFINE kept == IF Text(n) = Wildcard THEN Scan ELSE node[n].scan
           x == [node[n] EXCEPT !.scan = kept]
<1>1. /\ run.pc = "work" /\ Work.node = n /\ SameCourse /\ run'.pc = "work"
      /\ WorkWith(run'.work, <<>>, NamesIn(n), <<Text(n)>>) /\ node' = [node EXCEPT ![n] = x]
  BY ReadDepsFileSets
<1> HIDE DEF x
<1>2. n \in Nodes /\ n \notin Checked
  <2>1. Analysing
    BY <1>1 DEF Analysing, TypesInv, WorkOK
  <2> QED
    BY <1>1, <2>1, WorkIsNotChecked DEF TypesInv, WorkOK
<1>3. DepsKept
  BY <1>1, <1>2, OneNodeKept
<1> QED
  BY <1>1, <1>3, WorkGraph DEF WorkWith, Continues

LEMMA ReadAssetSourceGraph ==
  ASSUME TypesInv, GraphInv, NEW n \in Assets, ReadAssetSource(n)
  PROVE  GraphInv'
<1> DEFINE x == [node[n] EXCEPT !.deps = NodesOf(Text(n))]
<1>1. /\ run.pc = "work" /\ Work.node = n /\ Work.stage = "analysis" /\ SameCourse /\ run'.pc = "work"
      /\ WorkWith(run'.work, Of({"optional"}, Text(n)), Text(n), Work.made)
      /\ node' = [node EXCEPT ![n] = x]
  BY ReadAssetSourceSets
<1> HIDE DEF x
<1>2. n \in Nodes /\ n \notin Checked
  BY <1>1, WorkIsNotChecked DEF Analysing, TypesInv, WorkOK
<1>3. DepsKept
  BY <1>1, <1>2, OneNodeKept
<1> QED
  BY <1>1, <1>3, WorkGraph DEF WorkWith, Continues

LEMMA OnlyReadsSame ==
  ASSUME NEW n, NEW todo, NEW items, NEW made, OnlyReads(n, todo, items, made)
  PROVE  Continues /\ SameDepsStates
BY DEF OnlyReads, WorkWith, Continues, SameDepsStates

LEMMA IndexCASSame ==
  ASSUME TypesInv, NEW n \in Assets, IndexCAS(n)
  PROVE  Continues /\ SameDepsStates
<1> DEFINE cas == node[n].cas \cup {file[Reading].data}
           x == [node[n] EXCEPT !.cas = cas]
<1>1. /\ run.pc = "work" /\ Work.node = n /\ SameCourse /\ run'.pc = "work"
      /\ WorkWith(run'.work, Tail(Work.todo), Work.items, Append(Work.made, file[Reading].data))
      /\ node' = [node EXCEPT ![n] = x]
  BY IndexCASSets
<1>2. n \in Nodes /\ IsNode(node[n])
  BY <1>1 DEF TypesInv, WorkOK, NodesOK
<1> HIDE DEF cas
<1>3. IsNode(x) /\ x.deps = node[n].deps /\ x.state = node[n].state
  BY <1>2, SetCAS DEF CASSet
<1> HIDE DEF x
<1> QED
  BY <1>1, <1>2, <1>3, OneNodeSame DEF Continues, WorkWith

LEMMA CreateOutputSame ==
  ASSUME TypesInv, CreateOutput
  PROVE  Continues /\ SameDepsStates
<1> DEFINE n == Work.node
           list == Recorded(node[n][Work.stage].products, Output, 0)
           x == [node[n] EXCEPT ![Work.stage].products = list]
           w == [Work EXCEPT !.created = TRUE]
<1>1. /\ run.pc = "work" /\ SameCourse /\ run'.pc = "work"
      /\ run'.work = w /\ node' = [node EXCEPT ![n] = x]
  BY CreateOutputSets
<1> HIDE DEF list
<1>2. n \in Nodes /\ Work.stage \in {"analysis", "compile"} /\ IsNode(node[n]) /\ HasWork(Work)
  BY <1>1 DEF TypesInv, WorkOK, NodesOK
<1>3. IsNode(x) /\ x.deps = node[n].deps /\ x.state = node[n].state
  BY <1>2, SetProducts DEF ProductsSet
<1>4. w.node = n /\ w.stage = Work.stage
  BY <1>2 DEF HasWork
<1> HIDE DEF x, w
<1> QED
  BY <1>1, <1>2, <1>3, <1>4, OneNodeSame DEF Continues

LEMMA SameNodesGraph ==
  ASSUME TypesInv, GraphInv, Continues, SameDepsStates
  PROVE  GraphInv'
<1>1. DepsKept
  BY SameNodesKept DEF Continues
<1> QED
  BY <1>1, WorkGraph

LEMMA IsDoneGraph ==
  ASSUME TypesInv, GraphInv, NEW x, NEW cached, IsDone(x, cached), IsNode(x),
         Work.stage = "compile" => x.deps = node[Work.node].deps
  PROVE  GraphInv'
<1> DEFINE n == Work.node
<1>1. n \in Nodes /\ run.pc = "work" /\ run'.stack = run.stack /\ run'.relevant = run.relevant
  BY DEF TypesInv, WorkOK, IsDone
<1>2. SearchOK /\ ControlOK
  BY <1>1 DEF GraphInv
<1>3. /\ IsNode(SetState(x, "uncompiled")) /\ SetState(x, "uncompiled").state = "uncompiled"
      /\ SetState(x, "current").state = "current" /\ SetState(x, "current").deps = x.deps
  BY SetStateIsNode
<1>4. CASE Work.stage = "analysis"
  <2>1. /\ run'.pc = "check" /\ run'.phase = [run.phase EXCEPT ![n] = "nodes"]
        /\ run'.at = run.at /\ run'.compiled = run.compiled
        /\ node' = [node EXCEPT ![n] = SetState(x, "uncompiled")]
    BY <1>4 DEF IsDone
  <2>2. run.stack # <<>> /\ n = Top /\ run.phase[n] = "enumerate"
    BY <1>1, <1>2, <1>4 DEF ControlOK, Analysing
  <2>3. /\ node'[n].state # "unanalyzed"
        /\ \A m \in Nodes \ {n} : node'[m].deps = node[m].deps /\ node'[m].state = node[m].state
    BY <1>1, <1>3, <2>1, OneNodeChanges DEF TypesInv
  <2>4. SearchOK'
    BY <1>1, <1>2, <2>1, <2>2, <2>3, PhaseChanges
  <2>5. ControlOK'
    BY <1>1, <1>2, <1>4, <2>1 DEF ControlOK, Checking, Analysing
  <2> QED
    BY <2>4, <2>5 DEF GraphInv
<1>5. CASE Work.stage = "compile"
  <2>1. /\ run'.pc = "compile" /\ run'.phase = run.phase
        /\ node' = [node EXCEPT ![n] = SetState(x, "current")]
    BY <1>5 DEF IsDone
  <2>2. DepsKept
    BY <1>1, <1>3, <1>5, <2>1, OneNodeKept
  <2>3. ~Checking /\ ~Checking'
    BY <1>1, <1>5, <2>1 DEF Checking, Analysing
  <2> QED
    BY <1>1, <2>1, <2>2, <2>3, LaterGraph
<1> QED
  BY <1>4, <1>5 DEF TypesInv, WorkOK, IsDone

LEMMA DepsFileAnalysedGraph ==
  ASSUME TypesInv, GraphInv, DepsFileAnalysed
  PROVE  GraphInv'
<1> DEFINE list == AllRecorded(node[Work.node].analysis.inputs, ListedFiles)
           cached == Resolved(ToSet(ListedFiles))
           x == [node[Work.node] EXCEPT !.deps = Work.items, !.analysis.inputs = list]
<1>1. /\ run.pc = "work" /\ Work.items \in Seq(Nodes) /\ IsDone(x, cached)
      /\ Work.stage = "analysis"
  BY DepsFileAnalysedSets
<1> HIDE DEF list, cached
<1>2. IsNode(node[Work.node])
  BY <1>1 DEF TypesInv, WorkOK, NodesOK
<1>3. IsNode(x)
  BY <1>1, <1>2, SetDepsAndInputs DEF DepsAndInputsSet
<1> HIDE DEF x
<1> QED
  BY <1>1, <1>3, IsDoneGraph

LEMMA CloseOutputGraph ==
  ASSUME TypesInv, GraphInv, CloseOutput
  PROVE  GraphInv'
<1> DEFINE list == Recorded(node[Work.node][Work.stage].products, Output, StatusAtClose)
           cached == With(run.cached, Output, StatusAtClose)
           x == [node[Work.node] EXCEPT ![Work.stage].products = list]
<1>1. run.pc = "work" /\ IsDone(x, cached)
  BY CloseOutputSets
<1> HIDE DEF list, cached
<1>2. IsNode(node[Work.node]) /\ Work.stage \in {"analysis", "compile"}
  BY <1>1 DEF TypesInv, WorkOK, NodesOK
<1>3. IsNode(x) /\ x.deps = node[Work.node].deps
  BY <1>2, SetProducts DEF ProductsSet
<1> HIDE DEF x
<1> QED
  BY <1>1, <1>3, IsDoneGraph

LEMMA NotCompiledAgainGraph ==
  ASSUME TypesInv, GraphInv, NotCompiledAgain
  PROVE  GraphInv'
<1>1. DepsKept /\ ~Checking /\ ~Checking'
  BY SameNodesKept, NotCompiledAgainSets DEF Checking, Analysing, SameDepsStates
<1> QED
  BY <1>1, LaterGraph, NotCompiledAgainSets

LEMMA CompileDepsNodeGraph ==
  ASSUME TypesInv, GraphInv, CompileDepsNode
  PROVE  GraphInv'
<1> DEFINE n == NextNode
           y == SetState(node[n], "current")
           x == [y EXCEPT !.version = version[n]]
<1>1. /\ run.at < Len(run.relevant) /\ node' = [node EXCEPT ![n] = x]
      /\ run'.pc = "compile" /\ run'.relevant = run.relevant /\ run'.stack = run.stack
      /\ run'.phase = run.phase /\ run.pc = "compile"
  BY CompileDepsNodeSets
<1>2. n \in Nodes /\ IsNode(node[n])
  BY <1>1, NextNodeIs DEF TypesInv, NodesOK
<1> HIDE DEF n
<1>3. IsNode(y) /\ y.state = "current" /\ y.deps = node[n].deps
  BY <1>2, SetStateIsNode
<1> HIDE DEF y
<1>4. x.state = "current" /\ x.deps = node[n].deps
  BY <1>3, SetVersionIsNode DEF VersionSet
<1> HIDE DEF x
<1>5. DepsKept
  BY <1>1, <1>2, <1>4, OneNodeKept
<1>6. ~Checking /\ ~Checking'
  BY <1>1 DEF Checking, Analysing
<1> QED
  BY <1>1, <1>5, <1>6, LaterGraph

LEMMA StartCompileGraph ==
  ASSUME TypesInv, GraphInv, StartCompile
  PROVE  GraphInv'
<1> DEFINE n == NextNode
           todo == IF NextNode \in Leaves THEN <<Source(NextNode)>> ELSE <<Analysis(NextNode)>>
           x == [node[n] EXCEPT !.version = version[n]]
<1>1. /\ run.at < Len(run.relevant) /\ node' = [node EXCEPT ![n] = x]
      /\ run'.pc = "work" /\ run'.relevant = run.relevant /\ run'.stack = run.stack
      /\ run'.phase = run.phase /\ run.pc = "compile" /\ node[n].state = "uncompiled"
      /\ run'.work = WorkOn(n, "compile", todo)
  BY StartCompileSets
<1>2. n \in Nodes /\ IsNode(node[n])
  BY <1>1, NextNodeIs DEF TypesInv, NodesOK
<1> HIDE DEF n, todo
<1>3. x.state = "uncompiled" /\ x.deps = node[n].deps
  BY <1>1, <1>2, SetVersionIsNode DEF VersionSet
<1> HIDE DEF x
<1>4. DepsKept
  BY <1>1, <1>2, <1>3, OneNodeKept
<1>5. ~Checking /\ ~Checking'
  <2>1. Starts(run'.work, n, "compile", todo)
    BY <1>1, NewWork
  <2> QED
    BY <1>1, <2>1 DEF Starts, Checking, Analysing, Work
<1> QED
  BY <1>1, <1>4, <1>5, LaterGraph

LEMMA KeptGraph ==
  ASSUME TypesInv, GraphInv, Kept, run.pc \notin {"idle", "check", "work"},
         run'.pc \notin {"check", "work"}
  PROVE  GraphInv'
<1>1. DepsKept /\ ~Checking /\ ~Checking'
  BY SameNodesKept DEF Kept, Checking, Analysing, SameDepsStates
<1> QED
  BY <1>1, LaterGraph DEF Kept

LEMMA WriteInstanceGraph ==
  ASSUME TypesInv, CacheInv, GraphInv, WriteInstance
  PROVE  GraphInv'
<1>1. DepsKept /\ ~Checking /\ ~Checking'
  BY SameNodesKept, WriteInstanceSets DEF Checking, Analysing, SameDepsStates
<1> QED
  BY <1>1, LaterGraph, WriteInstanceSets

LEMMA IdleGraph ==
  ASSUME run' = NoRun
  PROVE  GraphInv'
BY DEF NoRun, GraphInv

LEMMA BesideGraph ==
  ASSUME TypesInv, GraphInv, node' = node, run' = run
  PROVE  GraphInv'
<1>1. CASE run.pc = "idle"
  BY <1>1 DEF GraphInv
<1>2. CASE run.pc # "idle"
  <2>1. DepsKept /\ SearchOK /\ ControlOK
    BY <1>2, SameNodesKept DEF GraphInv, SameDepsStates
  <2>2. SearchOK'
    BY <2>1, SearchStays DEF DepsKept
  <2>3. ControlOK'
    BY <2>1 DEF ControlOK, Checking, Analysing, Work, Top
  <2> QED
    BY <2>2, <2>3 DEF GraphInv
<1> QED
  BY <1>1, <1>2

-----------------------------------------------------------------------------
(* The strata, once the check has come to its end.                         *)
Searched == TypesInv /\ SearchOK /\ run.stack = <<>>

LEMMA AllCompleted ==
  ASSUME Searched
  PROVE  Found = Completed /\ Found \subseteq Nodes /\ \A n \in Found : Deps(n) \subseteq Found
<1>1. ToSet(<<>>) = {}
  BY DEF ToSet
<1>2. Completed \subseteq Found
  BY DEF Searched, SearchOK, FoundOK, Completed
<1>3. Found = Completed
  BY <1>1, <1>2 DEF Searched, SearchOK, StackOK
<1> QED
  BY <1>3 DEF Completed, Searched, SearchOK, CompletedOK

(* The nodes of stratum j have a set of nodes below them that is smaller   *)
(* by j than all nodes.                                                    *)
LiesIn(n, j) ==
  \E S \in SUBSET Completed :
    n \in S /\ ClosedIn(S, Nodes) /\ Cardinality(S) <= Cardinality(Nodes) - j

LEMMA DepsLieDeeper ==
  ASSUME Searched, NEW j \in Nat, NEW n \in Completed, LiesIn(n, j), NEW d \in Deps(n)
  PROVE  LiesIn(d, j + 1)
<1> DEFINE N == Cardinality(Nodes)
<1>1. PICK S \in SUBSET Completed : n \in S /\ ClosedIn(S, Nodes) /\ Cardinality(S) <= N - j
  BY DEF LiesIn
<1>2. PICK B \in SUBSET Completed : Below(n, B)
  BY DEF Searched, SearchOK, CompletedOK
<1>3. Completed \subseteq Nodes /\ IsFiniteSet(Nodes) /\ N \in Nat
  BY BuildSystemAssumption, FS_CardinalityType DEF Completed
<1> HIDE DEF N
<1>4. d \in S \cap B /\ n \notin S \cap B /\ n \in Nodes
  BY <1>1, <1>2, <1>3 DEF Below, ClosedIn
<1>5. ClosedIn(S \cap B, Nodes)
  BY <1>1, <1>2 DEF Below, ClosedIn
<1>6. Cardinality(S \cap B) <= N - (j + 1)
  <2>1. S \in SUBSET Nodes
    BY <1>3
  <2>2. IsFiniteSet(S)
    BY <1>3, <2>1, FS_Subset
  <2>3. S \cap B \in SUBSET S /\ S \cap B # S
    BY <1>1, <1>4
  <2>4. IsFiniteSet(S \cap B) /\ Cardinality(S \cap B) <= Cardinality(S)
        /\ Cardinality(S) # Cardinality(S \cap B)
    BY <2>2, <2>3, FS_Subset
  <2>5. Cardinality(S) \in Nat /\ Cardinality(S \cap B) \in Nat
    BY <2>2, <2>4, FS_CardinalityType
  <2> QED
    BY <1>1, <1>3, <2>4, <2>5
<1> QED
  BY <1>4, <1>5, <1>6 DEF LiesIn, N

LEMMA StrataLie ==
  ASSUME Searched
  PROVE  /\ DOMAIN FoundIn = 0..Cardinality(Nodes) /\ Cardinality(Nodes) \in Nat
         /\ FoundIn[0] = {Root}
         /\ \A i \in 1..Cardinality(Nodes) : FoundIn[i] = UNION {Deps(n) : n \in FoundIn[i - 1]}
         /\ \A j \in 0..Cardinality(Nodes) : \A n \in FoundIn[j] : n \in Completed /\ LiesIn(n, j)
<1> DEFINE N == Cardinality(Nodes)
           T == {j \in Nat : j <= N => \A n \in FoundIn[j] : n \in Completed /\ LiesIn(n, j)}
<1>1. /\ DOMAIN FoundIn = 0..N /\ N \in Nat /\ FoundIn[0] = {Root}
      /\ \A i \in 1..N : FoundIn[i] = UNION {Deps(n) : n \in FoundIn[i - 1]}
  <2>1. \A n \in Nodes : ToSet(node[n].deps) \subseteq Nodes
    BY DEF Searched, TypesInv, NodesOK, IsNode, ToSet
  <2> QED
    BY <2>1, FoundInSteps DEF Deps
<1>2. Found = Completed /\ \A n \in Completed : Deps(n) \subseteq Completed
  BY AllCompleted
<1>3. 0 \in T
  <2>1. Root \in Completed /\ ClosedIn(Completed, Nodes)
    BY <1>2 DEF Searched, SearchOK, FoundOK, ClosedIn
  <2>2. Completed \in SUBSET Nodes /\ IsFiniteSet(Nodes)
    BY BuildSystemAssumption DEF Completed
  <2>3. Cardinality(Completed) <= N /\ Cardinality(Completed) \in Nat
    <3>1. IsFiniteSet(Completed) /\ Cardinality(Completed) <= Cardinality(Nodes)
      BY <2>2, FS_Subset
    <3> QED
      BY <3>1, FS_CardinalityType
  <2> HIDE DEF N
  <2>4. Cardinality(Completed) <= N - 0
    BY <1>1, <2>3
  <2>5. LiesIn(Root, 0)
    BY <2>1, <2>4 DEF LiesIn, N
  <2> QED
    BY <1>1, <2>1, <2>5
<1>4. ASSUME NEW j \in T
      PROVE  j + 1 \in T
  <2>1. SUFFICES ASSUME j + 1 <= N, NEW d \in FoundIn[j + 1]
                 PROVE  d \in Completed /\ LiesIn(d, j + 1)
    OBVIOUS
  <2>2. j \in Nat /\ j + 1 \in 1..N /\ (j + 1) - 1 = j /\ j <= N
    BY <1>1, <2>1
  <2>3. PICK n \in FoundIn[j] : d \in Deps(n)
    BY <1>1, <2>1, <2>2
  <2>4. n \in Completed /\ LiesIn(n, j)
    BY <1>4, <2>2, <2>3
  <2> QED
    BY <1>2, <2>2, <2>3, <2>4, DepsLieDeeper
<1>5. T = Nat
  <2>1. T \in SUBSET Nat
    OBVIOUS
  <2> HIDE DEF T
  <2> QED
    BY <1>3, <1>4, <2>1, SetInduction
<1> HIDE DEF N
<1>6. \A j \in 0..N : j \in T /\ j <= N
  BY <1>1, <1>5
<1>7. \A j \in 0..N : \A n \in FoundIn[j] : n \in Completed /\ LiesIn(n, j)
  BY <1>6
<1> QED
  BY <1>1, <1>7 DEF N

LEMMA LastStratumIsEmpty ==
  ASSUME Searched
  PROVE  FoundIn[Cardinality(Nodes)] = {}
<1> DEFINE N == Cardinality(Nodes)
<1>1. SUFFICES ASSUME NEW n \in FoundIn[N] PROVE FALSE
  OBVIOUS
<1>2. N \in Nat /\ LiesIn(n, N)
  BY StrataLie
<1>3. PICK S \in SUBSET Completed : n \in S /\ Cardinality(S) <= N - N
  BY <1>2 DEF LiesIn
<1>4. IsFiniteSet(S)
  <2>1. S \in SUBSET Nodes /\ IsFiniteSet(Nodes)
    BY BuildSystemAssumption DEF Completed
  <2> QED
    BY <2>1, FS_Subset
<1>5. Cardinality(S) \in Nat
  BY <1>4, FS_CardinalityType
<1>6. Cardinality(S) = 0
  BY <1>2, <1>3, <1>5
<1> QED
  BY <1>3, <1>4, <1>6, FS_EmptySet

(* Every node has a stratum, and its dependencies have later ones.         *)
LEMMA EveryNodeIsFound ==
  ASSUME Searched, NEW n \in Found
  PROVE  \E j \in 0..Cardinality(Nodes) : n \in FoundIn[j]
<1> DEFINE N == Cardinality(Nodes)
           U == {m \in Nodes : \E j \in 0..N : m \in FoundIn[j]}
<1>1. /\ N \in Nat /\ FoundIn[0] = {Root} /\ FoundIn[N] = {}
      /\ \A i \in 1..N : FoundIn[i] = UNION {Deps(m) : m \in FoundIn[i - 1]}
      /\ \A j \in 0..N : \A m \in FoundIn[j] : m \in Completed
  BY StrataLie, LastStratumIsEmpty
<1>2. Root \in U
  <2>1. 0 \in 0..N
    BY <1>1
  <2> QED
    BY <1>1, <2>1, RootIsNode
<1>3. ClosedIn(U, Checked)
  <2>1. SUFFICES ASSUME NEW m \in U, NEW d \in Deps(m) PROVE d \in U
    BY DEF ClosedIn
  <2>2. PICK j \in 0..N : m \in FoundIn[j]
    BY <2>1
  <2>3. j # N
    BY <1>1, <2>2
  <2>4. j + 1 \in 1..N /\ (j + 1) - 1 = j
    BY <1>1, <2>2, <2>3
  <2>5. d \in FoundIn[j + 1]
    BY <1>1, <2>1, <2>2, <2>4
  <2>6. j + 1 \in 0..N
    BY <2>4
  <2>7. d \in Nodes
    BY <1>1, <2>5, <2>6 DEF Completed
  <2> QED
    BY <2>5, <2>6, <2>7
<1>4. U \in SUBSET Nodes
  OBVIOUS
<1> HIDE DEF U
<1>5. Found \subseteq U
  BY <1>2, <1>3, <1>4 DEF Searched, SearchOK, ReachedOK
<1> QED
  BY <1>5 DEF U

LEMMA StratumIs ==
  ASSUME Searched, NEW n \in Found
  PROVE  /\ Stratum(n) \in 0..Cardinality(Nodes) /\ n \in FoundIn[Stratum(n)]
         /\ \A j \in 0..Cardinality(Nodes) : n \in FoundIn[j] => j <= Stratum(n)
<1> DEFINE N == Cardinality(Nodes)
           J == {j \in DOMAIN FoundIn : n \in FoundIn[j]}
<1>1. DOMAIN FoundIn = 0..N /\ N \in Nat
  BY StrataLie
<1>2. J # {}
  BY <1>1, EveryNodeIsFound
<1>3. J \in SUBSET (0..N)
  BY <1>1
<1>4. Stratum(n) = Max(J)
  BY DEF Stratum
<1>5. Max(J) \in J /\ \A k \in J : k <= Max(J)
  <2> HIDE DEF J, N
  <2> QED
    BY <1>1, <1>2, <1>3, GreatestNumber
<1>6. Stratum(n) \in J /\ \A k \in J : k <= Stratum(n)
  BY <1>4, <1>5
<1> QED
  BY <1>1, <1>6

LEMMA DepsAreLater ==
  ASSUME Searched, NEW n \in Found, NEW d \in Deps(n)
  PROVE  d \in Found /\ Stratum(n) \in Nat /\ Stratum(d) \in Nat /\ Stratum(n) < Stratum(d)
<1> DEFINE N == Cardinality(Nodes)
           j == Stratum(n)
<1>1. d \in Found
  BY AllCompleted
<1>2. j \in 0..N /\ n \in FoundIn[j] /\ N \in Nat
  BY StratumIs, StrataLie
<1>3. j # N
  BY <1>2, LastStratumIsEmpty
<1> HIDE DEF j, N
<1>4. j + 1 \in 1..N /\ (j + 1) - 1 = j /\ j + 1 \in 0..N
  BY <1>2, <1>3
<1>5. d \in FoundIn[j + 1]
  BY <1>2, <1>4, StrataLie DEF N
<1>6. Stratum(d) \in 0..N /\ j + 1 <= Stratum(d)
  BY <1>1, <1>4, <1>5, StratumIs DEF N
<1> QED
  BY <1>1, <1>2, <1>4, <1>6 DEF j

LEMMA BeforeOrders ==
  ASSUME Searched
  PROVE  /\ \A x \in Found : ~Before(x, x)
         /\ \A x, y, z \in Found : Before(x, y) /\ Before(y, z) => Before(x, z)
         /\ \A x, y \in Found : x = y \/ Before(x, y) \/ Before(y, x)
<1> DEFINE Came(x, y) == \E i, j \in DOMAIN run.relevant :
                            i < j /\ run.relevant[i] = x /\ run.relevant[j] = y
<1>1. \A x \in Found : Stratum(x) \in Nat
  <2>1. Cardinality(Nodes) \in Nat
    BY StrataLie
  <2> QED
    BY <2>1, StratumIs
<1>2. /\ DOMAIN run.relevant = 1..Len(run.relevant) /\ Len(run.relevant) \in Nat
      /\ \A i, j \in DOMAIN run.relevant : run.relevant[i] = run.relevant[j] => i = j
  BY DEF Searched, TypesInv, ProcessOK, SearchOK, FoundOK, IsInjective
<1>3. \A x, y : Before(x, y) <=> Stratum(x) < Stratum(y) \/ (Stratum(x) = Stratum(y) /\ Came(x, y))
  BY DEF Before
<1>4. \A x : ~Came(x, x)
  BY <1>2
<1>5. \A x, y, z : Came(x, y) /\ Came(y, z) => Came(x, z)
  <2> SUFFICES ASSUME NEW x, NEW y, NEW z, Came(x, y), Came(y, z) PROVE Came(x, z)
    OBVIOUS
  <2>1. PICK i, j \in DOMAIN run.relevant : i < j /\ run.relevant[i] = x /\ run.relevant[j] = y
    OBVIOUS
  <2>2. PICK k, l \in DOMAIN run.relevant : k < l /\ run.relevant[k] = y /\ run.relevant[l] = z
    OBVIOUS
  <2>3. j = k
    BY <1>2, <2>1, <2>2
  <2>4. i < l
    BY <1>2, <2>1, <2>2, <2>3
  <2> QED
    BY <2>1, <2>2, <2>4
<1>6. \A x, y \in Found : x = y \/ Came(x, y) \/ Came(y, x)
  <2> SUFFICES ASSUME NEW x \in Found, NEW y \in Found, x # y PROVE Came(x, y) \/ Came(y, x)
    OBVIOUS
  <2>1. PICK i, j \in DOMAIN run.relevant : run.relevant[i] = x /\ run.relevant[j] = y
    BY DEF Found, ToSet
  <2>2. i # j
    BY <2>1
  <2>3. i < j \/ j < i
    BY <1>2, <2>2
  <2> QED
    BY <2>1, <2>3
<1> HIDE DEF Came
<1>7. \A x, y, z \in Found : Before(x, y) /\ Before(y, z) => Before(x, z)
  <2> SUFFICES ASSUME NEW x \in Found, NEW y \in Found, NEW z \in Found, Before(x, y), Before(y, z)
               PROVE  Before(x, z)
    OBVIOUS
  <2>1. Stratum(x) \in Nat /\ Stratum(y) \in Nat /\ Stratum(z) \in Nat
    BY <1>1
  <2>2. /\ Stratum(x) < Stratum(y) \/ (Stratum(x) = Stratum(y) /\ Came(x, y))
        /\ Stratum(y) < Stratum(z) \/ (Stratum(y) = Stratum(z) /\ Came(y, z))
    BY <1>3
  <2>3. Stratum(x) < Stratum(z) \/ (Stratum(x) = Stratum(z) /\ Came(x, y) /\ Came(y, z))
    BY <2>1, <2>2
  <2> QED
    BY <1>3, <1>5, <2>3
<1>8. \A x, y \in Found : x = y \/ Before(x, y) \/ Before(y, x)
  <2> SUFFICES ASSUME NEW x \in Found, NEW y \in Found PROVE x = y \/ Before(x, y) \/ Before(y, x)
    OBVIOUS
  <2>1. Stratum(x) < Stratum(y) \/ Stratum(y) < Stratum(x) \/ Stratum(x) = Stratum(y)
    BY <1>1
  <2> QED
    BY <1>3, <1>6, <2>1
<1>9. \A x \in Found : ~Before(x, x)
  <2> SUFFICES ASSUME NEW x \in Found PROVE ~Before(x, x)
    OBVIOUS
  <2>1. Stratum(x) \in Nat
    BY <1>1
  <2>2. ~(Stratum(x) < Stratum(x))
    BY <2>1
  <2> QED
    BY <1>3, <1>4, <2>2
<1> QED
  BY <1>7, <1>8, <1>9

LEMMA StratifiedIs ==
  ASSUME Searched
  PROVE  /\ Stratified \in Seq(Nodes) /\ Len(Stratified) = Len(run.relevant)
         /\ IsInjective(Stratified) /\ ToSet(Stratified) = Found
         /\ \A i, j \in DOMAIN Stratified : i < j => Before(Stratified[i], Stratified[j])
<1> DEFINE L == Len(run.relevant)
           B == {p \in Found \X Found : Before(p[1], p[2])}
           Sorts(s) == \A i, j \in DOMAIN s : i < j => Before(s[i], s[j])
<1>1. /\ run.relevant \in Seq(Nodes) /\ L \in Nat /\ DOMAIN run.relevant = 1..L
      /\ IsFiniteSet(Found) /\ Cardinality(Found) = L
  <2>1. run.relevant \in Seq(Nodes) /\ IsInjective(run.relevant)
    BY DEF Searched, TypesInv, ProcessOK, SearchOK, FoundOK
  <2>2. IsFiniteSet(ToSet(run.relevant)) /\ Cardinality(ToSet(run.relevant)) = Len(run.relevant)
    BY <2>1, LengthOfList
  <2> QED
    BY <2>1, <2>2 DEF Found
<1>2. \A x, y \in Found : <<x, y>> \in B <=> Before(x, y)
  OBVIOUS
<1> HIDE DEF B, L
<1>3. /\ \A x \in Found : <<x, x>> \notin B
      /\ \A x, y, z \in Found : <<x, y>> \in B /\ <<y, z>> \in B => <<x, z>> \in B
      /\ \A x, y \in Found : x = y \/ <<x, y>> \in B \/ <<y, x>> \in B
  BY <1>2, BeforeOrders
<1>4. \E s \in [1..L -> Found] : \A i, j \in 1..L : i < j => <<s[i], s[j]>> \in B
  <2> HIDE DEF Found
  <2>1. \E s \in [1..Cardinality(Found) -> Found] :
           \A i, j \in 1..Cardinality(Found) : i < j => <<s[i], s[j]>> \in B
    BY <1>1, <1>3, OrderIsListed
  <2> QED
    BY <1>1, <2>1
<1>5. \E s \in [1..L -> Found] : Sorts(s)
  BY <1>2, <1>4
<1>6. Stratified = CHOOSE s \in [1..L -> Found] : Sorts(s)
  BY <1>1 DEF Stratified, Found
<1>7. Stratified \in [1..L -> Found] /\ Sorts(Stratified)
  <2> HIDE DEF Sorts
  <2> QED
    BY <1>5, <1>6
<1> HIDE DEF Found
<1>8. \A i, j \in 1..L : i < j => <<Stratified[i], Stratified[j]>> \in B
  BY <1>2, <1>7
<1>9. /\ \A i, j \in 1..L : Stratified[i] = Stratified[j] => i = j
      /\ \A x \in Found : \E i \in 1..L : Stratified[i] = x
  <2>1. Lists(Stratified, Found, B)
    BY <1>1, <1>3, <1>7, <1>8 DEF Lists
  <2>2. ListsOnce(Stratified, Found)
    BY <2>1, ListIsComplete
  <2> QED
    BY <1>1, <2>2 DEF ListsOnce
<1>10. Stratified \in Seq(Nodes) /\ Len(Stratified) = L
  <2>1. Found \subseteq Nodes
    BY AllCompleted
  <2> QED
    BY <1>1, <1>7, <2>1
<1>11. IsInjective(Stratified) /\ ToSet(Stratified) = Found
  BY <1>7, <1>9 DEF IsInjective, ToSet
<1> QED
  BY <1>7, <1>10, <1>11 DEF L

(* A node comes before what it depends on.                                 *)
Ordered(s) == \A i, j \in DOMAIN s : s[j] \in Deps(s[i]) => i < j

LEMMA StratifiedIsOrdered ==
  ASSUME Searched
  PROVE  Ordered(Stratified)
<1>1. SUFFICES ASSUME NEW i \in DOMAIN Stratified, NEW j \in DOMAIN Stratified,
                      Stratified[j] \in Deps(Stratified[i])
               PROVE  i < j
  BY DEF Ordered
<1> DEFINE m == Stratified[i]
           d == Stratified[j]
<1>2. i \in Nat /\ j \in Nat
  BY StratifiedIs
<1>3. m \in Found
  BY StratifiedIs DEF ToSet
<1>4. Stratum(m) \in Nat /\ Stratum(d) \in Nat /\ Stratum(m) < Stratum(d)
  BY <1>1, <1>3, DepsAreLater
<1>5. ~(j < i)
  <2>1. ASSUME j < i
        PROVE  Before(d, m)
    BY <2>1, StratifiedIs
  <2>2. ASSUME Before(d, m)
        PROVE  Stratum(d) < Stratum(m) \/ Stratum(d) = Stratum(m)
    BY <2>2 DEF Before
  <2> QED
    BY <1>4, <2>1, <2>2
<1>6. i # j
  BY <1>4
<1> QED
  BY <1>2, <1>5, <1>6

LEMMA StratifySets ==
  ASSUME TypesInv, GraphInv, Stratify
  PROVE  /\ Searched /\ run.pc = "check" /\ run'.pc = "compile" /\ run'.relevant = Stratified
         /\ RunOK' /\ disk' = disk /\ past' = past /\ node' = node
         /\ run'.stack = <<>> /\ run'.stack = run.stack /\ run'.phase = run.phase
         /\ run'.at = run.at /\ run'.compiled = run.compiled /\ run'.scan = run.scan
         /\ run'.source = run.source /\ run'.cached = run.cached /\ run'.work = run.work
         /\ run'.copy = run.copy
<1>1. /\ run.pc = "check" /\ run.stack = <<>>
      /\ run' = [run EXCEPT !.pc = "compile", !.relevant = Stratified]
      /\ UNCHANGED <<disk, node, past>>
  BY DEF Stratify
<1>2. Searched
  BY <1>1 DEF Searched, GraphInv
<1> QED
  BY <1>1, <1>2 DEF RunOK, HasRun, TypesInv

LEMMA StratifyTypes ==
  ASSUME TypesInv, GraphInv, Stratify
  PROVE  TypesInv'
<1>1. run'.relevant \in Seq(Nodes)
  BY StratifySets, StratifiedIs
<1>2. ProcessOK'
  BY <1>1, StratifySets DEF TypesInv, ProcessOK
<1>3. NodesOK' /\ run'.work = NoWork /\ file' = file /\ cache' = cache
  BY StratifySets DEF TypesInv, NodesOK, WorkOK, Work, disk
<1> QED
  BY <1>2, <1>3, StratifySets, PlainStep

LEMMA StratifyGraph ==
  ASSUME TypesInv, GraphInv, Stratify
  PROVE  GraphInv'
<1>1. /\ Searched /\ run'.pc = "compile" /\ node' = node
      /\ run'.stack = run.stack /\ run'.phase = run.phase /\ run'.stack = <<>>
      /\ IsInjective(run'.relevant) /\ ToSet(run'.relevant) = Found
  BY StratifySets, StratifiedIs
<1>2. Found' = Found /\ Completed' = Completed /\ Checked' = Checked /\ \A n : Deps(n)' = Deps(n)
  BY <1>1 DEF Found, Completed, Checked, Deps
<1>3. SearchOK
  BY <1>1 DEF Searched
<1>4. FoundOK'
  BY <1>1, <1>2, <1>3 DEF SearchOK, FoundOK
<1>5. StackOK'
  <2>1. Len(run.stack) = 0
    BY <1>1
  <2> QED
    BY <1>1, <1>2, <1>3, <2>1 DEF SearchOK, StackOK
<1>6. ReachedOK'
  BY <1>2, <1>3 DEF SearchOK, ReachedOK, ClosedIn
<1>7. CompletedOK'
  BY <1>2, <1>3 DEF SearchOK, CompletedOK, Below, ClosedIn
<1>8. StatesOK'
  BY <1>1, <1>2, <1>3 DEF SearchOK, StatesOK
<1>9. ControlOK'
  BY <1>1 DEF ControlOK, Checking, Analysing
<1> QED
  BY <1>4, <1>5, <1>6, <1>7, <1>8, <1>9 DEF GraphInv, SearchOK

-----------------------------------------------------------------------------
(* The compile loop: a node comes before what it depends on, and the loop  *)
(* has left the nodes from the last one on up to date.                     *)
CompileInv ==
  run.pc # "idle" /\ ~Checking =>
    /\ run.at <= Len(run.relevant) /\ Ordered(run.relevant)
    /\ \A k \in 1..Len(run.relevant) :
         k > Len(run.relevant) - run.at => node[run.relevant[k]].state = "current"
    /\ run.pc \in {"catalog", "content", "save"} => run.at = Len(run.relevant)
    /\ run.pc = "work" => /\ run.at < Len(run.relevant) /\ Work.node = NextNode
                          /\ node[Work.node].state = "uncompiled"

LEMMA RelevantIs ==
  ASSUME TypesInv
  PROVE  /\ run.relevant \in Seq(Nodes) /\ Len(run.relevant) \in Nat /\ run.at \in Nat
         /\ DOMAIN run.relevant = 1..Len(run.relevant)
         /\ \A k \in 1..Len(run.relevant) : run.relevant[k] \in Nodes /\ run.relevant[k] \in Found
BY DEF TypesInv, ProcessOK, Found, ToSet

LEMMA OrderStays ==
  ASSUME TypesInv, Ordered(run.relevant), run'.relevant = run.relevant,
         \A n \in Nodes : node'[n].deps = node[n].deps
  PROVE  Ordered(run.relevant)'
BY RelevantIs DEF Ordered, Deps

LEMMA LaterCompile ==
  ASSUME TypesInv, CompileInv, run.pc # "idle", ~Checking, SameDepsStates,
         run'.relevant = run.relevant, run'.at = run.at,
         run'.pc \in {"catalog", "content", "save"} => run.at = Len(run.relevant),
         run'.pc = "work" => /\ run.at < Len(run.relevant) /\ run'.work.node = NextNode
                             /\ node[NextNode].state = "uncompiled"
  PROVE  CompileInv'
<1>1. Ordered(run.relevant)'
  BY OrderStays DEF CompileInv, SameDepsStates
<1>2. /\ run.at <= Len(run.relevant)
      /\ \A k \in 1..Len(run.relevant) :
           k > Len(run.relevant) - run.at => node'[run.relevant[k]].state = "current"
  BY RelevantIs DEF CompileInv, SameDepsStates
<1>3. run'.pc = "work" => /\ Work'.node = NextNode' /\ node'[Work'.node].state = "uncompiled"
  <2>1. NextNode' = NextNode
    BY DEF NextNode
  <2>2. run.at < Len(run.relevant) => NextNode \in Nodes
    BY NextNodeIs
  <2> QED
    BY <2>1, <2>2 DEF SameDepsStates, Work
<1> QED
  BY <1>1, <1>2, <1>3 DEF CompileInv

LEMMA NextCompiled ==
  ASSUME TypesInv, GraphInv, CompileInv, run.pc # "idle", ~Checking, run.at < Len(run.relevant),
         run'.pc = "compile", run'.relevant = run.relevant, run'.at = run.at + 1,
         node'[NextNode].state = "current", node'[NextNode].deps = node[NextNode].deps,
         \A m \in Nodes : m # NextNode => node'[m] = node[m]
  PROVE  CompileInv'
<1> DEFINE L == Len(run.relevant)
<1>1. /\ L \in Nat /\ run.at \in Nat /\ L - run.at \in 1..L
      /\ NextNode = run.relevant[L - run.at] /\ NextNode \in Nodes
  BY RelevantIs, NextNodeIs
<1>2. Ordered(run.relevant)'
  <2>1. \A m \in Nodes : node'[m].deps = node[m].deps
    OBVIOUS
  <2> QED
    BY <2>1, OrderStays DEF CompileInv
<1>3. ASSUME NEW k \in 1..L, k > L - (run.at + 1)
      PROVE  node'[run.relevant[k]].state = "current"
  <2>1. CASE run.relevant[k] = NextNode
    BY <2>1
  <2>2. CASE run.relevant[k] # NextNode
    <3>1. k # L - run.at
      BY <1>1, <2>2
    <3>2. k > L - run.at
      BY <1>1, <1>3, <3>1
    <3> QED
      BY <2>2, <3>2, RelevantIs DEF CompileInv
  <2> QED
    BY <2>1, <2>2
<1>4. run.at + 1 <= L
  BY <1>1
<1> QED
  BY <1>2, <1>3, <1>4 DEF CompileInv

LEMMA StratifyCompile ==
  ASSUME TypesInv, GraphInv, Stratify
  PROVE  CompileInv'
<1>1. /\ Searched /\ run.pc = "check" /\ run'.pc = "compile" /\ run'.relevant = Stratified
      /\ node' = node /\ run'.at = run.at
  BY StratifySets
<1>2. run'.at = 0
  BY <1>1 DEF GraphInv, ControlOK, Checking
<1>3. Ordered(run'.relevant) /\ Len(run'.relevant) \in Nat
  <2>1. Len(run.relevant) \in Nat
    BY RelevantIs
  <2> QED
    BY <1>1, <2>1, StratifiedIs, StratifiedIsOrdered
<1>4. Ordered(run.relevant)'
  BY <1>1, <1>3 DEF Ordered, Deps
<1>5. \A k \in 1..Len(run'.relevant) : ~(k > Len(run'.relevant) - 0)
  BY <1>3
<1> QED
  BY <1>1, <1>2, <1>3, <1>4, <1>5 DEF CompileInv

LEMMA NotCompiledAgainCompile ==
  ASSUME TypesInv, GraphInv, CompileInv, NotCompiledAgain
  PROVE  CompileInv'
<1>1. /\ run.pc = "compile" /\ run.at < Len(run.relevant) /\ node[NextNode].state # "uncompiled"
      /\ node' = node /\ run'.pc = "compile" /\ run'.relevant = run.relevant
      /\ run'.at = run.at + 1
  BY NotCompiledAgainSets
<1>2. ~Checking /\ NextNode \in Nodes
  BY <1>1, NextNodeIs DEF Checking, Analysing
<1>3. node[NextNode].state = "current"
  <2>1. Searched
    BY <1>1, <1>2 DEF Searched, GraphInv, ControlOK
  <2>2. NextNode \in Checked
    <3>1. NextNode \in Found
      BY <1>1, NextNodeIs, RelevantIs
    <3> QED
      BY <2>1, <3>1, AllCompleted DEF Completed, Checked
  <2>3. node[NextNode].state \in {"unanalyzed", "uncompiled", "current"}
    BY <1>2 DEF TypesInv, NodesOK, IsNode
  <2> QED
    BY <1>1, <2>1, <2>2, <2>3 DEF Searched, SearchOK, StatesOK
<1> QED
  BY <1>1, <1>2, <1>3, NextCompiled

LEMMA CompileDepsNodeCompile ==
  ASSUME TypesInv, GraphInv, CompileInv, CompileDepsNode
  PROVE  CompileInv'
<1> DEFINE n == NextNode
           y == SetState(node[n], "current")
           x == [y EXCEPT !.version = version[n]]
<1>1. /\ run.at < Len(run.relevant) /\ node' = [node EXCEPT ![n] = x]
      /\ run'.pc = "compile" /\ run'.relevant = run.relevant
      /\ run'.at = run.at + 1 /\ run.pc = "compile"
  BY CompileDepsNodeSets
<1>2. n \in Nodes /\ IsNode(node[n])
  BY <1>1, NextNodeIs DEF TypesInv, NodesOK
<1> HIDE DEF n
<1>3. IsNode(y) /\ y.state = "current" /\ y.deps = node[n].deps
  BY <1>2, SetStateIsNode
<1> HIDE DEF y
<1>4. IsNode(x) /\ x.state = "current" /\ x.deps = node[n].deps
  BY <1>3, SetVersionIsNode DEF VersionSet
<1> HIDE DEF x
<1>5. node'[n] = x /\ \A m \in Nodes : m # n => node'[m] = node[m]
  BY <1>1, <1>2, <1>4, OneNodeChanges DEF TypesInv
<1>6. ~Checking
  BY <1>1 DEF Checking, Analysing
<1> QED
  BY <1>1, <1>4, <1>5, <1>6, NextCompiled DEF n

LEMMA StartCompileCompile ==
  ASSUME TypesInv, GraphInv, CompileInv, StartCompile
  PROVE  CompileInv'
<1> DEFINE n == NextNode
           todo == IF NextNode \in Leaves THEN <<Source(NextNode)>> ELSE <<Analysis(NextNode)>>
           x == [node[n] EXCEPT !.version = version[n]]
<1>1. /\ run.at < Len(run.relevant) /\ node' = [node EXCEPT ![n] = x]
      /\ run'.pc = "work" /\ run'.relevant = run.relevant /\ run'.at = run.at
      /\ run.pc = "compile" /\ node[n].state = "uncompiled"
      /\ run'.work = WorkOn(n, "compile", todo)
  BY StartCompileSets
<1>2. n \in Nodes /\ IsNode(node[n])
  BY <1>1, NextNodeIs DEF TypesInv, NodesOK
<1> HIDE DEF n, todo
<1>3. IsNode(x) /\ x.state = node[n].state /\ x.deps = node[n].deps
  BY <1>2, SetVersionIsNode DEF VersionSet
<1> HIDE DEF x
<1>4. SameDepsStates
  BY <1>1, <1>2, <1>3, OneNodeChanges DEF TypesInv, SameDepsStates
<1>5. run'.work.node = n
  <2>1. Starts(run'.work, n, "compile", todo)
    BY <1>1, NewWork
  <2> QED
    BY <2>1 DEF Starts
<1>6. ~Checking
  BY <1>1 DEF Checking, Analysing
<1> QED
  BY <1>1, <1>4, <1>5, <1>6, LaterCompile DEF n

(* A step of a compiler's work in the loop.                                *)
LEMMA WorkCompile ==
  ASSUME TypesInv, CompileInv, Continues, Work.stage = "compile" => SameDepsStates
  PROVE  CompileInv'
<1> USE DEF Continues
<1>1. CASE Work.stage = "analysis"
  <2>1. Checking'
    BY <1>1 DEF Checking, Analysing, Work
  <2> QED
    BY <2>1 DEF CompileInv
<1>2. CASE Work.stage = "compile"
  <2>1. ~Checking
    BY <1>2 DEF Checking, Analysing
  <2> QED
    BY <1>2, <2>1, LaterCompile DEF CompileInv, SameCourse, CourseKept
<1> QED
  BY <1>1, <1>2 DEF TypesInv, WorkOK

LEMMA IsDoneCompile ==
  ASSUME TypesInv, GraphInv, CompileInv, NEW x, NEW cached, IsDone(x, cached), IsNode(x),
         Work.stage = "compile" => x.deps = node[Work.node].deps
  PROVE  CompileInv'
<1>1. run.pc = "work" /\ Work.node \in Nodes /\ run'.relevant = run.relevant
  BY DEF TypesInv, WorkOK, IsDone
<1>2. CASE Work.stage = "analysis"
  <2>1. run'.pc = "check"
    BY <1>2 DEF IsDone
  <2> QED
    BY <2>1 DEF CompileInv, Checking
<1>3. CASE Work.stage = "compile"
  <2>1. /\ run'.pc = "compile" /\ run'.at = run.at + 1
        /\ node' = [node EXCEPT ![Work.node] = SetState(x, "current")]
    BY <1>3 DEF IsDone
  <2>2. ~Checking /\ run.at < Len(run.relevant) /\ Work.node = NextNode
    BY <1>1, <1>3 DEF Checking, Analysing, CompileInv
  <2>3. /\ IsNode(SetState(x, "current")) /\ SetState(x, "current").state = "current"
        /\ SetState(x, "current").deps = x.deps
    BY SetStateIsNode
  <2> DEFINE y == SetState(x, "current")
  <2>4. NodesOK /\ IsNode(y) /\ node' = [node EXCEPT ![Work.node] = y]
    BY <2>1, <2>3 DEF TypesInv
  <2>5. y.state = "current" /\ y.deps = node[Work.node].deps
    BY <1>3, <2>3
  <2> HIDE DEF y
  <2>6. node'[Work.node] = y /\ \A m \in Nodes : m # Work.node => node'[m] = node[m]
    BY <1>1, <2>4 DEF NodesOK
  <2>7. /\ node'[NextNode].state = "current" /\ node'[NextNode].deps = node[NextNode].deps
        /\ \A m \in Nodes : m # NextNode => node'[m] = node[m]
    BY <2>2, <2>5, <2>6
  <2> QED
    BY <1>1, <2>1, <2>2, <2>7, NextCompiled
<1> QED
  BY <1>1, <1>2, <1>3 DEF TypesInv, WorkOK

LEMMA DepsFileAnalysedCompile ==
  ASSUME TypesInv, DepsFileAnalysed
  PROVE  CompileInv'
<1>1. run'.pc = "check"
  BY DepsFileAnalysedSets DEF IsDone
<1> QED
  BY <1>1 DEF CompileInv, Checking

LEMMA CloseOutputCompile ==
  ASSUME TypesInv, GraphInv, CompileInv, CloseOutput
  PROVE  CompileInv'
<1> DEFINE list == Recorded(node[Work.node][Work.stage].products, Output, StatusAtClose)
           cached == With(run.cached, Output, StatusAtClose)
           x == [node[Work.node] EXCEPT ![Work.stage].products = list]
<1>1. run.pc = "work" /\ IsDone(x, cached)
  BY CloseOutputSets
<1> HIDE DEF list, cached
<1>2. IsNode(node[Work.node]) /\ Work.stage \in {"analysis", "compile"}
  BY <1>1 DEF TypesInv, WorkOK, NodesOK
<1>3. IsNode(x) /\ x.deps = node[Work.node].deps
  BY <1>2, SetProducts DEF ProductsSet
<1> HIDE DEF x
<1> QED
  BY <1>1, <1>3, IsDoneCompile

LEMMA KeptCompile ==
  ASSUME TypesInv, CompileInv, Kept, run.pc \notin {"idle", "check", "work"},
         run'.pc \in {"catalog", "content"}, run.pc = "compile" => run.at = Len(run.relevant)
  PROVE  CompileInv'
<1>1. ~Checking /\ SameDepsStates
  BY DEF Checking, Analysing, SameDepsStates, Kept
<1>2. run.at = Len(run.relevant)
  BY <1>1 DEF CompileInv, TypesInv, ProcessOK
<1> QED
  BY <1>1, <1>2, LaterCompile DEF Kept

LEMMA WriteInstanceCompile ==
  ASSUME TypesInv, CacheInv, CompileInv, WriteInstance
  PROVE  CompileInv'
<1>1. ~Checking /\ SameDepsStates
  BY WriteInstanceSets DEF Checking, Analysing, SameDepsStates
<1>2. run.at = Len(run.relevant)
  BY <1>1, WriteInstanceSets DEF CompileInv
<1> QED
  BY <1>1, <1>2, LaterCompile, WriteInstanceSets

LEMMA BesideCompile ==
  ASSUME TypesInv, CompileInv, node' = node, run' = run
  PROVE  CompileInv'
BY DEF CompileInv, Checking, Analysing, Ordered, Deps, Work, NextNode

-----------------------------------------------------------------------------
BuildInv == CacheInv /\ TypesInv /\ GraphInv /\ CompileInv

LEMMA EndsKeeps ==
  ASSUME BuildInv, NEW how, Ends(how), disk' = disk
  PROVE  TypesInv' /\ GraphInv' /\ CompileInv'
<1>1. run' = NoRun /\ run'.pc = "idle"
  BY NoRunFields DEF Ends
<1>2. CompileInv'
  BY <1>1 DEF CompileInv
<1> QED
  BY <1>1, <1>2, EndsTypes, IdleGraph DEF BuildInv

LEMMA ChecksKeep ==
  ASSUME BuildInv, Checks
  PROVE  TypesInv' /\ GraphInv' /\ CompileInv'
<1> USE DEF BuildInv
<1>1. ASSUME NEW n \in Nodes, CheckFiles(n)
      PROVE  TypesInv' /\ GraphInv' /\ CompileInv'
  <2>1. Checking'
    <3>1. ASSUME run'.work = WorkOn(n, "analysis", <<Source(n)>>)
          PROVE  run'.work.stage = "analysis"
      <4>1. Starts(run'.work, n, "analysis", <<Source(n)>>)
        BY <3>1, NewWork
      <4> QED
        BY <4>1 DEF Starts
    <3> QED
      BY <1>1, <3>1, CheckFilesSets DEF Checking, Analysing, Work
  <2>2. CompileInv'
    BY <2>1 DEF CompileInv
  <2> QED
    BY <1>1, <2>2, CheckFilesTypes, CheckFilesGraph
<1>2. ASSUME NEW n \in Nodes, CheckDependency(n)
      PROVE  TypesInv' /\ GraphInv' /\ CompileInv'
  <2>1. run'.pc = "check"
    BY <1>2, CheckDependencySets
  <2>2. CompileInv'
    BY <2>1 DEF CompileInv, Checking
  <2> QED
    BY <1>2, <2>2, CheckDependencyTypes, CheckDependencyGraph
<1>3. ASSUME NEW n \in Nodes, CircularDependency(n)
      PROVE  TypesInv' /\ GraphInv' /\ CompileInv'
  BY <1>3, EndsKeeps DEF CircularDependency
<1>4. ASSUME NEW n \in Nodes, DependenciesChecked(n)
      PROVE  TypesInv' /\ GraphInv' /\ CompileInv'
  <2>1. run'.pc = "check"
    BY <1>4, DependenciesCheckedSets
  <2>2. CompileInv'
    BY <2>1 DEF CompileInv, Checking
  <2> QED
    BY <1>4, <2>2, DependenciesCheckedTypes, DependenciesCheckedGraph
<1>5. ASSUME Stratify
      PROVE  TypesInv' /\ GraphInv' /\ CompileInv'
  BY <1>5, StratifyTypes, StratifyGraph, StratifyCompile
<1> QED
  BY <1>1, <1>2, <1>3, <1>4, <1>5 DEF Checks

LEMMA ContinuesKeeps ==
  ASSUME BuildInv, Continues, SameDepsStates
  PROVE  GraphInv' /\ CompileInv'
BY SameNodesGraph, WorkCompile DEF BuildInv

LEMMA WorksKeep ==
  ASSUME BuildInv, Works
  PROVE  TypesInv' /\ GraphInv' /\ CompileInv'
<1> USE DEF BuildInv
<1>1. ASSUME NotCompiledAgain
      PROVE  TypesInv' /\ GraphInv' /\ CompileInv'
  BY <1>1, NotCompiledAgainTypes, NotCompiledAgainGraph, NotCompiledAgainCompile
<1>2. ASSUME CompileDepsNode
      PROVE  TypesInv' /\ GraphInv' /\ CompileInv'
  BY <1>2, CompileDepsNodeTypes, CompileDepsNodeGraph, CompileDepsNodeCompile
<1>3. ASSUME StartCompile
      PROVE  TypesInv' /\ GraphInv' /\ CompileInv'
  BY <1>3, StartCompileTypes, StartCompileGraph, StartCompileCompile
<1>4. ASSUME OpenInput
      PROVE  TypesInv' /\ GraphInv' /\ CompileInv'
  BY <1>4, OpenInputTypes, OpenInputSame, ContinuesKeeps
<1>5. ASSUME CannotRead
      PROVE  TypesInv' /\ GraphInv' /\ CompileInv'
  BY <1>5, EndsKeeps DEF CannotRead
<1>6. ASSUME DepsFileAnalysed
      PROVE  TypesInv' /\ GraphInv' /\ CompileInv'
  BY <1>6, DepsFileAnalysedTypes, DepsFileAnalysedGraph, DepsFileAnalysedCompile
<1>7. ASSUME ListedButGone
      PROVE  TypesInv' /\ GraphInv' /\ CompileInv'
  BY <1>7, EndsKeeps DEF ListedButGone
<1>8. ASSUME CreateOutput
      PROVE  TypesInv' /\ GraphInv' /\ CompileInv'
  BY <1>8, CreateOutputTypes, CreateOutputSame, ContinuesKeeps
<1>9. ASSUME CloseOutput
      PROVE  TypesInv' /\ GraphInv' /\ CompileInv'
  BY <1>9, CloseOutputTypes, CloseOutputGraph, CloseOutputCompile
<1>10. ASSUME NEW n \in DepsNodes, ReadDepsFile(n)
      PROVE  TypesInv' /\ GraphInv' /\ CompileInv'
  <2>1. Work.stage = "analysis" /\ Continues
    BY <1>10, ReadDepsFileSets DEF TypesInv, WorkOK, Continues, WorkWith
  <2> QED
    BY <1>10, <2>1, ReadDepsFileTypes, ReadDepsFileGraph, WorkCompile
<1>11. ASSUME NEW n \in Assets, ReadAssetSource(n)
      PROVE  TypesInv' /\ GraphInv' /\ CompileInv'
  <2>1. Work.stage = "analysis" /\ Continues
    BY <1>11, ReadAssetSourceSets DEF Continues, WorkWith
  <2> QED
    BY <1>11, <2>1, ReadAssetSourceTypes, ReadAssetSourceGraph, WorkCompile
<1>12. ASSUME NEW n \in Assets \cup Leaves, NEW todo, NEW items, NEW made,
              OnlyReads(n, todo, items, made)
      PROVE  TypesInv' /\ GraphInv' /\ CompileInv'
  <2>1. Continues /\ SameDepsStates
    BY <1>12, OnlyReadsSame
  <2> QED
    BY <1>12, <2>1, OnlyReadsTypes, ContinuesKeeps
<1>13. ASSUME NEW n \in Assets, TryOptional(n)
      PROVE  TypesInv' /\ GraphInv' /\ CompileInv'
  BY <1>12, <1>13, TryOptionalSets
<1>14. ASSUME NEW n \in Assets, ReadAnalysis(n)
      PROVE  TypesInv' /\ GraphInv' /\ CompileInv'
  BY <1>12, <1>14, ReadAnalysisSets
<1>15. ASSUME NEW n \in Assets, IndexCAS(n)
      PROVE  TypesInv' /\ GraphInv' /\ CompileInv'
  BY <1>15, IndexCASTypes, IndexCASSame, ContinuesKeeps
<1>16. ASSUME NEW n \in Leaves, ReadLeaf(n)
      PROVE  TypesInv' /\ GraphInv' /\ CompileInv'
  BY <1>12, <1>16, ReadLeafSets
<1> QED
  BY <1>1, <1>2, <1>3, <1>4, <1>5, <1>6, <1>7, <1>8, <1>9, <1>10, <1>11, <1>13, <1>14, <1>15,
     <1>16 DEF Works

LEMMA FinishesKeep ==
  ASSUME BuildInv, Finishes
  PROVE  TypesInv' /\ GraphInv' /\ CompileInv'
<1> USE DEF BuildInv
<1>1. ASSUME NothingToExport
      PROVE  TypesInv' /\ GraphInv' /\ CompileInv'
  BY <1>1, NothingToExportSets, KeptTypes, KeptGraph, KeptCompile
<1>2. ASSUME CreateCatalog
      PROVE  TypesInv' /\ GraphInv' /\ CompileInv'
  BY <1>2, CreateCatalogSets, KeptTypes, KeptGraph, KeptCompile
<1>3. ASSUME WriteCatalog
      PROVE  TypesInv' /\ GraphInv' /\ CompileInv'
  BY <1>3, WriteCatalogSets, KeptTypes, KeptGraph, KeptCompile
<1>4. ASSUME NEW id, CopyContent(id)
      PROVE  TypesInv' /\ GraphInv' /\ CompileInv'
  BY <1>4, CopyContentSets, KeptTypes, KeptGraph, KeptCompile
<1>5. ASSUME NEW id, NoContentSource(id)
      PROVE  TypesInv' /\ GraphInv' /\ CompileInv'
  BY <1>5, EndsKeeps DEF NoContentSource
<1>6. ASSUME MoveContent
      PROVE  TypesInv' /\ GraphInv' /\ CompileInv'
  BY <1>6, MoveContentSets, KeptTypes, KeptGraph, KeptCompile
<1>7. ASSUME WriteInstance
      PROVE  TypesInv' /\ GraphInv' /\ CompileInv'
  BY <1>7, WriteInstanceTypes, WriteInstanceGraph, WriteInstanceCompile
<1>8. ASSUME WriteHeader
      PROVE  TypesInv' /\ GraphInv' /\ CompileInv'
  <2>1. run' = NoRun /\ run'.pc = "idle"
    BY <1>8, NoRunFields DEF WriteHeader
  <2>2. CompileInv'
    BY <2>1 DEF CompileInv
  <2> QED
    BY <1>8, <2>1, <2>2, WriteHeaderTypes, IdleGraph
<1> QED
  BY <1>1, <1>2, <1>3, <1>4, <1>5, <1>6, <1>7, <1>8 DEF Finishes

LEMMA NextBuild ==
  ASSUME BuildInv, [Next]_bsVars
  PROVE  BuildInv'
<1> USE DEF BuildInv
<1>1. CacheInv'
  BY NextCache
<1>2. CASE Begin
  <2>1. run'.pc = "check"
    BY <1>2, BeginSets
  <2>2. CompileInv'
    BY <2>1 DEF CompileInv, Checking
  <2> QED
    BY <1>1, <1>2, <2>2, BeginTypes, BeginGraph
<1>3. CASE Killed
  BY <1>1, <1>3, EndsKeeps DEF Killed
<1>4. CASE Environment
  BY <1>1, <1>4, EnvironmentSets, EnvironmentTypes, BesideGraph, BesideCompile
<1>5. CASE UNCHANGED bsVars
  <2>1. node' = node /\ run' = run /\ cache' = cache /\ file' = file
    BY <1>5 DEF bsVars, disk
  <2>2. TypesInv'
    BY <2>1, SameTexts, BesideTypes DEF TypesInv
  <2> QED
    BY <1>1, <2>1, <2>2, BesideGraph, BesideCompile
<1> QED
  BY <1>1, <1>2, <1>3, <1>4, <1>5, ChecksKeep, WorksKeep, FinishesKeep DEF Next

LEMMA InitBuild ==
  ASSUME Init
  PROVE  BuildInv
<1>1. run = NoRun /\ run.pc = "idle"
  BY NoRunFields DEF Init
<1>2. GraphInv /\ CompileInv
  BY <1>1 DEF GraphInv, CompileInv
<1> QED
  BY <1>2, InitCache, InitTypes DEF BuildInv

LEMMA BuildTypes ==
  ASSUME BuildInv
  PROVE  BuildTypeOK
<1>1. run.pc \in {"idle", "check", "work", "compile", "catalog", "content", "save"}
  BY DEF BuildInv, TypesInv, ProcessOK
<1>2. \A n \in Nodes : /\ node[n].state \in {"unanalyzed", "uncompiled", "current"}
                       /\ run.phase[n] \in {"none", "files", "enumerate", "nodes", "completed"}
  BY DEF BuildInv, TypesInv, ProcessOK, NodesOK, IsNode
<1>3. IsInjective(run.relevant) /\ IsInjective(run.stack)
  <2>1. CASE run.pc = "idle"
    <3>1. run.relevant = <<>> /\ run.stack = <<>>
      BY <2>1, NoRunFields DEF BuildInv, TypesInv, ProcessOK
    <3>2. IsInjective(<<>>)
      BY DEF IsInjective
    <3> QED
      BY <3>1, <3>2
  <2>2. CASE run.pc # "idle"
    BY <2>2 DEF BuildInv, GraphInv, SearchOK, FoundOK, StackOK
  <2> QED
    BY <2>1, <2>2
<1>4. (run.pc = "work") = (Work.node # None)
  <2>1. None \notin Nodes
    BY TextsAssumption
  <2>2. NoWork.node = None
    BY DEF NoWork
  <2> QED
    BY <2>1, <2>2 DEF BuildInv, TypesInv, WorkOK
<1>5. Work.open => run.pc = "work" /\ Work.todo # <<>> /\ ~Work.created
  <2>1. NoWork.open = FALSE
    BY DEF NoWork
  <2> QED
    BY <2>1 DEF BuildInv, TypesInv, WorkOK
<1> QED
  BY <1>1, <1>2, <1>3, <1>4, <1>5 DEF BuildTypeOK

LEMMA DependenciesAreCurrent ==
  ASSUME BuildInv
  PROVE  DependenciesFirst
<1>1. SUFFICES ASSUME run.pc = "work", Work.stage = "compile", NEW d \in Deps(Work.node)
               PROVE  node[d].state = "current"
  BY DEF DependenciesFirst, Deps
<1>2. ~Checking
  BY <1>1 DEF Checking, Analysing
<1>3. /\ TypesInv /\ Searched /\ Ordered(run.relevant) /\ run.at < Len(run.relevant)
      /\ Work.node = NextNode
      /\ \A k \in 1..Len(run.relevant) :
           k > Len(run.relevant) - run.at => node[run.relevant[k]].state = "current"
  BY <1>1, <1>2 DEF BuildInv, GraphInv, ControlOK, Searched, CompileInv
<1> DEFINE i == Len(run.relevant) - run.at
<1>4. i \in 1..Len(run.relevant) /\ Work.node = run.relevant[i] /\ Work.node \in Found
  BY <1>3, NextNodeIs, RelevantIs
<1>5. d \in Found
  BY <1>1, <1>3, <1>4, AllCompleted
<1>6. PICK j \in 1..Len(run.relevant) : run.relevant[j] = d
  BY <1>3, <1>5, RelevantIs DEF Found, ToSet
<1>7. i < j
  BY <1>1, <1>3, <1>4, <1>6, RelevantIs DEF Ordered
<1> QED
  BY <1>3, <1>6, <1>7

(* The check of the graph lists every node once and has it at most once on *)
(* its stack, and a file is only read for the node that is worked on       *)
(* (CheckNodeNodeDependencies, DependencyNodeCompilerFeedback).            *)
THEOREM BuildSystemTypeOK == Spec => []BuildTypeOK
<1>1. Init => BuildInv
  BY InitBuild
<1>2. BuildInv /\ [Next]_bsVars => BuildInv'
  BY NextBuild
<1>3. BuildInv => BuildTypeOK
  BY BuildTypes
<1> QED
  BY <1>1, <1>2, <1>3, PTL DEF Spec

(* When a node is compiled all it depends on is up to date: the strata put *)
(* it behind its dependencies (StratifyRelevantNodes, Build).              *)
THEOREM BuildSystemDependenciesFirst == Spec => []DependenciesFirst
<1>1. Init => BuildInv
  BY InitBuild
<1>2. BuildInv /\ [Next]_bsVars => BuildInv'
  BY NextBuild
<1>3. BuildInv => DependenciesFirst
  BY DependenciesAreCurrent
<1> QED
  BY <1>1, <1>2, <1>3, PTL DEF Spec

-----------------------------------------------------------------------------
(* What a node leads to, step by step.                                     *)
IsReached(f, n, N) ==
  /\ f[0] = Deps(n)
  /\ \A i \in 1..N : f[i] = f[i - 1] \cup UNION {Deps(m) : m \in f[i - 1]}

LEMMA ReachedSteps ==
  ASSUME \A m \in Nodes : Deps(m) \subseteq Nodes, NEW n \in Nodes
  PROVE  /\ Cardinality(Nodes) \in Nat
         /\ \E f \in [0..Cardinality(Nodes) -> SUBSET Nodes] :
              IsReached(f, n, Cardinality(Nodes)) /\ ReachedFrom(n) = f[Cardinality(Nodes)]
<1> DEFINE N == Cardinality(Nodes)
           Further(S) == S \cup UNION {ToSet(node[m].deps) : m \in S}
           step == [p \in (1..N) \X (SUBSET Nodes) |-> Further(p[2])]
           Is(f) == f = [i \in 0..N |->
                           IF i = 0 THEN ToSet(node[n].deps)
                           ELSE f[i - 1] \cup UNION {ToSet(node[m].deps) : m \in f[i - 1]}]
           reached == CHOOSE f : Is(f)
<1>1. N \in Nat /\ Deps(n) \in SUBSET Nodes /\ \A m : Deps(m) = ToSet(node[m].deps)
  BY BuildSystemAssumption, FS_CardinalityType DEF Deps
<1>2. step \in StepOf(N, SUBSET Nodes)
  <2>1. ASSUME NEW S \in SUBSET Nodes
        PROVE  Further(S) \in SUBSET Nodes
    BY <1>1
  <2> HIDE DEF Further
  <2> QED
    BY <2>1 DEF StepOf
<1>3. PICK g \in [0..N -> SUBSET Nodes] : Repeats(g, N, Deps(n), step)
  <2> HIDE DEF step, N
  <2> QED
    BY <1>1, <1>2, Recursion
<1>4. ASSUME NEW i \in 1..N
      PROVE  g[i] = Further(g[i - 1])
  <2> HIDE DEF N
  <2>1. i \in 1..N /\ i - 1 \in 0..N
    BY <1>1
  <2>2. g[i - 1] \in SUBSET Nodes /\ g[i] = step[<<i, g[i - 1]>>]
    BY <1>3, <2>1 DEF Repeats
  <2> QED
    BY <2>1, <2>2
<1> HIDE DEF N
<1>5. Is(g)
  <2>1. g = [i \in 0..N |-> g[i]]
    BY <1>3
  <2>2. g[0] = ToSet(node[n].deps) /\ \A i \in 0..N : i # 0 => i \in 1..N
    BY <1>1, <1>3 DEF Repeats
  <2> QED
    BY <1>4, <2>1, <2>2
<1>6. Is(reached) /\ ReachedFrom(n) = reached[N]
  BY <1>5 DEF ReachedFrom, N
<1> HIDE DEF reached
<1>7. reached[0] = Deps(n)
  BY <1>1, <1>6
<1>8. ASSUME NEW i \in 1..N
      PROVE  reached[i] = reached[i - 1] \cup UNION {Deps(m) : m \in reached[i - 1]}
  <2>1. i \in 0..N /\ i # 0
    BY <1>1
  <2>2. reached[i] = reached[i - 1] \cup UNION {ToSet(node[m].deps) : m \in reached[i - 1]}
    BY <1>6, <2>1
  <2> QED
    BY <2>2 DEF Deps
<1>9. IsReached(reached, n, N)
  BY <1>7, <1>8 DEF IsReached
<1>10. reached \in [0..N -> SUBSET Nodes]
  <2> DEFINE T == {k \in Nat : k <= N => reached[k] \in SUBSET Nodes}
  <2>1. 0 \in T
    BY <1>1, <1>7
  <2>2. ASSUME NEW k \in T
        PROVE  k + 1 \in T
    <3>1. SUFFICES ASSUME k + 1 <= N PROVE reached[k + 1] \in SUBSET Nodes
      OBVIOUS
    <3>2. k + 1 \in 1..N /\ (k + 1) - 1 = k /\ reached[k] \in SUBSET Nodes
      BY <1>1, <3>1
    <3> QED
      BY <1>8, <3>2
  <2>3. T \in SUBSET Nat
    OBVIOUS
  <2> HIDE DEF T
  <2>4. T = Nat
    BY <2>1, <2>2, <2>3, SetInduction
  <2>5. \A k \in 0..N : reached[k] \in SUBSET Nodes
    BY <1>1, <2>4 DEF T
  <2>6. DOMAIN reached = 0..N /\ reached = [i \in 0..N |-> reached[i]]
    BY <1>6
  <2> QED
    BY <2>5, <2>6
<1> QED
  BY <1>1, <1>6, <1>9, <1>10 DEF N

(* All of it lies in a set that has the dependencies of its nodes.         *)
LEMMA ReachedInside ==
  ASSUME \A m \in Nodes : Deps(m) \subseteq Nodes, NEW n \in Nodes,
         NEW S \in SUBSET Nodes, Deps(n) \subseteq S, ClosedIn(S, Nodes)
  PROVE  ReachedFrom(n) \subseteq S
<1> DEFINE N == Cardinality(Nodes)
<1>1. N \in Nat /\ \A m \in S : Deps(m) \subseteq S
  BY ReachedSteps DEF ClosedIn
<1>2. PICK f \in [0..N -> SUBSET Nodes] : IsReached(f, n, N) /\ ReachedFrom(n) = f[N]
  BY ReachedSteps
<1> HIDE DEF N
<1> DEFINE T == {k \in Nat : k <= N => f[k] \subseteq S}
<1>3. 0 \in T
  BY <1>2 DEF IsReached
<1>4. ASSUME NEW k \in T
      PROVE  k + 1 \in T
  <2>1. SUFFICES ASSUME k + 1 <= N PROVE f[k + 1] \subseteq S
    OBVIOUS
  <2>2. k + 1 \in 1..N /\ (k + 1) - 1 = k /\ f[k] \subseteq S
    BY <1>1, <2>1
  <2> QED
    BY <1>1, <1>2, <2>2 DEF IsReached
<1>5. T \in SUBSET Nat
  OBVIOUS
<1> HIDE DEF T
<1>6. T = Nat
  BY <1>3, <1>4, <1>5, SetInduction
<1> QED
  BY <1>1, <1>2, <1>6 DEF T

(* Once the check has come to its end no node leads to itself.             *)
LEMMA NoCircle ==
  ASSUME Searched
  PROVE  ~HasCircle
<1>1. SUFFICES ASSUME NEW n \in Found, n \in ReachedFrom(n)
               PROVE  FALSE
  BY DEF HasCircle, Found
<1>2. n \in Completed /\ n \in Nodes /\ \A m \in Nodes : Deps(m) \subseteq Nodes
  BY AllCompleted DEF Searched, TypesInv, NodesOK, IsNode, ToSet, Deps
<1>3. PICK S \in SUBSET Completed : Below(n, S)
  BY <1>2 DEF Searched, SearchOK, CompletedOK
<1>4. S \in SUBSET Nodes /\ n \notin S /\ Deps(n) \subseteq S /\ ClosedIn(S, Nodes)
  BY <1>3 DEF Below, Completed
<1> QED
  BY <1>1, <1>2, <1>4, ReachedInside

(* A node that leads to itself: the one at the top of the stack depends on *)
(* one that waits on it.                                                   *)
LEMMA StackIsCircle ==
  ASSUME TypesInv, SearchOK, run.stack # <<>>, run.phase[Top] = "nodes",
         NEW d \in Deps(Top), run.phase[d] \notin {"none", "completed"}
  PROVE  HasCircle
<1> DEFINE N == Cardinality(Nodes)
           s == run.stack
<1>1. /\ s \in Seq(Nodes) /\ Len(s) \in Nat \ {0} /\ Top = s[Len(s)] /\ IsInjective(s)
      /\ \A i \in 1..Len(s) : s[i] \in Nodes
      /\ \A m \in Nodes : Deps(m) \subseteq Nodes
  BY TopIsLast DEF TypesInv, ProcessOK, NodesOK, IsNode, ToSet, Deps, SearchOK, StackOK
<1>2. d \in Nodes /\ d \in Found /\ d \in ToSet(s)
  <2>1. d \in Nodes
    BY <1>1
  <2> QED
    BY <2>1 DEF SearchOK, FoundOK, StackOK, Completed
<1>3. PICK i \in 1..Len(s) : s[i] = d
  BY <1>1, <1>2 DEF ToSet
<1>4. N \in Nat /\ Len(s) <= N
  <2>1. IsFiniteSet(ToSet(s)) /\ Cardinality(ToSet(s)) = Len(s)
    BY <1>1, LengthOfList
  <2>2. ToSet(s) \subseteq Nodes /\ IsFiniteSet(Nodes)
    BY <1>1, BuildSystemAssumption DEF ToSet
  <2>3. Cardinality(ToSet(s)) <= Cardinality(Nodes)
    BY <2>2, FS_Subset
  <2> QED
    BY <2>1, <2>2, <2>3, FS_CardinalityType
<1>5. PICK f \in [0..N -> SUBSET Nodes] : IsReached(f, d, N) /\ ReachedFrom(d) = f[N]
  BY <1>1, <1>2, ReachedSteps
<1>6. \A j \in 1..(Len(s) - 1) : s[j + 1] \in Deps(s[j])
  BY DEF SearchOK, StackOK
<1> HIDE DEF N, s
<1> DEFINE T == {k \in Nat : i + k < Len(s) => s[i + k + 1] \in f[k]}
<1>7. 0 \in T
  <2>1. ASSUME i < Len(s) PROVE s[i + 1] \in Deps(d)
    BY <1>1, <1>3, <1>6, <2>1
  <2> QED
    BY <1>1, <1>5, <2>1 DEF IsReached
<1>8. ASSUME NEW k \in T
      PROVE  k + 1 \in T
  <2>1. SUFFICES ASSUME i + (k + 1) < Len(s) PROVE s[i + (k + 1) + 1] \in f[k + 1]
    OBVIOUS
  <2>2. /\ k + 1 \in 1..N /\ (k + 1) - 1 = k /\ i + k < Len(s) /\ i + k + 1 \in 1..(Len(s) - 1)
        /\ i + (k + 1) + 1 = (i + k + 1) + 1
    BY <1>1, <1>3, <1>4, <2>1
  <2>3. s[i + k + 1] \in f[k] /\ s[(i + k + 1) + 1] \in Deps(s[i + k + 1])
    BY <1>6, <2>2
  <2> QED
    BY <1>5, <2>2, <2>3 DEF IsReached
<1>9. T = Nat
  <2>1. T \in SUBSET Nat
    OBVIOUS
  <2> HIDE DEF T
  <2> QED
    BY <1>7, <1>8, <2>1, SetInduction
<1>10. \E k \in 0..N : d \in f[k]
  <2>1. CASE i = Len(s)
    BY <1>1, <1>3, <1>4, <1>5, <2>1 DEF IsReached
  <2>2. CASE i < Len(s)
    <3> DEFINE k == Len(s) - i
    <3>1. k \in 1..N /\ k - 1 \in Nat /\ i + (k - 1) < Len(s) /\ i + (k - 1) + 1 = Len(s)
      BY <1>1, <1>3, <1>4, <2>2
    <3>2. s[Len(s)] \in f[k - 1]
      BY <1>9, <3>1
    <3>3. d \in f[k]
      BY <1>1, <1>5, <3>1, <3>2 DEF IsReached
    <3> QED
      BY <3>1, <3>3
  <2> QED
    BY <1>1, <1>3, <2>1, <2>2
<1>11. PICK k0 \in 0..N : d \in f[k0]
  BY <1>10
<1> DEFINE U == {k \in Nat : k0 + k <= N => d \in f[k0 + k]}
<1>12. U = Nat
  <2>1. 0 \in U
    BY <1>4, <1>11
  <2>2. ASSUME NEW k \in U
        PROVE  k + 1 \in U
    <3>1. SUFFICES ASSUME k0 + (k + 1) <= N PROVE d \in f[k0 + (k + 1)]
      OBVIOUS
    <3>2. k0 + (k + 1) \in 1..N /\ (k0 + (k + 1)) - 1 = k0 + k /\ k0 + k <= N
      BY <1>4, <1>11, <3>1
    <3> QED
      BY <1>5, <3>2 DEF IsReached
  <2>3. U \in SUBSET Nat
    OBVIOUS
  <2> HIDE DEF U
  <2> QED
    BY <2>1, <2>2, <2>3, SetInduction
<1>13. d \in f[N]
  <2>1. N - k0 \in Nat /\ k0 + (N - k0) = N /\ N <= N
    BY <1>4, <1>11
  <2> QED
    BY <1>12, <2>1
<1> QED
  BY <1>2, <1>5, <1>13 DEF HasCircle, Found

HasPast(p) ==
  p = [result |-> p.result, touched |-> p.touched, raced |-> p.raced, removed |-> p.removed,
       torn |-> p.torn, builds |-> p.builds, disturbances |-> p.disturbances]

PastOK == HasPast(past)

(* Only the check of a node's dependencies says that there is a circle.    *)
Circle == past'.result = "circular" /\ past.result # "circular"

LEMMA EndsPast ==
  ASSUME PastOK, NEW how, Ends(how)
  PROVE  PastOK' /\ past'.result = how /\ run' = NoRun
BY DEF PastOK, HasPast, Ends

LEMMA SamePast ==
  ASSUME PastOK, past' = past
  PROVE  PastOK' /\ ~Circle
BY DEF PastOK, Circle

LEMMA ChecksPast ==
  ASSUME BuildInv, PastOK, Checks
  PROVE  PastOK' /\ (Circle => HasCircle) /\ (run'.pc = "compile" => ~HasCircle)
<1>1. TypesInv /\ GraphInv
  BY DEF BuildInv
<1>2. ASSUME NEW n \in Nodes, CheckFiles(n)
      PROVE  PastOK' /\ ~Circle /\ run'.pc # "compile"
  BY <1>1, <1>2, SamePast, CheckFilesSets
<1>3. ASSUME NEW n \in Nodes, CheckDependency(n)
      PROVE  PastOK' /\ ~Circle /\ run'.pc # "compile"
  BY <1>1, <1>3, SamePast, CheckDependencySets
<1>4. ASSUME NEW n \in Nodes, DependenciesChecked(n)
      PROVE  PastOK' /\ ~Circle /\ run'.pc # "compile"
  BY <1>1, <1>4, SamePast, DependenciesCheckedSets
<1>5. ASSUME NEW n \in Nodes, CircularDependency(n)
      PROVE  PastOK' /\ HasCircle /\ run'.pc # "compile"
  <2> DEFINE d == node[n].deps[NextDependency(n)]
  <2>1. /\ AtTop(n, "nodes") /\ NextDependency(n) # 0 /\ run.phase[d] # "none"
        /\ Ends("circular")
    BY <1>5 DEF CircularDependency
  <2>2. d \in ToSet(node[n].deps) /\ run.phase[d] # "completed"
    BY <1>1, <2>1, NextDependencyIs
  <2> HIDE DEF d
  <2>3. run.pc = "check" /\ run.stack # <<>> /\ n = Top /\ run.phase[Top] = "nodes"
    BY <2>1 DEF AtTop
  <2>4. d \in Deps(Top) /\ run.phase[d] \notin {"none", "completed"}
    BY <2>1, <2>2, <2>3 DEF Deps
  <2>5. SearchOK
    BY <1>1, <2>3 DEF GraphInv
  <2>6. HasCircle
    BY <1>1, <2>3, <2>4, <2>5, StackIsCircle
  <2>7. run'.pc = "idle"
    BY <2>1, EndsPast, NoRunFields
  <2> QED
    BY <2>1, <2>6, <2>7, EndsPast
<1>6. ASSUME Stratify
      PROVE  PastOK' /\ ~Circle /\ ~HasCircle
  BY <1>1, <1>6, StratifySets, SamePast, NoCircle
<1> QED
  BY <1>2, <1>3, <1>4, <1>5, <1>6 DEF Checks

LEMMA WorksPast ==
  ASSUME BuildInv, PastOK, Works
  PROVE  PastOK' /\ ~Circle /\ run.pc # "check"
<1>1. TypesInv
  BY DEF BuildInv
<1>2. CASE NotCompiledAgain
  BY <1>1, <1>2, NotCompiledAgainSets, SamePast
<1>3. CASE CompileDepsNode
  BY <1>1, <1>3, CompileDepsNodeSets, SamePast
<1>4. CASE StartCompile
  BY <1>1, <1>4, StartCompileSets, SamePast
<1>5. CASE OpenInput
  BY <1>1, <1>5, OpenInputSets, SamePast
<1>6. CASE CannotRead
  <2>1. run.pc = "work" /\ Ends("input")
    BY <1>6 DEF CannotRead
  <2> QED
    BY <2>1, EndsPast DEF Circle
<1>7. CASE DepsFileAnalysed
  BY <1>1, <1>7, DepsFileAnalysedSets, SamePast
<1>8. CASE ListedButGone
  <2>1. run.pc = "work" /\ Ends("input")
    BY <1>8 DEF ListedButGone, AllRead
  <2> QED
    BY <2>1, EndsPast DEF Circle
<1>9. CASE CreateOutput
  BY <1>1, <1>9, CreateOutputSets, SamePast
<1>10. CASE CloseOutput
  BY <1>1, <1>10, CloseOutputSets, SamePast
<1>11. ASSUME NEW n \in DepsNodes, ReadDepsFile(n)
       PROVE  past' = past /\ run.pc = "work"
  BY <1>1, <1>11, ReadDepsFileSets
<1>12. ASSUME NEW n \in Assets, ReadAssetSource(n)
       PROVE  past' = past /\ run.pc = "work"
  BY <1>1, <1>12, ReadAssetSourceSets
<1>13. ASSUME NEW n \in Assets, TryOptional(n)
       PROVE  past' = past /\ run.pc = "work"
  BY <1>13 DEF TryOptional
<1>14. ASSUME NEW n \in Assets, ReadAnalysis(n)
       PROVE  past' = past /\ run.pc = "work"
  BY <1>14 DEF ReadAnalysis, Reads
<1>15. ASSUME NEW n \in Assets, IndexCAS(n)
       PROVE  past' = past /\ run.pc = "work"
  BY <1>15 DEF IndexCAS, Reads
<1>16. ASSUME NEW n \in Leaves, ReadLeaf(n)
       PROVE  past' = past /\ run.pc = "work"
  BY <1>16 DEF ReadLeaf, Reads
<1> QED
  BY <1>2, <1>3, <1>4, <1>5, <1>6, <1>7, <1>8, <1>9, <1>10, <1>11, <1>12, <1>13, <1>14, <1>15,
     <1>16, SamePast DEF Works

LEMMA FinishesPast ==
  ASSUME BuildInv, PastOK, Finishes
  PROVE  PastOK' /\ ~Circle /\ run.pc # "check"
<1>1. TypesInv /\ CacheInv
  BY DEF BuildInv
<1>2. CASE NothingToExport
  BY <1>1, <1>2, NothingToExportSets, SamePast
<1>3. CASE CreateCatalog
  <2>1. past' = [past EXCEPT !.torn = TRUE] /\ run.pc = "compile"
    BY <1>1, <1>3, CreateCatalogSets
  <2> QED
    BY <2>1 DEF PastOK, HasPast, Circle
<1>4. CASE WriteCatalog
  BY <1>1, <1>4, WriteCatalogSets, SamePast
<1>5. ASSUME NEW id, CopyContent(id)
      PROVE  past' = past /\ run.pc = "content"
  BY <1>1, <1>5, CopyContentSets
<1>6. ASSUME NEW id, NoContentSource(id)
      PROVE  PastOK' /\ ~Circle /\ run.pc = "content"
  BY <1>6, EndsPast DEF NoContentSource, Circle
<1>7. CASE MoveContent
  BY <1>1, <1>7, MoveContentSets, SamePast
<1>8. CASE WriteInstance
  <2>1. past' = past /\ run.pc = "content"
    BY <1>8 DEF WriteInstance, ReadyToSave
  <2> QED
    BY <2>1, SamePast
<1>9. CASE WriteHeader
  <2> DEFINE touched == IF past.touched = "during" THEN past.touched ELSE "no"
             torn == past.torn /\ ~ExportNeeded
  <2>1. run.pc = "save" /\ past' = [past EXCEPT !.result = "ok", !.touched = touched, !.torn = torn]
    BY <1>1, <1>9, WriteHeaderSets
  <2> HIDE DEF touched, torn
  <2> QED
    BY <2>1 DEF PastOK, HasPast, Circle
<1> QED
  BY <1>2, <1>3, <1>4, <1>5, <1>6, <1>7, <1>8, <1>9, SamePast DEF Finishes

LEMMA BeginPast ==
  ASSUME PastOK, Begin
  PROVE  PastOK' /\ ~Circle /\ run.pc # "check"
<1> DEFINE touched == IF past.touched = "during" THEN "before" ELSE past.touched
           builds == past.builds + 1
<1>1. /\ run.pc = "idle"
      /\ past' = [past EXCEPT !.builds = builds, !.result = "none", !.touched = touched]
  BY DEF Begin
<1> HIDE DEF touched, builds
<1> QED
  BY <1>1 DEF PastOK, HasPast, Circle

LEMMA DisturbsPast ==
  ASSUME PastOK, Disturbs
  PROVE  PastOK' /\ ~Circle /\ run' = run
<1> DEFINE disturbances == past.disturbances + 1
           touched == IF run.pc = "idle" THEN "before" ELSE "during"
           raced == past.raced \/ run.pc # "idle"
           removed == past.removed \/ content' # content
<1>1. /\ run' = run
      /\ past' = [past EXCEPT !.disturbances = disturbances, !.touched = touched,
                              !.raced = raced, !.removed = removed]
  BY DEF Disturbs
<1> HIDE DEF disturbances, touched, raced, removed
<1> QED
  BY <1>1 DEF PastOK, HasPast, Circle

LEMMA CircularStep ==
  ASSUME BuildInv, PastOK, [Next]_bsVars
  PROVE  /\ PastOK'
         /\ Circle => HasCircle
         /\ run.pc = "check" /\ run'.pc = "compile" => ~HasCircle
<1>1. CASE Begin
  BY <1>1, BeginPast
<1>2. CASE Killed
  <2>1. Ends("killed")
    BY <1>2 DEF Killed
  <2>2. run'.pc = "idle"
    BY <2>1, EndsPast, NoRunFields
  <2> QED
    BY <2>1, <2>2, EndsPast DEF Circle
<1>3. CASE Environment
  <2>1. Disturbs
    BY <1>3 DEF Environment, Edit, RemoveFile, RemoveContent, Upgrade
  <2> QED
    BY <2>1, DisturbsPast
<1>4. CASE UNCHANGED bsVars
  <2>1. past' = past /\ run' = run
    BY <1>4 DEF bsVars
  <2> QED
    BY <2>1, SamePast
<1> QED
  BY <1>1, <1>2, <1>3, <1>4, ChecksPast, WorksPast, FinishesPast DEF Next

(* A build gives up on a circular dependency only if a node that it found  *)
(* leads to itself, and goes on to compile only if none does               *)
(* (CheckNodeNodeDependencies).                                            *)
THEOREM BuildSystemCircularMeansCircle == Spec => CircularMeansCircle
<1>1. Init => BuildInv /\ PastOK
  <2>1. Init => PastOK
    BY DEF Init, PastOK, HasPast
  <2> QED
    BY <2>1, InitBuild
<1>2. BuildInv /\ PastOK /\ [Next]_bsVars => BuildInv' /\ PastOK'
  BY NextBuild, CircularStep
<1>3. BuildInv /\ PastOK /\ [Next]_bsVars =>
        [/\ past'.result = "circular" /\ past.result # "circular" => HasCircle
         /\ run.pc = "check" /\ run'.pc = "compile" => ~HasCircle]_bsVars
  BY CircularStep DEF Circle
<1> QED
  BY <1>1, <1>2, <1>3, PTL DEF Spec, CircularMeansCircle

-----------------------------------------------------------------------------
(* What the nodes record of files, and what the process knows of them.     *)
(* The files that a node's analysis and compilation record.                *)
Sources == {Source(m) : m \in Nodes}
OptionalOf(n) == {Optional(m) : m \in {n} \cap Assets}
AnalysisOf(n) == {Analysis(m) : m \in {n} \cap Assets}
ProductOf(n) == {Product(m) : m \in {n} \cap (Assets \cup Leaves)}
LeafProducts(deps) == {Product(m) : m \in Leaves \cap ToSet(deps)}
AnalysisReads(n) == Sources \cup OptionalOf(n) \cup {NoFile}
CompileReads(n, deps) == AnalysisReads(n) \cup AnalysisOf(n) \cup LeafProducts(deps)

Entries(F) == [file : F, status : Nat]
HasEntries(n, x) ==
  /\ x.analysis.inputs \in Seq(Entries(AnalysisReads(n)))
  /\ x.analysis.products \in Seq(Entries(AnalysisOf(n)))
  /\ x.compile.inputs \in Seq(Entries(CompileReads(n, x.deps)))
  /\ x.compile.products \in Seq(Entries(ProductOf(n)))
  /\ n \in Leaves => x.deps = <<>> /\ x.analysis = NoFiles

Compiling == run.pc = "work" /\ Work.stage = "compile"
Blank(n) ==
  /\ node[n].state = "unanalyzed" /\ ~(Analysing /\ n = Work.node) => node[n].analysis = NoFiles
  /\ node[n].state # "current" /\ ~(Compiling /\ n = Work.node) => node[n].compile = NoFiles

(* A file's status is 0 if there is no such file.                          *)
FilesOK ==
  /\ \A f \in Files : /\ file[f] = [status |-> file[f].status, data |-> file[f].data]
                      /\ file[f].status \in Nat
  /\ file[NoFile] = Missing
  /\ \A f \in Edited : /\ Status(f) = 0 <=> file[f].data = Absent
                       /\ file[f].data \in MayHold(f) \cup {Absent}

(* What the process knows of the files that the build makes is true.       *)
LookedUpOK ==
  /\ DOMAIN run.cached \subseteq Files /\ \A f \in DOMAIN run.cached : run.cached[f] \in Nat
  /\ \A f \in DOMAIN run.cached \cap Made :
       run.cached[f] = Status(f) \/ (run.pc = "work" /\ Work.created /\ f = Output)

(* A list of items whose leaves are among a node's dependencies.           *)
Named(n, items, deps) ==
  /\ items \in Seq(Items(n))
  /\ \A m \in Leaves : Product(m) \in ToSet(items) => m \in ToSet(deps)
KnownIfSame(n, x) ==
  \E e \in ToSet(x.analysis.products) :
    /\ e.file = Analysis(n) /\ e.status # 0
    /\ e.status = Status(Analysis(n)) => Named(n, NamedIn(n), x.deps)

NodeOK(n) ==
  /\ HasEntries(n, node[n]) /\ Blank(n)
  /\ n \in Assets /\ node[n].state # "unanalyzed" => KnownIfSame(n, node[n])
  /\ n \in Assets \cap Checked => Named(n, NamedIn(n), node[n].deps)
NodeRecordsOK == \A n \in Nodes : NodeOK(n)
SavedRecordsOK ==
  \A n \in DOMAIN cache.nodes : /\ HasEntries(n, cache.nodes[n])
                                /\ cache.nodes[n].state = "current"
                                /\ n \in Assets => KnownIfSame(n, cache.nodes[n])

(* What is left of a compiler's work.                                      *)
Usable(n) == Sources \cup OptionalOf(n) \cup LeafProducts(node[n].deps)
ToDoOK ==
  LET n == Work.node
  IN  /\ Analysing =>
           /\ n \notin Leaves /\ node[n].state = "unanalyzed"
           /\ \/ Work.todo = <<Source(n)>>
              \/ n \in DepsNodes /\ Work.todo = <<>>
              \/ n \in Assets /\ Named(n, Work.items, node[n].deps) /\ Work.todo \in Seq({Optional(n)})
      /\ Compiling =>
           \/ n \in Leaves /\ Work.todo \in {<<Source(n)>>, <<>>}
           \/ n \in Assets /\ (Work.todo = <<Analysis(n)>> \/ Work.todo \in Seq(Usable(n)))

RecordInv ==
  /\ FilesOK /\ LookedUpOK /\ NodeRecordsOK /\ SavedRecordsOK /\ ToDoOK
  /\ run.pc = "save" => run.pending.nodes = ToSave

(* Files are told apart by their kind and their node.                      *)
LEMMA FileKinds ==
  ASSUME NEW n, NEW m
  PROVE  /\ Source(n) # Optional(m) /\ Source(n) # Analysis(m) /\ Source(n) # Product(m)
         /\ Optional(n) # Analysis(m) /\ Optional(n) # Product(m) /\ Analysis(n) # Product(m)
         /\ Source(n) # NoFile /\ Optional(n) # NoFile /\ Analysis(n) # NoFile /\ Product(n) # NoFile
         /\ Source(n) = Source(m) => n = m
         /\ Optional(n) = Optional(m) => n = m
         /\ Analysis(n) = Analysis(m) => n = m
         /\ Product(n) = Product(m) => n = m
BY DEF Source, Optional, Analysis, Product, NoFile

LEMMA KindsOfFiles ==
  /\ Edited \cap Made = {} /\ NoFile \notin Edited /\ NoFile \notin Made
  /\ Edited \subseteq Files /\ Made \subseteq Files /\ NoFile \in Files
  /\ \A n \in Nodes : Source(n) \in Edited
  /\ \A n \in Assets : Optional(n) \in Edited /\ Analysis(n) \in Made /\ Product(n) \in Made
  /\ \A n \in Leaves : Product(n) \in Made
BY FileKinds DEF Edited, Made, Files

LEMMA ReadFiles ==
  ASSUME NEW n, NEW deps
  PROVE  /\ AnalysisReads(n) \subseteq CompileReads(n, deps)
         /\ CompileReads(n, deps) \subseteq Files /\ AnalysisOf(n) \subseteq Files /\ ProductOf(n) \subseteq Files
BY KindsOfFiles DEF AnalysisReads, CompileReads, Sources, OptionalOf, AnalysisOf, ProductOf, LeafProducts

(* Recorded puts a file into a list, once.                                 *)
LEMMA RecordedIs ==
  ASSUME NEW F, NEW list \in Seq(Entries(F)), NEW f \in F, NEW s \in Nat
  PROVE  LET new == [file |-> f, status |-> s]
             r == Recorded(list, f, s)
         IN  /\ r \in Seq(Entries(F)) /\ new \in ToSet(r)
             /\ ToSet(r) \subseteq ToSet(list) \cup {new}
             /\ \A e \in ToSet(r) : e.file = f => e = new
             /\ \A e \in ToSet(list) : e.file # f => e \in ToSet(r)
<1> DEFINE new == [file |-> f, status |-> s]
           r == Recorded(list, f, s)
           has == \E i \in DOMAIN list : list[i].file = f
<1>1. new \in Entries(F) /\ new.file = f
  BY DEF Entries
<1>2. Len(list) \in Nat /\ DOMAIN list = 1..Len(list) /\ \A i \in DOMAIN list : list[i] \in Entries(F)
  OBVIOUS
<1>3. CASE has
  <2>1. r = [i \in DOMAIN list |-> IF list[i].file = f THEN new ELSE list[i]]
    BY <1>3 DEF Recorded
  <2> HIDE DEF r, new
  <2>2. r \in [1..Len(list) -> Entries(F)]
    BY <2>1, <1>1, <1>2
  <2>3. r \in Seq(Entries(F)) /\ DOMAIN r = 1..Len(list)
    BY <1>2, <2>2
  <2>4. PICK k \in DOMAIN list : list[k].file = f
    BY <1>3
  <2>5. new \in ToSet(r)
    BY <2>1, <2>3, <2>4, <1>2 DEF ToSet
  <2>6. \A i \in DOMAIN r : r[i] = IF list[i].file = f THEN new ELSE list[i]
    BY <2>1
  <2>7. ToSet(r) \subseteq ToSet(list) \cup {new}
    BY <2>3, <2>6, <1>2 DEF ToSet
  <2>8. \A e \in ToSet(r) : e.file = f => e = new
    BY <2>3, <2>6, <1>2 DEF ToSet
  <2>9. \A e \in ToSet(list) : e.file # f => e \in ToSet(r)
    <3> SUFFICES ASSUME NEW i \in DOMAIN list, list[i].file # f
                 PROVE  list[i] \in ToSet(r)
      BY DEF ToSet
    <3>1. i \in DOMAIN r /\ r[i] = list[i]
      BY <1>2, <2>3, <2>6
    <3> QED BY <3>1 DEF ToSet
  <2> QED BY <2>3, <2>5, <2>7, <2>8, <2>9 DEF r, new
<1>4. CASE ~has
  <2>1. r = Append(list, new)
    BY <1>4 DEF Recorded
  <2>2. ToSet(r) = ToSet(list) \cup {new}
    BY <1>1, <2>1, AppendElements
  <2>3. r \in Seq(Entries(F))
    BY <1>1, <2>1
  <2>4. \A e \in ToSet(list) : e.file # f
    BY <1>4 DEF ToSet
  <2> HIDE DEF r, new, has
  <2>5. \A e \in ToSet(r) : e.file = f => e = new
    BY <2>2, <2>4
  <2> QED BY <2>2, <2>3, <2>5 DEF r, new
<1> QED BY <1>3, <1>4

LEMMA RecordedStays ==
  ASSUME NEW F, NEW list \in Seq(Entries(F)), NEW f \in F, NEW s \in Nat
  PROVE  Recorded(list, f, s) \in Seq(Entries(F))
BY RecordedIs

(* The statuses that are recorded somewhere are finitely many, so that     *)
(* there is a number that is none of them.                                 *)
LEMMA ImageIsFinite ==
  ASSUME NEW S, IsFiniteSet(S), NEW g, DOMAIN g = S
  PROVE  IsFiniteSet({g[x] : x \in S})
<1> DEFINE T == {g[x] : x \in S}
           h == [x \in S |-> g[x]]
<1>1. h \in Surjection(S, T)
  BY DEF Surjection
<1> HIDE DEF T, h
<1>2. IsFiniteSet(T)
  BY <1>1, FS_Surjection
<1> QED BY <1>2 DEF T

LEMMA ListIsFinite ==
  ASSUME NEW A, NEW s \in Seq(A)
  PROVE  IsFiniteSet(ToSet(s))
<1>1. Len(s) \in Nat /\ DOMAIN s = 1..Len(s) /\ ToSet(s) = {s[i] : i \in 1..Len(s)}
  BY DEF ToSet
<1> DEFINE n == Len(s)
<1>2. 1 \in Int /\ n \in Int
  BY <1>1
<1> HIDE DEF n
<1>3. IsFiniteSet(1..n)
  BY <1>2, FS_Interval
<1>4. DOMAIN s = 1..n
  BY <1>1 DEF n
<1>5. IsFiniteSet({s[i] : i \in 1..n})
  BY <1>3, <1>4, ImageIsFinite
<1> QED BY <1>1, <1>5 DEF n

LEMMA ConcatElements ==
  ASSUME NEW A, NEW s \in Seq(A), NEW t \in Seq(A)
  PROVE  s \o t \in Seq(A) /\ ToSet(s \o t) = ToSet(s) \cup ToSet(t)
<1> DEFINE u == s \o t
<1>1. /\ u \in Seq(A) /\ Len(u) = Len(s) + Len(t) /\ Len(s) \in Nat /\ Len(t) \in Nat
      /\ \A i \in 1..Len(s) : u[i] = s[i]
      /\ \A i \in 1..Len(u) : i > Len(s) => u[i] = t[i - Len(s)]
  OBVIOUS
<1>2. DOMAIN u = 1..Len(u) /\ DOMAIN s = 1..Len(s) /\ DOMAIN t = 1..Len(t)
  BY <1>1
<1> HIDE DEF u
<1>3. ToSet(u) \subseteq ToSet(s) \cup ToSet(t)
  <2> SUFFICES ASSUME NEW i \in 1..Len(u)
               PROVE  u[i] \in ToSet(s) \cup ToSet(t)
    BY <1>2 DEF ToSet
  <2>1. CASE i \in 1..Len(s)
    BY <1>1, <1>2, <2>1 DEF ToSet
  <2>2. CASE i \notin 1..Len(s)
    <3>1. i - Len(s) \in 1..Len(t) /\ i > Len(s)
      BY <1>1, <2>2
    <3> QED BY <1>1, <1>2, <3>1 DEF ToSet
  <2> QED BY <2>1, <2>2
<1>4. ToSet(s) \subseteq ToSet(u)
  <2> SUFFICES ASSUME NEW i \in 1..Len(s)
               PROVE  s[i] \in ToSet(u)
    BY <1>2 DEF ToSet
  <2>1. i \in 1..Len(u) /\ u[i] = s[i]
    BY <1>1
  <2> QED BY <1>2, <2>1 DEF ToSet
<1>5. ToSet(t) \subseteq ToSet(u)
  <2> SUFFICES ASSUME NEW i \in 1..Len(t)
               PROVE  t[i] \in ToSet(u)
    BY <1>2 DEF ToSet
  <2>1. i + Len(s) \in 1..Len(u) /\ i + Len(s) > Len(s) /\ (i + Len(s)) - Len(s) = i
    BY <1>1
  <2>2. u[i + Len(s)] = t[i]
    BY <1>1, <2>1
  <2> QED BY <1>2, <2>1, <2>2 DEF ToSet
<1> QED BY <1>1, <1>3, <1>4, <1>5 DEF u

(* All that a node records.                                                *)
Recordings(x) == ToSet(x.analysis.inputs) \cup ToSet(x.analysis.products)
                 \cup ToSet(x.compile.inputs) \cup ToSet(x.compile.products)

LEMMA EntriesGrow ==
  ASSUME NEW F, NEW G, F \subseteq G
  PROVE  Seq(Entries(F)) \subseteq Seq(Entries(G))
<1>1. Entries(F) \subseteq Entries(G)
  BY DEF Entries
<1> QED BY <1>1

LEMMA EntriesAreOfFiles ==
  ASSUME NEW n, NEW x, HasEntries(n, x)
  PROVE  /\ x.analysis.inputs \in Seq(Entries(Files)) /\ x.analysis.products \in Seq(Entries(Files))
         /\ x.compile.inputs \in Seq(Entries(Files)) /\ x.compile.products \in Seq(Entries(Files))
         /\ Recordings(x) \subseteq Entries(Files)
<1>1. /\ AnalysisReads(n) \subseteq Files /\ CompileReads(n, x.deps) \subseteq Files
      /\ AnalysisOf(n) \subseteq Files /\ ProductOf(n) \subseteq Files
  BY ReadFiles
<1>2. /\ Seq(Entries(AnalysisReads(n))) \subseteq Seq(Entries(Files))
      /\ Seq(Entries(CompileReads(n, x.deps))) \subseteq Seq(Entries(Files))
      /\ Seq(Entries(AnalysisOf(n))) \subseteq Seq(Entries(Files))
      /\ Seq(Entries(ProductOf(n))) \subseteq Seq(Entries(Files))
  BY <1>1, EntriesGrow
<1>3. /\ x.analysis.inputs \in Seq(Entries(Files)) /\ x.analysis.products \in Seq(Entries(Files))
      /\ x.compile.inputs \in Seq(Entries(Files)) /\ x.compile.products \in Seq(Entries(Files))
  BY <1>2 DEF HasEntries
<1> DEFINE E == Entries(Files)
<1> HIDE DEF E
<1>4. Recordings(x) \subseteq E
  BY <1>3, SeqElements DEF E, Recordings
<1> QED BY <1>3, <1>4 DEF E

LEMMA RecordingsAre ==
  ASSUME NEW n, NEW x, HasEntries(n, x)
  PROVE  /\ ToSet(x.analysis.inputs \o x.analysis.products \o x.compile.inputs \o x.compile.products)
              = Recordings(x)
         /\ IsFiniteSet(Recordings(x))
<1> DEFINE a == x.analysis.inputs
           b == x.analysis.products
           c == x.compile.inputs
           d == x.compile.products
           E == Entries(Files)
<1>1. a \in Seq(E) /\ b \in Seq(E) /\ c \in Seq(E) /\ d \in Seq(E)
  BY EntriesAreOfFiles
<1> HIDE DEF E, a, b, c, d
<1>2. a \o b \in Seq(E) /\ ToSet(a \o b) = ToSet(a) \cup ToSet(b)
  BY <1>1, ConcatElements
<1> DEFINE p == a \o b
<1>9. p \in Seq(E)
  BY <1>2
<1> HIDE DEF p
<1>3. p \o c \in Seq(E) /\ ToSet(p \o c) = ToSet(p) \cup ToSet(c)
  BY <1>1, <1>9, ConcatElements
<1> DEFINE q == p \o c
<1> HIDE DEF q
<1>4. ToSet(q \o d) = ToSet(q) \cup ToSet(d)
  <2>1. q \in Seq(E) /\ d \in Seq(E)
    BY <1>1, <1>3 DEF q
  <2> QED BY <2>1, ConcatElements
<1>5. Recordings(x) = ToSet(a) \cup ToSet(b) \cup ToSet(c) \cup ToSet(d)
  BY DEF Recordings, a, b, c, d
<1>6. IsFiniteSet(ToSet(a)) /\ IsFiniteSet(ToSet(b)) /\ IsFiniteSet(ToSet(c)) /\ IsFiniteSet(ToSet(d))
  BY <1>1, ListIsFinite
<1>7. IsFiniteSet(ToSet(a) \cup ToSet(b) \cup ToSet(c) \cup ToSet(d))
  BY <1>6, FS_Union
<1>8. ToSet(((a \o b) \o c) \o d) = Recordings(x)
  BY <1>2, <1>3, <1>4, <1>5 DEF p, q
<1> QED BY <1>5, <1>7, <1>8 DEF a, b, c, d

RecordsTyped ==
  /\ \A n \in Nodes : HasEntries(n, node[n])
  /\ DOMAIN cache.nodes \subseteq Nodes /\ \A n \in DOMAIN cache.nodes : HasEntries(n, cache.nodes[n])

LEMMA NumberLeft ==
  ASSUME NEW R, IsFiniteSet(R)
  PROVE  LET S == 0..Cardinality(R) \ R
         IN  Min(S) \in Nat /\ Min(S) \notin R
<1> DEFINE k == Cardinality(R)
           S == 0..k \ R
<1>1. k \in Nat
  BY FS_CardinalityType
<1> HIDE DEF k
<1>2. 0 \in Int /\ k \in Int
  BY <1>1
<1>3. IsFiniteSet(0..k) /\ Cardinality(0..k) = IF 0 > k THEN 0 ELSE k - 0 + 1
  BY <1>2, FS_Interval
<1>4. Cardinality(0..k) > k
  BY <1>1, <1>3
<1>5. S # {}
  <2> SUFFICES ASSUME 0..k \subseteq R PROVE FALSE
    BY DEF S
  <2> DEFINE I == 0..k
  <2>1. I \in SUBSET R
    OBVIOUS
  <2> HIDE DEF I
  <2>2. Cardinality(I) <= Cardinality(R)
    BY <2>1, FS_Subset
  <2>3. Cardinality(I) <= k
    BY <2>2 DEF k
  <2> QED BY <1>1, <1>3, <1>4, <2>3 DEF I
<1>6. S \in SUBSET Nat
  BY <1>1
<1> HIDE DEF S
<1>7. Min(S) \in S
  BY <1>5, <1>6, LeastNumber
<1>8. Min(S) \in Nat /\ Min(S) \notin R
  BY <1>6, <1>7 DEF S
<1> QED BY <1>8 DEF S, k

(* A new status differs from all that is recorded of the file anywhere.    *)
LEMMA NewStatusIsNew ==
  ASSUME RecordsTyped, NEW f
  PROVE  /\ NewStatus(f) \in Nat /\ NewStatus(f) # 0 /\ NewStatus(f) # Status(f)
         /\ \A n \in Nodes : \A e \in Recordings(node[n]) : e.file = f => e.status # NewStatus(f)
         /\ \A n \in DOMAIN cache.nodes : \A e \in Recordings(cache.nodes[n]) :
              e.file = f => e.status # NewStatus(f)
         /\ f \in DOMAIN run.cached => run.cached[f] # NewStatus(f)
<1> DEFINE of(x) == {e.status : e \in {e \in ToSet(x.analysis.inputs \o x.analysis.products \o
                                            x.compile.inputs \o x.compile.products) : e.file = f}}
           A == {of(node[n]) : n \in Nodes}
           B == {of(cache.nodes[n]) : n \in DOMAIN cache.nodes}
           C == {run.cached[g] : g \in {f} \cap DOMAIN run.cached}
           R == RecordedFor(f)
<1>1. R = (UNION (A \cup B)) \cup C \cup {0, Status(f)}
  BY DEF RecordedFor, Status
<1>2. IsFiniteSet(Nodes)
  BY BuildSystemAssumption
<1>3. IsFiniteSet(DOMAIN cache.nodes)
  BY <1>2, FS_Subset DEF RecordsTyped
<1>4. ASSUME NEW n, NEW x, HasEntries(n, x)
      PROVE  of(x) = {e.status : e \in {e \in Recordings(x) : e.file = f}} /\ IsFiniteSet(of(x))
  <2> DEFINE E == {e \in Recordings(x) : e.file = f}
             g == [e \in E |-> e.status]
  <2>1. of(x) = {e.status : e \in E}
    BY <1>4, RecordingsAre
  <2>2. IsFiniteSet(E)
    BY <1>4, RecordingsAre, FS_Subset
  <2> HIDE DEF E
  <2>3. {e.status : e \in E} = {g[e] : e \in E} /\ DOMAIN g = E
    OBVIOUS
  <2> HIDE DEF g
  <2>4. IsFiniteSet({g[e] : e \in E})
    BY <2>2, <2>3, ImageIsFinite
  <2> QED BY <2>1, <2>3, <2>4 DEF E
<1> HIDE DEF of
<1>5. IsFiniteSet(A) /\ IsFiniteSet(B)
  <2> DEFINE g == [n \in Nodes |-> of(node[n])]
             h == [n \in DOMAIN cache.nodes |-> of(cache.nodes[n])]
  <2>1. A = {g[n] : n \in Nodes} /\ DOMAIN g = Nodes
    OBVIOUS
  <2>2. B = {h[n] : n \in DOMAIN cache.nodes} /\ DOMAIN h = DOMAIN cache.nodes
    OBVIOUS
  <2> HIDE DEF g, h, A, B
  <2> QED BY <2>1, <2>2, <1>2, <1>3, ImageIsFinite
<1>6. IsFiniteSet(C)
  <2>1. C \subseteq {run.cached[f]}
    OBVIOUS
  <2>2. IsFiniteSet({run.cached[f]})
    BY FS_Singleton
  <2> QED BY <2>1, <2>2, FS_Subset
<1>7. \A T \in A \cup B : IsFiniteSet(T)
  BY <1>4 DEF RecordsTyped
<1>8. IsFiniteSet({0, Status(f)})
  <2>1. {0, Status(f)} = {0} \cup {Status(f)} /\ IsFiniteSet({0}) /\ IsFiniteSet({Status(f)})
    BY FS_Singleton
  <2> QED BY <2>1, FS_Union
<1>9. /\ \A n \in Nodes : of(node[n]) \subseteq R
      /\ \A n \in DOMAIN cache.nodes : of(cache.nodes[n]) \subseteq R
      /\ C \subseteq R /\ 0 \in R /\ Status(f) \in R
  <2>1. \A T \in A \cup B : T \subseteq R
    BY <1>1
  <2>2. (\A n \in Nodes : of(node[n]) \in A) /\ \A n \in DOMAIN cache.nodes : of(cache.nodes[n]) \in B
    OBVIOUS
  <2>3. C \subseteq R /\ 0 \in R /\ Status(f) \in R
    BY <1>1
  <2> QED BY <2>1, <2>2, <2>3
<1>10. f \in DOMAIN run.cached => run.cached[f] \in R
  BY <1>9
<1> HIDE DEF A, B, C
<1>11. IsFiniteSet(UNION (A \cup B))
  <2>1. IsFiniteSet(A \cup B)
    BY <1>5, FS_Union
  <2> QED BY <2>1, <1>7, FS_UNION
<1>12. IsFiniteSet(R)
  <2>1. IsFiniteSet((UNION (A \cup B)) \cup C)
    BY <1>6, <1>11, FS_Union
  <2>2. IsFiniteSet(((UNION (A \cup B)) \cup C) \cup {0, Status(f)})
    BY <1>8, <2>1, FS_Union
  <2> QED BY <1>1, <2>2
<1>13. NewStatus(f) \in Nat /\ NewStatus(f) \notin R
  <2>1. NewStatus(f) = Min(0..Cardinality(R) \ R)
    BY DEF NewStatus
  <2> HIDE DEF R
  <2> QED BY <1>12, <2>1, NumberLeft
<1>14. \A n \in Nodes : \A e \in Recordings(node[n]) : e.file = f => e.status \in R
  <2> SUFFICES ASSUME NEW n \in Nodes, NEW e \in Recordings(node[n]), e.file = f
               PROVE  e.status \in R
    OBVIOUS
  <2>1. of(node[n]) = {i.status : i \in {i \in Recordings(node[n]) : i.file = f}}
    BY <1>4 DEF RecordsTyped
  <2>2. e.status \in of(node[n])
    BY <2>1
  <2> QED BY <1>9, <2>2
<1>15. \A n \in DOMAIN cache.nodes : \A e \in Recordings(cache.nodes[n]) : e.file = f => e.status \in R
  <2> SUFFICES ASSUME NEW n \in DOMAIN cache.nodes, NEW e \in Recordings(cache.nodes[n]), e.file = f
               PROVE  e.status \in R
    OBVIOUS
  <2>1. of(cache.nodes[n]) = {i.status : i \in {i \in Recordings(cache.nodes[n]) : i.file = f}}
    BY <1>4 DEF RecordsTyped
  <2>2. e.status \in of(cache.nodes[n])
    BY <2>1
  <2> QED BY <1>9, <2>2
<1> HIDE DEF R
<1> QED BY <1>9, <1>10, <1>13, <1>14, <1>15

(* AllRecorded records one file after the other.                           *)
Records(f, files, i) == f[i] = Recorded(f[i - 1], files[i], Resolve(files[i]))

LEMMA AllRecordedSteps ==
  ASSUME NEW F, NEW list \in Seq(Entries(F)), NEW files \in Seq(F), \A f \in F : Resolve(f) \in Nat
  PROVE  \E f \in [0..Len(files) -> Seq(Entries(F))] :
           f[0] = list /\ (\A i \in 1..Len(files) : Records(f, files, i))
           /\ AllRecorded(list, files) = f[Len(files)]
<1> DEFINE N == Len(files)
           X == Seq(Entries(F))
           step == [p \in (1..N) \X X |-> Recorded(p[2], files[p[1]], Resolve(files[p[1]]))]
           Is(f) == f = [i \in 0..N |->
                           IF i = 0 THEN list
                           ELSE Recorded(f[i - 1], files[i], Resolve(files[i]))]
<1>1. /\ N \in Nat /\ list \in X /\ \A i \in 1..N : files[i] \in F
      /\ \A i \in 0..N : i # 0 => i \in 1..N
      /\ \A i \in 1..N : i - 1 \in 0..N /\ i \in 0..N
      /\ 0 \in 0..N /\ N \in 0..N /\ \A i \in 0..N : i \in Nat
  OBVIOUS
<1>2. step \in StepOf(N, X)
  <2> SUFFICES ASSUME NEW i \in 1..N, NEW l \in X
               PROVE  Recorded(l, files[i], Resolve(files[i])) \in X
    BY DEF StepOf
  <2> HIDE DEF N
  <2>1. files[i] \in F /\ Resolve(files[i]) \in Nat
    BY <1>1
  <2> QED BY <2>1, RecordedIs
<1>3. PICK g \in [0..N -> X] : Repeats(g, N, list, step)
  <2> HIDE DEF step, N, X
  <2> QED BY <1>1, <1>2, Recursion
<1>4. ASSUME NEW i \in 1..N
      PROVE  Records(g, files, i)
  <2>1. g[i - 1] \in X /\ g[i] = step[<<i, g[i - 1]>>]
    BY <1>1, <1>3 DEF Repeats
  <2> HIDE DEF X
  <2> QED BY <2>1 DEF Records
<1>5. Is(g)
  <2> HIDE DEF N, X
  <2>1. g = [i \in 0..N |-> g[i]]
    BY <1>3
  <2>2. g[0] = list
    BY <1>3 DEF Repeats
  <2> QED BY <1>1, <1>4, <2>1, <2>2 DEF Records
<1> DEFINE f == CHOOSE h : Is(h)
<1>6. Is(f)
  BY <1>5
<1>7. AllRecorded(list, files) = f[N]
  BY DEF AllRecorded
<1> HIDE DEF f, step, X
<1>8. f[0] = list /\ \A i \in 1..N : Records(f, files, i)
  <2> HIDE DEF N
  <2>1. \A i \in 0..N : f[i] = IF i = 0 THEN list ELSE Recorded(f[i - 1], files[i], Resolve(files[i]))
    BY <1>6
  <2> QED BY <1>1, <2>1 DEF Records
<1> HIDE DEF N
<1> DEFINE T == {k \in Nat : k <= N => f[k] = g[k]}
<1>9. T = Nat
  <2>1. 0 \in T
    BY <1>3, <1>8 DEF Repeats
  <2>2. \A k \in T : k + 1 \in T
    <3> SUFFICES ASSUME NEW k \in T, k + 1 <= N
                 PROVE  f[k + 1] = g[k + 1]
      OBVIOUS
    <3>1. k + 1 \in 1..N /\ (k + 1) - 1 = k /\ f[k] = g[k]
      BY <1>1
    <3> HIDE DEF T
    <3>2. Records(f, files, k + 1) /\ Records(g, files, k + 1)
      BY <1>4, <1>8, <3>1
    <3> QED BY <3>1, <3>2 DEF Records
  <2> HIDE DEF T
  <2> QED BY <2>1, <2>2, SetInduction DEF T
<1>10. N \in T
  BY <1>1, <1>9
<1>11. AllRecorded(list, files) = g[N]
  BY <1>7, <1>10
<1>12. g[0] = list
  BY <1>3 DEF Repeats
<1> QED BY <1>3, <1>4, <1>11, <1>12 DEF N, X

(* What a list is about.                                                   *)
Mentions(list) == {e.file : e \in ToSet(list)}

LEMMA AllRecordedIs ==
  ASSUME NEW F, NEW list \in Seq(Entries(F)), NEW files \in Seq(F), \A f \in F : Resolve(f) \in Nat
  PROVE  /\ AllRecorded(list, files) \in Seq(Entries(F))
         /\ \A e \in ToSet(AllRecorded(list, files)) :
              e \in ToSet(list) \/ (e.file \in F /\ e.status = Resolve(e.file))
         /\ Mentions(list) \subseteq Mentions(AllRecorded(list, files))
<1> DEFINE N == Len(files)
           X == Seq(Entries(F))
           OK(l) == /\ \A e \in ToSet(l) : e \in ToSet(list) \/ (e.file \in F /\ e.status = Resolve(e.file))
                    /\ Mentions(list) \subseteq Mentions(l)
<1>1. PICK g \in [0..N -> X] :
           g[0] = list /\ (\A i \in 1..N : Records(g, files, i)) /\ AllRecorded(list, files) = g[N]
  BY AllRecordedSteps
<1>2. N \in Nat /\ \A i \in 1..N : files[i] \in F
  OBVIOUS
<1> HIDE DEF N, X
<1> DEFINE T == {k \in Nat : k <= N => OK(g[k])}
<1>3. 0 \in T
  <2>1. OK(g[0])
    BY <1>1
  <2> QED BY <2>1
<1>4. ASSUME NEW k \in T
      PROVE  k + 1 \in T
  <2> SUFFICES ASSUME k + 1 <= N
               PROVE  OK(g[k + 1])
    OBVIOUS
  <2>1. k \in Nat /\ k \in 0..N /\ k + 1 \in 1..N /\ (k + 1) - 1 = k /\ OK(g[k])
    <3>1. k \in Nat /\ k <= N
      BY <1>2
    <3>2. OK(g[k])
      BY <3>1
    <3> QED BY <1>2, <3>1, <3>2
  <2> DEFINE l == g[k]
             f == files[k + 1]
             s == Resolve(f)
             new == [file |-> f, status |-> s]
             r == Recorded(l, f, s)
  <2>2. l \in Seq(Entries(F)) /\ f \in F /\ s \in Nat
    BY <1>1, <1>2, <2>1 DEF X
  <2>3. g[k + 1] = r
    BY <1>1, <2>1 DEF Records
  <2>4. OK(l)
    BY <2>1
  <2> HIDE DEF T, l, f
  <2>5. /\ new \in ToSet(r) /\ ToSet(r) \subseteq ToSet(l) \cup {new}
        /\ \A e \in ToSet(l) : e.file # f => e \in ToSet(r)
    BY <2>2, RecordedIs
  <2> HIDE DEF r
  <2>6. \A e \in ToSet(r) : e \in ToSet(list) \/ (e.file \in F /\ e.status = Resolve(e.file))
    BY <2>2, <2>4, <2>5
  <2>7. Mentions(l) \subseteq Mentions(r)
    BY <2>5 DEF Mentions
  <2>8. Mentions(list) \subseteq Mentions(r)
    BY <2>4, <2>7
  <2> QED BY <2>3, <2>6, <2>8
<1>5. T = Nat
  <2> HIDE DEF T
  <2> QED BY <1>3, <1>4, SetInduction DEF T
<1>6. N \in T
  BY <1>2, <1>5
<1>7. OK(g[N])
  BY <1>2, <1>6
<1>8. g[N] \in X
  BY <1>1, <1>2
<1> HIDE DEF T
<1> QED BY <1>1, <1>7, <1>8 DEF X

(* What a write leaves.                                                    *)
LEMMA WrittenIs ==
  ASSUME DOMAIN file = Files, NEW f \in Files, NEW data, file' = Written(f, data)
  PROVE  /\ DOMAIN file' = Files /\ file'[f] = [status |-> NewStatus(f), data |-> data]
         /\ Status(f)' = NewStatus(f) /\ file'[f].data = data
         /\ \A g \in Files : g # f => file'[g] = file[g] /\ Status(g)' = Status(g)
BY DEF Written, Status

LEMMA ResolveIs ==
  ASSUME FilesOK, LookedUpOK, NEW f \in Files
  PROVE  Resolve(f) \in Nat
BY DEF Resolve, Status, FilesOK, LookedUpOK

(* Nothing that the build makes is looked up wrongly, except the file that *)
(* is being written.                                                       *)
LEMMA ResolveMade ==
  ASSUME LookedUpOK, NEW f \in Made, ~(run.pc = "work" /\ Work.created)
  PROVE  Resolve(f) = Status(f)
BY DEF Resolve, LookedUpOK

(* A node that stays what it is, with its analysis on the disk.            *)
SameAnalysis(n) == n \in Assets => file'[Analysis(n)] = file[Analysis(n)]
LEMMA NodeStays ==
  ASSUME NEW n \in Nodes, NodeOK(n), node'[n] = node[n], SameAnalysis(n),
         Analysing /\ n = Work.node => (Analysing /\ n = Work.node)',
         Compiling /\ n = Work.node => (Compiling /\ n = Work.node)',
         n \in Checked' => n \in Checked
  PROVE  NodeOK(n)'
<1>1. HasEntries(n, node[n])'
  BY DEF NodeOK, HasEntries
<1>2. Blank(n)'
  BY DEF NodeOK, Blank
<1>3. n \in Assets => NamedIn(n)' = NamedIn(n) /\ Status(Analysis(n))' = Status(Analysis(n))
  BY DEF SameAnalysis, NamedIn, Status
<1>4. n \in Assets => Named(n, NamedIn(n), node[n].deps)' = Named(n, NamedIn(n), node[n].deps)
  BY <1>3 DEF Named
<1>5. (n \in Assets /\ node[n].state # "unanalyzed" => KnownIfSame(n, node[n]))'
  <2> SUFFICES ASSUME n \in Assets, node[n].state # "unanalyzed"
               PROVE  KnownIfSame(n, node[n])'
    OBVIOUS
  <2>1. PICK e \in ToSet(node[n].analysis.products) :
             /\ e.file = Analysis(n) /\ e.status # 0
             /\ e.status = Status(Analysis(n)) => Named(n, NamedIn(n), node[n].deps)
    BY DEF NodeOK, KnownIfSame
  <2>2. /\ e \in ToSet(node'[n].analysis.products) /\ e.file = Analysis(n) /\ e.status # 0
        /\ e.status = Status(Analysis(n))' => Named(n, NamedIn(n), node[n].deps)'
    BY <1>3, <1>4, <2>1
  <2> QED BY <2>2 DEF KnownIfSame
<1>6. (n \in Assets \cap Checked => Named(n, NamedIn(n), node[n].deps))'
  BY <1>4 DEF NodeOK
<1> QED BY <1>1, <1>2, <1>5, <1>6 DEF NodeOK

LEMMA SavedStay ==
  ASSUME SavedRecordsOK, SavedOK(cache.nodes), cache'.nodes = cache.nodes,
         \A n \in DOMAIN cache.nodes : SameAnalysis(n)
  PROVE  SavedRecordsOK'
<1> SUFFICES ASSUME NEW n \in DOMAIN cache.nodes
             PROVE  /\ HasEntries(n, cache.nodes[n])' /\ cache'.nodes[n].state = "current"
                    /\ n \in Assets => KnownIfSame(n, cache.nodes[n])'
  BY DEF SavedRecordsOK
<1>1. HasEntries(n, cache.nodes[n])' /\ cache'.nodes[n].state = "current"
  BY DEF SavedRecordsOK, HasEntries
<1>2. ASSUME n \in Assets
      PROVE  KnownIfSame(n, cache.nodes[n])'
  <2>1. PICK e \in ToSet(cache.nodes[n].analysis.products) :
             /\ e.file = Analysis(n) /\ e.status # 0
             /\ e.status = Status(Analysis(n)) => Named(n, NamedIn(n), cache.nodes[n].deps)
    BY <1>2 DEF SavedRecordsOK, KnownIfSame
  <2>2. NamedIn(n)' = NamedIn(n) /\ Status(Analysis(n))' = Status(Analysis(n))
    BY <1>2 DEF SameAnalysis, NamedIn, Status
  <2>3. Named(n, NamedIn(n), cache.nodes[n].deps)' = Named(n, NamedIn(n), cache.nodes[n].deps)
    BY <2>2 DEF Named
  <2>4. /\ e \in ToSet(cache'.nodes[n].analysis.products) /\ e.file = Analysis(n) /\ e.status # 0
        /\ e.status = Status(Analysis(n))' => Named(n, NamedIn(n), cache.nodes[n].deps)'
    BY <2>1, <2>2, <2>3
  <2> QED BY <2>4 DEF KnownIfSame
<1> QED BY <1>1, <1>2

(* The steps that change no file, no node and no record of the process but *)
(* how far it is.                                                          *)
Plain ==
  /\ node' = node /\ file' = file /\ cache'.nodes = cache.nodes /\ version' = version
  /\ run'.cached = run.cached /\ run'.scan = run.scan /\ run'.source = run.source
  /\ run'.work = run.work /\ run'.compiled = run.compiled
  /\ run.pc \notin {"idle", "work"} /\ run'.pc \notin {"idle", "work"}
  /\ run'.pc = "check" => run.pc = "check"
  /\ Checked' = Checked /\ Found \subseteq Found'
  /\ run'.pc = "save" => run'.pending.nodes = ToSave /\ Found' = Found

PlainAction ==
  \/ \E n \in Nodes : CheckDependency(n)
  \/ Stratify \/ NotCompiledAgain \/ NothingToExport \/ CreateCatalog \/ WriteCatalog
  \/ \E id \in Wanted : CopyContent(id)
  \/ MoveContent \/ WriteInstance

LEMMA PlainActions ==
  ASSUME BuildInv, PlainAction
  PROVE  Plain
<1> USE DEF BuildInv
<1>1. ASSUME NEW n \in Nodes, CheckDependency(n) PROVE Plain
  <2>1. PICK d \in ToSet(node[n].deps) :
         /\ d \in Nodes /\ run.phase[d] = "none"
         /\ run.pc = "check" /\ disk' = disk /\ node' = node
         /\ run'.pc = "check" /\ run'.relevant = Append(run.relevant, d)
         /\ run'.phase = [run.phase EXCEPT ![d] = "files"]
         /\ run'.compiled = run.compiled /\ run'.cached = run.cached
         /\ run'.scan = run.scan /\ run'.source = run.source /\ run'.work = run.work
    BY <1>1, CheckDependencySets
  <2>2. Checked' = Checked
    BY <2>1 DEF Checked, TypesInv, ProcessOK
  <2>3. Found \subseteq Found'
    <3>1. Found' = Found \cup {d}
      BY <2>1, AppendElements DEF Found, TypesInv, ProcessOK
    <3> QED BY <3>1
  <2> QED BY <2>1, <2>2, <2>3 DEF Plain, disk
<1>2. ASSUME Stratify PROVE Plain
  <2>1. Found' = Found
    BY <1>2, StratifySets, StratifiedIs DEF Found
  <2>2. Checked' = Checked
    BY <1>2, StratifySets DEF Checked
  <2> QED BY <1>2, <2>1, <2>2, StratifySets DEF Plain, disk
<1>3. ASSUME NotCompiledAgain PROVE Plain
  BY <1>3, NotCompiledAgainSets DEF Plain, disk, Found, Checked
<1>4. ASSUME Kept, run.pc \notin {"idle", "work"}, run'.pc \in {"catalog", "content"}
      PROVE  Plain
  BY <1>4 DEF Kept, Plain, Found, Checked
<1>5. ASSUME NothingToExport PROVE Plain
  BY <1>4, <1>5, NothingToExportSets
<1>6. ASSUME CreateCatalog PROVE Plain
  BY <1>4, <1>6, CreateCatalogSets
<1>7. ASSUME WriteCatalog PROVE Plain
  BY <1>4, <1>7, WriteCatalogSets
<1>8. ASSUME NEW id \in Wanted, CopyContent(id) PROVE Plain
  BY <1>4, <1>8, CopyContentSets
<1>9. ASSUME MoveContent PROVE Plain
  BY <1>4, <1>9, MoveContentSets
<1>10. ASSUME WriteInstance PROVE Plain
  <2>1. cache'.nodes = cache.nodes
    <3> DEFINE nodes == [n \in Nodes \cap ToSet(run.relevant) |-> node[n]]
               size == SizeOf(nodes)
               pos == IF CanWriteBefore(size) THEN 1 ELSE cache.length
               overwrites == pos < cache.pos + SizeOf(cache.nodes) /\ cache.pos < pos + size
    <3>1. cache' = [cache EXCEPT !.nodes = IF overwrites THEN <<>> ELSE @,
                                !.whole = @ /\ ~overwrites,
                                !.length = Max({@, pos + size})]
      BY <1>10 DEF WriteInstance
    <3>2. cache'.whole = TRUE /\ cache.whole = TRUE
      BY <1>10, WriteInstanceKeeps DEF CacheInv
    <3> HIDE DEF overwrites, pos, size
    <3>3. cache'.whole = (cache.whole /\ ~overwrites)
      BY <3>1 DEF CacheInv, CacheOK
    <3>4. ~overwrites
      BY <3>2, <3>3
    <3>5. cache'.nodes = IF overwrites THEN <<>> ELSE cache.nodes
      BY <3>1 DEF CacheInv, CacheOK
    <3> QED BY <3>4, <3>5
  <2>2. run'.cached = run.cached /\ run'.source = run.source
    BY <1>10 DEF WriteInstance, CacheInv, RunOK, HasRun
  <2> QED BY <1>10, <2>1, <2>2, WriteInstanceSets DEF Plain, Found, Checked
<1> QED BY <1>1, <1>2, <1>3, <1>5, <1>6, <1>7, <1>8, <1>9, <1>10 DEF PlainAction

(* Nothing is being written in a plain step.                               *)
LEMMA PlainRecords ==
  ASSUME BuildInv, RecordInv, Plain
  PROVE  RecordInv'
<1>1. ~Analysing /\ ~Compiling /\ ~Analysing' /\ ~Compiling'
  BY DEF Plain, Analysing, Compiling
<1>2. FilesOK'
  BY DEF RecordInv, FilesOK, Plain, Status
<1>3. LookedUpOK'
  BY DEF RecordInv, LookedUpOK, Plain, Status
<1>4. NodeRecordsOK'
  BY <1>1, NodeStays DEF RecordInv, NodeRecordsOK, Plain, SameAnalysis
<1>5. SavedRecordsOK'
  BY SavedStay DEF RecordInv, Plain, SameAnalysis, BuildInv, TypesInv
<1>6. ToDoOK'
  BY <1>1 DEF ToDoOK
<1>7. (run.pc = "save" => run.pending.nodes = ToSave)'
  BY DEF Plain, ToSave, Found
<1> QED BY <1>2, <1>3, <1>4, <1>5, <1>6, <1>7 DEF RecordInv

LEMMA NewNodeFields ==
  /\ NewNode.state = "unanalyzed" /\ NewNode.analysis = NoFiles /\ NewNode.compile = NoFiles
  /\ NewNode.cas = {} /\ NewNode.scan = None /\ NewNode.deps = <<>>
BY DEF NewNode

LEMMA NewNodeIsOK ==
  ASSUME NEW n \in Nodes
  PROVE  HasEntries(n, NewNode)
<1>1. NoFiles.inputs = <<>> /\ NoFiles.products = <<>>
  BY DEF NoFiles
<1>2. \A F : <<>> \in Seq(Entries(F))
  OBVIOUS
<1> QED BY <1>1, <1>2, NewNodeFields DEF HasEntries

(* A node that a process has just loaded, or that no process has.          *)
LEMMA FreshNode ==
  ASSUME NEW n \in Nodes, node'[n] = NewNode, n \notin Checked'
  PROVE  NodeOK(n)'
<1>1. HasEntries(n, node[n])'
  BY NewNodeIsOK DEF HasEntries
<1>2. Blank(n)'
  BY NewNodeFields DEF Blank
<1> QED BY <1>1, <1>2, NewNodeFields DEF NodeOK

LEMMA NoProcess ==
  ASSUME FilesOK, run' = NoRun, node' = [n \in Nodes |-> NewNode], file' = file, SavedRecordsOK'
  PROVE  RecordInv'
<1>1. run'.pc = "idle" /\ run'.cached = <<>> /\ Checked' = {}
  BY NoRunFields DEF Checked
<1>2. FilesOK'
  BY DEF FilesOK, Status
<1>3. LookedUpOK'
  BY <1>1 DEF LookedUpOK
<1>4. NodeRecordsOK'
  BY <1>1, FreshNode DEF NodeRecordsOK
<1>5. ToDoOK'
  BY <1>1 DEF ToDoOK, Analysing, Compiling
<1> QED BY <1>1, <1>2, <1>3, <1>4, <1>5 DEF RecordInv

LEMMA EndsRecords ==
  ASSUME BuildInv, RecordInv, NEW how, Ends(how), disk' = disk
  PROVE  RecordInv'
<1>1. SavedRecordsOK'
  BY SavedStay DEF RecordInv, BuildInv, TypesInv, disk, SameAnalysis
<1> QED BY <1>1, NoProcess DEF Ends, RecordInv, disk

(* What is relevant at the end has been compiled.                          *)
LEMMA AllCurrent ==
  ASSUME BuildInv, run.pc \in {"catalog", "content", "save"} \/ AllCompiled, NEW n \in Found
  PROVE  n \in Nodes /\ node[n].state = "current" /\ Deps(n) \subseteq Found /\ Root \in Found
<1> USE DEF BuildInv
<1>1. run.pc # "idle" /\ ~Checking
  BY DEF Checking, Analysing, AllCompiled
<1>2. run.at = Len(run.relevant) /\ Len(run.relevant) \in Nat
  BY <1>1, RelevantIs DEF CompileInv, AllCompiled
<1>3. PICK k \in 1..Len(run.relevant) : run.relevant[k] = n
  BY RelevantIs DEF Found, ToSet
<1>4. k > Len(run.relevant) - run.at
  BY <1>2
<1>5. node[n].state = "current"
  BY <1>1, <1>3, <1>4 DEF CompileInv
<1>6. SearchOK /\ run.stack = <<>>
  BY <1>1 DEF GraphInv, ControlOK
<1>7. Found \subseteq Nodes /\ Deps(n) \subseteq Found
  BY <1>6, AllCompleted DEF Searched
<1> QED BY <1>5, <1>6, <1>7 DEF SearchOK, FoundOK

LEMMA WriteHeaderRecords ==
  ASSUME BuildInv, RecordInv, WriteHeader
  PROVE  RecordInv'
<1> USE DEF BuildInv
<1>1. /\ run.pc = "save" /\ cache'.nodes = ToSave
      /\ run' = NoRun /\ node' = [n \in Nodes |-> NewNode] /\ file' = file
  BY WriteHeaderSets DEF RecordInv
<1>2. SavedRecordsOK'
  <2> SUFFICES ASSUME NEW n \in DOMAIN cache'.nodes
               PROVE  /\ HasEntries(n, cache.nodes[n])' /\ cache'.nodes[n].state = "current"
                      /\ n \in Assets => (KnownIfSame(n, cache.nodes[n]))'
    BY DEF SavedRecordsOK
  <2>1. n \in Found /\ n \in Nodes /\ cache'.nodes[n] = node[n]
    BY <1>1 DEF ToSave, Found
  <2>2. node[n].state = "current"
    BY <1>1, <2>1, AllCurrent
  <2>3. NodeOK(n)
    BY <2>1 DEF RecordInv, NodeRecordsOK
  <2>4. HasEntries(n, cache.nodes[n])'
    BY <2>1, <2>3 DEF NodeOK, HasEntries
  <2>5. ASSUME n \in Assets
        PROVE  KnownIfSame(n, cache.nodes[n])'
    <3>1. PICK e \in ToSet(node[n].analysis.products) :
             /\ e.file = Analysis(n) /\ e.status # 0
             /\ e.status = Status(Analysis(n)) => Named(n, NamedIn(n), node[n].deps)
      BY <2>2, <2>3, <2>5 DEF NodeOK, KnownIfSame
    <3>2. cache'.nodes[n] = node[n]
      BY <1>1, <2>1
    <3>3. NamedIn(n)' = NamedIn(n) /\ Status(Analysis(n))' = Status(Analysis(n))
      BY <1>1 DEF NamedIn, Status
    <3>4. Named(n, NamedIn(n), cache.nodes[n].deps)' = Named(n, NamedIn(n), node[n].deps)
      BY <3>2, <3>3 DEF Named
    <3>5. /\ e \in ToSet(cache'.nodes[n].analysis.products)
          /\ e.status = Status(Analysis(n))' => Named(n, NamedIn(n), cache.nodes[n].deps)'
      BY <3>1, <3>2, <3>3, <3>4
    <3> QED BY <3>1, <3>5 DEF KnownIfSame
  <2> QED BY <2>1, <2>2, <2>4, <2>5
<1> QED BY <1>1, <1>2, NoProcess DEF RecordInv

LEMMA BeginSetsNodes ==
  ASSUME TypesInv, Begin, NEW n \in Nodes
  PROVE  /\ node'[n] = IF n \in DOMAIN cache.nodes THEN cache.nodes[n] ELSE NewNode
         /\ disk' = disk /\ run.pc = "idle" /\ Checked' = {}
<1>1. Checked' = {}
  BY BeginSets DEF Checked
<1> QED BY <1>1 DEF Begin

LEMMA BeginRecords ==
  ASSUME BuildInv, RecordInv, Begin
  PROVE  RecordInv'
<1> USE DEF BuildInv
<1>1. file' = file /\ cache' = cache /\ Checked' = {}
  BY BeginSetsNodes, RootIsNode DEF disk
<1>2. FilesOK'
  BY <1>1 DEF RecordInv, FilesOK, Status
<1>3. LookedUpOK'
  BY BeginSets DEF LookedUpOK
<1>4. ASSUME NEW n \in Nodes
      PROVE  NodeOK(n)'
  <2>1. CASE n \notin DOMAIN cache.nodes
    BY <1>1, <2>1, FreshNode, BeginSetsNodes
  <2>2. CASE n \in DOMAIN cache.nodes
    <3>1. node'[n] = cache.nodes[n]
      BY <2>2, BeginSetsNodes
    <3>2. /\ HasEntries(n, cache.nodes[n]) /\ cache.nodes[n].state = "current"
          /\ n \in Assets => KnownIfSame(n, cache.nodes[n])
      BY <2>2 DEF RecordInv, SavedRecordsOK
    <3>3. HasEntries(n, node[n])'
      BY <3>1, <3>2 DEF HasEntries
    <3>4. Blank(n)'
      BY <3>1, <3>2 DEF Blank
    <3>5. ASSUME n \in Assets
          PROVE  KnownIfSame(n, node[n])'
      <4>1. PICK e \in ToSet(cache.nodes[n].analysis.products) :
             /\ e.file = Analysis(n) /\ e.status # 0
             /\ e.status = Status(Analysis(n)) => Named(n, NamedIn(n), cache.nodes[n].deps)
        BY <3>2, <3>5 DEF KnownIfSame
      <4>2. NamedIn(n)' = NamedIn(n) /\ Status(Analysis(n))' = Status(Analysis(n))
        BY <1>1 DEF NamedIn, Status
      <4>3. Named(n, NamedIn(n), node[n].deps)' = Named(n, NamedIn(n), cache.nodes[n].deps)
        BY <3>1, <4>2 DEF Named
      <4> QED BY <3>1, <4>1, <4>2, <4>3 DEF KnownIfSame
    <3> QED BY <1>1, <3>3, <3>4, <3>5 DEF NodeOK
  <2> QED BY <2>1, <2>2
<1>5. SavedRecordsOK'
  BY <1>1, SavedStay DEF RecordInv, TypesInv, SameAnalysis
<1>6. ToDoOK'
  BY BeginSets DEF ToDoOK, Analysing, Compiling
<1> QED BY <1>2, <1>3, <1>4, <1>5, <1>6, BeginSets DEF RecordInv, NodeRecordsOK

(* The check of a node's own files.                                        *)
UpToDate(n) == node[n].version = version[n]
ChecksCompile(n) == UpToDate(n) /\ node[n].state = "current"
ChecksAnalysis(n) == UpToDate(n) /\ node[n].state # "unanalyzed"
Scans(n) == ChecksAnalysis(n) /\ Stale(n, "analysis") = 0 /\ node[n].scan # None
Recompiles(n) == ChecksCompile(n) /\ \/ Stale(n, "compile") # 0
                                     \/ \E id \in node[n].cas : id \notin DOMAIN content
Reanalyses(n) == \/ ~ChecksAnalysis(n) \/ Stale(n, "analysis") # 0
                 \/ Scans(n) /\ Scan # node[n].scan
LooksAt(n) == (IF ChecksCompile(n) THEN Examined(n, "compile") ELSE {})
              \cup (IF ChecksAnalysis(n) THEN Examined(n, "analysis") ELSE {})
AfterFiles(n) ==
  IF Reanalyses(n) THEN SetState(SetState(node[n], "unanalyzed"), "uncompiled")
  ELSE IF Recompiles(n) THEN SetState(node[n], "uncompiled") ELSE node[n]

LEMMA CheckFilesIs ==
  ASSUME TypesInv, NEW n \in Nodes, CheckFiles(n)
  PROVE  /\ run'.cached = Resolved(LooksAt(n)) /\ run'.scan = (IF Scans(n) THEN Scan ELSE run.scan)
         /\ Reanalyses(n) /\ n \notin Leaves =>
              run'.pc = "work" /\ node' = [node EXCEPT ![n] =
                                    [SetState(node[n], "unanalyzed") EXCEPT !.version = version[n]]]
         /\ ~(Reanalyses(n) /\ n \notin Leaves) =>
              run'.pc = "check" /\ node' = [node EXCEPT ![n] = AfterFiles(n)]
<1> DEFINE scanned == IF Scans(n) THEN Scan ELSE run.scan
           cached == Resolved(LooksAt(n))
           looked == [run EXCEPT !.scan = scanned, !.cached = cached]
<1>1. /\ AtTop(n, "files")
      /\ IF Reanalyses(n) /\ n \notin Leaves
         THEN /\ node' = [node EXCEPT ![n] =
                            [SetState(node[n], "unanalyzed") EXCEPT !.version = version[n]]]
              /\ run' = [looked EXCEPT !.pc = "work", !.phase[n] = "enumerate",
                           !.work = WorkOn(n, "analysis", <<Source(n)>>)]
         ELSE /\ node' = [node EXCEPT ![n] = AfterFiles(n)]
              /\ run' = [looked EXCEPT !.phase[n] = "nodes"]
  BY DEF CheckFiles, UpToDate, ChecksCompile, ChecksAnalysis, Scans, Recompiles, Reanalyses,
         LooksAt, AfterFiles
<1> HIDE DEF scanned, cached
<1>2. HasRun(run) /\ run.pc = "check"
  BY <1>1 DEF TypesInv, RunOK, AtTop
<1>3. HasRun(looked) /\ looked.scan = scanned /\ looked.cached = cached /\ looked.pc = "check"
  <2> DEFINE r1 == [run EXCEPT !.scan = scanned]
  <2>1. HasRun(r1)
    BY <1>2, PartsStay
  <2>2. r1.scan = scanned /\ r1.pc = "check"
    BY <1>2 DEF HasRun
  <2>3. looked = [r1 EXCEPT !.cached = cached]
    OBVIOUS
  <2> HIDE DEF r1, looked
  <2>4. HasRun(looked)
    BY <2>1, <2>3, PartsStay
  <2> QED BY <2>1, <2>2, <2>3, <2>4 DEF HasRun
<1> HIDE DEF looked
<1>4. CASE Reanalyses(n) /\ n \notin Leaves
  <2>1. run'.cached = looked.cached /\ run'.scan = looked.scan /\ run'.pc = "work"
    BY <1>1, <1>3, <1>4 DEF HasRun
  <2> QED BY <1>1, <1>3, <1>4, <2>1 DEF scanned, cached
<1>5. CASE ~(Reanalyses(n) /\ n \notin Leaves)
  <2>1. run'.cached = looked.cached /\ run'.scan = looked.scan /\ run'.pc = looked.pc
    BY <1>1, <1>3, <1>5 DEF HasRun
  <2> QED BY <1>1, <1>3, <1>5, <2>1 DEF scanned, cached
<1> QED BY <1>4, <1>5

(* Nothing that a list records is stale if no entry is found to be.        *)
LEMMA NotStale ==
  ASSUME NEW n \in Nodes, NEW stage \in {"analysis", "compile"}, HasEntries(n, node[n]),
         Stale(n, stage) = 0
  PROVE  /\ \A e \in ToSet(node[n][stage].inputs) \cup ToSet(node[n][stage].products) :
              Resolve(e.file) = e.status
<1> DEFINE inputs == node[n][stage].inputs
           products == node[n][stage].products
           list == inputs \o products
           T(e) == Resolve(e.file) # e.status
<1>1. inputs \in Seq(Entries(Files)) /\ products \in Seq(Entries(Files))
  BY EntriesAreOfFiles
<1>2. list \in Seq(Entries(Files)) /\ ToSet(list) = ToSet(inputs) \cup ToSet(products)
  BY <1>1, ConcatElements
<1>3. Stale(n, stage) = SelectInSeq(list, LAMBDA e : Resolve(e.file) # e.status)
  BY DEF Stale
<1> HIDE DEF inputs, products, list
<1>4. \A i \in 1..Len(list) : ~T(list[i])
  <2>1. ASSUME NEW i \in 1..Len(list), T(list[i])
        PROVE  FALSE
    <3> DEFINE I == {j \in 1..Len(list) : T(list[j])}
    <3>1. I # {} /\ I \in SUBSET Nat
      BY <2>1
    <3>2. Stale(n, stage) = IF I # {} THEN Min(I) ELSE 0
      BY <1>3 DEF SelectInSeq
    <3>3. Min(I) \in I
      BY <3>1, LeastNumber
    <3> QED BY <1>2, <3>1, <3>2, <3>3
  <2> QED BY <2>1
<1>5. \A e \in ToSet(list) : ~T(e)
  BY <1>2, <1>4 DEF ToSet
<1> QED BY <1>2, <1>5 DEF inputs, products

(* A step that changes what is recorded of one node.                       *)
LEMMA OthersStay ==
  ASSUME NodeRecordsOK, NEW n \in Nodes, run.pc = "work" => Work.node = n,
         \A m \in Nodes : m # n => node'[m] = node[m] /\ SameAnalysis(m) /\ (m \in Checked' => m \in Checked),
         NodeOK(n)'
  PROVE  NodeRecordsOK'
<1> SUFFICES ASSUME NEW m \in Nodes
             PROVE  NodeOK(m)'
  BY DEF NodeRecordsOK
<1>1. CASE m = n
  BY <1>1
<1>2. CASE m # n
  BY <1>2, NodeStays DEF NodeRecordsOK, Analysing, Compiling
<1> QED BY <1>1, <1>2

(* The file that the compiler is writing.                                  *)
Writing(f) == run.pc = "work" /\ Work.created /\ f = Output

LEMMA LookedUpStays ==
  ASSUME FilesOK, LookedUpOK, NEW F \in SUBSET Files, run'.cached = Resolved(F), file' = file,
         \A f : Writing(f) => Writing(f)'
  PROVE  LookedUpOK'
<1>1. /\ DOMAIN run'.cached = DOMAIN run.cached \cup F
      /\ \A f \in DOMAIN run'.cached : run'.cached[f] = Resolve(f)
  BY DEF Resolved
<1>2. DOMAIN run'.cached \subseteq Files
  BY <1>1 DEF LookedUpOK
<1>3. \A f \in DOMAIN run'.cached : run'.cached[f] \in Nat
  BY <1>1, <1>2, ResolveIs
<1>4. ASSUME NEW f \in (DOMAIN run'.cached) \cap Made
      PROVE  run'.cached[f] = Status(f)' \/ Writing(f)'
  <2>1. run'.cached[f] = Resolve(f) /\ Status(f)' = Status(f)
    BY <1>1 DEF Status
  <2>2. Resolve(f) = Status(f) \/ Writing(f)
    BY DEF Resolve, LookedUpOK, Writing
  <2> QED BY <2>1, <2>2
<1> QED BY <1>2, <1>3, <1>4 DEF LookedUpOK, Writing

(* What a node records when its state is set.                              *)
LEMMA SetStateEntries ==
  ASSUME NEW n \in Nodes, NEW x, IsNode(x), HasEntries(n, x),
         NEW s \in {"unanalyzed", "uncompiled", "current"}
  PROVE  HasEntries(n, SetState(x, s))
<1>1. NoFiles.inputs = <<>> /\ NoFiles.products = <<>>
  BY DEF NoFiles
<1>2. \A F : <<>> \in Seq(Entries(F))
  OBVIOUS
<1> DEFINE y == SetState(x, s)
<1>3. /\ y.deps = IF s = "unanalyzed" THEN <<>> ELSE x.deps
      /\ y.analysis = IF s = "unanalyzed" THEN NoFiles ELSE x.analysis
      /\ y.compile = IF s = "current" THEN x.compile ELSE NoFiles
  BY SetStateIsNode
<1> HIDE DEF y
<1>4. ASSUME s = "unanalyzed" PROVE HasEntries(n, y)
  BY <1>1, <1>2, <1>3, <1>4 DEF HasEntries
<1>5. ASSUME s = "uncompiled" PROVE HasEntries(n, y)
  BY <1>1, <1>2, <1>3, <1>5 DEF HasEntries
<1>6. ASSUME s = "current" PROVE HasEntries(n, y)
  BY <1>3, <1>6 DEF HasEntries
<1> QED BY <1>4, <1>5, <1>6 DEF y

(* The analysis of an asset that has the same record and the same file.    *)
LEMMA KnownAfter ==
  ASSUME NEW n \in Assets, NEW x, KnownIfSame(n, x), file'[Analysis(n)] = file[Analysis(n)],
         node'[n].analysis = x.analysis, node'[n].deps = x.deps
  PROVE  KnownIfSame(n, node[n])'
<1>1. PICK e \in ToSet(x.analysis.products) :
        /\ e.file = Analysis(n) /\ e.status # 0
        /\ e.status = Status(Analysis(n)) => Named(n, NamedIn(n), x.deps)
  BY DEF KnownIfSame
<1>2. NamedIn(n)' = NamedIn(n) /\ Status(Analysis(n))' = Status(Analysis(n))
  BY DEF NamedIn, Status
<1>3. Named(n, NamedIn(n), node[n].deps)' = Named(n, NamedIn(n), x.deps)
  BY <1>2 DEF Named
<1>4. /\ e \in ToSet(node'[n].analysis.products) /\ e.file = Analysis(n) /\ e.status # 0
      /\ e.status = Status(Analysis(n))' => Named(n, NamedIn(n), node[n].deps)'
  BY <1>1, <1>2, <1>3
<1> QED BY <1>4 DEF KnownIfSame

(* Once its record agrees with its file, what it names is known.           *)
LEMMA NamedWhenSame ==
  ASSUME NEW n \in Assets, NEW x, KnownIfSame(n, x),
         \A e \in ToSet(x.analysis.products) : e.status = Status(e.file)
  PROVE  Named(n, NamedIn(n), x.deps)
BY DEF KnownIfSame

LEMMA SameNamed ==
  ASSUME NEW n \in Assets, NEW deps, Named(n, NamedIn(n), deps),
         file'[Analysis(n)] = file[Analysis(n)], node'[n].deps = deps
  PROVE  Named(n, NamedIn(n), node[n].deps)'
<1>1. NamedIn(n)' = NamedIn(n)
  BY DEF NamedIn
<1> QED BY <1>1 DEF Named

(* A node whose record is x.                                               *)
LEMMA EntriesAfter ==
  ASSUME NEW n, NEW x, HasEntries(n, x), node'[n] = x
  PROVE  HasEntries(n, node[n])'
BY DEF HasEntries

LEMMA CheckFilesRecords ==
  ASSUME BuildInv, RecordInv, NEW n \in Nodes, CheckFiles(n)
  PROVE  RecordInv'
<1> USE DEF BuildInv
<1>1. /\ run.pc = "check" /\ file' = file /\ cache' = cache /\ run'.pc # "save"
      /\ run'.phase \in {[run.phase EXCEPT ![n] = "enumerate"], [run.phase EXCEPT ![n] = "nodes"]}
  BY CheckFilesSets DEF disk
<1>2. IsNode(node[n]) /\ HasEntries(n, node[n]) /\ NodeOK(n) /\ NodesOK
  BY DEF RecordInv, NodeRecordsOK, NodeOK, TypesInv, NodesOK
<1>3. FilesOK'
  BY <1>1 DEF RecordInv, FilesOK, Status
<1>4. LookedUpOK'
  <2>1. Examined(n, "compile") \subseteq Files /\ Examined(n, "analysis") \subseteq Files
    <3>1. ASSUME NEW stage \in {"analysis", "compile"}
          PROVE  Examined(n, stage) \subseteq Files
      <4> DEFINE list == node[n][stage].inputs \o node[n][stage].products
      <4>1. list \in Seq(Entries(Files))
        BY <1>2, EntriesAreOfFiles, ConcatElements
      <4>2. Stale(n, stage) \in 0..Len(list)
        <5> DEFINE I == {j \in 1..Len(list) : Resolve(list[j].file) # list[j].status}
        <5>1. Stale(n, stage) = IF I # {} THEN Min(I) ELSE 0
          BY DEF Stale, SelectInSeq
        <5> HIDE DEF list
        <5>2. Len(list) \in Nat /\ I \in SUBSET Nat /\ I \subseteq 1..Len(list)
          BY <4>1
        <5> HIDE DEF I
        <5>3. I # {} => Min(I) \in I
          BY <5>2, LeastNumber
        <5>4. CASE I = {}
          <6>1. Stale(n, stage) = 0
            BY <5>1, <5>4
          <6> QED BY <5>2, <6>1
        <5>5. CASE I # {}
          <6>1. Stale(n, stage) \in 1..Len(list)
            BY <5>1, <5>2, <5>3, <5>5
          <6> QED BY <5>2, <6>1
        <5> QED BY <5>4, <5>5
      <4> HIDE DEF list
      <4>3. \A i \in 1..Len(list) : list[i].file \in Files
        <5>1. \A i \in 1..Len(list) : list[i] \in Entries(Files)
          BY <4>1
        <5> QED BY <5>1 DEF Entries
      <4>4. Examined(n, stage) =
              {list[i].file : i \in 1..(IF Stale(n, stage) = 0 THEN Len(list) ELSE Stale(n, stage))}
        BY DEF Examined, list
      <4>5. 1..(IF Stale(n, stage) = 0 THEN Len(list) ELSE Stale(n, stage)) \subseteq 1..Len(list)
        BY <4>1, <4>2
      <4> QED BY <4>3, <4>4, <4>5
    <3> QED BY <3>1
  <2>2. LooksAt(n) \in SUBSET Files
    BY <2>1 DEF LooksAt
  <2>3. \A f : ~Writing(f)
    BY <1>1 DEF Writing
  <2> QED BY <1>1, <2>2, <2>3, CheckFilesIs, LookedUpStays DEF RecordInv
<1>5. SavedRecordsOK'
  BY <1>1, SavedStay DEF RecordInv, TypesInv, SameAnalysis
<1>6. CASE Reanalyses(n) /\ n \notin Leaves
  <2> DEFINE x == [SetState(node[n], "unanalyzed") EXCEPT !.version = version[n]]
  <2>1. run'.pc = "work" /\ node' = [node EXCEPT ![n] = x]
    BY <1>6, CheckFilesIs
  <2>2. /\ run'.work = WorkOn(n, "analysis", <<Source(n)>>)
        /\ run'.phase = [run.phase EXCEPT ![n] = "enumerate"]
    BY <2>1, CheckFilesSets
  <2>3. /\ HasWork(run'.work) /\ run'.work.node = n /\ run'.work.stage = "analysis"
        /\ run'.work.todo = <<Source(n)>>
    <3>1. Starts(run'.work, n, "analysis", <<Source(n)>>)
      BY <2>2, NewWork
    <3> QED BY <3>1 DEF Starts
  <2>4. IsNode(SetState(node[n], "unanalyzed")) /\ HasEntries(n, SetState(node[n], "unanalyzed"))
    BY <1>2, SetStateIsNode, SetStateEntries
  <2>5. VersionSet(SetState(node[n], "unanalyzed"), x, version[n])
    BY <2>4, SetVersionIsNode
  <2>6. /\ x.state = "unanalyzed" /\ x.analysis = NoFiles /\ x.compile = NoFiles /\ IsNode(x)
        /\ x.deps = SetState(node[n], "unanalyzed").deps
    BY <1>2, <2>5, SetStateIsNode DEF VersionSet
  <2>7. HasEntries(n, x)
    BY <2>4, <2>5 DEF HasEntries, VersionSet
  <2> HIDE DEF x
  <2>8. node'[n] = x /\ \A m \in Nodes : m # n => node'[m] = node[m]
    BY <1>2, <2>1, <2>6, OneNodeChanges
  <2>9. NodeOK(n)'
    <3>1. n \notin Checked'
      BY <2>2 DEF Checked, TypesInv, ProcessOK
    <3>2. Blank(n)'
      BY <2>6, <2>8 DEF Blank
    <3>3. HasEntries(n, node[n])'
      BY <2>7, <2>8, EntriesAfter
    <3> QED BY <2>6, <2>8, <3>1, <3>2, <3>3 DEF NodeOK
  <2>10. NodeRecordsOK'
    <3>1. \A m \in Nodes : m # n => (m \in Checked' => m \in Checked)
      BY <2>2 DEF Checked, TypesInv, ProcessOK
    <3> QED BY <1>1, <2>8, <2>9, <3>1, OthersStay DEF RecordInv, SameAnalysis
  <2>11. ToDoOK'
    BY <1>6, <2>1, <2>3, <2>6, <2>8 DEF ToDoOK, Analysing, Compiling, Work
  <2> QED BY <1>1, <1>3, <1>4, <1>5, <2>10, <2>11 DEF RecordInv
<1>7. CASE ~(Reanalyses(n) /\ n \notin Leaves)
  <2>1. run'.pc = "check" /\ node' = [node EXCEPT ![n] = AfterFiles(n)]
    BY <1>7, CheckFilesIs
  <2>2. HasEntries(n, AfterFiles(n)) /\ IsNode(AfterFiles(n))
    BY <1>2, SetStateIsNode, SetStateEntries DEF AfterFiles
  <2>3. node'[n] = AfterFiles(n) /\ \A m \in Nodes : m # n => node'[m] = node[m]
    BY <1>2, <2>1, <2>2, OneNodeChanges
  <2>4. Blank(n)'
    <3>1. node[n].state # "current" => node[n].compile = NoFiles
      BY <1>1, <1>2 DEF NodeOK, Blank, Compiling
    <3>2. node[n].state = "unanalyzed" => node[n].analysis = NoFiles
      BY <1>1, <1>2 DEF NodeOK, Blank, Analysing
    <3>3. /\ AfterFiles(n).state # "current" => AfterFiles(n).compile = NoFiles
          /\ AfterFiles(n).state = "unanalyzed" => AfterFiles(n).analysis = NoFiles
      BY <1>2, <3>1, <3>2, SetStateIsNode DEF AfterFiles
    <3> QED BY <2>3, <3>3 DEF Blank
  <2>5. ASSUME n \in Assets
        PROVE  KnownIfSame(n, node[n])' /\ Named(n, NamedIn(n), node[n].deps)'
    <3>1. ~Reanalyses(n) /\ node[n].state # "unanalyzed" /\ Stale(n, "analysis") = 0
      BY <1>7, <2>5, BuildSystemAssumption DEF Reanalyses, ChecksAnalysis
    <3>2. AfterFiles(n).analysis = node[n].analysis /\ AfterFiles(n).deps = node[n].deps
      BY <1>2, <3>1, SetStateIsNode DEF AfterFiles
    <3>3. KnownIfSame(n, node[n])
      BY <1>2, <2>5, <3>1 DEF NodeOK
    <3>4. Named(n, NamedIn(n), node[n].deps)
      <4>1. \A e \in ToSet(node[n].analysis.products) : e.status = Status(e.file)
        <5>1. ASSUME NEW e \in ToSet(node[n].analysis.products)
              PROVE  e.status = Status(e.file)
          <6>1. e.file = Analysis(n)
            <7>1. node[n].analysis.products \in Seq(Entries(AnalysisOf(n)))
              BY <1>2 DEF HasEntries
            <7>2. e \in Entries(AnalysisOf(n))
              BY <7>1, SeqElements
            <7> QED BY <7>2 DEF Entries, AnalysisOf
          <6>2. Resolve(e.file) = e.status
            BY <1>2, <3>1, NotStale
          <6>3. Resolve(e.file) = Status(e.file)
            BY <1>1, <2>5, <6>1, ResolveMade, KindsOfFiles DEF RecordInv
          <6> QED BY <6>2, <6>3
        <5> QED BY <5>1
      <4> QED BY <2>5, <3>3, <4>1, NamedWhenSame
    <3> QED BY <1>1, <2>3, <2>5, <3>2, <3>3, <3>4, KnownAfter, SameNamed
  <2>6. NodeOK(n)'
    BY <2>2, <2>3, <2>4, <2>5, EntriesAfter DEF NodeOK
  <2>7. NodeRecordsOK'
    <3>1. \A m \in Nodes : m # n => (m \in Checked' => m \in Checked)
      BY <1>1 DEF Checked, TypesInv, ProcessOK
    <3> QED BY <1>1, <2>3, <2>6, <3>1, OthersStay DEF RecordInv, SameAnalysis
  <2>8. ToDoOK'
    BY <2>1 DEF ToDoOK, Analysing, Compiling
  <2> QED BY <1>1, <1>3, <1>4, <1>5, <2>7, <2>8 DEF RecordInv
<1> QED BY <1>6, <1>7

LEMMA SameLooks ==
  ASSUME FilesOK, LookedUpOK, file' = file, run'.cached = run.cached, \A f : Writing(f) => Writing(f)'
  PROVE  FilesOK' /\ LookedUpOK'
<1>1. FilesOK'
  BY DEF FilesOK, Status
<1>2. LookedUpOK'
  BY DEF LookedUpOK, Status, Writing
<1> QED BY <1>1, <1>2

(* A step outside of a compiler's work that keeps a node's analysis.       *)
LEMMA NodeKeepsAnalysis ==
  ASSUME BuildInv, RecordInv, NEW n \in Nodes, NEW x, IsNode(x), HasEntries(n, x),
         node' = [node EXCEPT ![n] = x], file' = file, cache'.nodes = cache.nodes,
         run.pc # "work", run'.cached = run.cached, run'.pc # "save",
         x.analysis = node[n].analysis, x.deps = node[n].deps,
         x.state # "unanalyzed", node[n].state # "unanalyzed",
         x.state # "current" => x.compile = NoFiles,
         \A m \in Nodes : m \in Checked' => m \in Checked,
         ToDoOK'
  PROVE  RecordInv'
<1> USE DEF BuildInv
<1>1. node'[n] = x /\ \A m \in Nodes : m # n => node'[m] = node[m]
  BY OneNodeChanges DEF TypesInv
<1>2. FilesOK' /\ LookedUpOK'
  BY SameLooks DEF RecordInv, Writing
<1>3. SavedRecordsOK'
  BY SavedStay DEF RecordInv, TypesInv, SameAnalysis
<1>4. NodeOK(n)
  BY DEF RecordInv, NodeRecordsOK
<1>5. Blank(n)'
  BY <1>1 DEF Blank
<1>6. n \in Assets => KnownIfSame(n, node[n])'
  BY <1>1, <1>4, KnownAfter DEF NodeOK
<1>7. n \in Assets \cap Checked' => Named(n, NamedIn(n), node[n].deps)'
  BY <1>1, <1>4, SameNamed DEF NodeOK
<1>8. NodeOK(n)'
  BY <1>1, <1>5, <1>6, <1>7, EntriesAfter DEF NodeOK
<1>9. NodeRecordsOK'
  BY <1>1, <1>8, OthersStay DEF RecordInv, SameAnalysis
<1> QED BY <1>2, <1>3, <1>9 DEF RecordInv

LEMMA DependenciesCheckedRecords ==
  ASSUME BuildInv, RecordInv, NEW n \in Nodes, DependenciesChecked(n)
  PROVE  RecordInv'
<1> USE DEF BuildInv
<1>1. /\ run.pc = "check" /\ n \in Checked /\ node[n].state # "unanalyzed"
      /\ file' = file /\ cache' = cache /\ run'.cached = run.cached /\ run'.pc = "check"
  BY DependenciesCheckedSets DEF disk, Checked, GraphInv, SearchOK, StatesOK
<1>2. \A m \in Nodes : m \in Checked' => m \in Checked
  BY <1>1, DependenciesCheckedSets DEF Checked, TypesInv, ProcessOK
<1>3. ToDoOK'
  BY <1>1 DEF ToDoOK, Analysing, Compiling
<1>4. IsNode(node[n]) /\ HasEntries(n, node[n]) /\ NodeOK(n) /\ NodesOK
  BY DEF RecordInv, NodeRecordsOK, NodeOK, TypesInv, NodesOK
<1>5. CASE node' = [node EXCEPT ![n] = SetState(node[n], "uncompiled")]
  <2>1. /\ IsNode(SetState(node[n], "uncompiled")) /\ HasEntries(n, SetState(node[n], "uncompiled"))
        /\ SetState(node[n], "uncompiled").state = "uncompiled"
        /\ SetState(node[n], "uncompiled").analysis = node[n].analysis
        /\ SetState(node[n], "uncompiled").deps = node[n].deps
        /\ SetState(node[n], "uncompiled").compile = NoFiles
    BY <1>4, SetStateIsNode, SetStateEntries
  <2> QED BY <1>1, <1>2, <1>3, <1>5, <2>1, NodeKeepsAnalysis
<1>6. CASE node' = node
  <2>1. Checked' = Checked
    BY <1>1, DependenciesCheckedSets DEF Checked, TypesInv, ProcessOK
  <2> QED BY <1>1, <1>6, <2>1, DependenciesCheckedSets, PlainRecords DEF Plain, disk, Found
<1> QED BY <1>5, <1>6, DependenciesCheckedSets

LEMMA CompileDepsNodeRecords ==
  ASSUME BuildInv, RecordInv, CompileDepsNode
  PROVE  RecordInv'
<1> USE DEF BuildInv
<1> DEFINE n == NextNode
           y == SetState(node[n], "current")
           x == [y EXCEPT !.version = version[n]]
<1>1. /\ run.pc = "compile" /\ n \in Nodes /\ node[n].state = "uncompiled"
      /\ file' = file /\ cache' = cache /\ run'.cached = run.cached /\ run'.pc = "compile"
      /\ node' = [node EXCEPT ![n] = x] /\ run'.phase = run.phase
  BY CompileDepsNodeSets, NextNodeIs DEF disk
<1> HIDE DEF n
<1>2. IsNode(node[n]) /\ HasEntries(n, node[n]) /\ NodeOK(n) /\ NodesOK
  BY <1>1 DEF RecordInv, NodeRecordsOK, NodeOK, TypesInv, NodesOK
<1>3. IsNode(y) /\ HasEntries(n, y) /\ y.state = "current" /\ y.analysis = node[n].analysis
      /\ y.deps = node[n].deps
  BY <1>1, <1>2, SetStateIsNode, SetStateEntries
<1> HIDE DEF y
<1>4. VersionSet(y, x, version[n])
  BY <1>3, SetVersionIsNode
<1> HIDE DEF x
<1>5. IsNode(x) /\ HasEntries(n, x) /\ x.state = "current" /\ x.analysis = node[n].analysis
      /\ x.deps = node[n].deps
  BY <1>3, <1>4 DEF VersionSet, HasEntries
<1>6. ToDoOK'
  BY <1>1 DEF ToDoOK, Analysing, Compiling
<1>7. \A m \in Nodes : m \in Checked' => m \in Checked
  BY <1>1 DEF Checked
<1> QED BY <1>1, <1>5, <1>6, <1>7, NodeKeepsAnalysis

LEMMA StartCompileRecords ==
  ASSUME BuildInv, RecordInv, StartCompile
  PROVE  RecordInv'
<1> USE DEF BuildInv
<1> DEFINE n == NextNode
           x == [node[n] EXCEPT !.version = version[n]]
           todo == IF n \in Leaves THEN <<Source(n)>> ELSE <<Analysis(n)>>
<1>1. /\ run.pc = "compile" /\ n \in Nodes /\ node[n].state = "uncompiled" /\ n \notin DepsNodes
      /\ file' = file /\ cache' = cache /\ run'.cached = run.cached /\ run'.pc = "work"
      /\ node' = [node EXCEPT ![n] = x] /\ run'.phase = run.phase
      /\ run'.work = WorkOn(n, "compile", todo)
  BY StartCompileSets, NextNodeIs DEF disk
<1> HIDE DEF n
<1>2. IsNode(node[n]) /\ HasEntries(n, node[n]) /\ NodeOK(n) /\ NodesOK
  BY <1>1 DEF RecordInv, NodeRecordsOK, NodeOK, TypesInv, NodesOK
<1>3. VersionSet(node[n], x, version[n])
  BY <1>2, SetVersionIsNode
<1> HIDE DEF x
<1>4. IsNode(x) /\ HasEntries(n, x) /\ x.state = "uncompiled" /\ x.analysis = node[n].analysis
      /\ x.deps = node[n].deps /\ x.compile = node[n].compile
  BY <1>1, <1>2, <1>3 DEF VersionSet, HasEntries
<1>5. node[n].compile = NoFiles
  BY <1>1, <1>2 DEF NodeOK, Blank, Compiling
<1>6. /\ run'.work.node = n /\ run'.work.stage = "compile" /\ run'.work.todo = todo
  <2>1. Starts(run'.work, n, "compile", todo)
    BY <1>1, NewWork
  <2> QED BY <2>1 DEF Starts
<1>7. ToDoOK'
  <2>1. n \in Leaves \/ n \in Assets
    BY <1>1 DEF Nodes
  <2>2. n \in Leaves => todo \in {<<Source(n)>>, <<>>}
    OBVIOUS
  <2>3. n \notin Leaves => todo = <<Analysis(n)>>
    OBVIOUS
  <2> HIDE DEF todo
  <2> QED BY <1>6, <2>1, <2>2, <2>3 DEF ToDoOK, Analysing, Compiling, Work
<1>8. \A m \in Nodes : m \in Checked' => m \in Checked
  BY <1>1 DEF Checked
<1> QED BY <1>1, <1>4, <1>5, <1>7, <1>8, NodeKeepsAnalysis

(* The node that is worked on.                                             *)
LEMMA WorkedNode ==
  ASSUME BuildInv, RecordInv, run.pc = "work"
  PROVE  /\ Work.node \in Nodes /\ IsNode(node[Work.node]) /\ NodesOK /\ NodeOK(Work.node)
         /\ HasEntries(Work.node, node[Work.node])
         /\ (Analysing \/ Compiling) /\ ~(Analysing /\ Compiling)
         /\ Analysing => node[Work.node].state = "unanalyzed" /\ Work.node \notin Checked
                         /\ Work.node \notin Leaves
         /\ Compiling => node[Work.node].state = "uncompiled" /\ Work.node \notin DepsNodes
<1> USE DEF BuildInv
<1>1. Work.node \in Nodes /\ Work.stage \in {"analysis", "compile"}
  BY DEF TypesInv, WorkOK
<1>2. IsNode(node[Work.node]) /\ NodesOK /\ NodeOK(Work.node) /\ HasEntries(Work.node, node[Work.node])
  BY <1>1 DEF TypesInv, NodesOK, RecordInv, NodeRecordsOK, NodeOK
<1>3. (Analysing \/ Compiling) /\ ~(Analysing /\ Compiling)
  BY <1>1 DEF Analysing, Compiling
<1>4. Analysing => /\ node[Work.node].state = "unanalyzed" /\ Work.node \notin Checked
                   /\ Work.node \notin Leaves
  BY WorkIsNotChecked DEF RecordInv, ToDoOK
<1>5. Compiling => node[Work.node].state = "uncompiled" /\ Work.node \notin DepsNodes
  BY DEF Compiling, Checking, Analysing, CompileInv, TypesInv, WorkOK
<1> QED BY <1>1, <1>2, <1>3, <1>4, <1>5

(* A step of a compiler's work that goes on.                               *)
LEMMA WorkGoesOn ==
  ASSUME BuildInv, RecordInv, Continues, NEW x,
         node'[Work.node] = x, \A m \in Nodes : m # Work.node => node'[m] = node[m],
         HasEntries(Work.node, x), x.state = node[Work.node].state,
         Analysing => x.compile = node[Work.node].compile,
         Compiling => x.analysis = node[Work.node].analysis /\ x.deps = node[Work.node].deps,
         file' = file, cache' = cache, LookedUpOK', ToDoOK'
  PROVE  RecordInv'
<1> USE DEF BuildInv
<1> SUFFICES ASSUME NEW n \in Nodes, n = Work.node
             PROVE  RecordInv'
  BY WorkedNode DEF Continues
<1>1. /\ n \in Nodes /\ NodeOK(n) /\ run.pc = "work" /\ run'.pc = "work" /\ Checked' = Checked
      /\ Work'.node = n /\ Work'.stage = Work.stage
  BY WorkedNode DEF Continues, SameCourse, CourseKept, Checked, Work
<1>2. Analysing' = Analysing /\ Compiling' = Compiling
  BY <1>1 DEF Analysing, Compiling
<1>3. FilesOK'
  BY DEF RecordInv, FilesOK, Status
<1>4. SavedRecordsOK'
  BY SavedStay DEF RecordInv, TypesInv, SameAnalysis
<1>5. NodeOK(n)'
  <2>1. HasEntries(n, node[n])'
    BY EntriesAfter
  <2>2. CASE Analysing
    <3>1. x.state = "unanalyzed" /\ n \notin Checked' /\ ~Compiling
      BY <1>1, <2>2, WorkedNode
    <3>2. x.compile = NoFiles
      BY <1>1, <2>2, <3>1, WorkedNode DEF NodeOK, Blank
    <3>3. Blank(n)'
      BY <1>1, <1>2, <2>2, <3>2 DEF Blank
    <3> QED BY <2>1, <3>1, <3>3 DEF NodeOK
  <2>3. CASE Compiling
    <3>1. x.state = "uncompiled"
      BY <1>1, <2>3, WorkedNode
    <3>2. Blank(n)'
      BY <1>1, <1>2, <2>3, <3>1 DEF Blank
    <3>3. n \in Assets => KnownIfSame(n, node[n])'
      BY <1>1, <2>3, KnownAfter, WorkedNode DEF NodeOK
    <3>4. n \in Assets \cap Checked' => Named(n, NamedIn(n), node[n].deps)'
      BY <1>1, <2>3, SameNamed DEF NodeOK
    <3> QED BY <2>1, <3>2, <3>3, <3>4 DEF NodeOK
  <2> QED BY <1>1, <2>2, <2>3, WorkedNode
<1>6. NodeRecordsOK'
  BY <1>1, <1>5, OthersStay DEF RecordInv, SameAnalysis
<1> QED BY <1>1, <1>3, <1>4, <1>6 DEF RecordInv

LEMMA HeadAndTail ==
  ASSUME NEW S, NEW s \in Seq(S), s # <<>>
  PROVE  Head(s) \in S /\ Tail(s) \in Seq(S)
OBVIOUS

(* What is read is what the node may record.                               *)
LEMMA ReadingIs ==
  ASSUME BuildInv, RecordInv, run.pc = "work", Work.todo # <<>>
  PROVE  /\ Analysing => Reading \in AnalysisReads(Work.node)
         /\ Compiling => Reading \in CompileReads(Work.node, node[Work.node].deps)
         /\ Reading \in Files
<1> DEFINE n == Work.node
<1>1. n \in Nodes /\ (Analysing \/ Compiling)
  BY WorkedNode
<1>2. ASSUME NEW f PROVE Head(<<f>>) = f
  OBVIOUS
<1>3. Source(n) \in Sources
  BY <1>1 DEF Sources
<1>4. ASSUME n \in Assets
      PROVE  Optional(n) \in OptionalOf(n) /\ Analysis(n) \in AnalysisOf(n)
  BY <1>4 DEF OptionalOf, AnalysisOf
<1>5. ASSUME Analysing
      PROVE  Reading \in AnalysisReads(n)
  <2>1. CASE Work.todo = <<Source(n)>>
    BY <1>2, <1>3, <2>1 DEF Reading, AnalysisReads
  <2>2. CASE n \in Assets /\ Work.todo \in Seq({Optional(n)})
    BY <1>4, <2>2, HeadAndTail DEF Reading, AnalysisReads
  <2> QED BY <1>5, <2>1, <2>2 DEF RecordInv, ToDoOK
<1>6. ASSUME Compiling
      PROVE  Reading \in CompileReads(n, node[n].deps)
  <2>1. CASE Work.todo = <<Source(n)>>
    BY <1>2, <1>3, <2>1 DEF Reading, CompileReads, AnalysisReads
  <2>2. CASE n \in Assets /\ Work.todo = <<Analysis(n)>>
    BY <1>2, <1>4, <2>2 DEF Reading, CompileReads
  <2>3. CASE n \in Assets /\ Work.todo \in Seq(Usable(n))
    <3>1. Reading \in Usable(n)
      BY <2>3, HeadAndTail DEF Reading
    <3> QED BY <3>1 DEF CompileReads, AnalysisReads, Usable
  <2> QED BY <1>6, <2>1, <2>2, <2>3 DEF RecordInv, ToDoOK
<1>7. Reading \in Files
  BY <1>1, <1>5, <1>6, ReadFiles
<1> QED BY <1>5, <1>6, <1>7

LEMMA NarrowSeq ==
  ASSUME NEW A, NEW B, NEW s \in Seq(A), ToSet(s) \subseteq B
  PROVE  s \in Seq(B)
BY DEF ToSet

(* What is compiled has been checked.                                      *)
LEMMA CompilingIsChecked ==
  ASSUME BuildInv, Compiling
  PROVE  Work.node \in Checked
<1> USE DEF BuildInv
<1>1. run.pc = "work" /\ ~Checking
  BY DEF Compiling, Checking, Analysing
<1>2. run.at < Len(run.relevant) /\ Work.node = NextNode
  BY <1>1 DEF CompileInv
<1>3. Work.node \in Found
  BY <1>2, NextNodeIs, RelevantIs
<1>4. Searched
  BY <1>1 DEF Searched, GraphInv, ControlOK
<1> QED BY <1>3, <1>4, AllCompleted DEF Checked, Completed

LEMMA NotWriting ==
  ASSUME BuildInv, run.pc = "work", Work.todo # <<>>, NEW f
  PROVE  ~Writing(f)
BY DEF BuildInv, TypesInv, WorkOK, Writing

(* The rest of the work stays.                                             *)
LEMMA ToDoStays ==
  ASSUME BuildInv, RecordInv, Continues,
         run'.work.todo = Work.todo, run'.work.items = Work.items,
         node'[Work.node].state = node[Work.node].state, node'[Work.node].deps = node[Work.node].deps
  PROVE  ToDoOK'
<1> SUFFICES ASSUME NEW n, n = Work.node
             PROVE  ToDoOK'
  OBVIOUS
<1>1. Work'.node = n /\ Work'.stage = Work.stage /\ Work'.todo = Work.todo /\ Work'.items = Work.items
  BY DEF Continues, Work
<1>2. Analysing' = Analysing /\ Compiling' = Compiling
  BY <1>1 DEF Analysing, Compiling, Continues
<1>3. Usable(n)' = Usable(n)
  BY DEF Usable
<1>4. Named(n, Work.items, node[n].deps)' = Named(n, Work.items, node[n].deps)
  BY <1>1 DEF Named
<1> QED BY <1>1, <1>2, <1>3, <1>4 DEF RecordInv, ToDoOK

LEMMA OpenInputRecords ==
  ASSUME BuildInv, RecordInv, OpenInput
  PROVE  RecordInv'
<1> USE DEF BuildInv
<1> DEFINE n == Work.node
           stage == Work.stage
           list == node[n][stage].inputs
           new == Recorded(list, PathKept, Resolve(Reading))
           x == [node[n] EXCEPT ![stage].inputs = new]
<1>1. /\ run.pc = "work" /\ Work.todo # <<>> /\ file' = file /\ cache' = cache
      /\ run'.cached = Resolved({Reading}) /\ node' = [node EXCEPT ![n] = x]
      /\ run'.work = [Work EXCEPT !.open = TRUE]
  BY OpenInputSets DEF disk
<1>2. Continues
  BY OpenInputSame
<1>3. /\ n \in Nodes /\ IsNode(node[n]) /\ HasEntries(n, node[n]) /\ NodesOK
      /\ stage \in {"analysis", "compile"}
  BY <1>1, WorkedNode DEF TypesInv, WorkOK
<1>4. Reading \in Files /\ Resolve(Reading) \in Nat
  BY <1>1, ReadingIs, ResolveIs DEF RecordInv
<1> HIDE DEF x, new
<1>5. InputsSet(node[n], x, stage, new)
  BY <1>3, SetInputs DEF x
<1>6. HasEntries(n, x)
  <2>1. CASE Analysing
    <3>1. stage = "analysis" /\ n \notin Leaves
      BY <2>1, <1>1, WorkedNode DEF Analysing
    <3>2. PathKept \in AnalysisReads(n)
      BY <1>1, <2>1, ReadingIs DEF PathKept, AnalysisReads
    <3>3. list \in Seq(Entries(AnalysisReads(n)))
      BY <1>3, <3>1 DEF HasEntries
    <3>4. new \in Seq(Entries(AnalysisReads(n)))
      BY <3>3, <1>4, <3>2, RecordedStays DEF new
    <3> QED BY <1>3, <1>5, <3>1, <3>4 DEF HasEntries, InputsSet
  <2>2. CASE Compiling
    <3>1. stage = "compile"
      BY <2>2 DEF Compiling
    <3>2. PathKept \in CompileReads(n, node[n].deps)
      BY <1>1, <2>2, ReadingIs DEF PathKept, CompileReads, AnalysisReads
    <3>3. list \in Seq(Entries(CompileReads(n, node[n].deps)))
      BY <1>3, <3>1 DEF HasEntries
    <3>4. new \in Seq(Entries(CompileReads(n, node[n].deps)))
      BY <3>3, <1>4, <3>2, RecordedStays DEF new
    <3> QED BY <1>3, <1>5, <3>1, <3>4 DEF HasEntries, InputsSet
  <2> QED BY <1>1, <2>1, <2>2, WorkedNode
<1>7. /\ x.state = node[n].state /\ x.deps = node[n].deps /\ IsNode(x)
      /\ Analysing => x.compile = node[n].compile
      /\ Compiling => x.analysis = node[n].analysis
  BY <1>5 DEF InputsSet, Analysing, Compiling
<1>8. node'[n] = x /\ \A m \in Nodes : m # n => node'[m] = node[m]
  BY <1>1, <1>3, <1>7, OneNodeChanges
<1>9. LookedUpOK'
  BY <1>1, <1>4, NotWriting, LookedUpStays DEF RecordInv
<1>10. ToDoOK'
  <2>1. run'.work.todo = Work.todo /\ run'.work.items = Work.items
    BY <1>1 DEF TypesInv, WorkOK, HasWork
  <2> QED BY <1>2, <1>7, <1>8, <2>1, ToDoStays
<1> QED BY <1>1, <1>2, <1>6, <1>7, <1>8, <1>9, <1>10, WorkGoesOn

(* A step of reading that looks nothing up.                                *)
LEMMA ReadLooks ==
  ASSUME BuildInv, RecordInv, run.pc = "work", Work.todo # <<>>, file' = file, run'.cached = run.cached
  PROVE  LookedUpOK'
BY NotWriting, SameLooks DEF RecordInv

LEMMA ReadDepsFileRecords ==
  ASSUME BuildInv, RecordInv, NEW n \in DepsNodes, ReadDepsFile(n)
  PROVE  RecordInv'
<1> USE DEF BuildInv
<1> DEFINE scanned == IF Text(n) = Wildcard THEN Scan ELSE node[n].scan
           x == [node[n] EXCEPT !.scan = scanned]
<1>1. /\ run.pc = "work" /\ Work.node = n /\ Work.open /\ file' = file /\ cache' = cache
      /\ run'.cached = run.cached /\ node' = [node EXCEPT ![n] = x] /\ run'.pc = "work" /\ SameCourse
      /\ WorkWith(run'.work, <<>>, NamesIn(n), <<Text(n)>>)
  BY ReadDepsFileSets DEF disk
<1>2. Continues /\ run'.work.todo = <<>>
  BY <1>1 DEF Continues, WorkWith
<1>3. IsNode(node[n]) /\ HasEntries(n, node[n]) /\ NodesOK /\ n \in Nodes
  BY <1>1, WorkedNode
<1>4. scanned \in Seq(Nodes) \cup {None}
  BY <1>3, ScanIsNodes DEF IsNode
<1> HIDE DEF x, scanned
<1>5. ScanSet(node[n], x, scanned)
  BY <1>3, <1>4, SetScan DEF x
<1>6. HasEntries(n, x) /\ IsNode(x) /\ x.state = node[n].state /\ x.deps = node[n].deps
      /\ x.compile = node[n].compile /\ x.analysis = node[n].analysis
  BY <1>3, <1>5 DEF HasEntries, ScanSet
<1>7. node'[n] = x /\ \A m \in Nodes : m # n => node'[m] = node[m]
  BY <1>1, <1>3, <1>6, OneNodeChanges
<1>8. ~Compiling /\ Analysing
  BY <1>1, WorkedNode
<1>9. ToDoOK'
  <2>1. Work'.node = n /\ Work'.todo = <<>> /\ ~Compiling' /\ node'[n].state = "unanalyzed" /\ n \notin Leaves
    BY <1>1, <1>2, <1>6, <1>7, <1>8, WorkedNode DEF Continues, Compiling, Work
  <2> QED BY <2>1 DEF ToDoOK
<1>10. Work.todo # <<>>
  BY <1>1 DEF TypesInv, WorkOK
<1> QED BY <1>1, <1>2, <1>6, <1>7, <1>9, <1>10, ReadLooks, WorkGoesOn

(* What is named by an asset's items.                                      *)
LEMMA KindsOfItems ==
  ASSUME NEW n \in Assets, NEW i \in Items(n)
  PROVE  /\ i[1] = "optional" => i = Optional(n)
         /\ i[1] = "source" => i \in Sources
         /\ i[1] = "product" => \E m \in Leaves : i = Product(m)
BY DEF Items, Source, Optional, Product, Sources

LEMMA OptionalItems ==
  ASSUME NEW n \in Assets, NEW items \in Seq(Items(n))
  PROVE  Of({"optional"}, items) \in Seq({Optional(n)})
<1>1. /\ Of({"optional"}, items) \in Seq(Items(n))
      /\ ToSet(Of({"optional"}, items)) = {i \in ToSet(items) : i[1] \in {"optional"}}
  BY OfElements
<1>2. ToSet(items) \subseteq Items(n)
  BY SeqElements
<1>3. ToSet(Of({"optional"}, items)) \subseteq {Optional(n)}
  BY <1>1, <1>2, KindsOfItems
<1> QED BY <1>1, <1>3, NarrowSeq

LEMMA ReadAssetSourceRecords ==
  ASSUME BuildInv, RecordInv, NEW n \in Assets, ReadAssetSource(n)
  PROVE  RecordInv'
<1> USE DEF BuildInv
<1> DEFINE deps == NodesOf(Text(n))
           x == [node[n] EXCEPT !.deps = deps]
<1>1. /\ run.pc = "work" /\ Work.node = n /\ Work.open /\ file' = file /\ cache' = cache
      /\ Work.stage = "analysis" /\ Text(n) \in Seq(Items(n))
      /\ run'.cached = run.cached /\ node' = [node EXCEPT ![n] = x] /\ run'.pc = "work" /\ SameCourse
      /\ WorkWith(run'.work, Of({"optional"}, Text(n)), Text(n), Work.made)
  BY ReadAssetSourceSets DEF disk
<1>2. /\ Continues /\ Analysing /\ Work'.node = n
      /\ Work'.todo = Of({"optional"}, Text(n)) /\ Work'.items = Text(n)
  BY <1>1 DEF Continues, WorkWith, Analysing, Work
<1>3. /\ IsNode(node[n]) /\ HasEntries(n, node[n]) /\ NodesOK /\ n \in Nodes /\ NodeOK(n)
      /\ ~Compiling /\ node[n].state = "unanalyzed" /\ n \notin Leaves
  BY <1>1, <1>2, WorkedNode
<1>4. deps \in Seq(Nodes) /\ \A m : m \in ToSet(deps) <=>
                     \E i \in ToSet(Text(n)) : i[1] \in {"product", "deps"} /\ m = i[2]
  BY <1>1, NodesOfIs
<1> HIDE DEF x, deps
<1>5. DepsSet(node[n], x, deps)
  BY <1>3, <1>4, SetDeps DEF x
<1>6. node[n].compile = NoFiles
  BY <1>3 DEF NodeOK, Blank
<1>7. HasEntries(n, x)
  <2>1. NoFiles.inputs = <<>> /\ \A F : <<>> \in Seq(Entries(F))
    BY DEF NoFiles
  <2> QED BY <1>3, <1>5, <1>6, <2>1 DEF HasEntries, DepsSet
<1>8. node'[n] = x /\ \A m \in Nodes : m # n => node'[m] = node[m]
  BY <1>1, <1>3, <1>5, OneNodeChanges DEF DepsSet
<1>9. ToDoOK'
  <2>1. Named(n, Work.items, node[n].deps)'
    <3>1. \A m \in Leaves : Product(m) \in ToSet(Text(n)) => m \in ToSet(deps)
      BY <1>4 DEF Product
    <3>2. node'[n].deps = deps
      BY <1>5, <1>8 DEF DepsSet
    <3> QED BY <1>1, <1>2, <3>1, <3>2 DEF Named
  <2>2. Work'.todo \in Seq({Optional(n)})
    BY <1>1, <1>2, OptionalItems
  <2>3. ~Compiling'
    BY <1>1, <1>2 DEF Continues, Compiling, Work
  <2>4. node'[n].state = "unanalyzed"
    BY <1>3, <1>5, <1>8 DEF DepsSet
  <2> QED BY <1>2, <1>3, <2>1, <2>2, <2>3, <2>4 DEF ToDoOK
<1>10. Work.todo # <<>>
  BY <1>1 DEF TypesInv, WorkOK
<1>11. LookedUpOK'
  BY <1>1, <1>10, ReadLooks
<1> QED BY <1>1, <1>2, <1>3, <1>5, <1>7, <1>8, <1>9, <1>11, WorkGoesOn DEF DepsSet

(* The steps of reading that leave the nodes alone.                        *)
LEMMA OnlyReadsRecords ==
  ASSUME BuildInv, RecordInv, NEW n \in Nodes, NEW todo, NEW items, NEW made,
         OnlyReads(n, todo, items, made),
         Analysing => n \in Assets /\ Named(n, items, node[n].deps) /\ todo \in Seq({Optional(n)}),
         Compiling => (n \in Leaves /\ todo = <<>>) \/ (n \in Assets /\ todo \in Seq(Usable(n)))
  PROVE  RecordInv'
<1> USE DEF BuildInv
<1>1. /\ run.pc = "work" /\ Work.node = n /\ Work.open /\ file' = file /\ cache' = cache
      /\ run'.cached = run.cached /\ node' = node
      /\ WorkWith(run'.work, todo, items, made)
  BY DEF OnlyReads, disk
<1>2. Continues /\ Work'.node = n /\ Work'.stage = Work.stage /\ Work'.todo = todo /\ Work'.items = items
  BY <1>1, OnlyReadsSame DEF WorkWith, Work
<1>3. HasEntries(n, node[n])
  BY <1>1, WorkedNode
<1>4. ToDoOK'
  <2>1. Analysing' = Analysing /\ Compiling' = Compiling
    BY <1>2 DEF Analysing, Compiling, Continues
  <2>2. Usable(n)' = Usable(n)
    BY <1>1 DEF Usable
  <2>3. Named(n, Work.items, node[n].deps)' = Named(n, items, node[n].deps)
    BY <1>1, <1>2 DEF Named
  <2>4. Analysing => node'[n].state = "unanalyzed" /\ n \notin Leaves
    BY <1>1, WorkedNode
  <2> QED BY <1>1, <1>2, <2>1, <2>2, <2>3, <2>4 DEF ToDoOK
<1>5. LookedUpOK'
  <2>1. Work.todo # <<>>
    BY <1>1 DEF TypesInv, WorkOK
  <2> QED BY <1>1, <2>1, ReadLooks
<1> QED BY <1>1, <1>2, <1>3, <1>4, <1>5, WorkGoesOn

LEMMA TryOptionalRecords ==
  ASSUME BuildInv, RecordInv, NEW n \in Assets, TryOptional(n)
  PROVE  RecordInv'
<1> USE DEF BuildInv
<1> DEFINE kept == Of({"source", "product", "deps"}, Work.items)
           items == IF file[Optional(n)].data # Absent THEN Work.items ELSE kept
<1>1. /\ Work.stage = "analysis" /\ Reading = Optional(n)
      /\ OnlyReads(n, Tail(Work.todo), items, Work.made)
  BY TryOptionalSets
<1>2. run.pc = "work" /\ Work.node = n /\ Work.open /\ n \in Nodes
  BY <1>1 DEF OnlyReads, Nodes
<1>3. Analysing /\ ~Compiling /\ Work.todo # <<>>
  BY <1>1, <1>2 DEF Analysing, Compiling, TypesInv, WorkOK
<1>4. Named(n, Work.items, node[n].deps) /\ Work.todo \in Seq({Optional(n)})
  <2>1. Reading # Source(n)
    BY <1>1 DEF Source, Optional
  <2>2. Work.todo # <<Source(n)>>
    BY <2>1 DEF Reading
  <2>3. n \notin DepsNodes
    BY BuildSystemAssumption
  <2> QED BY <1>2, <1>3, <2>2, <2>3 DEF RecordInv, ToDoOK
<1>5. Named(n, items, node[n].deps)
  <2>1. /\ kept \in Seq(Items(n)) /\ ToSet(kept) \subseteq ToSet(Work.items)
    BY <1>4, OfElements DEF Named
  <2> QED BY <1>4, <2>1 DEF Named
<1>6. Tail(Work.todo) \in Seq({Optional(n)})
  BY <1>3, <1>4, HeadAndTail
<1> HIDE DEF items
<1> QED BY <1>1, <1>2, <1>3, <1>5, <1>6, OnlyReadsRecords

(* What an asset's analysis names can be used in its compilation.          *)
LEMMA NamedIsUsable ==
  ASSUME NEW n \in Assets, NEW items, Named(n, items, node[n].deps)
  PROVE  FilesIn(items) \in Seq(Usable(n))
<1>1. items \in Seq(Items(n)) /\ ToSet(items) \subseteq Items(n)
  BY SeqElements DEF Named
<1>2. /\ FilesIn(items) \in Seq(Items(n))
      /\ ToSet(FilesIn(items)) = {i \in ToSet(items) : i[1] \in {"source", "product", "optional"}}
  BY <1>1, OfElements DEF FilesIn
<1>3. ASSUME NEW i \in ToSet(FilesIn(items))
      PROVE  i \in Usable(n)
  <2>1. i \in ToSet(items) /\ i \in Items(n) /\ i[1] \in {"source", "product", "optional"}
    BY <1>1, <1>2, <1>3
  <2>2. CASE i[1] = "source"
    BY <2>1, <2>2, KindsOfItems DEF Usable
  <2>3. CASE i[1] = "optional"
    BY <2>1, <2>3, KindsOfItems DEF Usable, OptionalOf
  <2>4. CASE i[1] = "product"
    BY <2>1, <2>4, KindsOfItems DEF Usable, LeafProducts, Named
  <2> QED BY <2>1, <2>2, <2>3, <2>4
<1> QED BY <1>2, <1>3, NarrowSeq

LEMMA ReadAnalysisRecords ==
  ASSUME BuildInv, RecordInv, NEW n \in Assets, ReadAnalysis(n)
  PROVE  RecordInv'
<1>1. /\ Work.stage = "compile"
      /\ OnlyReads(n, FilesIn(NamedIn(n)), Work.items, Work.made)
  BY ReadAnalysisSets DEF BuildInv
<1>2. run.pc = "work" /\ Work.node = n /\ n \in Nodes
  BY <1>1 DEF OnlyReads, Nodes
<1>3. Compiling /\ ~Analysing
  BY <1>1, <1>2 DEF Compiling, Analysing
<1>4. Named(n, NamedIn(n), node[n].deps)
  BY <1>2, <1>3, CompilingIsChecked DEF RecordInv, NodeRecordsOK, NodeOK
<1> QED BY <1>1, <1>2, <1>3, <1>4, NamedIsUsable, OnlyReadsRecords

LEMMA ReadLeafRecords ==
  ASSUME BuildInv, RecordInv, NEW n \in Leaves, ReadLeaf(n)
  PROVE  RecordInv'
<1>1. OnlyReads(n, <<>>, Work.items, <<Text(n)>>)
  BY ReadLeafSets DEF BuildInv
<1>2. run.pc = "work" /\ Work.node = n /\ n \in Nodes
  BY <1>1 DEF OnlyReads, Nodes
<1>3. ~Analysing
  BY <1>2, WorkedNode
<1> QED BY <1>1, <1>2, <1>3, OnlyReadsRecords

LEMMA IndexCASRecords ==
  ASSUME BuildInv, RecordInv, NEW n \in Assets, IndexCAS(n)
  PROVE  RecordInv'
<1> USE DEF BuildInv
<1> DEFINE cas == node[n].cas \cup {file[Reading].data}
           x == [node[n] EXCEPT !.cas = cas]
<1>1. /\ run.pc = "work" /\ Work.node = n /\ Work.open /\ file' = file /\ cache' = cache
      /\ Work.stage = "compile" /\ Reading # Analysis(n)
      /\ run'.cached = run.cached /\ node' = [node EXCEPT ![n] = x] /\ run'.pc = "work"
      /\ WorkWith(run'.work, Tail(Work.todo), Work.items, Append(Work.made, file[Reading].data))
  BY IndexCASSets DEF disk
<1>2. Continues /\ Work'.node = n /\ Work'.stage = Work.stage /\ Work'.todo = Tail(Work.todo)
  BY <1>1, IndexCASSame DEF WorkWith, Work
<1>3. /\ IsNode(node[n]) /\ HasEntries(n, node[n]) /\ NodesOK /\ n \in Nodes
      /\ Compiling /\ ~Analysing /\ Work.todo # <<>>
  BY <1>1, WorkedNode DEF Compiling, Analysing, TypesInv, WorkOK
<1> HIDE DEF x, cas
<1>4. CASSet(node[n], x, cas)
  BY <1>3, SetCAS DEF x
<1>5. HasEntries(n, x) /\ IsNode(x) /\ x.state = node[n].state /\ x.deps = node[n].deps
      /\ x.analysis = node[n].analysis
  BY <1>3, <1>4 DEF HasEntries, CASSet
<1>6. node'[n] = x /\ \A m \in Nodes : m # n => node'[m] = node[m]
  BY <1>1, <1>3, <1>5, OneNodeChanges
<1>7. ToDoOK'
  <2>1. Work.todo \in Seq(Usable(n))
    <3>1. Work.todo # <<Analysis(n)>>
      BY <1>1 DEF Reading
    <3>2. n \notin Leaves
      BY BuildSystemAssumption
    <3> QED BY <1>1, <1>3, <3>1, <3>2 DEF RecordInv, ToDoOK
  <2>2. Tail(Work.todo) \in Seq(Usable(n))
    BY <1>3, <2>1, HeadAndTail
  <2>3. Usable(n)' = Usable(n)
    BY <1>5, <1>6 DEF Usable
  <2>4. ~Analysing'
    BY <1>2, <1>3, <1>1 DEF Analysing
  <2> QED BY <1>2, <2>2, <2>3, <2>4 DEF ToDoOK
<1>8. LookedUpOK'
  BY <1>1, <1>3, ReadLooks
<1> QED BY <1>1, <1>2, <1>3, <1>5, <1>6, <1>7, <1>8, WorkGoesOn

LEMMA AllTyped ==
  ASSUME BuildInv, RecordInv
  PROVE  RecordsTyped
BY DEF RecordsTyped, RecordInv, NodeRecordsOK, NodeOK, SavedRecordsOK, BuildInv, TypesInv, SavedOK

(* The file that a compiler writes.                                        *)
LEMMA OutputIs ==
  ASSUME BuildInv, RecordInv, run.pc = "work", Work.node \in Assets \cup Leaves
  PROVE  /\ Output \in Made /\ Output \in Files
         /\ Analysing => Output = Analysis(Work.node) /\ Work.node \in Assets /\ Output \in AnalysisOf(Work.node)
         /\ Compiling => Output = Product(Work.node) /\ Output \in ProductOf(Work.node)
         /\ \A m \in Assets : m # Work.node => Analysis(m) # Output
<1>1. Analysing \/ Compiling
  BY WorkedNode
<1>2. Analysing => Output = Analysis(Work.node) /\ Work.node \in Assets
  BY WorkedNode DEF Analysing, Output
<1>3. Compiling => Output = Product(Work.node)
  BY DEF Compiling, Output
<1>4. Output \in Made
  BY <1>1, <1>2, <1>3 DEF Made
<1>5. \A m \in Assets : m # Work.node => Analysis(m) # Output
  BY <1>1, <1>2, <1>3, FileKinds
<1> QED BY <1>2, <1>3, <1>4, <1>5, KindsOfFiles DEF AnalysisOf, ProductOf

(* What its writing does to the files and to what is recorded of them.     *)
LEMMA OutputWritten ==
  ASSUME BuildInv, RecordInv, run.pc = "work", Work.node \in Assets \cup Leaves,
         NEW data, file' = Written(Output, data), cache' = cache
  PROVE  /\ FilesOK' /\ SavedRecordsOK'
         /\ \A m \in Nodes : m # Work.node => SameAnalysis(m)
         /\ file'[Output] = [status |-> NewStatus(Output), data |-> data]
         /\ \A f \in Files : f # Output => Status(f)' = Status(f) /\ file'[f] = file[f]
         /\ NewStatus(Output) \in Nat /\ NewStatus(Output) # 0
<1> USE DEF BuildInv
<1>1. /\ Output \in Made /\ Output \in Files
      /\ \A m \in Assets : m # Work.node => Analysis(m) # Output
  BY OutputIs
<1>2. DOMAIN file = Files /\ RecordsTyped
  BY AllTyped DEF TypesInv, TextsOK
<1>13. PICK out \in Files : out = Output
  BY <1>1
<1>14. /\ file'[out] = [status |-> NewStatus(out), data |-> data]
      /\ \A g \in Files : g # out => file'[g] = file[g] /\ Status(g)' = Status(g)
  BY <1>2, <1>13, WrittenIs
<1>3. /\ file'[Output] = [status |-> NewStatus(Output), data |-> data]
      /\ \A g \in Files : g # Output => file'[g] = file[g] /\ Status(g)' = Status(g)
  BY <1>13, <1>14
<1>4. NewStatus(Output) \in Nat /\ NewStatus(Output) # 0
  BY <1>2, NewStatusIsNew
<1>5. FilesOK'
  <2>1. \A f \in Files : /\ file'[f] = [status |-> file'[f].status, data |-> file'[f].data]
                         /\ file'[f].status \in Nat
    BY <1>3, <1>4 DEF RecordInv, FilesOK
  <2>2. file'[NoFile] = Missing
    BY <1>1, <1>3, KindsOfFiles DEF RecordInv, FilesOK
  <2>3. \A f \in Edited : file'[f] = file[f] /\ Status(f)' = Status(f)
    BY <1>1, <1>3, KindsOfFiles
  <2> QED BY <2>1, <2>2, <2>3 DEF RecordInv, FilesOK, MayHold
<1>6. \A m \in Nodes : m # Work.node => SameAnalysis(m)
  BY <1>1, <1>3, KindsOfFiles DEF SameAnalysis
<1>7. SavedRecordsOK'
  <2> SUFFICES ASSUME NEW m \in DOMAIN cache.nodes
               PROVE  /\ HasEntries(m, cache.nodes[m])' /\ cache'.nodes[m].state = "current"
                      /\ m \in Assets => KnownIfSame(m, cache.nodes[m])'
    BY DEF SavedRecordsOK
  <2>1. HasEntries(m, cache.nodes[m])' /\ cache'.nodes[m].state = "current"
    BY DEF RecordInv, SavedRecordsOK, HasEntries
  <2>2. ASSUME m \in Assets
        PROVE  KnownIfSame(m, cache.nodes[m])'
    <3>1. PICK e \in ToSet(cache.nodes[m].analysis.products) :
             /\ e.file = Analysis(m) /\ e.status # 0
             /\ e.status = Status(Analysis(m)) => Named(m, NamedIn(m), cache.nodes[m].deps)
      BY <2>2 DEF RecordInv, SavedRecordsOK, KnownIfSame
    <3>2. CASE Analysis(m) = Output
      <4>1. e \in Recordings(cache.nodes[m])
        BY <3>1 DEF Recordings
      <4>2. e.status # NewStatus(Output)
        BY <1>2, <3>1, <3>2, <4>1, NewStatusIsNew
      <4>3. Status(Analysis(m))' = NewStatus(Output)
        BY <1>3, <3>2 DEF Status
      <4>4. e \in ToSet(cache'.nodes[m].analysis.products)
        BY <3>1
      <4> QED BY <3>1, <4>2, <4>3, <4>4 DEF KnownIfSame
    <3>3. CASE Analysis(m) # Output
      <4>1. file'[Analysis(m)] = file[Analysis(m)]
        BY <1>3, <2>2, <3>3, KindsOfFiles
      <4>2. NamedIn(m)' = NamedIn(m) /\ Status(Analysis(m))' = Status(Analysis(m))
        BY <4>1 DEF NamedIn, Status
      <4>3. Named(m, NamedIn(m), cache.nodes[m].deps)' = Named(m, NamedIn(m), cache.nodes[m].deps)
        BY <4>2 DEF Named
      <4>4. /\ e \in ToSet(cache'.nodes[m].analysis.products)
            /\ e.status = Status(Analysis(m))' => Named(m, NamedIn(m), cache.nodes[m].deps)'
        BY <3>1, <4>2, <4>3
      <4> QED BY <3>1, <4>4 DEF KnownIfSame
    <3> QED BY <3>2, <3>3
  <2> QED BY <2>1, <2>2
<1> QED BY <1>3, <1>4, <1>5, <1>6, <1>7

LEMMA CreateOutputRecords ==
  ASSUME BuildInv, RecordInv, CreateOutput
  PROVE  RecordInv'
<1> USE DEF BuildInv
<1>1. PICK n \in Assets \cup Leaves : n = Work.node
  BY CreateOutputSets
<1> DEFINE stage == Work.stage
           list == node[n][stage].products
           new == Recorded(list, Output, 0)
           x == [node[n] EXCEPT ![stage].products = new]
<1>2. /\ run.pc = "work" /\ Work.todo = <<>> /\ Work.created = FALSE
      /\ file' = Written(Output, Partial) /\ cache' = cache /\ run'.cached = run.cached
      /\ node' = [node EXCEPT ![n] = x] /\ run'.work = [Work EXCEPT !.created = TRUE] /\ run'.pc = "work"
  BY <1>1, CreateOutputSets
<1>3. Continues
  BY CreateOutputSame
<1>4. /\ n \in Nodes /\ IsNode(node[n]) /\ HasEntries(n, node[n]) /\ NodesOK /\ NodeOK(n)
      /\ stage \in {"analysis", "compile"} /\ (Analysing \/ Compiling) /\ ~(Analysing /\ Compiling)
  BY <1>1, <1>2, WorkedNode DEF TypesInv, WorkOK
<1>5. /\ Output \in Made /\ Output \in Files
      /\ Analysing => Output = Analysis(n) /\ n \in Assets /\ Output \in AnalysisOf(n)
      /\ Compiling => Output = Product(n) /\ Output \in ProductOf(n)
  BY <1>1, <1>2, OutputIs
<1>6. /\ FilesOK' /\ SavedRecordsOK'
      /\ \A m \in Nodes : m # n => SameAnalysis(m)
      /\ \A f \in Files : f # Output => Status(f)' = Status(f) /\ file'[f] = file[f]
  BY <1>1, <1>2, OutputWritten
<1> HIDE DEF x, new
<1>7. ProductsSet(node[n], x, stage, new)
  BY <1>4, SetProducts DEF x
<1>8. /\ x.state = node[n].state /\ x.deps = node[n].deps /\ IsNode(x)
      /\ Analysing => x.compile = node[n].compile
      /\ Compiling => x.analysis = node[n].analysis
  BY <1>7 DEF ProductsSet, Analysing, Compiling
<1>9. HasEntries(n, x)
  <2>1. CASE Analysing
    <3>1. stage = "analysis" /\ n \notin Leaves
      BY <1>1, <1>2, <2>1, WorkedNode DEF Analysing
    <3>2. new \in Seq(Entries(AnalysisOf(n)))
      <4>1. list \in Seq(Entries(AnalysisOf(n)))
        BY <1>4, <3>1 DEF HasEntries
      <4> HIDE DEF list
      <4> QED BY <1>5, <2>1, <4>1, RecordedIs DEF new
    <3> QED BY <1>4, <1>7, <3>1, <3>2 DEF HasEntries, ProductsSet
  <2>2. CASE Compiling
    <3>1. stage = "compile"
      BY <2>2 DEF Compiling
    <3>2. new \in Seq(Entries(ProductOf(n)))
      <4>1. list \in Seq(Entries(ProductOf(n)))
        BY <1>4, <3>1 DEF HasEntries
      <4> HIDE DEF list
      <4> QED BY <1>5, <2>2, <4>1, RecordedIs DEF new
    <3> QED BY <1>4, <1>7, <3>1, <3>2 DEF HasEntries, ProductsSet
  <2> QED BY <1>4, <2>1, <2>2
<1>10. node'[n] = x /\ \A m \in Nodes : m # n => node'[m] = node[m]
  BY <1>2, <1>4, <1>8, OneNodeChanges
<1>11. /\ Work'.node = n /\ Work'.stage = Work.stage /\ Work'.created = TRUE /\ Checked' = Checked
       /\ Work'.todo = Work.todo /\ Work'.items = Work.items
  BY <1>1, <1>2, <1>3 DEF Continues, SameCourse, CourseKept, Checked, Work, TypesInv, WorkOK, HasWork
<1>12. Analysing' = Analysing /\ Compiling' = Compiling /\ Output' = Output
  BY <1>1, <1>2, <1>11 DEF Analysing, Compiling, Output
<1>13. LookedUpOK'
  <2>1. \A f \in DOMAIN run.cached : f \in Files
    BY DEF RecordInv, LookedUpOK
  <2>2. \A f \in DOMAIN run.cached \cap Made : run.cached[f] = Status(f)' \/ f = Output'
    BY <1>2, <1>6, <1>12, <2>1 DEF RecordInv, LookedUpOK
  <2> QED BY <1>2, <1>11, <2>2 DEF RecordInv, LookedUpOK
<1>14. ToDoOK'
  BY <1>1, <1>3, <1>8, <1>10, <1>11, ToDoStays DEF Work
<1>15. NodeOK(n)'
  <2>1. HasEntries(n, node[n])'
    BY <1>9, <1>10, EntriesAfter
  <2>2. CASE Analysing
    <3>1. x.state = "unanalyzed" /\ n \notin Checked' /\ ~Compiling
      BY <1>1, <1>2, <1>4, <1>8, <1>11, <2>2, WorkedNode
    <3>2. Blank(n)'
      BY <1>1, <1>4, <1>8, <1>10, <1>11, <1>12, <2>2, <3>1 DEF Blank, NodeOK
    <3> QED BY <1>10, <2>1, <3>1, <3>2 DEF NodeOK
  <2>3. CASE Compiling
    <3>1. x.state = "uncompiled"
      BY <1>1, <1>2, <1>8, <2>3, WorkedNode
    <3>2. Blank(n)'
      BY <1>10, <1>11, <1>12, <2>3, <3>1 DEF Blank
    <3>3. n \in Assets => file'[Analysis(n)] = file[Analysis(n)]
      BY <1>5, <1>6, <2>3, FileKinds, KindsOfFiles
    <3>4. n \in Assets => KnownIfSame(n, node[n])'
      BY <1>4, <1>8, <1>10, <2>3, <3>1, <3>3, KnownAfter DEF NodeOK
    <3>5. n \in Assets \cap Checked' => Named(n, NamedIn(n), node[n].deps)'
      BY <1>4, <1>8, <1>10, <1>11, <2>3, <3>3, SameNamed DEF NodeOK
    <3> QED BY <2>1, <3>2, <3>4, <3>5 DEF NodeOK
  <2> QED BY <1>4, <2>2, <2>3
<1>16. NodeRecordsOK'
  BY <1>1, <1>4, <1>6, <1>10, <1>11, <1>15, OthersStay DEF RecordInv
<1> QED BY <1>2, <1>6, <1>13, <1>14, <1>16 DEF RecordInv

(* A node whose work is done.                                              *)
LEMMA CloseOutputRecords ==
  ASSUME BuildInv, RecordInv, CloseOutput
  PROVE  RecordInv'
<1> USE DEF BuildInv
<1>1. PICK n \in Assets \cup Leaves, out \in Files : n = Work.node /\ out = Output
  BY CloseOutputSets, OutputIs
<1> DEFINE stage == Work.stage
           list == node[n][stage].products
           s == NewStatus(out)
           new == Recorded(list, out, s)
           x == [node[n] EXCEPT ![stage].products = new]
           data == <<version[n], Outcome>>
<1>2. /\ run.pc = "work" /\ Work.todo = <<>> /\ Work.created = TRUE
      /\ file' = Written(Output, data) /\ cache' = cache
      /\ IsDone(x, With(run.cached, out, s))
  BY <1>1, CloseOutputSets DEF StatusAtClose
<1>4. /\ n \in Nodes /\ IsNode(node[n]) /\ HasEntries(n, node[n]) /\ NodesOK /\ NodeOK(n)
      /\ stage \in {"analysis", "compile"} /\ (Analysing \/ Compiling) /\ ~(Analysing /\ Compiling)
  BY <1>1, <1>2, WorkedNode DEF TypesInv, WorkOK
<1>5. /\ out \in Made
      /\ Analysing => out = Analysis(n) /\ n \in Assets /\ out \in AnalysisOf(n)
      /\ Compiling => out = Product(n) /\ out \in ProductOf(n)
  BY <1>1, <1>2, OutputIs
<1>6. /\ FilesOK' /\ SavedRecordsOK'
      /\ \A m \in Nodes : m # n => SameAnalysis(m)
      /\ file'[out] = [status |-> s, data |-> data]
      /\ \A f \in Files : f # out => Status(f)' = Status(f) /\ file'[f] = file[f]
      /\ s \in Nat /\ s # 0
  BY <1>1, <1>2, OutputWritten
<1> HIDE DEF x, new, data, s
<1>7. ProductsSet(node[n], x, stage, new)
  BY <1>4, SetProducts DEF x
<1>8. /\ x.deps = node[n].deps /\ IsNode(x)
      /\ Analysing => x.compile = node[n].compile /\ x.analysis.products = new
      /\ Compiling => x.analysis = node[n].analysis
  BY <1>7 DEF ProductsSet, Analysing, Compiling
<1>9. HasEntries(n, x)
  <2>1. CASE Analysing
    <3>1. stage = "analysis" /\ n \notin Leaves
      BY <1>1, <1>2, <2>1, WorkedNode DEF Analysing
    <3>2. new \in Seq(Entries(AnalysisOf(n)))
      <4>1. list \in Seq(Entries(AnalysisOf(n)))
        BY <1>4, <3>1 DEF HasEntries
      <4> HIDE DEF list
      <4> QED BY <1>5, <1>6, <2>1, <4>1, RecordedIs DEF new
    <3> QED BY <1>4, <1>7, <3>1, <3>2 DEF HasEntries, ProductsSet
  <2>2. CASE Compiling
    <3>1. stage = "compile"
      BY <2>2 DEF Compiling
    <3>2. new \in Seq(Entries(ProductOf(n)))
      <4>1. list \in Seq(Entries(ProductOf(n)))
        BY <1>4, <3>1 DEF HasEntries
      <4> HIDE DEF list
      <4> QED BY <1>5, <1>6, <2>2, <4>1, RecordedIs DEF new
    <3> QED BY <1>4, <1>7, <3>1, <3>2 DEF HasEntries, ProductsSet
  <2> QED BY <1>4, <2>1, <2>2
<1>10. /\ run'.pc \in {"check", "compile"} /\ ~Analysing' /\ ~Compiling'
       /\ \A m \in Nodes : m # n => (m \in Checked' => m \in Checked)
  BY <1>1, <1>2 DEF IsDone, Analysing, Compiling, Checked, TypesInv, ProcessOK
<1>11. LookedUpOK'
  <2>1. run'.cached = (With(run.cached, out, s))
    BY <1>2 DEF IsDone
  <2>2. /\ DOMAIN run'.cached = {out} \cup DOMAIN run.cached
        /\ run'.cached[out] = s
        /\ \A f \in DOMAIN run.cached : f # out => run'.cached[f] = run.cached[f]
    BY <2>1 DEF With
  <2>3. Status(out)' = s
    BY <1>6 DEF Status
  <2>4. ASSUME NEW f \in (DOMAIN run'.cached) \cap Made
        PROVE  run'.cached[f] = Status(f)'
    <3>1. CASE f = out
      BY <2>2, <2>3, <3>1 DEF Status
    <3>2. CASE f # out
      BY <1>1, <1>6, <2>2, <3>2, KindsOfFiles DEF RecordInv, LookedUpOK
    <3> QED BY <3>1, <3>2
  <2> QED BY <1>6, <2>2, <2>4 DEF RecordInv, LookedUpOK
<1>12. ToDoOK'
  BY <1>10 DEF ToDoOK
<1>13. CASE Analysing
  <2> DEFINE y == SetState(x, "uncompiled")
  <2>1. node' = [node EXCEPT ![n] = y]
    BY <1>1, <1>2, <1>13 DEF IsDone, Analysing
  <2>2. /\ IsNode(y) /\ HasEntries(n, y) /\ y.state = "uncompiled" /\ y.compile = NoFiles
        /\ y.deps = node[n].deps /\ y.analysis.products = new
    BY <1>4, <1>8, <1>9, <1>13, SetStateIsNode, SetStateEntries
  <2> HIDE DEF y
  <2>3. node'[n] = y /\ \A m \in Nodes : m # n => node'[m] = node[m]
    BY <1>4, <2>1, <2>2, OneNodeChanges
  <2>4. Named(n, Work.items, node[n].deps) /\ n \in Assets
    <3>1. Work.todo # <<Source(n)>>
      BY <1>2
    <3>2. n \notin DepsNodes
      BY <1>5, <1>13, BuildSystemAssumption
    <3> QED BY <1>1, <1>5, <1>13, <3>1, <3>2 DEF RecordInv, ToDoOK
  <2>5. Named(n, NamedIn(n), node[n].deps)'
    <3>1. file'[Analysis(n)].data = data /\ data[2] = Work.items
      BY <1>1, <1>5, <1>6, <1>13 DEF data, Outcome, Analysing
    <3>2. NamedIn(n)' = Work.items
      BY <3>1 DEF NamedIn
    <3> QED BY <2>2, <2>3, <2>4, <3>2 DEF Named
  <2>6. KnownIfSame(n, node[n])'
    <3>1. [file |-> out, status |-> s] \in ToSet(new)
      <4>1. list \in Seq(Entries(AnalysisOf(n)))
        BY <1>4, <1>13 DEF HasEntries, Analysing
      <4> QED BY <1>5, <1>6, <1>13, <4>1, RecordedIs DEF new
    <3>2. PICK e \in ToSet(node'[n].analysis.products) : e.file = Analysis(n) /\ e.status # 0
      BY <1>5, <1>6, <1>13, <2>2, <2>3, <3>1
    <3> QED BY <2>5, <3>2 DEF KnownIfSame
  <2>7. NodeOK(n)'
    <3>1. Blank(n)'
      BY <2>2, <2>3 DEF Blank
    <3> QED BY <2>2, <2>3, <2>5, <2>6, <3>1, EntriesAfter DEF NodeOK
  <2>8. NodeRecordsOK'
    BY <1>1, <1>4, <1>6, <1>10, <2>3, <2>7, OthersStay DEF RecordInv
  <2> QED BY <1>6, <1>10, <1>11, <1>12, <2>8 DEF RecordInv
<1>14. CASE Compiling
  <2> DEFINE y == SetState(x, "current")
  <2>1. node' = [node EXCEPT ![n] = y]
    BY <1>1, <1>2, <1>14 DEF IsDone, Compiling
  <2>2. /\ IsNode(y) /\ HasEntries(n, y) /\ y.state = "current" /\ y.analysis = node[n].analysis
        /\ y.deps = node[n].deps
    BY <1>4, <1>8, <1>9, <1>14, SetStateIsNode, SetStateEntries
  <2> HIDE DEF y
  <2>3. node'[n] = y /\ \A m \in Nodes : m # n => node'[m] = node[m]
    BY <1>4, <2>1, <2>2, OneNodeChanges
  <2>4. n \in Assets => file'[Analysis(n)] = file[Analysis(n)]
    BY <1>5, <1>6, <1>14, FileKinds, KindsOfFiles
  <2>5. Checked' = Checked /\ node[n].state = "uncompiled"
    BY <1>1, <1>2, <1>14, WorkedNode DEF IsDone, Compiling, Checked
  <2>6. NodeOK(n)'
    <3>1. Blank(n)'
      BY <2>2, <2>3 DEF Blank
    <3>2. n \in Assets => KnownIfSame(n, node[n])'
      BY <1>4, <2>2, <2>3, <2>4, <2>5, KnownAfter DEF NodeOK
    <3>3. n \in Assets \cap Checked' => Named(n, NamedIn(n), node[n].deps)'
      BY <1>4, <2>2, <2>3, <2>4, <2>5, SameNamed DEF NodeOK
    <3> QED BY <2>2, <2>3, <3>1, <3>2, <3>3, EntriesAfter DEF NodeOK
  <2>7. NodeRecordsOK'
    BY <1>1, <1>4, <1>6, <1>10, <2>3, <2>6, OthersStay DEF RecordInv
  <2> QED BY <1>6, <1>10, <1>11, <1>12, <2>7 DEF RecordInv
<1> QED BY <1>4, <1>13, <1>14

LEMMA DepsFileAnalysedRecords ==
  ASSUME BuildInv, RecordInv, DepsFileAnalysed
  PROVE  RecordInv'
<1> USE DEF BuildInv
<1>1. PICK n \in DepsNodes : n = Work.node
  BY DepsFileAnalysedSets
<1> DEFINE before == node[n].analysis.inputs
           list == AllRecorded(before, ListedFiles)
           x == [node[n] EXCEPT !.deps = Work.items, !.analysis.inputs = list]
           y == SetState(x, "uncompiled")
<1>2. /\ run.pc = "work" /\ Work.created = FALSE /\ Work.stage = "analysis" /\ Work.items \in Seq(Nodes)
      /\ disk' = disk /\ IsDone(x, Resolved(ToSet(ListedFiles)))
  BY <1>1, DepsFileAnalysedSets
<1>3. /\ n \in Nodes /\ n \notin Assets \cup Leaves /\ IsNode(node[n]) /\ HasEntries(n, node[n])
      /\ NodesOK /\ NodeOK(n) /\ Analysing /\ ~Compiling /\ node[n].state = "unanalyzed"
  BY <1>1, <1>2, WorkedNode, BuildSystemAssumption DEF Analysing, Nodes
<1>4. ListedFiles \in Seq(AnalysisReads(n)) /\ ToSet(ListedFiles) \subseteq Files
  <2>1. /\ ListedFiles = [i \in 1..Len(Work.items) |-> Source(Work.items[i])] /\ Len(Work.items) \in Nat
        /\ \A i \in 1..Len(Work.items) : Source(Work.items[i]) \in Sources
    BY <1>2 DEF ListedFiles, Sources
  <2>2. ListedFiles \in Seq(Sources)
    BY <2>1
  <2>3. ListedFiles \in Seq(AnalysisReads(n))
    BY <2>2 DEF AnalysisReads
  <2>4. ToSet(ListedFiles) \subseteq Sources
    BY <2>2, SeqElements
  <2> QED BY <2>3, <2>4, KindsOfFiles DEF Sources
<1>5. list \in Seq(Entries(AnalysisReads(n)))
  <2>1. \A f \in AnalysisReads(n) : Resolve(f) \in Nat
    BY <1>3, ReadFiles, ResolveIs DEF RecordInv
  <2>2. before \in Seq(Entries(AnalysisReads(n)))
    BY <1>3 DEF HasEntries
  <2> HIDE DEF before
  <2> QED BY <1>4, <2>1, <2>2, AllRecordedIs
<1> HIDE DEF list, before
<1>6. /\ IsNode(x) /\ x.deps = Work.items /\ x.analysis.inputs = list
      /\ x.analysis.products = node[n].analysis.products /\ x.compile = node[n].compile
  <2>1. IsNode(node[n]) /\ Work.items \in Seq(Nodes)
    BY <1>2, <1>3
  <2>2. DepsAndInputsSet(node[n], x, Work.items, list)
    BY <2>1, SetDepsAndInputs
  <2> HIDE DEF x
  <2> QED BY <2>2 DEF DepsAndInputsSet
<1>7. x.compile = NoFiles
  BY <1>3, <1>6 DEF NodeOK, Blank
<1>8. HasEntries(n, x)
  <2>1. x.compile.inputs = <<>> /\ x.compile.products = <<>>
    BY <1>7 DEF NoFiles
  <2>2. x.analysis.products \in Seq(Entries(AnalysisOf(n)))
    BY <1>3, <1>6 DEF HasEntries
  <2> HIDE DEF x
  <2>3. <<>> \in Seq(Entries(CompileReads(n, x.deps))) /\ <<>> \in Seq(Entries(ProductOf(n)))
    OBVIOUS
  <2> QED BY <1>3, <1>5, <1>6, <2>1, <2>2, <2>3 DEF HasEntries
<1> HIDE DEF x
<1>9. IsNode(y) /\ HasEntries(n, y) /\ y.state = "uncompiled" /\ y.compile = NoFiles
  BY <1>3, <1>6, <1>8, SetStateIsNode, SetStateEntries
<1>10. node' = [node EXCEPT ![n] = y]
  BY <1>1, <1>2 DEF IsDone
<1> HIDE DEF y
<1>11. node'[n] = y /\ \A m \in Nodes : m # n => node'[m] = node[m]
  BY <1>3, <1>9, <1>10, OneNodeChanges
<1>12. /\ run'.pc = "check" /\ ~Analysing' /\ ~Compiling'
       /\ \A m \in Nodes : m # n => (m \in Checked' => m \in Checked)
  BY <1>1, <1>2 DEF IsDone, Analysing, Compiling, Checked, TypesInv, ProcessOK
<1>13. file' = file /\ cache' = cache /\ \A m \in Nodes : SameAnalysis(m)
  BY <1>2 DEF disk, SameAnalysis
<1>14. LookedUpOK'
  BY <1>2, <1>4, <1>13, LookedUpStays DEF RecordInv, Writing, IsDone
<1>15. ToDoOK'
  BY <1>12 DEF ToDoOK
<1>16. NodeOK(n)'
  <2>1. Blank(n)'
    BY <1>9, <1>11 DEF Blank
  <2> QED BY <1>3, <1>9, <1>11, <2>1, EntriesAfter DEF NodeOK
<1>17. NodeRecordsOK'
  BY <1>1, <1>3, <1>11, <1>12, <1>13, <1>16, OthersStay DEF RecordInv
<1>18. FilesOK' /\ SavedRecordsOK'
  <2>1. FilesOK'
    BY <1>13 DEF RecordInv, FilesOK, Status, MayHold
  <2>2. SavedRecordsOK'
    BY <1>13, SavedStay DEF RecordInv, TypesInv, SavedOK
  <2> QED BY <2>1, <2>2
<1> QED BY <1>12, <1>14, <1>15, <1>17, <1>18 DEF RecordInv
-----------------------------------------------------------------------------
(* What happens beside the build.                                          *)
LEMMA BesideRecords ==
  ASSUME BuildInv, RecordInv, FilesOK', node' = node, run' = run, cache' = cache,
         \A g \in Made : file'[g] = file[g] /\ Status(g)' = Status(g)
  PROVE  RecordInv'
<1> USE DEF BuildInv
<1>1. \A n \in Nodes : SameAnalysis(n)
  BY KindsOfFiles DEF SameAnalysis
<1>2. SavedRecordsOK'
  BY <1>1, SavedStay DEF RecordInv, TypesInv, SavedOK
<1>3. NodeRecordsOK'
  <2>1. Analysing' = Analysing /\ Compiling' = Compiling /\ Checked' = Checked /\ Work' = Work
    BY DEF Analysing, Compiling, Checked, Work
  <2> QED BY <1>1, <2>1, NodeStays DEF RecordInv, NodeRecordsOK
<1>4. LookedUpOK'
  BY DEF RecordInv, LookedUpOK, Work, Output
<1>5. ToDoOK'
  BY DEF RecordInv, ToDoOK, Work, Analysing, Compiling, Named, Usable
<1> QED BY <1>2, <1>3, <1>4, <1>5 DEF RecordInv, ToSave

LEMMA EditRecords ==
  ASSUME BuildInv, RecordInv, NEW f \in Edited, NEW text \in MayHold(f), file' = Written(f, text),
         node' = node, run' = run, cache' = cache
  PROVE  RecordInv'
<1> USE DEF BuildInv
<1>1. f \in Files /\ f \notin Made /\ f # NoFile /\ DOMAIN file = Files /\ RecordsTyped
  BY KindsOfFiles, AllTyped DEF TypesInv, TextsOK
<1>2. /\ file'[f] = [status |-> NewStatus(f), data |-> text]
      /\ \A g \in Files : g # f => file'[g] = file[g] /\ Status(g)' = Status(g)
  BY <1>1, WrittenIs
<1>3. NewStatus(f) \in Nat /\ NewStatus(f) # 0
  BY <1>1, NewStatusIsNew
<1>4. text # Absent
  BY FileKinds, TextsAssumption DEF MayHold, Edited, Source, Optional, Nodes
<1>5. FilesOK'
  <2>1. \A g \in Files : /\ file'[g] = [status |-> file'[g].status, data |-> file'[g].data]
                         /\ file'[g].status \in Nat
    BY <1>2, <1>3 DEF RecordInv, FilesOK
  <2>2. file'[NoFile] = Missing
    BY <1>1, <1>2, KindsOfFiles DEF RecordInv, FilesOK
  <2>3. ASSUME NEW g \in Edited
        PROVE  (Status(g)' = 0 <=> file'[g].data = Absent) /\ file'[g].data \in MayHold(g) \cup {Absent}
    <3>1. CASE g = f
      BY <1>2, <1>3, <1>4, <3>1 DEF Status
    <3>2. CASE g # f
      BY <1>2, <3>2, KindsOfFiles DEF RecordInv, FilesOK
    <3> QED BY <3>1, <3>2
  <2> QED BY <2>1, <2>2, <2>3 DEF FilesOK, MayHold
<1>6. \A g \in Made : file'[g] = file[g] /\ Status(g)' = Status(g)
  BY <1>1, <1>2, KindsOfFiles
<1>7. \A n \in Nodes : SameAnalysis(n)
  BY <1>6, KindsOfFiles DEF SameAnalysis
<1> QED BY <1>5, <1>6, <1>7, BesideRecords

LEMMA NoFileIsRemoved ==
  ASSUME TypesInv, FilesOK, NEW f \in Edited \cup Made, file' = [file EXCEPT ![f] = Missing]
  PROVE  /\ FilesOK' /\ file'[f] = Missing /\ Status(f)' = 0
         /\ \A g \in Files : g # f => file'[g] = file[g] /\ Status(g)' = Status(g)
<1>1. f \in Files /\ f # NoFile /\ DOMAIN file = Files /\ Edited \subseteq Files /\ NoFile \in Files
  BY KindsOfFiles DEF TypesInv, TextsOK
<1>2. file'[f] = Missing /\ \A g \in Files : g # f => file'[g] = file[g] /\ Status(g)' = Status(g)
  BY <1>1 DEF Status
<1>3. Missing = [status |-> Missing.status, data |-> Missing.data] /\ Missing.status = 0
      /\ Missing.data = Absent
  BY DEF Missing
<1>4. Status(f)' = 0
  BY <1>2, <1>3 DEF Status
<1>5. \A g \in Files : /\ file'[g] = [status |-> file'[g].status, data |-> file'[g].data]
                       /\ file'[g].status \in Nat
  BY <1>2, <1>3 DEF FilesOK
<1>6. \A g \in Edited : /\ Status(g)' = 0 <=> file'[g].data = Absent
                        /\ file'[g].data \in MayHold(g) \cup {Absent}
  <2> SUFFICES ASSUME NEW g \in Edited
               PROVE  /\ Status(g)' = 0 <=> file'[g].data = Absent
                      /\ file'[g].data \in MayHold(g) \cup {Absent}
    OBVIOUS
  <2>1. CASE g = f
    BY <1>2, <1>3, <1>4, <2>1
  <2>2. CASE g # f
    BY <1>1, <1>2, <2>2 DEF FilesOK
  <2> QED BY <2>1, <2>2
<1> QED BY <1>1, <1>2, <1>4, <1>5, <1>6 DEF FilesOK, MayHold

(* An analysis that is gone agrees with no record.                         *)
LEMMA RemovedIsKnown ==
  ASSUME NEW n \in Assets, NEW x, KnownIfSame(n, x), NEW f, Status(f)' = 0,
         \A g \in Files : g # f => file'[g] = file[g] /\ Status(g)' = Status(g)
  PROVE  KnownIfSame(n, x)'
<1>1. PICK e \in ToSet(x.analysis.products) :
        /\ e.file = Analysis(n) /\ e.status # 0
        /\ e.status = Status(Analysis(n)) => Named(n, NamedIn(n), x.deps)
  BY DEF KnownIfSame
<1>2. CASE Analysis(n) = f
  BY <1>1, <1>2 DEF KnownIfSame
<1>3. CASE Analysis(n) # f
  <2>1. NamedIn(n)' = NamedIn(n) /\ Status(Analysis(n))' = Status(Analysis(n))
    BY <1>3, KindsOfFiles DEF NamedIn
  <2> QED BY <1>1, <2>1 DEF KnownIfSame, Named
<1> QED BY <1>2, <1>3

LEMMA RemovedRecords ==
  ASSUME BuildInv, RecordInv, NEW f \in Edited \cup Made, f \in Made => run.pc = "idle",
         file' = [file EXCEPT ![f] = Missing], node' = node, run' = run, cache' = cache
  PROVE  RecordInv'
<1> USE DEF BuildInv
<1>1. /\ FilesOK' /\ Status(f)' = 0
      /\ \A g \in Files : g # f => file'[g] = file[g] /\ Status(g)' = Status(g)
  BY NoFileIsRemoved DEF RecordInv
<1>2. CASE f \notin Made
  BY <1>1, <1>2, KindsOfFiles, BesideRecords
<1>3. CASE f \in Made
  <2>1. run = NoRun /\ run.cached = <<>> /\ run.pc = "idle" /\ Checked = {}
    <3>1. run = NoRun
      BY <1>3 DEF TypesInv, ProcessOK
    <3> QED BY <3>1 DEF NoRun, Checked
  <2>2. SavedRecordsOK'
    <3> SUFFICES ASSUME NEW n \in DOMAIN cache.nodes
                 PROVE  /\ HasEntries(n, cache.nodes[n]) /\ cache.nodes[n].state = "current"
                        /\ n \in Assets => KnownIfSame(n, cache.nodes[n])'
      BY DEF SavedRecordsOK
    <3>1. n \in Assets => KnownIfSame(n, cache.nodes[n])
      BY DEF RecordInv, SavedRecordsOK
    <3>2. ASSUME NEW x, x = cache.nodes[n], n \in Assets
          PROVE  KnownIfSame(n, x)'
      BY <1>1, <3>1, <3>2, RemovedIsKnown
    <3>3. n \in Assets => KnownIfSame(n, cache.nodes[n])'
      BY <3>2 DEF KnownIfSame
    <3> QED BY <3>3 DEF RecordInv, SavedRecordsOK
  <2>3. NodeRecordsOK'
    <3> SUFFICES ASSUME NEW n \in Nodes
                 PROVE  NodeOK(n)'
      BY DEF NodeRecordsOK
    <3>1. NodeOK(n)
      BY DEF RecordInv, NodeRecordsOK
    <3>2. Analysing' = Analysing /\ Compiling' = Compiling /\ Checked' = {} /\ Work' = Work
      BY <2>1 DEF Analysing, Compiling, Checked, Work
    <3>3. HasEntries(n, node[n])' /\ Blank(n)'
      BY <3>1, <3>2 DEF NodeOK, HasEntries, Blank
    <3>4. ASSUME NEW x, x = node[n], n \in Assets, node[n].state # "unanalyzed"
          PROVE  KnownIfSame(n, x)'
      BY <1>1, <3>1, <3>4, RemovedIsKnown DEF NodeOK
    <3>5. n \in Assets /\ node'[n].state # "unanalyzed" => KnownIfSame(n, node[n])'
      BY <3>4 DEF KnownIfSame
    <3> QED BY <3>2, <3>3, <3>5 DEF NodeOK
  <2>4. LookedUpOK'
    BY <2>1 DEF LookedUpOK
  <2>5. ToDoOK'
    BY <2>1 DEF ToDoOK, Analysing, Compiling
  <2> QED BY <1>1, <2>1, <2>2, <2>3, <2>4, <2>5 DEF RecordInv
<1> QED BY <1>2, <1>3

LEMMA EnvironmentRecords ==
  ASSUME BuildInv, RecordInv, Environment
  PROVE  RecordInv'
<1>1. node' = node /\ run' = run /\ cache' = cache
  BY EnvironmentSets
<1>2. ASSUME NEW f \in Edited, NEW text \in MayHold(f), file' = Written(f, text)
      PROVE  RecordInv'
  BY <1>1, <1>2, EditRecords
<1>3. ASSUME NEW f \in Edited \cup Made, f \in Made => run.pc = "idle",
             file' = [file EXCEPT ![f] = Missing]
      PROVE  RecordInv'
  BY <1>1, <1>3, RemovedRecords
<1>4. ASSUME file' = file
      PROVE  RecordInv'
  <2>1. FilesOK' /\ \A g \in Made : file'[g] = file[g] /\ Status(g)' = Status(g)
    BY <1>4 DEF RecordInv, FilesOK, Status, MayHold
  <2> QED BY <1>1, <2>1, BesideRecords
<1> QED BY <1>2, <1>3, <1>4, EnvironmentSets

-----------------------------------------------------------------------------
LEMMA ChecksRecords ==
  ASSUME BuildInv, RecordInv, Checks
  PROVE  RecordInv'
<1>1. ASSUME NEW n \in Nodes, CheckFiles(n)
      PROVE  RecordInv'
  BY <1>1, CheckFilesRecords
<1>2. ASSUME NEW n \in Nodes, CheckDependency(n)
      PROVE  RecordInv'
  BY <1>2, PlainActions, PlainRecords DEF PlainAction
<1>3. ASSUME NEW n \in Nodes, CircularDependency(n)
      PROVE  RecordInv'
  BY <1>3, EndsRecords DEF CircularDependency
<1>4. ASSUME NEW n \in Nodes, DependenciesChecked(n)
      PROVE  RecordInv'
  BY <1>4, DependenciesCheckedRecords
<1>5. ASSUME Stratify
      PROVE  RecordInv'
  BY <1>5, PlainActions, PlainRecords DEF PlainAction
<1> QED BY <1>1, <1>2, <1>3, <1>4, <1>5 DEF Checks

LEMMA WorksRecords ==
  ASSUME BuildInv, RecordInv, Works
  PROVE  RecordInv'
<1>1. ASSUME NotCompiledAgain
      PROVE  RecordInv'
  BY <1>1, PlainActions, PlainRecords DEF PlainAction
<1>2. ASSUME CompileDepsNode \/ StartCompile
      PROVE  RecordInv'
  BY <1>2, CompileDepsNodeRecords, StartCompileRecords
<1>3. ASSUME CannotRead \/ ListedButGone
      PROVE  RecordInv'
  BY <1>3, EndsRecords DEF CannotRead, ListedButGone
<1>4. ASSUME OpenInput
      PROVE  RecordInv'
  BY <1>4, OpenInputRecords
<1>5. ASSUME DepsFileAnalysed
      PROVE  RecordInv'
  BY <1>5, DepsFileAnalysedRecords
<1>6. ASSUME CreateOutput \/ CloseOutput
      PROVE  RecordInv'
  BY <1>6, CreateOutputRecords, CloseOutputRecords
<1>7. ASSUME NEW n \in DepsNodes, ReadDepsFile(n)
      PROVE  RecordInv'
  BY <1>7, ReadDepsFileRecords
<1>8. ASSUME NEW n \in Assets, ReadAssetSource(n) \/ TryOptional(n) \/ ReadAnalysis(n) \/ IndexCAS(n)
      PROVE  RecordInv'
  BY <1>8, ReadAssetSourceRecords, TryOptionalRecords, ReadAnalysisRecords, IndexCASRecords
<1>9. ASSUME NEW n \in Leaves, ReadLeaf(n)
      PROVE  RecordInv'
  BY <1>9, ReadLeafRecords
<1> QED BY <1>1, <1>2, <1>3, <1>4, <1>5, <1>6, <1>7, <1>8, <1>9 DEF Works

LEMMA FinishesRecords ==
  ASSUME BuildInv, RecordInv, Finishes
  PROVE  RecordInv'
<1>1. ASSUME NothingToExport \/ CreateCatalog \/ WriteCatalog \/ MoveContent \/ WriteInstance
      PROVE  RecordInv'
  BY <1>1, PlainActions, PlainRecords DEF PlainAction
<1>2. ASSUME NEW id \in Wanted, CopyContent(id)
      PROVE  RecordInv'
  BY <1>2, PlainActions, PlainRecords DEF PlainAction
<1>3. ASSUME NEW id, NoContentSource(id)
      PROVE  RecordInv'
  BY <1>3, EndsRecords DEF NoContentSource
<1>4. ASSUME WriteHeader
      PROVE  RecordInv'
  BY <1>4, WriteHeaderRecords
<1> QED BY <1>1, <1>2, <1>3, <1>4 DEF Finishes

LEMMA NextRecords ==
  ASSUME BuildInv, RecordInv, [Next]_bsVars
  PROVE  RecordInv'
<1>1. CASE Killed
  BY <1>1, EndsRecords DEF Killed
<1>2. CASE UNCHANGED bsVars
  <2>1. node' = node /\ run' = run /\ cache' = cache /\ file' = file
    BY <1>2 DEF bsVars, disk
  <2>2. FilesOK' /\ \A g \in Made : file'[g] = file[g] /\ Status(g)' = Status(g)
    BY <2>1 DEF RecordInv, FilesOK, Status, MayHold
  <2> QED BY <2>1, <2>2, BesideRecords
<1> QED BY <1>1, <1>2, BeginRecords, ChecksRecords, WorksRecords, FinishesRecords,
           EnvironmentRecords DEF Next

LEMMA InitRecords ==
  ASSUME Init
  PROVE  RecordInv
<1>1. PICK first : /\ \A n \in Nodes : first[n] \in FirstTexts[n]
                   /\ file = [f \in Files |-> IF f[1] = "source" THEN [status |-> 1, data |-> first[f[2]]]
                                              ELSE Missing]
  BY DEF Init
<1>2. /\ node = [n \in Nodes |-> NewNode] /\ run = NoRun /\ cache = NoCache
  BY DEF Init
<1>3. FilesOK
  <2>1. Missing = [status |-> Missing.status, data |-> Missing.data] /\ Missing.status = 0
        /\ Missing.data = Absent
    BY DEF Missing
  <2>2. \A f \in Files : /\ file[f] = [status |-> file[f].status, data |-> file[f].data]
                         /\ file[f].status \in Nat
    BY <1>1, <2>1
  <2>3. file[NoFile] = Missing
    BY <1>1, KindsOfFiles DEF NoFile
  <2>4. ASSUME NEW n \in Nodes
        PROVE  /\ file[Source(n)].status = 1 /\ file[Source(n)].data = first[n]
               /\ first[n] \in Texts[n] /\ first[n] # Absent /\ MayHold(Source(n)) = Texts[n]
    BY <1>1, KindsOfFiles, BuildSystemAssumption, TextsAssumption DEF Source, MayHold
  <2>5. ASSUME NEW n \in Assets
        PROVE  file[Optional(n)] = Missing
    BY <1>1, KindsOfFiles DEF Optional
  <2>6. \A f \in Edited : /\ Status(f) = 0 <=> file[f].data = Absent
                          /\ file[f].data \in MayHold(f) \cup {Absent}
    BY <2>1, <2>4, <2>5 DEF Edited, Status
  <2> QED BY <2>2, <2>3, <2>6 DEF FilesOK
<1>4. run.cached = <<>> /\ run.pc = "idle" /\ Checked = {} /\ ~Analysing /\ ~Compiling
  BY <1>2 DEF NoRun, Checked, Analysing, Compiling
<1>5. NodeRecordsOK
  <2> SUFFICES ASSUME NEW n \in Nodes
               PROVE  NodeOK(n)
    BY DEF NodeRecordsOK
  <2>1. node[n] = NewNode
    BY <1>2
  <2>2. HasEntries(n, node[n])
    BY <2>1, NewNodeIsOK
  <2> QED BY <1>4, <2>1, <2>2, NewNodeFields DEF NodeOK, Blank
<1>6. SavedRecordsOK
  <2>1. DOMAIN cache.nodes = {}
    BY <1>2 DEF NoCache
  <2> QED BY <2>1 DEF SavedRecordsOK
<1>7. LookedUpOK /\ ToDoOK
  BY <1>4 DEF LookedUpOK, ToDoOK
<1> QED BY <1>3, <1>4, <1>5, <1>6, <1>7 DEF RecordInv

-----------------------------------------------------------------------------
(* Content.  Fixed are the files that no step of a compilation changes.    *)
Fixed == Edited \cup {Product(m) : m \in {m \in Leaves : node[m].state = "current"}}
ContentOK ==
  /\ ~past.raced =>
       /\ \A id \in DOMAIN content : content[id] = id
       /\ run.copy # None => run.copy[1] = run.copy[2]
       /\ \A id \in DOMAIN run.source : file[run.source[id]].data = id /\ run.source[id] \in Fixed
  /\ Checking => DOMAIN run.source = {}
  /\ run.pc = "save" => \A n \in Found : node[n].cas \subseteq DOMAIN content
  /\ past.result = "ok" => run.pc = "idle"
  /\ past.result = "ok" /\ past.touched # "before" =>
       \A n \in DOMAIN cache.nodes : cache.nodes[n].cas \subseteq DOMAIN content

SamePastButTorn ==
  past'.result = past.result /\ past'.touched = past.touched /\ past'.raced = past.raced

(* A step of the process that brings no content.                           *)
LEMMA ContentStays ==
  ASSUME ContentOK, run.pc # "idle", content' = content, SamePastButTorn,
         run'.copy = run.copy, run'.source = run.source, run'.pc \notin {"idle", "save"},
         \/ Checking
         \/ ~Checking' /\ Fixed \subseteq Fixed' /\ \A f \in Fixed : file'[f] = file[f]
  PROVE  ContentOK'
<1>1. past.result # "ok" /\ past'.result # "ok"
  BY DEF ContentOK, SamePastButTorn
<1>2. Checking' => DOMAIN run'.source = {}
  BY DEF ContentOK
<1>3. ~past'.raced =>
         /\ \A id \in DOMAIN content' : content'[id] = id
         /\ run'.copy # None => run'.copy[1] = run'.copy[2]
  BY DEF ContentOK, SamePastButTorn
<1>4. ~past'.raced =>
         \A id \in DOMAIN run'.source : file'[run'.source[id]].data = id /\ run'.source[id] \in Fixed'
  BY DEF ContentOK, SamePastButTorn
<1> QED BY <1>1, <1>2, <1>3, <1>4 DEF ContentOK

LEMMA FixedGrows ==
  ASSUME \A m \in Leaves : node[m].state = "current" => node'[m].state = "current"
  PROVE  Fixed \subseteq Fixed'
BY DEF Fixed

LEMMA FixedIs ==
  ASSUME NEW f \in Fixed
  PROVE  /\ f \in Files /\ \A n \in Assets : f # Analysis(n)
         /\ \A n \in Nodes : f = Product(n) => n \in Leaves /\ node[n].state = "current"
<1>1. CASE f \in Edited
  BY <1>1, KindsOfFiles, FileKinds DEF Edited
<1>2. CASE f \notin Edited
  <2>1. PICK m \in Leaves : f = Product(m) /\ node[m].state = "current"
    BY <1>2 DEF Fixed
  <2> QED BY <2>1, KindsOfFiles, FileKinds
<1> QED BY <1>1, <1>2

LEMMA SameStatesFixed ==
  ASSUME SameDepsStates
  PROVE  Fixed \subseteq Fixed'
BY FixedGrows DEF SameDepsStates, Nodes

(* What has been checked does not become unanalysed again.                 *)
LEMMA ChecksContent ==
  ASSUME BuildInv, ContentOK, NEW n \in Nodes,
         CheckFiles(n) \/ CheckDependency(n) \/ DependenciesChecked(n)
  PROVE  ContentOK'
<1> USE DEF BuildInv
<1>1. /\ run.pc = "check" /\ run'.pc \in {"check", "work"} /\ disk' = disk /\ past' = past
      /\ run'.copy = run.copy /\ run'.source = run.source
  BY CheckFilesSets, CheckDependencySets, DependenciesCheckedSets
<1> QED BY <1>1, ContentStays DEF Checking, SamePastButTorn, disk

LEMMA LoopContent ==
  ASSUME BuildInv, RecordInv, ContentOK, Stratify \/ NotCompiledAgain \/ CompileDepsNode \/ StartCompile
  PROVE  ContentOK'
<1> USE DEF BuildInv
<1>1. CASE Stratify
  <2>1. /\ run.pc = "check" /\ run'.pc = "compile" /\ disk' = disk /\ past' = past
        /\ run'.copy = run.copy /\ run'.source = run.source
    BY <1>1, StratifySets
  <2> QED BY <2>1, ContentStays DEF Checking, SamePastButTorn, disk
<1>2. CASE NotCompiledAgain
  <2>1. /\ run.pc = "compile" /\ run'.pc = "compile" /\ disk' = disk /\ past' = past
        /\ run'.copy = run.copy /\ run'.source = run.source /\ node' = node
    BY <1>2, NotCompiledAgainSets
  <2>2. Fixed \subseteq Fixed' /\ file' = file /\ ~Checking'
    BY <2>1, FixedGrows DEF disk, Checking, Analysing
  <2> QED BY <2>1, <2>2, ContentStays DEF SamePastButTorn, disk
<1>3. CASE CompileDepsNode
  <2>1. PICK n \in DepsNodes : n = NextNode
    BY <1>3, CompileDepsNodeSets
  <2> DEFINE x == [SetState(node[n], "current") EXCEPT !.version = version[n]]
  <2>2. /\ run.pc = "compile" /\ run'.pc = "compile" /\ disk' = disk /\ past' = past
        /\ run'.copy = run.copy /\ run'.source = run.source /\ node' = [node EXCEPT ![n] = x]
    BY <1>3, <2>1, CompileDepsNodeSets
  <2> HIDE DEF x
  <2>3. \A m \in Leaves : node'[m] = node[m]
    BY <2>2, BuildSystemAssumption DEF TypesInv, NodesOK, Nodes
  <2>4. Fixed \subseteq Fixed' /\ file' = file /\ ~Checking'
    BY <2>2, <2>3, FixedGrows DEF disk, Checking, Analysing
  <2> QED BY <2>2, <2>4, ContentStays DEF SamePastButTorn, disk
<1>4. CASE StartCompile
  <2>1. PICK n \in Nodes : n = NextNode
    BY <1>4, StartCompileSets, NextNodeIs
  <2> DEFINE x == [node[n] EXCEPT !.version = version[n]]
  <2>2. /\ run.pc = "compile" /\ run'.pc = "work" /\ disk' = disk /\ past' = past
        /\ run'.copy = run.copy /\ run'.source = run.source /\ node' = [node EXCEPT ![n] = x]
        /\ run'.work = WorkOn(NextNode, "compile",
                              IF NextNode \in Leaves THEN <<Source(NextNode)>> ELSE <<Analysis(NextNode)>>)
    BY <1>4, <2>1, StartCompileSets
  <2>3. IsNode(x) /\ x.deps = node[n].deps /\ x.state = node[n].state
    BY SetVersionIsNode DEF VersionSet, TypesInv, NodesOK
  <2> HIDE DEF x
  <2>4. SameDepsStates
    BY <2>2, <2>3, OneNodeSame
  <2>5. Work'.stage = "compile"
    <3>1. PICK todo : run'.work = WorkOn(NextNode, "compile", todo)
      BY <2>2
    <3>2. Starts(run'.work, NextNode, "compile", todo)
      BY <3>1, NewWork
    <3> QED BY <3>2 DEF Starts, Work
  <2>6. Fixed \subseteq Fixed' /\ file' = file /\ ~Checking'
    BY <2>2, <2>4, <2>5, SameStatesFixed DEF disk, Checking, Analysing
  <2> QED BY <2>2, <2>6, ContentStays DEF SamePastButTorn, disk
<1> QED BY <1>1, <1>2, <1>3, <1>4

(* A step of a compiler's work that gives no source.                       *)
LEMMA ContinuesContent ==
  ASSUME BuildInv, ContentOK, Continues, content' = content, past' = past, run'.source = run.source,
         Checking \/ (Fixed \subseteq Fixed' /\ \A f \in Fixed : file'[f] = file[f])
  PROVE  ContentOK'
<1>1. run.pc = "work" /\ run'.pc = "work" /\ run'.copy = run.copy /\ (Checking' => Checking)
  BY DEF Continues, SameCourse, CourseKept, Checking, Analysing, Work
<1> QED BY <1>1, ContentStays DEF SamePastButTorn

LEMMA ReadsContent ==
  ASSUME BuildInv, ContentOK, Continues, SameDepsStates \/ Checking, disk' = disk, past' = past,
         run'.source = run.source
  PROVE  ContentOK'
BY SameStatesFixed, ContinuesContent DEF disk

(* What a compiler writes is not what content is copied from.              *)
LEMMA OutputIsNotFixed ==
  ASSUME BuildInv, RecordInv, run.pc = "work", Work.node \in Assets \cup Leaves,
         NEW data, file' = Written(Output, data), cache' = cache
  PROVE  \A f \in Fixed : file'[f] = file[f]
<1> SUFFICES ASSUME NEW f \in Fixed
             PROVE  file'[f] = file[f]
  OBVIOUS
<1>1. f \in Files /\ (f # Output => file'[f] = file[f])
  BY FixedIs, OutputWritten
<1>2. (Analysing \/ Compiling) /\ (Compiling => node[Work.node].state = "uncompiled") /\ Work.node \in Nodes
  BY WorkedNode
<1>3. /\ Analysing => Output = Analysis(Work.node) /\ Work.node \in Assets
      /\ Compiling => Output = Product(Work.node)
  BY OutputIs
<1>4. f # Output
  BY <1>2, <1>3, FixedIs
<1> QED BY <1>1, <1>4

LEMMA OutputContent ==
  ASSUME BuildInv, RecordInv, ContentOK, CreateOutput \/ CloseOutput
  PROVE  ContentOK'
<1> USE DEF BuildInv
<1>1. CASE CreateOutput
  <2>1. /\ run.pc = "work" /\ Work.node \in Assets \cup Leaves /\ file' = Written(Output, Partial)
        /\ cache' = cache /\ content' = content /\ past' = past /\ run'.source = run.source
    BY <1>1, CreateOutputSets
  <2>2. Continues /\ SameDepsStates
    BY <1>1, CreateOutputSame
  <2>3. Fixed \subseteq Fixed' /\ \A f \in Fixed : file'[f] = file[f]
    BY <2>1, <2>2, OutputIsNotFixed, SameStatesFixed
  <2> QED BY <2>1, <2>2, <2>3, ContinuesContent
<1>2. CASE CloseOutput
  <2> DEFINE data == <<version[Work.node], Outcome>>
             list == Recorded(node[Work.node][Work.stage].products, Output, StatusAtClose)
             cached == With(run.cached, Output, StatusAtClose)
             x == [node[Work.node] EXCEPT ![Work.stage].products = list]
  <2>1. /\ run.pc = "work" /\ Work.node \in Assets \cup Leaves /\ file' = Written(Output, data)
        /\ cache' = cache /\ content' = content /\ past' = past /\ IsDone(x, cached)
    BY <1>2, CloseOutputSets
  <2> HIDE DEF data, list, cached
  <2>2. IsNode(node[Work.node]) /\ Work.stage \in {"analysis", "compile"} /\ Work.node \in Nodes
    BY <2>1 DEF TypesInv, WorkOK, NodesOK
  <2>3. IsNode(x)
    BY <2>2, SetProducts DEF ProductsSet
  <2> HIDE DEF x
  <2>4. run'.source = run.source /\ run'.copy = run.copy /\ run'.pc \in {"check", "compile"}
    BY <2>1 DEF IsDone
  <2>5. CASE Work.stage = "analysis"
    BY <2>1, <2>4, <2>5, ContentStays DEF SamePastButTorn, Checking, Analysing
  <2>6. CASE Work.stage = "compile"
    <3> DEFINE y == SetState(x, "current")
    <3>1. node' = [node EXCEPT ![Work.node] = y] /\ run'.pc = "compile"
      BY <2>1, <2>6 DEF IsDone
    <3>2. y.state = "current"
      BY <2>3, SetStateIsNode
    <3> HIDE DEF y
    <3>3. \A m \in Leaves : node[m].state = "current" => node'[m].state = "current"
      BY <2>2, <3>1, <3>2 DEF TypesInv, NodesOK, Nodes
    <3>4. Fixed \subseteq Fixed' /\ \A f \in Fixed : file'[f] = file[f]
      BY <2>1, <3>3, FixedGrows, OutputIsNotFixed
    <3>5. ~Checking'
      BY <3>1 DEF Checking, Analysing
    <3> QED BY <2>1, <2>4, <3>4, <3>5, ContentStays DEF SamePastButTorn
  <2> QED BY <2>2, <2>5, <2>6
<1> QED BY <1>1, <1>2

(* A file that is read in a compilation does not change while the process  *)
(* lasts, unless it is edited.                                             *)
LEMMA UsableIsFixed ==
  ASSUME BuildInv, Compiling, NEW f \in Usable(Work.node)
  PROVE  f \in Fixed
<1>1. \A d \in Deps(Work.node) : node[d].state = "current"
  BY DependenciesAreCurrent DEF DependenciesFirst, Compiling, Deps
<1>2. CASE f \in Sources \cup OptionalOf(Work.node)
  BY <1>2, KindsOfFiles DEF Sources, OptionalOf, Fixed
<1>3. CASE f \in LeafProducts(node[Work.node].deps)
  BY <1>1, <1>3 DEF LeafProducts, Fixed, Deps
<1> QED BY <1>2, <1>3 DEF Usable

LEMMA IndexCASContent ==
  ASSUME BuildInv, RecordInv, ContentOK, NEW n \in Assets, IndexCAS(n)
  PROVE  ContentOK'
<1> USE DEF BuildInv
<1> DEFINE id == file[Reading].data
<1>1. /\ run.pc = "work" /\ Work.node = n /\ Work.stage = "compile" /\ Work.open /\ Reading # Analysis(n)
      /\ disk' = disk /\ past' = past /\ run'.source = SourceNoted(id) /\ run'.pc = "work"
  BY IndexCASSets
<1>2. Continues /\ SameDepsStates
  BY IndexCASSame
<1>3. Work.todo # <<>> /\ Compiling /\ n \notin Leaves
  BY <1>1, AssetIsNoDepsNode DEF TypesInv, WorkOK, Compiling
<1>4. Reading \in Fixed
  <2>1. Work.todo # <<Analysis(n)>>
    BY <1>1 DEF Reading
  <2>2. Work.todo \in Seq(Usable(n))
    BY <1>1, <1>3, <2>1 DEF RecordInv, ToDoOK
  <2>3. Reading \in Usable(n)
    BY <1>3, <2>2, HeadAndTail DEF Reading
  <2> QED BY <1>1, <1>3, <2>3, UsableIsFixed
<1>5. Fixed \subseteq Fixed' /\ file' = file /\ content' = content
  BY <1>1, <1>2, SameStatesFixed DEF disk
<1>6. run'.copy = run.copy /\ ~Checking' /\ past.result # "ok"
  BY <1>1, <1>2 DEF Continues, SameCourse, CourseKept, Checking, Analysing, Work, ContentOK
<1>7. ASSUME ~past.raced, NEW i \in DOMAIN run'.source
      PROVE  file'[run'.source[i]].data = i /\ run'.source[i] \in Fixed'
  <2>1. CASE i \in DOMAIN run.source /\ run'.source[i] = run.source[i]
    BY <1>5, <1>7, <2>1 DEF ContentOK
  <2>2. CASE ~(i \in DOMAIN run.source /\ run'.source[i] = run.source[i])
    <3>1. i = id /\ run'.source[i] = Reading
      BY <1>1, <2>2 DEF SourceNoted, With
    <3> QED BY <1>4, <1>5, <3>1
  <2> QED BY <2>1, <2>2
<1>8. ~past'.raced =>
        /\ \A i \in DOMAIN content' : content'[i] = i
        /\ run'.copy # None => run'.copy[1] = run'.copy[2]
  BY <1>1, <1>5, <1>6 DEF ContentOK
<1> QED BY <1>1, <1>6, <1>7, <1>8 DEF ContentOK

-----------------------------------------------------------------------------
(* The end of Build.                                                       *)
LEMMA KeptContent ==
  ASSUME ContentOK, Kept, run.pc \notin {"idle", "check", "work"}, run'.pc \in {"catalog", "content"},
         content' = content, SamePastButTorn, run'.copy = run.copy
  PROVE  ContentOK'
<1>1. Fixed \subseteq Fixed' /\ file' = file /\ ~Checking'
  BY FixedGrows DEF Kept, Checking, Analysing
<1> QED BY <1>1, ContentStays DEF Kept

LEMMA CopyContentContent ==
  ASSUME BuildInv, ContentOK, NEW id, CopyContent(id)
  PROVE  ContentOK'
<1>1. /\ run.pc = "content" /\ HasSource(id) /\ Kept /\ run'.pc = "content"
      /\ run'.copy = <<id, file[run.source[id]].data>> /\ disk' = disk /\ past' = past
  BY CopyContentSets DEF BuildInv
<1>2. Fixed' = Fixed /\ file' = file /\ content' = content /\ ~Checking'
  BY <1>1 DEF Fixed, Kept, disk, Checking, Analysing
<1>3. ~past.raced => run'.copy[1] = run'.copy[2]
  BY <1>1 DEF ContentOK, HasSource
<1>4. past.result # "ok"
  BY <1>1 DEF ContentOK
<1> QED BY <1>1, <1>2, <1>3, <1>4 DEF ContentOK, Kept

LEMMA MoveContentContent ==
  ASSUME BuildInv, ContentOK, MoveContent
  PROVE  ContentOK'
<1>1. /\ run.pc = "content" /\ run.copy # None /\ Kept /\ run'.pc = "content" /\ run'.copy = None
      /\ content' = With(content, run.copy[1], run.copy[2]) /\ past' = past
  BY MoveContentSets DEF BuildInv
<1>2. Fixed' = Fixed /\ file' = file /\ ~Checking'
  BY <1>1 DEF Fixed, Kept, Checking, Analysing
<1>3. ~past.raced => \A id \in DOMAIN content' : content'[id] = id
  BY <1>1 DEF ContentOK, With
<1>4. past.result # "ok"
  BY <1>1 DEF ContentOK
<1> QED BY <1>1, <1>2, <1>3, <1>4 DEF ContentOK, Kept

(* All that is wanted is there before the cache is saved.                  *)
LEMMA WriteInstanceContent ==
  ASSUME BuildInv, ContentOK, WriteInstance
  PROVE  ContentOK'
<1>1. /\ run.pc = "content" /\ Wanted = {} /\ run'.pc = "save" /\ node' = node /\ file' = file
      /\ content' = content /\ past' = past /\ run'.relevant = run.relevant
  BY WriteInstanceSets DEF BuildInv
<1>2. run'.source = run.source /\ run'.copy = run.copy
  BY DEF WriteInstance, BuildInv, TypesInv, RunOK, HasRun
<1>3. \A n \in Found' : node'[n].cas \subseteq DOMAIN content'
  BY <1>1 DEF Wanted, Found
<1>4. Fixed' = Fixed /\ ~Checking'
  BY <1>1 DEF Fixed, Checking, Analysing
<1>5. past.result # "ok"
  BY <1>1 DEF ContentOK
<1> QED BY <1>1, <1>2, <1>3, <1>4, <1>5 DEF ContentOK

(* A process that is over has no sources.                                  *)
LEMMA NoRunContent ==
  ASSUME run' = NoRun
  PROVE  /\ run'.pc = "idle" /\ run'.copy = None /\ DOMAIN run'.source = {} /\ ~Checking'
BY DEF NoRun, Checking, Analysing

LEMMA WriteHeaderContent ==
  ASSUME BuildInv, RecordInv, ContentOK, WriteHeader, PastOK
  PROVE  ContentOK'
<1>1. /\ run.pc = "save" /\ cache'.nodes = ToSave /\ run' = NoRun /\ content' = content
      /\ past' = [past EXCEPT !.result = "ok", !.touched = IF @ = "during" THEN @ ELSE "no",
                              !.torn = @ /\ ~ExportNeeded]
  BY WriteHeaderSets DEF BuildInv, RecordInv
<1>2. past'.raced = past.raced
  BY <1>1 DEF PastOK, HasPast
<1>3. \A n \in DOMAIN cache'.nodes : cache'.nodes[n].cas \subseteq DOMAIN content'
  BY <1>1 DEF ToSave, Found, ContentOK
<1> QED BY <1>1, <1>2, <1>3, NoRunContent DEF ContentOK

LEMMA EndsContent ==
  ASSUME PastOK, ContentOK, NEW how, how # "ok", Ends(how), disk' = disk
  PROVE  ContentOK'
<1>1. run' = NoRun /\ past'.result = how /\ past'.raced = past.raced /\ content' = content
  BY DEF Ends, PastOK, HasPast, disk
<1> QED BY <1>1, NoRunContent DEF ContentOK

LEMMA BeginContent ==
  ASSUME BuildInv, PastOK, ContentOK, Begin
  PROVE  ContentOK'
<1>1. /\ run'.pc = "check" /\ past'.result = "none" /\ past'.raced = past.raced /\ content' = content
  BY BeginSets DEF Begin, BuildInv, disk, PastOK, HasPast
<1>2. DOMAIN run'.source = {} /\ run'.copy = None
  BY DEF Begin, NoRun
<1> QED BY <1>1, <1>2 DEF ContentOK

(* What is edited during a build is a race; between builds the content may *)
(* be removed, but not changed.                                            *)
LEMMA EnvironmentDisturbs ==
  ASSUME PastOK, Environment
  PROVE  /\ past'.result = past.result
         /\ past'.touched = IF run.pc = "idle" THEN "before" ELSE "during"
         /\ past'.raced = (past.raced \/ run.pc # "idle")
         /\ \/ content' = content
            \/ run.pc = "idle" /\ DOMAIN content' \subseteq DOMAIN content
               /\ \A id \in DOMAIN content' : content'[id] = content[id]
<1> DEFINE disturbances == past.disturbances + 1
           touched == IF run.pc = "idle" THEN "before" ELSE "during"
           raced == past.raced \/ run.pc # "idle"
           removed == past.removed \/ content' # content
<1>1. past' = [past EXCEPT !.disturbances = disturbances, !.touched = touched,
                           !.raced = raced, !.removed = removed]
  BY DEF Environment, Edit, RemoveFile, RemoveContent, Upgrade, Disturbs
<1>2. \/ content' = content
      \/ run.pc = "idle" /\ \E id \in DOMAIN content : content' = [i \in DOMAIN content \ {id} |-> content[i]]
  BY DEF Environment, Edit, RemoveFile, RemoveContent, Upgrade
<1>3. past'.result = past.result /\ past'.touched = touched /\ past'.raced = raced
  <2> HIDE DEF disturbances, touched, raced, removed
  <2> QED BY <1>1 DEF PastOK, HasPast
<1> QED BY <1>2, <1>3

LEMMA EnvironmentContent ==
  ASSUME BuildInv, PastOK, ContentOK, Environment
  PROVE  ContentOK'
<1>1. node' = node /\ run' = run /\ cache' = cache
  BY EnvironmentSets
<1>2. Checking' = Checking /\ Found' = Found
  BY <1>1 DEF Checking, Analysing, Work, Found
<1>3. CASE run.pc = "idle"
  <2>1. run = NoRun
    BY <1>3 DEF BuildInv, TypesInv, ProcessOK
  <2> QED BY <1>1, <1>2, <1>3, <2>1, EnvironmentDisturbs, NoRunContent DEF ContentOK
<1>4. CASE run.pc # "idle"
  BY <1>1, <1>2, <1>4, EnvironmentDisturbs DEF ContentOK
<1> QED BY <1>3, <1>4

LEMMA WorksContent ==
  ASSUME BuildInv, RecordInv, PastOK, ContentOK, Works
  PROVE  ContentOK'
<1> USE DEF BuildInv
<1>1. ASSUME NotCompiledAgain \/ CompileDepsNode \/ StartCompile
      PROVE  ContentOK'
  BY <1>1, LoopContent
<1>2. ASSUME CannotRead \/ ListedButGone
      PROVE  ContentOK'
  BY <1>2, EndsContent DEF CannotRead, ListedButGone
<1>3. ASSUME OpenInput
      PROVE  ContentOK'
  BY <1>3, OpenInputSets, OpenInputSame, ReadsContent
<1>4. ASSUME DepsFileAnalysed
      PROVE  ContentOK'
  <2>1. /\ run.pc = "work" /\ Work.stage = "analysis" /\ disk' = disk /\ past' = past
        /\ run'.source = run.source /\ run'.copy = run.copy /\ run'.pc = "check"
    BY <1>4, DepsFileAnalysedSets DEF IsDone
  <2> QED BY <2>1, ContentStays DEF SamePastButTorn, Checking, Analysing, disk
<1>5. ASSUME CreateOutput \/ CloseOutput
      PROVE  ContentOK'
  BY <1>5, OutputContent
<1>6. ASSUME NEW n \in DepsNodes, ReadDepsFile(n)
      PROVE  ContentOK'
  <2>1. /\ Continues /\ Checking /\ disk' = disk /\ past' = past /\ run'.source = run.source
    BY <1>6, ReadDepsFileSets DEF TypesInv, WorkOK, Continues, WorkWith, Checking, Analysing
  <2> QED BY <2>1, ReadsContent
<1>7. ASSUME NEW n \in Assets, ReadAssetSource(n)
      PROVE  ContentOK'
  <2>1. /\ Continues /\ Checking /\ disk' = disk /\ past' = past /\ run'.source = run.source
    BY <1>7, ReadAssetSourceSets DEF Continues, WorkWith, Checking, Analysing
  <2> QED BY <2>1, ReadsContent
<1>8. ASSUME NEW n \in Assets \cup Leaves, NEW todo, NEW items, NEW made,
             OnlyReads(n, todo, items, made)
      PROVE  ContentOK'
  BY <1>8, OnlyReadsSame, ReadsContent DEF OnlyReads
<1>9. ASSUME NEW n \in Assets, TryOptional(n) \/ ReadAnalysis(n)
      PROVE  ContentOK'
  BY <1>8, <1>9, TryOptionalSets, ReadAnalysisSets
<1>10. ASSUME NEW n \in Assets, IndexCAS(n)
       PROVE  ContentOK'
  BY <1>10, IndexCASContent
<1>11. ASSUME NEW n \in Leaves, ReadLeaf(n)
       PROVE  ContentOK'
  BY <1>8, <1>11, ReadLeafSets
<1> QED BY <1>1, <1>2, <1>3, <1>4, <1>5, <1>6, <1>7, <1>9, <1>10, <1>11 DEF Works

LEMMA FinishesContent ==
  ASSUME BuildInv, RecordInv, PastOK, ContentOK, Finishes
  PROVE  ContentOK'
<1> USE DEF BuildInv
<1>1. ASSUME NothingToExport
      PROVE  ContentOK'
  BY <1>1, NothingToExportSets, KeptContent DEF SamePastButTorn, disk
<1>2. ASSUME CreateCatalog
      PROVE  ContentOK'
  <2>1. past'.result = past.result /\ past'.touched = past.touched /\ past'.raced = past.raced
    BY <1>2, CreateCatalogSets DEF PastOK, HasPast
  <2> QED BY <1>2, <2>1, CreateCatalogSets, KeptContent DEF SamePastButTorn
<1>3. ASSUME WriteCatalog
      PROVE  ContentOK'
  BY <1>3, WriteCatalogSets, KeptContent DEF SamePastButTorn
<1>4. ASSUME NEW id \in Wanted, CopyContent(id)
      PROVE  ContentOK'
  BY <1>4, CopyContentContent
<1>5. ASSUME NEW id, NoContentSource(id)
      PROVE  ContentOK'
  BY <1>5, EndsContent DEF NoContentSource
<1>6. ASSUME MoveContent \/ WriteInstance \/ WriteHeader
      PROVE  ContentOK'
  BY <1>6, MoveContentContent, WriteInstanceContent, WriteHeaderContent
<1> QED BY <1>1, <1>2, <1>3, <1>4, <1>5, <1>6 DEF Finishes

LEMMA NextContent ==
  ASSUME BuildInv, RecordInv, PastOK, ContentOK, [Next]_bsVars
  PROVE  ContentOK'
<1>1. ASSUME Checks
      PROVE  ContentOK'
  <2>1. ASSUME NEW n \in Nodes, CircularDependency(n)
        PROVE  ContentOK'
    BY <2>1, EndsContent DEF CircularDependency
  <2> QED BY <1>1, <2>1, ChecksContent, LoopContent DEF Checks
<1>2. CASE Killed
  BY <1>2, EndsContent DEF Killed
<1>3. CASE UNCHANGED bsVars
  <2>1. node' = node /\ run' = run /\ cache' = cache /\ file' = file /\ content' = content /\ past' = past
    BY <1>3 DEF bsVars, disk
  <2>2. Checking' = Checking /\ Found' = Found /\ Fixed' = Fixed
    BY <2>1 DEF Checking, Analysing, Work, Found, Fixed
  <2> QED BY <2>1, <2>2 DEF ContentOK
<1> QED BY <1>1, <1>2, <1>3, BeginContent, WorksContent, FinishesContent, EnvironmentContent DEF Next

LEMMA InitContent ==
  ASSUME Init
  PROVE  PastOK /\ ContentOK
<1>1. /\ PastOK /\ past.result = "none" /\ run = NoRun /\ DOMAIN content = {}
  BY DEF Init, PastOK, HasPast
<1>2. run.pc = "idle" /\ run.copy = None /\ DOMAIN run.source = {} /\ ~Checking
  BY <1>1 DEF NoRun, Checking, Analysing
<1> QED BY <1>1, <1>2 DEF ContentOK

(* A build that succeeds leaves in the content directory all that its      *)
(* nodes have IDs for.  What is stored there is what its ID was made of,   *)
(* unless sources were edited during a build: nothing that the process     *)
(* itself writes is copied before it is written or after it has changed    *)
(* (IndexCAS, UpdateCAS, SaveCache).                                       *)
THEOREM BuildSystemContentIsKept == Spec => []ContentIsKept
<1> DEFINE Inv == BuildInv /\ RecordInv /\ PastOK /\ ContentOK
<1>1. Init => Inv
  BY InitBuild, InitRecords, InitContent
<1>2. Inv /\ [Next]_bsVars => Inv'
  BY NextBuild, NextRecords, CircularStep, NextContent
<1>3. Inv => ContentIsKept
  BY DEF ContentOK, ContentIsKept
<1> QED
  BY <1>1, <1>2, <1>3, PTL DEF Spec
=============================================================================
