------------------------- MODULE RingBufferProofs ----------------------------
(***************************************************************************)
(* Proofs about ResizableRingBuffer, for any sizes and alignments callers  *)
(* ask for and any order in which they dispose of what they hold.          *)
(*                                                                         *)
(* The state is kept as two rings in step: the info rings say in which     *)
(* order blocks were allocated, and the memory chunks hold them in that    *)
(* order.  RBInv says so, and what has to be true besides: chunks count    *)
(* their blocks, none but the last of an empty buffer is empty, and the    *)
(* blocks that are live are those of the handles.                          *)
(***************************************************************************)
EXTENDS ResizableRingBuffer, SequenceTheorems, FiniteSetTheorems,
        WellFoundedInduction, TLAPS

(* How far x lies behind first in a ring of n places.                      *)
From(first, n, x) == IF x >= first THEN x - first ELSE x - first + n

(* The chunks and info blocks there may be: sets of records, cut down to   *)
(* those whose fields agree with each other.                               *)
MemRecord == [cap : Nat, first : Nat, used : Nat, num : Nat]
MemChunk == {c \in MemRecord : c.first < c.cap /\ c.used <= c.cap}
Blocks == [live : BOOLEAN, chunk : Nat, offset : Nat, size : Nat]
BlockTables == UNION {[0..(m - 1) -> Blocks] : m \in Nat}
InfoRecord == [n : Nat, first : Nat, num : Nat, blocks : BlockTables]
InfoChunk ==
  {r \in InfoRecord : r.first < r.n /\ r.num <= r.n /\ r.blocks \in [0..(r.n - 1) -> Blocks]}
Handle == [info : Nat, index : Nat, chunk : Nat, offset : Nat, size : Nat]

(* The places in the info rings i whose block is active, and their order:  *)
(* from the first chunk to the last, and around each chunk's ring.         *)
Slots(i) == {p \in (DOMAIN i) \X Nat : p[2] < i[p[1]].n /\ i[p[1]].blocks[p[2]] # NoBlock}
At(i, p) == i[p[1]].blocks[p[2]]
Age(i, p) == From(i[p[1]].first, i[p[1]].n, p[2])
Precedes(i, p, q) == p[1] < q[1] \/ (p[1] = q[1] /\ Age(i, p) < Age(i, q))

(* Where the block b starts, counted from the first used address of its    *)
(* chunk.                                                                  *)
Start(m, b) == From(m[b.chunk].first, m[b.chunk].cap, b.offset)

(* The blocks of a ring that are active are the first num ones.            *)
Filled(i) ==
  \A k \in DOMAIN i : \A s \in 0..(i[k].n - 1) :
    i[k].blocks[s] # NoBlock <=> From(i[k].first, i[k].n, s) < i[k].num

(* An active block lies within the used part of its chunk.                 *)
Lies(m, b) ==
  /\ b.chunk \in DOMAIN m /\ b.size > 0
  /\ b.offset + b.size <= m[b.chunk].cap
  /\ Start(m, b) + b.size <= m[b.chunk].used
Placed(m, i) == \A p \in Slots(i) : Lies(m, At(i, p))

(* Blocks that are older lie in an earlier chunk or further to its start.  *)
Behind(m, a, b) ==
  /\ a.chunk <= b.chunk
  /\ a.chunk = b.chunk => Start(m, a) + a.size <= Start(m, b)
Ordered(m, i) == \A p, q \in Slots(i) : Precedes(i, p, q) => Behind(m, At(i, p), At(i, q))

(* A chunk counts its active blocks.                                       *)
InChunk(i, c) == {p \in Slots(i) : At(i, p).chunk = c}
Counts(i, c, n) == IsFiniteSet(InChunk(i, c)) /\ n = Cardinality(InChunk(i, c))
Counted(m, i) == \A c \in DOMAIN m : Counts(i, c, m[c].num)

(* Every chunk holds something, but for the last of an empty buffer.       *)
MemBusy(m) ==
  \A c \in DOMAIN m : m[c].num = 0 => Len(m) = 1 /\ m[c].first = 0 /\ m[c].used = 0
InfoBusy(i) == \A k \in DOMAIN i : i[k].num = 0 => Len(i) = 1

(* Blocks that are live are those of the handles callers hold.             *)
Names(i, h) ==
  /\ h.info \in DOMAIN i /\ h.index < i[h.info].n
  /\ i[h.info].blocks[h.index] = Block(h.chunk, h.offset, h.size)
Claimed(i, hs) ==
  /\ \A h \in hs : Names(i, h)
  /\ \A p \in Slots(i) : At(i, p).live => \E h \in hs : h.info = p[1] /\ h.index = p[2]

Rings(m, i) == m \in Seq(MemChunk) /\ i \in Seq(InfoChunk)

Sound(m, i, hs) ==
  /\ Rings(m, i) /\ hs \subseteq Handle
  /\ Filled(i) /\ Placed(m, i) /\ Ordered(m, i) /\ Counted(m, i) /\ Claimed(i, hs)

HeadIsLive == info # <<>> /\ info[1].num > 0 => HeadBlock.live

RBInv ==
  /\ Sound(mem, info, held)
  /\ MemBusy(mem) /\ InfoBusy(info)
  /\ mem = <<>> <=> info = <<>>
  /\ reclaiming \in BOOLEAN
  /\ reclaiming => info # <<>>
  /\ ~reclaiming => HeadIsLive

-----------------------------------------------------------------------------
(* Remainders of numbers below the double of what they are divided by.     *)
LEMMA ModIsSmall ==
  ASSUME NEW a \in Nat, NEW n \in Nat, a < n PROVE a % n = a
  OBVIOUS
LEMMA ModWraps ==
  ASSUME NEW a \in Nat, NEW n \in Nat, n <= a, a < 2 * n PROVE a % n = a - n
  OBVIOUS
LEMMA ModRange ==
  ASSUME NEW a \in Int, NEW n \in Nat, n > 0 PROVE a % n \in 0..(n - 1)
  OBVIOUS
(* What the fields of a chunk may be.                                      *)
LEMMA MemChunkFields ==
  ASSUME NEW c \in MemChunk
  PROVE  /\ c.cap \in Nat \ {0} /\ c.first \in 0..(c.cap - 1) /\ c.used \in 0..c.cap
         /\ c.num \in Nat
  BY DEF MemChunk, MemRecord
LEMMA InfoChunkFields ==
  ASSUME NEW c \in InfoChunk
  PROVE  /\ c.n \in Nat \ {0} /\ c.first \in 0..(c.n - 1) /\ c.num \in 0..c.n
         /\ c.blocks \in [0..(c.n - 1) -> Blocks]
  BY DEF InfoChunk, InfoRecord

-----------------------------------------------------------------------------
(* Allocate.                                                               *)

(* A block is placed in the part of its chunk that is not used.            *)
LEMMA PlacesFit ==
  ASSUME NEW c \in MemChunk, NEW size \in Nat \ {0}, NEW align \in Nat \ {0},
         NEW at \in Places(c, size, align)
  PROVE  /\ at \in Nat /\ at + size <= c.cap
         /\ c.used <= From(c.first, c.cap, at)
         /\ From(c.first, c.cap, at) + size <= c.cap
<1> DEFINE wraps == c.cap - c.first <= c.used
           tail  == IF wraps THEN c.first + c.used - c.cap ELSE c.first + c.used
           limit == IF wraps THEN c.first ELSE c.cap
           pad   == Padding(tail, align)
<1>1. /\ c.cap \in Nat \ {0} /\ c.first \in 0..(c.cap - 1) /\ c.used \in 0..c.cap
  BY MemChunkFields
<1>2. tail \in Nat
  BY <1>1
<1>3. pad \in Nat
  <2>1. \A a \in Nat : Padding(a, align) \in Nat
    <3> TAKE a \in Nat
    <3>1. a % align \in 0..(align - 1)
      BY ModRange
    <3> DEFINE gap == align - (a % align)
    <3>2. gap \in Int
      BY <3>1
    <3> HIDE DEF gap
    <3>3. gap % align \in 0..(align - 1)
      BY <3>2, ModRange
    <3> QED BY <3>3 DEF Padding, gap
  <2> QED BY <2>1, <1>2
<1>4. \/ at = tail + pad /\ tail + pad + size <= limit
      \/ at = 0 /\ ~wraps /\ size <= c.first
  BY DEF Places
<1> HIDE DEF pad
<1>5. CASE at = tail + pad /\ tail + pad + size <= limit
  BY <1>1, <1>3, <1>5 DEF From
<1>6. CASE at = 0 /\ ~wraps /\ size <= c.first
  BY <1>1, <1>6 DEF From
<1> QED BY <1>4, <1>5, <1>6

(* A chunk with a further block is still a chunk.                          *)
LEMMA ExtendedIsAChunk ==
  ASSUME NEW c \in MemChunk, NEW size \in Nat \ {0}, NEW at \in Nat,
         at + size <= c.cap, From(c.first, c.cap, at) + size <= c.cap
  PROVE  /\ Extended(c, at, size) \in MemChunk
         /\ Extended(c, at, size).cap = c.cap /\ Extended(c, at, size).first = c.first
         /\ Extended(c, at, size).used = From(c.first, c.cap, at) + size
         /\ Extended(c, at, size).num = c.num + 1
<1> DEFINE d == Extended(c, at, size)
<1> DEFINE u == at + size + (IF at < c.first THEN c.cap ELSE 0) - c.first
<1>1. /\ c.cap \in Nat \ {0} /\ c.first \in 0..(c.cap - 1) /\ c.used \in 0..c.cap
      /\ c.num \in Nat
  BY MemChunkFields
<1>2. u = From(c.first, c.cap, at) + size /\ u \in 0..c.cap
  BY <1>1 DEF From
<1>3. d = [c EXCEPT !.used = u, !.num = c.num + 1]
  BY DEF Extended
<1>4. c \in MemRecord
  BY DEF MemChunk
<1> HIDE DEF u, d
<1>5. d \in MemRecord /\ d.cap = c.cap /\ d.first = c.first /\ d.used = u /\ d.num = c.num + 1
  <2> DEFINE v == c.num + 1
  <2>1. c \in MemRecord /\ u \in Nat /\ v \in Nat /\ d = [c EXCEPT !.used = u, !.num = v]
    BY <1>1, <1>2, <1>3, <1>4
  <2> HIDE DEF v
  <2>2. d \in MemRecord  BY <2>1 DEF MemRecord
  <2>3. d.cap = c.cap      BY <2>1 DEF MemRecord
  <2>4. d.first = c.first  BY <2>1 DEF MemRecord
  <2>5. d.used = u         BY <2>1 DEF MemRecord
  <2>6. d.num = v          BY <2>1 DEF MemRecord
  <2> QED BY <2>2, <2>3, <2>4, <2>5, <2>6 DEF v
<1>6. d \in MemChunk
  BY <1>1, <1>2, <1>5 DEF MemChunk
<1> QED BY <1>2, <1>5, <1>6 DEF d

(* The free slot of a ring of info blocks is behind the active ones.       *)
LEMMA FreeSlotIsNext ==
  ASSUME NEW r \in InfoChunk, r.num < r.n
  PROVE  /\ FreeSlot(r) \in 0..(r.n - 1) /\ From(r.first, r.n, FreeSlot(r)) = r.num
<1>1. /\ r.n \in Nat \ {0} /\ r.first \in 0..(r.n - 1) /\ r.num \in 0..r.n
  BY InfoChunkFields
<1>2. CASE r.first + r.num < r.n
  <2>1. FreeSlot(r) = r.first + r.num
    BY <1>1, <1>2, ModIsSmall, SMTT(30) DEF FreeSlot
  <2> QED BY <2>1, <1>1, <1>2 DEF From
<1>3. CASE r.n <= r.first + r.num
  <2>1. FreeSlot(r) = r.first + r.num - r.n
    BY <1>1, <1>3, ModWraps DEF FreeSlot
  <2> QED BY <2>1, <1>1, <1>3 DEF From
<1> QED BY <1>1, <1>2, <1>3

(* The rings j are the rings i with the block b at the end of the last.    *)
Holding(i, slot, b, j) ==
  LET k == Len(i)
  IN  /\ j \in Seq(InfoChunk) /\ DOMAIN j = DOMAIN i /\ k \in DOMAIN i
      /\ \A l \in DOMAIN i : j[l].n = i[l].n /\ j[l].first = i[l].first
      /\ \A l \in DOMAIN i : l # k => j[l] = i[l]
      /\ j[k].num = i[k].num + 1
      /\ slot \in 0..(i[k].n - 1)
      /\ \A s \in 0..(i[k].n - 1) : j[k].blocks[s] = IF s = slot THEN b ELSE i[k].blocks[s]
      /\ From(i[k].first, i[k].n, slot) = i[k].num

(* The chunks l are the chunks m with a further block in the last.         *)
Reaching(m, at, size, l) ==
  LET c == Len(m)
  IN  /\ l \in Seq(MemChunk) /\ DOMAIN l = DOMAIN m /\ c \in DOMAIN m
      /\ \A d \in DOMAIN m : l[d].cap = m[d].cap /\ l[d].first = m[d].first
      /\ \A d \in DOMAIN m : d # c => l[d] = m[d]
      /\ l[c].used = From(m[c].first, m[c].cap, at) + size
      /\ l[c].num = m[c].num + 1
      /\ m[c].used <= From(m[c].first, m[c].cap, at)
      /\ at + size <= m[c].cap

(* Allocate puts its block at the end of the last info ring.               *)
LEMMA HoldingOne ==
  ASSUME NEW i \in Seq(InfoChunk), i # <<>>, i[Len(i)].num < i[Len(i)].n, NEW b \in Blocks
  PROVE  Holding(i, FreeSlot(i[Len(i)]), b,
                 [i EXCEPT ![Len(i)].num = @ + 1, ![Len(i)].blocks[FreeSlot(i[Len(i)])] = b])
<1> DEFINE k == Len(i)
           r == i[k]
           slot == FreeSlot(r)
           v == r.num + 1
           w == [r.blocks EXCEPT ![slot] = b]
           x == [r EXCEPT !.num = v, !.blocks = w]
           j == [i EXCEPT ![k] = x]
<1>1. k \in DOMAIN i /\ k \in Nat /\ r \in InfoChunk /\ DOMAIN i = 1..k
  BY LenProperties, ElementOfSeq
<1>2. slot \in 0..(r.n - 1) /\ From(r.first, r.n, slot) = r.num
  BY <1>1, FreeSlotIsNext
<1>3. /\ r.n \in Nat \ {0} /\ r.first \in 0..(r.n - 1) /\ r.num \in 0..r.n
      /\ r.blocks \in [0..(r.n - 1) -> Blocks]
  BY <1>1, InfoChunkFields
<1>4. [i EXCEPT ![Len(i)].num = @ + 1, ![Len(i)].blocks[FreeSlot(i[Len(i)])] = b]
      = [i EXCEPT ![k] = x]
  <2>1. [i EXCEPT ![k].num = @ + 1, ![k].blocks[slot] = b]
        = [[i EXCEPT ![k].num = @ + 1] EXCEPT ![k].blocks[slot] = b]
    OBVIOUS
  <2> QED BY <2>1, <1>1, <1>3
<1> HIDE DEF slot, r, k
<1>5. w \in [0..(r.n - 1) -> Blocks] /\ v \in 0..r.n
  BY <1>1, <1>2, <1>3 DEF r, k
<1> HIDE DEF v, w
<1>6. r \in InfoRecord /\ w \in BlockTables /\ v \in Nat
  BY <1>1, <1>3, <1>5, SMTT(30) DEF InfoChunk, BlockTables
<1>7. x \in InfoChunk /\ x.n = r.n /\ x.first = r.first /\ x.num = v /\ x.blocks = w
  <2>1. x \in InfoRecord    BY <1>6 DEF InfoRecord
  <2>2. x.n = r.n           BY <1>6 DEF InfoRecord
  <2>3. x.first = r.first   BY <1>6 DEF InfoRecord
  <2>4. x.num = v           BY <1>6 DEF InfoRecord
  <2>5. x.blocks = w        BY <1>6 DEF InfoRecord
  <2> HIDE DEF x
  <2>6. x \in InfoChunk
    BY <1>3, <1>5, <2>1, <2>2, <2>3, <2>4, <2>5 DEF InfoChunk
  <2> QED BY <2>2, <2>3, <2>4, <2>5, <2>6
<1> HIDE DEF x
<1>8. j \in Seq(InfoChunk) /\ DOMAIN j = DOMAIN i /\ j[k] = x /\ \A l \in DOMAIN i : l # k => j[l] = i[l]
  BY <1>1, <1>7, ExceptSeq
<1> HIDE DEF j
<1>9. \A s \in 0..(r.n - 1) : w[s] = IF s = slot THEN b ELSE r.blocks[s]
  BY <1>2, <1>3 DEF w
<1>10. Holding(i, slot, b, j)
  BY <1>1, <1>2, <1>7, <1>8, <1>9 DEF Holding, k, r, v
<1> QED BY <1>4, <1>10 DEF j, k, slot, r

(* Allocate counts its block in the last memory chunk.                     *)
LEMMA ReachingOne ==
  ASSUME NEW m \in Seq(MemChunk), m # <<>>, NEW size \in Nat \ {0}, NEW at \in Nat,
         at + size <= m[Len(m)].cap,
         m[Len(m)].used <= From(m[Len(m)].first, m[Len(m)].cap, at),
         From(m[Len(m)].first, m[Len(m)].cap, at) + size <= m[Len(m)].cap
  PROVE  Reaching(m, at, size, [m EXCEPT ![Len(m)] = Extended(@, at, size)])
<1> DEFINE c == Len(m)
           x == Extended(m[c], at, size)
           l == [m EXCEPT ![c] = x]
<1>1. c \in DOMAIN m /\ m[c] \in MemChunk
  BY LenProperties, ElementOfSeq
<1>2. /\ x \in MemChunk /\ x.cap = m[c].cap /\ x.first = m[c].first
      /\ x.used = From(m[c].first, m[c].cap, at) + size /\ x.num = m[c].num + 1
  BY <1>1, ExtendedIsAChunk
<1> HIDE DEF x
<1>3. l \in Seq(MemChunk) /\ DOMAIN l = DOMAIN m /\ l[c] = x /\ \A d \in DOMAIN m : d # c => l[d] = m[d]
  BY <1>1, <1>2, ExceptSeq
<1>4. Reaching(m, at, size, l)
  BY <1>1, <1>2, <1>3 DEF Reaching
<1> QED BY <1>4 DEF x

(* The places in use after a block was added.                              *)
LEMMA HoldingSlots ==
  ASSUME NEW i, NEW j, NEW slot, NEW b, b # NoBlock, Filled(i), i \in Seq(InfoChunk), Holding(i, slot, b, j)
  PROVE  LET p0 == <<Len(i), slot>>
         IN  /\ p0 \notin Slots(i)
             /\ Slots(j) = Slots(i) \cup {p0}
             /\ At(j, p0) = b
             /\ \A p \in Slots(i) : At(j, p) = At(i, p)
             /\ \A p \in Slots(i) : Precedes(j, p, p0) /\ ~Precedes(j, p0, p)
             /\ ~Precedes(j, p0, p0)
             /\ \A p, q \in Slots(i) : Precedes(j, p, q) => Precedes(i, p, q)
             /\ Filled(j)
<1> DEFINE k == Len(i)
           p0 == <<k, slot>>
<1>1. /\ j \in Seq(InfoChunk) /\ DOMAIN j = DOMAIN i /\ k \in DOMAIN i /\ DOMAIN i = 1..k /\ k \in Nat
      /\ \A l \in DOMAIN i : j[l].n = i[l].n /\ j[l].first = i[l].first
      /\ \A l \in DOMAIN i : l # k => j[l] = i[l]
      /\ j[k].num = i[k].num + 1
      /\ slot \in 0..(i[k].n - 1)
      /\ \A s \in 0..(i[k].n - 1) : j[k].blocks[s] = IF s = slot THEN b ELSE i[k].blocks[s]
      /\ From(i[k].first, i[k].n, slot) = i[k].num
  BY LenProperties DEF Holding
<1>2. \A l \in DOMAIN i : /\ i[l].n \in Nat \ {0} /\ i[l].first \in 0..(i[l].n - 1) /\ i[l].num \in 0..i[l].n
  BY ElementOfSeq, InfoChunkFields
<1>3. p0 \notin Slots(i)
  BY <1>1, <1>2 DEF Slots, Filled
<1>4. At(j, p0) = b
  BY <1>1 DEF At
<1>5. Slots(j) = Slots(i) \cup {p0}
  <2>1. ASSUME NEW p \in (DOMAIN i) \X Nat PROVE p \in Slots(j) <=> p \in Slots(i) \cup {p0}
    <3> p = <<p[1], p[2]>> /\ p[1] \in DOMAIN i /\ p[2] \in Nat
      BY <2>1
    <3>1. CASE p[1] # k
      BY <3>1, <1>1 DEF Slots
    <3>2. CASE p[1] = k
      <4>1. p[2] < i[k].n => p[2] \in 0..(i[k].n - 1)
        BY <1>1, <1>2
      <4> QED BY <3>2, <4>1, <1>1, <1>2 DEF Slots
    <3> QED BY <3>1, <3>2
  <2>2. Slots(j) \subseteq (DOMAIN i) \X Nat /\ Slots(i) \cup {p0} \subseteq (DOMAIN i) \X Nat
    BY <1>1, <1>2 DEF Slots
  <2> HIDE DEF p0
  <2> QED BY <2>1, <2>2
<1>6. ASSUME NEW p \in Slots(i)
      PROVE  /\ p[1] \in DOMAIN i /\ p[2] \in 0..(i[p[1]].n - 1) /\ p = <<p[1], p[2]>> /\ p # p0
             /\ At(j, p) = At(i, p) /\ Age(j, p) = Age(i, p)
             /\ Age(i, p) \in Nat /\ Age(i, p) < i[p[1]].num
  <2>1. p[1] \in DOMAIN i /\ p[2] \in 0..(i[p[1]].n - 1) /\ p = <<p[1], p[2]>> /\ p # p0
    BY <1>2, <1>3 DEF Slots
  <2>2. Age(j, p) = Age(i, p)
    BY <2>1, <1>1 DEF Age
  <2>3. At(j, p) = At(i, p)
    BY <2>1, <1>1 DEF At
  <2>4. Age(i, p) \in Nat /\ Age(i, p) < i[p[1]].num
    <3>1. i[p[1]].blocks[p[2]] # NoBlock
      BY DEF Slots
    <3>2. From(i[p[1]].first, i[p[1]].n, p[2]) < i[p[1]].num
      BY <2>1, <3>1 DEF Filled
    <3> QED BY <2>1, <3>2, <1>2, SMTT(30) DEF Age, From
  <2> QED BY <2>1, <2>2, <2>3, <2>4
<1>7. Age(j, p0) = i[k].num
  BY <1>1 DEF Age
<1>8. \A p \in Slots(i) : Precedes(j, p, p0) /\ ~Precedes(j, p0, p)
  <2> TAKE p \in Slots(i)
  <2> p0[1] = k /\ p[1] \in 1..k
    BY <1>6, <1>1
  <2> HIDE DEF p0
  <2> QED BY <1>1, <1>2, <1>6, <1>7 DEF Precedes
<1>9. ~Precedes(j, p0, p0)
  BY <1>1, <1>2, <1>7 DEF Precedes
<1>10. \A p, q \in Slots(i) : Precedes(j, p, q) => Precedes(i, p, q)
  BY <1>6 DEF Precedes
<1>11. Filled(j)
  <2> SUFFICES ASSUME NEW l \in DOMAIN i, NEW s \in 0..(i[l].n - 1)
               PROVE  j[l].blocks[s] # NoBlock <=> From(j[l].first, j[l].n, s) < j[l].num
    BY <1>1 DEF Filled
  <2>1. i[l].blocks[s] # NoBlock <=> From(i[l].first, i[l].n, s) < i[l].num
    BY DEF Filled
  <2>2. CASE l # k
    BY <2>1, <2>2, <1>1
  <2>3. CASE l = k /\ s = slot
    BY <2>3, <1>1, <1>2
  <2>4. CASE l = k /\ s # slot
    <3>1. From(i[l].first, i[l].n, s) # From(i[l].first, i[l].n, slot)
      BY <2>4, <1>1, <1>2 DEF From
    <3>2. j[l].blocks[s] = i[l].blocks[s] /\ j[l].n = i[l].n /\ j[l].first = i[l].first
      BY <2>4, <1>1
    <3>3. From(i[l].first, i[l].n, s) \in Int
      BY <1>2 DEF From
    <3>4. From(i[l].first, i[l].n, slot) = i[l].num /\ j[l].num = i[l].num + 1 /\ i[l].num \in Nat
      BY <2>4, <1>1, <1>2
    <3>5. From(i[l].first, i[l].n, s) < i[l].num <=> From(i[l].first, i[l].n, s) < j[l].num
      BY <3>1, <3>3, <3>4
    <3> QED BY <2>1, <3>2, <3>5
  <2> QED BY <2>2, <2>3, <2>4
<1> QED BY <1>3, <1>4, <1>5, <1>6, <1>8, <1>9, <1>10, <1>11

(* The parts of soundness, so that lemmas can leave it folded.             *)
LEMMA SoundParts ==
  ASSUME NEW m, NEW i, NEW hs
  PROVE  Sound(m, i, hs) <=>
           /\ Rings(m, i) /\ hs \subseteq Handle
           /\ Filled(i) /\ Placed(m, i) /\ Ordered(m, i) /\ Counted(m, i) /\ Claimed(i, hs)
  BY DEF Sound

(* What an active block of sound rings is.                                 *)
LEMMA SlotFacts ==
  ASSUME NEW m, NEW i, Rings(m, i), NEW p \in Slots(i)
  PROVE  /\ p[1] \in DOMAIN i /\ p[1] \in Nat /\ p[2] \in 0..(i[p[1]].n - 1) /\ p = <<p[1], p[2]>>
         /\ i[p[1]] \in InfoChunk
         /\ At(i, p) \in Blocks /\ At(i, p) # NoBlock
<1>1. p \in (DOMAIN i) \X Nat /\ p[2] < i[p[1]].n /\ At(i, p) # NoBlock
  BY DEF Slots, At
<1>2. i \in Seq(InfoChunk)
  BY DEF Rings
<1>3. p[1] \in DOMAIN i /\ p[2] \in Nat /\ p = <<p[1], p[2]>>
  BY <1>1
<1>4. p[1] \in Nat /\ i[p[1]] \in InfoChunk
  BY <1>2, <1>3, ElementOfSeq, LenProperties
<1>5. i[p[1]].blocks \in [0..(i[p[1]].n - 1) -> Blocks] /\ i[p[1]].n \in Nat
  BY <1>4, InfoChunkFields
<1> QED BY <1>1, <1>3, <1>4, <1>5 DEF At

(* What is known of a block that lies in its chunk.                        *)
LEMMA LiesFacts ==
  ASSUME NEW m \in Seq(MemChunk), NEW b \in Blocks, Lies(m, b)
  PROVE  /\ b.chunk \in DOMAIN m /\ b.chunk \in Nat /\ m[b.chunk] \in MemChunk /\ b.size \in Nat \ {0}
         /\ b.offset \in Nat /\ Start(m, b) \in Nat
         /\ Start(m, b) = From(m[b.chunk].first, m[b.chunk].cap, b.offset)
         /\ b.offset + b.size <= m[b.chunk].cap
         /\ Start(m, b) + b.size <= m[b.chunk].used
<1>1. b.chunk \in DOMAIN m /\ b.size \in Nat /\ b.chunk \in Nat /\ b.offset \in Nat
  BY DEF Lies, Blocks
<1>2. m[b.chunk] \in MemChunk
  BY <1>1, ElementOfSeq, LenProperties
<1>3. /\ m[b.chunk].cap \in Nat \ {0} /\ m[b.chunk].first \in 0..(m[b.chunk].cap - 1)
  BY <1>2, MemChunkFields
<1>4. Start(m, b) = From(m[b.chunk].first, m[b.chunk].cap, b.offset)
  BY DEF Start
<1>5. Start(m, b) \in Nat
  <2>1. b.offset < m[b.chunk].first => b.offset - m[b.chunk].first + m[b.chunk].cap \in Nat
    BY <1>1, <1>3
  <2> QED BY <1>1, <1>3, <1>4, <2>1 DEF From
<1>6. /\ b.size > 0 /\ b.offset + b.size <= m[b.chunk].cap
      /\ Start(m, b) + b.size <= m[b.chunk].used
  BY DEF Lies
<1> QED BY <1>1, <1>2, <1>4, <1>5, <1>6

(* The block Allocate adds lies in the chunk, behind those that were       *)
(* there, and those stay where they are.                                   *)
LEMMA ReachingBlocks ==
  ASSUME NEW m \in Seq(MemChunk), NEW size \in Nat \ {0}, NEW at \in Nat, NEW l,
         Reaching(m, at, size, l), NEW live \in BOOLEAN
  PROVE  LET b == [live |-> live, chunk |-> Len(m), offset |-> at, size |-> size]
         IN  /\ b \in Blocks /\ b # NoBlock /\ Lies(l, b)
             /\ \A a \in Blocks : Lies(m, a) => Lies(l, a) /\ Start(l, a) = Start(m, a) /\ Behind(l, a, b)
<1> DEFINE c == Len(m)
           b == [live |-> live, chunk |-> c, offset |-> at, size |-> size]
<1>1. /\ l \in Seq(MemChunk) /\ DOMAIN l = DOMAIN m /\ c \in DOMAIN m /\ c \in Nat /\ DOMAIN m = 1..c
      /\ \A d \in DOMAIN m : l[d].cap = m[d].cap /\ l[d].first = m[d].first
      /\ \A d \in DOMAIN m : d # c => l[d] = m[d]
      /\ l[c].used = From(m[c].first, m[c].cap, at) + size
      /\ m[c].used <= From(m[c].first, m[c].cap, at)
      /\ at + size <= m[c].cap
  BY LenProperties DEF Reaching
<1>2. /\ m[c].cap \in Nat \ {0} /\ m[c].first \in 0..(m[c].cap - 1) /\ m[c].used \in 0..m[c].cap
  BY <1>1, ElementOfSeq, MemChunkFields
<1>3. b \in Blocks /\ b # NoBlock /\ b.chunk = c /\ b.offset = at /\ b.size = size
  BY <1>1 DEF Blocks, NoBlock
<1> HIDE DEF b
<1>4. Start(l, b) = From(m[c].first, m[c].cap, at)
  BY <1>1, <1>3 DEF Start
<1>5. Lies(l, b)
  BY <1>1, <1>2, <1>3, <1>4, SMTT(30) DEF Lies, From
<1>6. ASSUME NEW a \in Blocks, Lies(m, a)
      PROVE  Lies(l, a) /\ Start(l, a) = Start(m, a) /\ Behind(l, a, b)
  <2>1. /\ a.chunk \in 1..c /\ a.size \in Nat \ {0} /\ a.offset \in Nat /\ Start(m, a) \in Nat
        /\ a.offset + a.size <= m[a.chunk].cap
        /\ Start(m, a) + a.size <= m[a.chunk].used
    BY <1>1, <1>6, LiesFacts
  <2>2. Start(l, a) = Start(m, a)
    BY <1>1, <2>1 DEF Start
  <2>3. Lies(l, a)
    <3>1. m[a.chunk].used <= l[a.chunk].used
      <4>1. CASE a.chunk = c
        BY <4>1, <1>1, <1>2 DEF From
      <4>2. CASE a.chunk # c
        <5>1. m[a.chunk].used \in Nat
          BY <1>1, <2>1, ElementOfSeq, MemChunkFields
        <5> QED BY <4>2, <5>1, <1>1, <2>1
      <4> QED BY <4>1, <4>2
    <3>2. m[a.chunk].used \in Nat /\ l[a.chunk].used \in Nat
      BY <1>1, <2>1, ElementOfSeq, MemChunkFields
    <3>3. a.chunk \in DOMAIN l /\ l[a.chunk].cap = m[a.chunk].cap
      BY <1>1, <2>1
    <3>4. Start(l, a) + a.size <= l[a.chunk].used
      BY <2>1, <2>2, <3>1, <3>2, SMTT(30)
    <3> QED BY <2>1, <3>3, <3>4 DEF Lies
  <2>4. Behind(l, a, b)
    <3>1. a.chunk <= b.chunk
      BY <1>1, <1>3, <2>1
    <3>2. ASSUME a.chunk = b.chunk
          PROVE  Start(l, a) + a.size <= Start(l, b)
      <4>1. Start(m, a) + a.size <= m[c].used
        BY <2>1, <3>2, <1>3
      <4>2. From(m[c].first, m[c].cap, at) \in Int
        BY <1>2 DEF From
      <4> QED BY <4>1, <4>2, <1>1, <1>2, <1>4, <2>1, <2>2
    <3> QED BY <3>1, <3>2 DEF Behind
  <2> QED BY <2>2, <2>3, <2>4
<1> QED BY <1>3, <1>5, <1>6 DEF b

(* A further block, with its handle, leaves the rings sound.               *)
LEMMA AddBlock ==
  ASSUME NEW m, NEW i, NEW hs, Sound(m, i, hs),
         NEW size \in Nat \ {0}, NEW at \in Nat, NEW l, Reaching(m, at, size, l),
         NEW slot, NEW j, Holding(i, slot, Block(Len(m), at, size), j)
  PROVE  Sound(l, j, hs \cup {[info |-> Len(i), index |-> slot, chunk |-> Len(m),
                               offset |-> at, size |-> size]})
<1> DEFINE c == Len(m)
           k == Len(i)
           b == Block(c, at, size)
           h == [info |-> k, index |-> slot, chunk |-> c, offset |-> at, size |-> size]
           p0 == <<k, slot>>
<1>1. /\ Rings(m, i) /\ hs \subseteq Handle
      /\ Filled(i) /\ Placed(m, i) /\ Ordered(m, i) /\ Counted(m, i) /\ Claimed(i, hs)
  BY SoundParts
<1>2. m \in Seq(MemChunk) /\ i \in Seq(InfoChunk)
  BY <1>1 DEF Rings
<1>3. /\ b \in Blocks /\ b # NoBlock /\ Lies(l, b)
      /\ \A a \in Blocks : Lies(m, a) => Lies(l, a) /\ Start(l, a) = Start(m, a) /\ Behind(l, a, b)
  <2> DEFINE b2 == [live |-> TRUE, chunk |-> Len(m), offset |-> at, size |-> size]
  <2>1. /\ b2 \in Blocks /\ b2 # NoBlock /\ Lies(l, b2)
        /\ \A a \in Blocks : Lies(m, a) => Lies(l, a) /\ Start(l, a) = Start(m, a) /\ Behind(l, a, b2)
    BY <1>2, ReachingBlocks
  <2> QED BY <2>1 DEF Block
<1>4. /\ p0 \notin Slots(i)
      /\ Slots(j) = Slots(i) \cup {p0}
      /\ At(j, p0) = b
      /\ \A p \in Slots(i) : At(j, p) = At(i, p)
      /\ \A p \in Slots(i) : Precedes(j, p, p0) /\ ~Precedes(j, p0, p)
      /\ ~Precedes(j, p0, p0)
      /\ \A p, q \in Slots(i) : Precedes(j, p, q) => Precedes(i, p, q)
      /\ Filled(j)
  BY <1>1, <1>2, <1>3, HoldingSlots
<1>5. Rings(l, j)
  BY DEF Rings, Reaching, Holding
<1>6. DOMAIN l = DOMAIN m /\ c \in DOMAIN m /\ DOMAIN j = DOMAIN i /\ k \in DOMAIN i
  BY DEF Reaching, Holding
<1>7. b.chunk = c /\ b.offset = at /\ b.size = size
  BY DEF Block
<1>8. \A p \in Slots(i) : At(i, p) \in Blocks /\ Lies(m, At(i, p))
  BY <1>1, SlotFacts DEF Placed
<1>9. c \in Nat /\ k \in Nat
  BY <1>2, LenProperties
<1> HIDE DEF p0, b
<1>10. Placed(l, j)
  BY <1>3, <1>4, <1>8 DEF Placed
<1>11. Ordered(l, j)
  <2> SUFFICES ASSUME NEW p \in Slots(j), NEW q \in Slots(j), Precedes(j, p, q)
               PROVE  Behind(l, At(j, p), At(j, q))
    BY DEF Ordered
  <2>1. CASE p \in Slots(i) /\ q \in Slots(i)
    <3>1. Behind(m, At(i, p), At(i, q))
      BY <2>1, <1>1, <1>4 DEF Ordered
    <3>2. Start(l, At(i, p)) = Start(m, At(i, p)) /\ Start(l, At(i, q)) = Start(m, At(i, q))
      BY <2>1, <1>3, <1>8
    <3> QED BY <2>1, <3>1, <3>2, <1>4 DEF Behind
  <2>2. CASE p \in Slots(i) /\ q = p0
    BY <2>2, <1>3, <1>4, <1>8
  <2>3. CASE p = p0
    BY <2>3, <1>4
  <2> QED BY <2>1, <2>2, <2>3, <1>4
<1>12. Counted(l, j)
  <2> SUFFICES ASSUME NEW d \in DOMAIN m PROVE Counts(j, d, l[d].num)
    BY <1>6 DEF Counted
  <2>1. Counts(i, d, m[d].num)
    BY <1>1 DEF Counted
  <2>2. CASE d = c
    <3>1. InChunk(j, d) = InChunk(i, d) \cup {p0} /\ p0 \notin InChunk(i, d)
      BY <2>2, <1>4, <1>7 DEF InChunk
    <3>2. Cardinality(InChunk(j, d)) = Cardinality(InChunk(i, d)) + 1 /\ IsFiniteSet(InChunk(j, d))
      BY <2>1, <3>1, FS_AddElement DEF Counts
    <3> QED BY <2>1, <2>2, <3>2 DEF Counts, Reaching
  <2>3. CASE d # c
    <3>1. InChunk(j, d) = InChunk(i, d)
      BY <2>3, <1>4, <1>7 DEF InChunk
    <3>2. l[d] = m[d]
      BY <2>3 DEF Reaching
    <3> QED BY <2>1, <3>1, <3>2 DEF Counts
  <2> QED BY <2>2, <2>3
<1>13. h \in Handle /\ h.info = k /\ h.index = slot /\ h.chunk = c /\ h.offset = at /\ h.size = size
  <2>1. slot \in Nat
    <3>1. slot \in 0..(i[k].n - 1)
      BY DEF Holding
    <3>2. i[k].n \in Nat
      BY <1>2, <1>6, <1>9, ElementOfSeq, InfoChunkFields, LenProperties
    <3> QED BY <3>1, <3>2
  <2> QED BY <2>1, <1>9 DEF Handle
<1> HIDE DEF h
<1>14. Claimed(j, hs \cup {h})
  <2>1. ASSUME NEW x \in hs PROVE Names(j, x)
    <3>1. Names(i, x) /\ x \in Handle
      BY <1>1 DEF Claimed
    <3>2. /\ x.info \in DOMAIN i /\ x.index \in Nat /\ x.index < i[x.info].n
          /\ At(i, <<x.info, x.index>>) = Block(x.chunk, x.offset, x.size)
      BY <3>1 DEF Names, Handle, At
    <3>3. <<x.info, x.index>> \in Slots(i)
      BY <3>2 DEF Slots, At, Block, NoBlock
    <3>4. At(j, <<x.info, x.index>>) = Block(x.chunk, x.offset, x.size)
      BY <3>2, <3>3, <1>4
    <3>5. x.index < j[x.info].n
      BY <3>2, <1>6 DEF Holding
    <3> QED BY <3>2, <3>4, <3>5, <1>6 DEF Names, At
  <2>2. Names(j, h)
    <3>1. At(j, p0) = Block(c, at, size)
      BY <1>4 DEF b
    <3>2. slot \in 0..(i[k].n - 1) /\ j[k].n = i[k].n
      BY <1>6 DEF Holding
    <3>3. i[k].n \in Nat
      BY <1>2, <1>6, <1>9, ElementOfSeq, InfoChunkFields, LenProperties
    <3> QED BY <3>1, <3>2, <3>3, <1>6, <1>13 DEF Names, At, p0
  <2>3. ASSUME NEW p \in Slots(j), At(j, p).live
        PROVE  \E x \in hs \cup {h} : x.info = p[1] /\ x.index = p[2]
    <3>1. CASE p = p0
      BY <3>1, <1>13 DEF p0
    <3>2. CASE p \in Slots(i)
      BY <3>2, <2>3, <1>1, <1>4 DEF Claimed
    <3> QED BY <3>1, <3>2, <1>4
  <2> QED BY <2>1, <2>2, <2>3 DEF Claimed
<1>15. hs \cup {h} \subseteq Handle
  BY <1>1, <1>13
<1>16. Sound(l, j, hs \cup {h})
  BY <1>4, <1>5, <1>10, <1>11, <1>12, <1>14, <1>15, SoundParts
<1> QED BY <1>16 DEF h

(* A further chunk of memory changes nothing of what is held.              *)
LEMMA AddChunk ==
  ASSUME NEW m, NEW i, NEW hs, Sound(m, i, hs), NEW cap \in Nat \ {0}
  PROVE  Sound(Append(m, NewChunk(cap)), i, hs)
<1> DEFINE x == NewChunk(cap)
           l == Append(m, x)
           c == Len(m)
<1>1. /\ Rings(m, i) /\ hs \subseteq Handle
      /\ Filled(i) /\ Placed(m, i) /\ Ordered(m, i) /\ Counted(m, i) /\ Claimed(i, hs)
  BY SoundParts
<1>2. m \in Seq(MemChunk) /\ i \in Seq(InfoChunk)
  BY <1>1 DEF Rings
<1>3. x \in MemChunk /\ x.num = 0
  BY DEF NewChunk, MemChunk, MemRecord
<1> HIDE DEF x
<1>4. /\ l \in Seq(MemChunk) /\ DOMAIN l = 1..(c + 1) /\ DOMAIN m = 1..c /\ c \in Nat
      /\ \A d \in DOMAIN m : l[d] = m[d]
      /\ l[c + 1] = x
  BY <1>2, <1>3, AppendProperties, LenProperties
<1> HIDE DEF l, c
<1>5. \A p \in Slots(i) : At(i, p) \in Blocks /\ Lies(m, At(i, p)) /\ At(i, p).chunk \in DOMAIN m
  BY <1>1, SlotFacts DEF Placed, Lies
<1>6. \A a : a.chunk \in DOMAIN m => Start(l, a) = Start(m, a)
  BY <1>4 DEF Start
<1>7. Placed(l, i)
  <2> SUFFICES ASSUME NEW p \in Slots(i) PROVE Lies(l, At(i, p))
    BY DEF Placed
  <2> QED BY <1>4, <1>5, <1>6 DEF Lies
<1>8. Ordered(l, i)
  BY <1>1, <1>5, <1>6 DEF Ordered, Behind
<1>9. Counted(l, i)
  <2> SUFFICES ASSUME NEW d \in DOMAIN l PROVE Counts(i, d, l[d].num)
    BY DEF Counted
  <2>1. CASE d \in DOMAIN m
    BY <2>1, <1>1, <1>4 DEF Counted
  <2>2. CASE d = c + 1
    <3>1. InChunk(i, d) = {}
      BY <2>2, <1>4, <1>5 DEF InChunk
    <3> QED BY <2>2, <3>1, <1>3, <1>4, FS_EmptySet DEF Counts
  <2> QED BY <2>1, <2>2, <1>4
<1>10. Rings(l, i)
  BY <1>2, <1>4 DEF Rings
<1>11. Sound(l, i, hs)
  BY <1>1, <1>7, <1>8, <1>9, <1>10, SoundParts
<1> QED BY <1>11 DEF l, x

(* The info chunk Allocate adds is one, with no active block.              *)
LEMMA NewInfoIsAChunk ==
  ASSUME NEW n \in Nat \ {0}
  PROVE  /\ NewInfoChunk(n) \in InfoChunk /\ NewInfoChunk(n).num = 0 /\ NewInfoChunk(n).n = n
         /\ NewInfoChunk(n).first = 0
         /\ \A s \in 0..(n - 1) : NewInfoChunk(n).blocks[s] = NoBlock
<1> DEFINE t == [i \in 0..(n - 1) |-> NoBlock]
<1>1. NoBlock \in Blocks
  BY DEF NoBlock, Blocks
<1>2. t \in [0..(n - 1) -> Blocks] /\ t \in BlockTables
  <2>1. t \in [0..(n - 1) -> Blocks]
    BY <1>1
  <2> QED BY <2>1 DEF BlockTables
<1>3. \A s \in 0..(n - 1) : t[s] = NoBlock
  OBVIOUS
<1>4. NewInfoChunk(n) = [n |-> n, first |-> 0, num |-> 0, blocks |-> t]
  BY DEF NewInfoChunk
<1> HIDE DEF t
<1>5. [n |-> n, first |-> 0, num |-> 0, blocks |-> t] \in InfoChunk
  BY <1>2 DEF InfoChunk, InfoRecord
<1> QED BY <1>3, <1>4, <1>5

(* A further info chunk changes nothing of what is held.                   *)
LEMMA AddInfo ==
  ASSUME NEW m, NEW i, NEW hs, Sound(m, i, hs), NEW n \in Nat \ {0}
  PROVE  Sound(m, Append(i, NewInfoChunk(n)), hs)
<1> DEFINE x == NewInfoChunk(n)
           j == Append(i, x)
           k == Len(i)
<1>1. /\ Rings(m, i) /\ hs \subseteq Handle
      /\ Filled(i) /\ Placed(m, i) /\ Ordered(m, i) /\ Counted(m, i) /\ Claimed(i, hs)
  BY SoundParts
<1>2. m \in Seq(MemChunk) /\ i \in Seq(InfoChunk)
  BY <1>1 DEF Rings
<1>3. x \in InfoChunk /\ x.num = 0 /\ x.n = n /\ x.first = 0 /\ \A s \in 0..(n - 1) : x.blocks[s] = NoBlock
  BY NewInfoIsAChunk
<1> HIDE DEF x
<1>4. /\ j \in Seq(InfoChunk) /\ DOMAIN j = 1..(k + 1) /\ DOMAIN i = 1..k /\ k \in Nat
      /\ \A l \in DOMAIN i : j[l] = i[l]
      /\ j[k + 1] = x
  BY <1>2, <1>3, AppendProperties, LenProperties
<1> HIDE DEF j, k
<1>5. Slots(j) = Slots(i)
  <2>1. \A p \in (1..(k + 1)) \X Nat : p \in Slots(j) <=> p \in Slots(i)
    <3> TAKE p \in (1..(k + 1)) \X Nat
    <3>1. CASE p[1] \in 1..k
      BY <3>1, <1>4 DEF Slots
    <3>2. CASE p[1] = k + 1
      <4>1. p \notin Slots(i)
        BY <3>2, <1>4 DEF Slots
      <4>2. p \notin Slots(j)
        BY <3>2, <1>3, <1>4 DEF Slots
      <4> QED BY <4>1, <4>2
    <3> QED BY <3>1, <3>2, <1>4
  <2>2. Slots(j) \subseteq (1..(k + 1)) \X Nat /\ Slots(i) \subseteq (1..(k + 1)) \X Nat
    BY <1>4 DEF Slots
  <2> QED BY <2>1, <2>2
<1>6. \A p \in Slots(i) : At(j, p) = At(i, p) /\ Age(j, p) = Age(i, p)
  BY <1>1, <1>4, SlotFacts DEF At, Age
<1>7. Filled(j)
  <2> SUFFICES ASSUME NEW l \in 1..(k + 1), NEW s \in 0..(j[l].n - 1)
               PROVE  j[l].blocks[s] # NoBlock <=> From(j[l].first, j[l].n, s) < j[l].num
    BY <1>4 DEF Filled
  <2>1. CASE l \in DOMAIN i
    BY <2>1, <1>1, <1>4 DEF Filled
  <2>2. CASE l = k + 1
    BY <2>2, <1>3, <1>4 DEF From
  <2> QED BY <2>1, <2>2, <1>4
<1>8. Placed(m, j)
  BY <1>1, <1>5, <1>6 DEF Placed
<1>9. Ordered(m, j)
  BY <1>1, <1>5, <1>6 DEF Ordered, Precedes
<1>10. Counted(m, j)
  <2>1. \A c : InChunk(j, c) = InChunk(i, c)
    BY <1>5, <1>6 DEF InChunk
  <2> QED BY <2>1, <1>1 DEF Counted, Counts
<1>11. Claimed(j, hs)
  <2>1. \A h \in hs : Names(j, h)
    BY <1>1, <1>4 DEF Claimed, Names
  <2> QED BY <2>1, <1>1, <1>5, <1>6 DEF Claimed
<1>12. Rings(m, j)
  BY <1>2, <1>4 DEF Rings
<1>13. Sound(m, j, hs)
  BY <1>1, <1>7, <1>8, <1>9, <1>10, <1>11, <1>12, SoundParts
<1> QED BY <1>13 DEF j, x

(* Every set of numbers that is not empty has a least one.                 *)
NumbersBelow == OpToRel(<, Nat)

LEMMA LeastNumber ==
  ASSUME NEW S \in SUBSET Nat, S # {}
  PROVE  Min(S) \in S /\ \A k \in S : Min(S) <= k
<1>1. IsWellFoundedOn(NumbersBelow, Nat)
  BY NatLessThanWellFounded DEF NumbersBelow
<1>2. PICK x \in S : \A y \in S : ~(<<y, x>> \in NumbersBelow)
  BY <1>1, WFMin
<1>3. ASSUME NEW y \in S PROVE x <= y
  <2>1. SUFFICES ASSUME y < x PROVE FALSE
    OBVIOUS
  <2>2. <<y, x>> \in NumbersBelow
    BY <2>1 DEF NumbersBelow, OpToRel
  <2> QED BY <1>2, <2>2
<1> QED BY <1>2, <1>3 DEF Min

(* Division with rest.                                                     *)
LEMMA Quotient ==
  ASSUME NEW a \in Nat, NEW d \in Nat \ {0}
  PROVE  a \div d \in Nat /\ a = d * (a \div d) + (a % d) /\ a % d \in 0..(d - 1)
  OBVIOUS

(* Multiples leave no rest.                                                *)
LEMMA MultipleHasNoRest ==
  ASSUME NEW q \in Nat, NEW d \in Nat \ {0} PROVE (d * q) % d = 0
  OBVIOUS

(* An odd number that divides the double of a number divides the number.   *)
LEMMA OddDivisor ==
  ASSUME NEW p \in Nat \ {0}, NEW d \in Nat \ {0}, (2 * p) % d = 0, d % 2 = 1
  PROVE  p % d = 0 /\ d <= p
<1> DEFINE q == (2 * p) \div d
           e == d \div 2
           r == q \div 2
<1>1. q \in Nat /\ 2 * p = d * q
  <2> DEFINE a == 2 * p
  <2>1. a \in Nat /\ a % d = 0
    OBVIOUS
  <2> HIDE DEF a
  <2>2. a \div d \in Nat /\ a = d * (a \div d) + (a % d)
    BY <2>1, Quotient
  <2>3. d * (a \div d) \in Nat
    BY <2>2
  <2>4. a = d * (a \div d)
    BY <2>1, <2>2, <2>3
  <2> QED BY <2>2, <2>4 DEF a
<1>2. e \in Nat /\ d = 2 * e + 1
  OBVIOUS
<1>3. r \in Nat /\ (q = 2 * r \/ q = 2 * r + 1)
  BY <1>1
<1> HIDE DEF q, e, r
<1>4. q = 2 * r
  <2> SUFFICES ASSUME q = 2 * r + 1 PROVE FALSE
    BY <1>3
  <2> DEFINE f == e * r
  <2>1. f \in Nat
    BY <1>2, <1>3
  <2>2. d * q = 2 * (2 * f + e + r) + 1
    BY <1>2, <1>3
  <2> HIDE DEF f
  <2>3. 2 * p = 2 * (2 * f + e + r) + 1
    BY <1>1, <2>2
  <2> QED BY <1>2, <1>3, <2>1, <2>3
<1>5. p = d * r
  <2> DEFINE g == d * r
  <2>1. g \in Nat /\ d * q = 2 * g
    BY <1>3, <1>4
  <2> HIDE DEF g
  <2>2. p = g
    BY <1>1, <2>1
  <2> QED BY <2>2 DEF g
<1>6. r # 0
  BY <1>5
<1>7. d <= d * r
  BY <1>3, <1>6
<1> QED BY <1>3, <1>5, <1>7, MultipleHasNoRest

(* The powers of two, as PowersOfTwo says it: no odd number but 1 divides  *)
(* them.                                                                   *)
IsPower(p) == \A d \in 2..p : p % d = 0 => d % 2 = 0

(* The double of a power of two is one.                                    *)
LEMMA PowerDoubles ==
  ASSUME NEW p \in Nat \ {0}, IsPower(p) PROVE IsPower(2 * p)
<1> SUFFICES ASSUME NEW d \in 2..(2 * p), (2 * p) % d = 0, d % 2 # 0
             PROVE  FALSE
  BY DEF IsPower
<1>1. d \in Nat \ {0} /\ d % 2 = 1
  OBVIOUS
<1>2. p % d = 0 /\ d <= p
  BY <1>1, OddDivisor
<1> QED BY <1>2 DEF IsPower

(* Between a number and its double there is a power of two.                *)
LEMMA PowerInBetween ==
  ASSUME NEW n \in Nat \ {0}
  PROVE  \E p \in n..(2 * n) : IsPower(p)
<1> DEFINE T == {a \in Nat \ {0} : ~\E p \in a..(2 * a) : IsPower(p)}
<1> SUFFICES T = {}
  OBVIOUS
<1> SUFFICES ASSUME T # {} PROVE FALSE
  OBVIOUS
<1> DEFINE a == Min(T)
<1>1. a \in T /\ \A b \in T : a <= b
  BY LeastNumber
<1>2. a \in Nat \ {0} /\ ~\E p \in a..(2 * a) : IsPower(p)
  BY <1>1
<1>3. \A b \in Nat \ {0} : b < a => \E p \in b..(2 * b) : IsPower(p)
  BY <1>1, <1>2
<1> HIDE DEF T, a
<1>4. IsPower(1)
  BY DEF IsPower
<1>5. a > 1
  BY <1>2, <1>4
<1> DEFINE b == (a + 1) \div 2
<1>6. b \in Nat \ {0} /\ b < a /\ a <= 2 * b /\ 2 * b <= a + 1
  BY <1>2, <1>5
<1> HIDE DEF b
<1>7. PICK p \in b..(2 * b) : IsPower(p)
  BY <1>3, <1>6
<1>8. CASE a <= p
  BY <1>2, <1>6, <1>7, <1>8
<1>9. CASE p < a
  <2>1. IsPower(2 * p) /\ 2 * p \in a..(2 * a)
    BY <1>2, <1>6, <1>7, <1>9, PowerDoubles
  <2> QED BY <1>2, <2>1
<1> QED BY <1>2, <1>6, <1>7, <1>8, <1>9

(* A block fits into the chunk that is added for it.                       *)
LEMMA CapacitySuffices ==
  ASSUME NEW size \in Nat \ {0}, mem \in Seq(MemChunk)
  PROVE  Capacity(size) \in Nat \ {0} /\ size <= Capacity(size)
<1> DEFINE least == IF mem = <<>> THEN MinimumSize ELSE Last(mem).cap
           fits == {p \in PowersOfTwo(2 * size) : size <= least * p}
<1>1. least \in Nat \ {0}
  <2>1. CASE mem = <<>>
    BY <2>1, RingBufferAssumption
  <2>2. CASE mem # <<>>
    <3>1. Len(mem) \in DOMAIN mem
      BY <2>2, LenProperties
    <3> QED BY <2>2, <3>1, ElementOfSeq, MemChunkFields DEF Last
  <2> QED BY <2>1, <2>2
<1> HIDE DEF least
<1>2. \E p \in fits : TRUE
  <2>1. PICK p \in size..(2 * size) : IsPower(p)
    BY PowerInBetween
  <2>2. p \in PowersOfTwo(2 * size)
    BY <2>1 DEF PowersOfTwo, IsPower
  <2>3. p <= least * p
    BY <1>1, <2>1
  <2>4. size <= least * p
    BY <1>1, <2>1, <2>3
  <2> QED BY <2>2, <2>4
<1>3. fits \in SUBSET Nat
  BY DEF PowersOfTwo
<1>4. Min(fits) \in fits
  BY <1>2, <1>3, LeastNumber
<1>5. Min(fits) \in Nat \ {0} /\ size <= least * Min(fits)
  BY <1>4 DEF PowersOfTwo
<1>6. Capacity(size) = least * Min(fits)
  BY DEF Capacity, least
<1> HIDE DEF fits
<1>7. least * Min(fits) \in Nat
  BY <1>1, <1>5
<1> QED BY <1>5, <1>6, <1>7

(* HeadIsLive, of the rings i.                                             *)
HeadLive(i) == i # <<>> /\ i[1].num > 0 => i[1].blocks[i[1].first].live

(* A live block added at the end of the rings leaves their head live, or   *)
(* is it.                                                                  *)
LEMMA HeadStaysLive ==
  ASSUME NEW i \in Seq(InfoChunk), HeadLive(i), NEW b, b.live, NEW slot, NEW j, Holding(i, slot, b, j)
  PROVE  HeadLive(j)
<1> DEFINE k == Len(i)
<1>1. /\ k \in DOMAIN i /\ DOMAIN i = 1..k /\ k \in Nat /\ i # <<>>
  BY LenProperties DEF Holding
<1>2. /\ i[1].n \in Nat \ {0} /\ i[1].first \in 0..(i[1].n - 1) /\ i[1].num \in 0..i[1].n
  BY <1>1, ElementOfSeq, InfoChunkFields
<1>3. CASE k # 1
  <2>1. j[1] = i[1]
    BY <1>1, <1>3 DEF Holding
  <2> QED BY <2>1, <1>1 DEF HeadLive
<1>4. CASE k = 1 /\ slot = i[1].first
  <2>1. j[1].first = i[1].first /\ j[1].blocks[slot] = b
    BY <1>1, <1>2, <1>4 DEF Holding
  <2> QED BY <2>1, <1>4 DEF HeadLive
<1>5. CASE k = 1 /\ slot # i[1].first
  <2>1. j[1].first = i[1].first /\ j[1].blocks[i[1].first] = i[1].blocks[i[1].first]
    BY <1>1, <1>2, <1>5 DEF Holding
  <2>2. From(i[1].first, i[1].n, slot) = i[1].num /\ slot \in 0..(i[1].n - 1)
    BY <1>1, <1>5 DEF Holding
  <2>3. i[1].num > 0
    BY <2>2, <1>2, <1>5 DEF From
  <2> QED BY <2>1, <2>3, <1>1 DEF HeadLive
<1> QED BY <1>3, <1>4, <1>5

(* A chunk that counts nothing is that of an empty buffer.                 *)
LEMMA EmptyChunkMeansNoHandle ==
  ASSUME NEW m, NEW i, NEW hs, Sound(m, i, hs), MemBusy(m), NEW c \in DOMAIN m, m[c].num = 0
  PROVE  hs = {} /\ Slots(i) = {} /\ Len(m) = 1 /\ c = 1 /\ m[c].first = 0 /\ m[c].used = 0
<1>1. /\ Rings(m, i) /\ hs \subseteq Handle
      /\ Filled(i) /\ Placed(m, i) /\ Ordered(m, i) /\ Counted(m, i) /\ Claimed(i, hs)
  BY SoundParts
<1>2. Len(m) = 1 /\ m[c].first = 0 /\ m[c].used = 0
  BY DEF MemBusy
<1>3. c = 1 /\ DOMAIN m = {1}
  BY <1>1, <1>2, LenProperties DEF Rings
<1>4. InChunk(i, c) = {}
  BY <1>1, FS_EmptySet DEF Counted, Counts
<1>5. Slots(i) = {}
  <2> SUFFICES ASSUME NEW p \in Slots(i) PROVE FALSE
    OBVIOUS
  <2>1. At(i, p).chunk = c
    BY <1>1, <1>3 DEF Placed, Lies
  <2> QED BY <2>1, <1>4 DEF InChunk
<1>6. hs = {}
  <2> SUFFICES ASSUME NEW h \in hs PROVE FALSE
    OBVIOUS
  <2>1. Names(i, h) /\ h \in Handle
    BY <1>1 DEF Claimed
  <2>2. <<h.info, h.index>> \in Slots(i)
    BY <2>1 DEF Names, Handle, Slots, Block, NoBlock
  <2> QED BY <2>2, <1>5
<1> QED BY <1>2, <1>3, <1>5, <1>6

(* A block fits into a chunk that is free, if it is not larger.            *)
LEMMA FreeChunkFits ==
  ASSUME NEW c \in MemChunk, c.first = 0, c.used = 0, NEW size \in Nat \ {0},
         NEW align \in Nat \ {0}, size <= c.cap
  PROVE  Places(c, size, align) # {}
<1>1. c.cap \in Nat \ {0}
  BY MemChunkFields
<1>2. Padding(0, align) = 0
  <2>1. 0 % align = 0
    BY ModIsSmall
  <2>2. align % align = 0
    BY ModWraps
  <2> QED BY <2>1, <2>2 DEF Padding
<1>3. Places(c, size, align) = {0}
  BY <1>1, <1>2 DEF Places
<1> QED BY <1>3

(* Allocate preserves the invariant, where an empty buffer is asked for no *)
(* more than its chunk holds.                                              *)
LEMMA AllocateKeepsInv ==
  ASSUME ~GrowsWhenEmpty, RBInv, NEW size \in Sizes, NEW align \in Alignments, Allocate(size, align)
  PROVE  RBInv'
<1> DEFINE places == IF mem = <<>> THEN {} ELSE Places(Last(mem), size, align)
           at     == IF places = {} THEN 0 ELSE CHOOSE a \in places : TRUE
           chunks == IF places = {} THEN Append(mem, NewChunk(Capacity(size))) ELSE mem
           infos  == IF info = <<>> THEN <<NewInfoChunk(MinimumInfoBlocks)>>
                     ELSE IF Last(info).num = Last(info).n THEN Append(info, NewInfoChunk(2 * Last(info).n))
                     ELSE info
           c      == Len(chunks)
           i      == Len(infos)
           slot   == FreeSlot(infos[i])
           l      == [chunks EXCEPT ![c] = Extended(@, at, size)]
           j      == [infos EXCEPT ![i].num = @ + 1, ![i].blocks[slot] = Block(c, at, size)]
           h      == [info |-> i, index |-> slot, chunk |-> c, offset |-> at, size |-> size]
<1>1. /\ ~reclaiming /\ reclaiming' = reclaiming
      /\ held = {} /\ mem # <<>> => size <= Last(mem).cap
      /\ mem' = l /\ info' = j /\ held' = held \cup {h}
  BY DEF Allocate
<1>2. size \in Nat \ {0} /\ align \in Nat \ {0}
  BY RingBufferAssumption
<1>3. /\ Sound(mem, info, held) /\ MemBusy(mem) /\ InfoBusy(info)
      /\ mem = <<>> <=> info = <<>>
      /\ HeadLive(info)
  BY <1>1 DEF RBInv, HeadIsLive, HeadLive, HeadBlock, HeadSlot
<1>4. /\ mem \in Seq(MemChunk) /\ info \in Seq(InfoChunk)
  BY <1>3 DEF Sound, Rings
<1>5. /\ DOMAIN mem = 1..Len(mem) /\ Len(mem) \in Nat /\ DOMAIN info = 1..Len(info) /\ Len(info) \in Nat
      /\ mem # <<>> => Len(mem) \in DOMAIN mem /\ Last(mem) = mem[Len(mem)] /\ Last(mem) \in MemChunk
      /\ info # <<>> => Len(info) \in DOMAIN info /\ Last(info) = info[Len(info)] /\ Last(info) \in InfoChunk
  <2>1. /\ DOMAIN mem = 1..Len(mem) /\ Len(mem) \in Nat /\ DOMAIN info = 1..Len(info) /\ Len(info) \in Nat
        /\ mem # <<>> => Len(mem) \in DOMAIN mem
        /\ info # <<>> => Len(info) \in DOMAIN info
    BY <1>4, LenProperties
  <2> QED BY <2>1, <1>4, ElementOfSeq DEF Last
<1> HIDE DEF places, at, chunks, infos, c, i, slot, l, j, h
<1>6. /\ chunks \in Seq(MemChunk) /\ chunks # <<>> /\ c \in DOMAIN chunks /\ chunks[c] \in MemChunk
      /\ at \in Nat /\ at + size <= chunks[c].cap
      /\ chunks[c].used <= From(chunks[c].first, chunks[c].cap, at)
      /\ From(chunks[c].first, chunks[c].cap, at) + size <= chunks[c].cap
      /\ \A d \in DOMAIN chunks : d # c => chunks[d].num > 0
      /\ Sound(chunks, info, held)
  <2>1. CASE places # {}
    <3>1. chunks = mem /\ c = Len(mem) /\ mem # <<>> /\ at \in places /\ places = Places(Last(mem), size, align)
      BY <2>1 DEF chunks, c, at, places
    <3>2. \A d \in DOMAIN mem : d # c => mem[d].num > 0
      <4> SUFFICES ASSUME NEW d \in DOMAIN mem, d # c, ~(mem[d].num > 0) PROVE FALSE
        OBVIOUS
      <4>1. mem[d].num = 0
        BY <1>4, <1>5, ElementOfSeq, MemChunkFields
      <4>2. d = 1 /\ Len(mem) = 1
        BY <4>1, <1>3, EmptyChunkMeansNoHandle
      <4> QED BY <4>2, <3>1
    <3>3. Last(mem) \in MemChunk /\ Last(mem) = mem[c] /\ c \in DOMAIN mem
      BY <3>1, <1>5
    <3>4. at \in Places(mem[c], size, align)
      BY <3>1, <3>3
    <3>5. /\ at \in Nat /\ at + size <= mem[c].cap
          /\ mem[c].used <= From(mem[c].first, mem[c].cap, at)
          /\ From(mem[c].first, mem[c].cap, at) + size <= mem[c].cap
      BY <3>3, <3>4, <1>2, PlacesFit
    <3> QED BY <3>1, <3>2, <3>3, <3>5, <1>3, <1>4
  <2>2. CASE places = {}
    <3> DEFINE cap == Capacity(size)
               x == NewChunk(cap)
    <3>1. cap \in Nat \ {0} /\ size <= cap
      BY <1>2, <1>4, CapacitySuffices
    <3>2. chunks = Append(mem, x) /\ at = 0
      BY <2>2 DEF chunks, at
    <3> HIDE DEF cap
    <3>3. x \in MemChunk /\ x.cap = cap /\ x.first = 0 /\ x.used = 0
      BY <3>1 DEF NewChunk, MemChunk, MemRecord
    <3>4. Sound(Append(mem, x), info, held)
      BY <3>1, <1>3, AddChunk
    <3> HIDE DEF x
    <3>5. /\ chunks \in Seq(MemChunk) /\ Len(chunks) = Len(mem) + 1 /\ chunks # <<>>
          /\ DOMAIN chunks = 1..(Len(mem) + 1)
          /\ chunks[Len(mem) + 1] = x /\ \A d \in DOMAIN mem : chunks[d] = mem[d]
      BY <3>2, <3>3, <1>4, <1>5, AppendProperties, LenProperties
    <3>6. \A d \in DOMAIN mem : mem[d].num > 0
      <4> SUFFICES ASSUME NEW d \in DOMAIN mem, ~(mem[d].num > 0) PROVE FALSE
        OBVIOUS
      <4>1. mem[d].num = 0
        BY <1>4, <1>5, ElementOfSeq, MemChunkFields
      <4>2. d = 1 /\ Len(mem) = 1 /\ held = {} /\ mem[d].first = 0 /\ mem[d].used = 0
        BY <4>1, <1>3, EmptyChunkMeansNoHandle
      <4>3. mem # <<>> /\ Last(mem) = mem[d] /\ Last(mem) \in MemChunk
        BY <4>2, <1>5
      <4>4. Places(Last(mem), size, align) # {}
        BY <4>2, <4>3, <1>1, <1>2, FreeChunkFits
      <4> QED BY <4>3, <4>4, <2>2 DEF places
    <3>7. c = Len(mem) + 1
      BY <3>5 DEF c
    <3>8. c \in DOMAIN chunks /\ chunks[c] = x /\ (\A d \in DOMAIN chunks : d # c => chunks[d].num > 0)
      BY <3>5, <3>6, <3>7, <1>5
    <3>9. From(0, cap, 0) = 0
      BY DEF From
    <3> QED BY <3>1, <3>2, <3>3, <3>4, <3>5, <3>8, <3>9, <1>2
  <2> QED BY <2>1, <2>2
<1>7. /\ infos \in Seq(InfoChunk) /\ infos # <<>> /\ i \in DOMAIN infos /\ infos[i] \in InfoChunk
      /\ infos[i].num < infos[i].n
      /\ \A k \in DOMAIN infos : k # i => infos[k].num > 0
      /\ Sound(chunks, infos, held)
      /\ HeadLive(infos)
  <2>1. CASE info # <<>> /\ Last(info).num # Last(info).n
    <3>1. infos = info /\ i = Len(info)
      BY <2>1 DEF infos, i
    <3>2. Last(info) = info[i] /\ info[i] \in InfoChunk /\ i \in DOMAIN info
      BY <2>1, <3>1, <1>5
    <3>3. info[i].num < info[i].n
      BY <2>1, <3>2, InfoChunkFields
    <3>4. \A k \in DOMAIN info : k # i => info[k].num > 0
      <4> SUFFICES ASSUME NEW k \in DOMAIN info, k # i, ~(info[k].num > 0) PROVE FALSE
        OBVIOUS
      <4>1. info[k].num = 0
        BY <1>4, <1>5, ElementOfSeq, InfoChunkFields
      <4>2. Len(info) = 1
        BY <4>1, <1>3 DEF InfoBusy
      <4> QED BY <4>2, <3>1, <1>5
    <3> QED BY <2>1, <3>1, <3>2, <3>3, <3>4, <1>3, <1>4, <1>6
  <2>2. ASSUME NEW n \in Nat \ {0}, infos = Append(info, NewInfoChunk(n)),
               \A k \in DOMAIN info : info[k].num > 0
        PROVE  /\ infos \in Seq(InfoChunk) /\ infos # <<>> /\ i \in DOMAIN infos /\ infos[i] \in InfoChunk
               /\ infos[i].num < infos[i].n
               /\ \A k \in DOMAIN infos : k # i => infos[k].num > 0
               /\ Sound(chunks, infos, held)
               /\ HeadLive(infos)
    <3> DEFINE x == NewInfoChunk(n)
    <3>1. x \in InfoChunk /\ x.num = 0 /\ x.n = n /\ x.first = 0
      BY NewInfoIsAChunk
    <3>2. Sound(chunks, infos, held)
      BY <2>2, <1>6, AddInfo
    <3>3. infos = Append(info, x)
      BY <2>2
    <3> HIDE DEF x
    <3>4. /\ infos \in Seq(InfoChunk) /\ Len(infos) = Len(info) + 1 /\ infos # <<>>
          /\ DOMAIN infos = 1..(Len(info) + 1)
          /\ infos[Len(info) + 1] = x /\ \A k \in DOMAIN info : infos[k] = info[k]
      BY <3>1, <3>3, <1>4, <1>5, AppendProperties, LenProperties
    <3>5. i = Len(info) + 1
      BY <3>4 DEF i
    <3>6. i \in DOMAIN infos /\ infos[i] = x /\ \A k \in DOMAIN infos : k # i => infos[k].num > 0
      BY <3>4, <3>5, <2>2, <1>5
    <3>7. HeadLive(infos)
      <4>1. CASE info = <<>>
        <5>1. Len(info) = 0
          BY <4>1
        <5> QED BY <5>1, <3>1, <3>4 DEF HeadLive
      <4>2. CASE info # <<>>
        <5>1. infos[1] = info[1]
          BY <4>2, <3>4, <1>5
        <5> QED BY <4>2, <5>1, <1>3 DEF HeadLive
      <4> QED BY <4>1, <4>2
    <3> QED BY <3>1, <3>2, <3>4, <3>6, <3>7
  <2>3. CASE info = <<>>
    <3>1. Append(info, NewInfoChunk(MinimumInfoBlocks)) = <<NewInfoChunk(MinimumInfoBlocks)>>
      <4> DEFINE y == NewInfoChunk(MinimumInfoBlocks)
      <4> HIDE DEF y
      <4>1. Append(<<>>, y) = <<y>>
        OBVIOUS
      <4> QED BY <4>1, <2>3 DEF y
    <3>2. infos = Append(info, NewInfoChunk(MinimumInfoBlocks))
      BY <2>3, <3>1 DEF infos
    <3>3. DOMAIN info = {}
      BY <2>3
    <3> QED BY <2>2, <3>2, <3>3, RingBufferAssumption
  <2>4. CASE info # <<>> /\ Last(info).num = Last(info).n
    <3>1. infos = Append(info, NewInfoChunk(2 * Last(info).n))
      BY <2>4 DEF infos
    <3>2. Last(info).n \in Nat \ {0} /\ Last(info).num > 0 /\ Last(info) = info[Len(info)]
      BY <2>4, <1>5, InfoChunkFields
    <3>3. \A k \in DOMAIN info : info[k].num > 0
      <4> SUFFICES ASSUME NEW k \in DOMAIN info, ~(info[k].num > 0) PROVE FALSE
        OBVIOUS
      <4>1. info[k].num = 0
        BY <1>4, <1>5, ElementOfSeq, InfoChunkFields
      <4>2. Len(info) = 1
        BY <4>1, <1>3 DEF InfoBusy
      <4>3. k = 1
        BY <4>2, <1>5
      <4> QED BY <4>1, <4>2, <4>3, <3>2
    <3>4. 2 * Last(info).n \in Nat \ {0}
      BY <3>2
    <3> QED BY <2>2, <3>1, <3>3, <3>4
  <2> QED BY <2>1, <2>3, <2>4
<1> DEFINE b == Block(c, at, size)
<1>8. c \in Nat /\ c = Len(chunks) /\ i = Len(infos) /\ i \in Nat /\ DOMAIN infos = 1..i /\ DOMAIN chunks = 1..c
  BY <1>6, <1>7, LenProperties DEF c, i
<1>9. b \in Blocks /\ b.live
  BY <1>2, <1>6, <1>8 DEF Block, Blocks
<1>10. Reaching(chunks, at, size, l)
  <2>1. l = [chunks EXCEPT ![Len(chunks)] = Extended(@, at, size)]
    BY <1>8 DEF l
  <2> QED BY <2>1, <1>2, <1>6, <1>8, ReachingOne
<1>11. Holding(infos, slot, b, j)
  <2>1. /\ slot = FreeSlot(infos[Len(infos)])
        /\ j = [infos EXCEPT ![Len(infos)].num = @ + 1,
                             ![Len(infos)].blocks[FreeSlot(infos[Len(infos)])] = b]
    BY <1>8 DEF j, slot
  <2>2. infos[Len(infos)].num < infos[Len(infos)].n
    BY <1>7, <1>8
  <2> HIDE DEF b
  <2> QED BY <2>1, <2>2, <1>7, <1>9, HoldingOne
<1>12. Sound(l, j, held \cup {h})
  <2>1. h = [info |-> Len(infos), index |-> slot, chunk |-> Len(chunks), offset |-> at, size |-> size]
    BY <1>8 DEF h
  <2>2. Holding(infos, slot, Block(Len(chunks), at, size), j)
    BY <1>8, <1>11
  <2>3. Sound(l, j, held \cup {[info |-> Len(infos), index |-> slot, chunk |-> Len(chunks),
                                offset |-> at, size |-> size]})
    BY <2>2, <1>2, <1>6, <1>7, <1>10, AddBlock
  <2> QED BY <2>1, <2>3
<1>13. HeadLive(j)
  BY <1>7, <1>9, <1>11, HeadStaysLive
<1>14. \A d \in DOMAIN l : l[d].num > 0
  <2>1. chunks[c].num \in Nat
    BY <1>6, MemChunkFields
  <2> QED BY <2>1, <1>6, <1>8, <1>10 DEF Reaching
<1>15. \A k \in DOMAIN j : j[k].num > 0
  <2>1. infos[i].num \in Nat
    BY <1>7, InfoChunkFields
  <2> QED BY <2>1, <1>7, <1>8, <1>11 DEF Holding
<1>16. l # <<>> /\ j # <<>>
  <2>1. c \in DOMAIN l /\ i \in DOMAIN j
    BY <1>8, <1>10, <1>11 DEF Reaching, Holding
  <2> QED BY <2>1
<1>17. Sound(mem', info', held')
  BY <1>1, <1>12
<1>18. MemBusy(mem') /\ InfoBusy(info') /\ HeadLive(info') /\ mem' # <<>> /\ info' # <<>>
  BY <1>1, <1>13, <1>14, <1>15, <1>16 DEF MemBusy, InfoBusy
<1>19. HeadIsLive'
  BY <1>18 DEF HeadIsLive, HeadLive, HeadBlock, HeadSlot
<1> QED BY <1>1, <1>17, <1>18, <1>19 DEF RBInv, Sound

-----------------------------------------------------------------------------
(* The end of Dispose's loop.                                              *)

(* The head of the info rings is the oldest active block.                  *)
LEMMA HeadIsOldest ==
  ASSUME NEW m, NEW i, Rings(m, i), Filled(i), i # <<>>, i[1].num > 0
  PROVE  LET p0 == <<1, i[1].first>>
         IN  p0 \in Slots(i) /\ \A p \in Slots(i) : p = p0 \/ Precedes(i, p0, p)
<1> DEFINE p0 == <<1, i[1].first>>
<1>1. 1 \in DOMAIN i /\ i[1] \in InfoChunk
  BY ElementOfSeq, LenProperties DEF Rings
<1>2. i[1].n \in Nat \ {0} /\ i[1].first \in 0..(i[1].n - 1) /\ i[1].num \in Nat
  BY <1>1, InfoChunkFields
<1>3. p0 \in Slots(i)
  <2>1. From(i[1].first, i[1].n, i[1].first) = 0
    BY <1>2 DEF From
  <2>2. i[1].blocks[i[1].first] # NoBlock
    BY <2>1, <1>1, <1>2 DEF Filled
  <2> QED BY <2>2, <1>1, <1>2 DEF Slots
<1>4. ASSUME NEW p \in Slots(i), p # p0 PROVE Precedes(i, p0, p)
  <2>1. /\ p[1] \in DOMAIN i /\ p[1] \in Nat /\ p[2] \in 0..(i[p[1]].n - 1) /\ p = <<p[1], p[2]>>
    BY SlotFacts
  <2>2. p[1] >= 1
    BY <2>1, LenProperties DEF Rings
  <2>3. Age(i, p0) = 0
    BY <1>2 DEF Age, From
  <2>4. CASE p[1] > 1
    BY <2>4, <2>1 DEF Precedes
  <2>5. CASE p[1] = 1
    <3>1. p[2] # i[1].first
      BY <2>1, <2>5, <1>4
    <3>2. Age(i, p) > 0
      BY <2>1, <2>5, <3>1, <1>2 DEF Age, From
    <3> QED BY <2>3, <2>5, <3>2 DEF Precedes
  <2> QED BY <2>1, <2>2, <2>4, <2>5
<1> QED BY <1>3, <1>4

(* The oldest active block lies in the first chunk: chunks before it would *)
(* be empty.                                                               *)
LEMMA HeadInFirstChunk ==
  ASSUME NEW m, NEW i, NEW hs, Sound(m, i, hs), MemBusy(m), i # <<>>, i[1].num > 0
  PROVE  At(i, <<1, i[1].first>>).chunk = 1
<1> DEFINE p0 == <<1, i[1].first>>
<1>1. /\ Rings(m, i) /\ Filled(i) /\ Placed(m, i) /\ Ordered(m, i) /\ Counted(m, i)
  BY SoundParts
<1>2. p0 \in Slots(i) /\ \A p \in Slots(i) : p = p0 \/ Precedes(i, p0, p)
  BY <1>1, HeadIsOldest
<1> HIDE DEF p0
<1>3. m \in Seq(MemChunk) /\ At(i, p0) \in Blocks /\ Lies(m, At(i, p0))
  BY <1>1, <1>2, SlotFacts DEF Rings, Placed
<1>4. At(i, p0).chunk \in DOMAIN m /\ At(i, p0).chunk \in Nat
  BY <1>3, LiesFacts
<1>5. DOMAIN m = 1..Len(m) /\ Len(m) \in Nat
  BY <1>3, LenProperties
<1>6. 1 \in DOMAIN m
  BY <1>4, <1>5
<1>7. m[1].num # 0
  BY <1>2, <1>6, EmptyChunkMeansNoHandle
<1>8. PICK q \in InChunk(i, 1) : TRUE
  <2>1. Counts(i, 1, m[1].num)
    BY <1>1, <1>6 DEF Counted
  <2> QED BY <2>1, <1>7, FS_EmptySet DEF Counts
<1>9. q \in Slots(i) /\ At(i, q).chunk = 1
  BY <1>8 DEF InChunk
<1>10. At(i, p0).chunk <= At(i, q).chunk
  BY <1>1, <1>2, <1>9 DEF Ordered, Behind
<1> QED BY <1>4, <1>5, <1>9, <1>10 DEF p0

(* Distances in a ring, counted from a further place.                      *)
LEMMA Rebased ==
  ASSUME NEW cap \in Nat \ {0}, NEW first \in 0..(cap - 1), NEW x \in 0..(cap - 1), NEW y \in 0..(cap - 1),
         From(first, cap, x) <= From(first, cap, y)
  PROVE  From(x, cap, y) = From(first, cap, y) - From(first, cap, x)
  BY DEF From

(* What HeadMoves makes of a chunk.                                        *)
LEMMA MovedChunk ==
  ASSUME NEW c \in MemChunk, NEW b \in Blocks, b.size > 0, b.offset + b.size <= c.cap,
         From(c.first, c.cap, b.offset) + b.size <= c.used
  PROVE  /\ HeadMoves(c, b) \in MemChunk /\ HeadMoves(c, b).cap = c.cap
         /\ HeadMoves(c, b).first = b.offset /\ HeadMoves(c, b).num = c.num
         /\ HeadMoves(c, b).used = c.used - From(c.first, c.cap, b.offset)
<1> DEFINE d == HeadMoves(c, b)
           u == c.first + c.used - (b.offset + IF b.offset < c.first THEN c.cap ELSE 0)
           v == b.offset
<1>1. /\ c.cap \in Nat \ {0} /\ c.first \in 0..(c.cap - 1) /\ c.used \in 0..c.cap
      /\ c.num \in Nat
  BY MemChunkFields
<1>2. b.offset \in Nat /\ b.size \in Nat
  BY DEF Blocks
<1>3. u = c.used - From(c.first, c.cap, b.offset) /\ u \in 0..c.cap /\ v \in 0..(c.cap - 1)
  BY <1>1, <1>2 DEF From
<1>4. d = [c EXCEPT !.used = u, !.first = v] /\ c \in MemRecord /\ u \in Nat /\ v \in Nat
  BY <1>3 DEF HeadMoves, MemChunk
<1> HIDE DEF u, v, d
<1>5. d \in MemRecord    BY <1>4 DEF MemRecord
<1>6. d.cap = c.cap      BY <1>4 DEF MemRecord
<1>7. d.first = v        BY <1>4 DEF MemRecord
<1>8. d.used = u         BY <1>4 DEF MemRecord
<1>9. d.num = c.num      BY <1>4 DEF MemRecord
<1>10. d \in MemChunk
  BY <1>1, <1>3, <1>5, <1>6, <1>7, <1>8 DEF MemChunk
<1> QED BY <1>3, <1>6, <1>7, <1>8, <1>9, <1>10 DEF d, v

(* The first chunk starts at its oldest block.                             *)
LEMMA MoveHead ==
  ASSUME NEW m, NEW i, NEW hs, Sound(m, i, hs), MemBusy(m), i # <<>>, i[1].num > 0
  PROVE  LET l == [m EXCEPT ![1] = HeadMoves(@, At(i, <<1, i[1].first>>))]
         IN  Sound(l, i, hs) /\ MemBusy(l) /\ l # <<>> /\ m # <<>>
<1> DEFINE p0 == <<1, i[1].first>>
           b == At(i, p0)
           x == HeadMoves(m[1], b)
           l == [m EXCEPT ![1] = x]
<1>1. /\ Rings(m, i) /\ hs \subseteq Handle
      /\ Filled(i) /\ Placed(m, i) /\ Ordered(m, i) /\ Counted(m, i) /\ Claimed(i, hs)
  BY SoundParts
<1>2. m \in Seq(MemChunk) /\ i \in Seq(InfoChunk)
  BY <1>1 DEF Rings
<1>3. p0 \in Slots(i) /\ \A p \in Slots(i) : p = p0 \/ Precedes(i, p0, p)
  BY <1>1, HeadIsOldest
<1>4. b.chunk = 1
  BY HeadInFirstChunk
<1> HIDE DEF p0, b
<1>5. b \in Blocks /\ Lies(m, b)
  BY <1>1, <1>3, SlotFacts DEF b, Placed
<1>6. /\ 1 \in DOMAIN m /\ m[1] \in MemChunk /\ b.size \in Nat \ {0} /\ b.offset \in Nat
      /\ Start(m, b) = From(m[1].first, m[1].cap, b.offset) /\ Start(m, b) \in Nat
      /\ b.offset + b.size <= m[1].cap /\ Start(m, b) + b.size <= m[1].used
  BY <1>2, <1>4, <1>5, LiesFacts
<1>7. /\ x \in MemChunk /\ x.cap = m[1].cap
      /\ x.first = b.offset /\ x.num = m[1].num
      /\ x.used = m[1].used - Start(m, b)
  BY <1>5, <1>6, MovedChunk
<1> HIDE DEF x
<1>8. l \in Seq(MemChunk) /\ DOMAIN l = DOMAIN m /\ l[1] = x /\ \A d \in DOMAIN m : d # 1 => l[d] = m[d]
  BY <1>2, <1>6, <1>7, ExceptSeq
<1> HIDE DEF l
<1>9. ASSUME NEW p \in Slots(i)
      PROVE  /\ Lies(l, At(i, p))
             /\ Start(l, At(i, p)) = IF At(i, p).chunk = 1 THEN Start(m, At(i, p)) - Start(m, b)
                                     ELSE Start(m, At(i, p))
             /\ Start(m, At(i, p)) \in Nat
  <2> DEFINE a == At(i, p)
  <2>1. a \in Blocks /\ Lies(m, a)
    BY <1>1, SlotFacts DEF Placed
  <2> HIDE DEF a
  <2>2. /\ a.chunk \in DOMAIN m /\ a.size \in Nat \ {0} /\ a.offset \in Nat /\ Start(m, a) \in Nat
        /\ Start(m, a) = From(m[a.chunk].first, m[a.chunk].cap, a.offset)
        /\ a.offset + a.size <= m[a.chunk].cap /\ Start(m, a) + a.size <= m[a.chunk].used
    BY <1>2, <2>1, LiesFacts
  <2>3. CASE a.chunk # 1
    <3>1. l[a.chunk] = m[a.chunk]
      BY <2>2, <2>3, <1>8
    <3>2. Start(l, a) = Start(m, a)
      BY <3>1 DEF Start
    <3> QED BY <2>2, <2>3, <3>1, <3>2, <1>8 DEF Lies, a
  <2>4. CASE a.chunk = 1
    <3>1. Start(m, b) <= Start(m, a)
      <4>1. CASE p = p0
        BY <4>1, <2>2 DEF a, b
      <4>2. CASE p # p0
        <5>1. Start(m, b) + b.size <= Start(m, a)
          BY <4>2, <1>1, <1>3, <1>4, <2>4 DEF Ordered, Behind, a, b
        <5> QED BY <5>1, <1>6, <2>2
      <4> QED BY <4>1, <4>2
    <3>2. m[1].cap \in Nat \ {0} /\ m[1].first \in 0..(m[1].cap - 1) /\ m[1].used \in Nat
      BY <1>6, MemChunkFields
    <3>3. From(b.offset, m[1].cap, a.offset) = Start(m, a) - Start(m, b)
      <4>1. b.offset \in 0..(m[1].cap - 1) /\ a.offset \in 0..(m[1].cap - 1)
        <5>1. a.offset + a.size <= m[1].cap /\ a.offset \in Nat /\ a.size \in Nat \ {0}
          BY <2>2, <2>4
        <5>2. b.offset + b.size <= m[1].cap /\ b.offset \in Nat /\ b.size \in Nat \ {0}
          BY <1>6
        <5> HIDE DEF l
        <5> QED BY <5>1, <5>2, <3>2, SMTT(30)
      <4>2. From(m[1].first, m[1].cap, b.offset) <= From(m[1].first, m[1].cap, a.offset)
        BY <1>6, <2>2, <2>4, <3>1
      <4> QED BY <4>1, <4>2, <3>2, <1>6, <2>2, <2>4, Rebased, SMTT(30)
    <3>4. Start(l, a) = Start(m, a) - Start(m, b)
      BY <2>4, <3>3, <1>7, <1>8 DEF Start
    <3>5. Lies(l, a)
      <4>1. l[a.chunk].cap = m[1].cap /\ l[a.chunk].used = m[1].used - Start(m, b) /\ a.chunk \in DOMAIN l
        BY <2>4, <1>6, <1>7, <1>8
      <4>2. a.offset + a.size <= m[1].cap /\ a.size \in Nat \ {0} /\ Start(m, a) + a.size <= m[1].used
        BY <2>2, <2>4
      <4>3. Start(l, a) + a.size <= m[1].used - Start(m, b)
        BY <4>2, <3>2, <3>4, <1>6, <2>2
      <4> QED BY <4>1, <4>2, <4>3 DEF Lies
    <3> QED BY <2>2, <2>4, <3>4, <3>5 DEF a
  <2> QED BY <2>3, <2>4
<1>10. Placed(l, i)
  BY <1>9 DEF Placed
<1>11. Ordered(l, i)
  <2> SUFFICES ASSUME NEW p \in Slots(i), NEW q \in Slots(i), Precedes(i, p, q)
               PROVE  Behind(l, At(i, p), At(i, q))
    BY DEF Ordered
  <2>1. Behind(m, At(i, p), At(i, q))
    BY <1>1 DEF Ordered
  <2>2. At(i, p).size \in Nat
    BY <1>1, SlotFacts DEF Blocks
  <2> QED BY <2>1, <2>2, <1>6, <1>9 DEF Behind
<1>12. Counted(l, i)
  <2>1. \A d \in DOMAIN m : l[d].num = m[d].num
    BY <1>7, <1>8
  <2> QED BY <2>1, <1>1, <1>8 DEF Counted
<1>13. Rings(l, i)
  BY <1>2, <1>8 DEF Rings
<1>14. Sound(l, i, hs)
  BY <1>1, <1>10, <1>11, <1>12, <1>13, SoundParts
<1>15. MemBusy(l)
  <2> SUFFICES ASSUME NEW d \in DOMAIN m, m[d].num = 0 PROVE FALSE
    BY <1>7, <1>8 DEF MemBusy
  <2> QED BY <1>3, EmptyChunkMeansNoHandle
<1>16. l # <<>> /\ m # <<>>
  BY <1>6, <1>8
<1> QED BY <1>14, <1>15, <1>16 DEF l, x, b, p0

(* The end of Dispose's loop preserves the invariant.                      *)
LEMMA ReclaimedKeepsInv ==
  ASSUME RBInv, Reclaimed PROVE RBInv'
<1>1. /\ reclaiming /\ reclaiming' = FALSE /\ info' = info /\ held' = held /\ info # <<>>
      /\ Sound(mem, info, held) /\ MemBusy(mem) /\ InfoBusy(info) /\ (mem = <<>> <=> info = <<>>)
  BY DEF Reclaimed, RBInv
<1>2. HeadIsLive' <=> HeadIsLive
  BY <1>1 DEF HeadIsLive, HeadBlock, HeadSlot
<1>3. ASSUME Sound(mem', info, held), MemBusy(mem'), mem' = <<>> <=> info = <<>>, HeadIsLive
      PROVE  RBInv'
  <2>1. Sound(mem', info', held') /\ MemBusy(mem') /\ InfoBusy(info') /\ (mem' = <<>> <=> info' = <<>>)
    BY <1>1, <1>3
  <2> QED BY <1>1, <1>2, <1>3, <2>1 DEF RBInv, Sound
<1>4. CASE info[1].num = 0 /\ mem' = mem
  <2>1. HeadIsLive
    BY <1>4 DEF HeadIsLive
  <2> QED BY <1>1, <1>3, <1>4, <2>1
<1>5. CASE info[1].num > 0 /\ HeadBlock.live /\ mem' = [mem EXCEPT ![1] = HeadMoves(@, HeadBlock)]
  <2> DEFINE l == [mem EXCEPT ![1] = HeadMoves(@, At(info, <<1, info[1].first>>))]
  <2>1. HeadBlock = At(info, <<1, info[1].first>>)
    BY DEF HeadBlock, HeadSlot, At
  <2>2. mem' = l
    BY <1>5, <2>1
  <2>3. Sound(l, info, held) /\ MemBusy(l) /\ l # <<>> /\ mem # <<>>
    BY <1>1, <1>5, MoveHead
  <2> HIDE DEF l
  <2>4. HeadIsLive
    BY <1>5 DEF HeadIsLive
  <2> QED BY <1>1, <1>3, <2>2, <2>3, <2>4
<1> QED BY <1>4, <1>5 DEF Reclaimed

-----------------------------------------------------------------------------
(* Dispose.                                                                *)

(* The rings j are the rings i but for one block, which is not live.       *)
NotLive(i, k, s, j) ==
  /\ j \in Seq(InfoChunk) /\ DOMAIN j = DOMAIN i
  /\ \A l \in DOMAIN i : j[l].n = i[l].n /\ j[l].first = i[l].first /\ j[l].num = i[l].num
  /\ \A l \in DOMAIN i : \A t \in 0..(i[l].n - 1) :
       j[l].blocks[t] = IF l = k /\ t = s THEN [i[l].blocks[t] EXCEPT !.live = FALSE]
                        ELSE i[l].blocks[t]

(* What Dispose makes of the info rings.                                   *)
LEMMA DisposedInfo ==
  ASSUME NEW i \in Seq(InfoChunk), NEW k \in DOMAIN i, NEW s \in 0..(i[k].n - 1),
         NEW j, j = [i EXCEPT ![k].blocks[s].live = FALSE]
  PROVE  NotLive(i, k, s, j)
<1> DEFINE r == i[k]
           y == [r.blocks[s] EXCEPT !.live = FALSE]
           w == [r.blocks EXCEPT ![s] = y]
           x == [r EXCEPT !.blocks = w]
<1>1. r \in InfoChunk
  BY ElementOfSeq, LenProperties
<1>2. /\ r.n \in Nat \ {0} /\ r.first \in 0..(r.n - 1) /\ r.num \in 0..r.n
      /\ r.blocks \in [0..(r.n - 1) -> Blocks] /\ r \in InfoRecord
  BY <1>1, InfoChunkFields DEF InfoChunk
<1>3. j = [i EXCEPT ![k] = x]
  OBVIOUS
<1>4. y \in Blocks
  BY <1>2 DEF Blocks
<1> HIDE DEF y
<1>5. w \in [0..(r.n - 1) -> Blocks] /\ \A t \in 0..(r.n - 1) : w[t] = IF t = s THEN y ELSE r.blocks[t]
  BY <1>2, <1>4
<1>6. w \in BlockTables
  BY <1>2, <1>5 DEF BlockTables
<1> HIDE DEF w
<1>7. /\ x \in InfoRecord /\ x.n = r.n /\ x.first = r.first /\ x.num = r.num /\ x.blocks = w
  BY <1>2, <1>6 DEF InfoRecord
<1> HIDE DEF x
<1>8. x \in InfoChunk
  BY <1>2, <1>5, <1>7 DEF InfoChunk
<1> HIDE DEF r
<1>9. j \in Seq(InfoChunk) /\ DOMAIN j = DOMAIN i /\ j[k] = x /\ \A l \in DOMAIN i : l # k => j[l] = i[l]
  <2> DEFINE z == [i EXCEPT ![k] = x]
  <2>1. z \in Seq(InfoChunk) /\ DOMAIN z = DOMAIN i /\ z[k] = x /\ \A l \in DOMAIN i : l # k => z[l] = i[l]
    BY <1>8, ExceptSeq
  <2> HIDE DEF z
  <2>2. z = j
    BY <1>3 DEF z
  <2> QED BY <2>1, <2>2
<1>10. \A l \in DOMAIN i : j[l].n = i[l].n /\ j[l].first = i[l].first /\ j[l].num = i[l].num
  BY <1>7, <1>9 DEF r
<1>11. ASSUME NEW l \in DOMAIN i, NEW t \in 0..(i[l].n - 1)
       PROVE  j[l].blocks[t] = IF l = k /\ t = s THEN [i[l].blocks[t] EXCEPT !.live = FALSE]
                               ELSE i[l].blocks[t]
  <2>1. CASE l = k
    <3>1. j[l].blocks = w
      BY <2>1, <1>7, <1>9
    <3>2. w[t] = IF t = s THEN y ELSE r.blocks[t]
      BY <2>1, <1>5 DEF r
    <3> QED BY <2>1, <3>1, <3>2 DEF y, r
  <2>2. CASE l # k
    BY <2>2, <1>9
  <2> QED BY <2>1, <2>2
<1> QED BY <1>9, <1>10, <1>11 DEF NotLive

(* Dispose preserves the invariant: its block stays in the rings and keeps *)
(* its place until it is the oldest.                                       *)
LEMMA DisposeKeepsInv ==
  ASSUME RBInv, NEW h \in held, Dispose(h) PROVE RBInv'
<1> DEFINE k == h.info
           s == h.index
           j == [info EXCEPT ![k].blocks[s].live = FALSE]
           i == info
           p0 == <<k, s>>
<1>1. /\ reclaiming' = TRUE /\ mem' = mem /\ held' = held \ {h} /\ info' = j
      /\ Sound(mem, i, held) /\ MemBusy(mem) /\ InfoBusy(i) /\ (mem = <<>> <=> i = <<>>)
  BY DEF RBInv, Dispose
<1>2. /\ Rings(mem, i) /\ held \subseteq Handle
      /\ Filled(i) /\ Placed(mem, i) /\ Ordered(mem, i) /\ Counted(mem, i) /\ Claimed(i, held)
  BY <1>1, SoundParts
<1>3. i \in Seq(InfoChunk) /\ mem \in Seq(MemChunk)
  BY <1>2 DEF Rings
<1>4. /\ k \in DOMAIN i /\ s \in 0..(i[k].n - 1) /\ At(i, p0) = Block(h.chunk, h.offset, h.size)
  <2>1. Names(i, h) /\ h \in Handle
    BY <1>2 DEF Claimed
  <2>2. s \in Nat
    BY <2>1 DEF Handle
  <2>3. k \in DOMAIN i /\ s < i[k].n
    BY <2>1 DEF Names
  <2>4. i[k].n \in Nat
    BY <2>3, <1>3, ElementOfSeq, LenProperties, InfoChunkFields
  <2> QED BY <2>1, <2>2, <2>3, <2>4 DEF Names, At
<1>5. /\ j \in Seq(InfoChunk) /\ DOMAIN j = DOMAIN i
      /\ \A l \in DOMAIN i : j[l].n = i[l].n /\ j[l].first = i[l].first /\ j[l].num = i[l].num
      /\ \A l \in DOMAIN i : \A t \in 0..(i[l].n - 1) :
           j[l].blocks[t] = IF l = k /\ t = s THEN [i[l].blocks[t] EXCEPT !.live = FALSE]
                            ELSE i[l].blocks[t]
  <2> HIDE DEF k, s
  <2>1. j = [i EXCEPT ![k].blocks[s].live = FALSE]
    OBVIOUS
  <2> HIDE DEF i, j
  <2>2. NotLive(i, k, s, j)
    BY <1>3, <1>4, <2>1, DisposedInfo
  <2> QED BY <2>2 DEF NotLive
<1> HIDE DEF i, j, k, s
<1>6. \A l \in DOMAIN i : i[l].n \in Nat \ {0} /\ i[l].blocks \in [0..(i[l].n - 1) -> Blocks]
  BY <1>3, ElementOfSeq, LenProperties, InfoChunkFields
<1>7. p0 \in Slots(i)
  <2>1. At(i, p0) # NoBlock
    BY <1>4 DEF Block, NoBlock
  <2> QED BY <2>1, <1>4, <1>6 DEF Slots, At
<1>8. ASSUME NEW l \in DOMAIN i, NEW t \in 0..(i[l].n - 1)
      PROVE  /\ j[l].blocks[t] = NoBlock <=> i[l].blocks[t] = NoBlock
             /\ j[l].blocks[t].chunk = i[l].blocks[t].chunk
             /\ j[l].blocks[t].offset = i[l].blocks[t].offset
             /\ j[l].blocks[t].size = i[l].blocks[t].size
             /\ j[l].blocks[t].live => <<l, t>> # p0 /\ i[l].blocks[t].live
             /\ <<l, t>> # p0 => j[l].blocks[t] = i[l].blocks[t]
  <2>1. CASE l = k /\ t = s
    <3>1. j[l].blocks[t] = [i[l].blocks[t] EXCEPT !.live = FALSE]
      BY <2>1, <1>5
    <3>2. i[l].blocks[t] = Block(h.chunk, h.offset, h.size) /\ i[l].blocks[t] \in Blocks
      BY <2>1, <1>4, <1>6 DEF At
    <3>3. Lies(mem, i[l].blocks[t])
      BY <2>1, <1>2, <1>7 DEF Placed, At
    <3>4. i[l].blocks[t].chunk # 0
      BY <3>3, <1>3, LenProperties DEF Lies
    <3> DEFINE y == i[l].blocks[t]
    <3> HIDE DEF y
    <3>5. y \in Blocks => /\ [y EXCEPT !.live = FALSE].chunk = y.chunk
                          /\ [y EXCEPT !.live = FALSE].offset = y.offset
                          /\ [y EXCEPT !.live = FALSE].size = y.size
                          /\ [y EXCEPT !.live = FALSE].live = FALSE
      BY DEF Blocks
    <3>6. NoBlock.chunk = 0
      BY DEF NoBlock
    <3> QED BY <2>1, <3>1, <3>2, <3>4, <3>5, <3>6 DEF y
  <2>2. CASE ~(l = k /\ t = s)
    BY <2>2, <1>5
  <2> QED BY <2>1, <2>2
<1> HIDE DEF p0
<1>9. Slots(j) = Slots(i)
  <2>1. \A p \in (DOMAIN i) \X Nat : p \in Slots(j) <=> p \in Slots(i)
    <3> TAKE p \in (DOMAIN i) \X Nat
    <3>1. p[2] < i[p[1]].n => p[2] \in 0..(i[p[1]].n - 1)
      BY <1>6
    <3> QED BY <3>1, <1>5, <1>8 DEF Slots
  <2>2. Slots(j) \subseteq (DOMAIN i) \X Nat /\ Slots(i) \subseteq (DOMAIN i) \X Nat
    BY <1>5 DEF Slots
  <2> QED BY <2>1, <2>2
<1>10. ASSUME NEW p \in Slots(i)
       PROVE  /\ Age(j, p) = Age(i, p)
              /\ At(j, p).chunk = At(i, p).chunk /\ At(j, p).offset = At(i, p).offset
              /\ At(j, p).size = At(i, p).size
              /\ At(j, p).live => p # p0 /\ At(i, p).live
              /\ p # p0 => At(j, p) = At(i, p)
  <2>1. p[1] \in DOMAIN i /\ p[2] \in 0..(i[p[1]].n - 1) /\ p = <<p[1], p[2]>>
    BY <1>2, SlotFacts
  <2>2. Age(j, p) = Age(i, p)
    BY <2>1, <1>5 DEF Age
  <2> QED BY <2>1, <2>2, <1>8 DEF At
<1>11. Filled(j)
  <2> SUFFICES ASSUME NEW l \in DOMAIN i, NEW t \in 0..(i[l].n - 1)
               PROVE  j[l].blocks[t] # NoBlock <=> From(i[l].first, i[l].n, t) < i[l].num
    BY <1>5 DEF Filled
  <2> QED BY <1>2, <1>8 DEF Filled
<1>12. Placed(mem, j)
  BY <1>2, <1>9, <1>10 DEF Placed, Lies, Start
<1>13. Ordered(mem, j)
  BY <1>2, <1>9, <1>10 DEF Ordered, Precedes, Behind, Start
<1>14. Counted(mem, j)
  <2>1. \A c : InChunk(j, c) = InChunk(i, c)
    BY <1>9, <1>10 DEF InChunk
  <2> QED BY <2>1, <1>2 DEF Counted, Counts
<1>15. Claimed(j, held \ {h})
  <2>1. ASSUME NEW x \in held \ {h} PROVE Names(j, x)
    <3>1. Names(i, x) /\ x \in Handle /\ Names(i, h) /\ h \in Handle
      BY <1>2 DEF Claimed
    <3>2. ~(x.info = k /\ x.index = s)
      <4> SUFFICES ASSUME x.info = k, x.index = s PROVE FALSE
        OBVIOUS
      <4>1. Block(x.chunk, x.offset, x.size) = Block(h.chunk, h.offset, h.size)
        BY <3>1 DEF Names, k, s
      <4>2. x.chunk = h.chunk /\ x.offset = h.offset /\ x.size = h.size
        BY <4>1 DEF Block
      <4>3. x = h
        BY <3>1, <4>2 DEF Handle, k, s
      <4> QED BY <4>3
    <3>3. x.info \in DOMAIN i /\ x.index \in 0..(i[x.info].n - 1)
      <4>1. x.info \in DOMAIN i /\ x.index < i[x.info].n /\ x.index \in Nat
        BY <3>1 DEF Names, Handle
      <4> QED BY <4>1, <1>6
    <3>4. j[x.info].blocks[x.index] = i[x.info].blocks[x.index]
      BY <3>2, <3>3, <1>5
    <3> QED BY <3>1, <3>3, <3>4, <1>5 DEF Names
  <2>2. ASSUME NEW p \in Slots(j), At(j, p).live
        PROVE  \E x \in held \ {h} : x.info = p[1] /\ x.index = p[2]
    <3>1. p \in Slots(i) /\ p # p0 /\ At(i, p).live
      BY <2>2, <1>9, <1>10
    <3>2. PICK x \in held : x.info = p[1] /\ x.index = p[2]
      BY <3>1, <1>2 DEF Claimed
    <3>3. p = <<p[1], p[2]>>
      BY <3>1, <1>2, SlotFacts
    <3>4. x # h
      BY <3>1, <3>2, <3>3 DEF p0, k, s
    <3> QED BY <3>2, <3>4
  <2> QED BY <2>1, <2>2 DEF Claimed
<1>16. Sound(mem, j, held \ {h})
  BY <1>2, <1>3, <1>5, <1>11, <1>12, <1>13, <1>14, <1>15, SoundParts DEF Rings
<1>17. InfoBusy(j) /\ (mem = <<>> <=> j = <<>>)
  <2>1. Len(j) = Len(i)
    BY <1>3, <1>5, LenProperties
  <2>2. j = <<>> <=> i = <<>>
    BY <1>4, <1>5
  <2> QED BY <2>1, <2>2, <1>1, <1>5 DEF InfoBusy
<1>18. j # <<>>
  BY <1>4, <1>5
<1>19. Sound(mem', info', held') /\ MemBusy(mem') /\ InfoBusy(info') /\ (mem' = <<>> <=> info' = <<>>) /\ info' # <<>>
  BY <1>1, <1>16, <1>17, <1>18
<1> QED BY <1>1, <1>19 DEF RBInv, Sound

-----------------------------------------------------------------------------
(* A pass of Dispose's loop that removes the head.                         *)

(* The rings j are the rings i without their oldest block.                 *)
Without(i, j) ==
  LET s == i[1].first
  IN  /\ j \in Seq(InfoChunk) /\ DOMAIN j = DOMAIN i
      /\ \A l \in DOMAIN i : l # 1 => j[l] = i[l]
      /\ j[1].n = i[1].n /\ j[1].num = i[1].num - 1
      /\ j[1].num > 0 => j[1].first = IF s + 1 = i[1].n THEN 0 ELSE s + 1
      /\ \A t \in 0..(i[1].n - 1) : j[1].blocks[t] = IF t = s THEN NoBlock ELSE i[1].blocks[t]

(* The chunks l are the chunks m with a block less in the first.           *)
CountedDown(m, l) ==
  /\ l \in Seq(MemChunk) /\ DOMAIN l = DOMAIN m
  /\ \A d \in DOMAIN m : l[d].cap = m[d].cap /\ l[d].first = m[d].first /\ l[d].used = m[d].used
  /\ \A d \in DOMAIN m : d # 1 => l[d] = m[d]
  /\ l[1].num = m[1].num - 1

(* Distances in a ring are below its size.                                 *)
LEMMA FromRange ==
  ASSUME NEW n \in Nat \ {0}, NEW first \in 0..(n - 1), NEW x \in 0..(n - 1)
  PROVE  From(first, n, x) \in 0..(n - 1)
  BY DEF From

(* Without the block at the head, and with one less in the first chunk,    *)
(* the rings are sound.                                                    *)
LEMMA RemoveOldest ==
  ASSUME NEW m, NEW i, NEW hs, Sound(m, i, hs), MemBusy(m), i # <<>>, i[1].num > 0,
         ~At(i, <<1, i[1].first>>).live, NEW l, CountedDown(m, l), NEW j, Without(i, j)
  PROVE  Sound(l, j, hs)
<1> DEFINE s == i[1].first
           n == i[1].n
           p0 == <<1, s>>
<1>1. /\ Rings(m, i) /\ hs \subseteq Handle
      /\ Filled(i) /\ Placed(m, i) /\ Ordered(m, i) /\ Counted(m, i) /\ Claimed(i, hs)
  BY SoundParts
<1>2. m \in Seq(MemChunk) /\ i \in Seq(InfoChunk)
  BY <1>1 DEF Rings
<1>3. p0 \in Slots(i) /\ \A p \in Slots(i) : p = p0 \/ Precedes(i, p0, p)
  BY <1>1, HeadIsOldest
<1>4. At(i, p0).chunk = 1
  BY HeadInFirstChunk
<1>5. ~At(i, p0).live
  OBVIOUS
<1>6. /\ 1 \in DOMAIN i
      /\ \A k \in DOMAIN i : /\ i[k].n \in Nat \ {0} /\ i[k].first \in 0..(i[k].n - 1) /\ i[k].num \in 0..i[k].n
                             /\ k \in Nat
  BY <1>2, ElementOfSeq, LenProperties, InfoChunkFields
<1>7. /\ j \in Seq(InfoChunk) /\ DOMAIN j = DOMAIN i
      /\ \A k \in DOMAIN i : k # 1 => j[k] = i[k]
      /\ \A k \in DOMAIN i : j[k].n = i[k].n
      /\ j[1].num = i[1].num - 1
      /\ j[1].num > 0 => j[1].first = IF s + 1 = n THEN 0 ELSE s + 1
      /\ \A t \in 0..(n - 1) : j[1].blocks[t] = IF t = s THEN NoBlock ELSE i[1].blocks[t]
  BY DEF Without
<1>8. /\ l \in Seq(MemChunk) /\ DOMAIN l = DOMAIN m
      /\ \A d \in DOMAIN m : l[d].cap = m[d].cap /\ l[d].first = m[d].first /\ l[d].used = m[d].used
      /\ \A d \in DOMAIN m : d # 1 => l[d] = m[d]
      /\ l[1].num = m[1].num - 1
  BY DEF CountedDown
<1>9. Slots(j) = Slots(i) \ {p0}
  <2>1. ASSUME NEW p \in (DOMAIN i) \X Nat PROVE p \in Slots(j) <=> p \in Slots(i) /\ p # p0
    <3>1. p = <<p[1], p[2]>> /\ p[1] \in DOMAIN i /\ p[2] \in Nat
      BY <2>1
    <3>2. CASE p[1] # 1
      BY <3>1, <3>2, <1>7 DEF Slots
    <3>3. CASE p[1] = 1
      <4>1. p[2] < n => p[2] \in 0..(n - 1)
        BY <3>1, <1>6
      <4>2. p = p0 <=> p[2] = s
        BY <3>1, <3>3
      <4> QED BY <3>1, <3>3, <4>1, <4>2, <1>7 DEF Slots
    <3> QED BY <3>2, <3>3
  <2>2. Slots(j) \subseteq (DOMAIN i) \X Nat /\ Slots(i) \subseteq (DOMAIN i) \X Nat
    BY <1>7 DEF Slots
  <2> QED BY <2>1, <2>2
<1> HIDE DEF p0
<1>10. ASSUME NEW p \in Slots(j)
       PROVE  p \in Slots(i) /\ p # p0 /\ At(j, p) = At(i, p) /\ p[1] \in DOMAIN i /\ p[1] \in Nat
              /\ p[2] \in 0..(i[p[1]].n - 1) /\ p = <<p[1], p[2]>>
  <2>1. p \in Slots(i) /\ p # p0
    BY <1>9
  <2>2. p[1] \in DOMAIN i /\ p[1] \in Nat /\ p[2] \in 0..(i[p[1]].n - 1) /\ p = <<p[1], p[2]>>
    BY <2>1, <1>1, SlotFacts
  <2>3. At(j, p) = At(i, p)
    BY <2>1, <2>2, <1>7 DEF At, p0
  <2> QED BY <2>1, <2>2, <2>3
<1>11. \A t \in 0..(n - 1) : t # s /\ j[1].num > 0 =>
          From(j[1].first, n, t) = From(s, n, t) - 1
  <2> SUFFICES ASSUME NEW t \in 0..(n - 1), t # s, j[1].num > 0
               PROVE  From(j[1].first, n, t) = From(s, n, t) - 1
    OBVIOUS
  <2>1. j[1].first = IF s + 1 = n THEN 0 ELSE s + 1
    BY <1>7
  <2>2. n \in Nat \ {0} /\ s \in 0..(n - 1)
    BY <1>6
  <2> HIDE DEF n, s
  <2> QED BY <2>1, <2>2 DEF From
<1>12. Filled(j)
  <2> SUFFICES ASSUME NEW k \in DOMAIN i, NEW t \in 0..(i[k].n - 1)
               PROVE  j[k].blocks[t] # NoBlock <=> From(j[k].first, i[k].n, t) < j[k].num
    BY <1>7 DEF Filled
  <2>1. i[k].blocks[t] # NoBlock <=> From(i[k].first, i[k].n, t) < i[k].num
    BY <1>1 DEF Filled
  <2>2. CASE k # 1
    BY <2>1, <2>2, <1>7
  <2>3. CASE k = 1
    <3>1. j[1].first \in 0..(n - 1) /\ i[1].num \in 1..n
      <4>1. j[1] \in InfoChunk
        BY <1>6, <1>7, ElementOfSeq, LenProperties
      <4>2. j[1].first \in 0..(j[1].n - 1)
        BY <4>1, InfoChunkFields
      <4> QED BY <4>2, <1>6, <1>7
    <3>2. From(j[1].first, n, t) \in Nat /\ From(s, n, t) \in Nat
      <4>1. n \in Nat \ {0} /\ s \in 0..(n - 1) /\ t \in 0..(n - 1)
        BY <2>3, <1>6
      <4> HIDE DEF n, s
      <4>2. From(j[1].first, n, t) \in 0..(n - 1) /\ From(s, n, t) \in 0..(n - 1)
        BY <3>1, <4>1, FromRange
      <4> QED BY <4>1, <4>2
    <3>3. CASE t = s
      <4>1. j[1].blocks[t] = NoBlock
        BY <3>3, <2>3, <1>7
      <4>2. j[1].num > 0 => From(j[1].first, n, t) = n - 1
        <5> SUFFICES ASSUME j[1].num > 0 PROVE From(j[1].first, n, t) = n - 1
          OBVIOUS
        <5>1. j[1].first = IF s + 1 = n THEN 0 ELSE s + 1
          BY <1>7
        <5>2. n \in Nat \ {0} /\ s \in 0..(n - 1)
          BY <1>6
        <5> HIDE DEF n, s
        <5> QED BY <3>3, <5>1, <5>2 DEF From
      <4>3. ~(From(j[1].first, n, t) < j[1].num)
        <5>1. j[1].num = i[1].num - 1 /\ i[1].num \in 1..n /\ n \in Nat
          BY <1>6, <1>7, <3>1
        <5> HIDE DEF n
        <5> QED BY <4>2, <3>2, <5>1
      <4> QED BY <4>1, <4>3, <2>3
    <3>4. CASE t # s
      <4>1. j[1].blocks[t] = i[1].blocks[t]
        BY <3>4, <2>3, <1>7
      <4>2. j[1].num > 0 => From(j[1].first, n, t) = From(s, n, t) - 1
        BY <3>4, <2>3, <1>11
      <4>3. From(s, n, t) # 0
        BY <3>4, <2>3, <1>6 DEF From
      <4>4. j[1].num = i[1].num - 1 /\ i[1].num \in Nat
        BY <1>7, <3>1
      <4>5. From(j[1].first, n, t) < j[1].num <=> From(s, n, t) < i[1].num
        <5> DEFINE x == From(j[1].first, n, t)
                   y == From(s, n, t)
                   v == j[1].num
        <5>1. x \in Nat /\ y \in Nat /\ y # 0 /\ i[1].num = v + 1 /\ v \in Nat /\ (v > 0 => x = y - 1)
          BY <3>1, <3>2, <4>2, <4>3, <4>4
        <5> HIDE DEF x, y, v
        <5>2. x < v <=> y < v + 1
          BY <5>1
        <5> QED BY <5>1, <5>2 DEF x, y, v
      <4> QED BY <4>1, <4>5, <2>1, <2>3
    <3> QED BY <3>3, <3>4
  <2> QED BY <2>2, <2>3
<1>13. \A p, q \in Slots(j) : Precedes(j, p, q) => Precedes(i, p, q)
  <2> SUFFICES ASSUME NEW p \in Slots(j), NEW q \in Slots(j), Precedes(j, p, q), p[1] = q[1]
               PROVE  Age(i, p) < Age(i, q)
    BY DEF Precedes
  <2>1. Age(j, p) < Age(j, q)
    BY <1>10 DEF Precedes
  <2>2. CASE p[1] # 1
    BY <2>1, <2>2, <1>7, <1>10 DEF Age
  <2>3. CASE p[1] = 1
    <3>1. p[2] # s /\ q[2] # s /\ p[2] \in 0..(n - 1) /\ q[2] \in 0..(n - 1)
      BY <2>3, <1>10 DEF p0
    <3>2. j[1].num > 0
      <4>1. /\ j[1].n \in Nat \ {0} /\ j[1].first \in 0..(j[1].n - 1) /\ j[1].num \in 0..j[1].n
        BY <1>6, <1>7, ElementOfSeq, LenProperties, InfoChunkFields
      <4>2. From(j[1].first, j[1].n, p[2]) < j[1].num
        <5>1. j[1].blocks[p[2]] # NoBlock
          BY <2>3 DEF Slots
        <5> QED BY <5>1, <3>1, <1>6, <1>7, <1>12 DEF Filled
      <4> QED BY <4>1, <4>2, <3>1, <1>6, <1>7 DEF From
    <3>3. Age(j, p) = Age(i, p) - 1 /\ Age(j, q) = Age(i, q) - 1
      BY <2>3, <3>1, <3>2, <1>6, <1>7, <1>11 DEF Age
    <3>4. Age(i, p) \in Int /\ Age(i, q) \in Int
      BY <2>3, <3>1, <1>6 DEF Age, From
    <3> QED BY <2>1, <3>3, <3>4
  <2> QED BY <2>2, <2>3
<1>14. \A p \in Slots(i) : At(i, p).chunk \in DOMAIN m
  BY <1>1 DEF Placed, Lies
<1>15. \A a : a.chunk \in DOMAIN m => Start(l, a) = Start(m, a)
  BY <1>8 DEF Start
<1>16. Placed(l, j)
  <2> SUFFICES ASSUME NEW p \in Slots(j) PROVE Lies(l, At(j, p))
    BY DEF Placed
  <2>1. p \in Slots(i) /\ At(j, p) = At(i, p)
    BY <1>10
  <2>2. Lies(m, At(i, p))
    BY <2>1, <1>1 DEF Placed
  <2> QED BY <2>1, <2>2, <1>8, <1>14, <1>15 DEF Lies
<1>17. Ordered(l, j)
  <2> SUFFICES ASSUME NEW p \in Slots(j), NEW q \in Slots(j), Precedes(j, p, q)
               PROVE  Behind(l, At(j, p), At(j, q))
    BY DEF Ordered
  <2>1. p \in Slots(i) /\ q \in Slots(i) /\ At(j, p) = At(i, p) /\ At(j, q) = At(i, q)
    BY <1>10
  <2>2. Behind(m, At(i, p), At(i, q))
    BY <2>1, <1>1, <1>13 DEF Ordered
  <2> QED BY <2>1, <2>2, <1>14, <1>15 DEF Behind
<1>18. Counted(l, j)
  <2> SUFFICES ASSUME NEW d \in DOMAIN m PROVE Counts(j, d, l[d].num)
    BY <1>8 DEF Counted
  <2>1. Counts(i, d, m[d].num)
    BY <1>1 DEF Counted
  <2>2. CASE d = 1
    <3>1. InChunk(j, d) = InChunk(i, d) \ {p0} /\ p0 \in InChunk(i, d)
      BY <2>2, <1>3, <1>4, <1>9, <1>10 DEF InChunk
    <3>2. IsFiniteSet(InChunk(j, d)) /\ Cardinality(InChunk(j, d)) = Cardinality(InChunk(i, d)) - 1
      BY <2>1, <3>1, FS_RemoveElement DEF Counts
    <3> QED BY <2>1, <2>2, <3>2, <1>8 DEF Counts
  <2>3. CASE d # 1
    <3>1. InChunk(j, d) = InChunk(i, d)
      BY <2>3, <1>4, <1>9, <1>10 DEF InChunk
    <3> QED BY <2>1, <2>3, <3>1, <1>8 DEF Counts
  <2> QED BY <2>2, <2>3
<1>19. Claimed(j, hs)
  <2>1. ASSUME NEW x \in hs PROVE Names(j, x)
    <3>1. Names(i, x) /\ x \in Handle
      BY <1>1 DEF Claimed
    <3>2. /\ x.info \in DOMAIN i /\ x.index \in Nat /\ x.index < i[x.info].n
          /\ At(i, <<x.info, x.index>>) = Block(x.chunk, x.offset, x.size)
      BY <3>1 DEF Names, Handle, At
    <3>3. <<x.info, x.index>> \in Slots(i)
      BY <3>2 DEF Slots, At, Block, NoBlock
    <3>4. <<x.info, x.index>> # p0
      BY <3>2, <1>5 DEF Block
    <3>5. <<x.info, x.index>> \in Slots(j)
      BY <3>3, <3>4, <1>9
    <3>6. At(j, <<x.info, x.index>>) = At(i, <<x.info, x.index>>)
      BY <3>5, <1>10
    <3> QED BY <3>2, <3>6, <1>7 DEF Names, At
  <2>2. \A p \in Slots(j) : At(j, p).live => \E x \in hs : x.info = p[1] /\ x.index = p[2]
    BY <1>1, <1>10 DEF Claimed
  <2> QED BY <2>1, <2>2 DEF Claimed
<1> QED BY <1>1, <1>7, <1>8, <1>12, <1>16, <1>17, <1>18, <1>19, SoundParts DEF Rings

(* The chunks l are the chunks m without the first g, the rings j the      *)
(* rings i without the first q, and both are numbered from 1 again.        *)
Renumbered(b, g) == IF b = NoBlock THEN NoBlock ELSE [b EXCEPT !.chunk = @ - g]
MemDropped(m, g, l) ==
  /\ g \in Nat /\ l \in Seq(MemChunk)
  /\ \A d \in Nat \ {0} : d \in DOMAIN l <=> d + g \in DOMAIN m
  /\ \A d \in DOMAIN l : l[d] = m[d + g]
InfoDropped(i, q, g, j) ==
  /\ q \in Nat /\ j \in Seq(InfoChunk)
  /\ \A k \in Nat \ {0} : k \in DOMAIN j <=> k + q \in DOMAIN i
  /\ \A k \in DOMAIN j : /\ j[k].n = i[k + q].n /\ j[k].first = i[k + q].first /\ j[k].num = i[k + q].num
                         /\ \A s \in 0..(j[k].n - 1) : j[k].blocks[s] = Renumbered(i[k + q].blocks[s], g)
Later(h, q, g) == [h EXCEPT !.info = @ - q, !.chunk = @ - g]

(* What the fields of a handle are when lists lost their first chunks.     *)
LEMMA LaterFields ==
  ASSUME NEW h \in Handle, NEW q \in Nat, NEW g \in Nat, q < h.info, g < h.chunk
  PROVE  /\ Later(h, q, g) \in Handle /\ Later(h, q, g).info = h.info - q
         /\ Later(h, q, g).chunk = h.chunk - g /\ Later(h, q, g).index = h.index
         /\ Later(h, q, g).offset = h.offset /\ Later(h, q, g).size = h.size
<1> DEFINE u == h.info - q
           v == h.chunk - g
           d == Later(h, q, g)
<1>1. u \in Nat /\ v \in Nat /\ d = [h EXCEPT !.info = u, !.chunk = v]
  BY DEF Handle, Later
<1> HIDE DEF u, v, d
<1>2. d \in Handle          BY <1>1 DEF Handle
<1>3. d.info = u            BY <1>1 DEF Handle
<1>4. d.chunk = v           BY <1>1 DEF Handle
<1>5. d.index = h.index     BY <1>1 DEF Handle
<1>6. d.offset = h.offset   BY <1>1 DEF Handle
<1>7. d.size = h.size       BY <1>1 DEF Handle
<1> QED BY <1>2, <1>3, <1>4, <1>5, <1>6, <1>7 DEF d, u, v

(* What the fields of a block are when the list of memory chunks lost its  *)
(* first.                                                                  *)
LEMMA RenumberedFields ==
  ASSUME NEW b \in Blocks, NEW g \in Nat
  PROVE  /\ b = NoBlock => Renumbered(b, g) = NoBlock
         /\ b # NoBlock /\ g < b.chunk =>
              /\ Renumbered(b, g) \in Blocks /\ Renumbered(b, g) # NoBlock
              /\ Renumbered(b, g).chunk = b.chunk - g /\ Renumbered(b, g).live = b.live
              /\ Renumbered(b, g).offset = b.offset /\ Renumbered(b, g).size = b.size
<1> DEFINE v == b.chunk - g
           d == [b EXCEPT !.chunk = v]
<1>1. b # NoBlock => Renumbered(b, g) = d
  BY DEF Renumbered
<1>2. g < b.chunk => v \in Nat /\ v # 0
  BY DEF Blocks
<1> HIDE DEF v
<1>3. v \in Nat => /\ d \in Blocks /\ d.chunk = v /\ d.live = b.live /\ d.offset = b.offset /\ d.size = b.size
  BY DEF Blocks
<1>4. NoBlock.chunk = 0
  BY DEF NoBlock
<1> HIDE DEF d
<1> QED BY <1>1, <1>2, <1>3, <1>4 DEF v, Renumbered

(* Sequences are numbered from 1.                                          *)
LEMMA SeqDomain ==
  ASSUME NEW S, NEW s \in Seq(S) PROVE \A k \in DOMAIN s : k \in Nat \ {0}
  BY LenProperties

(* Where the first chunks of the lists hold no active block, the rings are *)
(* sound without them.                                                     *)
LEMMA DropFirst ==
  ASSUME NEW m, NEW i, NEW hs, Sound(m, i, hs), NEW g, NEW q, NEW l, NEW j,
         MemDropped(m, g, l), InfoDropped(i, q, g, j),
         \A p \in Slots(i) : q < p[1] /\ g < At(i, p).chunk
  PROVE  Sound(l, j, {Later(h, q, g) : h \in hs})
<1> DEFINE F(p) == <<p[1] + q, p[2]>>
           B(p) == <<p[1] - q, p[2]>>
           ks == {Later(h, q, g) : h \in hs}
<1>1. /\ Rings(m, i) /\ hs \subseteq Handle
      /\ Filled(i) /\ Placed(m, i) /\ Ordered(m, i) /\ Counted(m, i) /\ Claimed(i, hs)
  BY SoundParts
<1>2. m \in Seq(MemChunk) /\ i \in Seq(InfoChunk)
  BY <1>1 DEF Rings
<1>3. /\ g \in Nat /\ l \in Seq(MemChunk)
      /\ \A d \in Nat \ {0} : d \in DOMAIN l <=> d + g \in DOMAIN m
      /\ \A d \in DOMAIN l : l[d] = m[d + g]
  BY DEF MemDropped
<1>4. /\ q \in Nat /\ j \in Seq(InfoChunk)
      /\ \A k \in Nat \ {0} : k \in DOMAIN j <=> k + q \in DOMAIN i
      /\ \A k \in DOMAIN j : /\ j[k].n = i[k + q].n /\ j[k].first = i[k + q].first /\ j[k].num = i[k + q].num
                             /\ \A s \in 0..(j[k].n - 1) : j[k].blocks[s] = Renumbered(i[k + q].blocks[s], g)
  BY DEF InfoDropped
<1>5. /\ \A k \in DOMAIN l : k \in Nat \ {0}
      /\ \A k \in DOMAIN j : k \in Nat \ {0}
      /\ \A k \in DOMAIN m : k \in Nat \ {0}
      /\ \A k \in DOMAIN i : k \in Nat \ {0}
  <2>1. \A k \in DOMAIN l : k \in Nat \ {0}  BY <1>3, SeqDomain
  <2>2. \A k \in DOMAIN j : k \in Nat \ {0}  BY <1>4, SeqDomain
  <2>3. \A k \in DOMAIN m : k \in Nat \ {0}  BY <1>2, SeqDomain
  <2>4. \A k \in DOMAIN i : k \in Nat \ {0}  BY <1>2, SeqDomain
  <2> QED BY <2>1, <2>2, <2>3, <2>4
<1>6. Rings(l, j)
  BY <1>3, <1>4 DEF Rings
<1>7. \A k \in DOMAIN i : i[k].n \in Nat \ {0} /\ i[k].blocks \in [0..(i[k].n - 1) -> Blocks]
  BY <1>2, ElementOfSeq, LenProperties, InfoChunkFields
<1>8. \A k \in DOMAIN i : \A s \in 0..(i[k].n - 1) :
        i[k].blocks[s] # NoBlock => q < k /\ g < i[k].blocks[s].chunk
  <2> SUFFICES ASSUME NEW k \in DOMAIN i, NEW s \in 0..(i[k].n - 1), i[k].blocks[s] # NoBlock
               PROVE  q < k /\ g < i[k].blocks[s].chunk
    OBVIOUS
  <2>1. <<k, s>> \in Slots(i)
    BY <1>5, <1>7 DEF Slots
  <2> QED BY <2>1 DEF At
<1>9. \A k \in DOMAIN j : \A s \in 0..(j[k].n - 1) : j[k].blocks[s] # NoBlock <=> i[k + q].blocks[s] # NoBlock
  <2> SUFFICES ASSUME NEW k \in DOMAIN j, NEW s \in 0..(j[k].n - 1)
               PROVE  j[k].blocks[s] # NoBlock <=> i[k + q].blocks[s] # NoBlock
    OBVIOUS
  <2>1. k + q \in DOMAIN i /\ s \in 0..(i[k + q].n - 1) /\ j[k].blocks[s] = Renumbered(i[k + q].blocks[s], g)
    BY <1>4, <1>5
  <2>2. i[k + q].blocks[s] \in Blocks
    BY <2>1, <1>7
  <2> DEFINE b == i[k + q].blocks[s]
  <2>3. b # NoBlock => g < b.chunk
    BY <2>1, <1>8
  <2> HIDE DEF b
  <2>4. Renumbered(b, g) # NoBlock <=> b # NoBlock
    <3>1. b \in Blocks /\ g \in Nat
      BY <2>2, <1>3 DEF b
    <3> QED BY <3>1, <2>3, RenumberedFields
  <2> QED BY <2>1, <2>4 DEF b
<1>10. ASSUME NEW p \in Slots(j)
       PROVE  /\ p[1] \in DOMAIN j /\ p[1] \in Nat \ {0} /\ p[2] \in Nat /\ p = <<p[1], p[2]>>
              /\ F(p) \in Slots(i) /\ At(j, p) \in Blocks
              /\ At(j, p).chunk = At(i, F(p)).chunk - g /\ At(j, p).live = At(i, F(p)).live
              /\ At(j, p).offset = At(i, F(p)).offset /\ At(j, p).size = At(i, F(p)).size
              /\ Age(j, p) = Age(i, F(p))
  <2>1. /\ p[1] \in DOMAIN j /\ p[1] \in Nat /\ p[2] \in 0..(j[p[1]].n - 1) /\ p = <<p[1], p[2]>>
        /\ At(j, p) # NoBlock
    BY <1>6, SlotFacts
  <2>2. /\ p[1] + q \in DOMAIN i /\ p[2] \in 0..(i[p[1] + q].n - 1) /\ p[1] \in Nat \ {0}
        /\ i[p[1] + q].n \in Nat
    BY <2>1, <1>4, <1>5, <1>7
  <2>3. i[p[1] + q].blocks[p[2]] # NoBlock /\ i[p[1] + q].blocks[p[2]] \in Blocks
    BY <2>1, <2>2, <1>7, <1>9 DEF At
  <2>4. F(p) \in Slots(i)
    BY <2>2, <2>3 DEF Slots
  <2>5. At(j, p) = Renumbered(At(i, F(p)), g)
    BY <2>1, <1>4 DEF At
  <2>6. g < At(i, F(p)).chunk
    BY <2>4
  <2>7. Age(j, p) = Age(i, F(p))
    BY <2>1, <1>4 DEF Age
  <2>8. At(i, F(p)) \in Blocks /\ At(i, F(p)) # NoBlock
    BY <2>3 DEF At
  <2> QED BY <2>1, <2>2, <2>4, <2>5, <2>6, <2>7, <2>8, <1>3, RenumberedFields
<1>11. ASSUME NEW p \in Slots(i) PROVE B(p) \in Slots(j) /\ F(B(p)) = p
  <2>1. /\ p[1] \in DOMAIN i /\ p[1] \in Nat /\ p[2] \in 0..(i[p[1]].n - 1) /\ p = <<p[1], p[2]>>
        /\ At(i, p) # NoBlock /\ q < p[1]
    BY <1>1, SlotFacts
  <2>2. p[1] - q \in Nat \ {0} /\ (p[1] - q) + q = p[1]
    BY <2>1, <1>4
  <2>3. p[1] - q \in DOMAIN j
    BY <2>1, <2>2, <1>4
  <2>4. j[p[1] - q].n = i[p[1]].n
    BY <2>2, <2>3, <1>4
  <2>5. j[p[1] - q].blocks[p[2]] # NoBlock
    BY <2>1, <2>2, <2>3, <2>4, <1>9 DEF At
  <2>6. p[2] < i[p[1]].n /\ p[2] \in Nat
    BY <2>1, <1>7
  <2> QED BY <2>1, <2>2, <2>3, <2>4, <2>5, <2>6 DEF Slots
<1>12. ASSUME NEW p \in Slots(j)
       PROVE  Lies(l, At(j, p)) /\ Start(l, At(j, p)) = Start(m, At(i, F(p)))
  <2> DEFINE a == At(j, p)
             b == At(i, F(p))
  <2>1. b.chunk \in DOMAIN m /\ Lies(m, b) /\ g < b.chunk
    BY <1>1, <1>10 DEF Placed, Lies
  <2>2. a.chunk = b.chunk - g /\ a.offset = b.offset /\ a.size = b.size
    BY <1>10
  <2> HIDE DEF a, b
  <2>3. a.chunk \in Nat \ {0} /\ a.chunk + g = b.chunk
    <3>1. b.chunk \in Nat /\ g \in Nat /\ g < b.chunk /\ a.chunk = b.chunk - g
      BY <2>1, <2>2, <1>3, <1>5
    <3> QED BY <3>1
  <2>4. a.chunk \in DOMAIN l /\ l[a.chunk] = m[b.chunk]
    BY <2>1, <2>3, <1>3
  <2>5. Start(l, a) = Start(m, b)
    BY <2>2, <2>4 DEF Start
  <2> QED BY <2>1, <2>2, <2>4, <2>5 DEF Lies, a, b
<1>13. Filled(j)
  <2> SUFFICES ASSUME NEW k \in DOMAIN j, NEW s \in 0..(j[k].n - 1)
               PROVE  j[k].blocks[s] # NoBlock <=> From(j[k].first, j[k].n, s) < j[k].num
    BY DEF Filled
  <2>1. k + q \in DOMAIN i /\ s \in 0..(i[k + q].n - 1)
    BY <1>4, <1>5
  <2>2. i[k + q].blocks[s] # NoBlock <=> From(i[k + q].first, i[k + q].n, s) < i[k + q].num
    BY <2>1, <1>1 DEF Filled
  <2> QED BY <2>2, <1>4, <1>9
<1>14. Placed(l, j)
  BY <1>12 DEF Placed
<1>15. Ordered(l, j)
  <2> SUFFICES ASSUME NEW p \in Slots(j), NEW r \in Slots(j), Precedes(j, p, r)
               PROVE  Behind(l, At(j, p), At(j, r))
    BY DEF Ordered
  <2>1. Precedes(i, F(p), F(r))
    <3>1. p[1] \in Nat /\ r[1] \in Nat /\ Age(j, p) = Age(i, F(p)) /\ Age(j, r) = Age(i, F(r))
      BY <1>10
    <3>2. F(p)[1] = p[1] + q /\ F(r)[1] = r[1] + q
      OBVIOUS
    <3> HIDE DEF F
    <3> QED BY <3>1, <3>2, <1>4 DEF Precedes
  <2>2. Behind(m, At(i, F(p)), At(i, F(r)))
    BY <2>1, <1>1, <1>10 DEF Ordered
  <2>3. At(i, F(p)).chunk \in Nat /\ At(i, F(r)).chunk \in Nat
    BY <1>1, <1>10, SlotFacts DEF Blocks
  <2>4. /\ At(j, p).chunk = At(i, F(p)).chunk - g /\ At(j, r).chunk = At(i, F(r)).chunk - g
        /\ At(j, p).size = At(i, F(p)).size
    BY <1>10
  <2>5. Start(l, At(j, p)) = Start(m, At(i, F(p))) /\ Start(l, At(j, r)) = Start(m, At(i, F(r)))
    BY <1>12
  <2> DEFINE a == At(i, F(p))
             b == At(i, F(r))
             x == At(j, p)
             y == At(j, r)
  <2>6. /\ a.chunk \in Nat /\ b.chunk \in Nat /\ g \in Nat
        /\ x.chunk = a.chunk - g /\ y.chunk = b.chunk - g /\ x.size = a.size
        /\ Start(l, x) = Start(m, a) /\ Start(l, y) = Start(m, b) /\ Behind(m, a, b)
    BY <2>2, <2>3, <2>4, <2>5, <1>3
  <2> HIDE DEF a, b, x, y
  <2>7. Behind(l, x, y)
    <3>1. a.chunk <= b.chunk /\ (a.chunk = b.chunk => Start(m, a) + a.size <= Start(m, b))
      BY <2>6 DEF Behind
    <3>2. x.chunk <= y.chunk
      BY <2>6, <3>1
    <3>3. x.chunk = y.chunk => a.chunk = b.chunk
      BY <2>6
    <3> QED BY <2>6, <3>1, <3>2, <3>3 DEF Behind
  <2> QED BY <2>7 DEF x, y
<1>16. Counted(l, j)
  <2> SUFFICES ASSUME NEW d \in DOMAIN l PROVE Counts(j, d, l[d].num)
    BY DEF Counted
  <2>1. d \in Nat /\ d + g \in DOMAIN m /\ l[d] = m[d + g]
    BY <1>3, <1>5
  <2>2. Counts(i, d + g, l[d].num)
    BY <2>1, <1>1 DEF Counted
  <2> DEFINE S == InChunk(i, d + g)
             T == InChunk(j, d)
             f == [p \in S |-> B(p)]
  <2>3. \A p \in S : p \in Slots(i) /\ At(i, p).chunk = d + g
    BY DEF InChunk
  <2>4. \A p \in S : B(p) \in T
    <3> SUFFICES ASSUME NEW p \in S PROVE B(p) \in T
      OBVIOUS
    <3>1. B(p) \in Slots(j) /\ F(B(p)) = p
      BY <2>3, <1>11
    <3>2. At(j, B(p)).chunk = At(i, p).chunk - g
      BY <3>1, <1>10
    <3>3. At(j, B(p)).chunk = (d + g) - g
      BY <3>2, <2>3
    <3>4. (d + g) - g = d
      BY <2>1, <1>3
    <3> HIDE DEF B
    <3> QED BY <3>1, <3>3, <3>4 DEF InChunk
  <2>5. \A t \in T : F(t) \in S /\ B(F(t)) = t
    <3> SUFFICES ASSUME NEW t \in T PROVE F(t) \in S /\ B(F(t)) = t
      OBVIOUS
    <3>1. t \in Slots(j) /\ At(j, t).chunk = d
      BY DEF InChunk
    <3>2. /\ F(t) \in Slots(i) /\ At(j, t).chunk = At(i, F(t)).chunk - g
          /\ t[1] \in Nat /\ t = <<t[1], t[2]>>
      BY <3>1, <1>10
    <3>3. At(i, F(t)).chunk \in Nat
      BY <3>2, <1>1, SlotFacts DEF Blocks
    <3>4. At(i, F(t)).chunk = d + g
      BY <3>1, <3>2, <3>3, <2>1, <1>3
    <3>5. B(F(t)) = t
      BY <3>2, <1>4
    <3> QED BY <3>2, <3>4, <3>5 DEF InChunk
  <2>6. \A p \in S : F(B(p)) = p
    BY <2>3, <1>11
  <2> HIDE DEF S, T, F, B
  <2>7. f \in [S -> T] /\ \A p \in S : f[p] = B(p)
    BY <2>4
  <2> HIDE DEF f
  <2>8. f \in Bijection(S, T)
    <3>1. \A a, b \in S : f[a] = f[b] => a = b
      BY <2>6, <2>7
    <3>2. \A t \in T : \E a \in S : f[a] = t
      BY <2>5, <2>7
    <3> QED BY <2>7, <3>1, <3>2 DEF Bijection, Injection, Surjection, IsInjective
  <2>9. IsFiniteSet(S) /\ l[d].num = Cardinality(S)
    BY <2>2 DEF Counts, S
  <2>10. IsFiniteSet(T) /\ Cardinality(T) = Cardinality(S)
    BY <2>8, <2>9, FS_Bijection DEF ExistsBijection
  <2> QED BY <2>9, <2>10 DEF Counts, T
<1>17. ASSUME NEW h \in hs
       PROVE  /\ h \in Handle /\ Later(h, q, g) \in Handle /\ <<h.info, h.index>> \in Slots(i)
              /\ Later(h, q, g).info = h.info - q /\ Later(h, q, g).index = h.index
              /\ Names(j, Later(h, q, g))
  <2>1. Names(i, h) /\ h \in Handle
    BY <1>1 DEF Claimed
  <2>2. /\ h.info \in DOMAIN i /\ h.index \in Nat /\ h.index < i[h.info].n
        /\ At(i, <<h.info, h.index>>) = Block(h.chunk, h.offset, h.size)
    BY <2>1 DEF Names, Handle, At
  <2> DEFINE p == <<h.info, h.index>>
             x == Later(h, q, g)
  <2>3. p \in Slots(i)
    BY <2>2 DEF Slots, At, Block, NoBlock
  <2>4. q < h.info /\ g < h.chunk
    BY <2>2, <2>3 DEF Block
  <2>5. /\ x \in Handle /\ x.info = h.info - q
        /\ x.chunk = h.chunk - g /\ x.index = h.index
        /\ x.offset = h.offset /\ x.size = h.size
    BY <2>1, <2>4, <1>3, <1>4, LaterFields
  <2>6. B(p) \in Slots(j) /\ F(B(p)) = p /\ B(p) = <<x.info, x.index>>
    BY <2>3, <2>5, <1>11
  <2> HIDE DEF x, p
  <2>7. /\ At(j, B(p)) \in Blocks /\ At(j, B(p)).chunk = At(i, p).chunk - g /\ At(j, B(p)).live = At(i, p).live
        /\ At(j, B(p)).offset = At(i, p).offset /\ At(j, B(p)).size = At(i, p).size
    BY <2>6, <1>10
  <2>8. /\ At(i, p).chunk = h.chunk /\ At(i, p).live = TRUE /\ At(i, p).offset = h.offset
        /\ At(i, p).size = h.size
    BY <2>2 DEF Block, p
  <2>9. At(j, B(p)) = Block(x.chunk, x.offset, x.size)
    BY <2>5, <2>7, <2>8 DEF Blocks, Block
  <2>10. B(p)[1] \in DOMAIN j /\ B(p)[2] < j[B(p)[1]].n
    BY <2>6 DEF Slots
  <2>11. Names(j, x)
    BY <2>6, <2>9, <2>10 DEF Names, At
  <2> QED BY <2>1, <2>3, <2>5, <2>11 DEF x, p
<1>18. Claimed(j, ks)
  <2>1. \A x \in ks : Names(j, x)
    BY <1>17
  <2>2. ASSUME NEW p \in Slots(j), At(j, p).live
        PROVE  \E x \in ks : x.info = p[1] /\ x.index = p[2]
    <3>1. F(p) \in Slots(i) /\ At(i, F(p)).live /\ p[1] \in Nat
      BY <2>2, <1>10
    <3>2. PICK h \in hs : h.info = p[1] + q /\ h.index = p[2]
      BY <3>1, <1>1 DEF Claimed
    <3>3. Later(h, q, g).info = p[1] /\ Later(h, q, g).index = p[2]
      <4>1. Later(h, q, g).info = h.info - q /\ Later(h, q, g).index = h.index
        BY <1>17
      <4>2. (p[1] + q) - q = p[1]
        BY <3>1, <1>4
      <4> QED BY <3>2, <4>1, <4>2
    <3> QED BY <3>3
  <2> QED BY <2>1, <2>2 DEF Claimed
<1>19. ks \subseteq Handle
  BY <1>17
<1> QED BY <1>6, <1>13, <1>14, <1>15, <1>16, <1>18, <1>19, SoundParts

(* A chunk that holds nothing can be reset.                                *)
LEMMA ResetFirst ==
  ASSUME NEW m, NEW i, NEW hs, Sound(m, i, hs), m # <<>>
  PROVE  LET l == [m EXCEPT ![1] = ResetIfEmpty(@)]
         IN  /\ Sound(l, i, hs) /\ DOMAIN l = DOMAIN m /\ \A d \in DOMAIN m : l[d].num = m[d].num
             /\ l[1].num = 0 => l[1].first = 0 /\ l[1].used = 0
<1> DEFINE x == ResetIfEmpty(m[1])
           l == [m EXCEPT ![1] = x]
<1>1. /\ Rings(m, i) /\ hs \subseteq Handle
      /\ Filled(i) /\ Placed(m, i) /\ Ordered(m, i) /\ Counted(m, i) /\ Claimed(i, hs)
  BY SoundParts
<1>2. m \in Seq(MemChunk) /\ i \in Seq(InfoChunk)
  BY <1>1 DEF Rings
<1>3. 1 \in DOMAIN m /\ m[1] \in MemChunk /\ m[1] \in MemRecord
  BY <1>2, ElementOfSeq, LenProperties DEF MemChunk
<1>4. m[1].cap \in Nat \ {0} /\ m[1].num \in Nat
  BY <1>3, MemChunkFields
<1>5. x.num = m[1].num /\ x \in MemChunk /\ (m[1].num = 0 => x.first = 0 /\ x.used = 0) /\ (m[1].num # 0 => x = m[1])
  <2>1. CASE m[1].num = 0
    <3> DEFINE r == m[1]
               y == [r EXCEPT !.first = 0, !.used = 0]
    <3>1. x = y /\ r \in MemRecord
      BY <2>1, <1>3 DEF ResetIfEmpty
    <3> HIDE DEF r
    <3>2. y \in MemRecord   BY <3>1 DEF MemRecord
    <3>3. y.first = 0       BY <3>1 DEF MemRecord
    <3>4. y.used = 0        BY <3>1 DEF MemRecord
    <3>5. y.num = r.num     BY <3>1 DEF MemRecord
    <3>6. y.cap = r.cap     BY <3>1 DEF MemRecord
    <3> HIDE DEF y
    <3>7. y \in MemChunk
      BY <3>2, <3>3, <3>4, <3>6, <1>4 DEF MemChunk, r
    <3> QED BY <2>1, <3>1, <3>3, <3>4, <3>5, <3>7 DEF r
  <2>2. CASE m[1].num # 0
    BY <2>2, <1>3 DEF ResetIfEmpty
  <2> QED BY <2>1, <2>2
<1> HIDE DEF x
<1>6. l \in Seq(MemChunk) /\ DOMAIN l = DOMAIN m /\ l[1] = x /\ \A d \in DOMAIN m : d # 1 => l[d] = m[d]
  BY <1>2, <1>3, <1>5, ExceptSeq
<1>7. ASSUME NEW p \in Slots(i)
      PROVE  /\ Lies(m, At(i, p)) /\ At(i, p).chunk \in DOMAIN m
             /\ l[At(i, p).chunk] = m[At(i, p).chunk] /\ Start(l, At(i, p)) = Start(m, At(i, p))
  <2>1. Lies(m, At(i, p)) /\ At(i, p).chunk \in DOMAIN m
    BY <1>1 DEF Placed, Lies
  <2>2. l[At(i, p).chunk] = m[At(i, p).chunk]
    <3>1. CASE At(i, p).chunk = 1 /\ m[1].num = 0
      <4>1. InChunk(i, 1) = {}
        <5>1. Counts(i, 1, m[1].num)
          BY <1>1, <1>3 DEF Counted
        <5> QED BY <5>1, <3>1, FS_EmptySet DEF Counts
      <4> QED BY <4>1, <3>1 DEF InChunk
    <3>2. CASE At(i, p).chunk = 1 /\ m[1].num # 0
      BY <3>2, <1>5, <1>6
    <3>3. CASE At(i, p).chunk # 1
      BY <3>3, <2>1, <1>6
    <3> QED BY <3>1, <3>2, <3>3
  <2>3. Start(l, At(i, p)) = Start(m, At(i, p))
    BY <2>2 DEF Start
  <2> QED BY <2>1, <2>2, <2>3
<1>8. \A d \in DOMAIN m : l[d].num = m[d].num
  BY <1>5, <1>6
<1> HIDE DEF l
<1>9. Placed(l, i)
  <2> SUFFICES ASSUME NEW p \in Slots(i) PROVE Lies(l, At(i, p))
    BY DEF Placed
  <2> QED BY <1>6, <1>7 DEF Lies
<1>10. Ordered(l, i)
  BY <1>1, <1>7 DEF Ordered, Behind
<1>11. Counted(l, i)
  BY <1>1, <1>6, <1>8 DEF Counted
<1>12. Rings(l, i)
  BY <1>2, <1>6 DEF Rings
<1>13. Sound(l, i, hs)
  BY <1>1, <1>9, <1>10, <1>11, <1>12, SoundParts
<1>14. l[1].num = 0 => l[1].first = 0 /\ l[1].used = 0
  BY <1>5, <1>6
<1> QED BY <1>6, <1>8, <1>13, <1>14 DEF l, x

(* The blocks of an info chunk are renumbered.                             *)
RenumberedChunk(r, g) ==
  [r EXCEPT !.blocks = [s \in DOMAIN r.blocks |->
                          IF r.blocks[s] = NoBlock THEN NoBlock
                          ELSE [r.blocks[s] EXCEPT !.chunk = @ - g]]]

(* What the fields of a renumbered info chunk are.                         *)
LEMMA RenumberedChunkFields ==
  ASSUME NEW r \in InfoChunk, NEW g \in Nat,
         \A s \in 0..(r.n - 1) : r.blocks[s] # NoBlock => g < r.blocks[s].chunk
  PROVE  LET x == RenumberedChunk(r, g)
         IN  /\ x \in InfoChunk /\ x.n = r.n /\ x.first = r.first /\ x.num = r.num
             /\ \A s \in 0..(r.n - 1) : x.blocks[s] = Renumbered(r.blocks[s], g)
<1> DEFINE w == [s \in 0..(r.n - 1) |-> Renumbered(r.blocks[s], g)]
           x == [r EXCEPT !.blocks = w]
<1>1. /\ r.n \in Nat \ {0} /\ r.first \in 0..(r.n - 1) /\ r.num \in 0..r.n
      /\ r.blocks \in [0..(r.n - 1) -> Blocks] /\ r \in InfoRecord
  BY InfoChunkFields DEF InfoChunk
<1>2. RenumberedChunk(r, g) = x
  <2>1. DOMAIN r.blocks = 0..(r.n - 1)
    BY <1>1
  <2> QED BY <2>1 DEF RenumberedChunk, Renumbered
<1>3. \A s \in 0..(r.n - 1) : Renumbered(r.blocks[s], g) \in Blocks
  <2> SUFFICES ASSUME NEW s \in 0..(r.n - 1) PROVE Renumbered(r.blocks[s], g) \in Blocks
    OBVIOUS
  <2> DEFINE b == r.blocks[s]
  <2>1. b \in Blocks /\ (b # NoBlock => g < b.chunk)
    BY <1>1
  <2> HIDE DEF b
  <2>2. NoBlock \in Blocks
    BY DEF NoBlock, Blocks
  <2>3. Renumbered(b, g) \in Blocks
    BY <2>1, <2>2, RenumberedFields
  <2> QED BY <2>3 DEF b
<1>4. w \in [0..(r.n - 1) -> Blocks] /\ \A s \in 0..(r.n - 1) : w[s] = Renumbered(r.blocks[s], g)
  BY <1>3
<1>5. w \in BlockTables
  BY <1>1, <1>4 DEF BlockTables
<1> HIDE DEF w
<1>6. /\ x \in InfoRecord /\ x.n = r.n /\ x.first = r.first /\ x.num = r.num /\ x.blocks = w
  BY <1>1, <1>5 DEF InfoRecord
<1> HIDE DEF x
<1>7. x \in InfoChunk
  BY <1>1, <1>4, <1>6 DEF InfoChunk
<1> QED BY <1>2, <1>4, <1>6, <1>7

(* What renumbering makes of the info rings.                               *)
LEMMA RenumberedRings ==
  ASSUME NEW i \in Seq(InfoChunk), NEW g \in Nat,
         \A k \in DOMAIN i : \A s \in 0..(i[k].n - 1) : i[k].blocks[s] # NoBlock => g < i[k].blocks[s].chunk
  PROVE  LET j == [k \in DOMAIN i |-> RenumberedChunk(i[k], g)]
         IN  /\ j \in Seq(InfoChunk) /\ DOMAIN j = DOMAIN i
             /\ \A k \in DOMAIN i :
                  /\ j[k].n = i[k].n /\ j[k].first = i[k].first /\ j[k].num = i[k].num
                  /\ \A s \in 0..(i[k].n - 1) : j[k].blocks[s] = Renumbered(i[k].blocks[s], g)
<1> DEFINE j == [k \in DOMAIN i |-> RenumberedChunk(i[k], g)]
<1>1. ASSUME NEW k \in DOMAIN i
      PROVE  /\ j[k] \in InfoChunk
             /\ j[k].n = i[k].n /\ j[k].first = i[k].first /\ j[k].num = i[k].num
             /\ \A s \in 0..(i[k].n - 1) : j[k].blocks[s] = Renumbered(i[k].blocks[s], g)
  <2> DEFINE r == i[k]
  <2>1. r \in InfoChunk
    BY ElementOfSeq, LenProperties
  <2>2. \A s \in 0..(r.n - 1) : r.blocks[s] # NoBlock => g < r.blocks[s].chunk
    OBVIOUS
  <2>3. j[k] = RenumberedChunk(r, g)
    OBVIOUS
  <2> HIDE DEF r, j
  <2> QED BY <2>1, <2>2, <2>3, RenumberedChunkFields DEF r
<1>2. DOMAIN i = 1..Len(i) /\ Len(i) \in Nat
  BY LenProperties
<1>3. j \in [1..Len(i) -> InfoChunk]
  BY <1>1, <1>2
<1>4. j \in Seq(InfoChunk)
  BY <1>2, <1>3, SeqDef
<1> QED BY <1>1, <1>4

(* The chunks that RemoveHead drops: at most the first.                    *)
LEMMA EmptyChunksAreFew ==
  ASSUME NEW l \in Seq(MemChunk), l # <<>>, \A d \in DOMAIN l : d # 1 => l[d].num > 0
  PROVE  /\ EmptyChunks(l) \in {0, 1} /\ EmptyChunks(l) < Len(l)
         /\ EmptyChunks(l) = 1 => l[1].num = 0
         /\ EmptyChunks(l) = 0 => Len(l) = 1 \/ l[1].num > 0
<1>1. DOMAIN l = 1..Len(l) /\ Len(l) \in Nat /\ Len(l) > 0
  BY LenProperties
<1>2. \A d \in DOMAIN l : l[d].num \in Nat
  BY <1>1, ElementOfSeq, MemChunkFields
<1> DEFINE P(k) == /\ \A d \in 1..k : l[d].num = 0
                   /\ k + 1 = Len(l) \/ l[k + 1].num > 0
<1>3. \E k \in 0..(Len(l) - 1) : P(k)
  <2>1. CASE Len(l) = 1 \/ l[1].num > 0
    <3>1. 0 \in 0..(Len(l) - 1) /\ P(0)
      BY <2>1, <1>1
    <3> QED BY <3>1
  <2>2. CASE Len(l) # 1 /\ ~(l[1].num > 0)
    <3>1. l[1].num = 0 /\ 2 \in DOMAIN l
      BY <2>2, <1>1, <1>2
    <3>2. 1 \in 0..(Len(l) - 1) /\ P(1)
      BY <3>1, <1>1
    <3> QED BY <3>2
  <2> QED BY <2>1, <2>2
<1>4. EmptyChunks(l) = CHOOSE k \in 0..(Len(l) - 1) : P(k)
  BY DEF EmptyChunks
<1>5. EmptyChunks(l) \in 0..(Len(l) - 1) /\ P(EmptyChunks(l))
  BY <1>3, <1>4
<1>6. EmptyChunks(l) < 2
  <2> SUFFICES ASSUME EmptyChunks(l) >= 2 PROVE FALSE
    BY <1>1, <1>5
  <2>1. 2 \in 1..EmptyChunks(l) /\ 2 \in DOMAIN l
    BY <1>1, <1>5
  <2>2. l[2].num = 0
    BY <2>1, <1>5
  <2> QED BY <2>1, <2>2
<1> QED BY <1>1, <1>5, <1>6

(* The first entry of an info ring taken, and a ring that has become       *)
(* empty starting over at 0: what RemoveHead does to the first ring.       *)
Popped(c) == [c EXCEPT !.first = (@ + 1) % c.n, !.num = @ - 1, !.blocks[c.first] = NoBlock]
Restarted(c) == IF c.num = 0 THEN [c EXCEPT !.first = 0] ELSE c

(* What RemoveHead makes of the info rings, before it drops any.           *)
LEMMA HeadTaken ==
  ASSUME NEW i \in Seq(InfoChunk), i # <<>>, i[1].num > 0
  PROVE  /\ Without(i, [i EXCEPT ![1] = Restarted(Popped(i[1]))])
         /\ Popped(i[1]).num = i[1].num - 1
<1> DEFINE c == i[1]
           s == c.first
           v == c.num - 1
           f == (s + 1) % c.n
           w == [c.blocks EXCEPT ![s] = NoBlock]
           y == [c EXCEPT !.first = f, !.num = v, !.blocks = w]
           x == Restarted(y)
           j == [i EXCEPT ![1] = x]
<1>1. 1 \in DOMAIN i /\ c \in InfoChunk /\ c \in InfoRecord
  BY ElementOfSeq, LenProperties DEF InfoChunk
<1>2. /\ c.n \in Nat \ {0} /\ s \in 0..(c.n - 1) /\ c.num \in 1..c.n
      /\ c.blocks \in [0..(c.n - 1) -> Blocks]
  BY <1>1, InfoChunkFields
<1>3. Popped(c) = y
  BY DEF Popped
<1>4. NoBlock \in Blocks
  BY DEF NoBlock, Blocks
<1>5. /\ w \in [0..(c.n - 1) -> Blocks]
      /\ \A t \in 0..(c.n - 1) : w[t] = IF t = s THEN NoBlock ELSE c.blocks[t]
  BY <1>2, <1>4
<1>6. w \in BlockTables
  BY <1>2, <1>5 DEF BlockTables
<1>7. f = (IF s + 1 = c.n THEN 0 ELSE s + 1) /\ f \in 0..(c.n - 1) /\ v \in 0..(c.n - 1)
  <2>1. CASE s + 1 = c.n
    <3>1. f = (s + 1) - c.n
      BY <2>1, <1>2, ModWraps
    <3> QED BY <2>1, <3>1, <1>2
  <2>2. CASE s + 1 # c.n
    <3> HIDE DEF s, c
    <3>1. s + 1 \in Nat /\ c.n \in Nat /\ s + 1 < c.n
      BY <2>2, <1>2
    <3>2. (s + 1) % c.n = s + 1
      BY <3>1, ModIsSmall
    <3> QED BY <2>2, <3>1, <3>2, <1>2, SMTT(30)
  <2> QED BY <2>1, <2>2
<1>18. x = IF y.num = 0 THEN [y EXCEPT !.first = 0] ELSE y
  BY DEF Restarted
<1> HIDE DEF w, f, v, s, x
<1>8. y \in InfoRecord /\ f \in Nat /\ v \in Nat
  <2>1. f \in Nat /\ v \in Nat
    BY <1>2, <1>7
  <2> QED BY <2>1, <1>1, <1>6 DEF InfoRecord
<1>9. y.n = c.n         BY <1>1, <1>6, <1>8 DEF InfoRecord
<1>10. y.first = f      BY <1>1, <1>6, <1>8 DEF InfoRecord
<1>11. y.num = v        BY <1>1, <1>6, <1>8 DEF InfoRecord
<1>12. y.blocks = w     BY <1>1, <1>6, <1>8 DEF InfoRecord
<1> HIDE DEF y
<1>13. y \in InfoChunk
  BY <1>2, <1>5, <1>7, <1>8, <1>9, <1>10, <1>11, <1>12 DEF InfoChunk
<1>14. x \in InfoChunk /\ x.n = c.n /\ x.num = v /\ x.blocks = w /\ (v > 0 => x.first = f)
  <2>1. CASE v = 0
    <3>1. x = [y EXCEPT !.first = 0]
      BY <2>1, <1>18, <1>11
    <3> DEFINE z == [y EXCEPT !.first = 0]
    <3>2. z \in InfoRecord     BY <1>8 DEF InfoRecord
    <3>3. z.n = y.n            BY <1>8 DEF InfoRecord
    <3>4. z.first = 0          BY <1>8 DEF InfoRecord
    <3>5. z.num = y.num        BY <1>8 DEF InfoRecord
    <3>6. z.blocks = y.blocks  BY <1>8 DEF InfoRecord
    <3> HIDE DEF z
    <3>7. z \in InfoChunk
      BY <1>2, <1>5, <1>7, <1>9, <1>11, <1>12, <3>2, <3>3, <3>4, <3>5, <3>6 DEF InfoChunk
    <3>8. x = z
      BY <3>1 DEF z
    <3>9. x.n = c.n /\ x.num = v
      BY <3>8, <3>3, <3>5, <1>9, <1>11
    <3>10. x.blocks = w
      BY <3>8, <3>6, <1>12
    <3>11. ~(v > 0)
      BY <2>1
    <3> QED BY <3>7, <3>8, <3>9, <3>10, <3>11
  <2>2. CASE v # 0
    <3>1. x = y
      BY <2>2, <1>18, <1>11
    <3> QED BY <3>1, <1>9, <1>10, <1>11, <1>12, <1>13
  <2> QED BY <2>1, <2>2
<1>15. j \in Seq(InfoChunk) /\ DOMAIN j = DOMAIN i /\ j[1] = x /\ \A l \in DOMAIN i : l # 1 => j[l] = i[l]
  <2> HIDE DEF c
  <2> QED BY <1>1, <1>14, ExceptSeq
<1> HIDE DEF j
<1>16. Without(i, j)
  <2>1. \A t \in 0..(i[1].n - 1) : j[1].blocks[t] = IF t = i[1].first THEN NoBlock ELSE i[1].blocks[t]
    BY <1>5, <1>14, <1>15 DEF s
  <2>2. j[1].n = i[1].n /\ j[1].num = i[1].num - 1
    BY <1>14, <1>15 DEF v
  <2>3. j[1].num > 0 => j[1].first = IF i[1].first + 1 = i[1].n THEN 0 ELSE i[1].first + 1
    BY <1>7, <1>14, <1>15 DEF s
  <2> QED BY <2>1, <2>2, <2>3, <1>15 DEF Without
<1>17. j = [i EXCEPT ![1] = Restarted(Popped(i[1]))]
  BY <1>3 DEF j, x
<1> QED BY <1>3, <1>11, <1>16, <1>17 DEF v

(* What RemoveHead makes of the memory chunks, before it drops any.        *)
LEMMA FirstCountedDown ==
  ASSUME NEW m \in Seq(MemChunk), 1 \in DOMAIN m, m[1].num > 0
  PROVE  CountedDown(m, [m EXCEPT ![1].num = @ - 1])
<1> DEFINE c == m[1]
           v == c.num - 1
           x == [c EXCEPT !.num = v]
           l == [m EXCEPT ![1] = x]
<1>1. c \in MemChunk /\ c \in MemRecord
  BY ElementOfSeq, LenProperties DEF MemChunk
<1>2. /\ c.cap \in Nat \ {0} /\ c.first \in 0..(c.cap - 1) /\ c.used \in 0..c.cap /\ c.num \in Nat
  BY <1>1, MemChunkFields
<1>3. v \in Nat
  BY <1>2
<1> HIDE DEF v
<1>4. x \in MemRecord /\ x.cap = c.cap /\ x.first = c.first /\ x.used = c.used /\ x.num = v
  BY <1>1, <1>3 DEF MemRecord
<1> HIDE DEF x
<1>5. x \in MemChunk
  BY <1>2, <1>4 DEF MemChunk
<1>6. l \in Seq(MemChunk) /\ DOMAIN l = DOMAIN m /\ l[1] = x /\ \A d \in DOMAIN m : d # 1 => l[d] = m[d]
  BY <1>5, ExceptSeq
<1> HIDE DEF l
<1>7. CountedDown(m, l)
  BY <1>4, <1>6 DEF CountedDown, v
<1>8. [m EXCEPT ![1].num = @ - 1] = l
  BY DEF l, x, v
<1> QED BY <1>7, <1>8

(* What SubSeq leaves of the memory chunks.                                *)
LEMMA ChunksDropped ==
  ASSUME NEW m \in Seq(MemChunk), NEW g \in {0, 1}, g < Len(m)
  PROVE  LET l == SubSeq(m, g + 1, Len(m))
         IN  MemDropped(m, g, l) /\ l \in Seq(MemChunk) /\ Len(l) = Len(m) - g
<1> DEFINE l == SubSeq(m, g + 1, Len(m))
<1>1. Len(m) \in Nat /\ DOMAIN m = 1..Len(m) /\ g \in Nat
  BY LenProperties
<1>2. /\ l \in Seq(MemChunk) /\ Len(l) = Len(m) - g
      /\ \A k \in 1..(Len(m) - g) : l[k] = m[k + g]
  <2>1. /\ l \in Seq(MemChunk)
        /\ Len(l) = IF g + 1 <= Len(m) THEN Len(m) - (g + 1) + 1 ELSE 0
        /\ \A k \in 1..Len(l) : l[k] = m[(g + 1) + k - 1]
    <3>1. \A k \in (g + 1)..Len(m) : m[k] \in MemChunk
      BY <1>1, ElementOfSeq
    <3>2. g + 1 \in 1..(Len(m) + 1) /\ Len(m) \in g..Len(m)
      BY <1>1
    <3> QED BY <1>1, <3>1, <3>2, SubSeqProperties
  <2>2. Len(l) = Len(m) - g
    <3> HIDE DEF l
    <3>1. g + 1 <= Len(m) /\ Len(m) - (g + 1) + 1 = Len(m) - g
      BY <1>1
    <3> QED BY <2>1, <3>1
  <2>3. \A k \in 1..(Len(m) - g) : (g + 1) + k - 1 = k + g
    BY <1>1
  <2> HIDE DEF l
  <2> QED BY <2>1, <2>2, <2>3
<1> HIDE DEF l
<1>3. DOMAIN l = 1..(Len(m) - g)
  BY <1>2, LenProperties
<1>4. \A d \in Nat \ {0} : d \in DOMAIN l <=> d + g \in DOMAIN m
  BY <1>1, <1>3
<1>5. MemDropped(m, g, l)
  BY <1>1, <1>2, <1>3, <1>4 DEF MemDropped
<1> QED BY <1>2, <1>5 DEF l

(* What is left of the info rings.                                         *)
LEMMA RingsDropped ==
  ASSUME NEW i \in Seq(InfoChunk), NEW q \in {0, 1}, q < Len(i), NEW g \in Nat,
         NEW s \in Seq(InfoChunk), Len(s) = Len(i) - q, \A k \in DOMAIN s : s[k] = i[k + q],
         \A p \in Slots(i) : q < p[1] /\ g < At(i, p).chunk,
         NEW j, j = [k \in DOMAIN s |-> RenumberedChunk(s[k], g)]
  PROVE  InfoDropped(i, q, g, j) /\ DOMAIN j = DOMAIN s
<1>1. /\ Len(i) \in Nat /\ DOMAIN i = 1..Len(i) /\ DOMAIN s = 1..(Len(i) - q) /\ q \in Nat
  BY LenProperties
<1>2. \A k \in DOMAIN i : i[k].n \in Nat
  BY ElementOfSeq, LenProperties, InfoChunkFields
<1>3. \A k \in DOMAIN s : \A t \in 0..(s[k].n - 1) : s[k].blocks[t] # NoBlock => g < s[k].blocks[t].chunk
  <2> SUFFICES ASSUME NEW k \in DOMAIN s, NEW t \in 0..(s[k].n - 1), s[k].blocks[t] # NoBlock
               PROVE  g < s[k].blocks[t].chunk
    OBVIOUS
  <2>1. k + q \in DOMAIN i /\ s[k] = i[k + q]
    BY <1>1
  <2>2. t \in Nat /\ t < i[k + q].n
    BY <2>1, <1>2
  <2>3. <<k + q, t>> \in Slots(i)
    BY <2>1, <2>2 DEF Slots
  <2> QED BY <2>1, <2>3 DEF At
<1>4. /\ j \in Seq(InfoChunk) /\ DOMAIN j = DOMAIN s
      /\ \A k \in DOMAIN s :
           /\ j[k].n = s[k].n /\ j[k].first = s[k].first /\ j[k].num = s[k].num
           /\ \A t \in 0..(s[k].n - 1) : j[k].blocks[t] = Renumbered(s[k].blocks[t], g)
  BY <1>3, RenumberedRings
<1>5. \A k \in Nat \ {0} : k \in DOMAIN j <=> k + q \in DOMAIN i
  BY <1>1, <1>4
<1>6. \A k \in DOMAIN j :
        /\ j[k].n = i[k + q].n /\ j[k].first = i[k + q].first /\ j[k].num = i[k + q].num
        /\ \A t \in 0..(j[k].n - 1) : j[k].blocks[t] = Renumbered(i[k + q].blocks[t], g)
  BY <1>4
<1> QED BY <1>1, <1>4, <1>5, <1>6 DEF InfoDropped

(* What RemoveHead drops holds no block.                                   *)
LEMMA DroppedIsEmpty ==
  ASSUME NEW m, NEW i, NEW hs, Sound(m, i, hs), m # <<>>, i # <<>>,
         NEW q \in {0, 1}, q = 1 => i[1].num = 0, NEW g \in {0, 1}, g = 1 => m[1].num = 0
  PROVE  \A p \in Slots(i) : q < p[1] /\ g < At(i, p).chunk
<1> SUFFICES ASSUME NEW p \in Slots(i) PROVE q < p[1] /\ g < At(i, p).chunk
  OBVIOUS
<1>1. /\ Rings(m, i) /\ Filled(i) /\ Placed(m, i) /\ Counted(m, i)
      /\ m \in Seq(MemChunk) /\ i \in Seq(InfoChunk)
  BY SoundParts DEF Rings
<1>2. /\ p[1] \in DOMAIN i /\ p[1] \in Nat \ {0} /\ p[2] \in 0..(i[p[1]].n - 1)
      /\ i[p[1]] \in InfoChunk /\ At(i, p) # NoBlock
  BY <1>1, SlotFacts, SeqDomain
<1>3. At(i, p).chunk \in DOMAIN m /\ At(i, p).chunk \in Nat \ {0}
  BY <1>1, SeqDomain DEF Placed, Lies
<1>4. q < p[1]
  <2>1. CASE q = 0
    BY <2>1, <1>2
  <2>2. CASE q = 1 /\ p[1] = 1
    <3>1. From(i[1].first, i[1].n, p[2]) < 0
      BY <2>2, <1>1, <1>2 DEF Filled, At
    <3>2. i[1].n \in Nat \ {0} /\ i[1].first \in 0..(i[1].n - 1)
      BY <2>2, <1>2, InfoChunkFields
    <3>3. From(i[1].first, i[1].n, p[2]) \in 0..(i[1].n - 1)
      BY <3>2, <2>2, <1>2, FromRange
    <3> QED BY <3>1, <3>2, <3>3
  <2>3. CASE q = 1 /\ p[1] # 1
    BY <2>3, <1>2
  <2> QED BY <2>1, <2>2, <2>3
<1>5. g < At(i, p).chunk
  <2>1. CASE g = 0
    BY <2>1, <1>3
  <2>2. CASE g = 1 /\ At(i, p).chunk = 1
    <3>1. Counts(i, 1, 0)
      BY <2>2, <1>1, <1>3 DEF Counted
    <3>2. InChunk(i, 1) = {}
      BY <3>1, FS_EmptySet DEF Counts
    <3> QED BY <3>2, <2>2 DEF InChunk
  <2>3. CASE g = 1 /\ At(i, p).chunk # 1
    BY <2>3, <1>3
  <2> QED BY <2>1, <2>2, <2>3
<1> QED BY <1>4, <1>5

(* A pass of Dispose's loop that removes the head preserves the invariant. *)
LEMMA RemoveHeadKeepsInv ==
  ASSUME RBInv, RemoveHead PROVE RBInv'
<1> DEFINE p0 == <<1, info[1].first>>
           counted == [mem EXCEPT ![1].num = @ - 1]
           gone == EmptyChunks(counted)
           chunks == SubSeq(counted, gone + 1, Len(counted))
           r == [info[1] EXCEPT !.first = (@ + 1) % info[1].n, !.num = @ - 1,
                                !.blocks[info[1].first] = NoBlock]
           x == IF r.num = 0 THEN [r EXCEPT !.first = 0] ELSE r
           q == IF r.num = 0 /\ Len(info) > 1 THEN 1 ELSE 0
           j == [info EXCEPT ![1] = x]
           infos == IF q = 1 THEN Tail(info) ELSE j
           rings == [k \in DOMAIN infos |-> RenumberedChunk(infos[k], gone)]
           later == {Later(h, q, gone) : h \in held}
<1>1. /\ reclaiming /\ info[1].num > 0 /\ ~HeadBlock.live /\ info # <<>> /\ mem # <<>>
      /\ Sound(mem, info, held) /\ MemBusy(mem) /\ InfoBusy(info)
      /\ mem \in Seq(MemChunk) /\ info \in Seq(InfoChunk)
      /\ Rings(mem, info) /\ Filled(info)
  BY SoundParts DEF RemoveHead, RBInv, Rings
<1>2. HeadBlock = At(info, p0) /\ HeadBlock.chunk = 1
  <2>1. HeadBlock = At(info, p0)
    BY DEF HeadBlock, HeadSlot, At
  <2> QED BY <2>1, <1>1, HeadInFirstChunk
<1>3. /\ mem' = [chunks EXCEPT ![1] = ResetIfEmpty(@)] /\ info' = rings /\ held' = later
      /\ reclaiming' = reclaiming
  <2> DEFINE c == [mem EXCEPT ![HeadBlock.chunk].num = @ - 1]
             g == EmptyChunks(c)
             is == [k \in DOMAIN infos |-> RenumberedChunk(infos[k], g)]
             hs == {Later(h, q, g) : h \in held}
             cs == SubSeq(c, g + 1, Len(c))
  <2>1. c = counted
    BY <1>2
  <2>2. mem' = [cs EXCEPT ![1] = ResetIfEmpty(@)] /\ reclaiming' = reclaiming
    BY DEF RemoveHead
  <2>3. info' = is
    BY DEF RemoveHead, HeadSlot, RenumberedChunk
  <2>4. held' = hs
    BY DEF RemoveHead, HeadSlot, Later
  <2>5. g = gone
    BY <2>1
  <2>6. is = rings /\ hs = later
    <3> HIDE DEF g, gone, q, infos
    <3> QED BY <2>5
  <2>7. cs = chunks
    BY <2>1
  <2> HIDE DEF cs, is, hs, chunks, rings, later
  <2> QED BY <2>2, <2>3, <2>4, <2>6, <2>7
<1>4. /\ Len(info) \in Nat \ {0} /\ Len(mem) \in Nat \ {0}
      /\ DOMAIN info = 1..Len(info) /\ DOMAIN mem = 1..Len(mem)
  BY <1>1, LenProperties
<1>5. 1 \in DOMAIN mem /\ mem[1].num > 0
  <2>1. p0 \in Slots(info)
    BY <1>1, HeadIsOldest
  <2>2. mem[1].num # 0
    BY <2>1, <1>1, <1>4, EmptyChunkMeansNoHandle
  <2>3. mem[1].num \in Nat
    BY <1>1, <1>4, ElementOfSeq, MemChunkFields
  <2> QED BY <2>2, <2>3, <1>4
<1>6. CountedDown(mem, counted)
  BY <1>1, <1>5, FirstCountedDown
<1>7. Without(info, j) /\ r.num = info[1].num - 1
  <2>1. r = Popped(info[1])
    BY DEF Popped
  <2>2. x = Restarted(r)
    BY DEF Restarted
  <2>3. j = [info EXCEPT ![1] = Restarted(Popped(info[1]))]
    BY <2>1, <2>2
  <2>4. info \in Seq(InfoChunk) /\ info # <<>> /\ info[1].num > 0
    BY <1>1
  <2> HIDE DEF r, x, j
  <2>5. /\ Without(info, [info EXCEPT ![1] = Restarted(Popped(info[1]))])
        /\ Popped(info[1]).num = info[1].num - 1
    BY <2>4, HeadTaken
  <2> QED BY <2>1, <2>3, <2>5
<1> HIDE DEF r, x, j, counted
<1>8. Sound(counted, j, held)
  BY <1>1, <1>2, <1>6, <1>7, RemoveOldest
<1>9. /\ counted \in Seq(MemChunk) /\ DOMAIN counted = DOMAIN mem /\ Len(counted) = Len(mem)
      /\ counted # <<>> /\ \A d \in DOMAIN mem : d # 1 => counted[d].num > 0
  <2>1. counted \in Seq(MemChunk) /\ DOMAIN counted = DOMAIN mem /\ \A d \in DOMAIN mem : d # 1 => counted[d] = mem[d]
    BY <1>6 DEF CountedDown
  <2>2. Len(counted) = Len(mem)
    BY <2>1, <1>4, LenProperties
  <2>3. \A d \in DOMAIN mem : d # 1 => mem[d].num > 0
    <3> SUFFICES ASSUME NEW d \in DOMAIN mem, d # 1 PROVE mem[d].num > 0
      OBVIOUS
    <3>1. mem[d].num \in Nat
      BY <1>1, <1>4, ElementOfSeq, MemChunkFields
    <3>2. mem[d].num # 0
      BY <1>1, <1>4 DEF MemBusy
    <3> QED BY <3>1, <3>2
  <2>4. counted # <<>>
    BY <2>1, <2>2, <1>4
  <2> QED BY <2>1, <2>2, <2>3, <2>4
<1>10. /\ gone \in {0, 1} /\ gone < Len(counted)
       /\ gone = 1 => counted[1].num = 0
       /\ gone = 0 => Len(counted) = 1 \/ counted[1].num > 0
  BY <1>9, EmptyChunksAreFew
<1> HIDE DEF gone
<1>11. /\ j \in Seq(InfoChunk) /\ DOMAIN j = DOMAIN info /\ Len(j) = Len(info) /\ j # <<>>
       /\ j[1].num = info[1].num - 1 /\ \A k \in DOMAIN info : k # 1 => j[k] = info[k]
  <2>1. /\ j \in Seq(InfoChunk) /\ DOMAIN j = DOMAIN info
        /\ j[1].num = info[1].num - 1 /\ \A k \in DOMAIN info : k # 1 => j[k] = info[k]
    BY <1>7 DEF Without
  <2> QED BY <2>1, <1>4, LenProperties
<1>12. q \in {0, 1} /\ q < Len(j) /\ (q = 1 => j[1].num = 0) /\ (q = 0 => Len(j) = 1 \/ j[1].num # 0)
  BY <1>4, <1>7, <1>11
<1>13. \A p \in Slots(j) : q < p[1] /\ gone < At(j, p).chunk
  <2> HIDE DEF q
  <2> QED BY <1>8, <1>9, <1>10, <1>11, <1>12, DroppedIsEmpty
<1>14. infos \in Seq(InfoChunk) /\ Len(infos) = Len(j) - q /\ \A k \in DOMAIN infos : infos[k] = j[k + q]
  <2>1. CASE q = 1
    <3>1. /\ Tail(info) \in Seq(InfoChunk) /\ Len(Tail(info)) = Len(info) - 1
          /\ \A k \in 1..Len(Tail(info)) : Tail(info)[k] = info[k + 1]
      BY <1>1, HeadTailProperties
    <3>2. infos = Tail(info)
      BY <2>1
    <3>3. \A k \in DOMAIN infos : k + 1 \in DOMAIN info /\ k + 1 # 1
      BY <3>1, <3>2, <1>4, LenProperties
    <3> HIDE DEF infos, q
    <3>4. \A k \in DOMAIN infos : infos[k] = j[k + 1]
      BY <3>1, <3>2, <3>3, <1>11, LenProperties
    <3> QED BY <2>1, <3>1, <3>2, <3>4, <1>11
  <2>2. CASE q = 0
    <3>1. infos = j
      BY <2>2
    <3> HIDE DEF infos, q
    <3> QED BY <2>2, <3>1, <1>4, <1>11, LenProperties
  <2> QED BY <1>12, <2>1, <2>2
<1> HIDE DEF q, infos
<1>15. gone \in Nat
  BY <1>10
<1>16. InfoDropped(j, q, gone, rings) /\ DOMAIN rings = DOMAIN infos
  BY <1>11, <1>12, <1>13, <1>14, <1>15, RingsDropped
<1> HIDE DEF rings
<1>17. MemDropped(counted, gone, chunks) /\ chunks \in Seq(MemChunk) /\ Len(chunks) = Len(counted) - gone
  BY <1>9, <1>10, ChunksDropped
<1> HIDE DEF chunks
<1>18. Sound(chunks, rings, later)
  BY <1>8, <1>13, <1>16, <1>17, DropFirst
<1>19. chunks # <<>> /\ DOMAIN chunks = 1..Len(chunks) /\ Len(chunks) \in Nat \ {0}
  <2>1. Len(chunks) > 0 /\ Len(chunks) \in Nat
    BY <1>10, <1>17, LenProperties
  <2> QED BY <2>1, <1>17, LenProperties
<1>20. /\ Sound(mem', info', held') /\ DOMAIN mem' = DOMAIN chunks
       /\ \A d \in DOMAIN chunks : mem'[d].num = chunks[d].num
       /\ mem'[1].num = 0 => mem'[1].first = 0 /\ mem'[1].used = 0
  <2> HIDE DEF later
  <2> QED BY <1>3, <1>18, <1>19, ResetFirst
<1>21. Len(mem') = Len(chunks) /\ mem' # <<>>
  <2>1. mem' \in Seq(MemChunk)
    BY <1>20, SoundParts DEF Rings
  <2> QED BY <2>1, <1>19, <1>20, LenProperties
<1>22. MemBusy(mem')
  <2> SUFFICES ASSUME NEW d \in DOMAIN mem', mem'[d].num = 0
               PROVE  Len(mem') = 1 /\ mem'[d].first = 0 /\ mem'[d].used = 0
    BY DEF MemBusy
  <2>1. /\ d \in 1..Len(chunks) /\ d + gone \in DOMAIN counted /\ counted[d + gone].num = 0
        /\ d + gone \in Nat
    <3>1. d \in 1..Len(chunks) /\ d \in DOMAIN chunks /\ d \in Nat \ {0} /\ chunks[d].num = 0
      BY <1>19, <1>20
    <3> QED BY <3>1, <1>15, <1>17 DEF MemDropped
  <2>2. d + gone = 1
    BY <2>1, <1>9
  <2>3. d = 1 /\ gone = 0
    BY <2>1, <2>2, <1>10, <1>19
  <2>4. Len(counted) = 1
    BY <2>1, <2>3, <1>10
  <2> QED BY <2>3, <2>4, <2>1, <1>17, <1>20, <1>21
<1>23. /\ info' \in Seq(InfoChunk) /\ info' # <<>> /\ Len(info') = Len(j) - q /\ DOMAIN info' = 1..Len(info')
  <2>1. info' \in Seq(InfoChunk) /\ DOMAIN info' = DOMAIN infos
    BY <1>3, <1>16 DEF InfoDropped
  <2>2. Len(info') = Len(infos) /\ Len(info') \in Nat /\ DOMAIN info' = 1..Len(info')
    BY <2>1, <1>14, LenProperties
  <2>3. Len(info') > 0
    BY <2>2, <1>4, <1>11, <1>12, <1>14
  <2> QED BY <2>1, <2>2, <2>3, <1>14
<1>24. InfoBusy(info')
  <2> SUFFICES ASSUME NEW k \in DOMAIN info', info'[k].num = 0 PROVE Len(info') = 1
    BY DEF InfoBusy
  <2>1. k \in Nat \ {0} /\ k \in 1..Len(info') /\ k + q \in DOMAIN j /\ j[k + q].num = 0
    <3>1. k \in Nat \ {0} /\ k \in 1..Len(info')
      BY <1>23
    <3> QED BY <3>1, <1>3, <1>16 DEF InfoDropped
  <2>2. CASE k + q = 1
    <3>1. q = 0 /\ j[1].num = 0
      BY <2>1, <2>2, <1>12
    <3> QED BY <3>1, <1>4, <1>11, <1>12, <1>23
  <2>3. CASE k + q # 1
    <3>1. info[k + q].num = 0 /\ k + q \in DOMAIN info
      BY <2>1, <2>3, <1>11
    <3>2. Len(info) = 1
      BY <3>1, <1>1 DEF InfoBusy
    <3> QED BY <3>1, <3>2, <2>3, <1>4
  <2> QED BY <2>2, <2>3
<1> QED BY <1>1, <1>3, <1>20, <1>21, <1>22, <1>23, <1>24 DEF RBInv, Sound

-----------------------------------------------------------------------------
(* The theorems.                                                           *)

(* An empty buffer has the invariant.                                      *)
LEMMA InitSound ==
  ASSUME Init PROVE RBInv
<1>1. mem = <<>> /\ info = <<>> /\ held = {} /\ reclaiming = FALSE
  BY DEF Init
<1>2. <<>> \in Seq(MemChunk) /\ <<>> \in Seq(InfoChunk) /\ DOMAIN <<>> = {}
  BY EmptySeq
<1>3. Slots(info) = {}
  BY <1>1, <1>2 DEF Slots
<1>4. Sound(mem, info, held)
  <2>1. Filled(info) /\ Placed(mem, info) /\ Ordered(mem, info)
    BY <1>1, <1>2, <1>3 DEF Filled, Placed, Ordered
  <2>2. Counted(mem, info) /\ Claimed(info, held)
    BY <1>1, <1>2, <1>3 DEF Counted, Claimed
  <2> QED BY <1>1, <1>2, <2>1, <2>2 DEF Sound, Rings
<1> QED BY <1>1, <1>2, <1>4 DEF RBInv, MemBusy, InfoBusy, HeadIsLive

(* Steps that leave the buffer alone preserve the invariant.               *)
LEMMA StutterKeepsInv ==
  ASSUME RBInv, UNCHANGED rbVars PROVE RBInv'
<1>1. mem' = mem /\ info' = info /\ held' = held /\ reclaiming' = reclaiming
  BY DEF rbVars
<1>2. Sound(mem', info', held') /\ MemBusy(mem') /\ InfoBusy(info') /\ (mem' = <<>> <=> info' = <<>>)
  BY <1>1 DEF RBInv
<1>3. HeadIsLive' <=> HeadIsLive
  BY <1>1 DEF HeadIsLive, HeadBlock, HeadSlot
<1> QED BY <1>1, <1>2, <1>3 DEF RBInv, Sound

(* RBInv is an invariant of every buffer whose callers do not ask it,      *)
(* while it is empty, for more than its chunk holds                        *)
(* (ResizableRingBuffer.h, Allocate, Dispose).                             *)
THEOREM RingBufferInv ==
  ASSUME ~GrowsWhenEmpty PROVE Spec => []RBInv
<1>1. Init => RBInv
  BY InitSound
<1>2. RBInv /\ [Next]_rbVars => RBInv'
  <2> SUFFICES ASSUME RBInv, [Next]_rbVars PROVE RBInv'
    OBVIOUS
  <2>1. ASSUME NEW size \in Sizes, NEW align \in Alignments, Allocate(size, align) PROVE RBInv'
    BY <2>1, AllocateKeepsInv
  <2>2. ASSUME NEW h \in held, Dispose(h) PROVE RBInv'
    BY <2>2, DisposeKeepsInv
  <2>3. CASE RemoveHead
    BY <2>3, RemoveHeadKeepsInv
  <2>4. CASE Reclaimed
    BY <2>4, ReclaimedKeepsInv
  <2>5. CASE UNCHANGED rbVars
    BY <2>5, StutterKeepsInv
  <2> QED BY <2>1, <2>2, <2>3, <2>4, <2>5 DEF Next
<1> QED BY <1>1, <1>2, PTL DEF Spec

(* The invariant contains the type invariant.                              *)
LEMMA InvTypeOK == RBInv => RBTypeOK
<1> SUFFICES ASSUME RBInv PROVE RBTypeOK
  OBVIOUS
<1>1. mem \in Seq(MemChunk) /\ info \in Seq(InfoChunk) /\ reclaiming \in BOOLEAN
  BY SoundParts DEF RBInv, Rings
<1>2. ASSUME NEW k \in DOMAIN mem
      PROVE  /\ mem[k].cap \in Nat /\ mem[k].first \in 0..mem[k].cap /\ mem[k].used \in 0..mem[k].cap
             /\ mem[k].num \in Nat
  <2>1. mem[k] \in MemChunk
    BY <1>1, ElementOfSeq, LenProperties
  <2>2. /\ mem[k].cap \in Nat \ {0} /\ mem[k].first \in 0..(mem[k].cap - 1)
        /\ mem[k].used \in 0..mem[k].cap /\ mem[k].num \in Nat
    BY <2>1, MemChunkFields
  <2> QED BY <2>2
<1>3. ASSUME NEW k \in DOMAIN info
      PROVE  /\ info[k].first \in 0..(info[k].n - 1) /\ info[k].num \in 0..info[k].n
             /\ DOMAIN info[k].blocks = 0..(info[k].n - 1)
  <2>1. info[k] \in InfoChunk
    BY <1>1, ElementOfSeq, LenProperties
  <2> QED BY <2>1, InfoChunkFields
<1> QED BY <1>1, <1>2, <1>3 DEF RBTypeOK

(* A handle's place in the info rings is active and is where it says.      *)
LEMMA HandlePlace ==
  ASSUME NEW m, NEW i, NEW hs, Sound(m, i, hs), NEW h \in hs
  PROVE  /\ h \in Handle /\ Names(i, h) /\ <<h.info, h.index>> \in Slots(i)
         /\ At(i, <<h.info, h.index>>) = Block(h.chunk, h.offset, h.size)
         /\ Block(h.chunk, h.offset, h.size) \in Blocks /\ Lies(m, Block(h.chunk, h.offset, h.size))
<1>1. h \in Handle /\ Names(i, h) /\ Placed(m, i)
  BY SoundParts DEF Claimed
<1>2. /\ h.info \in DOMAIN i /\ h.index \in Nat /\ h.index < i[h.info].n
      /\ At(i, <<h.info, h.index>>) = Block(h.chunk, h.offset, h.size)
  BY <1>1 DEF Names, Handle, At
<1>3. <<h.info, h.index>> \in Slots(i)
  BY <1>2 DEF Slots, At, Block, NoBlock
<1>4. Block(h.chunk, h.offset, h.size) \in Blocks
  BY <1>1 DEF Handle, Blocks, Block
<1> QED BY <1>1, <1>2, <1>3, <1>4 DEF Placed

(* Of two active blocks one is older.                                      *)
LEMMA SlotsAreInLine ==
  ASSUME NEW m, NEW i, Rings(m, i), NEW p \in Slots(i), NEW q \in Slots(i), p # q
  PROVE  Precedes(i, p, q) \/ Precedes(i, q, p)
<1>1. /\ p[1] \in Nat /\ p[2] \in 0..(i[p[1]].n - 1) /\ p = <<p[1], p[2]>> /\ i[p[1]] \in InfoChunk
  BY SlotFacts
<1>2. /\ q[1] \in Nat /\ q[2] \in 0..(i[q[1]].n - 1) /\ q = <<q[1], q[2]>>
  BY SlotFacts
<1>3. CASE p[1] # q[1]
  BY <1>1, <1>2, <1>3 DEF Precedes
<1>4. CASE p[1] = q[1]
  <2> DEFINE n == i[p[1]].n
             f == i[p[1]].first
  <2>1. n \in Nat \ {0} /\ f \in 0..(n - 1)
    BY <1>1, InfoChunkFields
  <2>2. p[2] \in 0..(n - 1) /\ q[2] \in 0..(n - 1) /\ p[2] # q[2]
    BY <1>1, <1>2, <1>4
  <2>3. Age(i, p) = From(f, n, p[2]) /\ Age(i, q) = From(f, n, q[2])
    BY <1>4 DEF Age
  <2> HIDE DEF n, f
  <2>4. From(f, n, p[2]) < From(f, n, q[2]) \/ From(f, n, q[2]) < From(f, n, p[2])
    BY <2>1, <2>2 DEF From
  <2> QED BY <2>3, <2>4, <1>4 DEF Precedes
<1> QED BY <1>3, <1>4

(* Parts of a ring of which one starts behind the end of the other.        *)
LEMMA PartsAreDisjoint ==
  ASSUME NEW cap \in Nat \ {0}, NEW first \in 0..(cap - 1), NEW used \in 0..cap,
         NEW x \in Nat, NEW s \in Nat \ {0}, NEW y \in Nat, NEW t \in Nat \ {0},
         x + s <= cap, y + t <= cap,
         From(first, cap, x) + s <= From(first, cap, y), From(first, cap, y) + t <= used
  PROVE  x + s <= y \/ y + t <= x
  BY DEF From

(* A block that lies further on than another shares no byte with it.       *)
LEMMA BehindIsApart ==
  ASSUME NEW m \in Seq(MemChunk), NEW a \in Blocks, NEW b \in Blocks, Lies(m, a), Lies(m, b),
         a.chunk = b.chunk, Behind(m, a, b)
  PROVE  (a.offset .. (a.offset + a.size - 1)) \cap (b.offset .. (b.offset + b.size - 1)) = {}
<1> DEFINE c == m[a.chunk]
<1>1. /\ c \in MemChunk /\ a.size \in Nat \ {0} /\ a.offset \in Nat
      /\ Start(m, a) = From(c.first, c.cap, a.offset) /\ a.offset + a.size <= c.cap
  BY LiesFacts
<1>2. /\ b.size \in Nat \ {0} /\ b.offset \in Nat
      /\ Start(m, b) = From(c.first, c.cap, b.offset) /\ b.offset + b.size <= c.cap
      /\ Start(m, b) + b.size <= c.used
  BY LiesFacts
<1>3. c.cap \in Nat \ {0} /\ c.first \in 0..(c.cap - 1) /\ c.used \in 0..c.cap
  BY <1>1, MemChunkFields
<1>4. Start(m, a) + a.size <= Start(m, b)
  BY DEF Behind
<1>5. a.offset + a.size <= b.offset \/ b.offset + b.size <= a.offset
  <2> DEFINE cap == c.cap
             first == c.first
             used == c.used
             x == a.offset
             y == b.offset
             v == a.size
             w == b.size
  <2> HIDE DEF c
  <2>1. /\ cap \in Nat \ {0} /\ first \in 0..(cap - 1) /\ used \in 0..cap
        /\ x \in Nat /\ v \in Nat \ {0} /\ y \in Nat /\ w \in Nat \ {0}
        /\ x + v <= cap /\ y + w <= cap
        /\ From(first, cap, x) + v <= From(first, cap, y) /\ From(first, cap, y) + w <= used
    BY <1>1, <1>2, <1>3, <1>4
  <2> HIDE DEF cap, first, used, x, y, v, w
  <2>2. x + v <= y \/ y + w <= x
    BY <2>1, PartsAreDisjoint
  <2> QED BY <2>2 DEF x, y, v, w
<1> QED BY <1>1, <1>2, <1>5, SMTT(30)

(* Two handles have different places in the info rings, so that one is     *)
(* older, and lies behind.                                                 *)
LEMMA InvNoOverlap == RBInv => NoOverlap
<1> SUFFICES ASSUME RBInv, NEW h \in held
             PROVE  /\ h.chunk \in DOMAIN mem => Bytes(h) \subseteq 0..(mem[h.chunk].cap - 1)
                    /\ \A g \in held \ {h} : g.chunk = h.chunk => Bytes(g) \cap Bytes(h) = {}
  BY DEF NoOverlap
<1>1. /\ Sound(mem, info, held) /\ mem \in Seq(MemChunk) /\ Rings(mem, info) /\ Ordered(mem, info)
  BY SoundParts DEF RBInv, Rings
<1> DEFINE b == Block(h.chunk, h.offset, h.size)
<1>2. /\ h \in Handle /\ <<h.info, h.index>> \in Slots(info) /\ At(info, <<h.info, h.index>>) = b
      /\ b \in Blocks /\ Lies(mem, b)
  BY <1>1, HandlePlace
<1>3. b.chunk = h.chunk /\ b.offset = h.offset /\ b.size = h.size
  BY DEF Block
<1>4. h.chunk \in DOMAIN mem => Bytes(h) \subseteq 0..(mem[h.chunk].cap - 1)
  <2>1. h.offset + h.size <= mem[h.chunk].cap /\ h.offset \in Nat /\ h.size \in Nat \ {0}
        /\ mem[h.chunk] \in MemChunk
    <3> HIDE DEF b
    <3>1. b.offset + b.size <= mem[b.chunk].cap /\ b.offset \in Nat /\ b.size \in Nat \ {0}
          /\ mem[b.chunk] \in MemChunk
      BY <1>1, <1>2, LiesFacts
    <3> QED BY <3>1, <1>3
  <2>2. mem[h.chunk].cap \in Nat
    BY <2>1, MemChunkFields
  <2> QED BY <2>1, <2>2 DEF Bytes
<1>5. ASSUME NEW g \in held \ {h}, g.chunk = h.chunk PROVE Bytes(g) \cap Bytes(h) = {}
  <2> DEFINE a == Block(g.chunk, g.offset, g.size)
  <2>1. /\ g \in Handle /\ <<g.info, g.index>> \in Slots(info) /\ At(info, <<g.info, g.index>>) = a
        /\ a \in Blocks /\ Lies(mem, a)
    BY <1>1, HandlePlace
  <2>2. a.chunk = g.chunk /\ a.offset = g.offset /\ a.size = g.size
    BY DEF Block
  <2>3. <<g.info, g.index>> # <<h.info, h.index>>
    <3> SUFFICES ASSUME g.info = h.info, g.index = h.index PROVE FALSE
      OBVIOUS
    <3>1. a = b
      BY <1>2, <2>1
    <3>2. g.chunk = h.chunk /\ g.offset = h.offset /\ g.size = h.size
      <4> HIDE DEF a, b
      <4> QED BY <3>1, <1>3, <2>2
    <3> QED BY <3>2, <1>2, <2>1 DEF Handle
  <2>4. \/ Precedes(info, <<g.info, g.index>>, <<h.info, h.index>>)
        \/ Precedes(info, <<h.info, h.index>>, <<g.info, g.index>>)
    BY <1>1, <1>2, <2>1, <2>3, SlotsAreInLine
  <2>5. Behind(mem, a, b) \/ Behind(mem, b, a)
    BY <1>1, <1>2, <2>1, <2>4 DEF Ordered
  <2> HIDE DEF a, b
  <2>6. (a.offset .. (a.offset + a.size - 1)) \cap (b.offset .. (b.offset + b.size - 1)) = {}
    <3>1. a.chunk = b.chunk
      BY <1>3, <1>5, <2>2
    <3>2. CASE Behind(mem, a, b)
      BY <3>1, <3>2, <1>1, <1>2, <2>1, BehindIsApart
    <3>3. CASE Behind(mem, b, a)
      <4>1. (b.offset .. (b.offset + b.size - 1)) \cap (a.offset .. (a.offset + a.size - 1)) = {}
        BY <3>1, <3>3, <1>1, <1>2, <2>1, BehindIsApart
      <4> QED BY <4>1
    <3> QED BY <2>5, <3>2, <3>3
  <2> QED BY <2>6, <2>2, <1>3 DEF Bytes
<1> QED BY <1>4, <1>5

(* A handle says what its info block says, so that two with one block are  *)
(* the same.                                                               *)
LEMMA InvHandlesValid == RBInv => HandlesValid
<1> SUFFICES ASSUME RBInv, NEW h \in held
             PROVE  /\ h.chunk \in DOMAIN mem
                    /\ h.info \in DOMAIN info
                    /\ info[h.info].blocks[h.index] = Block(h.chunk, h.offset, h.size)
                    /\ \A g \in held : g.info = h.info /\ g.index = h.index => g = h
  BY DEF HandlesValid
<1>1. Sound(mem, info, held)
  BY DEF RBInv
<1>2. /\ h \in Handle /\ Names(info, h) /\ At(info, <<h.info, h.index>>) = Block(h.chunk, h.offset, h.size)
      /\ Lies(mem, Block(h.chunk, h.offset, h.size))
  BY <1>1, HandlePlace
<1>3. h.chunk \in DOMAIN mem
  BY <1>2 DEF Lies, Block
<1>4. ASSUME NEW g \in held, g.info = h.info, g.index = h.index PROVE g = h
  <2>1. g \in Handle /\ At(info, <<g.info, g.index>>) = Block(g.chunk, g.offset, g.size)
    BY <1>1, HandlePlace
  <2>2. Block(g.chunk, g.offset, g.size) = Block(h.chunk, h.offset, h.size)
    BY <1>2, <1>4, <2>1
  <2>3. g.chunk = h.chunk /\ g.offset = h.offset /\ g.size = h.size
    BY <2>2 DEF Block
  <2> QED BY <2>1, <2>3, <1>2, <1>4 DEF Handle
<1> QED BY <1>2, <1>3, <1>4 DEF Names

(* The head of the rings is the oldest block.                              *)
LEMMA InvHeadIsInFirstChunk == RBInv => HeadIsInFirstChunk
<1> SUFFICES ASSUME RBInv, reclaiming, info[1].num > 0 PROVE HeadBlock.chunk = 1
  BY DEF HeadIsInFirstChunk
<1>1. Sound(mem, info, held) /\ MemBusy(mem) /\ info # <<>>
  BY DEF RBInv
<1>2. HeadBlock = At(info, <<1, info[1].first>>)
  BY DEF HeadBlock, HeadSlot, At
<1> QED BY <1>1, <1>2, HeadInFirstChunk

(* With no handle no block is live, so that the head is not active; then   *)
(* no block is, and no chunk counts one.                                   *)
LEMMA InvDrainedIsEmpty == RBInv => DrainedIsEmpty
<1> SUFFICES ASSUME RBInv, held = {}, ~reclaiming
             PROVE  /\ Len(mem) <= 1 /\ \A k \in DOMAIN mem : mem[k].first = 0 /\ mem[k].used = 0 /\ mem[k].num = 0
                    /\ Len(info) <= 1 /\ \A i \in DOMAIN info : info[i].num = 0
  BY DEF DrainedIsEmpty
<1>1. /\ Sound(mem, info, held) /\ MemBusy(mem) /\ InfoBusy(info) /\ HeadIsLive
      /\ (mem = <<>> <=> info = <<>>)
  BY DEF RBInv
<1>2. /\ mem \in Seq(MemChunk) /\ info \in Seq(InfoChunk) /\ Rings(mem, info)
      /\ Filled(info) /\ Claimed(info, held) /\ Counted(mem, info)
  BY <1>1, SoundParts DEF Rings
<1>3. CASE info = <<>>
  BY <1>1, <1>3
<1>4. CASE info # <<>>
  <2>1. /\ 1 \in DOMAIN info /\ DOMAIN info = 1..Len(info) /\ Len(info) \in Nat
        /\ DOMAIN mem = 1..Len(mem) /\ Len(mem) \in Nat
    BY <1>2, <1>4, LenProperties
  <2>2. info[1].num = 0
    <3> SUFFICES ASSUME info[1].num # 0 PROVE FALSE
      OBVIOUS
    <3>1. info[1].num > 0
      BY <2>1, <1>2, ElementOfSeq, InfoChunkFields
    <3>2. <<1, info[1].first>> \in Slots(info) /\ HeadBlock.live /\ HeadBlock = At(info, <<1, info[1].first>>)
      <4>1. <<1, info[1].first>> \in Slots(info)
        BY <3>1, <1>2, <1>4, HeadIsOldest
      <4>2. HeadBlock.live
        BY <3>1, <1>1, <1>4 DEF HeadIsLive
      <4> QED BY <4>1, <4>2 DEF HeadBlock, HeadSlot, At
    <3>3. \E h \in held : TRUE
      BY <3>2, <1>2 DEF Claimed
    <3> QED BY <3>3
  <2>3. Len(info) = 1
    BY <2>1, <2>2, <1>1 DEF InfoBusy
  <2>4. Slots(info) = {}
    <3> SUFFICES ASSUME NEW p \in Slots(info) PROVE FALSE
      OBVIOUS
    <3>1. /\ p[1] \in DOMAIN info /\ p[2] \in 0..(info[p[1]].n - 1) /\ info[p[1]] \in InfoChunk
          /\ At(info, p) # NoBlock
      BY <1>2, SlotFacts
    <3>2. p[1] = 1
      BY <3>1, <2>1, <2>3
    <3>3. From(info[1].first, info[1].n, p[2]) < 0
      BY <3>1, <3>2, <2>2, <1>2 DEF Filled, At
    <3>4. info[1].n \in Nat \ {0} /\ info[1].first \in 0..(info[1].n - 1)
      BY <3>1, <3>2, InfoChunkFields
    <3>5. From(info[1].first, info[1].n, p[2]) \in 0..(info[1].n - 1)
      BY <3>1, <3>2, <3>4, FromRange
    <3> QED BY <3>3, <3>4, <3>5
  <2>5. \A k \in DOMAIN mem : mem[k].num = 0
    <3> SUFFICES ASSUME NEW k \in DOMAIN mem PROVE mem[k].num = 0
      OBVIOUS
    <3>1. Counts(info, k, mem[k].num) /\ InChunk(info, k) = {}
      BY <2>4, <1>2 DEF Counted, InChunk
    <3> QED BY <3>1, FS_EmptySet DEF Counts
  <2>6. Len(mem) <= 1 /\ \A k \in DOMAIN mem : mem[k].first = 0 /\ mem[k].used = 0
    <3>1. mem # <<>> /\ 1 \in DOMAIN mem
      BY <1>1, <1>2, <1>4, <2>1
    <3>2. Len(mem) = 1
      BY <3>1, <2>5, <1>1 DEF MemBusy
    <3> QED BY <3>2, <2>5, <1>1 DEF MemBusy
  <2> QED BY <2>1, <2>2, <2>3, <2>5, <2>6
<1> QED BY <1>3, <1>4

(* The fields of chunks and info blocks keep their ranges                  *)
(* (ResizableRingBuffer.h, MemChunk and InfoBlockChunk).                   *)
THEOREM RingBufferTypeOK ==
  ASSUME ~GrowsWhenEmpty PROVE Spec => []RBTypeOK
  BY RingBufferInv, InvTypeOK, PTL

(* Allocate never hands out bytes that a caller still holds, or bytes      *)
(* beyond the end of a chunk, for any sizes, alignments and order of       *)
(* disposal (ResizableRingBuffer.h, Allocate).                             *)
THEOREM RingBufferNoOverlap ==
  ASSUME ~GrowsWhenEmpty PROVE Spec => []NoOverlap
  BY RingBufferInv, InvNoOverlap, PTL

(* A handle names its own info block until it is disposed of, with a chunk *)
(* that has not been freed (ResizableRingBuffer.h, Dispose and the chunks  *)
(* it frees).                                                              *)
THEOREM RingBufferHandlesValid ==
  ASSUME ~GrowsWhenEmpty PROVE Spec => []HandlesValid
  BY RingBufferInv, InvHandlesValid, PTL

(* The assertion of Dispose's loop holds: the block at the head of the     *)
(* info rings lies in the first chunk (ResizableRingBuffer.h, Dispose).    *)
THEOREM RingBufferHeadIsInFirstChunk ==
  ASSUME ~GrowsWhenEmpty PROVE Spec => []HeadIsInFirstChunk
  BY RingBufferInv, InvHeadIsInFirstChunk, PTL

(* When everything was disposed of nothing is left in use: one chunk,      *)
(* reset, and one ring of info blocks with none active                     *)
(* (ResizableRingBuffer.h, Dispose).                                       *)
THEOREM RingBufferDrainedIsEmpty ==
  ASSUME ~GrowsWhenEmpty PROVE Spec => []DrainedIsEmpty
  BY RingBufferInv, InvDrainedIsEmpty, PTL
=============================================================================
