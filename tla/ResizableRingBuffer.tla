------------------------- MODULE ResizableRingBuffer -------------------------
(***************************************************************************)
(* include/rkit/Core/ResizableRingBuffer.h: memory handed out in a ring,   *)
(* disposed of in any order and reused in the order in which it was        *)
(* allocated.  When a ring is full a further chunk of memory is chained    *)
(* on.  What is allocated is described by info blocks, in rings of their   *)
(* own that are chained in the same way.                                   *)
(*                                                                         *)
(* Callers hold a mutex, so operations do not overlap.  Dispose is one     *)
(* step that marks the block and one step per pass of its loop.            *)
(*                                                                         *)
(* Abstractions.  A chunk is known by its position in its list, so blocks  *)
(* and handles are renumbered when a list loses its first chunk.  An info  *)
(* block that is not active is not read before it is written again, and is *)
(* NoBlock.  Allocation of chunks does not fail, and no capacity reaches   *)
(* the limit of its type.                                                  *)
(***************************************************************************)
EXTENDS Integers, SequencesExt

CONSTANTS
  MinimumSize,        \* kMinimumSize
  MinimumInfoBlocks,  \* kMinimumInfoBlocks
  Sizes, Alignments,  \* what callers ask for
  MaxBlocks,          \* bound on the number of active info blocks
  GrowsWhenEmpty      \* whether callers ask an empty buffer for more than its last chunk holds

ASSUME RingBufferAssumption ==
  /\ MinimumSize \in Nat \ {0} /\ MinimumInfoBlocks \in Nat \ {0}
  /\ Sizes \subseteq Nat \ {0} /\ Alignments \subseteq Nat \ {0}
  /\ MaxBlocks \in Nat /\ GrowsWhenEmpty \in BOOLEAN

VARIABLES
  mem,        \* the memory chunks, from m_firstMemChunk to m_lastMemChunk
  info,       \* the info block chunks, from m_firstInfoBlockChunk to m_lastInfoBlockChunk
  held,       \* the handles callers have not disposed of, with what they were told
  reclaiming  \* Dispose is in its loop

rbVars == <<mem, info, held, reclaiming>>

NewChunk(cap) == [cap |-> cap, first |-> 0, used |-> 0, num |-> 0]

NoBlock == [live |-> FALSE, chunk |-> 0, offset |-> 0, size |-> 0]
Block(chunk, offset, size) == [live |-> TRUE, chunk |-> chunk, offset |-> offset, size |-> size]
NewInfoChunk(n) == [n |-> n, first |-> 0, num |-> 0, blocks |-> [i \in 0..(n - 1) |-> NoBlock]]

-----------------------------------------------------------------------------
(* Allocate.                                                               *)

Padding(address, align) == (align - (address % align)) % align

(* Where in the chunk c a block fits: after the last one, or, if that one  *)
(* is not before the first, at the start of the chunk.                     *)
Places(c, size, align) ==
  LET wraps == c.cap - c.first <= c.used
      tail  == IF wraps THEN c.first + c.used - c.cap ELSE c.first + c.used
      limit == IF wraps THEN c.first ELSE c.cap
      at    == tail + Padding(tail, align)
  IN  IF at + size <= limit THEN {at}
      ELSE IF ~wraps /\ size <= c.first THEN {0} ELSE {}

\* Mutant of Extended: a block at the start of the chunk is not past its end.
ExtendedUnwrapped(c, at, size) ==
  [c EXCEPT !.used = at + size - c.first, !.num = @ + 1]

Extended(c, at, size) ==
  [c EXCEPT !.used = at + size + (IF at < c.first THEN c.cap ELSE 0) - c.first,
            !.num = @ + 1]

PowersOfTwo(n) == {p \in 1..n : \A d \in 2..p : p % d = 0 => d % 2 = 0}

(* The capacity of a chunk added for a block of the given size: that of    *)
(* the last one, doubled until the block fits.                             *)
Capacity(size) ==
  LET least == IF mem = <<>> THEN MinimumSize ELSE Last(mem).cap
  IN  least * Min({p \in PowersOfTwo(2 * size) : size <= least * p})

\* Mutant of FreeSlot: it counts from the start of the ring.
FreeSlotFromStart(i) == i.num % i.n

FreeSlot(i) == (i.first + i.num) % i.n

Active == FoldSeq(LAMBDA i, n : i.num + n, 0, info)

Allocate(size, align) ==
  LET places == IF mem = <<>> THEN {} ELSE Places(Last(mem), size, align)
      at     == IF places = {} THEN 0 ELSE CHOOSE a \in places : TRUE
      chunks == IF places = {} THEN Append(mem, NewChunk(Capacity(size))) ELSE mem
      infos  == IF info = <<>> THEN <<NewInfoChunk(MinimumInfoBlocks)>>
                ELSE IF Last(info).num = Last(info).n THEN Append(info, NewInfoChunk(2 * Last(info).n))
                ELSE info
      c      == Len(chunks)
      i      == Len(infos)
      slot   == FreeSlot(infos[i])
  IN  /\ ~reclaiming /\ Active < MaxBlocks
      /\ held = {} /\ mem # <<>> => GrowsWhenEmpty \/ size <= Last(mem).cap
      /\ mem' = [chunks EXCEPT ![c] = Extended(@, at, size)]
      /\ info' = [infos EXCEPT ![i].num = @ + 1, ![i].blocks[slot] = Block(c, at, size)]
      /\ held' = held \cup {[info |-> i, index |-> slot, chunk |-> c, offset |-> at, size |-> size]}
      /\ UNCHANGED reclaiming

-----------------------------------------------------------------------------
(* Dispose.                                                                *)

Dispose(h) ==
  /\ ~reclaiming
  /\ info' = [info EXCEPT ![h.info].blocks[h.index].live = FALSE]
  /\ held' = held \ {h}
  /\ reclaiming' = TRUE
  /\ UNCHANGED mem

HeadSlot == info[1].first
HeadBlock == info[1].blocks[HeadSlot]

\* Mutant of EmptyChunks: chunks stay in the list when they are empty.
DropsNone(chunks) == 0

(* The number of chunks at the head of the list that hold nothing and are  *)
(* not the last.                                                           *)
EmptyChunks(chunks) ==
  CHOOSE k \in 0..(Len(chunks) - 1) :
    /\ \A l \in 1..k : chunks[l].num = 0
    /\ k + 1 = Len(chunks) \/ chunks[k + 1].num > 0

\* Mutant of ResetIfEmpty: the last chunk goes on from where it was.
GoesOn(c) == c
ResetIfEmpty(c) == IF c.num = 0 THEN [c EXCEPT !.first = 0, !.used = 0] ELSE c

(* One pass of the loop whose head block has been disposed of.             *)
RemoveHead ==
  LET counted == [mem EXCEPT ![HeadBlock.chunk].num = @ - 1]
      gone    == EmptyChunks(counted)
      chunks  == SubSeq(counted, gone + 1, Len(counted))
      head    == [info[1] EXCEPT !.first = (@ + 1) % info[1].n, !.num = @ - 1,
                                 !.blocks[HeadSlot] = NoBlock]
      infoGone == IF head.num = 0 /\ Len(info) > 1 THEN 1 ELSE 0
      infos   == IF infoGone = 1 THEN Tail(info)
                 ELSE [info EXCEPT ![1] = IF head.num = 0 THEN [head EXCEPT !.first = 0] ELSE head]
  IN  /\ reclaiming /\ info[1].num > 0 /\ ~HeadBlock.live
      /\ mem' = [chunks EXCEPT ![1] = ResetIfEmpty(@)]
      /\ info' = [i \in DOMAIN infos |->
                    [infos[i] EXCEPT !.blocks =
                       [s \in DOMAIN infos[i].blocks |->
                          IF infos[i].blocks[s] = NoBlock THEN NoBlock
                          ELSE [infos[i].blocks[s] EXCEPT !.chunk = @ - gone]]]]
      /\ held' = {[h EXCEPT !.info = @ - infoGone, !.chunk = @ - gone] : h \in held}
      /\ UNCHANGED reclaiming

\* Mutant of HeadMoves: a head block before the old one has not wrapped around.
HeadMovesUnwrapped(c, b) ==
  [c EXCEPT !.used = c.first + c.used - b.offset, !.first = b.offset]

(* The chunk c starts at its block b.                                      *)
HeadMoves(c, b) ==
  [c EXCEPT !.used = c.first + c.used - (b.offset + IF b.offset < c.first THEN c.cap ELSE 0),
            !.first = b.offset]

(* The loop ends: nothing is allocated, or the head block is.              *)
Reclaimed ==
  /\ reclaiming
  /\ \/ info[1].num = 0 /\ UNCHANGED mem
     \/ info[1].num > 0 /\ HeadBlock.live /\ mem' = [mem EXCEPT ![1] = HeadMoves(@, HeadBlock)]
  /\ reclaiming' = FALSE
  /\ UNCHANGED <<info, held>>

-----------------------------------------------------------------------------
Init == mem = <<>> /\ info = <<>> /\ held = {} /\ reclaiming = FALSE

Next ==
  \/ \E size \in Sizes, align \in Alignments : Allocate(size, align)
  \/ \E h \in held : Dispose(h)
  \/ RemoveHead \/ Reclaimed

Spec == Init /\ [][Next]_rbVars

-----------------------------------------------------------------------------
RBTypeOK ==
  /\ \A k \in DOMAIN mem :
       /\ mem[k].cap \in Nat /\ mem[k].first \in 0..mem[k].cap /\ mem[k].used \in 0..mem[k].cap
       /\ mem[k].num \in Nat
  /\ \A i \in DOMAIN info :
       /\ info[i].first \in 0..(info[i].n - 1) /\ info[i].num \in 0..info[i].n
       /\ DOMAIN info[i].blocks = 0..(info[i].n - 1)
  /\ reclaiming \in BOOLEAN

Bytes(h) == h.offset..(h.offset + h.size - 1)

(* What callers hold does not overlap and lies within its chunk, however   *)
(* blocks of other sizes were allocated and disposed of before.            *)
NoOverlap ==
  \A h \in held :
    /\ h.chunk \in DOMAIN mem => Bytes(h) \subseteq 0..(mem[h.chunk].cap - 1)
    /\ \A g \in held \ {h} : g.chunk = h.chunk => Bytes(g) \cap Bytes(h) = {}

(* A handle stays good until it is disposed of, whatever else is: its info *)
(* block is allocated and says what the caller was told, its memory chunk  *)
(* has not been freed, and no two callers have the same info block.        *)
HandlesValid ==
  \A h \in held :
    /\ h.chunk \in DOMAIN mem
    /\ h.info \in DOMAIN info
    /\ info[h.info].blocks[h.index] = Block(h.chunk, h.offset, h.size)
    /\ \A g \in held : g.info = h.info /\ g.index = h.index => g = h

(* The assertion of Dispose's loop: the block at the head of the info      *)
(* rings lies in the first memory chunk.                                   *)
HeadIsInFirstChunk ==
  reclaiming /\ info[1].num > 0 => HeadBlock.chunk = 1

(* Nothing leaks: when callers hold nothing one chunk is left, all of it   *)
(* free, and one info chunk with no block.                                 *)
DrainedIsEmpty ==
  held = {} /\ ~reclaiming =>
    /\ Len(mem) <= 1 /\ \A k \in DOMAIN mem : mem[k].first = 0 /\ mem[k].used = 0 /\ mem[k].num = 0
    /\ Len(info) <= 1 /\ \A i \in DOMAIN info : info[i].num = 0
===============================================================================
