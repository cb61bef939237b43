-------------------------- MODULE EnginePartsProofs --------------------------
(***************************************************************************)
(* Proofs about two parts of the engine, each on its own.                  *)
(*   - FrameTimeline: the requester of an upload is told that it is done   *)
(*     only when it is, and a texture or buffer is destroyed only when     *)
(*     nobody refers to it, for any number of frames in flight, tasks and  *)
(*     parts, and however the upload memory wraps around.                  *)
(*   - GameResources: a handle's number is its own, and stands for what    *)
(*     the handle asked for, however numbers and addresses are used again, *)
(*     for any number of handles, keys and addresses.                      *)
(***************************************************************************)
EXTENDS FrameTimeline, GameResources, FiniteSetTheorems, SequenceTheorems, TLAPS

-----------------------------------------------------------------------------
(* The frames of the graphics subsystem.                                   *)

Extent == [cols : Int, rows : Int]
Planned == [task : Tasks, at : Int, size : Int, left : Seq(Extent)]
Frame == [actions : Seq(Planned), retired : SUBSET Tasks, final : Int, condemned : SUBSET Tasks,
          memCopy : {"none", "queued", "done"}, cleanup : {"none", "queued", "done"},
          copy : {"none", "queued", "submitted", "done"},
          close : {"none", "queued", "submitted", "done"}]

(* The types that the proof needs: those of TimelineTypeOK, except that no *)
(* mark is known to lie in the memory.  Mip levels that are higher than    *)
(* they are wide would be planned past its end.                            *)
TimelineTypes ==
  /\ current \in SyncPoints /\ place \in {"retire", "clear", "pump", "end"}
  /\ sync \in [SyncPoints -> Frame]
  /\ low \in Int /\ high \in Int
  /\ waiting \in Seq(Tasks) /\ active \in Tasks \cup {NoTask}
  /\ left \in [Tasks -> Seq(Extent)]
  /\ posted \subseteq Tasks /\ signalled \subseteq Tasks
  /\ condemned \subseteq Tasks /\ disposing \subseteq Tasks /\ disposed \subseteq Tasks

Plans(i, t) == \E k \in 1..Len(sync[i].actions) : sync[i].actions[k].task = t
Waits(t) == \E k \in 1..Len(waiting) : waiting[k] = t

(* A task is to be planned until nothing of it is left, and is then        *)
(* neither waiting nor active any more.                                    *)
TasksOK ==
  /\ \A k, l \in 1..Len(waiting) : waiting[k] = waiting[l] => k = l
  /\ ~Waits(active)
  /\ \A t \in Tasks :
       /\ t \notin posted => ~Waits(t) /\ t # active
       /\ t \notin posted \/ Waits(t) \/ t = active => left[t] # <<>>

(* The current sync point's frame is being planned.                        *)
Planning(i) == i = current /\ place \in {"pump", "end"}

(* A frame's last batch is over only when its copies are, and a frame that *)
(* has planned copies has a batch for them.                                *)
FrameOK(i) ==
  /\ sync[i].copy \in {"queued", "submitted"} => sync[i].close \in {"queued", "submitted"}
  /\ sync[i].close = "submitted" => sync[i].copy # "queued"
  /\ ~Planning(i) /\ sync[i].actions # <<>> => sync[i].copy # "none"
  /\ i = current /\ place = "end" /\ sync[i].actions # <<>> => sync[i].memCopy # "none"

(* A task is retired with the last frame that plans copies of it.          *)
RetiredOK(i) ==
  \A t \in sync[i].retired :
    /\ left[t] = <<>> /\ t \in posted
    /\ \A j \in SyncPoints :
         Plans(j, t) /\ ~(j = current /\ place = "clear") => Age(j) >= Age(i)

SignalledOK ==
  \A t \in signalled :
    /\ left[t] = <<>> /\ t \in posted
    /\ \A i \in SyncPoints : Plans(i, t) => sync[i].copy = "done" /\ ~Planning(i)

(* What is condemned was posted, and nothing refers to it.                 *)
Refers(t) ==
  \/ t \in held \/ Waits(t) \/ t = active
  \/ \E i \in SyncPoints : t \in sync[i].retired \/ Plans(i, t)

IsGone(t) ==
  \/ t \in condemned \/ t \in disposing \/ t \in disposed
  \/ \E i \in SyncPoints : t \in sync[i].condemned

GoneOK == \A t \in Tasks : IsGone(t) => t \in posted /\ ~Refers(t)

UploadInv ==
  /\ TimelineTypes /\ TasksOK /\ SignalledOK /\ GoneOK
  /\ \A i \in SyncPoints : FrameOK(i) /\ RetiredOK(i)

-----------------------------------------------------------------------------
(* Sync points are used in turn.                                           *)

LEMMA Distance ==
  ASSUME NEW c \in SyncPoints, NEW i \in SyncPoints
  PROVE  (c - i + NumSyncPoints) % NumSyncPoints = IF i <= c THEN c - i ELSE c - i + NumSyncPoints
BY TimelineAssumption DEF SyncPoints

LEMMA NextIs ==
  ASSUME current \in SyncPoints
  PROVE  (current + 1) % NumSyncPoints = IF current = NumSyncPoints - 1 THEN 0 ELSE current + 1
BY TimelineAssumption DEF SyncPoints

(* The frame that is retired is older than the others, and all of them get *)
(* older together.                                                         *)
LEMMA AgeBounds ==
  ASSUME current \in SyncPoints, NEW i \in SyncPoints
  PROVE  /\ Age(i) \in 0..NumSyncPoints
         /\ Age(i) = NumSyncPoints <=> i = current /\ place = "retire"
         /\ i = current /\ place # "retire" => Age(i) = 0
BY Distance, TimelineAssumption DEF SyncPoints, Age

LEMMA AgesTogether ==
  ASSUME current \in SyncPoints, EndFrame, NEW i \in SyncPoints
  PROVE  current' \in SyncPoints /\ Age(i)' = Age(i) + 1
<1>1. current' = IF current = NumSyncPoints - 1 THEN 0 ELSE current + 1
  BY NextIs DEF EndFrame
<1>2. current' \in SyncPoints
  BY <1>1, TimelineAssumption DEF SyncPoints
<1>3. Age(i)' = IF i = current' THEN NumSyncPoints
                ELSE IF i <= current' THEN current' - i ELSE current' - i + NumSyncPoints
  BY <1>2, Distance DEF Age, EndFrame
<1>4. Age(i) = IF i <= current THEN current - i ELSE current - i + NumSyncPoints
  BY Distance DEF Age, EndFrame
<1> QED
  BY <1>1, <1>2, <1>3, <1>4, TimelineAssumption DEF SyncPoints

-----------------------------------------------------------------------------
(* What is condemned is not referred to again.                             *)

LEMMA UnreferencedIs ==
  ASSUME NEW h, NEW w \in Seq(Tasks), NEW a, NEW s, NEW t \in Unreferenced(h, w, a, s)
  PROVE  /\ t \in posted /\ t \notin h /\ t # a
         /\ \A k \in 1..Len(w) : w[k] # t
         /\ \A i \in SyncPoints :
              t \notin s[i].retired /\ \A k \in 1..Len(s[i].actions) : s[i].actions[k].task # t
BY DEF Unreferenced, Referenced, ToSet

LEMMA GoneStep ==
  ASSUME GoneOK, posted \subseteq posted',
         \A t \in Tasks : IsGone(t)' => IsGone(t) \/ (t \in posted' /\ ~Refers(t)'),
         \A t \in Tasks : Refers(t)' => Refers(t) \/ t \notin posted
  PROVE  GoneOK'
BY DEF GoneOK

-----------------------------------------------------------------------------
(* The steps that plan nothing.                                            *)

(* A frame's job or batch is done: only the state of that job changes.     *)
LEMMA StatusStep ==
  ASSUME UploadInv, NEW i \in SyncPoints, NEW f \in Frame, sync' = [sync EXCEPT ![i] = f],
         f.actions = sync[i].actions, f.retired = sync[i].retired, f.condemned = sync[i].condemned,
         sync[i].copy = "done" => f.copy = "done", FrameOK(i)',
         UNCHANGED <<current, place, low, high, waiting, active, left, posted, held, signalled,
                     condemned, disposing, disposed>>
  PROVE  UploadInv'
<1>1. TimelineTypes'
  BY DEF UploadInv, TimelineTypes
<1>2. \A j \in SyncPoints, t \in Tasks : Plans(j, t)' = Plans(j, t)
  BY DEF UploadInv, TimelineTypes, Plans
<1>3. TasksOK'
  BY DEF UploadInv, TasksOK, Waits
<1>4. SignalledOK'
  BY <1>2 DEF UploadInv, SignalledOK, Planning, TimelineTypes
<1>5. \A j \in SyncPoints : FrameOK(j)'
  BY DEF UploadInv, FrameOK, Planning, TimelineTypes
<1>6. ASSUME NEW j \in SyncPoints
      PROVE  RetiredOK(j)'
  <2>1. \A k \in SyncPoints : Age(k)' = Age(k)
    BY DEF Age
  <2>2. sync'[j].retired = sync[j].retired /\ sync[j].retired \subseteq Tasks
    BY DEF UploadInv, TimelineTypes, Frame
  <2> QED
    BY <1>2, <2>1, <2>2 DEF UploadInv, RetiredOK
<1>7. GoneOK'
  <2>1. \A j \in SyncPoints : sync'[j].retired = sync[j].retired
                              /\ sync'[j].condemned = sync[j].condemned
    BY DEF UploadInv, TimelineTypes
  <2>2. \A t \in Tasks : IsGone(t)' <=> IsGone(t)
    BY <2>1 DEF IsGone
  <2>3. \A t \in Tasks : Refers(t)' <=> Refers(t)
    BY <1>2, <2>1 DEF Refers, Waits
  <2> QED
    BY <2>2, <2>3, GoneStep DEF UploadInv
<1> QED
  BY <1>1, <1>3, <1>4, <1>5, <1>6, <1>7 DEF UploadInv

(* What a frame's record is when the state of one of its jobs changes.     *)
LEMMA StatusFields ==
  ASSUME NEW r \in Frame
  PROVE  /\ LET f == [r EXCEPT !.memCopy = "done"]
            IN  /\ f \in Frame /\ f.actions = r.actions /\ f.retired = r.retired
                /\ f.condemned = r.condemned
                /\ f.copy = r.copy /\ f.close = r.close /\ f.memCopy = "done"
         /\ LET f == [r EXCEPT !.cleanup = "done"]
            IN  /\ f \in Frame /\ f.actions = r.actions /\ f.retired = r.retired
                /\ f.condemned = r.condemned
                /\ f.copy = r.copy /\ f.close = r.close /\ f.memCopy = r.memCopy
BY DEF Frame

LEMMA CopyField ==
  ASSUME NEW r \in Frame, NEW c \in {"submitted", "done"}
  PROVE  LET f == [r EXCEPT !.copy = c]
         IN  /\ f \in Frame /\ f.actions = r.actions /\ f.retired = r.retired
             /\ f.condemned = r.condemned
             /\ f.copy = c /\ f.close = r.close /\ f.memCopy = r.memCopy
BY DEF Frame

LEMMA CloseField ==
  ASSUME NEW r \in Frame, NEW c \in {"submitted", "done"}
  PROVE  LET f == [r EXCEPT !.close = c]
         IN  /\ f \in Frame /\ f.actions = r.actions /\ f.retired = r.retired
             /\ f.condemned = r.condemned
             /\ f.copy = r.copy /\ f.close = c /\ f.memCopy = r.memCopy
BY DEF Frame

LEMMA PlanFields ==
  ASSUME NEW r \in Frame, NEW a \in Seq(Planned)
  PROVE  LET f == [r EXCEPT !.actions = a]
         IN  /\ f \in Frame /\ f.actions = a /\ f.retired = r.retired /\ f.condemned = r.condemned
             /\ f.copy = r.copy /\ f.close = r.close /\ f.memCopy = r.memCopy
BY DEF Frame

LEMMA WorkersAndGpu ==
  ASSUME UploadInv, NEW i \in SyncPoints, Worker(i) \/ Gpu(i)
  PROVE  UploadInv'
<1> USE DEF heapVars, taskVars, endVars
<1>0. sync \in [SyncPoints -> Frame] /\ sync[i] \in Frame /\ FrameOK(i)
  BY DEF UploadInv, TimelineTypes
<1>1. CASE MemCopy(i)
  <2> DEFINE f == [sync[i] EXCEPT !.memCopy = "done"]
  <2>1. f \in Frame /\ sync' = [sync EXCEPT ![i] = f] /\ sync'[i] = f
        /\ f.actions = sync[i].actions /\ f.retired = sync[i].retired
        /\ f.condemned = sync[i].condemned
        /\ f.copy = sync[i].copy /\ f.close = sync[i].close /\ f.memCopy = "done"
    BY <1>0, <1>1, StatusFields DEF MemCopy
  <2>2. FrameOK(i)'
    BY <1>0, <1>1, <2>1 DEF MemCopy, FrameOK, Planning
  <2> QED
    BY <1>1, <2>1, <2>2, StatusStep DEF MemCopy
<1>2. CASE Cleanup(i)
  <2> DEFINE f == [sync[i] EXCEPT !.cleanup = "done"]
  <2>1. f \in Frame /\ sync' = [sync EXCEPT ![i] = f] /\ sync'[i] = f
        /\ f.actions = sync[i].actions /\ f.retired = sync[i].retired
        /\ f.condemned = sync[i].condemned
        /\ f.copy = sync[i].copy /\ f.close = sync[i].close /\ f.memCopy = sync[i].memCopy
    BY <1>0, <1>2, StatusFields DEF Cleanup
  <2>2. FrameOK(i)'
    BY <1>0, <1>2, <2>1 DEF Cleanup, FrameOK, Planning
  <2> QED
    BY <1>2, <2>1, <2>2, StatusStep DEF Cleanup
<1>3. ASSUME CopyUploads(i) \/ DmaExecutes(i)
      PROVE  UploadInv'
  <2> DEFINE c == IF sync[i].copy = "queued" THEN "submitted" ELSE "done"
             f == [sync[i] EXCEPT !.copy = c]
  <2>1. c \in {"submitted", "done"} /\ sync' = [sync EXCEPT ![i].copy = c]
        /\ UNCHANGED <<current, place, low, high, waiting, active, left, posted, held,
                        signalled, condemned, disposing, disposed>>
    BY <1>3 DEF CopyUploads, MayCopy, DmaExecutes
  <2>2. sync' = [sync EXCEPT ![i] = f] /\ sync'[i] = f
    BY <1>0, <2>1
  <2> HIDE DEF c
  <2>3. f \in Frame
        /\ f.actions = sync[i].actions /\ f.retired = sync[i].retired
        /\ f.condemned = sync[i].condemned
        /\ f.copy = c /\ f.close = sync[i].close /\ f.memCopy = sync[i].memCopy
    BY <1>0, <2>1, CopyField, ZenonT(30)
  <2>4. FrameOK(i)' /\ sync[i].copy # "done"
    BY <1>0, <1>3, <2>1, <2>2, <2>3 DEF CopyUploads, MayCopy, DmaExecutes, FrameOK, Planning, c
  <2> HIDE DEF f
  <2> QED
    BY <2>1, <2>2, <2>3, <2>4, StatusStep
<1>4. ASSUME CloseFrame(i) \/ GraphicsExecutes(i)
      PROVE  UploadInv'
  <2> DEFINE c == IF sync[i].close = "queued" THEN "submitted" ELSE "done"
             f == [sync[i] EXCEPT !.close = c]
  <2>1. c \in {"submitted", "done"} /\ sync' = [sync EXCEPT ![i].close = c]
        /\ UNCHANGED <<current, place, low, high, waiting, active, left, posted, held,
                        signalled, condemned, disposing, disposed>>
    BY <1>4 DEF CloseFrame, GraphicsExecutes
  <2>2. sync' = [sync EXCEPT ![i] = f] /\ sync'[i] = f
    BY <1>0, <2>1
  <2> HIDE DEF c
  <2>3. f \in Frame
        /\ f.actions = sync[i].actions /\ f.retired = sync[i].retired
        /\ f.condemned = sync[i].condemned
        /\ f.copy = sync[i].copy /\ f.close = c /\ f.memCopy = sync[i].memCopy
    BY <1>0, <2>1, CloseField, ZenonT(30)
  <2>4. FrameOK(i)'
    BY <1>0, <1>4, <2>1, <2>2, <2>3 DEF CloseFrame, GraphicsExecutes, FrameOK, Planning, c
  <2> HIDE DEF f
  <2> QED
    BY <2>1, <2>2, <2>3, <2>4, StatusStep
<1> QED
  BY <1>1, <1>2, <1>3, <1>4 DEF Worker, Gpu

LEMMA PosterOK ==
  ASSUME UploadInv, NEW t \in Tasks, PostAsyncUploadTask(t)
  PROVE  UploadInv'
<1> USE DEF UploadInv, PostAsyncUploadTask, heapVars, endVars
<1>1. TimelineTypes'
  BY DEF TimelineTypes
<1>2. \A u \in Tasks \cup {NoTask} : Waits(u)' <=> Waits(u) \/ u = t
  BY SMTT(30) DEF Waits, TimelineTypes
<1>3. t # NoTask /\ ~Waits(t) /\ t # active
  BY TimelineAssumption DEF TasksOK
<1>4. TasksOK'
  <2>1. \A k, l \in 1..Len(waiting') : waiting'[k] = waiting'[l] => k = l
    BY <1>3 DEF TasksOK, Waits, TimelineTypes
  <2> QED
    BY <1>2, <1>3, <2>1 DEF TasksOK, TimelineTypes
<1>5. SignalledOK' /\ \A i \in SyncPoints : FrameOK(i)' /\ RetiredOK(i)'
  BY DEF SignalledOK, RetiredOK, FrameOK, Planning, Plans, Age
<1>6. GoneOK'
  <2>1. \A u \in Tasks : IsGone(u)' => IsGone(u)
    BY DEF IsGone
  <2>2. \A u \in Tasks : Refers(u)' => Refers(u) \/ u \notin posted
    <3>1. \A i \in SyncPoints, u \in Tasks : Plans(i, u)' <=> Plans(i, u)
      BY DEF Plans
    <3> QED
      BY <1>2, <3>1 DEF Refers
  <2> QED
    BY <2>1, <2>2, GoneStep
<1> QED
  BY <1>1, <1>4, <1>5, <1>6

(* What changes neither plans nor frames.                                  *)
LEMMA QuietStep ==
  ASSUME UploadInv,
         UNCHANGED <<current, place, sync, low, high, waiting, active, left, posted, signalled>>,
         condemned' \cup disposing' \cup disposed' \subseteq Tasks, GoneOK'
  PROVE  UploadInv'
<1>1. TimelineTypes' /\ TasksOK'
  BY DEF UploadInv, TimelineTypes, TasksOK, Waits
<1>2. SignalledOK'
  BY DEF UploadInv, SignalledOK, Plans, Planning
<1>3. ASSUME NEW i \in SyncPoints
      PROVE  FrameOK(i)' /\ RetiredOK(i)'
  BY DEF UploadInv, RetiredOK, FrameOK, Planning, Plans, Age
<1> QED
  BY <1>1, <1>2, <1>3 DEF UploadInv

-----------------------------------------------------------------------------
(* The main thread.                                                        *)

LEMMA RetireOK ==
  ASSUME UploadInv, RetireOldestFrame
  PROVE  UploadInv'
<1> DEFINE c == current
           kept == [sync EXCEPT ![c].retired = {}]
           popped == condemned \cup Unreferenced(held, waiting, active, kept)
           later == {t \in popped : age[t] < NumSyncPoints}
           Bin(t) == (c + NumSyncPoints - age[t]) % NumSyncPoints
           binned(i) == {t \in later : Bin(t) = i}
           frame(i) == [kept[i] EXCEPT !.condemned = (IF i = c THEN {} ELSE @) \cup binned(i),
                                       !.cleanup = IF i = c THEN "none" ELSE @]
<1>0. /\ TimelineTypes /\ c \in SyncPoints /\ place = "retire" /\ place' = "clear" /\ sync[c] \in Frame
      /\ FrameIsOver(sync[c])
      /\ sync' = [i \in SyncPoints |-> frame(i)]
      /\ signalled' = signalled \cup sync[c].retired /\ condemned' = {}
      /\ low' \in {0, sync[c].final} /\ high' \in {0, high}
      /\ disposing' = disposing \cup sync[c].condemned \cup (popped \ later)
      /\ UNCHANGED <<current, waiting, active, left, posted, held, disposed>>
  BY DEF UploadInv, TimelineTypes, RetireOldestFrame, taskVars
<1>1. ASSUME NEW i \in SyncPoints
      PROVE  /\ frame(i) \in Frame /\ frame(i).actions = sync[i].actions
             /\ frame(i).retired = IF i = c THEN {} ELSE sync[i].retired
             /\ frame(i).copy = sync[i].copy /\ frame(i).close = sync[i].close
             /\ frame(i).condemned \subseteq sync[i].condemned \cup popped
  <2>1. sync[i] \in Frame
    BY <1>0 DEF TimelineTypes
  <2>2. /\ kept[i] \in Frame /\ kept[i].actions = sync[i].actions
        /\ kept[i].retired = IF i = c THEN {} ELSE sync[i].retired
        /\ kept[i].copy = sync[i].copy /\ kept[i].close = sync[i].close
        /\ kept[i].condemned = sync[i].condemned
    BY <1>0, <2>1 DEF TimelineTypes, Frame
  <2>3. popped \subseteq Tasks
    BY <1>0 DEF TimelineTypes, Unreferenced
  <2>4. binned(i) \subseteq Tasks /\ binned(i) \subseteq popped
    BY <2>3
  <2> HIDE DEF kept, binned, popped
  <2> QED
    BY <2>2, <2>4 DEF Frame
<1> HIDE DEF frame
<1>2. TimelineTypes'
  <2>1. sync[c].final \in Int /\ sync[c].retired \subseteq Tasks
    BY <1>0 DEF Frame
  <2>2. popped \cup sync[c].condemned \subseteq Tasks
    BY <1>0 DEF TimelineTypes, Unreferenced, Frame
  <2> HIDE DEF popped
  <2>3. sync' \in [SyncPoints -> Frame]
    BY <1>0, <1>1
  <2> QED
    BY <1>0, <2>1, <2>2, <2>3 DEF TimelineTypes
<1>3. \A i \in SyncPoints : \A t : Plans(i, t)' <=> Plans(i, t)
  BY <1>0, <1>1 DEF Plans
<1>4. TasksOK'
  BY <1>0 DEF UploadInv, TasksOK, Waits
<1>5. \A i \in SyncPoints : FrameOK(i)'
  BY <1>0, <1>1 DEF UploadInv, FrameOK, Planning
<1>6. SignalledOK'
  <2>1. ASSUME NEW t \in sync[c].retired, NEW i \in SyncPoints, Plans(i, t)
        PROVE  sync[i].copy = "done"
    <3>1. Age(i) >= Age(c)
      BY <1>0, <2>1 DEF UploadInv, RetiredOK
    <3>2. i = c
      BY <1>0, <2>1, <3>1, AgeBounds, TimelineAssumption
    <3>3. sync[c].actions # <<>>
      BY <2>1, <3>2 DEF Plans
    <3> QED
      BY <1>0, <3>2, <3>3 DEF UploadInv, FrameOK, Planning, Frame, FrameIsOver
  <2>2. \A t \in sync[c].retired : left[t] = <<>> /\ t \in posted
    BY <1>0 DEF UploadInv, RetiredOK
  <2> QED
    BY <1>0, <1>1, <1>3, <2>1, <2>2 DEF UploadInv, SignalledOK, Planning
<1>7. ASSUME NEW i \in SyncPoints
      PROVE  RetiredOK(i)'
  <2>1. CASE i = c
    BY <1>0, <1>1, <2>1 DEF RetiredOK
  <2>2. CASE i # c
    <3>1. \A j \in SyncPoints \ {c} : Age(j)' = Age(j)
      BY <1>0 DEF Age
    <3> QED
      BY <1>0, <1>1, <1>3, <2>2, <3>1 DEF UploadInv, RetiredOK
  <2> QED
    BY <2>1, <2>2
<1>8. GoneOK'
  <2>1. \A t \in Tasks : Refers(t)' => Refers(t)
    BY <1>0, <1>1, <1>3 DEF Refers, Waits
  <2>2. ASSUME NEW t \in Unreferenced(held, waiting, active, kept)
        PROVE  t \in posted /\ ~Refers(t)'
    <3>1. waiting \in Seq(Tasks)
      BY <1>0 DEF TimelineTypes
    <3>2. t \in posted /\ t \notin held /\ t # active /\ ~Waits(t)
          /\ \A i \in SyncPoints :
               t \notin kept[i].retired
               /\ \A k \in 1..Len(kept[i].actions) : kept[i].actions[k].task # t
      BY <2>2, <3>1, UnreferencedIs DEF Waits
    <3>3. \A i \in SyncPoints : kept[i].actions = sync[i].actions
                                /\ kept[i].retired = sync'[i].retired
      BY <1>0, <1>1 DEF TimelineTypes, Frame
    <3> HIDE DEF kept
    <3>4. \A i \in SyncPoints : ~Plans(i, t)' /\ t \notin sync'[i].retired
      <4> SUFFICES ASSUME NEW i \in SyncPoints
                   PROVE  ~Plans(i, t)' /\ t \notin sync'[i].retired
        OBVIOUS
      <4>1. ~Plans(i, t)
        BY <3>2, <3>3 DEF Plans
      <4> QED
        BY <1>3, <3>2, <3>3, <4>1
    <3>5. ~Waits(t)'
      BY <1>0, <3>2 DEF Waits
    <3> QED
      BY <1>0, <3>2, <3>4, <3>5 DEF Refers
  <2>3. ASSUME NEW t \in Tasks, IsGone(t)'
        PROVE  IsGone(t) \/ t \in Unreferenced(held, waiting, active, kept)
    <3>1. t \in disposing \/ t \in sync[c].condemned \/ t \in popped \/ t \in disposed
          \/ \E i \in SyncPoints : t \in frame(i).condemned
      BY <1>0, <2>3 DEF IsGone
    <3> QED
      BY <1>0, <1>1, <3>1 DEF IsGone
  <2> QED
    BY <1>0, <2>1, <2>2, <2>3, GoneStep DEF UploadInv
<1> QED
  BY <1>2, <1>4, <1>5, <1>6, <1>7, <1>8 DEF UploadInv

LEMMA ClearOK ==
  ASSUME UploadInv, ClearActions
  PROVE  UploadInv'
<1> DEFINE c == current
           f == [sync[c] EXCEPT !.actions = <<>>]
<1>0. TimelineTypes /\ c \in SyncPoints /\ place = "clear" /\ place' = "pump" /\ sync[c] \in Frame
      /\ condemned' = condemned \cup Unreferenced(held, waiting, active, sync')
      /\ UNCHANGED <<current, waiting, active, left, posted, held, signalled, low, high,
                     disposing, disposed>>
  BY DEF UploadInv, TimelineTypes, ClearActions, taskVars, heapVars
<1>1. f \in Frame /\ f.actions = <<>> /\ f.retired = sync[c].retired
      /\ f.condemned = sync[c].condemned
      /\ f.copy = sync[c].copy /\ f.close = sync[c].close
  <2>1. <<>> \in Seq(Planned)
    OBVIOUS
  <2> QED
    BY <1>0, <2>1, PlanFields
<1>2. sync' = [sync EXCEPT ![c] = f]
  BY <1>0 DEF ClearActions, TimelineTypes
<1> HIDE DEF f
<1>3. TimelineTypes'
  <2>1. condemned' \subseteq Tasks
    BY <1>0 DEF ClearActions, TimelineTypes, Unreferenced
  <2> QED
    BY <1>0, <1>1, <1>2, <2>1 DEF TimelineTypes
<1>4. \A i \in SyncPoints : sync'[i] = IF i = c THEN f ELSE sync[i]
  BY <1>0, <1>2 DEF TimelineTypes
<1>5. \A i \in SyncPoints : \A t : Plans(i, t)' <=> i # c /\ Plans(i, t)
  BY <1>1, <1>4 DEF Plans
<1>6. TasksOK'
  BY <1>0 DEF UploadInv, TasksOK, Waits
<1>7. \A i \in SyncPoints : FrameOK(i)'
  BY <1>0, <1>1, <1>4 DEF UploadInv, FrameOK, Planning
<1>8. SignalledOK'
  BY <1>0, <1>4, <1>5 DEF UploadInv, SignalledOK, Planning
<1>9. ASSUME NEW i \in SyncPoints
      PROVE  RetiredOK(i)'
  <2>1. \A j \in SyncPoints : Age(j)' = Age(j)
    BY <1>0 DEF Age
  <2>2. sync'[i].retired = sync[i].retired
    BY <1>1, <1>4
  <2> QED
    BY <1>0, <1>5, <2>1, <2>2 DEF UploadInv, RetiredOK
<1>10. GoneOK'
  <2>1. \A i \in SyncPoints : sync'[i].retired = sync[i].retired
                              /\ sync'[i].condemned = sync[i].condemned
    BY <1>1, <1>4
  <2>2. \A t \in Tasks : Refers(t)' => Refers(t)
    BY <1>0, <1>5, <2>1 DEF Refers, Waits
  <2>3. ASSUME NEW t \in Unreferenced(held, waiting, active, sync')
        PROVE  t \in posted' /\ ~Refers(t)'
    <3>1. waiting \in Seq(Tasks)
      BY <1>0 DEF TimelineTypes
    <3>2. t \in posted /\ t \notin held /\ t # active /\ ~Waits(t)
          /\ \A i \in SyncPoints :
               t \notin sync'[i].retired
               /\ \A k \in 1..Len(sync'[i].actions) : sync'[i].actions[k].task # t
      BY <2>3, <3>1, UnreferencedIs DEF Waits
    <3> QED
      BY <1>0, <3>2 DEF Refers, Plans, Waits
  <2>4. \A t \in Tasks : IsGone(t)' => IsGone(t) \/ t \in Unreferenced(held, waiting, active, sync')
    BY <1>0, <2>1 DEF IsGone
  <2> QED
    BY <1>0, <2>2, <2>3, <2>4, GoneStep DEF UploadInv
<1> QED
  BY <1>3, <1>6, <1>7, <1>8, <1>9, <1>10 DEF UploadInv

LEMMA StartOK ==
  ASSUME UploadInv, StartTask
  PROVE  UploadInv'
<1>0. /\ TimelineTypes /\ place = "pump" /\ active = NoTask /\ waiting # <<>>
      /\ active' = waiting[Len(waiting)] /\ waiting' = SubSeq(waiting, 1, Len(waiting) - 1)
      /\ UNCHANGED <<current, place, sync, low, high, left, posted, held, signalled, condemned,
                     disposing, disposed>>
  BY DEF UploadInv, StartTask, heapVars, endVars, Last, Front
<1>1. /\ waiting' \in Seq(Tasks) /\ Len(waiting') = Len(waiting) - 1 /\ active' \in Tasks
      /\ \A k \in 1..Len(waiting') : waiting'[k] = waiting[k] /\ k \in 1..Len(waiting)
      /\ Len(waiting) \in 1..Len(waiting) /\ Len(waiting) \notin 1..Len(waiting')
  <2>1. waiting \in Seq(Tasks) /\ Len(waiting) \in Nat \ {0}
    BY <1>0 DEF TimelineTypes
  <2>2. active' \in Tasks
    BY <1>0, <2>1
  <2>3. waiting' \in Seq(Tasks) /\ Len(waiting') = Len(waiting) - 1
    <3>1. Len(waiting) - 1 \in Int /\ \A k \in 1..(Len(waiting) - 1) : waiting[k] \in Tasks
      BY <2>1
    <3> DEFINE n == Len(waiting) - 1
    <3>2. n \in Nat /\ \A k \in 1..n : waiting[k] \in Tasks
      BY <2>1, <3>1
    <3> HIDE DEF n
    <3>3. SubSeq(waiting, 1, n) \in Seq(Tasks)
          /\ Len(SubSeq(waiting, 1, n)) = IF 1 <= n THEN n - 1 + 1 ELSE 0
      BY <3>2, SubSeqProperties
    <3>4. Len(SubSeq(waiting, 1, n)) = n
      BY <3>2, <3>3
    <3> QED
      BY <1>0, <3>3, <3>4 DEF n
  <2>4. \A k \in 1..Len(waiting') : waiting'[k] = waiting[k]
    BY <1>0, <2>1, <2>3
  <2> QED
    BY <2>1, <2>2, <2>3, <2>4
<1>2. TimelineTypes'
  BY <1>0, <1>1 DEF TimelineTypes
<1>3. \A t : Waits(t)' => Waits(t) /\ t # active'
  BY <1>0, <1>1 DEF UploadInv, TasksOK, Waits
<1>4. Waits(active')
  BY <1>0, <1>1 DEF Waits
<1>5. TasksOK'
  <2>1. \A k, l \in 1..Len(waiting') : waiting'[k] = waiting'[l] => k = l
    BY <1>1, SMTT(30) DEF UploadInv, TasksOK
  <2> QED
    BY <1>0, <1>3, <1>4, <2>1 DEF UploadInv, TasksOK
<1>6. SignalledOK'
  BY <1>0 DEF UploadInv, SignalledOK, Plans, Planning
<1>7. ASSUME NEW i \in SyncPoints
      PROVE  FrameOK(i)' /\ RetiredOK(i)'
  BY <1>0 DEF UploadInv, RetiredOK, FrameOK, Planning, Plans, Age
<1>8. GoneOK'
  <2>1. \A t \in Tasks : Refers(t)' => Refers(t)
    BY <1>0, <1>3, <1>4 DEF Refers, Plans
  <2>2. \A t \in Tasks : IsGone(t)' => IsGone(t)
    BY <1>0 DEF IsGone
  <2> QED
    BY <1>0, <2>1, <2>2, GoneStep DEF UploadInv
<1> QED
  BY <1>2, <1>5, <1>6, <1>7, <1>8 DEF UploadInv

LEMMA PumpOK ==
  ASSUME UploadInv, PumpTask
  PROVE  UploadInv'
<1> DEFINE c == current
           t == active
           h == Head(left[t])
           n == Amount(t)
           rest == h.rows - n
           more == IF rest = 0 THEN Tail(left[t]) ELSE <<[h EXCEPT !.rows = rest]>> \o Tail(left[t])
           copy(a) == [task |-> t, at |-> a, size |-> n, left |-> left[t]]
<1>1. PICK a \in Places(t) :
        /\ high' = Consumed(a, n)
        /\ left' = [left EXCEPT ![t] = more]
        /\ sync' = [sync EXCEPT ![c].actions = Append(@, copy(a)),
                                ![c].retired = IF more = <<>> THEN @ \cup {t} ELSE @]
        /\ active' = IF more = <<>> THEN NoTask ELSE t
  BY DEF PumpTask
<1>2. /\ TimelineTypes /\ c \in SyncPoints /\ place = "pump" /\ sync[c] \in Frame /\ t \in Tasks
      /\ t \in posted /\ ~Waits(t) /\ left[t] \in Seq(Extent) /\ left[t] # <<>>
      /\ UNCHANGED <<current, place, low, waiting, posted, held, signalled, condemned, disposing,
                     disposed>>
  BY DEF UploadInv, TasksOK, TimelineTypes, PumpTask, endVars
<1>3. h \in Extent /\ Tail(left[t]) \in Seq(Extent)
  BY <1>2
<1>4. n \in Int /\ a \in Int
  <2>1. h.rows \in Int
    BY <1>3 DEF Extent
  <2>2. ContiguousLow \in Int
    BY <1>2, TimelineAssumption DEF ContiguousLow, TimelineTypes
  <2>3. a \in {high, 0}
    BY <1>1 DEF Places, MipPlaces
  <2> QED
    BY <1>2, <2>1, <2>2, <2>3 DEF Amount, TimelineTypes
<1>5. more \in Seq(Extent)
  <2>1. rest \in Int /\ [h EXCEPT !.rows = rest] \in Extent
    BY <1>3, <1>4 DEF Extent
  <2> HIDE DEF rest
  <2> QED
    BY <1>3, <2>1, ConcatProperties
<1>6. high' \in Int
  BY <1>1, <1>2, <1>4, TimelineAssumption DEF Consumed, TimelineTypes
<1>7. copy(a) \in Planned /\ copy(a).task = t
  BY <1>2, <1>4 DEF Planned
<1> HIDE DEF more, copy
<1> DEFINE actions == Append(sync[c].actions, copy(a))
           retired == IF more = <<>> THEN sync[c].retired \cup {t} ELSE sync[c].retired
           f == [sync[c] EXCEPT !.actions = actions, !.retired = retired]
<1>8. /\ sync[c].actions \in Seq(Planned) /\ actions \in Seq(Planned)
      /\ Len(actions) = Len(sync[c].actions) + 1
      /\ \A k \in 1..Len(actions) :
           actions[k] = IF k <= Len(sync[c].actions) THEN sync[c].actions[k] ELSE copy(a)
  BY <1>2, <1>7, AppendProperties DEF Frame
<1>9. sync' = [sync EXCEPT ![c] = f]
  BY <1>1, <1>2 DEF TimelineTypes, Frame
<1> HIDE DEF actions
<1>10. /\ f \in Frame /\ f.actions = actions /\ f.retired = retired
       /\ f.copy = sync[c].copy /\ f.close = sync[c].close /\ f.condemned = sync[c].condemned
  BY <1>2, <1>8 DEF Frame
<1> HIDE DEF f
<1>11. TimelineTypes'
  BY <1>1, <1>2, <1>5, <1>6, <1>9, <1>10 DEF TimelineTypes
<1>12. \A i \in SyncPoints : sync'[i] = IF i = c THEN f ELSE sync[i]
  BY <1>2, <1>9 DEF TimelineTypes
<1>13. \A i \in SyncPoints : \A u : Plans(i, u)' <=> Plans(i, u) \/ (i = c /\ u = t)
  <2>1. \A u : (\E k \in 1..Len(actions) : actions[k].task = u) <=> Plans(c, u) \/ u = t
    <3> DEFINE old == sync[c].actions
               l == Len(old)
    <3>1. l \in Nat
      BY <1>8
    <3>2. /\ \A k \in 1..l : k \in 1..Len(actions) /\ actions[k] = old[k]
          /\ l + 1 \in 1..Len(actions) /\ actions[l + 1] = copy(a)
          /\ \A k \in 1..Len(actions) : k \in 1..l \/ k = l + 1
      BY <1>8, <3>1
    <3>3. \A u : Plans(c, u) <=> \E k \in 1..l : old[k].task = u
      BY DEF Plans
    <3> HIDE DEF old, l
    <3> QED
      BY <1>7, <3>2, <3>3
  <2> SUFFICES ASSUME NEW i \in SyncPoints, NEW u
               PROVE  Plans(i, u)' <=> Plans(i, u) \/ (i = c /\ u = t)
    OBVIOUS
  <2>2. CASE i = c
    <3>1. sync'[i].actions = actions
      BY <1>10, <1>12, <2>2
    <3>2. Plans(i, u)' <=> \E k \in 1..Len(actions) : actions[k].task = u
      BY <3>1 DEF Plans
    <3> QED
      BY <2>1, <2>2, <3>2
  <2>3. CASE i # c
    BY <1>12, <2>3 DEF Plans
  <2> QED
    BY <2>2, <2>3
<1>14. \A u \in Tasks : left'[u] = IF u = t THEN more ELSE left[u]
  BY <1>1, <1>2 DEF TimelineTypes
<1>15. TasksOK'
  <2>1. \A u : Waits(u)' <=> Waits(u)
    BY <1>2 DEF Waits
  <2>2. ~Waits(NoTask)
    BY <1>2, TimelineAssumption DEF Waits, TimelineTypes
  <2>3. NoTask \notin Tasks
    BY TimelineAssumption
  <2> QED
    BY <1>1, <1>2, <1>14, <2>1, <2>2, <2>3 DEF UploadInv, TasksOK
<1>16. SignalledOK'
  BY <1>2, <1>10, <1>12, <1>13, <1>14 DEF UploadInv, SignalledOK, Planning, TimelineTypes
<1>17. \A i \in SyncPoints : FrameOK(i)'
  BY <1>2, <1>10, <1>12 DEF UploadInv, FrameOK, Planning
<1>18. ASSUME NEW i \in SyncPoints
       PROVE  RetiredOK(i)'
  <2>1. \A j \in SyncPoints : Age(j)' = Age(j)
    BY <1>2 DEF Age
  <2>2. Age(c) = 0 /\ \A j \in SyncPoints : Age(j) \in Nat
    BY <1>2, AgeBounds, TimelineAssumption
  <2>3. sync[i].retired \subseteq Tasks /\ \A u \in sync[i].retired : u # t
    BY <1>2 DEF UploadInv, RetiredOK, TimelineTypes, Frame
  <2>4. CASE i = c
    <3>1. sync'[i].retired = retired
      BY <1>10, <1>12, <2>4
    <3>2. \A u \in retired : left'[u] = <<>> /\ u \in posted
      BY <1>2, <1>14, <2>3, <2>4 DEF UploadInv, RetiredOK
    <3> QED
      BY <1>2, <2>1, <2>2, <2>4, <3>1, <3>2 DEF RetiredOK
  <2>5. CASE i # c
    BY <1>2, <1>12, <1>13, <1>14, <2>1, <2>3, <2>5 DEF UploadInv, RetiredOK
  <2> QED
    BY <2>4, <2>5
<1>19. GoneOK'
  <2>1. \A i \in SyncPoints : sync'[i].condemned = sync[i].condemned
    BY <1>10, <1>12
  <2>2. \A i \in SyncPoints : \A u \in sync'[i].retired : u \in sync[i].retired \/ u = t
    BY <1>10, <1>12
  <2>3. \A u \in Tasks : IsGone(u)' => IsGone(u)
    BY <1>2, <2>1 DEF IsGone
  <2>4. \A u \in Tasks : Refers(u)' => Refers(u)
    <3>1. \A u \in Tasks : u = active' => u = t
      BY <1>1, TimelineAssumption
    <3> QED
      BY <1>2, <1>13, <2>2, <3>1 DEF Refers, Waits
  <2> QED
    BY <1>2, <2>3, <2>4, GoneStep DEF UploadInv
<1> QED
  BY <1>11, <1>15, <1>16, <1>17, <1>18, <1>19 DEF UploadInv

LEMMA PostCopyOK ==
  ASSUME UploadInv, PostCopyJobs
  PROVE  UploadInv'
<1> DEFINE c == current
           job == IF sync[c].actions = <<>> THEN "none" ELSE "queued"
           f == [sync[c] EXCEPT !.final = FinalMark, !.memCopy = job, !.cleanup = job]
<1>1. /\ TimelineTypes /\ c \in SyncPoints /\ place = "pump" /\ place' = "end" /\ sync[c] \in Frame
      /\ high \in Int /\ sync' = [sync EXCEPT ![c] = f]
      /\ UNCHANGED <<current, low, high, waiting, active, left, posted, held, signalled,
                     condemned, disposing, disposed>>
  BY DEF UploadInv, TimelineTypes, PostCopyJobs, heapVars, taskVars, endVars
<1>2. /\ f \in Frame /\ f.actions = sync[c].actions /\ f.retired = sync[c].retired
      /\ f.copy = sync[c].copy /\ f.close = sync[c].close
      /\ f.condemned = sync[c].condemned /\ (f.actions # <<>> => f.memCopy # "none")
  BY <1>1 DEF Frame, FinalMark
<1> HIDE DEF f
<1>3. \A i \in SyncPoints : sync'[i] = IF i = c THEN f ELSE sync[i]
  BY <1>1 DEF TimelineTypes
<1>4. TimelineTypes' /\ TasksOK'
  BY <1>1, <1>2 DEF UploadInv, TimelineTypes, TasksOK, Waits
<1>5. \A i \in SyncPoints : \A u : Plans(i, u)' <=> Plans(i, u)
  BY <1>2, <1>3 DEF Plans
<1>6. SignalledOK'
  BY <1>1, <1>2, <1>3, <1>5 DEF UploadInv, SignalledOK, Planning
<1>7. \A i \in SyncPoints : FrameOK(i)'
  BY <1>1, <1>2, <1>3 DEF UploadInv, FrameOK, Planning
<1>8. ASSUME NEW i \in SyncPoints
      PROVE  RetiredOK(i)'
  <2>1. \A j \in SyncPoints : Age(j)' = Age(j)
    BY <1>1 DEF Age
  <2> QED
    BY <1>1, <1>2, <1>3, <1>5, <2>1 DEF UploadInv, RetiredOK
<1>9. GoneOK'
  <2>1. \A i \in SyncPoints : sync'[i].retired = sync[i].retired
                              /\ sync'[i].condemned = sync[i].condemned
    BY <1>2, <1>3
  <2>2. \A t \in Tasks : IsGone(t)' => IsGone(t)
    BY <1>1, <2>1 DEF IsGone
  <2>3. \A t \in Tasks : Refers(t)' => Refers(t)
    BY <1>1, <1>5, <2>1 DEF Refers, Waits
  <2> QED
    BY <1>1, <2>2, <2>3, GoneStep DEF UploadInv
<1> QED
  BY <1>4, <1>6, <1>7, <1>8, <1>9 DEF UploadInv

LEMMA EndFrameOK ==
  ASSUME UploadInv, EndFrame
  PROVE  UploadInv'
<1> DEFINE c == current
           copies == IF sync[c].memCopy = "none" THEN "none" ELSE "queued"
           f == [sync[c] EXCEPT !.close = "queued", !.copy = copies]
<1>1. /\ TimelineTypes /\ c \in SyncPoints /\ place = "end" /\ place' = "retire" /\ sync[c] \in Frame
      /\ sync' = [sync EXCEPT ![c] = f]
      /\ UNCHANGED <<low, high, waiting, active, left, posted, held, signalled, condemned,
                     disposing, disposed>>
  BY DEF UploadInv, TimelineTypes, EndFrame, heapVars, taskVars, endVars
<1>2. /\ f \in Frame /\ f.actions = sync[c].actions /\ f.retired = sync[c].retired
      /\ f.copy \in {"none", "queued"} /\ f.close = "queued"
      /\ f.condemned = sync[c].condemned /\ (sync[c].memCopy # "none" => f.copy = "queued")
  BY <1>1 DEF Frame
<1> HIDE DEF f
<1>3. \A i \in SyncPoints : sync'[i] = IF i = c THEN f ELSE sync[i]
  BY <1>1 DEF TimelineTypes
<1>4. TimelineTypes' /\ TasksOK'
  BY <1>1, <1>2, AgesTogether DEF UploadInv, TimelineTypes, TasksOK, Waits
<1>5. \A i \in SyncPoints : \A u : Plans(i, u)' <=> Plans(i, u)
  BY <1>2, <1>3 DEF Plans
<1>6. SignalledOK'
  BY <1>1, <1>2, <1>3, <1>5 DEF UploadInv, SignalledOK, Planning
<1>7. \A i \in SyncPoints : FrameOK(i)'
  BY <1>1, <1>2, <1>3 DEF UploadInv, FrameOK, Planning
<1>8. ASSUME NEW i \in SyncPoints
      PROVE  RetiredOK(i)'
  <2>1. \A j \in SyncPoints : Age(j) \in Int /\ Age(j)' = Age(j) + 1
    BY <1>1, AgesTogether, AgeBounds, TimelineAssumption
  <2> QED
    BY <1>1, <1>2, <1>3, <1>5, <2>1 DEF UploadInv, RetiredOK
<1>9. GoneOK'
  <2>1. \A i \in SyncPoints : sync'[i].retired = sync[i].retired
                              /\ sync'[i].condemned = sync[i].condemned
    BY <1>2, <1>3
  <2>2. \A t \in Tasks : IsGone(t)' => IsGone(t)
    BY <1>1, <2>1 DEF IsGone
  <2>3. \A t \in Tasks : Refers(t)' => Refers(t)
    BY <1>1, <1>5, <2>1 DEF Refers, Waits
  <2> QED
    BY <1>1, <2>2, <2>3, GoneStep DEF UploadInv
<1> QED
  BY <1>4, <1>6, <1>7, <1>8, <1>9 DEF UploadInv

LEMMA TimelineInitInv ==
  ASSUME TimelineInit
  PROVE  UploadInv
<1>1. TimelineTypes
  <2>1. Parts \in [Tasks -> Seq(Extent)]
    <3>1. Part \subseteq Extent
      BY DEF Part, Extent
    <3> QED
      BY <3>1, SeqMonotonic, TimelineAssumption
  <2>2. <<>> \in Seq(Planned) /\ <<>> \in Seq(Tasks)
    OBVIOUS
  <2>3. \A i \in SyncPoints : sync[i] \in Frame
    BY <2>2 DEF TimelineInit, Frame
  <2>4. sync \in [SyncPoints -> Frame]
    BY <2>3 DEF TimelineInit
  <2>5. current \in SyncPoints
    BY TimelineAssumption DEF TimelineInit, SyncPoints
  <2> QED
    BY <2>1, <2>2, <2>4, <2>5 DEF TimelineInit, TimelineTypes
<1>2. \A i \in SyncPoints : sync[i].actions = <<>> /\ sync[i].retired = {}
                            /\ sync[i].copy = "none" /\ sync[i].close = "none"
  BY DEF TimelineInit
<1>3. \A t : ~Waits(t)
  BY DEF TimelineInit, Waits
<1>4. TasksOK
  BY <1>3, TimelineAssumption DEF TimelineInit, TasksOK
<1>5. SignalledOK /\ GoneOK
  BY DEF TimelineInit, SignalledOK, GoneOK, IsGone
<1>6. \A i \in SyncPoints : FrameOK(i) /\ RetiredOK(i)
  BY <1>2 DEF FrameOK, RetiredOK
<1> QED
  BY <1>1, <1>4, <1>5, <1>6 DEF UploadInv

LEMMA TimelineNextInv ==
  ASSUME UploadInv, [TimelineNext]_tlVars
  PROVE  UploadInv'
<1>1. CASE MainThread
  BY <1>1, RetireOK, ClearOK, StartOK, PumpOK, PostCopyOK, EndFrameOK DEF MainThread
<1>2. CASE AsyncDispose
  <2>1. condemned' \cup disposing' \cup disposed' \subseteq Tasks
    BY <1>2 DEF AsyncDispose, UploadInv, TimelineTypes
  <2>2. GoneOK'
    BY <1>2 DEF AsyncDispose, taskVars, UploadInv, GoneOK, IsGone, Refers, Waits, Plans
  <2> QED
    BY <1>2, <2>1, <2>2, QuietStep DEF AsyncDispose, heapVars, taskVars
<1>3. ASSUME NEW i \in SyncPoints, Worker(i) \/ Gpu(i)
      PROVE  UploadInv'
  BY <1>3, WorkersAndGpu
<1>4. ASSUME NEW t \in Tasks, Poster(t)
      PROVE  UploadInv'
  <2>1. CASE PostAsyncUploadTask(t)
    BY <2>1, PosterOK
  <2>2. CASE RCTrackerZero(t)
    <3>1. condemned' \cup disposing' \cup disposed' \subseteq Tasks
      BY <2>2 DEF RCTrackerZero, Unreferenced, UploadInv, TimelineTypes
    <3>2. GoneOK'
      <4>1. waiting \in Seq(Tasks)
        BY DEF UploadInv, TimelineTypes
      <4>2. ASSUME NEW u \in Unreferenced(held', waiting, active, sync)
            PROVE  u \in posted' /\ ~Refers(u)'
        <5>1. u \in posted /\ u \notin held' /\ u # active /\ ~Waits(u)
              /\ \A i \in SyncPoints :
                   u \notin sync[i].retired
                   /\ \A k \in 1..Len(sync[i].actions) : sync[i].actions[k].task # u
          BY <4>1, <4>2, UnreferencedIs DEF Waits
        <5> QED
          BY <2>2, <5>1 DEF RCTrackerZero, Refers, Plans, Waits
      <4>3. \A u \in Tasks : IsGone(u)' =>
                              IsGone(u) \/ u \in Unreferenced(held', waiting, active, sync)
        BY <2>2 DEF RCTrackerZero, IsGone
      <4>4. \A u \in Tasks : Refers(u)' => Refers(u)
        BY <2>2 DEF RCTrackerZero, Refers, Waits, Plans
      <4> QED
        BY <2>2, <4>2, <4>3, <4>4, GoneStep DEF RCTrackerZero, UploadInv
    <3> QED
      BY <2>2, <3>1, <3>2, QuietStep DEF RCTrackerZero, heapVars
  <2> QED
    BY <1>4, <2>1, <2>2 DEF Poster
<1>5. CASE UNCHANGED tlVars
  <2>1. condemned' \cup disposing' \cup disposed' \subseteq Tasks
    BY <1>5 DEF tlVars, UploadInv, TimelineTypes
  <2>2. GoneOK'
    BY <1>5 DEF tlVars, UploadInv, GoneOK, IsGone, Refers, Waits, Plans
  <2> QED
    BY <1>5, <2>1, <2>2, QuietStep DEF tlVars
<1> QED
  BY <1>1, <1>2, <1>3, <1>4, <1>5 DEF TimelineNext

-----------------------------------------------------------------------------

(* Uploads and frames keep in step in every behaviour.                     *)
THEOREM TimelineInv == TimelineSpec => []UploadInv
<1>1. TimelineInit => UploadInv
  BY TimelineInitInv
<1>2. UploadInv /\ [TimelineNext]_tlVars => UploadInv'
  BY TimelineNextInv
<1> QED
  BY <1>1, <1>2, PTL DEF TimelineSpec

(* OnUploadCompleted is called only when all of the upload is planned and  *)
(* the GPU has executed every copy of it, however many frames it spans.    *)
THEOREM TimelineDoneMeansUploaded == TimelineSpec => []DoneMeansUploaded
<1>1. UploadInv => DoneMeansUploaded
  BY DEF UploadInv, SignalledOK, DoneMeansUploaded, Plans
<1> QED
  BY <1>1, TimelineInv, PTL

(* A texture or buffer that has been destroyed is referred to by nobody:   *)
(* by its poster, by a task, or by a copy that some frame has planned and  *)
(* the GPU may still execute.                                              *)
NothingDisposedInUse == \A t \in disposed : ~Refers(t)

(* Retirement and the condemned stack destroy a resource only after its    *)
(* last frame, whatever order its poster, its task and its frames end in.  *)
THEOREM TimelineNothingDisposedInUse == TimelineSpec => []NothingDisposedInUse
<1>1. ASSUME UploadInv
      PROVE  NothingDisposedInUse
  <2>1. disposed \subseteq Tasks
    BY <1>1 DEF UploadInv, TimelineTypes
  <2> QED
    BY <1>1, <2>1 DEF UploadInv, GoneOK, IsGone, NothingDisposedInUse
<1> QED
  BY <1>1, TimelineInv, PTL

-----------------------------------------------------------------------------
(* The game resource manager.                                              *)

HandleRecord == [to : {"nothing", "request", "resource"}, id : Nat, key : AssetKeys \cup {None}]
RequestRecord == [future : {"reset", "pending", "completed", "failed"}, at : Addresses \cup {None}]
ResourceRecord == [at : Addresses \cup {None}, refs : Nat]

GameTypes ==
  /\ handle \in [Handles -> HandleRecord]
  /\ requests \in Seq(RequestRecord) /\ resources \in Seq(ResourceRecord)
  /\ requestIDs \in Seq(Nat) /\ resourceIDs \in Seq(Nat)
  /\ DOMAIN resourceAt \subseteq Addresses
  /\ keyAt \in [Addresses -> AssetKeys \cup {None}]

(* What a handle's number stands for.                                      *)
RequestOK(h) ==
  LET r == requests[handle[h].id]
  IN  /\ handle[h].id \in 1..Len(requests) /\ r.future # "reset"
      /\ r.future = "completed" => r.at \in Addresses /\ keyAt[r.at] = handle[h].key

ResourceOK(h) ==
  LET r == resources[handle[h].id]
  IN  handle[h].id \in 1..Len(resources) /\ r.at \in Addresses /\ keyAt[r.at] = handle[h].key

RequestsOK ==
  /\ \A h \in Handles : Requested(h) => RequestOK(h)
  /\ \A h \in Handles : \A g \in Handles \ {h} :
       Requested(h) /\ Requested(g) => handle[g].id # handle[h].id
  /\ FreeIDs(requestIDs, requests, NoRequest)

Referrers(i) == {h \in Handles : Acquired(h) /\ handle[h].id = i}

ResourcesOK ==
  /\ \A h \in Handles : Acquired(h) => ResourceOK(h)
  /\ \A i \in 1..Len(resources) : resources[i].refs = Cardinality(Referrers(i))
  /\ FreeIDs(resourceIDs, resources, NoResource)

(* The map and the list agree.                                             *)
MapOK ==
  \A a \in Addresses : \A i \in 1..Len(resources) :
    resources[i].at = a <=> a \in DOMAIN resourceAt /\ resourceAt[a] = i

MapInRange == \A a \in DOMAIN resourceAt : resourceAt[a] \in 1..Len(resources)

GRInv == GameTypes /\ RequestsOK /\ ResourcesOK /\ MapOK /\ MapInRange

-----------------------------------------------------------------------------
(* The lists of free numbers.                                              *)

LEMMA Taken ==
  ASSUME NEW S, NEW none \in S, NEW items \in Seq(S), NEW ids \in Seq(Nat), ids # <<>>,
         FreeIDs(ids, items, none), NEW v \in S, v # none, NEW id, id = Last(ids)
  PROVE  /\ id \in 1..Len(items) /\ items[id] = none
         /\ Front(ids) \in Seq(Nat) /\ FreeIDs(Front(ids), [items EXCEPT ![id] = v], none)
<1> DEFINE n == Len(ids)
           f == Front(ids)
           new == [items EXCEPT ![id] = v]
<1>1. n \in Nat /\ n >= 1
  BY EmptySeq
<1>2. /\ \A i, j \in 1..n : ids[i] = ids[j] => i = j
      /\ \A i \in 1..n : ids[i] \in 1..Len(items) /\ items[ids[i]] = none
      /\ \A k \in 1..Len(items) : items[k] = none => \E i \in 1..n : ids[i] = k
  BY DEF FreeIDs, IsInjective, ToSet
<1>3. id = ids[n]
  BY DEF Last
<1>4. id \in 1..Len(items) /\ items[id] = none
  BY <1>1, <1>2, <1>3
<1>5. /\ f \in Seq(Nat) /\ DOMAIN f = 1..(n - 1)
      /\ \A i \in 1..(n - 1) : f[i] = ids[i]
  <2>1. \A i \in 1..(n - 1) : ids[i] \in Nat
    BY <1>1
  <2>2. f = SubSeq(ids, 1, n - 1)
    BY DEF Front
  <2> HIDE DEF n, f
  <2>3. /\ f \in Seq(Nat) /\ Len(f) = n - 1
        /\ \A i \in 1..(n - 1) : f[i] = ids[1 + i - 1]
    BY <1>1, <2>1, <2>2, SubSeqProperties
  <2>4. \A i \in 1..(n - 1) : 1 + i - 1 = i
    BY <1>1
  <2> QED
    BY <2>3, <2>4
<1>6. Len(new) = Len(items) /\ \A k \in 1..Len(items) : new[k] = IF k = id THEN v ELSE items[k]
  BY <1>4, ExceptSeq
<1> HIDE DEF f, new, n
<1>7. IsInjective(f)
  <2> SUFFICES ASSUME NEW i \in 1..(n - 1), NEW j \in 1..(n - 1), f[i] = f[j]
               PROVE  i = j
    BY <1>5 DEF IsInjective
  <2>1. i \in 1..n /\ j \in 1..n /\ ids[i] = ids[j]
    BY <1>1, <1>5
  <2> QED
    BY <1>2, <2>1
<1>8. ToSet(f) = {k \in 1..Len(new) : new[k] = none}
  <2>1. ASSUME NEW k, k \in ToSet(f)
        PROVE  k \in 1..Len(new) /\ new[k] = none
    <3>1. PICK i \in 1..(n - 1) : k = ids[i]
      BY <1>1, <1>5, <2>1 DEF ToSet
    <3>2. k # id
      BY <1>1, <1>2, <1>3, <3>1
    <3> QED
      BY <1>1, <1>2, <1>6, <3>1, <3>2
  <2>2. ASSUME NEW k \in 1..Len(new), new[k] = none
        PROVE  k \in ToSet(f)
    <3>1. k # id /\ items[k] = none
      BY <1>6, <2>2
    <3>2. PICK i \in 1..n : ids[i] = k
      BY <1>2, <1>6, <3>1
    <3>3. i \in 1..(n - 1)
      BY <1>1, <1>3, <3>1, <3>2
    <3> QED
      BY <1>1, <1>5, <3>2, <3>3 DEF ToSet
  <2> QED
    BY <2>1, <2>2
<1> QED
  BY <1>4, <1>5, <1>7, <1>8 DEF FreeIDs, f, new

(* ReserveFreeID.                                                          *)
LEMMA ReserveOK ==
  ASSUME NEW S, NEW none \in S, NEW items \in Seq(S), NEW ids \in Seq(Nat),
         FreeIDs(ids, items, none), NEW l, l = Reserved(items, ids, none)
  PROVE  /\ l.items \in Seq(S) /\ l.ids \in Seq(Nat) /\ l.ids # <<>>
         /\ FreeIDs(l.ids, l.items, none)
         /\ Len(l.items) \in {Len(items), Len(items) + 1}
         /\ \A i \in 1..Len(items) : l.items[i] = items[i]
         /\ \A i \in 1..Len(l.items) : i \notin 1..Len(items) => l.items[i] = none
<1>1. CASE ids # <<>>
  BY <1>1 DEF Reserved
<1>2. CASE ids = <<>>
  <2> DEFINE n == Len(items)
             new == Append(items, none)
  <2>1. l.items = new /\ l.ids = <<n + 1>>
    BY <1>2 DEF Reserved
  <2>2. n \in Nat /\ new \in Seq(S) /\ Len(new) = n + 1 /\ new[n + 1] = none
        /\ \A i \in 1..n : new[i] = items[i]
    BY AppendProperties
  <2>3. \A i \in 1..n : items[i] # none
    BY <1>2 DEF FreeIDs, ToSet
  <2> HIDE DEF n, new
  <2>4. /\ <<n + 1>> \in Seq(Nat) /\ <<n + 1>> # <<>> /\ DOMAIN <<n + 1>> = {1}
        /\ <<n + 1>>[1] = n + 1
    BY <2>2
  <2>5. IsInjective(<<n + 1>>) /\ ToSet(<<n + 1>>) = {n + 1}
    BY <2>4 DEF IsInjective, ToSet
  <2>6. {i \in 1..Len(new) : new[i] = none} = {n + 1}
    BY <2>2, <2>3, SMTT(30)
  <2>7. FreeIDs(<<n + 1>>, new, none)
    BY <2>5, <2>6 DEF FreeIDs
  <2> QED
    BY <2>1, <2>2, <2>4, <2>7 DEF n
<1> QED
  BY <1>1, <1>2

LEMMA Given ==
  ASSUME NEW S, NEW none \in S, NEW items \in Seq(S), NEW ids \in Seq(Nat),
         FreeIDs(ids, items, none), NEW id \in 1..Len(items), items[id] # none
  PROVE  /\ Append(ids, id) \in Seq(Nat)
         /\ FreeIDs(Append(ids, id), [items EXCEPT ![id] = none], none)
<1> DEFINE n == Len(ids)
           f == Append(ids, id)
           new == [items EXCEPT ![id] = none]
<1>1. /\ \A i, j \in 1..n : ids[i] = ids[j] => i = j
      /\ \A i \in 1..n : ids[i] \in 1..Len(items) /\ items[ids[i]] = none
      /\ \A k \in 1..Len(items) : items[k] = none => \E i \in 1..n : ids[i] = k
  BY SMTT(30) DEF FreeIDs, IsInjective, ToSet
<1>2. /\ n \in Nat /\ f \in Seq(Nat) /\ DOMAIN f = 1..(n + 1) /\ f[n + 1] = id
      /\ \A i \in 1..n : f[i] = ids[i]
  BY AppendProperties
<1>3. Len(new) = Len(items) /\ \A k \in 1..Len(items) : new[k] = IF k = id THEN none ELSE items[k]
  BY ExceptSeq
<1> HIDE DEF f, new, n
<1>4. \A i \in 1..n : ids[i] # id
  BY <1>1
<1>5. IsInjective(f)
  BY <1>1, <1>2, <1>4, SMTT(30) DEF IsInjective
<1>6. ToSet(f) = {k \in 1..Len(new) : new[k] = none}
  <2>1. ASSUME NEW k, k \in ToSet(f)
        PROVE  k \in 1..Len(new) /\ new[k] = none
    <3>1. PICK i \in 1..(n + 1) : k = f[i]
      BY <1>2, <2>1 DEF ToSet
    <3> QED
      BY <1>1, <1>2, <1>3, <3>1
  <2>2. ASSUME NEW k \in 1..Len(new), new[k] = none
        PROVE  k \in ToSet(f)
    <3>1. CASE k = id
      BY <1>2, <3>1, SMTT(30) DEF ToSet
    <3>2. CASE k # id
      <4>1. PICK i \in 1..n : ids[i] = k
        BY <1>1, <1>3, <2>2, <3>2
      <4>2. i \in DOMAIN f /\ f[i] = k
        BY <1>2, <4>1
      <4> QED
        BY <4>2 DEF ToSet
    <3> QED
      BY <3>1, <3>2
  <2> QED
    BY <2>1, <2>2
<1> QED
  BY <1>2, <1>5, <1>6 DEF FreeIDs, f, new

LEMMA Replaced ==
  ASSUME NEW S, NEW none, NEW items \in Seq(S), NEW ids,
         FreeIDs(ids, items, none), NEW id \in 1..Len(items), items[id] # none,
         NEW v \in S, v # none
  PROVE  FreeIDs(ids, [items EXCEPT ![id] = v], none)
BY ExceptSeq DEF FreeIDs

-----------------------------------------------------------------------------

LEMMA Records ==
  /\ NoHandle \in HandleRecord /\ NoHandle.to = "nothing"
  /\ NoRequest \in RequestRecord /\ NoRequest.future = "reset"
  /\ NoResource \in ResourceRecord /\ NoResource.at = None /\ NoResource.refs = 0
  /\ \A r \in HandleRecord : r.id \in Nat /\ r.key \in AssetKeys \cup {None}
  /\ \A r \in RequestRecord : r.at \in Addresses \cup {None}
  /\ \A r \in ResourceRecord : r.at \in Addresses \cup {None} /\ r.refs \in Nat
BY DEF NoHandle, NoRequest, NoResource, HandleRecord, RequestRecord, ResourceRecord

LEMMA ReferrersFinite ==
  ASSUME NEW i
  PROVE  IsFiniteSet(Referrers(i)) /\ Cardinality(Referrers(i)) \in Nat
<1>1. Referrers(i) \subseteq Handles /\ IsFiniteSet(Handles)
  BY GameResourcesAssumption DEF Referrers
<1> QED
  BY <1>1, FS_Subset, FS_CardinalityType

(* A step that neither gives nor takes a resource.                         *)
LEMMA ResourcesKept ==
  ASSUME GRInv, UNCHANGED <<resources, resourceIDs, resourceAt>>,
         \A g \in Handles : /\ Acquired(g)' <=> Acquired(g)
                            /\ Acquired(g) => handle'[g] = handle[g],
         \A i \in 1..Len(resources) : resources[i].at \in Addresses =>
           keyAt'[resources[i].at] = keyAt[resources[i].at]
  PROVE  ResourcesOK' /\ MapOK' /\ MapInRange'
<1>1. \A i : Referrers(i)' = Referrers(i)
  BY DEF Referrers
<1>2. ASSUME NEW g \in Handles, Acquired(g)'
      PROVE  ResourceOK(g)'
  BY <1>2 DEF GRInv, ResourcesOK, ResourceOK
<1>3. \A i \in 1..Len(resources') : resources'[i].refs = Cardinality(Referrers(i)')
  BY <1>1 DEF GRInv, ResourcesOK
<1>4. FreeIDs(resourceIDs, resources, NoResource)'
  BY DEF GRInv, ResourcesOK
<1>5. ResourcesOK'
  BY <1>2, <1>3, <1>4 DEF ResourcesOK
<1> QED
  BY <1>5 DEF GRInv, MapOK, MapInRange

(* A step that makes, changes or ends the request of h only.               *)
LEMMA RequestsKept ==
  ASSUME GRInv, NEW h \in Handles, GameTypes', FreeIDs(requestIDs, requests, NoRequest)',
         \A g \in Handles \ {h} : handle'[g] = handle[g],
         \A g \in Handles \ {h} : Requested(g) =>
           /\ handle[g].id \in 1..Len(requests')
           /\ requests'[handle[g].id] = requests[handle[g].id]
           /\ Requested(h)' => handle[g].id # handle'[h].id,
         \A i \in 1..Len(requests) : requests[i].at \in Addresses =>
           keyAt'[requests[i].at] = keyAt[requests[i].at],
         Requested(h)' => RequestOK(h)'
  PROVE  RequestsOK'
<1>1. ASSUME NEW g \in Handles, Requested(g)'
      PROVE  RequestOK(g)'
  <2>1. CASE g = h
    BY <1>1, <2>1
  <2>2. CASE g # h
    BY <1>1, <2>2, SMTT(30) DEF GRInv, RequestsOK, RequestOK, Requested
  <2> QED
    BY <2>1, <2>2
<1>2. ASSUME NEW f \in Handles, NEW g \in Handles \ {f}, Requested(f)', Requested(g)'
      PROVE  handle'[g].id # handle'[f].id
  <2>1. CASE f = h
    BY <1>2, <2>1 DEF Requested
  <2>2. CASE g = h
    BY <1>2, <2>2 DEF Requested
  <2>3. CASE f # h /\ g # h
    BY <1>2, <2>3 DEF Requested, GRInv, RequestsOK
  <2> QED
    BY <2>1, <2>2, <2>3
<1> QED
  BY <1>1, <1>2 DEF RequestsOK

LEMMA GetKeyedResourceOK ==
  ASSUME GRInv, NEW h \in Handles, NEW k \in AssetKeys, GetKeyedResource(h, k)
  PROVE  GRInv'
<1>1. PICK l : l = Reserved(requests, requestIDs, NoRequest)
  OBVIOUS
<1>2. PICK id : id = Last(l.ids)
  OBVIOUS
<1> DEFINE v == [future |-> "pending", at |-> None]
           r == [to |-> "request", id |-> id, key |-> k]
<1>3. /\ handle[h].to = "nothing"
      /\ requests' = [l.items EXCEPT ![id] = v] /\ requestIDs' = Front(l.ids)
      /\ handle' = [handle EXCEPT ![h] = r]
      /\ UNCHANGED <<resources, resourceIDs, resourceAt, keyAt>>
  BY <1>1, <1>2 DEF GetKeyedResource
<1>4. GameTypes /\ RequestsOK
  BY DEF GRInv
<1>5. v \in RequestRecord /\ v # NoRequest /\ v.future = "pending"
  BY DEF RequestRecord, NoRequest
<1> HIDE DEF v
<1>6. /\ l.items \in Seq(RequestRecord) /\ l.ids \in Seq(Nat) /\ l.ids # <<>>
      /\ FreeIDs(l.ids, l.items, NoRequest)
      /\ Len(l.items) \in {Len(requests), Len(requests) + 1}
      /\ \A i \in 1..Len(requests) : l.items[i] = requests[i]
  BY <1>1, <1>4, Records, ReserveOK DEF GameTypes, RequestsOK
<1>7. /\ id \in 1..Len(l.items) /\ l.items[id] = NoRequest /\ requestIDs' \in Seq(Nat)
      /\ FreeIDs(requestIDs, requests, NoRequest)'
  BY <1>2, <1>3, <1>5, <1>6, Records, Taken
<1>8. /\ requests' \in Seq(RequestRecord) /\ Len(requests') = Len(l.items)
      /\ \A i \in 1..Len(l.items) : requests'[i] = IF i = id THEN v ELSE l.items[i]
  BY <1>3, <1>5, <1>6, <1>7, ExceptSeq
<1>9. r \in HandleRecord /\ r.to = "request" /\ r.id = id
  BY <1>7 DEF HandleRecord
<1> HIDE DEF r
<1>10. \A g \in Handles : handle'[g] = IF g = h THEN r ELSE handle[g]
  BY <1>3, <1>4 DEF GameTypes
<1>11. GameTypes'
  BY <1>3, <1>4, <1>7, <1>8, <1>9 DEF GameTypes
<1>12. ASSUME NEW g \in Handles \ {h}, Requested(g)
       PROVE  /\ handle[g].id \in 1..Len(requests')
              /\ requests'[handle[g].id] = requests[handle[g].id] /\ handle[g].id # id
  <2>1. handle[g].id \in 1..Len(requests) /\ requests[handle[g].id].future # "reset"
    BY <1>4, <1>12 DEF RequestsOK, RequestOK
  <2>2. handle[g].id \in 1..Len(l.items)
    BY <1>6, <2>1, <1>4 DEF GameTypes
  <2> QED
    BY <1>6, <1>7, <1>8, <2>1, <2>2, Records
<1>13. RequestOK(h)'
  BY <1>5, <1>7, <1>8, <1>9, <1>10 DEF RequestOK
<1>14. RequestsOK'
  BY <1>3, <1>7, <1>9, <1>10, <1>11, <1>12, <1>13, RequestsKept
<1>15. \A g \in Handles : /\ Acquired(g)' <=> Acquired(g)
                          /\ Acquired(g) => handle'[g] = handle[g]
  BY <1>3, <1>9, <1>10 DEF Acquired
<1> QED
  BY <1>3, <1>11, <1>14, <1>15, ResourcesKept DEF GRInv

LEMMA LoadOK ==
  ASSUME GRInv, NEW h \in Handles, Load(h)
  PROVE  GRInv'
<1> DEFINE id == handle[h].id
           k == handle[h].key
<1>1. GameTypes /\ RequestsOK /\ id \in 1..Len(requests) /\ requests[id].future = "pending"
  BY DEF GRInv, Load, RequestsOK, RequestOK
<1>2. PICK v \in RequestRecord :
        /\ requests' = [requests EXCEPT ![id] = v] /\ v.future # "reset"
        /\ v.future = "completed" => v.at \in Addresses /\ keyAt'[v.at] = k
        /\ keyAt' \in [Addresses -> AssetKeys \cup {None}]
        /\ \A b \in Addresses : InUse(b) => keyAt'[b] = keyAt[b]
  <2>1. requests[id] \in RequestRecord
    BY <1>1 DEF GameTypes
  <2>2. CASE /\ requests' = [requests EXCEPT ![id].future = "failed"] /\ UNCHANGED keyAt
    <3> DEFINE v == [requests[id] EXCEPT !.future = "failed"]
    <3>1. v \in RequestRecord /\ v.future = "failed"
      BY <2>1 DEF RequestRecord
    <3>2. requests' = [requests EXCEPT ![id] = v]
      BY <2>2
    <3> QED
      BY <1>1, <2>2, <3>1, <3>2 DEF GameTypes
  <2>3. CASE \E a \in Addresses :
               /\ InUse(a) => keyAt[a] = k
               /\ requests' = [requests EXCEPT ![id] = [future |-> "completed", at |-> a]]
               /\ keyAt' = [keyAt EXCEPT ![a] = k]
    <3>1. PICK a \in Addresses :
            /\ InUse(a) => keyAt[a] = k
            /\ requests' = [requests EXCEPT ![id] = [future |-> "completed", at |-> a]]
            /\ keyAt' = [keyAt EXCEPT ![a] = k]
      BY <2>3
    <3> DEFINE v == [future |-> "completed", at |-> a]
    <3>2. v \in RequestRecord /\ v.future = "completed" /\ v.at = a
      BY DEF RequestRecord
    <3>3. k \in AssetKeys \cup {None} /\ keyAt \in [Addresses -> AssetKeys \cup {None}]
      BY <1>1, Records DEF GameTypes
    <3>4. /\ keyAt' \in [Addresses -> AssetKeys \cup {None}] /\ keyAt'[a] = k
          /\ \A b \in Addresses : InUse(b) => keyAt'[b] = keyAt[b]
      BY <3>1, <3>3
    <3> QED
      BY <3>1, <3>2, <3>4
  <2> QED
    BY <2>2, <2>3 DEF Load
<1>3. /\ requests' \in Seq(RequestRecord) /\ Len(requests') = Len(requests)
      /\ \A i \in 1..Len(requests) : requests'[i] = IF i = id THEN v ELSE requests[i]
  BY <1>1, <1>2, ExceptSeq DEF GameTypes
<1>4. UNCHANGED <<handle, requestIDs, resources, resourceIDs, resourceAt>>
  BY DEF Load
<1>5. GameTypes'
  BY <1>1, <1>2, <1>3, <1>4 DEF GameTypes
<1>6. FreeIDs(requestIDs, requests, NoRequest)'
  BY <1>1, <1>2, <1>4, Records, Replaced DEF GameTypes, RequestsOK
<1>7. \A g \in Handles \ {h} : Requested(g) =>
        /\ handle[g].id \in 1..Len(requests')
        /\ requests'[handle[g].id] = requests[handle[g].id]
        /\ handle[g].id # handle[h].id
  BY <1>1, <1>3 DEF RequestsOK, RequestOK, Load
<1>8. \A i \in 1..Len(requests) : requests[i].at \in Addresses =>
        keyAt'[requests[i].at] = keyAt[requests[i].at]
  BY <1>2 DEF InUse
<1>9. RequestOK(h)'
  BY <1>1, <1>2, <1>3, <1>4 DEF RequestOK
<1>10. RequestsOK'
  BY <1>4, <1>5, <1>6, <1>7, <1>8, <1>9, RequestsKept
<1>11. \A i \in 1..Len(resources) : resources[i].at \in Addresses =>
         keyAt'[resources[i].at] = keyAt[resources[i].at]
  BY <1>2 DEF InUse
<1>12. \A g \in Handles : Acquired(g)' <=> Acquired(g)
  BY <1>4 DEF Acquired
<1> QED
  BY <1>4, <1>5, <1>10, <1>11, <1>12, ResourcesKept DEF GRInv

(* The request of h ends.                                                  *)
LEMMA RequestEnds ==
  ASSUME GRInv, NEW h \in Handles, Requested(h), NEW r \in HandleRecord, r.to # "request",
         handle' = [handle EXCEPT ![h] = r], keyAt' = keyAt,
         requests' = [requests EXCEPT ![handle[h].id] = NoRequest],
         requestIDs' = Append(requestIDs, handle[h].id),
         resources' \in Seq(ResourceRecord), resourceIDs' \in Seq(Nat),
         DOMAIN resourceAt' \subseteq Addresses
  PROVE  GameTypes' /\ RequestsOK'
<1> DEFINE id == handle[h].id
<1>1. GameTypes /\ RequestsOK /\ id \in 1..Len(requests) /\ requests[id] # NoRequest
  BY Records DEF GRInv, RequestsOK, RequestOK
<1>2. /\ requests' \in Seq(RequestRecord) /\ Len(requests') = Len(requests)
      /\ \A i \in 1..Len(requests) : requests'[i] = IF i = id THEN NoRequest ELSE requests[i]
  BY <1>1, Records, ExceptSeq DEF GameTypes
<1>3. requestIDs' \in Seq(Nat) /\ FreeIDs(requestIDs, requests, NoRequest)'
  <2>1. /\ requests \in Seq(RequestRecord) /\ requestIDs \in Seq(Nat)
        /\ FreeIDs(requestIDs, requests, NoRequest) /\ NoRequest \in RequestRecord
    BY <1>1, Records DEF GameTypes, RequestsOK
  <2>2. /\ Append(requestIDs, id) \in Seq(Nat)
        /\ FreeIDs(Append(requestIDs, id), [requests EXCEPT ![id] = NoRequest], NoRequest)
    BY <1>1, <2>1, Given
  <2> QED
    BY <2>2
<1>4. \A g \in Handles : handle'[g] = IF g = h THEN r ELSE handle[g]
  BY <1>1 DEF GameTypes
<1>5. GameTypes'
  BY <1>1, <1>2, <1>3 DEF GameTypes
<1>6. ~Requested(h)'
  BY <1>4 DEF Requested
<1>7. \A g \in Handles \ {h} : Requested(g) =>
        /\ handle[g].id \in 1..Len(requests')
        /\ requests'[handle[g].id] = requests[handle[g].id]
  BY <1>1, <1>2 DEF RequestsOK, RequestOK
<1> QED
  BY <1>3, <1>4, <1>5, <1>6, <1>7, RequestsKept

LEMMA DiscardRequestOK ==
  ASSUME GRInv, NEW h \in Handles, DiscardRequest(h)
  PROVE  GRInv'
<1>1. GameTypes' /\ RequestsOK'
  BY Records, RequestEnds DEF DiscardRequest, GRInv, GameTypes
<1>2. \A g \in Handles : handle'[g] = IF g = h THEN NoHandle ELSE handle[g]
  BY DEF DiscardRequest, GRInv, GameTypes
<1>3. \A g \in Handles : /\ Acquired(g)' <=> Acquired(g)
                         /\ Acquired(g) => handle'[g] = handle[g]
  BY <1>2, Records DEF Acquired, Requested, DiscardRequest
<1> QED
  BY <1>1, <1>3, ResourcesKept DEF GRInv, DiscardRequest

LEMMA FailToFinishOK ==
  ASSUME GRInv, NEW h \in Handles, FailToFinish(h)
  PROVE  GRInv'
<1>1. PICK l : l = Reserved(resources, resourceIDs, NoResource)
  OBVIOUS
<1>2. /\ resources' = l.items /\ resourceIDs' = l.ids
      /\ UNCHANGED <<handle, requests, requestIDs, resourceAt, keyAt>>
  BY <1>1 DEF FailToFinish
<1>3. GameTypes /\ RequestsOK /\ ResourcesOK /\ MapOK /\ MapInRange
  BY DEF GRInv
<1>4. /\ resources' \in Seq(ResourceRecord) /\ resourceIDs' \in Seq(Nat)
      /\ FreeIDs(resourceIDs, resources, NoResource)'
      /\ Len(resources') \in {Len(resources), Len(resources) + 1}
      /\ \A i \in 1..Len(resources) : resources'[i] = resources[i]
      /\ \A i \in 1..Len(resources') : i \notin 1..Len(resources) => resources'[i] = NoResource
  BY <1>1, <1>2, <1>3, Records, ReserveOK DEF GameTypes, ResourcesOK
<1>5. Len(resources) \in Nat /\ 1..Len(resources) \subseteq 1..Len(resources')
  BY <1>3, <1>4 DEF GameTypes
<1>6. GameTypes'
  BY <1>2, <1>3, <1>4 DEF GameTypes
<1>7. RequestsOK'
  BY <1>2, <1>3 DEF RequestsOK, RequestOK, Requested
<1>8. ResourcesOK'
  <2>1. \A i : Referrers(i)' = Referrers(i)
    BY <1>2 DEF Referrers, Acquired
  <2>2. \A g \in Handles : Acquired(g)' => ResourceOK(g)'
    BY <1>2, <1>3, <1>4, <1>5 DEF ResourcesOK, ResourceOK, Acquired
  <2>3. ASSUME NEW i \in 1..Len(resources')
        PROVE  resources'[i].refs = Cardinality(Referrers(i)')
    <3>1. CASE i \in 1..Len(resources)
      BY <1>3, <1>4, <2>1, <3>1 DEF ResourcesOK
    <3>2. CASE i \notin 1..Len(resources)
      <4>1. Referrers(i) = {}
        BY <1>3, <3>2 DEF ResourcesOK, ResourceOK, Referrers
      <4> QED
        BY <1>4, <2>1, <3>2, <4>1, Records, FS_EmptySet
    <3> QED
      BY <3>1, <3>2
  <2> QED
    BY <1>4, <2>2, <2>3 DEF ResourcesOK
<1>9. MapOK'
  <2> SUFFICES ASSUME NEW a \in Addresses, NEW i \in 1..Len(resources')
               PROVE  resources'[i].at = a <=> a \in DOMAIN resourceAt /\ resourceAt[a] = i
    BY <1>2 DEF MapOK
  <2>1. CASE i \in 1..Len(resources)
    BY <1>3, <1>4, <2>1 DEF MapOK
  <2>2. CASE i \notin 1..Len(resources)
    BY <1>3, <1>4, <2>2, Records, GameResourcesAssumption DEF MapInRange
  <2> QED
    BY <2>1, <2>2
<1>10. MapInRange'
  BY <1>2, <1>3, <1>5 DEF MapInRange
<1> QED
  BY <1>6, <1>7, <1>8, <1>9, <1>10 DEF GRInv

LEMMA DecRefResourceOK ==
  ASSUME GRInv, NEW h \in Handles, DecRefResource(h)
  PROVE  GRInv'
<1>1. GameTypes /\ RequestsOK /\ ResourcesOK /\ MapOK /\ MapInRange
  BY DEF GRInv
<1>2. PICK id : id = handle[h].id
  OBVIOUS
<1>3. /\ Acquired(h) /\ id \in 1..Len(resources) /\ resources[id].at \in Addresses
      /\ resources[id] \in ResourceRecord /\ resources[id].refs = Cardinality(Referrers(id))
      /\ h \in Referrers(id)
  <2>1. Acquired(h) /\ id \in 1..Len(resources) /\ resources[id].at \in Addresses
    BY <1>1, <1>2 DEF DecRefResource, ResourcesOK, ResourceOK
  <2>2. resources[id] \in ResourceRecord /\ resources[id].refs = Cardinality(Referrers(id))
    BY <1>1, <2>1 DEF ResourcesOK, GameTypes
  <2> QED
    BY <1>2, <2>1, <2>2 DEF Referrers
<1>4. PICK a \in Addresses : a = resources[id].at
  BY <1>3
<1>5. /\ handle' = [handle EXCEPT ![h] = NoHandle]
      /\ UNCHANGED <<requests, requestIDs, keyAt>>
  BY DEF DecRefResource
<1>6. \A g \in Handles : handle'[g] = IF g = h THEN NoHandle ELSE handle[g]
  BY <1>1, <1>5 DEF GameTypes
<1>7. \A i : Referrers(i)' = IF i = id THEN Referrers(id) \ {h} ELSE Referrers(i)
  BY <1>2, <1>3, <1>6, Records DEF Referrers, Acquired
<1>8. /\ Cardinality(Referrers(id)') = resources[id].refs - 1
      /\ resources[id].refs \in Nat /\ resources[id].refs # 0
  BY <1>3, <1>7, ReferrersFinite, FS_RemoveElement, FS_EmptySet
<1>9. requests' \in Seq(RequestRecord) /\ requestIDs' \in Seq(Nat) /\ RequestsOK'
  <2>1. \A g \in Handles : /\ Requested(g)' <=> Requested(g)
                           /\ Requested(g) => handle'[g] = handle[g]
    BY <1>3, <1>6, Records DEF Requested, Acquired
  <2> QED
    BY <1>1, <1>5, <2>1 DEF GameTypes, RequestsOK, RequestOK, Requested
<1>10. handle' \in [Handles -> HandleRecord]
  BY <1>1, <1>5, Records DEF GameTypes
<1>11. CASE resources[id].refs = 1
  <2>1. /\ resources' = [resources EXCEPT ![id] = NoResource]
        /\ resourceIDs' = Append(resourceIDs, id)
        /\ resourceAt' = [x \in DOMAIN resourceAt \ {a} |-> resourceAt[x]]
    BY <1>2, <1>4, <1>11 DEF DecRefResource, Forgotten
  <2>2. resources[id] # NoResource
    BY <1>3, Records, GameResourcesAssumption
  <2>3. /\ resources' \in Seq(ResourceRecord) /\ Len(resources') = Len(resources)
        /\ \A i \in 1..Len(resources) :
             resources'[i] = IF i = id THEN NoResource ELSE resources[i]
    BY <1>1, <1>3, <2>1, Records, ExceptSeq DEF GameTypes
  <2>4. resourceIDs' \in Seq(Nat) /\ FreeIDs(resourceIDs, resources, NoResource)'
    <3>1. /\ resources \in Seq(ResourceRecord) /\ resourceIDs \in Seq(Nat)
          /\ FreeIDs(resourceIDs, resources, NoResource) /\ NoResource \in ResourceRecord
      BY <1>1, Records DEF GameTypes, ResourcesOK
    <3>2. /\ Append(resourceIDs, id) \in Seq(Nat)
          /\ FreeIDs(Append(resourceIDs, id), [resources EXCEPT ![id] = NoResource], NoResource)
      BY <1>3, <2>2, <3>1, Given
    <3> QED
      BY <2>1, <3>2
  <2>5. /\ DOMAIN resourceAt' = DOMAIN resourceAt \ {a}
        /\ \A b \in DOMAIN resourceAt' : resourceAt'[b] = resourceAt[b]
    BY <2>1
  <2>6. GameTypes'
    BY <1>1, <1>5, <1>9, <1>10, <2>3, <2>4, <2>5 DEF GameTypes
  <2>7. Referrers(id)' = {}
    BY <1>7, <1>8, <1>11, ReferrersFinite, FS_RemoveElement, FS_EmptySet, <1>3, FS_Subset
  <2>8. ResourcesOK'
    <3>1. ASSUME NEW g \in Handles, Acquired(g)'
          PROVE  ResourceOK(g)'
      <4>1. g # h /\ Acquired(g) /\ handle'[g] = handle[g]
        BY <1>6, <3>1, Records DEF Acquired
      <4>2. handle[g].id # id
        BY <2>7, <3>1, <4>1 DEF Referrers
      <4> QED
        BY <1>1, <1>5, <2>3, <4>1, <4>2 DEF ResourcesOK, ResourceOK
    <3>2. \A i \in 1..Len(resources') : resources'[i].refs = Cardinality(Referrers(i)')
      BY <1>1, <1>7, <2>3, <2>7, Records, FS_EmptySet DEF ResourcesOK
    <3> QED
      BY <2>4, <3>1, <3>2 DEF ResourcesOK
  <2>9. MapOK'
    <3> SUFFICES ASSUME NEW b \in Addresses, NEW i \in 1..Len(resources')
                 PROVE  resources'[i].at = b <=> b \in DOMAIN resourceAt' /\ resourceAt'[b] = i
      BY DEF MapOK
    <3>1. resources[i].at = b <=> b \in DOMAIN resourceAt /\ resourceAt[b] = i
      BY <1>1, <2>3 DEF MapOK
    <3>2. resources[id].at = b <=> b \in DOMAIN resourceAt /\ resourceAt[b] = id
      BY <1>1, <1>3 DEF MapOK
    <3> QED
      BY <1>4, <2>3, <2>5, <3>1, <3>2, Records, GameResourcesAssumption
  <2>10. MapInRange'
    BY <1>1, <2>3, <2>5 DEF MapInRange
  <2> QED
    BY <1>9, <2>6, <2>8, <2>9, <2>10 DEF GRInv
<1>12. CASE resources[id].refs # 1
  <2> DEFINE v == [resources[id] EXCEPT !.refs = @ - 1]
  <2>1. /\ resources' = [resources EXCEPT ![id] = v]
        /\ UNCHANGED <<resourceAt, resourceIDs>>
    BY <1>2, <1>12 DEF DecRefResource
  <2>2. v \in ResourceRecord /\ v.at = a /\ v.refs = resources[id].refs - 1
    <3>1. resources[id].refs - 1 \in Nat
      BY <1>8
    <3> QED
      BY <1>3, <1>4, <3>1 DEF ResourceRecord
  <2> HIDE DEF v
  <2>3. resources[id] # NoResource /\ v # NoResource
    BY <1>3, <1>4, <2>2, Records, GameResourcesAssumption
  <2>4. /\ resources' \in Seq(ResourceRecord) /\ Len(resources') = Len(resources)
        /\ \A i \in 1..Len(resources) : resources'[i] = IF i = id THEN v ELSE resources[i]
    BY <1>1, <1>3, <2>1, <2>2, ExceptSeq DEF GameTypes
  <2>5. FreeIDs(resourceIDs, resources, NoResource)'
    BY <1>1, <1>3, <2>1, <2>2, <2>3, Replaced DEF GameTypes, ResourcesOK
  <2>6. GameTypes'
    BY <1>1, <1>5, <1>9, <1>10, <2>1, <2>4 DEF GameTypes
  <2>7. \A i \in 1..Len(resources) : resources'[i].at = resources[i].at
    BY <1>4, <2>2, <2>4
  <2>8. ResourcesOK'
    <3>1. ASSUME NEW g \in Handles, Acquired(g)'
          PROVE  ResourceOK(g)'
      <4>1. g # h /\ Acquired(g) /\ handle'[g] = handle[g]
        BY <1>6, <3>1, Records DEF Acquired
      <4> QED
        BY <1>1, <1>5, <2>4, <2>7, <4>1 DEF ResourcesOK, ResourceOK
    <3>2. \A i \in 1..Len(resources') : resources'[i].refs = Cardinality(Referrers(i)')
      BY <1>1, <1>7, <1>8, <2>2, <2>4 DEF ResourcesOK
    <3> QED
      BY <2>5, <3>1, <3>2 DEF ResourcesOK
  <2>9. MapOK' /\ MapInRange'
    BY <1>1, <2>1, <2>4, <2>7 DEF MapOK, MapInRange
  <2> QED
    BY <1>9, <2>6, <2>8, <2>9 DEF GRInv
<1> QED
  BY <1>11, <1>12

(* A resource that is known already gets one more reference.               *)
LEMMA FinishKnown ==
  ASSUME GRInv, NEW h \in Handles, TryFinishLoading(h),
         requests[handle[h].id].at \in DOMAIN resourceAt
  PROVE  GRInv'
<1>1. GameTypes /\ RequestsOK /\ ResourcesOK /\ MapOK /\ MapInRange
  BY DEF GRInv
<1>2. PICK a : a = requests[handle[h].id].at
  OBVIOUS
<1>3. /\ Requested(h) /\ a \in Addresses /\ keyAt[a] = handle[h].key /\ a \in DOMAIN resourceAt
  BY <1>1, <1>2 DEF TryFinishLoading, RequestsOK, RequestOK
<1>4. PICK id \in 1..Len(resources) : id = resourceAt[a] /\ resources[id].at = a
  BY <1>1, <1>3 DEF MapInRange, MapOK
<1> DEFINE v == [resources[id] EXCEPT !.refs = @ + 1]
           r == [handle[h] EXCEPT !.to = "resource", !.id = id]
<1>5. /\ resources' = [resources EXCEPT ![id] = v] /\ UNCHANGED <<resourceIDs, resourceAt, keyAt>>
      /\ requests' = [requests EXCEPT ![handle[h].id] = NoRequest]
      /\ requestIDs' = Append(requestIDs, handle[h].id)
      /\ handle' = [handle EXCEPT ![h] = r]
  BY <1>2, <1>3, <1>4 DEF TryFinishLoading
<1>6. v \in ResourceRecord /\ v.at = a /\ v.refs = resources[id].refs + 1
  <2>1. resources[id] \in ResourceRecord
    BY <1>1 DEF GameTypes
  <2>2. resources[id].refs + 1 \in Nat
    BY <2>1, Records
  <2> QED
    BY <1>4, <2>1, <2>2 DEF ResourceRecord
<1>7. r \in HandleRecord /\ r.to = "resource" /\ r.id = id /\ r.key = handle[h].key
  <2>1. id \in Nat /\ handle[h] \in HandleRecord
    BY <1>1 DEF GameTypes
  <2> QED
    BY <2>1 DEF HandleRecord
<1> HIDE DEF v, r
<1>8. /\ resources' \in Seq(ResourceRecord) /\ Len(resources') = Len(resources)
      /\ \A i \in 1..Len(resources) : resources'[i] = IF i = id THEN v ELSE resources[i]
  BY <1>1, <1>5, <1>6, ExceptSeq DEF GameTypes
<1>9. GameTypes' /\ RequestsOK'
  BY <1>1, <1>3, <1>5, <1>7, <1>8, RequestEnds DEF GameTypes
<1>10. \A g \in Handles : handle'[g] = IF g = h THEN r ELSE handle[g]
  BY <1>1, <1>5 DEF GameTypes
<1>11. \A i : Referrers(i)' = IF i = id THEN Referrers(id) \cup {h} ELSE Referrers(i)
  BY <1>3, <1>7, <1>10 DEF Referrers, Acquired, Requested
<1>12. Cardinality(Referrers(id)') = Cardinality(Referrers(id)) + 1
  <2>1. h \notin Referrers(id)
    BY <1>3 DEF Referrers, Acquired, Requested
  <2> QED
    BY <1>11, <2>1, ReferrersFinite, FS_AddElement
<1>13. \A i \in 1..Len(resources) : resources'[i].at = resources[i].at
  BY <1>4, <1>6, <1>8
<1>14. FreeIDs(resourceIDs, resources, NoResource)'
  <2>1. resources[id] # NoResource /\ v # NoResource
    BY <1>3, <1>4, <1>6, Records, GameResourcesAssumption
  <2>2. resources \in Seq(ResourceRecord) /\ FreeIDs(resourceIDs, resources, NoResource)
    BY <1>1 DEF GameTypes, ResourcesOK
  <2>3. FreeIDs(resourceIDs, [resources EXCEPT ![id] = v], NoResource)
    BY <1>6, <2>1, <2>2, Replaced
  <2> QED
    BY <1>5, <2>3
<1>15. ResourcesOK'
  <2>1. ASSUME NEW g \in Handles, Acquired(g)'
        PROVE  ResourceOK(g)'
    <3>1. CASE g = h
      BY <1>3, <1>4, <1>5, <1>7, <1>8, <1>10, <1>13, <3>1 DEF ResourceOK
    <3>2. CASE g # h
      <4>1. Acquired(g) /\ handle'[g] = handle[g]
        BY <1>10, <2>1, <3>2 DEF Acquired
      <4> QED
        BY <1>1, <1>5, <1>8, <1>13, <4>1 DEF ResourcesOK, ResourceOK
    <3> QED
      BY <3>1, <3>2
  <2>2. \A i \in 1..Len(resources') : resources'[i].refs = Cardinality(Referrers(i)')
    BY <1>1, <1>6, <1>8, <1>11, <1>12 DEF ResourcesOK
  <2> QED
    BY <1>14, <2>1, <2>2 DEF ResourcesOK
<1>16. MapOK' /\ MapInRange'
  BY <1>1, <1>5, <1>8, <1>13 DEF MapOK, MapInRange
<1> QED
  BY <1>9, <1>15, <1>16 DEF GRInv

(* A new resource gets a free number, and the map knows it.                *)
LEMMA FinishNew ==
  ASSUME GRInv, NEW h \in Handles, TryFinishLoading(h),
         requests[handle[h].id].at \notin DOMAIN resourceAt
  PROVE  GRInv'
<1>1. GameTypes /\ RequestsOK /\ ResourcesOK /\ MapOK /\ MapInRange
  BY DEF GRInv
<1>2. PICK a : a = requests[handle[h].id].at
  OBVIOUS
<1>3. /\ Requested(h) /\ a \in Addresses /\ keyAt[a] = handle[h].key /\ a \notin DOMAIN resourceAt
  BY <1>1, <1>2 DEF TryFinishLoading, RequestsOK, RequestOK
<1>4. PICK l : l = Reserved(resources, resourceIDs, NoResource)
  OBVIOUS
<1>5. PICK id : id = Last(l.ids)
  OBVIOUS
<1> DEFINE v == [at |-> a, refs |-> 1]
           r == [handle[h] EXCEPT !.to = "resource", !.id = id]
<1>6. /\ resources' = [l.items EXCEPT ![id] = v] /\ resourceIDs' = Front(l.ids)
      /\ resourceAt' = [x \in DOMAIN resourceAt \cup {a} |-> IF x = a THEN id ELSE resourceAt[x]]
      /\ UNCHANGED keyAt
      /\ requests' = [requests EXCEPT ![handle[h].id] = NoRequest]
      /\ requestIDs' = Append(requestIDs, handle[h].id)
      /\ handle' = [handle EXCEPT ![h] = r]
  BY <1>2, <1>3, <1>4, <1>5 DEF TryFinishLoading
<1>7. v \in ResourceRecord /\ v.at = a /\ v.refs = 1
  BY <1>3 DEF ResourceRecord
<1>8. v # NoResource
  BY <1>3, <1>7, Records, GameResourcesAssumption
<1> HIDE DEF v
<1>9. /\ l.items \in Seq(ResourceRecord) /\ l.ids \in Seq(Nat) /\ l.ids # <<>>
      /\ FreeIDs(l.ids, l.items, NoResource)
      /\ Len(l.items) \in {Len(resources), Len(resources) + 1}
      /\ \A i \in 1..Len(resources) : l.items[i] = resources[i]
      /\ \A i \in 1..Len(l.items) : i \notin 1..Len(resources) => l.items[i] = NoResource
  BY <1>1, <1>4, Records, ReserveOK, SMTT(30) DEF GameTypes, ResourcesOK
<1>10. /\ id \in 1..Len(l.items) /\ l.items[id] = NoResource /\ resourceIDs' \in Seq(Nat)
       /\ FreeIDs(resourceIDs, resources, NoResource)'
  <2>1. /\ id \in 1..Len(l.items) /\ l.items[id] = NoResource /\ Front(l.ids) \in Seq(Nat)
        /\ FreeIDs(Front(l.ids), [l.items EXCEPT ![id] = v], NoResource)
    BY <1>5, <1>7, <1>8, <1>9, Records, Taken
  <2> QED
    BY <1>6, <2>1
<1>11. /\ resources' \in Seq(ResourceRecord) /\ Len(resources') = Len(l.items)
       /\ \A i \in 1..Len(l.items) : resources'[i] = IF i = id THEN v ELSE l.items[i]
  BY <1>6, <1>7, <1>9, <1>10, ExceptSeq
<1>12. Len(resources) \in Nat /\ 1..Len(resources) \subseteq 1..Len(resources') /\ id \in Nat
  BY <1>1, <1>9, <1>10, <1>11, SMTT(30) DEF GameTypes
<1>13. r \in HandleRecord /\ r.to = "resource" /\ r.id = id /\ r.key = handle[h].key
  BY <1>1, <1>12 DEF GameTypes, HandleRecord
<1> HIDE DEF r
<1>14. /\ DOMAIN resourceAt' = DOMAIN resourceAt \cup {a} /\ resourceAt'[a] = id
       /\ \A b \in DOMAIN resourceAt : resourceAt'[b] = resourceAt[b]
  BY <1>3, <1>6
<1>15. GameTypes' /\ RequestsOK'
  BY <1>1, <1>3, <1>6, <1>10, <1>11, <1>13, <1>14, RequestEnds DEF GameTypes
<1>16. \A g \in Handles : handle'[g] = IF g = h THEN r ELSE handle[g]
  BY <1>1, <1>6 DEF GameTypes
<1>17. \A g \in Handles : Acquired(g) =>
         /\ handle[g].id \in 1..Len(resources) /\ handle[g].id # id
         /\ resources'[handle[g].id] = resources[handle[g].id]
  <2> SUFFICES ASSUME NEW g \in Handles, Acquired(g)
               PROVE  /\ handle[g].id \in 1..Len(resources) /\ handle[g].id # id
                      /\ resources'[handle[g].id] = resources[handle[g].id]
    OBVIOUS
  <2>1. handle[g].id \in 1..Len(resources) /\ resources[handle[g].id].at \in Addresses
    BY <1>1 DEF ResourcesOK, ResourceOK
  <2>2. handle[g].id # id
    BY <1>9, <1>10, <2>1, Records, GameResourcesAssumption
  <2> QED
    BY <1>9, <1>11, <1>12, <2>1, <2>2
<1>18. Referrers(id) = {}
  BY <1>17 DEF Referrers
<1>19. \A i : Referrers(i)' = IF i = id THEN {h} ELSE Referrers(i)
  BY <1>3, <1>13, <1>16, <1>18 DEF Referrers, Acquired, Requested
<1>20. ResourcesOK'
  <2>1. ASSUME NEW g \in Handles, Acquired(g)'
        PROVE  ResourceOK(g)'
    <3>1. CASE g = h
      BY <1>3, <1>6, <1>7, <1>10, <1>11, <1>13, <1>16, <3>1 DEF ResourceOK
    <3>2. CASE g # h
      <4>1. Acquired(g) /\ handle'[g] = handle[g]
        BY <1>16, <2>1, <3>2 DEF Acquired
      <4> QED
        BY <1>1, <1>6, <1>12, <1>17, <4>1 DEF ResourcesOK, ResourceOK
    <3> QED
      BY <3>1, <3>2
  <2>2. ASSUME NEW i \in 1..Len(resources')
        PROVE  resources'[i].refs = Cardinality(Referrers(i)')
    <3>1. CASE i = id
      BY <1>7, <1>11, <1>19, <3>1, FS_Singleton
    <3>2. CASE i # id /\ i \in 1..Len(resources)
      BY <1>1, <1>9, <1>11, <1>19, <3>2 DEF ResourcesOK
    <3>3. CASE i # id /\ i \notin 1..Len(resources)
      <4>1. Referrers(i) = {}
        BY <1>17, <3>3 DEF Referrers
      <4> QED
        BY <1>9, <1>11, <1>19, <3>3, <4>1, Records, FS_EmptySet
    <3> QED
      BY <3>1, <3>2, <3>3
  <2> QED
    BY <1>10, <2>1, <2>2 DEF ResourcesOK
<1>21. MapInRange'
  BY <1>1, <1>10, <1>11, <1>12, <1>14 DEF MapInRange
<1>22. MapOK'
  <2> SUFFICES ASSUME NEW b \in Addresses, NEW i \in 1..Len(resources')
               PROVE  resources'[i].at = b <=> b \in DOMAIN resourceAt' /\ resourceAt'[b] = i
    BY DEF MapOK
  <2>1. \A c \in DOMAIN resourceAt : resourceAt[c] \in 1..Len(resources) /\ resourceAt[c] # id
    <3> SUFFICES ASSUME NEW c \in DOMAIN resourceAt, resourceAt[c] = id
                 PROVE  FALSE
      BY <1>1 DEF MapInRange
    <3>1. id \in 1..Len(resources) /\ c \in Addresses
      BY <1>1 DEF MapInRange, GameTypes
    <3>2. resources[id].at = c
      BY <1>1, <3>1 DEF MapOK
    <3> QED
      BY <1>9, <1>10, <3>1, <3>2, Records, GameResourcesAssumption
  <2>2. CASE i = id
    BY <1>7, <1>11, <1>14, <2>1, <2>2
  <2>3. CASE i # id /\ i \in 1..Len(resources)
    <3>1. resources[i].at = b <=> b \in DOMAIN resourceAt /\ resourceAt[b] = i
      BY <1>1, <2>3 DEF MapOK
    <3>2. resources'[i] = resources[i]
      BY <1>9, <1>11, <2>3
    <3> QED
      BY <1>3, <1>14, <2>3, <3>1, <3>2
  <2>4. CASE i # id /\ i \notin 1..Len(resources)
    <3>1. resources'[i].at = None
      BY <1>9, <1>11, <2>4, Records
    <3> QED
      BY <1>14, <2>1, <2>4, <3>1, GameResourcesAssumption
  <2> QED
    BY <2>2, <2>3, <2>4
<1> QED
  BY <1>15, <1>20, <1>21, <1>22 DEF GRInv

-----------------------------------------------------------------------------

LEMMA InitOK == GameResourcesInit => GRInv
<1> SUFFICES ASSUME GameResourcesInit PROVE GRInv
  OBVIOUS
<1>1. /\ <<>> \in Seq(RequestRecord) /\ <<>> \in Seq(ResourceRecord) /\ <<>> \in Seq(Nat)
      /\ DOMAIN <<>> = {} /\ Len(<<>>) = 0 /\ 1..0 = {}
  OBVIOUS
<1>2. \A none : FreeIDs(<<>>, <<>>, none)
  BY <1>1 DEF FreeIDs, IsInjective, ToSet
<1>3. \A h \in Handles : ~Requested(h) /\ ~Acquired(h)
  BY Records DEF GameResourcesInit, Requested, Acquired
<1>4. GameTypes
  BY <1>1, Records DEF GameResourcesInit, GameTypes
<1>5. RequestsOK
  BY <1>2, <1>3 DEF GameResourcesInit, RequestsOK
<1>6. ResourcesOK
  BY <1>1, <1>2, <1>3 DEF GameResourcesInit, ResourcesOK
<1>7. MapOK /\ MapInRange
  BY <1>1 DEF GameResourcesInit, MapOK, MapInRange
<1> QED
  BY <1>4, <1>5, <1>6, <1>7 DEF GRInv

LEMMA NextOK ==
  ASSUME GRInv, [GameResourcesNext]_grVars
  PROVE  GRInv'
<1>1. ASSUME NEW h \in Handles, TryFinishLoading(h)
      PROVE  GRInv'
  BY <1>1, FinishKnown, FinishNew
<1>2. CASE UNCHANGED grVars
  BY <1>2 DEF grVars, GRInv, GameTypes, RequestsOK, RequestOK, Requested, ResourcesOK, ResourceOK,
              Referrers, Acquired, MapOK, MapInRange
<1> QED
  BY <1>1, <1>2, GetKeyedResourceOK, LoadOK, FailToFinishOK, DiscardRequestOK, DecRefResourceOK
     DEF GameResourcesNext

(* The lists of numbers, the handles and the map agree in every behaviour. *)
THEOREM GameResourcesInv == GameResourcesSpec => []GRInv
<1>1. GRInv /\ [GameResourcesNext]_grVars => GRInv'
  BY NextOK
<1> QED
  BY <1>1, InitOK, PTL DEF GameResourcesSpec

(* No two requests share a number, a handle's resource is the one it asked *)
(* for, and a resource has as many references as handles, for any number   *)
(* of each.                                                                *)
THEOREM GameResourcesHandlesAreSound == GameResourcesSpec => []HandlesAreSound
<1>1. ASSUME GRInv
      PROVE  HandlesAreSound
  <2>1. \A h \in Handles : Requested(h) =>
          /\ requests[handle[h].id].future # "reset"
          /\ \A g \in Handles \ {h} : Requested(g) => handle[g].id # handle[h].id
    BY <1>1 DEF GRInv, RequestsOK, RequestOK
  <2>2. \A h \in Handles : Acquired(h) =>
          /\ resources[handle[h].id].at # None
          /\ keyAt[resources[handle[h].id].at] = handle[h].key
    BY <1>1, GameResourcesAssumption DEF GRInv, ResourcesOK, ResourceOK
  <2>3. \A i \in 1..Len(resources) :
          resources[i].refs = Cardinality({h \in Handles : Acquired(h) /\ handle[h].id = i})
    BY <1>1 DEF GRInv, ResourcesOK, Referrers
  <2> QED
    BY <1>1, <2>1, <2>2, <2>3 DEF HandlesAreSound, GRInv, MapOK, RequestsOK, ResourcesOK
<1> QED
  BY <1>1, GameResourcesInv, PTL
=============================================================================
