---------------------------- MODULE FrameTimeline ----------------------------
(***************************************************************************)
(* AnoxGraphicsSubsystem.cpp and AnoxGraphicTimelinedResource.cpp: what    *)
(* happens to uploads and to condemned resources from one frame to the     *)
(* next.  The main thread retires the oldest frame, plans uploads into a   *)
(* ring of upload memory, posts the jobs of the frame and ends it.  The    *)
(* pool's threads run the jobs, and the GPU executes what they submit.     *)
(*                                                                         *)
(* Abstractions.  A display mode other than kSplash is set, as in a game   *)
(* that runs.  Recording a batch and submitting it are one step, and so is *)
(* what a memory copy job or a batch does.  The batches that only change   *)
(* layouts, those of the window and of the frame drawer, command           *)
(* allocators and their reset are left out.  Upload memory is counted in   *)
(* units of m_asyncUploadHeapAlignment.  A texture or buffer is known by   *)
(* the task that uploads it, and a buffer has one copy operation.          *)
(* m_currentGlobalSyncPoint is known by what is subtracted from it, age,   *)
(* in which NumSyncPoints stands for more.                                 *)
(***************************************************************************)
EXTENDS Integers, SequencesExt

CONSTANTS
  NumSyncPoints,  \* m_numSyncPoints
  HeapSize,       \* m_asyncUploadHeapSize
  Textures,       \* the tasks that upload a texture
  Buffers,        \* the tasks that upload a buffer
  Parts,          \* per task: its mip levels, or its copy operation
  NoTask, NoData

(* PumpTask compares cols times the row pitch with the room there is, and  *)
(* takes rows times the row pitch.  The row pitch is one unit.             *)
Part == [cols : Nat \ {0}, rows : Nat \ {0}]

Tasks == Textures \cup Buffers

ASSUME TimelineAssumption ==
  /\ NumSyncPoints \in Nat \ {0} /\ HeapSize \in Nat \ {0}
  /\ Textures \cap Buffers = {} /\ NoTask \notin Tasks
  /\ Parts \in [Tasks -> Seq(Part)]
  /\ \A t \in Tasks : Parts[t] # <<>> /\ (t \in Buffers => Len(Parts[t]) = 1)

VARIABLES
  current,    \* m_currentSyncPoint
  place,      \* what the main thread does next
  sync,       \* m_syncPoints
  low, high, full,  \* m_asyncUploadHeapLowMark, -HighMark, -IsFull
  heap,       \* what is in the upload memory
  waiting,    \* m_asyncUploadWaitingTasks
  active,     \* m_asyncUploadActiveTask
  left,       \* per task: the parts it has not planned yet
  posted,     \* the tasks that have been posted
  held,       \* the tasks whose poster still holds the texture or buffer
  freed,      \* the tasks whose OnCopyCompleted has run
  signalled,  \* the tasks whose OnUploadCompleted has run
  age,        \* per resource: how many frames ago it was last touched
  condemned,  \* m_unsortedCondemnedResources
  disposing, disposed,  \* the resources in an asynchronous dispose job, and those destroyed
  strayed     \* history: the marks have failed to bound what frames in flight use

tlVars == <<current, place, sync, low, high, full, heap, waiting, active, left, posted, held,
            freed, signalled, age, condemned, disposing, disposed, strayed>>

heapVars == <<low, high, full>>
taskVars == <<waiting, active, left, posted, held>>
endVars == <<condemned, disposing, disposed>>

SyncPoints == 0..(NumSyncPoints - 1)

(* How many frames ago the frame that has sync point i began.              *)
Age(i) == IF i = current /\ place = "retire" THEN NumSyncPoints
          ELSE (current - i + NumSyncPoints) % NumSyncPoints

Earlier(i) == {j \in SyncPoints : Age(j) > Age(i)}

-----------------------------------------------------------------------------
(* The upload memory.                                                      *)

(* The contiguous room at the high mark, and the one at the start of the   *)
(* memory.                                                                 *)
ContiguousLow ==
  IF high < low THEN low - high
  ELSE IF high > low THEN HeapSize - high
  ELSE IF full THEN 0 ELSE HeapSize

ContiguousHigh == IF high > low THEN low ELSE 0

\* Mutant of Consumed: the mark is left at the end of the memory.
ConsumedPastEnd(h, space) == h + space

(* The high mark after space units are taken at h.                         *)
Consumed(h, space) == IF low <= h /\ h + space = HeapSize THEN 0 ELSE h + space

Cells(a) == a.at..(a.at + a.size - 1)

(* What a frame in flight has planned lies in what the marks l and h bound.*)
Bounded(l, h, f) ==
  LET committed == IF l < h THEN l..(h - 1)
                   ELSE IF h < l \/ f THEN (l..(HeapSize - 1)) \cup (0..(h - 1)) ELSE {}
  IN  \A i \in SyncPoints \ {current} : \A k \in 1..Len(sync[i].actions) :
        Cells(sync[i].actions[k]) \subseteq committed

-----------------------------------------------------------------------------
(* Posting, and the end of a texture or buffer.                            *)

(* A resource is referred to by its poster, by its task and by the planned *)
(* copies.                                                                 *)
Referenced(h, w, a, s) ==
  h \cup ToSet(w) \cup {a}
    \cup UNION {s[i].retired \cup {s[i].actions[k].task : k \in 1..Len(s[i].actions)} :
                  i \in SyncPoints}

Gone == condemned \cup disposing \cup disposed \cup UNION {sync[i].condemned : i \in SyncPoints}

Unreferenced(h, w, a, s) == (posted \ Gone) \ Referenced(h, w, a, s)

PostAsyncUploadTask(t) ==
  /\ t \notin posted
  /\ posted' = posted \cup {t}
  /\ held' = held \cup {t}
  /\ waiting' = Append(waiting, t)
  /\ UNCHANGED <<current, place, sync, heapVars, heap, active, left, freed, signalled, age,
                 endVars, strayed>>

(* Its poster lets go of a texture or buffer.  The last reference condemns.*)
RCTrackerZero(t) ==
  /\ t \in held
  /\ held' = held \ {t}
  /\ condemned' = condemned \cup Unreferenced(held', waiting, active, sync)
  /\ UNCHANGED <<current, place, sync, heapVars, heap, waiting, active, left, posted, freed,
                 signalled, age, disposing, disposed, strayed>>

\* AsyncDisposeResourceJobRunner::Run.
AsyncDispose ==
  /\ disposing # {}
  /\ disposed' = disposed \cup disposing
  /\ disposing' = {}
  /\ UNCHANGED <<current, place, sync, heapVars, heap, taskVars, freed, signalled, age,
                 condemned, strayed>>

-----------------------------------------------------------------------------
(* The main thread.                                                        *)

\* Mutant of FrameIsOver: the frame's last batch has been submitted.
FrameIsSubmitted(p) == p.close # "queued" /\ p.cleanup # "queued"

FrameIsOver(p) == p.close \notin {"queued", "submitted"} /\ p.cleanup # "queued"

RetireOldestFrame ==
  LET p       == sync[current]
      empties == p.final = high
      kept    == [sync EXCEPT ![current].retired = {}]
      popped  == condemned \cup Unreferenced(held, waiting, active, kept)
      later   == {t \in popped : age[t] < NumSyncPoints}
      Bin(t)  == (current + NumSyncPoints - age[t]) % NumSyncPoints
  IN  /\ place = "retire" /\ FrameIsOver(p)
      /\ low' = IF empties THEN 0 ELSE p.final
      /\ high' = IF empties THEN 0 ELSE high
      /\ full' = FALSE
      /\ strayed' = (strayed \/ ~Bounded(low', high', full'))
      /\ signalled' = signalled \cup p.retired
      /\ sync' = [i \in SyncPoints |->
                    [kept[i] EXCEPT !.condemned = (IF i = current THEN {} ELSE @)
                                                    \cup {t \in later : Bin(t) = i},
                                    !.cleanup = IF i = current THEN "none" ELSE @]]
      /\ disposing' = disposing \cup p.condemned \cup (popped \ later)
      /\ condemned' = {}
      /\ place' = "clear"
      /\ UNCHANGED <<current, heap, taskVars, freed, age, disposed>>

\* The start of PumpAsyncUploads.
ClearActions ==
  /\ place = "clear"
  /\ sync' = [sync EXCEPT ![current].actions = <<>>]
  /\ condemned' = condemned \cup Unreferenced(held, waiting, active, sync')
  /\ place' = "pump"
  /\ UNCHANGED <<current, heapVars, heap, taskVars, freed, signalled, age, disposing, disposed,
                 strayed>>

\* The last task that was posted becomes the active one.
StartTask ==
  /\ place = "pump" /\ active = NoTask /\ waiting # <<>>
  /\ active' = Last(waiting)
  /\ waiting' = Front(waiting)
  /\ UNCHANGED <<current, place, sync, heapVars, heap, left, posted, held, freed, signalled, age,
                 endVars, strayed>>

(* Where the next part of a task goes: a mip level is copied as a whole,   *)
(* after what is left of the memory if that is too small for it.           *)
MipPlaces(p) ==
  IF p.cols <= ContiguousLow THEN {high} ELSE IF p.cols <= ContiguousHigh THEN {0} ELSE {}

Places(t) ==
  IF t \in Textures THEN MipPlaces(Head(left[t])) ELSE IF ContiguousLow = 0 THEN {} ELSE {high}

\* How much is copied of the task's next part.
Amount(t) ==
  LET rows == Head(left[t]).rows
  IN  IF t \in Textures \/ rows <= ContiguousLow THEN rows ELSE ContiguousLow

(* One pass of a PumpTask's loop: a copy is planned, and after the last    *)
(* one the task is retired with the frame.                                 *)
PumpTask ==
  /\ place = "pump" /\ active # NoTask
  /\ \E a \in Places(active) :
       LET n    == Amount(active)
           rest == Head(left[active]).rows - n
           more == IF rest = 0 THEN Tail(left[active])
                   ELSE <<[Head(left[active]) EXCEPT !.rows = rest]>> \o Tail(left[active])
           copy == [task |-> active, at |-> a, size |-> n, left |-> left[active]]
       IN  /\ high' = Consumed(a, n)
           /\ full' = (high' = low)
           /\ left' = [left EXCEPT ![active] = more]
           /\ sync' = [sync EXCEPT ![current].actions = Append(@, copy),
                                   ![current].retired = IF more = <<>> THEN @ \cup {active} ELSE @]
           /\ active' = IF more = <<>> THEN NoTask ELSE active
  /\ UNCHANGED <<current, place, low, heap, waiting, posted, held, freed, signalled, age,
                 endVars, strayed>>

\* Mutant of FinalMark: the mark at which the memory in use starts.
FinalMarkLow == low

\* m_asyncUploadHeapFinalHighMark.
FinalMark == high

(* The end of PumpAsyncUploads: there is nothing left to plan, or no room. *)
PostCopyJobs ==
  LET job == IF sync[current].actions = <<>> THEN "none" ELSE "queued"
  IN  /\ place = "pump"
      /\ IF active = NoTask THEN waiting = <<>> ELSE Places(active) = {}
      /\ sync' = [sync EXCEPT ![current].final = FinalMark, ![current].memCopy = job,
                              ![current].cleanup = job]
      /\ place' = "end"
      /\ UNCHANGED <<current, heapVars, heap, taskVars, freed, signalled, age, endVars, strayed>>

EndFrame ==
  /\ place = "end"
  /\ sync' = [sync EXCEPT ![current].close = "queued",
                          ![current].copy = IF sync[current].memCopy = "none" THEN "none"
                                            ELSE "queued"]
  /\ current' = (current + 1) % NumSyncPoints
  /\ age' = [t \in Tasks |-> IF age[t] < NumSyncPoints THEN age[t] + 1 ELSE age[t]]
  /\ place' = "retire"
  /\ UNCHANGED <<heapVars, heap, taskVars, freed, signalled, endVars, strayed>>
-----------------------------------------------------------------------------
(* The jobs of a frame.  Those that submit to the same queue are chained.  *)

(* What a planned copy leaves in the upload memory: its data, unless the   *)
(* data is freed.  A buffer's copy has equal pitches of 0 and moves none.  *)
Filled(h, c) ==
  IF c.task \in Buffers THEN h
  ELSE [x \in DOMAIN h |-> IF x \notin Cells(c) THEN h[x]
                          ELSE IF c.task \in freed THEN NoData ELSE c]

\* StripedMemCopyJobRunner::Run.
MemCopy(i) ==
  /\ sync[i].memCopy = "queued"
  /\ sync' = [sync EXCEPT ![i].memCopy = "done"]
  /\ heap' = FoldLeft(Filled, heap, sync[i].actions)
  /\ UNCHANGED <<current, place, heapVars, taskVars, freed, signalled, age, endVars, strayed>>

\* StripedMemCopyCleanupJobRunner::Run.
Cleanup(i) ==
  /\ sync[i].cleanup = "queued" /\ sync[i].memCopy = "done"
  /\ sync' = [sync EXCEPT ![i].cleanup = "done"]
  /\ freed' = freed \cup sync[i].retired
  /\ UNCHANGED <<current, place, heapVars, heap, taskVars, signalled, age, endVars, strayed>>

(* CopyAsyncUploadsRecordRunner and -SubmitRunner: what is copied to is    *)
(* touched, and the batch goes to the DMA queue.                           *)
\* Mutant of MayCopy: the record job does not depend on the memory copy.
MayCopyEarly(i) ==
  sync[i].copy = "queued" /\ \A j \in Earlier(i) : sync[j].copy # "queued"

MayCopy(i) ==
  /\ sync[i].copy = "queued" /\ sync[i].memCopy = "done"
  /\ \A j \in Earlier(i) : sync[j].copy # "queued"

CopyUploads(i) ==
  /\ MayCopy(i)
  /\ sync' = [sync EXCEPT ![i].copy = "submitted"]
  /\ age' = [t \in Tasks |->
               IF \E k \in 1..Len(sync[i].actions) : sync[i].actions[k].task = t
               THEN Age(i) ELSE age[t]]
  /\ UNCHANGED <<current, place, heapVars, heap, taskVars, freed, signalled, endVars, strayed>>

\* CloseFrameRecordRunner and CloseFrameSubmitRunner.
CloseFrame(i) ==
  /\ sync[i].close = "queued" /\ sync[i].copy # "queued"
  /\ \A j \in Earlier(i) : sync[j].close # "queued"
  /\ sync' = [sync EXCEPT ![i].close = "submitted"]
  /\ UNCHANGED <<current, place, heapVars, heap, taskVars, freed, signalled, age, endVars,
                 strayed>>

-----------------------------------------------------------------------------
(* The GPU.  A queue's batches are executed in order.  What has been       *)
(* copied from the upload memory is not looked at again, and is cleared.   *)

DmaExecutes(i) ==
  /\ sync[i].copy = "submitted"
  /\ \A j \in Earlier(i) : sync[j].copy # "submitted"
  /\ sync' = [sync EXCEPT ![i].copy = "done"]
  /\ heap' = [x \in DOMAIN heap |->
                IF heap[x] \in ToSet(sync[i].actions) THEN NoData ELSE heap[x]]
  /\ UNCHANGED <<current, place, heapVars, taskVars, freed, signalled, age, endVars, strayed>>

\* The last batch of a frame waits for the fence that the frame's copies signal.
GraphicsExecutes(i) ==
  /\ sync[i].close = "submitted" /\ sync[i].copy # "submitted"
  /\ \A j \in Earlier(i) : sync[j].close # "submitted"
  /\ sync' = [sync EXCEPT ![i].close = "done"]
  /\ UNCHANGED <<current, place, heapVars, heap, taskVars, freed, signalled, age, endVars,
                 strayed>>

-----------------------------------------------------------------------------

TimelineInit ==
  /\ current = 0 /\ place = "retire"
  /\ sync = [i \in SyncPoints |->
               [actions |-> <<>>, retired |-> {}, final |-> 0, condemned |-> {},
                memCopy |-> "none", cleanup |-> "none", copy |-> "none", close |-> "none"]]
  /\ low = 0 /\ high = 0 /\ full = FALSE
  /\ heap = [x \in 0..(HeapSize - 1) |-> NoData]
  /\ waiting = <<>> /\ active = NoTask /\ left = Parts
  /\ posted = {} /\ held = {} /\ freed = {} /\ signalled = {}
  /\ age = [t \in Tasks |-> 0]
  /\ condemned = {} /\ disposing = {} /\ disposed = {}
  /\ strayed = FALSE

MainThread ==
  \/ RetireOldestFrame
  \/ ClearActions
  \/ StartTask
  \/ PumpTask
  \/ PostCopyJobs
  \/ EndFrame

Worker(i) ==
  \/ MemCopy(i)
  \/ Cleanup(i)
  \/ CopyUploads(i)
  \/ CloseFrame(i)

Gpu(i) ==
  \/ DmaExecutes(i)
  \/ GraphicsExecutes(i)

Poster(t) == PostAsyncUploadTask(t) \/ RCTrackerZero(t)

TimelineNext ==
  \/ MainThread
  \/ AsyncDispose
  \/ \E i \in SyncPoints : Worker(i) \/ Gpu(i)
  \/ \E t \in Tasks : Poster(t)

TimelineSpec == TimelineInit /\ [][TimelineNext]_tlVars

-----------------------------------------------------------------------------

Copy == [task : Tasks, at : 0..(HeapSize - 1), size : Nat \ {0}, left : Seq(Part)]

(* The type invariant of the variables above.                              *)
TimelineTypeOK ==
  /\ current \in SyncPoints /\ place \in {"retire", "clear", "pump", "end"}
  /\ sync \in [SyncPoints -> [actions : Seq(Copy), retired : SUBSET Tasks,
                              final : 0..(HeapSize - 1), condemned : SUBSET Tasks,
                              memCopy : {"none", "queued", "done"},
                              cleanup : {"none", "queued", "done"},
                              copy : {"none", "queued", "submitted", "done"},
                              close : {"none", "queued", "submitted", "done"}]]
  /\ low \in 0..(HeapSize - 1) /\ high \in 0..(HeapSize - 1) /\ full \in BOOLEAN
  /\ heap \in [0..(HeapSize - 1) -> Copy \cup {NoData}]
  /\ waiting \in Seq(Tasks) /\ active \in Tasks \cup {NoTask} /\ left \in [Tasks -> Seq(Part)]
  /\ posted \subseteq Tasks /\ held \subseteq posted
  /\ freed \subseteq posted /\ signalled \subseteq posted
  /\ age \in [Tasks -> 0..NumSyncPoints]
  /\ condemned \subseteq posted /\ disposing \subseteq posted /\ disposed \subseteq posted
  /\ strayed \in BOOLEAN

(* The task was still being planned when the frame that has sync point i   *)
(* ended: its later parts were planned with a later frame.                 *)
Spans(t, i) == t \notin sync[i].retired

(* What the GPU copies to a texture is the texture's data, and the texture *)
(* exists.  The data may be missing if it was freed by the cleanup job of  *)
(* a later frame than the one that copies it, and replaced once the marks  *)
(* of the upload memory have strayed.                                      *)
CopiesAreWhole ==
  [][\A i \in SyncPoints : sync[i].copy = "submitted" /\ sync'[i].copy = "done" =>
       \A k \in 1..Len(sync[i].actions) :
         LET c == sync[i].actions[k]
         IN  /\ c.task \notin disposed
             /\ c.task \in Textures /\ ~strayed =>
                  \A x \in Cells(c) :
                    \/ heap[x] = c
                    \/ Spans(c.task, i) /\ c.task \in freed /\ heap[x] = NoData]_tlVars

(* When the requester of an upload is told that it is done, nothing of it  *)
(* is still to be planned, and no copy of it is still to be executed.      *)
DoneMeansUploaded ==
  \A t \in signalled :
    /\ left[t] = <<>>
    /\ \A i \in SyncPoints : \A k \in 1..Len(sync[i].actions) :
         sync[i].actions[k].task = t => sync[i].copy = "done"

(* An upload that is asked for is done in the end, and a texture or buffer *)
(* that nobody refers to any more is destroyed.  Both are for good, so     *)
(* that all there are so far are done and destroyed again and again.       *)
UploadsFinish == []<>(posted \subseteq signalled /\ posted \ held \subseteq disposed)
=============================================================================
