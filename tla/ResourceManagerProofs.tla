------------------------- MODULE ResourceManagerProofs -------------------------
(***************************************************************************)
(* Proofs about ResourceManager.  The reference count of a tracker is      *)
(* exact: it is the number of those who have a reference, whatever         *)
(* requests, completions, failures and resurrections interleave.  What is  *)
(* referred to is therefore never deleted, and what is not is, as long as  *)
(* no last reference is dropped while another thread is in RCTrackerZero.  *)
(***************************************************************************)
EXTENDS ResourceManager, FiniteSetTheorems, TLAPS

StartAt == {"start", "started"}
CompleteAt == {"complete", "completed", "loaded"}
FailAt == {"fail", "failing", "failed", "notified"}
BusyAt == StartAt \cup CompleteAt \cup FailAt
ZeroAt == {"zero", "delete"}

TrackerRecord ==
  [life : {"unused", "live", "deleted"}, refs : Nat, pending : BOOLEAN, signaler : BOOLEAN,
   future : {"none", "waiting", "completed", "failed"},
   signaled : {"none", "waiting", "done", "failed"},
   load : {"none", "running", "ok", "failed"}, loading : BOOLEAN,
   completing : {"none", "waiting", "runnable", "running", "done", "aborted", "gone"}]

RequestRecord ==
  [of : Trackers \cup {NoTracker}, future : {"none", "load", "own"},
   job : {"none", "signaled", "completing"}]

ThreadRecord ==
  [at : {"idle"} \cup BusyAt \cup ZeroAt, of : Trackers \cup {NoTracker},
   for : Requests \cup {NoAnswer}, signals : BOOLEAN, extra : {0, 1}]

Types ==
  /\ map \in [Keys -> Trackers \cup {NoTracker}]
  /\ tracker \in [Trackers -> TrackerRecord]
  /\ request \in [Requests -> RequestRecord]
  /\ thread \in [Threads -> ThreadRecord]
  /\ \A q \in Requests : request[q].of = NoTracker => request[q] = Unanswered
  /\ \A x \in Threads : IF thread[x].of = NoTracker THEN thread[x] = Idle
                        ELSE thread[x].at # "idle"

(* Who has a reference to t: the clients that were given it, the load job, *)
(* the result of the load, the notifier and resourceRCPtr.                 *)
IsOwner(q, t) == request[q].of = t /\ request[q].future = "own"
Owners(t) == {q \in Requests : IsOwner(q, t)}
IsSharer(q, t) == request[q].of = t /\ request[q].future = "load"

Starts(t) == \E x \in Threads : thread[x].of = t /\ thread[x].at \in StartAt
Completes(t) == \E x \in Threads : thread[x].of = t /\ thread[x].at \in CompleteAt
Fails(t) == \E x \in Threads : thread[x].of = t /\ thread[x].at \in FailAt
FailsStart(t) ==
  \E x \in Threads : thread[x].of = t /\ thread[x].at \in FailAt /\ thread[x].extra = 1

HasResult(t) ==
  \/ tracker[t].completing = "running"
  \/ tracker[t].future = "completed" /\ \E q \in Requests : IsSharer(q, t)
HasNotifier(t) ==
  \/ Starts(t) \/ Fails(t)
  \/ tracker[t].completing \in {"waiting", "runnable", "running", "aborted"}
HasPointer(t) == Starts(t) \/ FailsStart(t)

One(b) == IF b THEN 1 ELSE 0

Counted(t) ==
  tracker[t].refs = Cardinality(Owners(t)) + One(tracker[t].loading) + One(HasResult(t))
                      + One(HasNotifier(t)) + One(HasPointer(t))

(* What a thread that is somewhere in a request, completion, failure or    *)
(* deletion of t knows about it.                                           *)
ThreadOK(x, t) ==
  LET s == tracker[t]
      a == thread[x].at
  IN  /\ a \in StartAt => /\ s.completing = "none" /\ s.future = "waiting"
                          /\ thread[x].for \in Requests /\ request[thread[x].for].of = t
                          /\ request[thread[x].for].future = "load"
                          /\ request[thread[x].for].job = "none"
      /\ a = "start" => s.load = "none"
      /\ a = "started" => s.load # "none"
      /\ a \in CompleteAt => s.completing = "running" /\ ~s.pending
      /\ a \in {"complete", "fail", "failing"} => s.future = "waiting"
      /\ a \in {"completed", "loaded"} => s.future = "completed"
      /\ a \in FailAt => s.completing \in {"none", "gone"}
      /\ a \in FailAt \ {"fail"} => ~s.pending
      /\ a \in {"failed", "notified"} => s.future = "failed"
      /\ a = "delete" => s.refs = 0 /\ \A k \in Keys : map[k] # t

LoadOK(t) ==
  LET s == tracker[t]
  IN  /\ s.load = "none" => ~s.loading
      /\ s.load = "running" => s.loading /\ (s.completing = "waiting" \/ Starts(t))
      /\ s.pending => s.future = "waiting"
      /\ s.completing \in {"waiting", "runnable", "aborted"} => s.future = "waiting"
      /\ s.completing = "running" => Completes(t)
      /\ s.completing = "done" => s.future = "completed"
      /\ s.signaled = "done" => s.future = "completed"
      /\ s.signaled = "failed" => s.future = "failed"

(* A tracker that is not live is not in use, and one that nobody refers to *)
(* is about to be deleted, by one thread.                                  *)
LifeOK(t) ==
  /\ tracker[t].life = "unused" => tracker[t] = NotMade
  /\ tracker[t].life # "live" => /\ tracker[t].refs = 0
                                 /\ \A x \in Threads : thread[x].of # t
                                 /\ \A k \in Keys : map[k] # t
  /\ tracker[t].life = "live" /\ tracker[t].refs = 0 =>
       \E x \in Threads : thread[x].of = t /\ thread[x].at \in ZeroAt
  /\ \A x, y \in Threads :
       thread[x].of = t /\ thread[y].of = t =>
         /\ thread[x].at \in BusyAt /\ thread[y].at \in BusyAt => x = y
         /\ thread[x].at \in ZeroAt /\ thread[y].at \in ZeroAt => x = y

TrackerOK(t) ==
  /\ Counted(t) /\ LoadOK(t) /\ LifeOK(t)
  /\ \A x \in Threads : thread[x].of = t => ThreadOK(x, t)

RMInv == Types /\ \A t \in Trackers : TrackerOK(t)

-----------------------------------------------------------------------------

LEMMA OwnersFinite ==
  ASSUME NEW t
  PROVE  IsFiniteSet(Owners(t)) /\ Cardinality(Owners(t)) \in Nat
<1>1. Owners(t) \subseteq Requests /\ IsFiniteSet(Requests)
  BY ResourceManagerAssumption DEF Owners
<1> QED
  BY <1>1, FS_Subset, FS_CardinalityType

(* A step that concerns t leaves what is true of the other trackers.       *)
Concerns(t) ==
  /\ \A u \in Trackers \ {t} : tracker'[u] = tracker[u]
  /\ \A x \in Threads : \/ thread'[x] = thread[x]
                        \/ thread[x].of \in {t, NoTracker} /\ thread'[x].of \in {t, NoTracker}
  /\ \A q \in Requests : \/ request'[q] = request[q]
                         \/ request[q].of \in {t, NoTracker} /\ request'[q].of \in {t, NoTracker}
  /\ \A k \in Keys : \/ map'[k] = map[k]
                     \/ map[k] \in {t, NoTracker} /\ map'[k] \in {t, NoTracker}

LEMMA OthersKept ==
  ASSUME Types, NEW t \in Trackers, Concerns(t), NEW u \in Trackers \ {t}, TrackerOK(u)
  PROVE  TrackerOK(u)'
<1> USE ResourceManagerAssumption DEF Concerns
<1>1. tracker'[u] = tracker[u]
  OBVIOUS
<1>2. \A q \in Requests : request'[q].of = u \/ request[q].of = u => request'[q] = request[q]
  OBVIOUS
<1>3. \A x \in Threads : thread'[x].of = u \/ thread[x].of = u => thread'[x] = thread[x]
  OBVIOUS
<1>4. \A k \in Keys : map'[k] = u <=> map[k] = u
  OBVIOUS
<1>5. Owners(u)' = Owners(u)
  BY <1>2 DEF Owners, IsOwner
<1>6. \A q \in Requests : IsSharer(q, u)' <=> IsSharer(q, u)
  BY <1>2 DEF IsSharer
<1>7. /\ Starts(u)' <=> Starts(u)
      /\ Completes(u)' <=> Completes(u)
      /\ Fails(u)' <=> Fails(u)
      /\ FailsStart(u)' <=> FailsStart(u)
  BY <1>3 DEF Starts, Completes, Fails, FailsStart
<1>8. Counted(u)'
  <2>1. HasResult(u)' <=> HasResult(u)
    BY <1>1, <1>6 DEF HasResult
  <2>2. (HasNotifier(u)' <=> HasNotifier(u)) /\ (HasPointer(u)' <=> HasPointer(u))
    BY <1>1, <1>7 DEF HasNotifier, HasPointer
  <2> QED
    BY <1>1, <1>5, <2>1, <2>2 DEF Counted, TrackerOK, One
<1>9. LoadOK(u)'
  BY <1>1, <1>7 DEF LoadOK, TrackerOK
<1>10. LifeOK(u)'
  BY <1>1, <1>3, <1>4 DEF LifeOK, TrackerOK
<1>11. ASSUME NEW x \in Threads, thread'[x].of = u
       PROVE  ThreadOK(x, u)'
  <2>1. thread'[x] = thread[x] /\ ThreadOK(x, u)
    BY <1>3, <1>11 DEF TrackerOK
  <2>2. thread[x].at \in StartAt =>
          request'[thread[x].for] = request[thread[x].for] \/ request[thread[x].for].of # u
    BY <1>2, <2>1 DEF ThreadOK
  <2> QED
    BY <1>1, <1>2, <1>4, <2>1, <2>2 DEF ThreadOK
<1> QED
  BY <1>8, <1>9, <1>10, <1>11 DEF TrackerOK

LEMMA TrackerStep ==
  ASSUME RMInv, NEW t \in Trackers, Concerns(t), Types', TrackerOK(t)'
  PROVE  RMInv'
BY OthersKept DEF RMInv

-----------------------------------------------------------------------------
(* What the thread that takes a step is doing, and what is true of others. *)

LEMMA RecordFields ==
  /\ \A s \in TrackerRecord :
       /\ s.refs \in Nat /\ s.pending \in BOOLEAN /\ s.signaler \in BOOLEAN /\ s.loading \in BOOLEAN
       /\ s.life \in {"unused", "live", "deleted"}
       /\ s.future \in {"none", "waiting", "completed", "failed"}
       /\ s.signaled \in {"none", "waiting", "done", "failed"}
       /\ s.load \in {"none", "running", "ok", "failed"}
       /\ s.completing \in {"none", "waiting", "runnable", "running", "done", "aborted", "gone"}
  /\ \A r \in RequestRecord :
       /\ r.of \in Trackers \cup {NoTracker} /\ r.future \in {"none", "load", "own"}
       /\ r.job \in {"none", "signaled", "completing"}
  /\ \A r \in ThreadRecord :
       /\ r.at \in {"idle"} \cup BusyAt \cup ZeroAt /\ r.of \in Trackers \cup {NoTracker}
       /\ r.for \in Requests \cup {NoAnswer} /\ r.signals \in BOOLEAN /\ r.extra \in {0, 1}
BY DEF TrackerRecord, RequestRecord, ThreadRecord

LEMMA ThreadRecords ==
  /\ Idle \in ThreadRecord /\ Idle.of = NoTracker /\ Idle.at = "idle" /\ Idle.for = NoAnswer
  /\ \A t \in Trackers, at \in BusyAt \cup ZeroAt :
       /\ At(at, t) \in ThreadRecord /\ At(at, t).of = t /\ At(at, t).at = at
       /\ At(at, t).for = NoAnswer /\ At(at, t).extra = 0
BY ZenonT(30) DEF Idle, At, ThreadRecord, BusyAt, ZeroAt, StartAt, CompleteAt, FailAt

(* x goes on as v, and no other thread is busy with t.                     *)
Alone(x, t) == \A y \in Threads \ {x} : thread[y].of = t => thread[y].at \notin BusyAt

LEMMA BusyAfter ==
  ASSUME Types, NEW t \in Trackers, NEW x \in Threads, NEW v,
         thread' = [thread EXCEPT ![x] = v], Alone(x, t)
  PROVE  /\ Starts(t)' <=> v.of = t /\ v.at \in StartAt
         /\ Completes(t)' <=> v.of = t /\ v.at \in CompleteAt
         /\ Fails(t)' <=> v.of = t /\ v.at \in FailAt
         /\ FailsStart(t)' <=> v.of = t /\ v.at \in FailAt /\ v.extra = 1
BY DEF Types, Alone, Starts, Completes, Fails, FailsStart, BusyAt

LEMMA BusyBefore ==
  ASSUME NEW t \in Trackers, NEW x \in Threads, Alone(x, t)
  PROVE  /\ Starts(t) <=> thread[x].of = t /\ thread[x].at \in StartAt
         /\ Completes(t) <=> thread[x].of = t /\ thread[x].at \in CompleteAt
         /\ Fails(t) <=> thread[x].of = t /\ thread[x].at \in FailAt
         /\ FailsStart(t) <=> thread[x].of = t /\ thread[x].at \in FailAt /\ thread[x].extra = 1
BY DEF Alone, Starts, Completes, Fails, FailsStart, BusyAt

LEMMA BusyKept ==
  ASSUME Types, NEW t \in Trackers, NEW x \in Threads, NEW v,
         thread' = [thread EXCEPT ![x] = v],
         thread[x].of = t => thread[x].at \notin BusyAt, v.of = t => v.at \notin BusyAt
  PROVE  /\ Starts(t)' <=> Starts(t)
         /\ Completes(t)' <=> Completes(t)
         /\ Fails(t)' <=> Fails(t)
         /\ FailsStart(t)' <=> FailsStart(t)
BY DEF Types, Starts, Completes, Fails, FailsStart, BusyAt

LEMMA BusyAlone ==
  ASSUME NEW t \in Trackers, LifeOK(t), NEW x \in Threads, thread[x].of = t, thread[x].at \in BusyAt
  PROVE  Alone(x, t)
BY DEF LifeOK, Alone

(* A tracker in use is live.                                               *)
LEMMA InUseIsLive ==
  ASSUME RMInv, NEW t \in Trackers,
         \/ tracker[t].refs # 0 \/ \E x \in Threads : thread[x].of = t
         \/ \E k \in Keys : map[k] = t
  PROVE  tracker[t].life = "live"
BY DEF RMInv, TrackerOK, LifeOK

LEMMA LifeAfter ==
  ASSUME Types, NEW t \in Trackers, LifeOK(t), NEW x \in Threads, NEW v,
         thread' = [thread EXCEPT ![x] = v], tracker'[t].life = "live",
         v.of = t /\ v.at \in BusyAt => Alone(x, t),
         v.of = t /\ v.at \in ZeroAt =>
           \A y \in Threads \ {x} : thread[y].of = t => thread[y].at \notin ZeroAt,
         tracker'[t].refs = 0 => \/ v.of = t /\ v.at \in ZeroAt
                                 \/ /\ tracker[t].refs = 0 /\ tracker[t].life = "live"
                                    /\ thread[x].of = t => thread[x].at \notin ZeroAt
  PROVE  LifeOK(t)'
<1>1. \A y \in Threads : thread'[y] = IF y = x THEN v ELSE thread[y]
  BY DEF Types
<1>2. tracker'[t].refs = 0 => \E y \in Threads : thread'[y].of = t /\ thread'[y].at \in ZeroAt
  BY <1>1 DEF LifeOK
<1>3. ASSUME NEW y \in Threads, NEW z \in Threads, thread'[y].of = t, thread'[z].of = t
      PROVE  /\ thread'[y].at \in BusyAt /\ thread'[z].at \in BusyAt => y = z
             /\ thread'[y].at \in ZeroAt /\ thread'[z].at \in ZeroAt => y = z
  BY <1>1, <1>3 DEF LifeOK, Alone
<1> QED
  BY <1>2, <1>3 DEF LifeOK

(* Releasing references.                                                   *)
LEMMA Released ==
  ASSUME RMInv, ~DropsWhileZeroing, NEW x \in Threads, NEW t \in Trackers, NEW n, Releases(x, t, n)
  PROVE  \E v \in ThreadRecord :
           /\ thread' = [thread EXCEPT ![x] = v]
           /\ IF n > 0 /\ tracker[t].refs = n
              THEN /\ v = At("zero", t) /\ v.of = t /\ v.at = "zero"
                   /\ \A y \in Threads : thread[y].of = t => thread[y].at \notin ZeroAt
              ELSE v = Idle /\ v.of = NoTracker /\ v.at = "idle"
<1>1. n > 0 /\ tracker[t].refs = n =>
        \A y \in Threads : thread[y].of = t => thread[y].at \notin ZeroAt
  <2> SUFFICES ASSUME n > 0, tracker[t].refs = n, NEW y \in Threads, thread[y].of = t,
                      thread[y].at \in ZeroAt
               PROVE  FALSE
    OBVIOUS
  <2>1. Zeroing(t) = {}
    BY DEF Releases
  <2>2. thread[y].at = "delete"
    BY <2>1 DEF Zeroing, ZeroAt
  <2>3. tracker[t].refs = 0
    BY <2>2 DEF RMInv, TrackerOK, ThreadOK
  <2> QED
    BY <2>3
<1> QED
  BY <1>1, ThreadRecords DEF Releases, ZeroAt

LEMMA StepKeeps ==
  ASSUME RMInv, NEW t \in Trackers, Concerns(t), Types', Counted(t)', LoadOK(t)', LifeOK(t)',
         \A x \in Threads : thread'[x].of = t => ThreadOK(x, t)'
  PROVE  RMInv'
BY TrackerStep DEF TrackerOK

LEMMA AtHand ==
  ASSUME RMInv, NEW t \in Trackers
  PROVE  /\ Types /\ Counted(t) /\ LoadOK(t) /\ LifeOK(t)
         /\ tracker[t] \in TrackerRecord /\ tracker[t].refs \in Nat
         /\ Cardinality(Owners(t)) \in Nat
BY OwnersFinite, RecordFields DEF RMInv, Types, TrackerOK

-----------------------------------------------------------------------------
(* The load job.                                                           *)

LEMMA LoadSucceedsOK ==
  ASSUME RMInv, NEW t \in Trackers, LoadSucceeds(t)
  PROVE  RMInv'
<1> DEFINE s == tracker[t]
           c == IF s.completing = "waiting" THEN "runnable" ELSE s.completing
           s2 == [s EXCEPT !.load = "ok", !.loading = FALSE, !.refs = @ - 1, !.completing = c]
<1>1. /\ tracker' = [tracker EXCEPT ![t] = s2]
      /\ s.load = "running" /\ map' = map /\ request' = request /\ thread' = thread
  BY DEF LoadSucceeds
<1>2. /\ Types /\ Counted(t) /\ LoadOK(t) /\ LifeOK(t)
      /\ s \in TrackerRecord /\ s.refs \in Nat /\ Cardinality(Owners(t)) \in Nat
  BY AtHand
<1>3. s.loading
  BY <1>1, <1>2 DEF LoadOK
<1>4. s.refs >= 1
  BY <1>2, <1>3 DEF Counted, One
<1>5. s2 \in TrackerRecord
  <2>1. /\ s.refs - 1 \in Nat
        /\ c \in {"none", "waiting", "runnable", "running", "done", "aborted", "gone"}
    BY <1>2, <1>3, <1>4, RecordFields
  <2> HIDE DEF c
  <2> QED
    BY <1>2, <2>1, ZenonT(30) DEF TrackerRecord
<1>6. tracker'[t] = s2 /\ s.life = "live"
  BY <1>1, <1>2, <1>4, InUseIsLive DEF Types
<1>7. Types' /\ Concerns(t)
  BY <1>1, <1>2, <1>5 DEF Types, Concerns
<1>8. /\ s2.load = "ok" /\ ~s2.loading /\ s2.refs = s.refs - 1 /\ s2.life = "live"
      /\ s2.completing = IF s.completing = "waiting" THEN "runnable" ELSE s.completing
      /\ s2.pending = s.pending /\ s2.future = s.future /\ s2.signaled = s.signaled
  BY <1>2, <1>6 DEF TrackerRecord
<1> HIDE DEF s2
<1>9. /\ Starts(t)' <=> Starts(t)
      /\ Completes(t)' <=> Completes(t)
      /\ Fails(t)' <=> Fails(t)
      /\ FailsStart(t)' <=> FailsStart(t)
  BY <1>1 DEF Starts, Completes, Fails, FailsStart
<1>10. HasNotifier(t)
  BY <1>1, <1>2 DEF LoadOK, HasNotifier
<1>11. Counted(t)'
  <2>1. Owners(t)' = Owners(t)
    BY <1>1 DEF Owners, IsOwner
  <2>2. HasResult(t)' <=> HasResult(t)
    BY <1>1, <1>6, <1>8 DEF HasResult, IsSharer
  <2>3. (HasNotifier(t)' <=> HasNotifier(t)) /\ (HasPointer(t)' <=> HasPointer(t))
    BY <1>6, <1>8, <1>9 DEF HasNotifier, HasPointer
  <2> QED
    BY <1>2, <1>3, <1>6, <1>8, <2>1, <2>2, <2>3 DEF Counted, One
<1>12. LoadOK(t)'
  BY <1>2, <1>6, <1>8, <1>9 DEF LoadOK
<1>13. s2.refs # 0
  BY <1>2, <1>3, <1>8, <1>10 DEF Counted, One
<1>14. LifeOK(t)'
  BY <1>1, <1>2, <1>6, <1>8, <1>13 DEF LifeOK
<1>15. ASSUME NEW x \in Threads, thread'[x].of = t
       PROVE  ThreadOK(x, t)'
  BY <1>1, <1>3, <1>4, <1>6, <1>8, <1>15 DEF RMInv, TrackerOK, ThreadOK
<1> QED
  BY <1>7, <1>11, <1>12, <1>14, <1>15, StepKeeps

LEMMA LoadFailsOK ==
  ASSUME RMInv, NEW t \in Trackers, LoadFails(t)
  PROVE  RMInv'
<1> DEFINE s == tracker[t]
           c == IF s.completing = "waiting" THEN "aborted" ELSE s.completing
           s2 == [s EXCEPT !.load = "failed", !.completing = c]
<1>1. /\ tracker' = [tracker EXCEPT ![t] = s2]
      /\ s.load = "running" /\ map' = map /\ request' = request /\ thread' = thread
  BY DEF LoadFails
<1>2. /\ Types /\ Counted(t) /\ LoadOK(t) /\ LifeOK(t)
      /\ s \in TrackerRecord /\ s.refs \in Nat /\ Cardinality(Owners(t)) \in Nat
  BY AtHand
<1>3. s.loading
  BY <1>1, <1>2 DEF LoadOK
<1>4. s.refs >= 1
  BY <1>2, <1>3 DEF Counted, One
<1>5. s2 \in TrackerRecord
  <2>1. c \in {"none", "waiting", "runnable", "running", "done", "aborted", "gone"}
    BY <1>2, RecordFields
  <2> HIDE DEF c
  <2> QED
    BY <1>2, <2>1 DEF TrackerRecord
<1>6. tracker'[t] = s2 /\ s.life = "live"
  BY <1>1, <1>2, <1>4, InUseIsLive DEF Types
<1>7. Types' /\ Concerns(t)
  BY <1>1, <1>2, <1>5 DEF Types, Concerns
<1>8. /\ s2.load = "failed" /\ s2.loading = s.loading /\ s2.refs = s.refs /\ s2.life = "live"
      /\ s2.completing = IF s.completing = "waiting" THEN "aborted" ELSE s.completing
      /\ s2.pending = s.pending /\ s2.future = s.future /\ s2.signaled = s.signaled
  BY <1>2, <1>6 DEF TrackerRecord
<1> HIDE DEF s2
<1>9. /\ Starts(t)' <=> Starts(t)
      /\ Completes(t)' <=> Completes(t)
      /\ Fails(t)' <=> Fails(t)
      /\ FailsStart(t)' <=> FailsStart(t)
  BY <1>1 DEF Starts, Completes, Fails, FailsStart
<1>10. Counted(t)'
  <2>1. Owners(t)' = Owners(t)
    BY <1>1 DEF Owners, IsOwner
  <2>2. HasResult(t)' <=> HasResult(t)
    BY <1>1, <1>6, <1>8 DEF HasResult, IsSharer
  <2>3. (HasNotifier(t)' <=> HasNotifier(t)) /\ (HasPointer(t)' <=> HasPointer(t))
    BY <1>6, <1>8, <1>9 DEF HasNotifier, HasPointer
  <2> QED
    BY <1>2, <1>6, <1>8, <2>1, <2>2, <2>3 DEF Counted, One
<1>11. LoadOK(t)'
  BY <1>2, <1>6, <1>8, <1>9 DEF LoadOK
<1>12. LifeOK(t)'
  BY <1>1, <1>2, <1>4, <1>6, <1>8 DEF LifeOK
<1>13. ASSUME NEW x \in Threads, thread'[x].of = t
       PROVE  ThreadOK(x, t)'
  BY <1>1, <1>6, <1>8, <1>13 DEF RMInv, TrackerOK, ThreadOK
<1> QED
  BY <1>7, <1>10, <1>11, <1>12, <1>13, StepKeeps

LEMMA LoaderReleasesOK ==
  ASSUME RMInv, ~DropsWhileZeroing, NEW x \in Threads, NEW t \in Trackers, LoaderReleases(x, t)
  PROVE  RMInv'
<1> DEFINE s == tracker[t]
           s2 == [s EXCEPT !.loading = FALSE, !.refs = @ - 1]
<1>1. /\ tracker' = [tracker EXCEPT ![t] = s2]
      /\ s.load = "failed" /\ s.loading /\ map' = map /\ request' = request
      /\ thread[x].at = "idle" /\ Releases(x, t, 1)
  BY DEF LoaderReleases, IsIdle
<1>2. /\ Types /\ Counted(t) /\ LoadOK(t) /\ LifeOK(t)
      /\ s \in TrackerRecord /\ s.refs \in Nat /\ Cardinality(Owners(t)) \in Nat
  BY AtHand
<1>3. s.refs >= 1
  BY <1>1, <1>2 DEF Counted, One
<1>4. PICK v \in ThreadRecord :
        /\ thread' = [thread EXCEPT ![x] = v]
        /\ IF s.refs = 1
           THEN /\ v = At("zero", t) /\ v.of = t /\ v.at = "zero"
                /\ \A y \in Threads : thread[y].of = t => thread[y].at \notin ZeroAt
           ELSE v = Idle /\ v.of = NoTracker /\ v.at = "idle"
  BY <1>1, Released
<1>5. s2 \in TrackerRecord
  <2>1. s.refs - 1 \in Nat
    BY <1>2, <1>3
  <2> QED
    BY <1>2, <2>1 DEF TrackerRecord
<1>6. tracker'[t] = s2 /\ s.life = "live"
  BY <1>1, <1>2, <1>3, InUseIsLive DEF Types
<1>7. thread[x].of = NoTracker
  BY <1>1, <1>2 DEF Types
<1>8. Types' /\ Concerns(t)
  BY <1>1, <1>2, <1>4, <1>5, <1>7, ResourceManagerAssumption DEF Types, Concerns
<1>9. /\ ~s2.loading /\ s2.refs = s.refs - 1 /\ s2.life = "live"
      /\ s2.load = s.load /\ s2.completing = s.completing
      /\ s2.pending = s.pending /\ s2.future = s.future /\ s2.signaled = s.signaled
  BY <1>2, <1>6 DEF TrackerRecord
<1> HIDE DEF s2
<1>10. /\ Starts(t)' <=> Starts(t)
       /\ Completes(t)' <=> Completes(t)
       /\ Fails(t)' <=> Fails(t)
       /\ FailsStart(t)' <=> FailsStart(t)
  BY <1>1, <1>2, <1>4, BusyKept DEF BusyAt, StartAt, CompleteAt, FailAt
<1>11. Counted(t)'
  <2>1. Owners(t)' = Owners(t)
    BY <1>1 DEF Owners, IsOwner
  <2>2. HasResult(t)' <=> HasResult(t)
    BY <1>1, <1>6, <1>9 DEF HasResult, IsSharer
  <2>3. (HasNotifier(t)' <=> HasNotifier(t)) /\ (HasPointer(t)' <=> HasPointer(t))
    BY <1>6, <1>9, <1>10 DEF HasNotifier, HasPointer
  <2> QED
    BY <1>1, <1>2, <1>6, <1>9, <2>1, <2>2, <2>3 DEF Counted, One
<1>12. LoadOK(t)'
  BY <1>1, <1>2, <1>6, <1>9, <1>10 DEF LoadOK
<1>13. LifeOK(t)'
  <2>1. v.at \notin BusyAt
    BY <1>4 DEF BusyAt, StartAt, CompleteAt, FailAt
  <2>2. v.at \in ZeroAt => \A y \in Threads : thread[y].of = t => thread[y].at \notin ZeroAt
    BY <1>4 DEF ZeroAt
  <2>3. s2.refs = 0 => v.of = t /\ v.at \in ZeroAt
    BY <1>2, <1>4, <1>9 DEF ZeroAt
  <2> QED
    BY <1>2, <1>4, <1>6, <1>9, <2>1, <2>2, <2>3, LifeAfter
<1>14. ASSUME NEW y \in Threads, thread'[y].of = t
       PROVE  ThreadOK(y, t)'
  <2>1. CASE y = x
    BY <1>2, <1>4, <1>14, <2>1, ResourceManagerAssumption
       DEF Types, ThreadOK, StartAt, CompleteAt, FailAt
  <2>2. CASE y # x
    <3>1. thread'[y] = thread[y] /\ ThreadOK(y, t)
      BY <1>2, <1>4, <1>14, <2>2 DEF Types, RMInv, TrackerOK
    <3> QED
      BY <1>1, <1>3, <1>6, <1>9, <3>1 DEF ThreadOK
  <2> QED
    BY <2>1, <2>2
<1> QED
  BY <1>8, <1>11, <1>12, <1>13, <1>14, StepKeeps

-----------------------------------------------------------------------------
(* Clients.                                                                *)

LEMMA DropJobOK ==
  ASSUME RMInv, NEW q \in Requests, DropJob(q)
  PROVE  RMInv'
<1> DEFINE r2 == [request[q] EXCEPT !.job = "none"]
<1>1. /\ request' = [request EXCEPT ![q] = r2]
      /\ request[q].job # "none" /\ map' = map /\ tracker' = tracker /\ thread' = thread
  BY DEF DropJob
<1>2. Types
  BY DEF RMInv
<1>3. PICK t \in Trackers : t = request[q].of
  BY <1>1, <1>2, RecordFields DEF Types, Unanswered
<1>4. /\ r2 \in RequestRecord /\ r2.of = request[q].of /\ r2.future = request[q].future
      /\ r2.job = "none"
  BY <1>2 DEF Types, RequestRecord
<1> HIDE DEF r2
<1>5. Types' /\ Concerns(t)
  BY <1>1, <1>2, <1>3, <1>4, ResourceManagerAssumption DEF Types, Concerns
<1>6. TrackerOK(t)
  BY <1>3 DEF RMInv
<1>7. \A p \in Requests : /\ request'[p].of = request[p].of /\ request'[p].future = request[p].future
                          /\ request[p].job = "none" => request'[p].job = "none"
  BY <1>1, <1>2, <1>4 DEF Types
<1>8. Owners(t)' = Owners(t) /\ \A p \in Requests : IsSharer(p, t)' <=> IsSharer(p, t)
  BY <1>7 DEF Owners, IsOwner, IsSharer
<1>9. /\ Starts(t)' <=> Starts(t)
      /\ Completes(t)' <=> Completes(t)
      /\ Fails(t)' <=> Fails(t)
      /\ FailsStart(t)' <=> FailsStart(t)
  BY <1>1 DEF Starts, Completes, Fails, FailsStart
<1>10. Counted(t)'
  <2>1. HasResult(t)' <=> HasResult(t)
    BY <1>1, <1>8 DEF HasResult
  <2>2. (HasNotifier(t)' <=> HasNotifier(t)) /\ (HasPointer(t)' <=> HasPointer(t))
    BY <1>1, <1>9 DEF HasNotifier, HasPointer
  <2> QED
    BY <1>1, <1>6, <1>8, <2>1, <2>2 DEF Counted, TrackerOK, One
<1>11. LoadOK(t)' /\ LifeOK(t)'
  BY <1>1, <1>6, <1>9 DEF TrackerOK, LoadOK, LifeOK
<1>12. ASSUME NEW x \in Threads, thread'[x].of = t
       PROVE  ThreadOK(x, t)'
  BY <1>1, <1>6, <1>7, <1>12 DEF TrackerOK, ThreadOK
<1> QED
  BY <1>3, <1>5, <1>10, <1>11, <1>12, StepKeeps

-----------------------------------------------------------------------------
(* InternalGetResource.                                                    *)

LEMMA JoinLoadOK ==
  ASSUME RMInv, NEW x \in Threads, NEW k \in Keys, NEW q \in Requests, NEW wantsJob \in BOOLEAN,
         JoinLoad(x, k, q, wantsJob)
  PROVE  RMInv'
<1>1. PICK t \in Trackers : t = map[k]
  BY DEF JoinLoad, RMInv, Types
<1> DEFINE s == tracker[t]
           r2 == [of |-> t, future |-> "load", job |-> IF wantsJob THEN "signaled" ELSE "none"]
           new == wantsJob /\ ~s.signaler
           g == IF new THEN TRUE ELSE s.signaler
           d == IF new THEN "waiting" ELSE s.signaled
           s2 == [s EXCEPT !.signaler = g, !.signaled = d]
<1>2. /\ Types /\ Counted(t) /\ LoadOK(t) /\ LifeOK(t)
      /\ s \in TrackerRecord /\ s.refs \in Nat /\ Cardinality(Owners(t)) \in Nat
  BY AtHand
<1>3. /\ request' = [request EXCEPT ![q] = r2] /\ request[q] = Unanswered
      /\ s.pending /\ map' = map /\ thread' = thread
  BY <1>1 DEF JoinLoad
<1>4. s2 \in TrackerRecord
  <2>1. g \in BOOLEAN /\ d \in {"none", "waiting", "done", "failed"}
    BY <1>2, RecordFields
  <2> HIDE DEF g, d
  <2> QED
    BY <1>2, <2>1 DEF TrackerRecord
<1>5. tracker' = [tracker EXCEPT ![t] = s2]
  <2>1. CASE new
    BY <1>1, <2>1 DEF JoinLoad
  <2>2. CASE ~new
    <3>1. s2 = s
      BY <1>2, <2>2 DEF TrackerRecord
    <3>2. tracker' = tracker
      BY <1>1, <2>2 DEF JoinLoad
    <3> QED
      BY <1>2, <3>1, <3>2 DEF Types
  <2> QED
    BY <2>1, <2>2
<1>6. /\ r2 \in RequestRecord /\ r2.of = t /\ r2.future = "load"
  BY DEF RequestRecord
<1>7. /\ s2.refs = s.refs /\ s2.life = s.life /\ s2.load = s.load /\ s2.loading = s.loading
      /\ s2.completing = s.completing /\ s2.pending = s.pending /\ s2.future = s.future
      /\ s2.signaled \in {s.signaled, "waiting"}
  BY <1>2 DEF TrackerRecord
<1>8. s.life = "live" /\ s.future = "waiting"
  BY <1>1, <1>2, <1>3, InUseIsLive DEF LoadOK
<1> HIDE DEF s2, r2, new, g, d
<1>9. tracker'[t] = s2 /\ \A p \in Requests : request'[p] = IF p = q THEN r2 ELSE request[p]
  BY <1>2, <1>3, <1>5 DEF Types
<1>10. request[q].of = NoTracker /\ request[q].future = "none"
  BY <1>3 DEF Unanswered
<1>11. Types' /\ Concerns(t)
  BY <1>2, <1>3, <1>4, <1>5, <1>6, <1>9, <1>10, ResourceManagerAssumption DEF Types, Concerns
<1>12. /\ Starts(t)' <=> Starts(t)
       /\ Completes(t)' <=> Completes(t)
       /\ Fails(t)' <=> Fails(t)
       /\ FailsStart(t)' <=> FailsStart(t)
  BY <1>3 DEF Starts, Completes, Fails, FailsStart
<1>13. Counted(t)'
  <2>1. Owners(t)' = Owners(t)
    BY <1>6, <1>9, <1>10 DEF Owners, IsOwner
  <2>2. HasResult(t)' <=> HasResult(t)
    BY <1>7, <1>8, <1>9 DEF HasResult
  <2>3. (HasNotifier(t)' <=> HasNotifier(t)) /\ (HasPointer(t)' <=> HasPointer(t))
    BY <1>7, <1>9, <1>12 DEF HasNotifier, HasPointer
  <2> QED
    BY <1>2, <1>7, <1>9, <2>1, <2>2, <2>3 DEF Counted, One
<1>14. LoadOK(t)'
  BY <1>2, <1>7, <1>8, <1>9, <1>12 DEF LoadOK
<1>15. LifeOK(t)'
  BY <1>2, <1>3, <1>7, <1>8, <1>9 DEF LifeOK
<1>16. ASSUME NEW y \in Threads, thread'[y].of = t
       PROVE  ThreadOK(y, t)'
  <2>1. thread'[y] = thread[y] /\ ThreadOK(y, t)
    BY <1>3, <1>16 DEF RMInv, TrackerOK
  <2>2. thread[y].at \in StartAt => thread[y].for # q
    BY <1>10, <2>1, ResourceManagerAssumption DEF ThreadOK
  <2> QED
    BY <1>3, <1>7, <1>9, <2>1, <2>2 DEF ThreadOK
<1> QED
  BY <1>11, <1>13, <1>14, <1>15, <1>16, StepKeeps

LEMMA GetLoadedOK ==
  ASSUME RMInv, NEW x \in Threads, NEW k \in Keys, NEW q \in Requests, GetLoaded(x, k, q)
  PROVE  RMInv'
<1>1. PICK t \in Trackers : t = map[k]
  BY DEF GetLoaded, RMInv, Types
<1> DEFINE s == tracker[t]
           r2 == [of |-> t, future |-> "own", job |-> "none"]
           s2 == [s EXCEPT !.refs = @ + 1]
<1>2. /\ Types /\ Counted(t) /\ LoadOK(t) /\ LifeOK(t)
      /\ s \in TrackerRecord /\ s.refs \in Nat /\ Cardinality(Owners(t)) \in Nat
  BY AtHand
<1>3. /\ request' = [request EXCEPT ![q] = r2] /\ request[q] = Unanswered
      /\ tracker' = [tracker EXCEPT ![t] = s2] /\ map' = map /\ thread' = thread
  BY <1>1 DEF GetLoaded
<1>4. /\ s2 \in TrackerRecord
  BY <1>2 DEF TrackerRecord
<1>5. /\ r2 \in RequestRecord /\ r2.of = t /\ r2.future = "own"
  BY DEF RequestRecord
<1>6. /\ s2.refs = s.refs + 1 /\ s2.life = s.life /\ s2.load = s.load /\ s2.loading = s.loading
      /\ s2.completing = s.completing /\ s2.pending = s.pending /\ s2.future = s.future
      /\ s2.signaled = s.signaled
  BY <1>2 DEF TrackerRecord
<1>7. s.life = "live"
  BY <1>1, InUseIsLive
<1> HIDE DEF s2, r2
<1>8. tracker'[t] = s2 /\ \A p \in Requests : request'[p] = IF p = q THEN r2 ELSE request[p]
  BY <1>2, <1>3 DEF Types
<1>9. request[q].of = NoTracker /\ request[q].future = "none"
  BY <1>3 DEF Unanswered
<1>10. Types' /\ Concerns(t)
  BY <1>2, <1>3, <1>4, <1>5, <1>8, <1>9, ResourceManagerAssumption DEF Types, Concerns
<1>11. /\ Starts(t)' <=> Starts(t)
       /\ Completes(t)' <=> Completes(t)
       /\ Fails(t)' <=> Fails(t)
       /\ FailsStart(t)' <=> FailsStart(t)
  BY <1>3 DEF Starts, Completes, Fails, FailsStart
<1>12. Counted(t)'
  <2>1. Owners(t)' = Owners(t) \cup {q} /\ q \notin Owners(t)
    BY <1>5, <1>8, <1>9 DEF Owners, IsOwner
  <2>2. Cardinality(Owners(t)') = Cardinality(Owners(t)) + 1
    BY <2>1, OwnersFinite, FS_AddElement
  <2>3. HasResult(t)' <=> HasResult(t)
    BY <1>5, <1>6, <1>8, <1>9 DEF HasResult, IsSharer
  <2>4. (HasNotifier(t)' <=> HasNotifier(t)) /\ (HasPointer(t)' <=> HasPointer(t))
    BY <1>6, <1>8, <1>11 DEF HasNotifier, HasPointer
  <2> QED
    BY <1>2, <1>6, <1>8, <2>2, <2>3, <2>4 DEF Counted, One
<1>13. LoadOK(t)'
  BY <1>2, <1>6, <1>8, <1>11 DEF LoadOK
<1>14. LifeOK(t)'
  BY <1>2, <1>3, <1>6, <1>7, <1>8 DEF LifeOK
<1>15. ASSUME NEW y \in Threads, thread'[y].of = t
       PROVE  ThreadOK(y, t)'
  <2>1. thread'[y] = thread[y] /\ ThreadOK(y, t)
    BY <1>3, <1>15 DEF RMInv, TrackerOK
  <2>2. thread[y].at \in StartAt => thread[y].for # q
    BY <1>9, <2>1, ResourceManagerAssumption DEF ThreadOK
  <2>3. thread[y].at # "delete"
    BY <1>1, <2>1 DEF ThreadOK
  <2> QED
    BY <1>3, <1>6, <1>8, <2>1, <2>2, <2>3 DEF ThreadOK
<1> QED
  BY <1>10, <1>12, <1>13, <1>14, <1>15, StepKeeps

LEMMA RegisterOK ==
  ASSUME RMInv, NEW x \in Threads, NEW k \in Keys, NEW q \in Requests, NEW t \in Trackers,
         Register(x, k, q, t)
  PROVE  RMInv'
<1> DEFINE r2 == [of |-> t, future |-> "load", job |-> "none"]
           s2 == [NotMade EXCEPT !.life = "live", !.refs = 2, !.pending = TRUE, !.future = "waiting"]
           v == [At("start", t) EXCEPT !.for = q]
<1>1. /\ request' = [request EXCEPT ![q] = r2] /\ request[q] = Unanswered
      /\ tracker' = [tracker EXCEPT ![t] = s2] /\ tracker[t] = NotMade
      /\ map' = [map EXCEPT ![k] = t] /\ map[k] = NoTracker
      /\ thread' = [thread EXCEPT ![x] = v] /\ thread[x].at = "idle"
  BY DEF Register, IsIdle
<1>2. /\ Types /\ Counted(t) /\ LoadOK(t) /\ LifeOK(t) /\ Cardinality(Owners(t)) \in Nat
  BY AtHand
<1>3. /\ NotMade.life = "unused" /\ NotMade.refs = 0
      /\ s2 \in TrackerRecord /\ s2.life = "live" /\ s2.refs = 2 /\ s2.pending
      /\ s2.future = "waiting" /\ s2.signaled = "none" /\ s2.load = "none" /\ ~s2.loading
      /\ s2.completing = "none"
  BY DEF NotMade, TrackerRecord
<1>4. /\ r2 \in RequestRecord /\ r2.of = t /\ r2.future = "load" /\ r2.job = "none"
  BY DEF RequestRecord
<1>5. v \in ThreadRecord /\ v.of = t /\ v.at = "start" /\ v.for = q
  BY DEF At, Idle, ThreadRecord, BusyAt, StartAt
<1> HIDE DEF s2, r2, v
<1>6. /\ tracker'[t] = s2
      /\ \A p \in Requests : request'[p] = IF p = q THEN r2 ELSE request[p]
      /\ \A y \in Threads : thread'[y] = IF y = x THEN v ELSE thread[y]
  BY <1>1, <1>2 DEF Types
<1>7. request[q].of = NoTracker /\ request[q].future = "none"
  BY <1>1 DEF Unanswered
<1>8. \A y \in Threads : thread[y].of # t
  BY <1>1, <1>2, <1>3 DEF LifeOK
<1>9. Alone(x, t)
  BY <1>8 DEF Alone
<1>10. thread[x].of = NoTracker
  BY <1>1, <1>2 DEF Types
<1>11. Types' /\ Concerns(t)
  <2>1. Types'
    BY <1>1, <1>2, <1>3, <1>4, <1>5, <1>6, ResourceManagerAssumption DEF Types
  <2>2. Concerns(t)
    BY <1>1, <1>2, <1>4, <1>5, <1>6, <1>7, <1>10, ResourceManagerAssumption DEF Types, Concerns
  <2> QED
    BY <2>1, <2>2
<1>12. Starts(t)' /\ ~Fails(t)' /\ ~FailsStart(t)' /\ ~Completes(t)'
  BY <1>1, <1>2, <1>5, <1>9, BusyAfter DEF StartAt, CompleteAt, FailAt
<1>13. Counted(t)'
  <2>1. Owners(t)' = Owners(t)
    BY <1>4, <1>6, <1>7 DEF Owners, IsOwner
  <2>2. Cardinality(Owners(t)) = 0
    BY <1>1, <1>2, <1>3 DEF Counted, One
  <2>3. ~HasResult(t)' /\ HasNotifier(t)' /\ HasPointer(t)'
    BY <1>3, <1>6, <1>12 DEF HasResult, HasNotifier, HasPointer
  <2> QED
    BY <1>3, <1>6, <2>1, <2>2, <2>3 DEF Counted, One
<1>14. LoadOK(t)'
  BY <1>3, <1>6 DEF LoadOK
<1>15. LifeOK(t)'
  BY <1>3, <1>5, <1>6, <1>8 DEF LifeOK
<1>16. ASSUME NEW y \in Threads, thread'[y].of = t
       PROVE  ThreadOK(y, t)'
  <2>1. y = x
    BY <1>6, <1>8, <1>16
  <2> QED
    BY <1>3, <1>4, <1>5, <1>6, <2>1 DEF ThreadOK, StartAt, CompleteAt, FailAt
<1> QED
  BY <1>11, <1>13, <1>14, <1>15, <1>16, StepKeeps

(* A thread that has work is busy with a tracker.                          *)
LEMMA BusyThread ==
  ASSUME RMInv, NEW x \in Threads, thread[x].at \in BusyAt \cup ZeroAt
  PROVE  /\ thread[x].of \in Trackers
         /\ \A t \in Trackers : t = thread[x].of =>
              /\ ThreadOK(x, t) /\ tracker[t].life = "live"
              /\ thread[x].at \in BusyAt => Alone(x, t)
<1>1. thread[x] \in ThreadRecord /\ thread[x].at # "idle"
  BY DEF RMInv, Types, BusyAt, ZeroAt, StartAt, CompleteAt, FailAt
<1>2. thread[x].of \in Trackers
  BY <1>1, RecordFields DEF RMInv, Types, Idle
<1> QED
  BY <1>2, InUseIsLive, BusyAlone DEF RMInv, TrackerOK

LEMMA StartLoadOK ==
  ASSUME RMInv, NEW x \in Threads, StartLoad(x)
  PROVE  RMInv'
<1>1. thread[x].at = "start" /\ thread[x].at \in BusyAt /\ thread[x].at \in StartAt
  BY DEF StartLoad, BusyAt, StartAt
<1>2. PICK t \in Trackers : t = thread[x].of
  BY <1>1, BusyThread
<1> DEFINE s == tracker[t]
           s2 == [s EXCEPT !.refs = @ + 1, !.loading = TRUE, !.load = "running"]
           v == [thread[x] EXCEPT !.at = "started"]
<1>3. /\ tracker' = [tracker EXCEPT ![t] = s2] /\ thread' = [thread EXCEPT ![x] = v]
      /\ map' = map /\ request' = request
  BY <1>2 DEF StartLoad
<1>4. /\ Types /\ Counted(t) /\ LoadOK(t) /\ LifeOK(t)
      /\ s \in TrackerRecord /\ s.refs \in Nat /\ Cardinality(Owners(t)) \in Nat
  BY AtHand
<1>5. ThreadOK(x, t) /\ s.life = "live" /\ Alone(x, t)
  BY <1>1, <1>2, BusyThread
<1>6. s.load = "none" /\ s.completing = "none" /\ s.future = "waiting" /\ ~s.loading
  BY <1>1, <1>4, <1>5 DEF ThreadOK, LoadOK
<1>7. /\ s2 \in TrackerRecord /\ s2.refs = s.refs + 1 /\ s2.loading /\ s2.load = "running"
      /\ s2.life = "live" /\ s2.completing = "none" /\ s2.future = "waiting"
      /\ s2.pending = s.pending /\ s2.signaled = s.signaled
  <2>1. s.refs + 1 \in Nat
    BY <1>4
  <2>2. s2 \in TrackerRecord
    BY <1>4, <2>1 DEF TrackerRecord
  <2> QED
    BY <1>4, <1>5, <1>6, <2>2 DEF TrackerRecord
<1>8. /\ v \in ThreadRecord /\ v.at = "started" /\ v.of = t /\ v.for = thread[x].for
      /\ v.at \in BusyAt /\ v.at \in StartAt /\ v.at \notin ZeroAt
      /\ v.at \notin CompleteAt /\ v.at \notin FailAt
  BY <1>2, <1>4 DEF Types, ThreadRecord, BusyAt, ZeroAt, StartAt, CompleteAt, FailAt
<1> HIDE DEF s2, v
<1>9. tracker'[t] = s2 /\ \A y \in Threads : thread'[y] = IF y = x THEN v ELSE thread[y]
  BY <1>3, <1>4 DEF Types
<1>10. Types' /\ Concerns(t)
  BY <1>2, <1>3, <1>4, <1>7, <1>8, <1>9, ResourceManagerAssumption DEF Types, Concerns
<1>11. Starts(t) /\ ~Fails(t) /\ ~FailsStart(t) /\ ~Completes(t)
  BY <1>1, <1>2, <1>5, BusyBefore DEF StartAt, CompleteAt, FailAt
<1>12. Starts(t)' /\ ~Fails(t)' /\ ~FailsStart(t)' /\ ~Completes(t)'
  BY <1>3, <1>4, <1>5, <1>8, BusyAfter
<1>13. Counted(t)'
  <2>1. Owners(t)' = Owners(t)
    BY <1>3 DEF Owners, IsOwner
  <2>2. ~HasResult(t) /\ HasNotifier(t) /\ HasPointer(t)
    BY <1>6, <1>11 DEF HasResult, HasNotifier, HasPointer
  <2>3. ~HasResult(t)' /\ HasNotifier(t)' /\ HasPointer(t)'
    BY <1>7, <1>9, <1>12 DEF HasResult, HasNotifier, HasPointer
  <2> QED
    BY <1>4, <1>6, <1>7, <1>9, <2>1, <2>2, <2>3 DEF Counted, One
<1>14. LoadOK(t)'
  BY <1>4, <1>6, <1>7, <1>9, <1>12 DEF LoadOK
<1>15. LifeOK(t)'
  <2>1. s2.refs # 0
    BY <1>4, <1>7
  <2> QED
    BY <1>3, <1>4, <1>5, <1>7, <1>8, <1>9, <2>1, LifeAfter, ZenonT(30)
<1>16. ASSUME NEW y \in Threads, thread'[y].of = t
       PROVE  ThreadOK(y, t)'
  <2>1. CASE y = x
    BY <1>1, <1>3, <1>5, <1>7, <1>8, <1>9, <2>1 DEF ThreadOK
  <2>2. CASE y # x
    <3>1. thread'[y] = thread[y] /\ ThreadOK(y, t) /\ thread[y].at \notin BusyAt
      BY <1>5, <1>9, <1>16, <2>2 DEF RMInv, TrackerOK, Alone
    <3>2. thread[y].at # "delete"
      <4>1. HasNotifier(t)
        BY <1>11 DEF HasNotifier
      <4> QED
        BY <1>4, <3>1, <4>1 DEF ThreadOK, Counted, One
    <3> QED
      BY <1>3, <3>1, <3>2 DEF ThreadOK, BusyAt, StartAt, CompleteAt, FailAt
  <2> QED
    BY <2>1, <2>2
<1> QED
  BY <1>10, <1>13, <1>14, <1>15, <1>16, StepKeeps

LEMMA StartFailsOK ==
  ASSUME RMInv, NEW x \in Threads, StartFails(x)
  PROVE  RMInv'
<1>1. thread[x].at = "start" /\ thread[x].at \in BusyAt /\ thread[x].at \in StartAt
  BY DEF StartFails, BusyAt, StartAt
<1>2. PICK t \in Trackers : t = thread[x].of
  BY <1>1, BusyThread
<1> DEFINE s == tracker[t]
           q == thread[x].for
           v == [At("fail", t) EXCEPT !.extra = 1]
<1>3. /\ request' = [request EXCEPT ![q] = Unanswered] /\ thread' = [thread EXCEPT ![x] = v]
      /\ map' = map /\ tracker' = tracker
  BY <1>2 DEF StartFails
<1>4. /\ Types /\ Counted(t) /\ LoadOK(t) /\ LifeOK(t)
      /\ s \in TrackerRecord /\ s.refs \in Nat /\ Cardinality(Owners(t)) \in Nat
  BY AtHand
<1>5. ThreadOK(x, t) /\ s.life = "live" /\ Alone(x, t)
  BY <1>1, <1>2, BusyThread
<1>6. /\ s.load = "none" /\ s.completing = "none" /\ s.future = "waiting"
      /\ q \in Requests /\ request[q].of = t /\ request[q].future = "load"
  BY <1>1, <1>5 DEF ThreadOK
<1>7. /\ v \in ThreadRecord /\ v.at = "fail" /\ v.of = t /\ v.extra = 1
      /\ v.at \in BusyAt /\ v.at \notin StartAt /\ v.at \notin ZeroAt
      /\ v.at \notin CompleteAt /\ v.at \in FailAt
  BY DEF At, Idle, ThreadRecord, BusyAt, ZeroAt, StartAt, CompleteAt, FailAt
<1>8. Unanswered \in RequestRecord /\ Unanswered.of = NoTracker /\ Unanswered.future = "none"
  BY DEF Unanswered, RequestRecord
<1> HIDE DEF v
<1>9. /\ \A y \in Threads : thread'[y] = IF y = x THEN v ELSE thread[y]
      /\ \A p \in Requests : request'[p] = IF p = q THEN Unanswered ELSE request[p]
  BY <1>3, <1>4 DEF Types
<1>10. Types' /\ Concerns(t)
  BY <1>2, <1>3, <1>4, <1>6, <1>7, <1>8, <1>9, ResourceManagerAssumption DEF Types, Concerns
<1>11. Starts(t) /\ ~Fails(t) /\ ~FailsStart(t) /\ ~Completes(t)
  BY <1>1, <1>2, <1>5, BusyBefore DEF StartAt, CompleteAt, FailAt
<1>12. ~Starts(t)' /\ Fails(t)' /\ FailsStart(t)' /\ ~Completes(t)'
  BY <1>3, <1>4, <1>5, <1>7, BusyAfter
<1>13. Counted(t)'
  <2>1. Owners(t)' = Owners(t)
    BY <1>6, <1>8, <1>9 DEF Owners, IsOwner
  <2>2. ~HasResult(t) /\ HasNotifier(t) /\ HasPointer(t)
    BY <1>6, <1>11 DEF HasResult, HasNotifier, HasPointer
  <2>3. ~HasResult(t)' /\ HasNotifier(t)' /\ HasPointer(t)'
    BY <1>3, <1>6, <1>12 DEF HasResult, HasNotifier, HasPointer
  <2> QED
    BY <1>3, <1>4, <2>1, <2>2, <2>3 DEF Counted, One
<1>14. LoadOK(t)'
  BY <1>3, <1>4, <1>6, <1>12 DEF LoadOK
<1>15. LifeOK(t)'
  <2>1. s.refs # 0
    BY <1>4, <1>11 DEF Counted, HasNotifier, One
  <2> QED
    BY <1>3, <1>4, <1>5, <1>7, <2>1, LifeAfter
<1>16. ASSUME NEW y \in Threads, thread'[y].of = t
       PROVE  ThreadOK(y, t)'
  <2>1. CASE y = x
    BY <1>3, <1>6, <1>7, <1>9, <2>1 DEF ThreadOK
  <2>2. CASE y # x
    <3>1. thread'[y] = thread[y] /\ ThreadOK(y, t) /\ thread[y].at \notin BusyAt
      BY <1>5, <1>9, <1>16, <2>2 DEF RMInv, TrackerOK, Alone
    <3> QED
      BY <1>3, <3>1 DEF ThreadOK, BusyAt, StartAt, CompleteAt, FailAt
  <2> QED
    BY <2>1, <2>2
<1> QED
  BY <1>10, <1>13, <1>14, <1>15, <1>16, StepKeeps

LEMMA CreateCompletionOK ==
  ASSUME RMInv, ~DropsWhileZeroing, NEW x \in Threads, NEW wantsJob \in BOOLEAN,
         CreateCompletion(x, wantsJob)
  PROVE  RMInv'
<1>1. thread[x].at = "started" /\ thread[x].at \in BusyAt /\ thread[x].at \in StartAt
  BY DEF CreateCompletion, BusyAt, StartAt
<1>2. PICK t \in Trackers : t = thread[x].of
  BY <1>1, BusyThread
<1> DEFINE s == tracker[t]
           q == thread[x].for
           c == IF s.load = "running" THEN "waiting"
                ELSE IF s.load = "ok" \/ RunsIfFailed THEN "runnable" ELSE "aborted"
           s2 == [s EXCEPT !.refs = @ - 1, !.completing = c]
           j == IF wantsJob THEN "completing" ELSE "none"
           r2 == [request[q] EXCEPT !.job = j]
<1>3. request' = [request EXCEPT ![q] = r2] /\ map' = map /\ Releases(x, t, 1)
  BY <1>2 DEF CreateCompletion
<1>4. /\ Types /\ Counted(t) /\ LoadOK(t) /\ LifeOK(t)
      /\ s \in TrackerRecord /\ s.refs \in Nat /\ Cardinality(Owners(t)) \in Nat
  BY AtHand
<1>5. ThreadOK(x, t) /\ s.life = "live" /\ Alone(x, t)
  BY <1>1, <1>2, BusyThread
<1>6. /\ s.load # "none" /\ s.completing = "none" /\ s.future = "waiting"
      /\ q \in Requests /\ request[q].of = t /\ request[q].future = "load"
  BY <1>1, <1>5 DEF ThreadOK
<1>7. Starts(t) /\ ~Fails(t) /\ ~FailsStart(t) /\ ~Completes(t)
  BY <1>1, <1>2, <1>5, BusyBefore DEF StartAt, CompleteAt, FailAt
<1>7a. tracker' = [tracker EXCEPT ![t] = s2]
  <2>1. s.load \in {"running", "ok", "failed"}
    BY <1>4, <1>6, RecordFields
  <2>2. CASE s.load = "running"
    BY <1>2, <2>2 DEF CreateCompletion
  <2>3. CASE s.load = "ok"
    BY <1>2, <2>3 DEF CreateCompletion
  <2>4. CASE s.load = "failed"
    BY <1>2, <2>4 DEF CreateCompletion
  <2> QED
    BY <2>1, <2>2, <2>3, <2>4
<1>8. ~HasResult(t) /\ HasNotifier(t) /\ HasPointer(t)
  BY <1>6, <1>7 DEF HasResult, HasNotifier, HasPointer
<1>9. s.refs >= 2
  BY <1>4, <1>8 DEF Counted, One
<1>10. PICK v \in ThreadRecord :
         thread' = [thread EXCEPT ![x] = v] /\ v = Idle /\ v.of = NoTracker /\ v.at = "idle"
  BY <1>3, <1>9, Released
<1>11. c \in {"waiting", "runnable", "aborted"} /\ (s.load = "running" => c = "waiting")
  BY <1>4, <1>6, RecordFields
<1>12. /\ s2 \in TrackerRecord /\ s2.refs = s.refs - 1 /\ s2.completing = c
       /\ s2.life = "live" /\ s2.load = s.load /\ s2.loading = s.loading /\ s2.future = "waiting"
       /\ s2.pending = s.pending /\ s2.signaled = s.signaled
  <2>1. s.refs - 1 \in Nat
    BY <1>4, <1>9
  <2> HIDE DEF c
  <2> QED
    BY <1>4, <1>5, <1>6, <1>11, <2>1 DEF TrackerRecord
<1>13. r2 \in RequestRecord /\ r2.of = t /\ r2.future = "load"
  <2>1. j \in {"none", "completing"}
    OBVIOUS
  <2> HIDE DEF j
  <2> QED
    BY <1>4, <1>6, <2>1 DEF Types, RequestRecord
<1> HIDE DEF s2, r2, c, j
<1>14. /\ tracker'[t] = s2
       /\ \A y \in Threads : thread'[y] = IF y = x THEN v ELSE thread[y]
       /\ \A p \in Requests : request'[p] = IF p = q THEN r2 ELSE request[p]
  BY <1>3, <1>4, <1>10, <1>7a DEF Types
<1>15. Types' /\ Concerns(t)
  BY <1>2, <1>3, <1>4, <1>6, <1>10, <1>12, <1>13, <1>14, <1>7a, ResourceManagerAssumption
     DEF Types, Concerns
<1>16. ~Starts(t)' /\ ~Fails(t)' /\ ~FailsStart(t)' /\ ~Completes(t)'
  BY <1>4, <1>5, <1>10, BusyAfter, ResourceManagerAssumption, ZenonT(30)
<1>17. Counted(t)'
  <2>1. Owners(t)' = Owners(t)
    BY <1>6, <1>13, <1>14 DEF Owners, IsOwner
  <2>2. ~HasResult(t)' /\ HasNotifier(t)' /\ ~HasPointer(t)'
    BY <1>11, <1>12, <1>14, <1>16 DEF HasResult, HasNotifier, HasPointer
  <2> QED
    BY <1>4, <1>8, <1>12, <1>14, <2>1, <2>2 DEF Counted, One
<1>18. LoadOK(t)'
  BY <1>4, <1>6, <1>11, <1>12, <1>14 DEF LoadOK
<1>19. LifeOK(t)'
  <2>1. s2.refs # 0
    BY <1>9, <1>12
  <2> QED
    BY <1>4, <1>5, <1>10, <1>12, <1>14, <2>1, LifeAfter, ResourceManagerAssumption
<1>20. ASSUME NEW y \in Threads, thread'[y].of = t
       PROVE  ThreadOK(y, t)'
  <2>1. thread'[y] = thread[y] /\ ThreadOK(y, t) /\ thread[y].at \notin BusyAt
    BY <1>5, <1>10, <1>14, <1>20, ResourceManagerAssumption DEF RMInv, TrackerOK, Alone
  <2> QED
    BY <1>3, <1>9, <2>1 DEF ThreadOK, BusyAt, StartAt, CompleteAt, FailAt
<1> QED
  BY <1>15, <1>17, <1>18, <1>19, <1>20, StepKeeps

-----------------------------------------------------------------------------
(* SucceedLoading and OnLoadCompleted.                                     *)

(* While a completion waits to be run or destroyed nobody is busy.         *)
LEMMA NobodyBusy ==
  ASSUME RMInv, NEW t \in Trackers, tracker[t].completing \in {"runnable", "aborted"}
  PROVE  /\ \A x \in Threads : thread[x].of = t => thread[x].at \notin BusyAt
         /\ ~Starts(t) /\ ~Completes(t) /\ ~Fails(t) /\ ~FailsStart(t)
<1>1. \A x \in Threads : thread[x].of = t => thread[x].at \notin BusyAt
  BY DEF RMInv, TrackerOK, ThreadOK, BusyAt
<1> QED
  BY <1>1 DEF Starts, Completes, Fails, FailsStart, BusyAt

LEMMA RunCompletionOK ==
  ASSUME RMInv, NEW x \in Threads, NEW t \in Trackers, RunCompletion(x, t)
  PROVE  RMInv'
<1> DEFINE s == tracker[t]
           s2 == [s EXCEPT !.pending = FALSE, !.signaler = FALSE, !.refs = @ + 1,
                           !.completing = "running"]
           v == [At("complete", t) EXCEPT !.signals = s.signaler]
<1>1. /\ tracker' = [tracker EXCEPT ![t] = s2] /\ thread' = [thread EXCEPT ![x] = v]
      /\ map' = map /\ request' = request
      /\ thread[x].at = "idle" /\ s.completing = "runnable"
  <2>1. tracker' = [[tracker EXCEPT ![t].pending = FALSE, ![t].signaler = FALSE, ![t].refs = @ + 1]
                      EXCEPT ![t].completing = "running"]
    BY DEF RunCompletion, TakesSignaler
  <2>2. tracker' = [tracker EXCEPT ![t] = s2]
    BY <2>1 DEF RMInv, Types
  <2> QED
    BY <2>2 DEF RunCompletion, IsIdle
<1>2. /\ Types /\ Counted(t) /\ LoadOK(t) /\ LifeOK(t)
      /\ s \in TrackerRecord /\ s.refs \in Nat /\ Cardinality(Owners(t)) \in Nat
  BY AtHand
<1>3. s.future = "waiting" /\ HasNotifier(t)
  BY <1>1, <1>2 DEF LoadOK, HasNotifier
<1>4. s.refs >= 1
  BY <1>2, <1>3 DEF Counted, One
<1>5. s.life = "live"
  BY <1>2, <1>4, InUseIsLive
<1>6. Alone(x, t) /\ ~Starts(t) /\ ~Completes(t) /\ ~Fails(t) /\ ~FailsStart(t)
  BY <1>1, NobodyBusy DEF Alone
<1>7. /\ s2 \in TrackerRecord /\ s2.refs = s.refs + 1 /\ ~s2.pending /\ s2.completing = "running"
      /\ s2.life = "live" /\ s2.load = s.load /\ s2.loading = s.loading
      /\ s2.future = "waiting" /\ s2.signaled = s.signaled
  <2>1. s.refs + 1 \in Nat
    BY <1>2
  <2>2. s2 \in TrackerRecord
    BY <1>2, <2>1 DEF TrackerRecord
  <2> QED
    BY <1>2, <1>3, <1>5, <2>2 DEF TrackerRecord
<1>8. /\ v \in ThreadRecord /\ v.at = "complete" /\ v.of = t
      /\ v.at \in BusyAt /\ v.at \notin StartAt /\ v.at \notin ZeroAt
      /\ v.at \in CompleteAt /\ v.at \notin FailAt
  <2>1. s.signaler \in BOOLEAN
    BY <1>2, RecordFields
  <2> QED
    BY <2>1 DEF At, Idle, ThreadRecord, BusyAt, ZeroAt, StartAt, CompleteAt, FailAt
<1> HIDE DEF s2, v
<1>9. tracker'[t] = s2 /\ \A y \in Threads : thread'[y] = IF y = x THEN v ELSE thread[y]
  BY <1>1, <1>2 DEF Types
<1>10. thread[x].of = NoTracker
  BY <1>1, <1>2 DEF Types
<1>11. Types' /\ Concerns(t)
  BY <1>1, <1>2, <1>7, <1>8, <1>9, <1>10, ResourceManagerAssumption DEF Types, Concerns
<1>12. ~Starts(t)' /\ ~Fails(t)' /\ ~FailsStart(t)' /\ Completes(t)'
  BY <1>1, <1>2, <1>6, <1>8, BusyAfter
<1>13. Counted(t)'
  <2>1. Owners(t)' = Owners(t)
    BY <1>1 DEF Owners, IsOwner
  <2>2. ~HasResult(t) /\ ~HasPointer(t)
    BY <1>1, <1>3, <1>6 DEF HasResult, HasPointer
  <2>3. HasResult(t)' /\ HasNotifier(t)' /\ ~HasPointer(t)'
    BY <1>7, <1>9, <1>12 DEF HasResult, HasNotifier, HasPointer
  <2> QED
    BY <1>2, <1>3, <1>7, <1>9, <2>1, <2>2, <2>3 DEF Counted, One
<1>14. LoadOK(t)'
  BY <1>1, <1>2, <1>6, <1>7, <1>9, <1>12 DEF LoadOK
<1>15. LifeOK(t)'
  <2>1. s2.refs # 0
    BY <1>2, <1>7
  <2> QED
    BY <1>1, <1>2, <1>6, <1>7, <1>8, <1>9, <2>1, LifeAfter, ZenonT(30)
<1>16. ASSUME NEW y \in Threads, thread'[y].of = t
       PROVE  ThreadOK(y, t)'
  <2>1. CASE y = x
    BY <1>7, <1>8, <1>9, <2>1 DEF ThreadOK, FailAt
  <2>2. CASE y # x
    <3>1. thread'[y] = thread[y] /\ ThreadOK(y, t) /\ thread[y].at \notin BusyAt
      BY <1>6, <1>9, <1>16, <2>2 DEF RMInv, TrackerOK, Alone
    <3> QED
      BY <1>4, <3>1 DEF ThreadOK, BusyAt, StartAt, CompleteAt, FailAt
  <2> QED
    BY <2>1, <2>2
<1> QED
  BY <1>11, <1>13, <1>14, <1>15, <1>16, StepKeeps

(* A thread that completes or fails a load stores a state, of the future   *)
(* or of the signaled job, and goes on.                                    *)
LEMMA SettlingKeeps ==
  ASSUME RMInv, NEW x \in Threads, NEW t \in Trackers, t = thread[x].of,
         NEW s2 \in TrackerRecord, NEW v \in ThreadRecord,
         tracker' = [tracker EXCEPT ![t] = s2], thread' = [thread EXCEPT ![x] = v],
         map' = map, request' = request,
         v.of = t, v.extra = thread[x].extra,
         \/ thread[x].at \in CompleteAt /\ v.at \in CompleteAt
         \/ thread[x].at \in FailAt /\ v.at \in FailAt,
         s2.refs = tracker[t].refs, s2.life = tracker[t].life, s2.load = tracker[t].load,
         s2.loading = tracker[t].loading, s2.completing = tracker[t].completing,
         s2.future = "completed" <=> tracker[t].future = "completed" \/ v.at = "completed",
         ~s2.pending,
         s2.completing = "done" => s2.future = "completed",
         s2.signaled = "done" => s2.future = "completed",
         s2.signaled = "failed" => s2.future = "failed",
         v.at = "failing" => s2.future = "waiting",
         v.at \in {"completed", "loaded"} => s2.future = "completed",
         v.at \in {"failed", "notified"} => s2.future = "failed",
         v.at \notin {"complete", "fail"}
  PROVE  RMInv'
<1> DEFINE s == tracker[t]
<1>1. /\ Types /\ Counted(t) /\ LoadOK(t) /\ LifeOK(t)
      /\ s \in TrackerRecord /\ s.refs \in Nat /\ Cardinality(Owners(t)) \in Nat
  BY AtHand
<1>2. thread[x].at \in BusyAt /\ thread[x].at \notin StartAt /\ v.at \notin StartAt /\ v.at \in BusyAt
      /\ v.at \notin ZeroAt /\ (v.at \in CompleteAt <=> thread[x].at \in CompleteAt)
      /\ (v.at \in FailAt <=> thread[x].at \in FailAt)
  BY DEF BusyAt, ZeroAt, StartAt, CompleteAt, FailAt
<1>3. ThreadOK(x, t) /\ s.life = "live" /\ Alone(x, t)
  BY <1>2, BusyThread
<1>4. tracker'[t] = s2 /\ \A y \in Threads : thread'[y] = IF y = x THEN v ELSE thread[y]
  BY <1>1 DEF Types
<1>5. Types' /\ Concerns(t)
  BY <1>1, <1>2, <1>4, ResourceManagerAssumption DEF Types, Concerns, BusyAt, StartAt, CompleteAt, FailAt
<1>6. /\ Starts(t)' <=> Starts(t)
      /\ Completes(t)' <=> Completes(t)
      /\ Fails(t)' <=> Fails(t)
      /\ FailsStart(t)' <=> FailsStart(t)
  <2>1. /\ Starts(t) <=> thread[x].at \in StartAt
        /\ Completes(t) <=> thread[x].at \in CompleteAt
        /\ Fails(t) <=> thread[x].at \in FailAt
        /\ FailsStart(t) <=> thread[x].at \in FailAt /\ thread[x].extra = 1
    BY <1>3, BusyBefore
  <2>2. /\ Starts(t)' <=> v.at \in StartAt
        /\ Completes(t)' <=> v.at \in CompleteAt
        /\ Fails(t)' <=> v.at \in FailAt
        /\ FailsStart(t)' <=> v.at \in FailAt /\ v.extra = 1
    BY <1>1, <1>3, BusyAfter
  <2> QED
    BY <1>2, <2>1, <2>2
<1>7. HasResult(t)' <=> HasResult(t)
  <2>1. v.at = "completed" => s.completing = "running"
    BY <1>2, <1>3 DEF ThreadOK, CompleteAt
  <2> QED
    BY <1>4, <2>1 DEF HasResult, IsSharer
<1>8. (HasNotifier(t)' <=> HasNotifier(t)) /\ (HasPointer(t)' <=> HasPointer(t)) /\ HasNotifier(t)
  <2>1. thread[x].at \in CompleteAt => s.completing = "running"
    BY <1>3 DEF ThreadOK
  <2>2. thread[x].at \in FailAt => Fails(t)
    BY DEF Fails
  <2> QED
    BY <1>4, <1>6, <2>1, <2>2 DEF HasNotifier, HasPointer
<1>9. Counted(t)'
  <2>1. Owners(t)' = Owners(t)
    BY DEF Owners, IsOwner
  <2> QED
    BY <1>1, <1>4, <1>7, <1>8, <2>1 DEF Counted, One
<1>10. s.refs # 0
  BY <1>1, <1>8 DEF Counted, One
<1>11. LoadOK(t)'
  <2>1. s2.completing \notin {"waiting", "runnable", "aborted"}
    BY <1>2, <1>3 DEF ThreadOK
  <2> QED
    BY <1>1, <1>4, <1>6, <2>1 DEF LoadOK
<1>12. LifeOK(t)'
  BY <1>1, <1>2, <1>3, <1>4, <1>10, LifeAfter
<1>13. ASSUME NEW y \in Threads, thread'[y].of = t
       PROVE  ThreadOK(y, t)'
  <2>1. CASE y = x
    BY <1>2, <1>3, <1>4, <2>1 DEF ThreadOK, ZeroAt, StartAt
  <2>2. CASE y # x
    <3>1. thread'[y] = thread[y] /\ ThreadOK(y, t) /\ thread[y].at \notin BusyAt
      BY <1>3, <1>4, <1>13, <2>2 DEF RMInv, TrackerOK, Alone
    <3> QED
      BY <1>10, <3>1 DEF ThreadOK, BusyAt, StartAt, CompleteAt, FailAt
  <2> QED
    BY <2>1, <2>2
<1> QED
  BY <1>5, <1>9, <1>11, <1>12, <1>13, StepKeeps

LEMMA CompleteOK ==
  ASSUME RMInv, NEW x \in Threads, Complete(x)
  PROVE  RMInv'
<1>1. thread[x].at = "complete" /\ thread[x].at \in BusyAt /\ thread[x].at \in CompleteAt
  BY DEF Complete, BusyAt, CompleteAt
<1>2. PICK t \in Trackers : t = thread[x].of
  BY <1>1, BusyThread
<1> DEFINE s == tracker[t]
           s2 == [s EXCEPT !.future = "completed"]
           v == [thread[x] EXCEPT !.at = "completed"]
<1>3. /\ tracker' = [tracker EXCEPT ![t] = s2] /\ thread' = [thread EXCEPT ![x] = v]
      /\ map' = map /\ request' = request
  BY <1>2 DEF Complete, SettlesFuture
<1>4. Types /\ LoadOK(t) /\ s \in TrackerRecord /\ ThreadOK(x, t)
  BY <1>1, <1>2, AtHand, BusyThread
<1>5. /\ s2 \in TrackerRecord /\ s2.refs = s.refs /\ s2.life = s.life /\ s2.load = s.load
      /\ s2.loading = s.loading /\ s2.completing = s.completing /\ s2.pending = s.pending
      /\ s2.future = "completed" /\ s2.signaled = s.signaled
  BY <1>4 DEF TrackerRecord
<1>6. /\ v \in ThreadRecord /\ v.at = "completed" /\ v.at \in CompleteAt /\ v.of = t
      /\ v.extra = thread[x].extra
  BY <1>2, <1>4 DEF Types, ThreadRecord, BusyAt, CompleteAt
<1> HIDE DEF s2, v
<1>7. s.future = "waiting" /\ ~s.pending /\ s.signaled \notin {"done", "failed"}
  BY <1>1, <1>4 DEF ThreadOK, LoadOK
<1> QED
  BY <1>1, <1>2, <1>3, <1>5, <1>6, <1>7, SettlingKeeps

LEMMA CompleteSignalsOK ==
  ASSUME RMInv, NEW x \in Threads, CompleteSignals(x)
  PROVE  RMInv'
<1>1. thread[x].at = "completed" /\ thread[x].at \in BusyAt /\ thread[x].at \in CompleteAt
  BY DEF CompleteSignals, BusyAt, CompleteAt
<1>2. PICK t \in Trackers : t = thread[x].of
  BY <1>1, BusyThread
<1> DEFINE s == tracker[t]
           d == IF thread[x].signals THEN "done" ELSE s.signaled
           s2 == [s EXCEPT !.signaled = d]
           v == [thread[x] EXCEPT !.at = "loaded"]
<1>3. Types /\ LoadOK(t) /\ s \in TrackerRecord /\ ThreadOK(x, t)
  BY <1>1, <1>2, AtHand, BusyThread
<1>4. d \in {"none", "waiting", "done", "failed"} /\ d \in {"done", s.signaled}
  BY <1>3, RecordFields
<1>5. /\ s2 \in TrackerRecord /\ s2.refs = s.refs /\ s2.life = s.life /\ s2.load = s.load
      /\ s2.loading = s.loading /\ s2.completing = s.completing /\ s2.pending = s.pending
      /\ s2.future = s.future /\ s2.signaled = d
  <2> HIDE DEF d
  <2> QED
    BY <1>3, <1>4 DEF TrackerRecord
<1>6. /\ v \in ThreadRecord /\ v.at = "loaded" /\ v.at \in CompleteAt /\ v.of = t
      /\ v.extra = thread[x].extra
  BY <1>2, <1>3 DEF Types, ThreadRecord, BusyAt, CompleteAt
<1>7. /\ tracker' = [tracker EXCEPT ![t] = s2] /\ thread' = [thread EXCEPT ![x] = v]
      /\ map' = map /\ request' = request
  <2>1. CASE thread[x].signals
    BY <1>2, <2>1 DEF CompleteSignals, Signals
  <2>2. CASE ~thread[x].signals
    <3>1. s2 = s
      BY <1>3, <2>2 DEF TrackerRecord
    <3> QED
      BY <1>2, <1>3, <2>2, <3>1 DEF CompleteSignals, Signals, Types
  <2> QED
    BY <2>1, <2>2
<1> HIDE DEF s2, v, d
<1>8. s.future = "completed" /\ ~s.pending /\ s.signaled # "failed"
  BY <1>1, <1>3 DEF ThreadOK, LoadOK, CompleteAt
<1> QED
  BY <1>1, <1>2, <1>4, <1>5, <1>6, <1>7, <1>8, SettlingKeeps

LEMMA CompletionEndsOK ==
  ASSUME RMInv, ~DropsWhileZeroing, NEW x \in Threads, CompletionEnds(x)
  PROVE  RMInv'
<1>1. thread[x].at = "loaded" /\ thread[x].at \in BusyAt /\ thread[x].at \in CompleteAt
  BY DEF CompletionEnds, BusyAt, CompleteAt
<1>2. PICK t \in Trackers : t = thread[x].of
  BY <1>1, BusyThread
<1>3. PICK n \in {1, 2} : n = IF Sharers(t) = {} THEN 2 ELSE 1
  OBVIOUS
<1> DEFINE s == tracker[t]
           s2 == [s EXCEPT !.refs = @ - n, !.completing = "done"]
<1>4. /\ tracker' = [tracker EXCEPT ![t] = s2] /\ map' = map /\ request' = request
      /\ Releases(x, t, n)
  BY <1>2, <1>3 DEF CompletionEnds
<1>5. /\ Types /\ Counted(t) /\ LoadOK(t) /\ LifeOK(t)
      /\ s \in TrackerRecord /\ s.refs \in Nat /\ Cardinality(Owners(t)) \in Nat
  BY AtHand
<1>6. ThreadOK(x, t) /\ s.life = "live" /\ Alone(x, t)
  BY <1>1, <1>2, BusyThread
<1>7. s.completing = "running" /\ s.future = "completed" /\ ~s.pending
  BY <1>1, <1>6 DEF ThreadOK, CompleteAt
<1>8. ~Starts(t) /\ ~Fails(t) /\ ~FailsStart(t)
  BY <1>1, <1>6, BusyBefore DEF StartAt, FailAt
<1>9. HasResult(t) /\ HasNotifier(t) /\ ~HasPointer(t)
  BY <1>7, <1>8 DEF HasResult, HasNotifier, HasPointer
<1>10. s.refs >= 2
  BY <1>5, <1>9 DEF Counted, One
<1>11. PICK v \in ThreadRecord :
         /\ thread' = [thread EXCEPT ![x] = v]
         /\ IF s.refs = n
            THEN /\ v = At("zero", t) /\ v.of = t /\ v.at = "zero"
                 /\ \A y \in Threads : thread[y].of = t => thread[y].at \notin ZeroAt
            ELSE v = Idle /\ v.of = NoTracker /\ v.at = "idle"
  <2>1. n > 0
    OBVIOUS
  <2> QED
    BY <1>4, <2>1, Released
<1>12. /\ s2 \in TrackerRecord /\ s2.refs = s.refs - n /\ s2.completing = "done"
       /\ s2.life = "live" /\ s2.load = s.load /\ s2.loading = s.loading
       /\ s2.future = "completed" /\ ~s2.pending /\ s2.signaled = s.signaled
  <2>1. s.refs - n \in Nat
    BY <1>5, <1>10
  <2>2. s2 \in TrackerRecord
    BY <1>5, <2>1 DEF TrackerRecord
  <2> QED
    BY <1>5, <1>6, <1>7, <2>2 DEF TrackerRecord
<1> HIDE DEF s2
<1>13. tracker'[t] = s2 /\ \A y \in Threads : thread'[y] = IF y = x THEN v ELSE thread[y]
  BY <1>4, <1>5, <1>11 DEF Types
<1>14. v.at \notin BusyAt /\ v.at \in {"idle", "zero"} /\ (v.of = t \/ v = Idle)
  BY <1>11 DEF BusyAt, StartAt, CompleteAt, FailAt
<1>15. Types' /\ Concerns(t)
  BY <1>2, <1>4, <1>5, <1>11, <1>12, <1>13, ResourceManagerAssumption DEF Types, Concerns
<1>16. ~Starts(t)' /\ ~Fails(t)' /\ ~FailsStart(t)' /\ ~Completes(t)'
  BY <1>5, <1>6, <1>11, <1>14, BusyAfter DEF BusyAt
<1>17. Counted(t)'
  <2>1. Owners(t)' = Owners(t)
    BY <1>4 DEF Owners, IsOwner
  <2>2. HasResult(t)' <=> n = 1
    BY <1>3, <1>4, <1>12, <1>13 DEF HasResult, IsSharer, Sharers
  <2>3. ~HasNotifier(t)' /\ ~HasPointer(t)'
    BY <1>12, <1>13, <1>16 DEF HasNotifier, HasPointer
  <2> QED
    BY <1>5, <1>9, <1>12, <1>13, <2>1, <2>2, <2>3 DEF Counted, One
<1>18. LoadOK(t)'
  BY <1>5, <1>7, <1>8, <1>12, <1>13 DEF LoadOK
<1>19. LifeOK(t)'
  <2>1. s2.refs = 0 => v.of = t /\ v.at \in ZeroAt
    BY <1>5, <1>11, <1>12 DEF ZeroAt
  <2>2. v.at \in ZeroAt => \A y \in Threads : thread[y].of = t => thread[y].at \notin ZeroAt
    BY <1>11 DEF ZeroAt
  <2> QED
    BY <1>5, <1>11, <1>12, <1>13, <1>14, <2>1, <2>2, LifeAfter
<1>20. ASSUME NEW y \in Threads, thread'[y].of = t
       PROVE  ThreadOK(y, t)'
  <2>1. CASE y = x
    BY <1>13, <1>14, <2>1 DEF ThreadOK, StartAt, CompleteAt, FailAt
  <2>2. CASE y # x
    <3>1. thread'[y] = thread[y] /\ ThreadOK(y, t) /\ thread[y].at \notin BusyAt
      BY <1>6, <1>13, <1>20, <2>2 DEF RMInv, TrackerOK, Alone
    <3> QED
      BY <1>10, <3>1 DEF ThreadOK, BusyAt, StartAt, CompleteAt, FailAt
  <2> QED
    BY <2>1, <2>2
<1> QED
  BY <1>15, <1>17, <1>18, <1>19, <1>20, StepKeeps

-----------------------------------------------------------------------------
(* FailLoading.                                                            *)

LEMMA DestroyCompletionOK ==
  ASSUME RMInv, NEW x \in Threads, NEW t \in Trackers, DestroyCompletion(x, t)
  PROVE  RMInv'
<1> DEFINE s == tracker[t]
           s2 == [s EXCEPT !.completing = "gone"]
           v == At("fail", t)
<1>1. /\ tracker' = [tracker EXCEPT ![t] = s2] /\ thread' = [thread EXCEPT ![x] = v]
      /\ map' = map /\ request' = request
      /\ thread[x].at = "idle" /\ s.completing = "aborted"
  BY DEF DestroyCompletion, IsIdle
<1>2. /\ Types /\ Counted(t) /\ LoadOK(t) /\ LifeOK(t)
      /\ s \in TrackerRecord /\ s.refs \in Nat /\ Cardinality(Owners(t)) \in Nat
  BY AtHand
<1>3. s.future = "waiting" /\ HasNotifier(t)
  BY <1>1, <1>2 DEF LoadOK, HasNotifier
<1>4. s.refs >= 1
  BY <1>2, <1>3 DEF Counted, One
<1>5. s.life = "live"
  BY <1>2, <1>4, InUseIsLive
<1>6. Alone(x, t) /\ ~Starts(t) /\ ~Completes(t) /\ ~Fails(t) /\ ~FailsStart(t)
  BY <1>1, NobodyBusy DEF Alone
<1>7. /\ s2 \in TrackerRecord /\ s2.refs = s.refs /\ s2.pending = s.pending
      /\ s2.completing = "gone" /\ s2.life = "live" /\ s2.load = s.load
      /\ s2.loading = s.loading /\ s2.future = "waiting" /\ s2.signaled = s.signaled
  BY <1>2, <1>3, <1>5 DEF TrackerRecord
<1>8. /\ v \in ThreadRecord /\ v.at = "fail" /\ v.of = t /\ v.extra = 0
      /\ v.at \in BusyAt /\ v.at \notin StartAt /\ v.at \notin ZeroAt
      /\ v.at \notin CompleteAt /\ v.at \in FailAt
  BY DEF At, Idle, ThreadRecord, BusyAt, ZeroAt, StartAt, CompleteAt, FailAt
<1> HIDE DEF s2, v
<1>9. tracker'[t] = s2 /\ \A y \in Threads : thread'[y] = IF y = x THEN v ELSE thread[y]
  BY <1>1, <1>2 DEF Types
<1>10. thread[x].of = NoTracker
  BY <1>1, <1>2 DEF Types
<1>11. Types' /\ Concerns(t)
  BY <1>1, <1>2, <1>7, <1>8, <1>9, <1>10, ResourceManagerAssumption DEF Types, Concerns
<1>12. ~Starts(t)' /\ Fails(t)' /\ ~FailsStart(t)' /\ ~Completes(t)'
  <2>1. /\ Starts(t)' <=> v.at \in StartAt
        /\ Completes(t)' <=> v.at \in CompleteAt
        /\ Fails(t)' <=> v.at \in FailAt
        /\ FailsStart(t)' <=> v.at \in FailAt /\ v.extra = 1
    BY <1>1, <1>2, <1>6, <1>8, BusyAfter
  <2> QED
    BY <1>8, <2>1
<1>13. Counted(t)'
  <2>1. Owners(t)' = Owners(t)
    BY <1>1 DEF Owners, IsOwner
  <2>2. ~HasResult(t) /\ ~HasPointer(t)
    BY <1>1, <1>3, <1>6 DEF HasResult, HasPointer
  <2>3. ~HasResult(t)' /\ HasNotifier(t)' /\ ~HasPointer(t)'
    BY <1>7, <1>9, <1>12 DEF HasResult, HasNotifier, HasPointer
  <2> QED
    BY <1>2, <1>3, <1>7, <1>9, <2>1, <2>2, <2>3 DEF Counted, One
<1>14. LoadOK(t)'
  BY <1>1, <1>2, <1>6, <1>7, <1>9, <1>12 DEF LoadOK
<1>15. LifeOK(t)'
  <2>1. tracker'[t].refs # 0 /\ tracker'[t].life = "live"
    BY <1>2, <1>4, <1>7, <1>9
  <2> QED
    BY <1>1, <1>2, <1>6, <1>8, <2>1, LifeAfter
<1>16. ASSUME NEW y \in Threads, thread'[y].of = t
       PROVE  ThreadOK(y, t)'
  <2>1. CASE y = x
    BY <1>7, <1>8, <1>9, <2>1 DEF ThreadOK
  <2>2. CASE y # x
    <3>1. thread'[y] = thread[y] /\ ThreadOK(y, t) /\ thread[y].at \notin BusyAt
      BY <1>6, <1>9, <1>16, <2>2 DEF RMInv, TrackerOK, Alone
    <3> QED
      BY <1>4, <3>1 DEF ThreadOK, BusyAt, StartAt, CompleteAt, FailAt
  <2> QED
    BY <2>1, <2>2
<1> QED
  BY <1>11, <1>13, <1>14, <1>15, <1>16, StepKeeps

LEMMA FailTakesOK ==
  ASSUME RMInv, NEW x \in Threads, FailTakes(x)
  PROVE  RMInv'
<1>1. thread[x].at = "fail" /\ thread[x].at \in BusyAt /\ thread[x].at \in FailAt
  BY DEF FailTakes, BusyAt, FailAt
<1>2. PICK t \in Trackers : t = thread[x].of
  BY <1>1, BusyThread
<1> DEFINE s == tracker[t]
           s2 == [s EXCEPT !.pending = FALSE, !.signaler = FALSE]
           v == [thread[x] EXCEPT !.at = "failing", !.signals = s.signaler]
<1>3. Types /\ LoadOK(t) /\ s \in TrackerRecord /\ s.refs \in Nat /\ ThreadOK(x, t)
  BY <1>1, <1>2, AtHand, BusyThread
<1>4. /\ tracker' = [tracker EXCEPT ![t] = s2] /\ thread' = [thread EXCEPT ![x] = v]
      /\ map' = map /\ request' = request
  <2>1. tracker' = [tracker EXCEPT ![t] = [s EXCEPT !.pending = FALSE, !.signaler = FALSE,
                                                    !.refs = @ + 0]]
    BY <1>2 DEF FailTakes, TakesSignaler
  <2>2. s.refs + 0 = s.refs
    BY <1>3
  <2>3. [s EXCEPT !.pending = FALSE, !.signaler = FALSE, !.refs = s.refs] = s2
    BY <1>3 DEF TrackerRecord
  <2> QED
    BY <1>2, <2>1, <2>2, <2>3 DEF FailTakes
<1>5. /\ s2 \in TrackerRecord /\ s2.refs = s.refs /\ s2.life = s.life /\ s2.load = s.load
      /\ s2.loading = s.loading /\ s2.completing = s.completing /\ ~s2.pending
      /\ s2.future = s.future /\ s2.signaled = s.signaled
  BY <1>3 DEF TrackerRecord
<1>6. /\ v \in ThreadRecord /\ v.at = "failing" /\ v.at \in FailAt /\ v.of = t
      /\ v.extra = thread[x].extra
  <2>1. s.signaler \in BOOLEAN
    BY <1>3, RecordFields
  <2> QED
    BY <1>2, <1>3, <2>1 DEF Types, ThreadRecord, BusyAt, FailAt
<1> HIDE DEF s2, v
<1>7. s.future = "waiting" /\ s.signaled \notin {"done", "failed"} /\ s.completing \in {"none", "gone"}
  BY <1>1, <1>3 DEF ThreadOK, LoadOK
<1> QED
  BY <1>1, <1>2, <1>4, <1>5, <1>6, <1>7, SettlingKeeps

LEMMA FailOK ==
  ASSUME RMInv, NEW x \in Threads, Fail(x)
  PROVE  RMInv'
<1>1. thread[x].at = "failing" /\ thread[x].at \in BusyAt /\ thread[x].at \in FailAt
  BY DEF Fail, BusyAt, FailAt
<1>2. PICK t \in Trackers : t = thread[x].of
  BY <1>1, BusyThread
<1> DEFINE s == tracker[t]
           s2 == [s EXCEPT !.future = "failed"]
           v == [thread[x] EXCEPT !.at = "failed"]
<1>3. /\ tracker' = [tracker EXCEPT ![t] = s2] /\ thread' = [thread EXCEPT ![x] = v]
      /\ map' = map /\ request' = request
  BY <1>2 DEF Fail, SettlesFuture
<1>4. Types /\ LoadOK(t) /\ s \in TrackerRecord /\ ThreadOK(x, t)
  BY <1>1, <1>2, AtHand, BusyThread
<1>5. /\ s2 \in TrackerRecord /\ s2.refs = s.refs /\ s2.life = s.life /\ s2.load = s.load
      /\ s2.loading = s.loading /\ s2.completing = s.completing /\ s2.pending = s.pending
      /\ s2.future = "failed" /\ s2.signaled = s.signaled
  BY <1>4 DEF TrackerRecord
<1>6. /\ v \in ThreadRecord /\ v.at = "failed" /\ v.at \in FailAt /\ v.of = t
      /\ v.extra = thread[x].extra
  BY <1>2, <1>4 DEF Types, ThreadRecord, BusyAt, FailAt
<1> HIDE DEF s2, v
<1>7. /\ s.future = "waiting" /\ ~s.pending /\ s.signaled \notin {"done", "failed"}
      /\ s.completing \in {"none", "gone"}
  BY <1>1, <1>4 DEF ThreadOK, LoadOK, FailAt
<1> QED
  BY <1>1, <1>2, <1>3, <1>5, <1>6, <1>7, SettlingKeeps

LEMMA FailSignalsOK ==
  ASSUME RMInv, NEW x \in Threads, FailSignals(x)
  PROVE  RMInv'
<1>1. thread[x].at = "failed" /\ thread[x].at \in BusyAt /\ thread[x].at \in FailAt
  BY DEF FailSignals, BusyAt, FailAt
<1>2. PICK t \in Trackers : t = thread[x].of
  BY <1>1, BusyThread
<1> DEFINE s == tracker[t]
           d == IF thread[x].signals THEN "failed" ELSE s.signaled
           s2 == [s EXCEPT !.signaled = d]
           v == [thread[x] EXCEPT !.at = "notified"]
<1>3. Types /\ LoadOK(t) /\ s \in TrackerRecord /\ ThreadOK(x, t)
  BY <1>1, <1>2, AtHand, BusyThread
<1>4. d \in {"none", "waiting", "done", "failed"} /\ d \in {"failed", s.signaled}
  BY <1>3, RecordFields
<1>5. /\ s2 \in TrackerRecord /\ s2.refs = s.refs /\ s2.life = s.life /\ s2.load = s.load
      /\ s2.loading = s.loading /\ s2.completing = s.completing /\ s2.pending = s.pending
      /\ s2.future = s.future /\ s2.signaled = d
  <2> HIDE DEF d
  <2> QED
    BY <1>3, <1>4 DEF TrackerRecord
<1>6. /\ v \in ThreadRecord /\ v.at = "notified" /\ v.at \in FailAt /\ v.of = t
      /\ v.extra = thread[x].extra
  BY <1>2, <1>3 DEF Types, ThreadRecord, BusyAt, FailAt
<1>7. /\ tracker' = [tracker EXCEPT ![t] = s2] /\ thread' = [thread EXCEPT ![x] = v]
      /\ map' = map /\ request' = request
  <2>1. CASE thread[x].signals
    BY <1>2, <2>1 DEF FailSignals, Signals
  <2>2. CASE ~thread[x].signals
    <3>1. s2 = s
      BY <1>3, <2>2 DEF TrackerRecord
    <3> QED
      BY <1>2, <1>3, <2>2, <3>1 DEF FailSignals, Signals, Types
  <2> QED
    BY <2>1, <2>2
<1> HIDE DEF s2, v, d
<1>8. /\ s.future = "failed" /\ ~s.pending /\ s.signaled # "done" /\ s.completing \in {"none", "gone"}
  BY <1>1, <1>3 DEF ThreadOK, LoadOK, FailAt
<1> QED
  BY <1>1, <1>2, <1>4, <1>5, <1>6, <1>7, <1>8, SettlingKeeps

LEMMA FailEndsOK ==
  ASSUME RMInv, ~DropsWhileZeroing, NEW x \in Threads, FailEnds(x)
  PROVE  RMInv'
<1>1. thread[x].at = "notified" /\ thread[x].at \in BusyAt /\ thread[x].at \in FailAt
  BY DEF FailEnds, BusyAt, FailAt
<1>2. PICK t \in Trackers : t = thread[x].of
  BY <1>1, BusyThread
<1>3. PICK n \in {1, 2} : n = 1 + thread[x].extra /\ (n = 2 <=> thread[x].extra = 1)
  BY RecordFields DEF RMInv, Types
<1> DEFINE s == tracker[t]
           s2 == [s EXCEPT !.refs = @ - n]
<1>4. /\ tracker' = [tracker EXCEPT ![t] = s2] /\ map' = map /\ request' = request
      /\ Releases(x, t, n)
  BY <1>2, <1>3 DEF FailEnds
<1>5. /\ Types /\ Counted(t) /\ LoadOK(t) /\ LifeOK(t)
      /\ s \in TrackerRecord /\ s.refs \in Nat /\ Cardinality(Owners(t)) \in Nat
  BY AtHand
<1>6. ThreadOK(x, t) /\ s.life = "live" /\ Alone(x, t)
  BY <1>1, <1>2, BusyThread
<1>7. s.completing \in {"none", "gone"} /\ s.future = "failed" /\ ~s.pending
  BY <1>1, <1>6 DEF ThreadOK, FailAt
<1>8. ~Starts(t) /\ Fails(t) /\ (FailsStart(t) <=> n = 2)
  BY <1>1, <1>2, <1>3, <1>6, BusyBefore DEF StartAt
<1>9. ~HasResult(t) /\ HasNotifier(t) /\ (HasPointer(t) <=> n = 2)
  BY <1>7, <1>8 DEF HasResult, HasNotifier, HasPointer
<1>10. s.refs >= n
  BY <1>5, <1>9 DEF Counted, One
<1>11. PICK v \in ThreadRecord :
         /\ thread' = [thread EXCEPT ![x] = v]
         /\ IF s.refs = n
            THEN /\ v = At("zero", t) /\ v.of = t /\ v.at = "zero"
                 /\ \A y \in Threads : thread[y].of = t => thread[y].at \notin ZeroAt
            ELSE v = Idle /\ v.of = NoTracker /\ v.at = "idle"
  <2>1. n > 0
    OBVIOUS
  <2> QED
    BY <1>4, <2>1, Released
<1>12. /\ s2 \in TrackerRecord /\ s2.refs = s.refs - n /\ s2.completing = s.completing
       /\ s2.life = "live" /\ s2.load = s.load /\ s2.loading = s.loading
       /\ s2.future = "failed" /\ ~s2.pending /\ s2.signaled = s.signaled
  <2>1. s.refs - n \in Nat
    BY <1>5, <1>10
  <2>2. s2 \in TrackerRecord
    BY <1>5, <2>1 DEF TrackerRecord
  <2> QED
    BY <1>5, <1>6, <1>7, <2>2 DEF TrackerRecord
<1> HIDE DEF s2
<1>13. tracker'[t] = s2 /\ \A y \in Threads : thread'[y] = IF y = x THEN v ELSE thread[y]
  BY <1>4, <1>5, <1>11 DEF Types
<1>14. v.at \notin BusyAt /\ v.at \in {"idle", "zero"} /\ (v.of = t \/ v = Idle)
  BY <1>11 DEF BusyAt, StartAt, CompleteAt, FailAt
<1>15. Types' /\ Concerns(t)
  BY <1>2, <1>4, <1>5, <1>11, <1>12, <1>13, ResourceManagerAssumption DEF Types, Concerns
<1>16. ~Starts(t)' /\ ~Fails(t)' /\ ~FailsStart(t)' /\ ~Completes(t)'
  BY <1>5, <1>6, <1>11, <1>14, BusyAfter DEF BusyAt
<1>17. Counted(t)'
  <2>1. Owners(t)' = Owners(t)
    BY <1>4 DEF Owners, IsOwner
  <2>2. ~HasResult(t)' /\ ~HasNotifier(t)' /\ ~HasPointer(t)'
    BY <1>7, <1>12, <1>13, <1>16 DEF HasResult, HasNotifier, HasPointer
  <2> QED
    BY <1>5, <1>9, <1>12, <1>13, <2>1, <2>2 DEF Counted, One
<1>18. LoadOK(t)'
  BY <1>5, <1>7, <1>8, <1>12, <1>13 DEF LoadOK
<1>19. LifeOK(t)'
  <2>1. s2.refs = 0 => v.of = t /\ v.at \in ZeroAt
    BY <1>5, <1>11, <1>12 DEF ZeroAt
  <2>2. v.at \in ZeroAt => \A y \in Threads : thread[y].of = t => thread[y].at \notin ZeroAt
    BY <1>11 DEF ZeroAt
  <2> QED
    BY <1>5, <1>11, <1>12, <1>13, <1>14, <2>1, <2>2, LifeAfter
<1>20. ASSUME NEW y \in Threads, thread'[y].of = t
       PROVE  ThreadOK(y, t)'
  <2>1. CASE y = x
    BY <1>13, <1>14, <2>1 DEF ThreadOK, StartAt, CompleteAt, FailAt
  <2>2. CASE y # x
    <3>1. thread'[y] = thread[y] /\ ThreadOK(y, t) /\ thread[y].at \notin BusyAt
      BY <1>6, <1>13, <1>20, <2>2 DEF RMInv, TrackerOK, Alone
    <3> QED
      BY <1>10, <3>1 DEF ThreadOK, BusyAt, StartAt, CompleteAt, FailAt
  <2> QED
    BY <2>1, <2>2
<1> QED
  BY <1>15, <1>17, <1>18, <1>19, <1>20, StepKeeps

-----------------------------------------------------------------------------
(* RCTrackerZero.                                                          *)

LEMMA TrackerZeroOK ==
  ASSUME RMInv, NEW x \in Threads, TrackerZero(x)
  PROVE  RMInv'
<1>1. thread[x].at = "zero" /\ thread[x].at \in ZeroAt /\ thread[x].at \notin BusyAt
  BY DEF TrackerZero, ZeroAt, BusyAt, StartAt, CompleteAt, FailAt
<1>2. PICK t \in Trackers : t = thread[x].of
  BY <1>1, BusyThread
<1> DEFINE s == tracker[t]
           v == IF Resurrected(t) THEN Idle ELSE [thread[x] EXCEPT !.at = "delete"]
           m == IF Resurrected(t) THEN map ELSE Unregistered(t)
<1>3. tracker' = tracker /\ request' = request /\ thread' = [thread EXCEPT ![x] = v] /\ map' = m
  BY <1>2 DEF TrackerZero
<1>4. /\ Types /\ Counted(t) /\ LoadOK(t) /\ LifeOK(t) /\ s.refs \in Nat
  BY AtHand
<1>5. s.life = "live"
  BY <1>1, <1>2, BusyThread
<1>6. /\ v \in ThreadRecord /\ v.at \notin BusyAt
      /\ IF s.refs # 0 THEN v = Idle /\ v.of = NoTracker /\ v.at = "idle"
                       ELSE v.of = t /\ v.at = "delete" /\ v.at \in ZeroAt
  <2>1. CASE Resurrected(t)
    BY <2>1, ThreadRecords DEF Resurrected, BusyAt, StartAt, CompleteAt, FailAt
  <2>2. CASE ~Resurrected(t)
    <3>1. [thread[x] EXCEPT !.at = "delete"] \in ThreadRecord
      BY <1>4 DEF Types, ThreadRecord, ZeroAt
    <3>2. /\ [thread[x] EXCEPT !.at = "delete"].at = "delete"
          /\ [thread[x] EXCEPT !.at = "delete"].of = t
      BY <1>2, <1>4 DEF Types, ThreadRecord
    <3> QED
      BY <2>2, <3>1, <3>2 DEF Resurrected, ZeroAt, BusyAt, StartAt, CompleteAt, FailAt
  <2> QED
    BY <2>1, <2>2
<1>7. /\ m \in [Keys -> Trackers \cup {NoTracker}]
      /\ \A k \in Keys : m[k] = map[k] \/ (map[k] = t /\ m[k] = NoTracker)
      /\ s.refs = 0 => \A k \in Keys : m[k] # t
  <2>1. map \in [Keys -> Trackers \cup {NoTracker}]
    BY <1>4 DEF Types
  <2>2. (Resurrected(t) => m = map) /\ (~Resurrected(t) => m = Unregistered(t))
    OBVIOUS
  <2> HIDE DEF m
  <2>3. CASE Resurrected(t)
    BY <2>1, <2>2, <2>3 DEF Resurrected
  <2>4. CASE ~Resurrected(t)
    BY <2>1, <2>2, <2>4, ResourceManagerAssumption DEF Unregistered
  <2> QED
    BY <2>3, <2>4
<1> HIDE DEF v, m
<1>8. \A y \in Threads : thread'[y] = IF y = x THEN v ELSE thread[y]
  BY <1>3, <1>4 DEF Types
<1>9. Types' /\ Concerns(t)
  BY <1>2, <1>3, <1>4, <1>6, <1>7, <1>8, ResourceManagerAssumption DEF Types, Concerns
<1>10. /\ Starts(t)' <=> Starts(t)
       /\ Completes(t)' <=> Completes(t)
       /\ Fails(t)' <=> Fails(t)
       /\ FailsStart(t)' <=> FailsStart(t)
  BY <1>1, <1>3, <1>4, <1>6, BusyKept
<1>11. Counted(t)'
  <2>1. Owners(t)' = Owners(t)
    BY <1>3 DEF Owners, IsOwner
  <2>2. HasResult(t)' <=> HasResult(t)
    BY <1>3 DEF HasResult, IsSharer
  <2>3. (HasNotifier(t)' <=> HasNotifier(t)) /\ (HasPointer(t)' <=> HasPointer(t))
    BY <1>3, <1>10 DEF HasNotifier, HasPointer
  <2> QED
    BY <1>3, <1>4, <2>1, <2>2, <2>3 DEF Counted, One
<1>12. LoadOK(t)'
  BY <1>3, <1>4, <1>10 DEF LoadOK
<1>13. LifeOK(t)'
  <2>1. \A y \in Threads \ {x} : thread[y].of = t => thread[y].at \notin ZeroAt
    BY <1>1, <1>2, <1>4 DEF LifeOK
  <2> QED
    BY <1>3, <1>4, <1>5, <1>6, <2>1, LifeAfter
<1>14. ASSUME NEW y \in Threads, thread'[y].of = t
       PROVE  ThreadOK(y, t)'
  <2>1. CASE y = x
    BY <1>3, <1>6, <1>7, <1>8, <1>14, <2>1, ResourceManagerAssumption
       DEF ThreadOK, StartAt, CompleteAt, FailAt
  <2>2. CASE y # x
    <3>1. thread'[y] = thread[y] /\ ThreadOK(y, t)
      BY <1>8, <1>14, <2>2 DEF RMInv, TrackerOK
    <3>2. \A k \in Keys : map[k] # t => map'[k] # t
      BY <1>3, <1>7, ResourceManagerAssumption
    <3> QED
      BY <1>3, <3>1, <3>2 DEF ThreadOK
  <2> QED
    BY <2>1, <2>2
<1> QED
  BY <1>9, <1>11, <1>12, <1>13, <1>14, StepKeeps

LEMMA DeleteOK ==
  ASSUME RMInv, NEW x \in Threads, Delete(x)
  PROVE  RMInv'
<1>1. thread[x].at = "delete" /\ thread[x].at \in ZeroAt /\ thread[x].at \notin BusyAt
  BY DEF Delete, ZeroAt, BusyAt, StartAt, CompleteAt, FailAt
<1>2. PICK t \in Trackers : t = thread[x].of
  BY <1>1, BusyThread
<1> DEFINE s == tracker[t]
           s2 == [s EXCEPT !.life = "deleted"]
<1>3. /\ tracker' = [tracker EXCEPT ![t] = s2] /\ thread' = [thread EXCEPT ![x] = Idle]
      /\ map' = map /\ request' = request
  BY <1>2 DEF Delete
<1>4. /\ Types /\ Counted(t) /\ LoadOK(t) /\ LifeOK(t)
      /\ s \in TrackerRecord /\ s.refs \in Nat /\ Cardinality(Owners(t)) \in Nat
  BY AtHand
<1>5. s.refs = 0 /\ \A k \in Keys : map[k] # t
  BY <1>1, <1>2, BusyThread DEF ThreadOK
<1>6. /\ s2 \in TrackerRecord /\ s2.refs = s.refs /\ s2.pending = s.pending
      /\ s2.completing = s.completing /\ s2.life = "deleted" /\ s2.load = s.load
      /\ s2.loading = s.loading /\ s2.future = s.future /\ s2.signaled = s.signaled
  BY <1>4 DEF TrackerRecord
<1> HIDE DEF s2
<1>7. tracker'[t] = s2 /\ \A y \in Threads : thread'[y] = IF y = x THEN Idle ELSE thread[y]
  BY <1>3, <1>4 DEF Types
<1>8. Idle \in ThreadRecord /\ Idle.of = NoTracker /\ Idle.at = "idle" /\ Idle.at \notin BusyAt
  BY ThreadRecords DEF BusyAt, StartAt, CompleteAt, FailAt
<1>9. Types' /\ Concerns(t)
  BY <1>2, <1>3, <1>4, <1>6, <1>7, <1>8, ResourceManagerAssumption DEF Types, Concerns
<1>10. ~HasNotifier(t)
  BY <1>4, <1>5 DEF Counted, One
<1>11. \A y \in Threads \ {x} : thread[y].of # t
  <2> SUFFICES ASSUME NEW y \in Threads \ {x}, thread[y].of = t
               PROVE  FALSE
    OBVIOUS
  <2>1. thread[y].at \in BusyAt
    BY <1>1, <1>2, <1>4, RecordFields, ResourceManagerAssumption DEF LifeOK, Types
  <2>2. ThreadOK(y, t)
    BY DEF RMInv, TrackerOK
  <2> QED
    BY <1>10, <2>1, <2>2 DEF HasNotifier, Starts, Fails, ThreadOK, BusyAt
<1>12. /\ Starts(t)' <=> Starts(t)
       /\ Completes(t)' <=> Completes(t)
       /\ Fails(t)' <=> Fails(t)
       /\ FailsStart(t)' <=> FailsStart(t)
  <2>1. Idle.of = t => Idle.at \notin BusyAt
    BY <1>8
  <2> HIDE DEF Idle
  <2> QED
    BY <1>1, <1>3, <1>4, <2>1, BusyKept
<1>13. Counted(t)'
  <2>1. Owners(t)' = Owners(t)
    BY <1>3 DEF Owners, IsOwner
  <2>2. HasResult(t)' <=> HasResult(t)
    BY <1>3, <1>6, <1>7 DEF HasResult, IsSharer
  <2>3. (HasNotifier(t)' <=> HasNotifier(t)) /\ (HasPointer(t)' <=> HasPointer(t))
    BY <1>6, <1>7, <1>12 DEF HasNotifier, HasPointer
  <2> QED
    BY <1>4, <1>6, <1>7, <2>1, <2>2, <2>3 DEF Counted, One
<1>14. LoadOK(t)'
  BY <1>4, <1>6, <1>7, <1>12 DEF LoadOK
<1>15. \A y \in Threads : thread'[y].of # t
  BY <1>7, <1>8, <1>11, ResourceManagerAssumption
<1>16. LifeOK(t)'
  BY <1>3, <1>5, <1>6, <1>7, <1>15 DEF LifeOK
<1> QED
  BY <1>9, <1>13, <1>14, <1>15, <1>16, StepKeeps

LEMMA DropFutureOK ==
  ASSUME RMInv, ~DropsWhileZeroing, NEW x \in Threads, NEW q \in Requests, DropFuture(x, q)
  PROVE  RMInv'
<1>1. Types
  BY DEF RMInv
<1>2. PICK t \in Trackers : t = request[q].of
  BY <1>1, RecordFields DEF DropFuture, Types
<1> DEFINE s == tracker[t]
           last == s.future = "completed" /\ Sharers(t) = {q} /\ ~Completing(t)
<1>3. PICK n \in {0, 1} : n = IF request[q].future = "own" \/ last THEN 1 ELSE 0
  OBVIOUS
<1> DEFINE s2 == [s EXCEPT !.refs = @ - n]
<1>4. /\ tracker' = [tracker EXCEPT ![t] = s2] /\ map' = map
      /\ request' = [request EXCEPT ![q] = Unanswered] /\ Releases(x, t, n)
      /\ thread[x].at = "idle" /\ \A y \in Threads : thread[y].for # q
  BY <1>2, <1>3 DEF DropFuture, IsIdle
<1>5. /\ Counted(t) /\ LoadOK(t) /\ LifeOK(t)
      /\ s \in TrackerRecord /\ s.refs \in Nat /\ Cardinality(Owners(t)) \in Nat
  BY AtHand
<1>6. Unanswered \in RequestRecord /\ Unanswered.of = NoTracker /\ Unanswered.future = "none"
  BY DEF Unanswered, RequestRecord
<1>7. \A p \in Requests : request'[p] = IF p = q THEN Unanswered ELSE request[p]
  BY <1>1, <1>4 DEF Types
<1>8. thread[x].of = NoTracker /\ thread[x] = Idle
  BY <1>1, <1>4 DEF Types
<1>9. s.completing = "running" => Completing(t)
  BY <1>5 DEF LoadOK, Completes, Completing, CompleteAt
<1>10. Completing(t) => s.completing = "running"
  BY <1>2 DEF Completing, RMInv, TrackerOK, ThreadOK, CompleteAt
<1>11. Owners(t)' = Owners(t) \ {q} /\ (q \in Owners(t) <=> request[q].future = "own")
  BY <1>2, <1>6, <1>7, ResourceManagerAssumption DEF Owners, IsOwner
<1>12. Cardinality(Owners(t)') =
         Cardinality(Owners(t)) - (IF request[q].future = "own" THEN 1 ELSE 0)
  <2>1. CASE request[q].future = "own"
    BY <1>11, <2>1, OwnersFinite, FS_RemoveElement
  <2>2. CASE request[q].future # "own"
    <3>1. Owners(t)' = Owners(t)
      BY <1>11, <2>2
    <3> QED
      BY <1>5, <2>2, <3>1
  <2> QED
    BY <2>1, <2>2
<1>13. \A p \in Requests : IsSharer(p, t)' <=> IsSharer(p, t) /\ p # q
  BY <1>6, <1>7, ResourceManagerAssumption DEF IsSharer
<1>14. HasResult(t)' <=> HasResult(t) /\ ~(request[q].future # "own" /\ last)
  <2>1. tracker'[t].completing = s.completing /\ tracker'[t].future = s.future
    BY <1>1, <1>4, <1>5 DEF Types, TrackerRecord
  <2>2. HasResult(t)' <=> \/ s.completing = "running"
                          \/ s.future = "completed" /\ \E p \in Requests : IsSharer(p, t) /\ p # q
    BY <1>13, <2>1 DEF HasResult
  <2>3. CASE last
    <3>1. q \in Sharers(t) /\ \A p \in Requests : IsSharer(p, t) => p = q
      BY <2>3 DEF Sharers, IsSharer
    <3>2. request[q].future = "load"
      BY <3>1 DEF Sharers
    <3> QED
      BY <1>9, <2>2, <2>3, <3>1, <3>2
  <2>4. CASE ~last
    <3>1. CASE Completing(t)
      BY <1>10, <2>2, <2>4, <3>1 DEF HasResult
    <3>2. CASE s.future # "completed"
      BY <2>2, <2>4, <3>2 DEF HasResult
    <3>3. CASE Sharers(t) # {q}
      <4>1. (\E p \in Requests : IsSharer(p, t)) => \E p \in Requests : IsSharer(p, t) /\ p # q
        BY <3>3 DEF Sharers, IsSharer
      <4> QED
        BY <2>2, <2>4, <4>1 DEF HasResult
    <3> QED
      BY <2>4, <3>1, <3>2, <3>3
  <2> QED
    BY <2>3, <2>4
<1>15. last /\ request[q].future # "own" => HasResult(t)
  BY DEF HasResult, Sharers, IsSharer
<1>16. request[q].future = "own" => Cardinality(Owners(t)) >= 1
  BY <1>11, OwnersFinite, FS_RemoveElement, FS_CardinalityType, FS_Subset
<1>17. s.refs >= n
  BY <1>3, <1>5, <1>15, <1>16 DEF Counted, One
<1> HIDE DEF last
<1>18. PICK v \in ThreadRecord :
         /\ thread' = [thread EXCEPT ![x] = v]
         /\ IF n > 0 /\ s.refs = n
            THEN /\ v = At("zero", t) /\ v.of = t /\ v.at = "zero"
                 /\ \A y \in Threads : thread[y].of = t => thread[y].at \notin ZeroAt
            ELSE v = Idle /\ v.of = NoTracker /\ v.at = "idle"
  BY <1>4, Released
<1>19. /\ s2 \in TrackerRecord /\ s2.refs = s.refs - n /\ s2.completing = s.completing
       /\ s2.life = s.life /\ s2.load = s.load /\ s2.loading = s.loading
       /\ s2.future = s.future /\ s2.pending = s.pending /\ s2.signaled = s.signaled
       /\ n = 0 => s2 = s
  <2>1. s.refs - n \in Nat /\ (n = 0 => s.refs - n = s.refs)
    BY <1>5, <1>17
  <2>2. s2 \in TrackerRecord
    BY <1>5, <2>1 DEF TrackerRecord
  <2>3. [s EXCEPT !.refs = s.refs] = s
    BY <1>5 DEF TrackerRecord
  <2> QED
    BY <1>5, <2>1, <2>2, <2>3 DEF TrackerRecord
<1> HIDE DEF s2
<1>20. tracker'[t] = s2 /\ \A y \in Threads : thread'[y] = IF y = x THEN v ELSE thread[y]
  BY <1>1, <1>4, <1>18 DEF Types
<1>21. v.at \notin BusyAt /\ v.at \in {"idle", "zero"} /\ (v.of = t \/ v = Idle)
  BY <1>18 DEF BusyAt, StartAt, CompleteAt, FailAt
<1>22. Types' /\ Concerns(t)
  <2>1. Types'
    BY <1>1, <1>4, <1>6, <1>7, <1>18, <1>19, <1>20, ResourceManagerAssumption DEF Types
  <2>2. Concerns(t)
    BY <1>1, <1>2, <1>4, <1>6, <1>7, <1>8, <1>18, <1>20 DEF Types, Concerns
  <2> QED
    BY <2>1, <2>2
<1>23. /\ Starts(t)' <=> Starts(t)
       /\ Completes(t)' <=> Completes(t)
       /\ Fails(t)' <=> Fails(t)
       /\ FailsStart(t)' <=> FailsStart(t)
  BY <1>1, <1>8, <1>18, <1>21, BusyKept, ResourceManagerAssumption
<1>24. Counted(t)'
  <2>1. (HasNotifier(t)' <=> HasNotifier(t)) /\ (HasPointer(t)' <=> HasPointer(t))
    BY <1>19, <1>20, <1>23 DEF HasNotifier, HasPointer
  <2> QED
    BY <1>3, <1>5, <1>12, <1>14, <1>15, <1>19, <1>20, <2>1 DEF Counted, One
<1>25. LoadOK(t)'
  BY <1>5, <1>19, <1>20, <1>23 DEF LoadOK
<1>26. LifeOK(t)'
  <2>1. CASE n = 0
    <3>1. tracker'[t] = s /\ \A y \in Threads : thread'[y] = thread[y]
      BY <1>8, <1>18, <1>19, <1>20, <2>1
    <3> QED
      BY <1>4, <1>5, <3>1 DEF LifeOK
  <2>2. CASE n = 1
    <3>1. s2.life = "live"
      BY <1>5, <1>17, <1>19, <2>2, InUseIsLive
    <3>2. s2.refs = 0 => v.of = t /\ v.at \in ZeroAt
      BY <1>5, <1>18, <1>19, <2>2 DEF ZeroAt
    <3>3. v.at \in ZeroAt => \A y \in Threads : thread[y].of = t => thread[y].at \notin ZeroAt
      BY <1>18 DEF ZeroAt
    <3> QED
      BY <1>1, <1>5, <1>18, <1>20, <1>21, <3>1, <3>2, <3>3, LifeAfter
  <2> QED
    BY <2>1, <2>2
<1>27. ASSUME NEW y \in Threads, thread'[y].of = t
       PROVE  ThreadOK(y, t)'
  <2>1. CASE y = x
    BY <1>8, <1>20, <1>21, <1>27, <2>1, ResourceManagerAssumption
       DEF ThreadOK, StartAt, CompleteAt, FailAt
  <2>2. CASE y # x
    <3>1. thread'[y] = thread[y] /\ ThreadOK(y, t)
      BY <1>20, <1>27, <2>2 DEF RMInv, TrackerOK
    <3>2. thread[y].for # q
      BY <1>4
    <3>3. s.refs = 0 => s2.refs = 0
      <4>1. s.refs = 0 => n = 0
        BY <1>5, <1>17
      <4> QED
        BY <1>19, <4>1
    <3> QED
      BY <1>4, <1>7, <1>19, <1>20, <3>1, <3>2, <3>3 DEF ThreadOK
  <2> QED
    BY <2>1, <2>2
<1> QED
  BY <1>22, <1>24, <1>25, <1>26, <1>27, StepKeeps

-----------------------------------------------------------------------------

LEMMA InitOK == Init => RMInv
<1> SUFFICES ASSUME Init PROVE RMInv
  OBVIOUS
<1>1. /\ NotMade \in TrackerRecord /\ NotMade.life = "unused" /\ NotMade.refs = 0
      /\ ~NotMade.pending /\ NotMade.future = "none" /\ NotMade.signaled = "none"
      /\ NotMade.load = "none" /\ ~NotMade.loading /\ NotMade.completing = "none"
  BY DEF NotMade, TrackerRecord
<1>2. Unanswered \in RequestRecord /\ Unanswered.of = NoTracker
  BY DEF Unanswered, RequestRecord
<1>3. Idle \in ThreadRecord /\ Idle.of = NoTracker
  BY ThreadRecords
<1>4. /\ \A t \in Trackers : tracker[t] = NotMade
      /\ \A q \in Requests : request[q] = Unanswered
      /\ \A x \in Threads : thread[x] = Idle
      /\ \A k \in Keys : map[k] = NoTracker
  BY DEF Init
<1>5. Types
  BY <1>1, <1>2, <1>3 DEF Init, Types
<1>6. ASSUME NEW t \in Trackers
      PROVE  TrackerOK(t)
  <2>1. Owners(t) = {}
    BY <1>2, <1>4, ResourceManagerAssumption DEF Owners, IsOwner
  <2>2. \A x \in Threads : thread[x].of # t
    BY <1>3, <1>4, ResourceManagerAssumption
  <2>3. ~HasResult(t) /\ ~HasNotifier(t) /\ ~HasPointer(t)
    BY <1>1, <1>4, <2>2 DEF HasResult, HasNotifier, HasPointer, Starts, Fails, FailsStart
  <2>4. Counted(t)
    BY <1>1, <1>4, <2>1, <2>3, FS_EmptySet DEF Counted, One
  <2>5. LoadOK(t)
    BY <1>1, <1>4 DEF LoadOK
  <2>6. LifeOK(t)
    BY <1>1, <1>4, <2>2, ResourceManagerAssumption DEF LifeOK
  <2> QED
    BY <2>2, <2>4, <2>5, <2>6 DEF TrackerOK
<1> QED
  BY <1>5, <1>6 DEF RMInv

LEMMA NextOK ==
  ASSUME RMInv, ~DropsWhileZeroing, [Next]_rmVars
  PROVE  RMInv'
<1>1. ASSUME NEW x \in Threads, GetResource(x)
      PROVE  RMInv'
  BY <1>1, JoinLoadOK, GetLoadedOK, RegisterOK DEF GetResource
<1>2. ASSUME NEW x \in Threads, Proceeds(x)
      PROVE  RMInv'
  BY <1>2, StartLoadOK, StartFailsOK, CreateCompletionOK, CompleteOK, CompleteSignalsOK,
     CompletionEndsOK, FailTakesOK, FailOK, FailSignalsOK, FailEndsOK, TrackerZeroOK, DeleteOK
     DEF Proceeds
<1>3. ASSUME NEW t \in Trackers, Loads(t)
      PROVE  RMInv'
  BY <1>3, LoadSucceedsOK, LoadFailsOK, LoaderReleasesOK, RunCompletionOK, DestroyCompletionOK
     DEF Loads
<1>4. ASSUME UNCHANGED rmVars
      PROVE  RMInv'
  <2>1. map' = map /\ tracker' = tracker /\ request' = request /\ thread' = thread
    BY <1>4 DEF rmVars
  <2> USE <2>1
  <2>2. Types'
    BY DEF RMInv, Types
  <2>3. ASSUME NEW t \in Trackers
        PROVE  TrackerOK(t)'
    <3>1. /\ Owners(t)' = Owners(t) /\ (HasResult(t)' <=> HasResult(t))
          /\ (HasNotifier(t)' <=> HasNotifier(t)) /\ (HasPointer(t)' <=> HasPointer(t))
          /\ (Starts(t)' <=> Starts(t)) /\ (Completes(t)' <=> Completes(t))
      BY DEF Owners, IsOwner, HasResult, IsSharer, HasNotifier, HasPointer, Starts, Completes,
             Fails, FailsStart
    <3>2. Counted(t)' /\ LoadOK(t)' /\ LifeOK(t)'
      BY <3>1 DEF RMInv, TrackerOK, Counted, LoadOK, LifeOK, One
    <3>3. \A x \in Threads : thread'[x].of = t => ThreadOK(x, t)'
      BY DEF RMInv, TrackerOK, ThreadOK
    <3> QED
      BY <3>2, <3>3 DEF TrackerOK
  <2> QED
    BY <2>2, <2>3 DEF RMInv
<1> QED
  BY <1>1, <1>2, <1>3, <1>4, DropFutureOK, DropJobOK DEF Next

(* The count of references to each tracker is exact, in every behaviour in *)
(* which no last reference is dropped while another thread is in           *)
(* RCTrackerZero of the same tracker.                                      *)
THEOREM ResourceManagerInv ==
  ASSUME ~DropsWhileZeroing
  PROVE  Spec => []RMInv
<1>1. RMInv /\ [Next]_rmVars => RMInv'
  BY NextOK
<1> QED
  BY <1>1, InitOK, PTL DEF Spec

(* The trackers, requests and threads keep their types: no tracker has     *)
(* fewer references than are dropped.                                      *)
THEOREM ResourceManagerTypeOK ==
  ASSUME ~DropsWhileZeroing
  PROVE  Spec => []RMTypeOK
<1>1. RMInv => RMTypeOK
  BY RecordFields DEF RMInv, Types, RMTypeOK
<1> QED
  BY <1>1, ResourceManagerInv, PTL

(* What a client, a job, a thread or the map refers to has not been        *)
(* deleted, for any number of threads, keys and requests.                  *)
THEOREM ResourceManagerNothingDangles ==
  ASSUME ~DropsWhileZeroing
  PROVE  Spec => []NothingDangles
<1>1. RMInv => NothingDangles
  <2> SUFFICES ASSUME RMInv, NEW t \in Trackers,
                      \/ HeldByClient(t) \/ HeldByJob(t) \/ HeldByThread(t)
                      \/ \E k \in Keys : map[k] = t
               PROVE  tracker[t].life = "live"
    BY DEF NothingDangles
  <2>1. Counted(t) /\ tracker[t].refs \in Nat /\ Cardinality(Owners(t)) \in Nat
    BY AtHand
  <2>2. CASE HeldByClient(t)
    <3>1. Owners(t) # {} \/ HasResult(t)
      BY <2>2 DEF HeldByClient, HasResource, Owners, IsOwner, HasResult, IsSharer
    <3>2. Owners(t) # {} => Cardinality(Owners(t)) # 0
      BY OwnersFinite, FS_EmptySet
    <3> QED
      BY <2>1, <3>1, <3>2, InUseIsLive DEF Counted, One
  <2>3. CASE HeldByJob(t)
    <3>1. tracker[t].loading \/ HasNotifier(t)
      BY <2>3 DEF HeldByJob, HasNotifier
    <3> QED
      BY <2>1, <3>1, InUseIsLive DEF Counted, One
  <2> QED
    BY <2>2, <2>3, InUseIsLive DEF HeldByThread
<1> QED
  BY <1>1, ResourceManagerInv, PTL

(* A resource that has not been deleted is referred to by a client, a job  *)
(* or the thread that is about to delete it: no release is lost.           *)
THEOREM ResourceManagerNoLeak ==
  ASSUME ~DropsWhileZeroing
  PROVE  Spec => []NoLeak
<1>1. RMInv => NoLeak
  <2> SUFFICES ASSUME RMInv, NEW t \in Trackers, tracker[t].life = "live",
                      ~HeldByClient(t), ~HeldByJob(t)
               PROVE  HeldByThread(t)
    BY DEF NoLeak
  <2>1. /\ Counted(t) /\ LifeOK(t) /\ tracker[t] \in TrackerRecord
        /\ tracker[t].refs \in Nat /\ Cardinality(Owners(t)) \in Nat
    BY AtHand
  <2>2. CASE tracker[t].refs = 0
    BY <2>1, <2>2 DEF LifeOK, HeldByThread
  <2>3. CASE tracker[t].refs # 0
    <3>1. Owners(t) = {} /\ Cardinality(Owners(t)) = 0
      <4>1. Owners(t) = {}
        BY DEF HeldByClient, HasResource, Owners, IsOwner
      <4> QED
        BY <4>1, FS_EmptySet
    <3>2. ~HasResult(t) /\ ~tracker[t].loading
      BY DEF HeldByClient, HeldByJob, HasResource, HasResult, IsSharer
    <3>3. HasNotifier(t) \/ HasPointer(t)
      BY <2>1, <2>3, <3>1, <3>2 DEF Counted, One
    <3> QED
      BY <3>3 DEF HeldByJob, HeldByThread, HasNotifier, HasPointer, Starts, Fails, FailsStart
  <2> QED
    BY <2>2, <2>3
<1> QED
  BY <1>1, ResourceManagerInv, PTL

(* The job a request gets ends after the future that the request shares,   *)
(* and as the future does.                                                 *)
THEOREM ResourceManagerFutureBeforeJob ==
  ASSUME ~DropsWhileZeroing
  PROVE  Spec => []FutureBeforeJob
<1>1. RMInv => FutureBeforeJob
  <2> SUFFICES ASSUME RMInv, NEW q \in Requests, request[q].job # "none"
               PROVE  /\ request[q].job = "completing" /\ tracker[request[q].of].completing = "done"
                           => tracker[request[q].of].future = "completed"
                      /\ request[q].job = "signaled" =>
                           /\ tracker[request[q].of].signaled = "done"
                                => tracker[request[q].of].future = "completed"
                           /\ tracker[request[q].of].signaled = "failed"
                                => tracker[request[q].of].future = "failed"
    BY DEF FutureBeforeJob
  <2>1. request[q].of \in Trackers
    BY RecordFields DEF RMInv, Types, Unanswered
  <2> QED
    BY <2>1 DEF RMInv, TrackerOK, LoadOK
<1> QED
  BY <1>1, ResourceManagerInv, PTL
===============================================================================
