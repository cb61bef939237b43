--------------------------- MODULE ResourceManager ---------------------------
(***************************************************************************)
(* Anox_MainProgram/AnoxResourceManager.cpp: resources that are shared by  *)
(* key.  A tracker counts the references to a resource and, while it is    *)
(* registered, is found again by the resource's key.  The first request    *)
(* for a key starts a load job and a job that completes the load; requests *)
(* until then share its future.  When the last reference goes the tracker  *)
(* is unregistered and deleted, unless a request has found it meanwhile.   *)
(*                                                                         *)
(* Steps are sections of m_resourcesMutex and the accesses between them.   *)
(*                                                                         *)
(* Abstractions.  The list of resources, which only says whether a tracker *)
(* is registered, is left out: every tracker that is created is.  So are   *)
(* key types, memory exhaustion and the closing of the job queue.  A load  *)
(* job is its outcome, which its loader decides.  A reference that is      *)
(* dropped while the same thread surely has another one is not counted.    *)
(* JobDone of the completing job follows its runner's last release in the  *)
(* code and is the same step here.                                         *)
(***************************************************************************)
EXTENDS Naturals, FiniteSets

CONSTANTS
  Threads, Keys,
  Trackers,           \* the AnoxResourceTracker objects made, bound on their number
  Requests,           \* bound on the answers that clients hold at a time
  NoTracker, NoAnswer,
  StartMayFail,       \* BaseCreateLoadJob fails
  RunsIfFailed,       \* CreateJob runs a job whose dependency had failed before
  DropsWhileZeroing   \* a thread drops a last reference while another one is in RCTrackerZero

ASSUME ResourceManagerAssumption ==
  /\ NoTracker \notin Trackers /\ NoAnswer \notin Requests /\ IsFiniteSet(Requests)
  /\ StartMayFail \in BOOLEAN /\ RunsIfFailed \in BOOLEAN /\ DropsWhileZeroing \in BOOLEAN

VARIABLES
  map,      \* the tracker registered for each key
  tracker,  \* the trackers, with the load future and the jobs each is loaded by
  request,  \* what clients hold: a future and perhaps a job
  thread    \* where each thread is

rmVars == <<map, tracker, request, thread>>

(* life and refs are the object's; pending says whether                    *)
(* m_pendingFutureContainer is set, signaler whether                       *)
(* m_loadCompletionSignaler is, future is the container's state, signaled  *)
(* the state of m_loadCompletionJob, load that of the load job, loading    *)
(* whether its runners refer to the resource, completing the state of the  *)
(* job that completes the load, whose runner holds the notifier.           *)
NotMade == [life |-> "unused", refs |-> 0, pending |-> FALSE, signaler |-> FALSE,
            future |-> "none", signaled |-> "none", load |-> "none", loading |-> FALSE,
            completing |-> "none"]

Unanswered == [of |-> NoTracker, future |-> "none", job |-> "none"]

Idle == [at |-> "idle", of |-> NoTracker, for |-> NoAnswer, signals |-> FALSE, extra |-> 0]
At(at, t) == [Idle EXCEPT !.at = at, !.of = t]

IsIdle(x) == thread[x].at = "idle"

(* Thread x drops n references to t, and enters RCTrackerZero if they are  *)
(* the last ones.                                                          *)
Zeroing(t) == {x \in Threads : thread[x].at = "zero" /\ thread[x].of = t}

Releases(x, t, n) ==
  LET last == n > 0 /\ tracker[t].refs = n
  IN  /\ last => DropsWhileZeroing \/ Zeroing(t) = {}
      /\ thread' = [thread EXCEPT ![x] = IF last THEN At("zero", t) ELSE Idle]

-----------------------------------------------------------------------------
(* InternalGetResource.                                                    *)

(* The resource is registered and not loaded.                              *)
JoinLoad(x, k, q, wantsJob) ==
  LET t == map[k]
  IN  /\ IsIdle(x) /\ request[q] = Unanswered
      /\ t # NoTracker /\ tracker[t].pending
      /\ request' = [request EXCEPT ![q] = [of |-> t, future |-> "load",
                                            job |-> IF wantsJob THEN "signaled" ELSE "none"]]
      /\ tracker' = IF wantsJob /\ ~tracker[t].signaler
                    THEN [tracker EXCEPT ![t].signaler = TRUE, ![t].signaled = "waiting"]
                    ELSE tracker
      /\ UNCHANGED <<map, thread>>

(* Resource either loaded or failed.                                       *)
GetLoaded(x, k, q) ==
  LET t == map[k]
  IN  /\ IsIdle(x) /\ request[q] = Unanswered
      /\ t # NoTracker /\ ~tracker[t].pending
      /\ request' = [request EXCEPT ![q] = [of |-> t, future |-> "own", job |-> "none"]]
      /\ tracker' = [tracker EXCEPT ![t].refs = @ + 1]
      /\ UNCHANGED <<map, thread>>

(* The resource is not registered.  Its references are resourceRCPtr's and *)
(* the completion notifier's.                                              *)
Register(x, k, q, t) ==
  /\ IsIdle(x) /\ request[q] = Unanswered
  /\ map[k] = NoTracker /\ tracker[t] = NotMade
  /\ tracker' = [tracker EXCEPT ![t] = [NotMade EXCEPT !.life = "live", !.refs = 2,
                                                       !.pending = TRUE, !.future = "waiting"]]
  /\ map' = [map EXCEPT ![k] = t]
  /\ request' = [request EXCEPT ![q] = [of |-> t, future |-> "load", job |-> "none"]]
  /\ thread' = [thread EXCEPT ![x] = [At("start", t) EXCEPT !.for = q]]

(* BaseCreateLoadJob, or its failure, which destroys the notifier and then *)
(* resourceRCPtr.                                                          *)
StartLoad(x) ==
  /\ thread[x].at = "start"
  /\ tracker' = [tracker EXCEPT ![thread[x].of].refs = @ + 1, ![thread[x].of].loading = TRUE,
                                ![thread[x].of].load = "running"]
  /\ thread' = [thread EXCEPT ![x].at = "started"]
  /\ UNCHANGED <<map, request>>

StartFails(x) ==
  /\ StartMayFail /\ thread[x].at = "start"
  /\ thread' = [thread EXCEPT ![x] = [At("fail", thread[x].of) EXCEPT !.extra = 1]]
  /\ request' = [request EXCEPT ![thread[x].for] = Unanswered]
  /\ UNCHANGED <<map, tracker>>

(* CreateJob of the job that completes the load.  That it runs although    *)
(* the load job has already failed is JobQueue's doing.                    *)
CreateCompletion(x, wantsJob) ==
  LET t == thread[x].of
  IN  /\ thread[x].at = "started"
      /\ Releases(x, t, 1)
      /\ tracker' = [tracker EXCEPT
                       ![t].refs = @ - 1,
                       ![t].completing = CASE tracker[t].load = "running" -> "waiting"
                                           [] tracker[t].load = "ok" -> "runnable"
                                           [] tracker[t].load = "failed" ->
                                                IF RunsIfFailed THEN "runnable" ELSE "aborted"]
      /\ request' = [request EXCEPT ![thread[x].for].job = IF wantsJob THEN "completing" ELSE "none"]
      /\ UNCHANGED map

-----------------------------------------------------------------------------
(* The load job, and the job that completes the load.                      *)

(* The last runner of a load that succeeds is destroyed before its job is  *)
(* done.                                                                   *)
LoadSucceeds(t) ==
  /\ tracker[t].load = "running"
  /\ tracker' = [tracker EXCEPT ![t].load = "ok", ![t].loading = FALSE, ![t].refs = @ - 1,
                                ![t].completing = IF @ = "waiting" THEN "runnable" ELSE @]
  /\ UNCHANGED <<map, request, thread>>

(* When it fails, runners that will not run live as long as their jobs.    *)
LoadFails(t) ==
  /\ tracker[t].load = "running"
  /\ tracker' = [tracker EXCEPT ![t].load = "failed",
                                ![t].completing = IF @ = "waiting" THEN "aborted" ELSE @]
  /\ UNCHANGED <<map, request, thread>>

LoaderReleases(x, t) ==
  /\ IsIdle(x) /\ tracker[t].load = "failed" /\ tracker[t].loading
  /\ Releases(x, t, 1)
  /\ tracker' = [tracker EXCEPT ![t].loading = FALSE, ![t].refs = @ - 1]
  /\ UNCHANGED <<map, request>>

(* The tracker's future container and signaler are moved out, and n        *)
(* references are added.                                                   *)
TakesSignaler(t, n) ==
  [tracker EXCEPT ![t].pending = FALSE, ![t].signaler = FALSE, ![t].refs = @ + n]

(* SucceedLoading: the section that takes the future and the signaler and  *)
(* refers to the resource, Complete, and SignalDone.                       *)
RunCompletion(x, t) ==
  /\ IsIdle(x) /\ tracker[t].completing = "runnable"
  /\ tracker' = [TakesSignaler(t, 1) EXCEPT ![t].completing = "running"]
  /\ thread' = [thread EXCEPT ![x] = [At("complete", t) EXCEPT !.signals = tracker[t].signaler]]
  /\ UNCHANGED <<map, request>>

SettlesFuture(x, t, state, next) ==
  /\ tracker' = [tracker EXCEPT ![t].future = state]
  /\ thread' = [thread EXCEPT ![x].at = next]
  /\ UNCHANGED <<map, request>>

Signals(x, t, state, next) ==
  /\ tracker' = IF thread[x].signals THEN [tracker EXCEPT ![t].signaled = state] ELSE tracker
  /\ thread' = [thread EXCEPT ![x].at = next]
  /\ UNCHANGED <<map, request>>

\* Mutant of Complete: the signaler is signaled before the future is completed.
SignalsFirst(x) ==
  /\ thread[x].at = "complete"
  /\ Signals(x, thread[x].of, "done", "completed")

Complete(x) ==
  /\ thread[x].at = "complete"
  /\ SettlesFuture(x, thread[x].of, "completed", "completed")

CompleteSignals(x) ==
  /\ thread[x].at = "completed"
  /\ Signals(x, thread[x].of, "done", "loaded")

(* The clients whose request shares the future of t's load.                *)
Sharers(t) == {q \in Requests : request[q].of = t /\ request[q].future = "load"}

(* The end of SucceedLoading and of OnLoadCompleted: the notifier lets go  *)
(* of the tracker, and the future of its result if nobody else has it.     *)
CompletionEnds(x) ==
  LET t == thread[x].of
      n == IF Sharers(t) = {} THEN 2 ELSE 1
  IN  /\ thread[x].at = "loaded"
      /\ Releases(x, t, n)
      /\ tracker' = [tracker EXCEPT ![t].refs = @ - n, ![t].completing = "done"]
      /\ UNCHANGED <<map, request>>

-----------------------------------------------------------------------------
(* FailLoading, from the notifier's destructor.                            *)

\* Mutant of DestroyCompletion: the notifier only lets go of the tracker.
DestroysSilently(x, t) ==
  /\ IsIdle(x) /\ tracker[t].completing = "aborted"
  /\ \A q \in Requests : ~(request[q].of = t /\ request[q].job = "completing")
  /\ Releases(x, t, 1)
  /\ tracker' = [tracker EXCEPT ![t].completing = "gone", ![t].refs = @ - 1]
  /\ UNCHANGED <<map, request>>

(* An aborted job and its runner are destroyed when nobody has the job.    *)
DestroyCompletion(x, t) ==
  /\ IsIdle(x) /\ tracker[t].completing = "aborted"
  /\ \A q \in Requests : ~(request[q].of = t /\ request[q].job = "completing")
  /\ tracker' = [tracker EXCEPT ![t].completing = "gone"]
  /\ thread' = [thread EXCEPT ![x] = At("fail", t)]
  /\ UNCHANGED <<map, request>>

FailTakes(x) ==
  LET t == thread[x].of
  IN  /\ thread[x].at = "fail"
      /\ tracker' = TakesSignaler(t, 0)
      /\ thread' = [thread EXCEPT ![x].at = "failing", ![x].signals = tracker[t].signaler]
      /\ UNCHANGED <<map, request>>

Fail(x) ==
  /\ thread[x].at = "failing"
  /\ SettlesFuture(x, thread[x].of, "failed", "failed")

FailSignals(x) ==
  /\ thread[x].at = "failed"
  /\ Signals(x, thread[x].of, "failed", "notified")

\* Mutant of FailEnds: a request that failed keeps its reference.
FailKeepsReference(x) ==
  LET t == thread[x].of
  IN  /\ thread[x].at = "notified"
      /\ Releases(x, t, 1)
      /\ tracker' = [tracker EXCEPT ![t].refs = @ - 1]
      /\ UNCHANGED <<map, request>>

(* The notifier lets go of the tracker, and so does a request that failed. *)
FailEnds(x) ==
  LET t == thread[x].of
      n == 1 + thread[x].extra
  IN  /\ thread[x].at = "notified"
      /\ Releases(x, t, n)
      /\ tracker' = [tracker EXCEPT ![t].refs = @ - n]
      /\ UNCHANGED <<map, request>>

-----------------------------------------------------------------------------
(* RCTrackerZero.                                                          *)

\* Mutant of Resurrected: the reference count is not looked at again.
NeverResurrected(t) == FALSE

Resurrected(t) == tracker[t].refs # 0

Unregistered(t) == [k \in Keys |-> IF map[k] = t THEN NoTracker ELSE map[k]]

TrackerZero(x) ==
  LET t == thread[x].of
  IN  /\ thread[x].at = "zero"
      /\ \/ /\ Resurrected(t)
            /\ thread' = [thread EXCEPT ![x] = Idle]
            /\ UNCHANGED map
         \/ /\ ~Resurrected(t)
            /\ thread' = [thread EXCEPT ![x].at = "delete"]
            /\ map' = Unregistered(t)
      /\ UNCHANGED <<tracker, request>>

Delete(x) ==
  /\ thread[x].at = "delete"
  /\ tracker' = [tracker EXCEPT ![thread[x].of].life = "deleted"]
  /\ thread' = [thread EXCEPT ![x] = Idle]
  /\ UNCHANGED <<map, request>>

-----------------------------------------------------------------------------
(* Clients.                                                                *)

DropJob(q) ==
  /\ request[q].job # "none"
  /\ request' = [request EXCEPT ![q].job = "none"]
  /\ UNCHANGED <<map, tracker, thread>>

(* The result in a completed future is a reference, which goes with the    *)
(* last one who has the future.                                            *)
Completing(t) == \E x \in Threads : thread[x].of = t /\ thread[x].at \in {"complete", "completed", "loaded"}

DropFuture(x, q) ==
  LET t == request[q].of
      n == IF \/ request[q].future = "own"
              \/ tracker[t].future = "completed" /\ Sharers(t) = {q} /\ ~Completing(t)
           THEN 1 ELSE 0
  IN  /\ IsIdle(x) /\ request[q] # Unanswered /\ request[q].job = "none"
      /\ \A y \in Threads : thread[y].for # q
      /\ Releases(x, t, n)
      /\ tracker' = [tracker EXCEPT ![t].refs = @ - n]
      /\ request' = [request EXCEPT ![q] = Unanswered]
      /\ UNCHANGED map

-----------------------------------------------------------------------------
Init ==
  /\ map = [k \in Keys |-> NoTracker]
  /\ tracker = [t \in Trackers |-> NotMade]
  /\ request = [q \in Requests |-> Unanswered]
  /\ thread = [x \in Threads |-> Idle]

GetResource(x) ==
  \E k \in Keys, q \in Requests :
    \/ \E wantsJob \in BOOLEAN : JoinLoad(x, k, q, wantsJob)
    \/ GetLoaded(x, k, q)
    \/ \E t \in Trackers : Register(x, k, q, t)

(* What a thread goes on with once it has begun.                           *)
Proceeds(x) ==
  \/ StartLoad(x) \/ StartFails(x) \/ \E wantsJob \in BOOLEAN : CreateCompletion(x, wantsJob)
  \/ Complete(x) \/ CompleteSignals(x) \/ CompletionEnds(x)
  \/ FailTakes(x) \/ Fail(x) \/ FailSignals(x) \/ FailEnds(x)
  \/ TrackerZero(x) \/ Delete(x)

(* What becomes of a load.                                                 *)
Loads(t) ==
  \/ LoadSucceeds(t) \/ LoadFails(t)
  \/ \E x \in Threads : LoaderReleases(x, t) \/ RunCompletion(x, t) \/ DestroyCompletion(x, t)

Next ==
  \/ \E x \in Threads : GetResource(x) \/ Proceeds(x) \/ \E q \in Requests : DropFuture(x, q)
  \/ \E q \in Requests : DropJob(q)
  \/ \E t \in Trackers : Loads(t)

(* Every thread is scheduled, load jobs end, jobs that can run are run,    *)
(* and clients hold a job's handle in local variables only.  What Loads    *)
(* has happens once per load, so fairness of the whole is fairness of each.*)
Fairness ==
  /\ \A x \in Threads : WF_rmVars(Proceeds(x))
  /\ \A q \in Requests : WF_rmVars(DropJob(q))
  /\ \A t \in Trackers : WF_rmVars(Loads(t))

Spec == Init /\ [][Next]_rmVars
FairSpec == Spec /\ Fairness

-----------------------------------------------------------------------------
RMTypeOK ==
  /\ map \in [Keys -> Trackers \cup {NoTracker}]
  /\ \A t \in Trackers :
       /\ tracker[t].life \in {"unused", "live", "deleted"} /\ tracker[t].refs \in Nat
       /\ tracker[t].future \in {"none", "waiting", "completed", "failed"}
       /\ tracker[t].signaled \in {"none", "waiting", "done", "failed"}
       /\ tracker[t].completing \in {"none", "waiting", "runnable", "running", "done", "aborted", "gone"}
  /\ \A q \in Requests : request[q].of \in Trackers \cup {NoTracker}
  /\ \A x \in Threads : thread[x].of \in Trackers \cup {NoTracker}

(* The trackers that a client, a job or a thread refers to.                *)
HasResource(q) ==
  \/ request[q].future = "own"
  \/ request[q].future = "load" /\ tracker[request[q].of].future = "completed"
HeldByClient(t) == \E q \in Requests : request[q].of = t /\ HasResource(q)
HeldByJob(t) == tracker[t].loading \/ tracker[t].completing \in {"waiting", "runnable", "running", "aborted"}
HeldByThread(t) == \E x \in Threads : thread[x].of = t

(* However requests, completions and last releases interleave, what a      *)
(* client, a job, a thread or the map refers to has not been deleted.      *)
NothingDangles ==
  \A t \in Trackers :
    HeldByClient(t) \/ HeldByJob(t) \/ HeldByThread(t) \/ (\E k \in Keys : map[k] = t)
      => tracker[t].life = "live"

(* A resource that nobody refers to any more is gone: resurrection and     *)
(* shared futures lose no release.                                         *)
NoLeak ==
  \A t \in Trackers :
    tracker[t].life = "live" => HeldByClient(t) \/ HeldByJob(t) \/ HeldByThread(t)

(* Both kinds of job a request may get say the truth about its future: it  *)
(* has the resource before the job has succeeded, and has failed before    *)
(* the signaled job does.                                                  *)
FutureBeforeJob ==
  \A q \in Requests :
    LET t == request[q].of
    IN  /\ request[q].job = "completing" /\ tracker[t].completing = "done" => tracker[t].future = "completed"
        /\ request[q].job = "signaled" =>
             /\ tracker[t].signaled = "done" => tracker[t].future = "completed"
             /\ tracker[t].signaled = "failed" => tracker[t].future = "failed"

(* A future that has been completed has a resource whose load succeeded.   *)
CompletedMeansLoaded ==
  \A q \in Requests : HasResource(q) => tracker[request[q].of].load = "ok"

(* Every request is answered: the future of a load is completed or fails,  *)
(* and so does the job made for those who share it.                        *)
RequestsAreAnswered ==
  \A t \in Trackers :
    /\ []<>(tracker[t].future # "waiting")
    /\ []<>(tracker[t].signaled # "waiting")
===============================================================================
