# Verification of anoxrunner in TLA+

anoxrunner (`src/`) is a game engine runtime in C++: the RKit libraries (`RKit_*`,
`include/rkit`) and, on top of them, the Anox program (`Anox_*`).  Almost everything it
does, loading, rendering, audio, runs as jobs of one asynchronous job queue that a pool of
worker threads and the main thread share.  This directory holds the TLA+ modules that model
the code, the TLC configurations that check them and the proofs that TLAPS checks.

    tlc -workers 2 -config JobQueue_general.cfg MCJobQueue
    tlc -workers 2 -config ThreadPool_live.cfg  MCThreadPool
    tlc -workers 2 -config BuildSystem_incremental.cfg MCBuildSystem
    tlc -workers 2 -config EngineParts_all.cfg EngineParts
    tlc -workers 2 -config Containers_all.cfg Containers
    tlapm JobQueueProofs.tla
    tlapm ThreadPoolProofs.tla
    tlapm ResourceManagerProofs.tla
    tlapm EnginePartsProofs.tla
    tlapm LifecycleProofs.tla
    tlapm BuildSystemProofs.tla
    tlapm FreshnessProofs.tla
    tlapm RingBufferProofs.tla

## The system

| Part | State | Operations | Talks to |
|---|---|---|---|
| Job queue, `RKit_Utilities/JobQueue.cpp` | per job: dependency counter, downstream list, completed / failed / dependency-failed, queued / started; per job type: a pending list and a ring of idle threads; a ring of waiters per job; closing flag, first fault | CreateJob, CreateSignaledJob, SignalDone, JobImpl::Run, WaitForWork, WaitForJob, Fault, Close | called by every thread; calls job runners, which call it back |
| Thread pool, `RKit_Utilities/ThreadPool.cpp` | the worker threads and the job types each serves | Initialize, the worker loop, Close | owns a job queue |
| Resource manager, `Anox_MainProgram/AnoxResourceManager.cpp` | resources by key, each with a reference count, a pending future and a completion job | request a resource, succeed or fail loading, drop a reference | job queue, file system, loaders |
| Game resources, `Anox_MainProgram/AnoxGameResourceManager.cpp` | requests and resources by number, lists of free numbers, a map from addresses to numbers | request, poll, discard, acquire and release a resource | the resource manager, the game's code |
| Graphics, `Anox_MainProgram/AnoxGraphicsSubsystem.cpp`, `AnoxGraphicTimelinedResource.cpp` | a sync point per frame in flight, a ring of upload memory, waiting and active uploads, condemned resources | begin, retire and end a frame, upload, dispose | job queue, render driver, GPU |
| Audio, `Anox_MainProgram/AnoxAudioSubsystem.cpp`, `AnoxGameAudioManager.cpp` | command lists, added, active, inactive and removed emitters | add, play, remove, mix, shut down | the audio thread |
| Async I/O, `RKit_System_Win32/AsyncIOThread_Win32.cpp`, `Anox_MainProgram/AnoxLoadEntireFileJob.cpp` | pending and in-progress tasks, a kick event, closing flag | post, dequeue, issue, complete, close | Windows, job signalers |
| Build graph, `RKit_Build/BuildSystemInstance.cpp` | nodes with states, files and dependencies, a stack of nodes being checked, the cache and the content on disk | load, check, analyse, order, compile, export, save | compilers, file system |
| Render window, `RKit_System_Win32/DisplayManager_Win32.cpp` | a queue of actions, whether the window's thread waits for a kick | create, post a task, change the mode, destroy | the ring buffer, Windows messages |
| Resizable ring buffer, `include/rkit/Core/ResizableRingBuffer.h` | a list of memory chunks, each a ring of bytes, and a list of info block rings | Allocate, Dispose | the render window's actions |
| Hash table, `include/rkit/Core/HashTable.h` | slots in rings, an occupancy bit and an entry for each | Set, Add, Find, Remove, Clear | almost everything |
| Sorting, `include/rkit/Core/QuickSort.h`, `SmoothSort.h` | none | QuickSort, SmoothSort | |
| Command stack, `Anox_MainProgram/AnoxCommandStack.cpp` | lines in a byte buffer | Push, PushMultiple, Pop | command registry, key bindings |
| Streams, `RKit_Utilities/MutexProtectedStream.cpp` | a position per stream, one shared file | read, write, seek, truncate | file system |

All but the last two are modelled, some of them in part; everything else is listed under
*Not modelled* with the reason.

What is hard about it.  The queue's state is under two mutexes (`m_distributorMutex`,
`m_depGraphMutex`), some of it is read or written under neither, sleeping threads publish
pointers into their own stacks, job runners call back into the queue, and closing races with
all of it.  Above the queue, resources are found again while they are being destroyed, and
completion, failure and shutdown are spread over threads.  An upload is planned by the main
thread over several frames, copied by the pool's threads, executed by the GPU and released
when its frame is retired, in memory that is used again as a ring.  The audio thread and the
game's thread hand lists to each other; a read that is posted while its thread is closed, or
between two of its waits, may be forgotten.  A build runs over files that are edited under it
and may be killed between any two writes.  `PROJECT.json` lists each hazard at its line.

What makes each part correct: a job runs at most once, after its dependencies have succeeded,
or is aborted; no wake-up is lost; waits and closing end.  A key has at most one live
resource and every request is answered, with a failure if loading failed.  A number of a game
resource means the same as long as somebody holds it.  What the GPU copies is the data that
was to be uploaded, an upload that is reported done is done, and a resource is not destroyed
while a frame may use it.  The audio thread reaches exactly the emitters it has to.  Every
read is settled.  A build that succeeds leaves what a build from nothing would leave, and a
kill leaves a usable cache.  Blocks of the ring buffer do not overlap and its chunks are found
where the blocks say; a table finds exactly its entries.

## The modules

| Module | Content |
|---|---|
| `JobQueue` | the job queue: one step per critical section or unlocked access |
| `JobLifecycle` | abstract specification: what the queue promises about a job |
| `JobQueueLifecycle` | the refinement mapping from `JobQueue` to `JobLifecycle` |
| `MCJobQueue` | small instances, statements the code does not keep |
| `ThreadPool` | the pool's workers, main thread and helpers over the queue, with fairness |
| `MCThreadPool` | an instance: two workers, the main thread, one helper |
| `ResourceManager` | trackers of shared resources, their loads and the clients that request them |
| `BuildSystem`, `MCBuildSystem` | the incremental build, its cache, content and catalog; an instance |
| `FrameTimeline` | frames in flight, upload memory, uploads and condemned resources |
| `AudioMixer` | emitters between the game's thread and the audio thread |
| `AsyncFileIO` | reads of whole files by the I/O thread, and its closing |
| `GameResources` | the numbers of requests and resources that the game's code holds |
| `RenderWindow` | the window's thread, its queue of actions and kicks, its owner and clients |
| `EngineParts` | the last five and `ResourceManager`, which share no state, in one specification |
| `ResizableRingBuffer` | the ring buffer, with its instance's bounds as constants |
| `HashTable` | the hash table's rings of slots |
| `Sorting` | quick sort with smooth sort behind it |
| `Containers` | the last three, in one specification |
| `JobQueueProofs`, `LifecycleProofs` | the queue's inductive invariants and the theorems from them, the second on top of the first |
| `BuildSystemProofs`, `FreshnessProofs` | those of the build, the second on top of the first, about what a build in peace finds and leaves |
| `EnginePartsProofs` | those of `FrameTimeline` and `GameResources`, side by side |
| `ThreadPoolProofs`, `ResourceManagerProofs`, `RingBufferProofs` | those of the other parts |

`ThreadPool` composes the queue with its threads.  `EngineParts` and `Containers` only put
parts side by side: the variable `part` says which one is explored, and the others stand
still.  One run then checks all of them, each in all of its states.  `AsyncFileIO`,
`FrameTimeline` and `ResourceManager` use the job queue, and contain what `JobQueue` and
`ThreadPool` show of it: a job runs after its dependencies, on some thread, in the end.

### JobQueue

A thread is a call stack.  `fr[t].op` is the point it has reached, between two critical
sections, and `stack[t]` holds the calls below: JobDone calls AddRunnableJob, which may call
JobDone again on its abort path, and a running job may create, signal and wait for others.

| Action | Code in `JobQueue.cpp` |
|---|---|
| `CreateJob`, `CreatedJob`, `CreateReturns` | CreateJob: section of `m_depGraphMutex` (515-556), unlocked test of the counter (558), return (561) |
| `CreateSignaledJob`, `SignalDone` | 567-579; SignalDone and the signaler's destructor (299-328) |
| `RunEnter`, `RunnerReturns` | JobImpl::Run, up to and after the runner (268-297) |
| `JobDonePublish`, `JobDoneWake` | JobDone: section of `m_depGraphMutex` with DependencyDone (686-701, 736-757), section of `m_distributorMutex` (705-721) |
| `AddRunnableJob` = `AddAborts`, `AddHandsOver`, `AddQueues`; `AddMarksStarted` | AddRunnableJob (586-680); line 604 runs after the unlock of 602 |
| `WaitForWork`, `WaitForJob`, `TakeSpecified`, `TakePending`, `Sleep` | one pass of WaitForWorkOrJob under `m_distributorMutex` (824-974) |
| `Awake` | after AwaitWake (854-872, 976-998) and the caller's dispatch (763-806) |
| `CallClose`, `CloseAbortsPending`, `CloseUnlinks`, `CloseWakes`, `CloseAwaitsAck` | PrivClose (430, 437-455, 464-481, 489, 491) |

`job[j]` has JobImpl's fields under their names without prefix, the state of the job's
signaler if it has one, and three history fields: `made` (CreateJob has returned), `deps`
(the dependencies named) and `runs` (how often the runner was started).  `wti[t]` is the
thread's JobQueueWaitingThreadInfo: `catWait` is the types of the ring it is linked in,
`jobWait` the job whose ring it is linked in, and `disp` is not `Invalid` when its wake event
is signaled.

Abstractions:

- The intrusive rings are sets, so the member that is woken first is any member: more
  behaviours than the code has.  The same holds for the order in which jobs made runnable by
  one completion are added, and in which PrivClose visits the lists.
- Allocation never fails, and a dependency list names a job once.
- `m_result` is whether a fault was recorded.
- A job is added to a pending list it is already in only after the race that the run
  `JobQueue_doubleStart` shows; the links of the list are then corrupt in the code, and the
  model's sequence names the job twice.
- Close is called once, by client code (a second call finds everything empty).
- WaitForWork is called by threads that are not running a job, as all callers in `src/` do.
- `MaxDepth` bounds a thread's call stack at calls from outside the queue; the theorems hold
  for every value of it.

`Uninterrupted` is the set of program points at which no other thread is scheduled.  It is
empty in all runs but two, which set it to `{"created"}`: the window between CreateJob's
locked section and its unlocked test.

### ThreadPool

Adds to `JobQueue` the worker loop (`WorkerWaits`, `WorkerChecks`: Run, lines 199-214), the
job types Initialize gives each worker, closing and joining (`CallClose`, `JoinsWorkers`:
PrivClose, 113-142), and other threads, such as the asynchronous I/O thread, that only
signal.  The main thread creates jobs, takes work without waiting, waits for jobs and closes.

Fairness is weak fairness of each thread's own steps: the operating system schedules every
thread, a runner that was started returns, and whoever holds a signaler signals it or lets
go of it, in which case the destructor signals the failure (lines 305-310).  Nothing forces
clients to create jobs, wait or close.  Mutexes are held for finite sections only.

### ResizableRingBuffer

`mem` and `info` are the two chunk lists as sequences: the first element is `m_firstMemChunk`
(`m_firstInfoBlockChunk`), the last is `m_lastMemChunk` (`m_lastInfoBlockChunk`), and a
chunk's record has its capacity, first used address, used size and number of allocations, or
its first active slot, number of active blocks and the blocks.  `held` is what callers hold
and what they were told.

| Action | Code in `ResizableRingBuffer.h` |
|---|---|
| `Allocate` | Allocate (216-400): `Places` is where the block fits in the last chunk, `Capacity` the size of a new one |
| `Dispose` | Dispose up to its loop (402-419) |
| `RemoveHead` | a pass whose head block is not allocated (447-489) |
| `Reclaimed` | the pass that ends the loop (424-445) |

The buffer has no lock of its own; its operations do not overlap in the model.  The window
thread's call of Dispose without the mutex (`DisplayManager_Win32.cpp:886`) is not covered,
and listed as a hazard.  Chunks are known by position and renumbered when the first goes.
Exhaustion of memory, the limits of `AddrOffset_t` and the destructor are left out.

`GrowsWhenEmpty` says whether callers may ask an empty buffer for more than its last chunk
holds.  What happens then is the run `ResizableRingBuffer_growth`; the passing run excludes
this one call, and no growth of a buffer that holds something.

### ResourceManager

`map` is the tracker registered for each key.  `tracker[t]` is an AnoxResourceTracker with
its reference count, whether it has its pending future and its signaler, and the states of
the load future, of the signaled job, of the load job and of the job that completes the load.
`request[q]` is what a client holds, a future and perhaps a job; `thread[x]` is the point a
thread has reached between two sections of `m_resourcesMutex`.

| Action | Code in `AnoxResourceManager.cpp` |
|---|---|
| `JoinLoad`, `GetLoaded`, `Register` | InternalGetResource: a load that is pending (548-574), a tracker without a pending load (575-602), a new one (605-670) |
| `StartLoad`, `StartFails`, `CreateCompletion` | the load job (672-683), its failure, the job that completes the load (685-698) |
| `LoadSucceeds`, `LoadFails`, `LoaderReleases` | the loader's jobs as the job queue runs, aborts and destroys them |
| `RunCompletion`, `Complete`, `CompleteSignals`, `CompletionEnds` | SucceedLoading (299-324) and OnLoadCompleted (337-341) |
| `DestroyCompletion`, `FailTakes`, `Fail`, `FailSignals`, `FailEnds` | the notifier's destructor (331-335) and FailLoading (277-297) |
| `TrackerZero`, `Delete` | RCTrackerZero (249-275), entered by whoever drops a last reference (`Releases`) |
| `DropJob`, `DropFuture` | clients |

The jobs are those of `JobQueue` reduced to what it says of them: a job runs after its
dependency has succeeded or is aborted, an aborted job keeps its runner as long as somebody
has the job.  `RunsIfFailed` adds what that queue does when the load has failed before
CreateJob of the completing job: the job runs, and a load that has failed is completed.
`StartMayFail` lets BaseCreateLoadJob fail.  `DropsWhileZeroing` lets a thread drop a last
reference while another one is in RCTrackerZero of the same tracker, which takes a
resurrection in between; `ResourceManager_lastReference` shows what happens then, and the
passing run, `EngineParts_all`, leaves out this one step.

Left out: the list of resources, which only says that a tracker is registered; the
registration of loaders; key types; memory exhaustion; the closing of the job queue.  The end
of the completing job is one step with its runner's last release.

Fairness: threads are scheduled, load jobs end, a job that can run is run (what
`ThreadPool_live` shows of the pool), and a client that got a job lets go of it some day:
callers in `src/` keep jobs in local lists of dependencies.

### BuildSystem

`disk` is what outlives a process: `file` (the data and the status of each source, analysis
and product), `content` (by content ID), `catalog`, `cache` (the position and the nodes of the
instance that the header names) and `version` of each node's compiler.  `node` is the graph in
memory with what the cache keeps of each node, `run` the rest of the process: where it is
(`pc`), the state of the check per node, the stack, the ordered nodes, the statuses that were
looked up, and the compiler's work on one node.  `past` counts and remembers what the
properties ask for.

| Action | Code in `BuildSystemInstance.cpp` and others |
|---|---|
| `Begin` | LoadCache, the root node, what precedes the check (1846-1960, 2065-2090) |
| `CheckFiles`, `CheckDependency`, `CircularDependency`, `DependenciesChecked` | ProcessTopDepCheck by state: CheckNodeFilesAndVersion (2404-2542), CheckNodeNodeDependencies (2544-2584) |
| `Stratify` | StratifyRelevantNodes (2587-2635) |
| `NotCompiledAgain`, `CompileDepsNode`, `StartCompile` | the loop over the strata (2092-2105) |
| `OpenInput`, `CannotRead`, `ReadDepsFile`, `ReadAssetSource`, `ReadAnalysis`, `ReadLeaf`, `TryOptional`, `CreateOutput`, `CloseOutput`, `IndexCAS` | what compilers do with the feedback object (1476-1710), one step per access to a file |
| `ExportNeeded`, `CreateCatalog`, `WriteCatalog` | AnoxDataBuilder's ExportScriptCatalog (162-226) |
| `CopyContent`, `MoveContent`, `NoContentSource` | UpdateCAS (2860-2940) |
| `WriteInstance`, `WriteHeader` | SaveCache (2131-2230) |
| `Killed`, `Edit`, `RemoveFile`, `RemoveContent`, `Upgrade` | the user and the system |

Abstractions: one root, as the program has; three kinds of nodes, a deps file, an asset that
does what the compilers of `Anox_Build` do between them (read its source, analyse, use an
optional file, read a product, index content) and a leaf that is copied.  The data of a file
is what it was made from, so that a wrong product is a different value, and a content ID is
the content.  A status is a number that no record has for the file yet, as a time would be.
The check of one node's files is one step (lookups commute with each other, and edits between
them are as edits before or after).  The header of the cache is written in one step, and a
kill is that of the process, not of the machine: what was written stays.  Left out: several
roots, nodes made of content, unordered dependencies, the merging of pipeline libraries,
malformed files, failed writes, exhaustion of memory, loss of the catalog.

### FrameTimeline

`sync[i]` is a FrameSyncPoint: its planned copies, the uploads that are retired with it, the
final mark, its condemned resources and the states of its four jobs; a batch is "submitted"
until the GPU has executed it.  `low`, `high`, `full` are the marks of the upload memory,
`heap` what is in it.  A task is known by the texture or buffer that it uploads; `left` is
what it has not planned yet.

| Action | Code in `AnoxGraphicsSubsystem.cpp` |
|---|---|
| `PostAsyncUploadTask` | 2417-2426 |
| `RetireOldestFrame` | 2935-3043: wait for the oldest frame, end its uploads, dispose of its resources, give its memory back |
| `ClearActions`, `StartTask`, `PumpTask` | PumpAsyncUploads' loop (3045-3072); TextureUploadTask and BufferUploadTask::PumpTask (2007-2194), one mip level or one copy a step |
| `PostCopyJobs`, `EndFrame` | the jobs of the frame (3076-3124), condemned resources and the next sync point (3150-3211) |
| `MemCopy`, `Cleanup`, `CopyUploads`, `CloseFrame` | the jobs, as their dependencies let the pool run them |
| `DmaExecutes`, `GraphicsExecutes` | the GPU, in the order of each queue and its fences |
| `RCTrackerZero`, `AsyncDispose` | the last reference to a resource, and its destruction |

A display mode other than the splash screen is set.  Recording and submitting a batch is one
step.  Upload memory is counted in units of its alignment.  Left out: layouts, the window's
batches, command allocators, pipelines and their caches.

### AudioMixer

Emitters are linked through `next` and `prev` as in the code, so that a stale link is used
just as the code uses it; the lists have a first and a last emitter.

| Action | Code in `AnoxAudioSubsystem.cpp` |
|---|---|
| `AddEmitter`, `PostCommand`, `RemoveEmitter` | the game's thread (1600-1692), as GameAudioManager's PlayEmitter and DestroyEmitter call them |
| `TakeLists`, `ExecuteCommand`, `Render` | Render and ExecuteCommandLists (1453-1493, 1976-2036, 2063-2077) |
| `FlushRemoval`, `EndTick` | RunTrailingActions and FlushRemovals (1495-1499, 2038-2061) |
| `Shutdown` | 1187-1194 |

The audio thread ticks at any time, also between an emitter's creation and its first
command.  What the reference counts say, that nothing refers to an emitter any more, is
`Garbage`, read off the links.  `overtaken` is a history variable: an emitter was played from
behind a later one, and took its `m_prev` along.  `ListsAreSound` and `EmittersEnd` hold until
then; `DetachesFromItsList`, the two assertions of DetachItem (859, 866), holds always.

### AsyncFileIO

| Action | Code |
|---|---|
| `LoadJobFails`, `LoadsEmptyFile`, `PostRead` | AnoxFileResourcePostIOLoadJobRunner::Run, PostReadRequest |
| `WakeUp`, `Dequeue`, `Issue`, `AddInProgressTask`, `StartCompletion`, `CompleteRequest` | the I/O thread's loop, ContinueRequest and the completion routine, with the sections of its mutex apart |
| `Transfer` | the system ends a transfer: any number of bytes up to what was asked for, or an error |
| `StartClose`, `CancelTask`, `FindTask`, `FlushTask`, `StopThread`, `Join` | Close and the destructor |

### GameResources

Handles are the SandboxResourceRequestHandle and SandboxResourceHandle objects of the game's
code.  Each call is one step, for one thread makes them all: `GetKeyedResource`,
`TryFinishLoading`, `FailToFinish` (the map cannot grow), `DiscardRequest`, `DecRefResource`;
`Load` is the resource manager behind it, which may put a resource where one that has ended
was.

### RenderWindow

| Action | Code in `DisplayManager_Win32.cpp` |
|---|---|
| `SetupWindow`, `ExitThread`, `DestroyWindow` | ThreadContext::Run (1118-1147) |
| `TakeAction`, `NoAction` | the locked part of ThreadFunc (858-880) |
| `RunCustomTask`, `ChangeDisplayMode` | the actions (1004-1071) |
| `HandleKick`, `GetMessageFails`, `UserCloses` | ThreadProcessWinMessages and the window procedure (902-927, 1078-1112) |
| `PostTask`, `TaskIsDone` | PostWindowThreadTask and its caller's wait |
| `Initialized`, `BecomeBorderlessFullScreen`, `ModeIsChanged` | Initialize and CreateRenderWindow of the owner |
| `Destroy`, `WantToExit`, `KickThread`, `ThreadHasExited`, `WindowIsDestroyed` | the destructor (591-620) |

A client has the window only when its owner has created it, and the owner destroys it when
no client waits.  Where an action cannot be queued for lack of memory (801), a client is told
so and does not wait, and the owner destroys the window.

### HashTable and Sorting

`table` is the table's arrays, `entries` what it should hold.  A call is one step and each
helper of the code an operator of the same name; values go where their keys go.  Exhaustion
of memory (a rehash that fails leaves the table as it was) and constructors that fail are left
out.  In `Sorting` the loops of the code are recursive operators or folds; the arrays are a
constant and a behaviour sorts one of them.  The pair of words that encodes the heaps is one
number, as its high word is 0 for every array that fits in memory.

## The runs

| Run | Shows | Bounds |
|---|---|---|
| `JobQueue_general` | `TypeOK`, `NoLostWork`, `NoLostCompletion`, `OneWakePerWait`, `NoDroppedJob`, `ClosedQueueIsEmpty`, under every schedule | main thread, worker of both types, worker of one type; 2 jobs, 2 types; stack depth 3 |
| `JobQueue_ordering` | the queue implements `JobLifecycle` (`KeepsLifecycle`); WaitForJob returns with the job done (`WaitedJobIsDone`) | 2 threads, 3 jobs, 1 type, stack depth 3 |
| `JobQueue_failedDependency` | violated: "abort if one of them fails" (`notes/jobs.txt`) | 2 threads, 2 jobs |
| `JobQueue_doubleStart` | violated: the assertion of line 866 | 3 threads, 2 jobs, no failure, no closing |
| `ResizableRingBuffer_growth` | violated: the assertion of line 447 | sizes 1, 2, 3, 5; alignments 1, 2; chunks from 4 bytes, info rings from 2 blocks; 4 active blocks; `GrowsWhenEmpty` |
| `ResourceManager_failedLoad` | violated: `CompletedMeansLoaded`, what line 577 means by "loaded or failed" | the bounds of the resource manager below; neither `StartMayFail` nor `RunsIfFailed` |
| `ResourceManager_lastReference` | violated: `NothingDangles` | the same, with `RunsIfFailed` and `DropsWhileZeroing` |
| `ThreadPool_live` | every job ends unless there is a fault, and in any case once the pool is closed (`JobsEnd`); WaitForJob and Close let the main thread go on (`MainThreadGoesOn`); no worker works after the join (`NoWorkAfterJoin`) | 2 workers, main thread, helper; 2 jobs, 2 types |
| `BuildSystem_incremental` | a build that succeeds leaves what a build from nothing would (`FreshAfterBuild`) and its content (`ContentIsKept`); nodes are compiled after what they depend on (`DependenciesFirst`); circles are found exactly (`CircularMeansCircle`); a kill leaves a whole cache (`CacheIsWhole`); failures have a reason (`FailsForAReason`); nothing is done twice (`IdleBuildDoesNothing`) | a deps file, an asset, a leaf, with every order of dependency and a circle; 3 builds, 2 disturbances, 4 of both together |
| `EngineParts_all`, resource manager | nothing that is referred to is deleted (`NothingDangles`), nothing is left behind (`NoLeak`), a request's future is settled before its job (`FutureBeforeJob`), every request is answered (`RequestsAreAnswered`) | 2 threads, 1 key, 2 trackers, 2 requests; no `DropsWhileZeroing` |
| timeline | `CopiesAreWhole`, `DoneMeansUploaded`, `UploadsFinish` | 3 frames in flight, memory of 6 units, a texture of 2 mip levels and a buffer |
| mixer | `ListsAreSound` and `EmittersEnd`, unless `overtaken`; `DetachesFromItsList` | 3 emitters, 2 commands |
| file I/O | `LoadsSettle` | 2 loads, of files of 0, 2 or 3 bytes, transfers of 2 at most |
| resources | `HandlesAreSound` | 3 handles, 2 keys, 2 addresses |
| window | `WindowWaitsEnd` | 2 clients, the owner, the window's thread |
| `AudioMixer_overtaken` | violated: "Dead emitters are removed" (line 1612), as `DeadEmittersAreRemoved` | 2 emitters, 2 commands |
| `Containers_all`, ring buffer | blocks that callers hold do not overlap (`NoOverlap`), their handles stay good (`HandlesValid`), Dispose's assertions hold (`HeadIsInFirstChunk`), an empty buffer is one empty chunk of each kind (`DrainedIsEmpty`) | as `ResizableRingBuffer_growth`, without `GrowsWhenEmpty` |
| hash table | `TableFindsEntries` | 5 keys with 4 hash values, capacities 4 and 8 |
| sorting | `SortedArrayIsInOrder` | all arrays of 3 values up to length 9 and of 2 values up to 13, sorted ones up to 24; smooth sort at depth 0 and 2 |

Why the bounds suffice: the hazards are races between the thread that makes a job runnable,
one that looks for it and one that closes or waits, so three threads; a dependency and its
dependent are two jobs, and with three a job has two dependencies that end on different
threads; two types give a ring for one type, a ring for several and a type nobody present
serves.  Depth 3 lets a job's runner wait for a job and run it, and that one do so again.
Jobs are interchangeable and no property names one, so symmetry over them is sound; the run
with liveness properties uses none.  Deadlock is not checked: when all jobs are made and all
threads sleep the system may stop, and that it stops only so is what the liveness properties
say.  In the ring buffer 4 blocks fill an info ring of 2 and go on in one of 4; sizes 1 to 3
leave chunks of 4 with a gap at the end, with room at the start and wrapped; 5 forces a
chunk of 8 behind one of 4.  In the resource manager one thread is
in RCTrackerZero or completes or fails a load while the other one requests or drops; two
requests share a future or find a loaded resource; the second tracker is the key registered
again while the first is on its way out.  Keys do not interact.  Each tracker is used once,
so the system stops when both are gone and deadlock is not checked.

In the build, two disturbances are an edit and a kill, or an edit during one build and one
after it; three builds are one to make the cache, one that is disturbed and one that has to
notice.  With four events together each of these still happens in every order.  Of the three
nodes one lists, one uses and one is used; the texts make the asset depend on the leaf's
product, on its source, or on the deps file, which is the circle.

In the timeline 6 units hold both mip levels (3 and 2) but not the buffer (2) as well, so the
memory fills up, wraps, is left unused at its end and is reset, and an upload goes on over
several frames; with 3 sync points a frame is retired while two are in flight.  Three
emitters make a list with a middle.  Files of 0, 2 and 3 bytes with transfers of 2 are loaded
without a transfer, by one and by several; with three loads (521,562 states for that part
alone) the result is the same.  Two addresses are enough for a resource to be loaded where
another one was.  Two clients queue an action while another one is running.  The five keys
are two with one main position, one whose main position the second of these takes, one that
collides with them only in the small table, and one of the last slot, for which the search
for a free slot starts again from the first.  Arrays of 24 make
heaps of up to 15 elements for smooth sort, and depth 2 hands it pieces at any place of an
array.

Fairness in `EngineParts`: that of the resource manager as above; the main thread goes through its frames, each job runs and each
thread is scheduled, the GPU executes what is submitted, a transfer ends, a close that has
begun goes on, the window's thread and its owner go on with what they are in.  The game's
thread need not call anything, except for the second half of a first PlayEmitter, and the
user need not do anything.

Deadlock is not checked in these runs either: all uploads, loads or handles may have come to
their end, a sorted array is not sorted again, and builds are bounded.

`JobQueue_ordering` is restricted to jobs whose dependencies have not failed when CreateJob
is called (`NameFailed`) and to `Uninterrupted = {"created"}`.  The two violation runs show
what happens without the first restriction and without the second: the queue does not
implement `JobLifecycle` then.  The other passing runs have neither restriction.

### What disagrees

- **A dependency that had already failed.**  CreateJob sees the failure (527), marks the new
  job completed and failed and makes it runnable, but does not set
  `m_dgJobDependencyFailed`; AddRunnableJob (600) and Run (275) test only that flag, so the
  runner runs, and JobDone overwrites `m_dgJobFailed` with its result.  `notes/jobs.txt` says
  that the job aborts.
- **A job made runnable twice.**  CreateJob tests `m_numWaitingDependencies` (558) after it
  has released `m_depGraphMutex`, when the new job is already in its dependencies' downstream
  lists.  If the last of them completes in between, both DependencyDone (749) and CreateJob
  add the job.  The run's trace ends with a thread that waits for the job's completion being
  handed the job (613-620), which line 866 asserts cannot happen.
- **A ring buffer that grows while empty.**  Allocate of a block larger than the last chunk
  of an empty buffer appends a chunk; the empty one stays first, since chunks are dropped
  only by Dispose.  When the new block is disposed of, lines 447 (or 435, if another block is
  allocated behind it) assert that it lies in the first chunk, which it does not; and the
  loop that follows frees `headMemChunk` (466) for each chunk it drops, also for the one that
  is not it.  The render window, the only user in `src/`, asks for its largest action, the
  display mode change, first, so its first chunk is large enough for the others; the header
  makes no such demand.
- **A failed load answered with its resource.**  A tracker has `m_resource` from its creation
  on and FailLoading leaves it there.  A request that finds the tracker after FailLoading has
  taken the pending future, and before RCTrackerZero has unregistered it, takes the branch
  for "either loaded or failed" (577), sees a resource and completes its future with it; the
  `Fail` of line 598 is never reached.  The window is wide: the notifier's reference goes
  only after FailLoading, and the trackers of failed loads live as long as their load jobs.
- **A last reference dropped twice.**  RCTrackerZero allows for a request that finds the
  tracker before it has the mutex (254-257).  If that request's reference is dropped again
  before then, the count is 0 for both threads, and both unregister and delete the tracker.
- **An emitter that the active list keeps.**  PlayEmitter creates an emitter (335) and posts
  its command (338) in two locked sections.  A tick in between makes the emitter inactive; an
  emitter that is created before the next tick is put in front of it and becomes its `m_prev`,
  which DetachItem leaves as it is when the emitter is played.  The first of the active list
  then has an `m_prev`, and once it is removed DetachItem writes to that one's `m_next` and
  not to `m_first`: the list goes on referring to it, and to what it is linked to.

These six are the runs that end in a violation.  `ListsAreSound` and `EmittersEnd`, which the
last one would break, leave out what follows it and no more (`overtaken`).  What follows was
met while modelling the other parts; where it bears on a property, the property or a constant
leaves the case out, says so in its comment, and is violated without that.

The build:

- `UpdateCAS` needs a source for each content ID that a node has or had, and `m_casProducts`
  is never reset (2885).  When a source has changed and the content directory has lost the
  old content, nobody can provide the old ID any more; the build fails before SaveCache, and
  so does each one after it.
- TryOpenInput records a missing file with an empty path (1499-1507), so a build does not
  notice that an optional file has appeared (`Missed` in `FreshAfterBuild`).  The same happens
  to a source that was missing when its status was looked up and is there when it is read;
  when it goes again its node is not analysed, and fails to compile.  `FailsForAReason` allows
  that for a file that an asset can do without only if the node's analysis recorded the empty
  path; it takes one disturbance more than the run has to get there.
- ExportScriptCatalog empties globalscripts.idx when it opens it (AnoxDataBuilder.cpp:221),
  before the cache is saved.  Killed in between, a build leaves an empty or partial catalog;
  if a source then changes so that nothing the catalog is made of is compiled again (with two
  assets: the one that was compiled is no longer used), no later build writes it
  (`past.torn` in `FreshAfterBuild`).
- ResolveDirectoryScan never sets `m_directoryMode` (2655-2660), `SetState` does not reset the
  dependencies on scans, and `m_cachedDirScan` outlives a Build of the same instance.
  `m_isDirectory` is not saved.  A deps file that has lost its wildcard therefore still
  compares its old scan (`IdleBuildDoesNothing`).
- Content is copied at the end of the build, long after IndexCAS hashed it; a source edited in
  between is stored under the hash of what it was (`raced` in `ContentIsKept`).
- StratifyRelevantNodes appends a node once for each path to it, exponentially many in a
  chain of diamonds.  A node that is no longer reached stays in the exported catalog until
  something is compiled.  With several roots, which the program does not have, one that is
  reached from an earlier one would be reported as circular.

The frame timeline:

- When the memory is reset to its start the final marks of other frames in flight stay what
  they were, so their retirement frees room that uploads in flight still use; the comment of
  lines 802-805 says that the marks bound it (`strayed` in `CopiesAreWhole`, which is reached
  within 13 steps).
- Retirement clears `m_asyncUploadHeapIsFull` and takes `low = high` for empty although later
  frames may fill the memory exactly (2958-2959), which is `strayed` as well.
- The cleanup job of a frame frees an upload's source data (2112) while the copy job of the
  frame before may still be queued (`Spans` and `freed` in `CopiesAreWhole`).
- A buffer's memory copy has row pitches of 0, so it copies nothing; `paddedDepthSliceSize`
  is computed from columns (2040); the assertion of line 2170 fails when what is left fits
  exactly; `m_srcDataOffset` is not reset between operations (2148-2152); the factories of
  upload jobs never set what they are to return; the record job of a frame without a memory
  copy is awaited by nobody.

The audio mixer: AddEmitter appends where its comment (1604) says the start of the list.

The file I/O:

- When it closes, a task that has been dequeued, or whose transfer is done, and is not in the
  list again yet, is found by nobody: the thread ends and its load is never answered.  Tasks
  still pending are dropped without their callback.  `LoadsSettle` asks for nothing but the
  end of the close from then on.
- The offset's high half is assigned twice and its low half never (`System_Win32.cpp`
  828-829), so every transfer reads from the start of its 4 GiB; the error code of a
  completion is ignored.

The game's resources: a request whose future failed is reported as not finished each time it
is polled (200), and DecRefResource changes under `m_requestMutex` what AcquireResource reads
under `m_resourceMutex` (297), which would matter if two threads used the manager.

The render window: a failed change of mode, or a user who closes the window, ends its thread;
`m_threadHasExited` is never read, and whoever posts a task waits for ever (`ThreadStops` in
`WindowWaitsEnd`).  `m_displayMode` is never changed after the creation.  An action's memory is
disposed of without the mutex (886).

The sort: `FindLowestSet(0)` is -1, and SmoothSortPairNTZ tests for 0, so it would be wrong
for a pair whose low word is 1 and whose high word is not 0, which no array that fits in
memory has.

The first requester's job may be done, by being aborted, long before its future fails, since
the future fails only when the job is destroyed; `FutureBeforeJob` says what does hold.

## The proofs

### The job queue

`JobQueueProofs` proves, for any sets of threads, jobs and types, any clients and any
schedule, with no restriction on `NameFailed` or `Uninterrupted`:

- `JobQueueInv`: `Spec => []IInv`,
- `JobQueueTypeOK`, `JobQueueNoLostWork`, `JobQueueNoLostCompletion`,
  `JobQueueOneWakePerWait`, `JobQueueClosedQueueIsEmpty`, `JobQueueNoDroppedJob`: all the
  invariants the general run checks.

`LifecycleProofs` proves what the ordering run checks, `JobQueueKeepsLifecycle` (the queue
implements `JobLifecycle`) and `JobQueueWaitedJobIsDone`, under that run's two restrictions.

`JobQueueAssumption` is the only assumption: the null values are not members, `Jobs` is
finite (a dependency list is) and the parameters have their types.

None of the invariants is inductive by itself.  `IInv` adds:

- `StackOK(t)`: a call stack ends in a thread's base frame (a client, or a sleep in
  WaitForWork) and has none elsewhere; a frame that waits names a job whose CreateJob has
  returned; a sleeping thread and a closer about to wake its victim are in their top frame.
  Without it a step could return into nothing, or a thread could be waiting in a frame that
  is not its current one, and then registering for a job would say nothing about the thread.
- `WaitOK(u)`: a thread that is linked in a ring or has its wake event signaled is asleep,
  never both, waits for the job its ring entry says, and has been handed a job if its
  disposition says so.  It is needed by every step that unlinks and wakes.
- `CloserOK`, `VictimOK`: at most one thread is inside PrivClose, none before the flag is
  set, and the thread it has unlinked sleeps, in no ring and not woken, until it wakes it.

`NoLostCompletion` is inductive together with these because JobDone's two sections are
ordered: publishing the flag puts the same thread at `wake` for that job (`JobDonePublish`),
the ring is emptied as it leaves that point (`JobDoneWake`), and a thread registers only
after it has seen the flag false with both mutexes held (`Sleep`).

The proof has one lemma per action (`CreateJobOK`, ..., `CloseAwaitsAckOK`), each citing a
few general ones: `ProceedOK` and `StacksOK` for the call stack, `LocalStep` and `QuietStep`
for steps that touch no wait info, `WakingStep` and `WaitsAfterWake` for those that wake.
`NextInv` combines them.

For `ClosedQueueIsEmpty` the invariant is extended by `ClosingOK`: while the queue closes, the lists are empty or the
closer is still in its first loop, and no thread waits or the closer has not returned.  Each
loop of PrivClose is left only when what it empties is empty (`CloserKeeps`), and the other
steps keep it so, as AddRunnableJob and WaitForWorkOrJob read m_isClosing (`EmptyStays`).

For `NoDroppedJob` there is `DInv`, which says of each job that is not complete where it is:

- `JobOK`: a job with a positive count has at least so many open dependencies that will count
  down for it, so it is not left with a count and nothing to count it down; one with count 0
  that nobody has started is listed, in a set of jobs to be added, in a thread's hands, or
  with a creator that has yet to read the count; one that was started is in the hands of a
  thread or has been handed to one; and so is one whose signaler is done.  A job is counted
  as started only when some thread is to complete it.
- `SleeperOK`: a thread that would return without running the job it is handed sleeps only in
  the ring of a job that was started before.  Without it AddRunnableJob could hand a job to a
  thread that drops it.
- `GraphOK`, `MakesOK`: downstream lists name made jobs that have the dependency.

The count is bounded by the open dependencies and not equal to their number, since a job that
is completed twice counts down twice; so the theorem holds in the schedules of
`JobQueue_doubleStart` too.  `QuietKeeps`, `StartKeeps` and `AddsKeep` treat the steps that
leave every job where it is, that give a job to a frame, and that take one out of the set to
be added; `CreateJobKeeps`, `SignalDoneKeeps` and `JobDonePublishKeeps` those that change
counts and links.

`LifecycleProofs` needs two hypotheses: `NameFailed = FALSE`, no client names a dependency
that has failed already, and `"created" \in Uninterrupted`, no other thread is scheduled
between the two sections of CreateJob.  Without the first the theorem is false as the run
`JobQueue_failedDependency` shows, without the second as `JobQueue_doubleStart` does; they are
the two cases in which the code breaks the promise, and nothing else is assumed.  Under them a
job cannot be carried out twice, and the invariant `LInv` says why:

- `OnePlace`: a job is in one place at most: in a frame of one call stack (`Held`: about to be
  added, started, run or completed), in one pending list, once (`Listed`), or handed to one
  sleeping thread (`Handed`).  A job one of whose dependencies failed is excepted in part: a
  thread may wait for it and take it up while another one is aborting it, and both complete it
  as failed.
- `PlaceOK`: what is known of the job in each place, frame by frame (`HolderOK`): it has not
  run before `enter`, it has run at `run`, it has not completed before `publish`, and it is
  runnable where it is listed or handed over.
- `LinksOK`: every dependency has succeeded or will count down for the job, the count is at
  least the number of those that have not, and a job that ran has had all of them succeed;
  a job marked as having a failed dependency has one, and never succeeds.
- `StateOK`, `LevelsOK`, `WokenOK`: the fields of a job, the frames of a stack and the
  disposition of a woken thread among each other.

`Level(t, l)` names the frames of a call stack from its base, so that a push or a return
changes the top level only (`Moves`, `MovesAre`).  A job keeps its facts when its fields and
its places stay (`StepKeeps`, `HoldStep`), and has to be looked at when it moves from one place
to another (`NowHeld`, `NowElsewhere`) or when a dependency of it ends (`DoneLinks`,
`DoneStates`).  There is one lemma per action again.  From `LInv` each step is one of `JobLifecycle` or a
stutter (`StepIsLifecycle`): RunEnter is Start, since a job with count 0 that was made has all
its dependencies done; JobDonePublish is Finish, Signal or Abort, as the frame's history says.

### The pool

`ThreadPoolProofs` proves of `PoolSpec`, from `PoolAssumption` (workers and helpers are
different threads) and `JobQueueAssumption`, that every step of the pool is a step of the
queue or leaves it alone, or is the start of its close, so `IInv` holds in the pool
(`ThreadPoolInv`, `ThreadPoolTypeOK`, `ThreadPoolLosesNoWake`); and
`ThreadPoolNoWorkAfterJoin`: `NoWorkAfterJoin`.  The strengthening is that a worker that has
left its loop has an empty call stack and does not come back, and that the join has waited
for each of them.

### The resource manager

`ResourceManagerProofs` proves `NothingDangles`, `NoLeak`, `FutureBeforeJob` and `RMTypeOK`,
for any threads, keys, trackers and finite set of requests.  The invariant `RMInv` says for
each tracker:

- its count is exact: the number of requests that own it, and one each for its load job, for
  its future container's result, for the notifier and for a thread that holds a pointer;
- `LoadOK`: the load future, the load job, the completing job and the notifier are at the same
  point of the load;
- `LifeOK`, `ThreadOK`: at most one thread starts, completes or fails its load and at most one
  is in RCTrackerZero or deletes it, and what that thread has reached agrees with the tracker.

That the count is exact is what the invariants hang on: a tracker whose count is 0 has no
holder, and one that is deleted has count 0.  The proof needs `~DropsWhileZeroing`, and
`ResourceManager_lastReference` shows that the theorem is false without it.

### The build

`BuildSystemProofs` proves `CacheIsWhole`, `BuildTypeOK`, `DependenciesFirst`,
`CircularMeansCircle` and `ContentIsKept`, and `FreshnessProofs` on top of it
`IdleBuildDoesNothing`, `FreshAfterBuild` and `FailsForAReason`, for any graph and any texts,
from `BuildSystemAssumption` (a finite set of nodes) and `TextsAssumption` (what a source may
hold, and that `Absent` and `Partial` are neither a text nor the data that a compiler makes of
texts, `MadeData`).
The inductive invariant `BuildInv` has five parts:

- `CacheInv`: the instance the header names and the one a build has just written lie in the
  file, behind the header, and share no place, so that neither writing the next instance nor
  being cut off before its header damages the one in use.
- `TypesInv`: what nodes, statuses, the work of a compiler and the saved nodes are made of,
  down to the lists of files that are recorded.
- `GraphInv`: the stack is a path through the dependencies of its nodes and holds exactly
  what was found and is not completed; nothing is found that the dependencies do not lead to;
  and a completed node has a set of nodes completed before it that holds its dependencies,
  is closed under dependencies and does not hold the node (`Below`).
- `CompileInv`: the list is ordered, each node before what it depends on, and the nodes
  behind the one that is compiled are up to date.
- `PastOK`, about `past`'s fields, for `CircularMeansCircle` and `ContentIsKept`.

`ContentIsKept` needs two more:

- `RecordInv`: the files a node's lists are about are those its compilers may read and write
  (`HasEntries`), lists that do not hold any more are empty (`Blank`), a status is 0 exactly
  for a file that is not there, what the process knows of the build's own files is true
  (`LookedUpOK`), and the analysis file of a checked asset names the products of its
  dependencies only.  The last is kept because a new status is recorded nowhere
  (`NewStatusIsNew`, by counting): a record that agrees with its file is about this very
  file, and so are the dependencies recorded with it (`KnownIfSame`).
- `ContentOK`: what is registered as the source of some content is a source or the product
  of a leaf that is up to date (`Fixed`), which no step of the process writes to, and holds
  that content until it is edited; a copy that was made of it is moved to its own ID; and all
  IDs of the nodes that are saved are there.  That an asset reads only such files in its
  compilation is `DependenciesFirst` with `RecordInv`.

`IdleBuildDoesNothing` compares what one process saved with what the next one finds, so it
needs to know that what is saved is true:

- `CourseInv`: a node that was found completed and is up to date depends on such (`CurrentOK`),
  only deps nodes keep a scan and none loses it (`ScansOK`), what a saved node depends on was
  saved with it (`ClosedOK`), and a node's version is set before its compiler works
  (`VersionOK`).
- `QuietInv`: in a build beside which nothing happens, what the process has looked up and
  scanned is how things are (`LooksTrue`, `ScanTrue`), and what it has checked or read agrees
  with the files (`CheckedMatch`, `InputsAgree`, `DepsScanTrue`).  The one exception is the
  output that is being written, which `MarkOutputFileFinished` looks up afresh; that nobody
  else has recorded this file yet is `RecordInv` with `CourseInv` (`OthersUnwritten`).
- `CleanInv`: as long as nothing happens after such a build, every saved node agrees with the
  files, its version and the content directory, and the next process keeps each node as it
  was saved: no file is stale, no dependency is out of date, no compiler gets work.

`FreshAfterBuild` is about what files hold and not only about their statuses, and a record may
be older than many edits, kills and failed builds when a build finds that it agrees.  So two
more parts hold whatever happens beside the build:

- `TellsInv`: what a node records, on the disk and in the process, tells what it was made from.
  If each file with a status in its lists still has that status (`Stands`), then the node's
  dependencies are what its source says, an analysis file names what the source names, and a
  product is made from the files that the compilation read (`AnalysisIs`, `LeafIs`,
  `AssetIs`).  A list with the empty path (`MissedIn`) tells nothing, which is the exception
  in the property.  A compiler at work knows as much of what it has read so far
  (`WorkTells`).  It is kept because a write gives a status that no record has: a record that
  still stands after it is not about that file (`StillVouched`, `TellsStays`).
- `CatalogInv`: unless it is torn, the catalog has the product of each saved asset whose
  product agrees with its record (`SavedInCatalog`).  What a process has not compiled it keeps
  as it was loaded (`KeptOK`), so that a process that exports nothing saves what the catalog
  has; one that has compiled an asset exports all of them first (`ExportedOK`).

At `WriteHeader` of a build in peace all nodes are up to date and agree with the files
(`QuietInv`), so their records stand, and what they tell is what the sources say now: for an
asset, leaf by leaf, as its leaves are among its dependencies (`RecordInv`).

`FailsForAReason` says that a build in peace can read whatever it means to read, but for a
user's file that is missing.  It takes four parts more:

- `DataInv`: what a compiler has made so far is made of texts and of the data of leaves'
  products (`MadeOK`), so that what it closes is data, neither absent nor partial
  (`OutcomeIsData`).
- `WholeInv`: an analysis file or product that still has the status recorded of it, in memory
  or on the disk, is whole.  An output is recorded with the status 0 when it is created and
  with a new one when it is closed, so the partial output of a killed process has a status
  that nobody recorded.  With `QuietInv` the analysis file that a compilation reads and the
  products of its leaves, which are up to date before it (`DependenciesFirst`), are whole.
- `CasInv`: as long as no content was ever removed, the content of a node is stored or has a
  source in this process (`CasKnown`), and so has that of the saved nodes (`SavedCas`).
- `ReasonInv`: in a build in peace the sources of content are there (`SourcesThere`), and a
  deps file with the wildcard lists what its node scanned (`DepsMade`).

The file that an asset can do without is read in a compilation only if the analysis recorded
it with a status, which `QuietInv` says it still has, or recorded the empty path
(`OptionalIsThere`, from `TellsInv`).

That `Stratify` orders the list (`StratifiedIsOrdered`) is an argument about sizes: a node
found at depth `j` has a closed set `Below` it of at most `|Nodes| - j - 1` nodes, so no node
is found deeper than there are nodes, every stratum is a number, and a dependency's stratum
is greater than its node's.  A circle that is reported is one since the node on the stack
leads down the stack to its top, in at most as many steps as there are nodes
(`StackIsCircle`); once the stack is empty no node leads to itself, since all it leads to is in
the set `Below` it (`NoCircle`).  A few lemmas of induction over numbers, recursive
functions and lists come first (`SetInduction`, `Recursion`, `OrderIsListed`), for the library's
take operators as parameters.

### The frame timeline

`EnginePartsProofs` proves `DoneMeansUploaded` and that nothing is destroyed while its
upload or a frame in flight refers to it (`NothingDisposedInUse`), for any number of frames
in flight, any resources, mip levels and upload memory.  `UploadInv` says where an upload is:
waiting, active, retired with a frame or signalled, exactly one of them (`TasksOK`); that the
frame it is retired with is the last one with copies of it, and younger ones have none
(`FrameOK`, `RetiredOK`); and that a frame whose fence is passed has done all its copies, as
the batches are submitted in order (`SignalledOK`).  So when the frame is over all copies
are.  `GoneOK` is the same for condemned resources.  `TimelineTypeOK` itself is not proved:
PumpTask compares columns and takes rows, so for a mip level with more rows than columns the
marks leave the memory, and the theorems need no such bound.

### The game's resources

`EnginePartsProofs` proves `HandlesAreSound` for any finite set of handles and any keys and
addresses.  `GRInv` adds to it that the lists of free numbers are injective and hold exactly
the numbers without a request or resource (`RequestsOK`, `ResourcesOK`), that the map and the
list agree (`MapOK`), and that what the map names is in the list (`MapInRange`).

### The ring buffer

`RingBufferProofs` proves `NoOverlap`, `HandlesValid`, `HeadIsInFirstChunk` and
`DrainedIsEmpty`, and the ring buffer's part of the runs' type invariant, for any sizes,
alignments and chunk sizes, any number of blocks and any order in which they are disposed of,
from `RingBufferAssumption` and `~GrowsWhenEmpty`.  That an empty buffer is not asked for more
than its last chunk holds is a condition on callers that the code does not state; without it
`HeadIsInFirstChunk` is false, as `ResizableRingBuffer_growth` shows.

The idea of the invariant `RBInv` is that two lists of rings run in step.  The info rings hold
the active blocks, disposed of or not, in the order in which they were allocated
(`Precedes`: an earlier chunk, or an earlier place counted from the ring's first), and

- `Filled`: the active blocks of a ring are its first `num` places, so that the slot Allocate
  takes is free and the head is the oldest;
- `Placed`, `Ordered`: a block lies in the used part of its chunk, and an older one in an
  earlier chunk or wholly before it, counted from the chunk's first used address.  So no two
  share a byte wherever the ring wraps, and the space that Dispose gives back up to the oldest
  live block holds none;
- `Counted`: a memory chunk counts its active blocks, so one that counts none can be freed;
- `MemBusy`, `InfoBusy`: no chunk is empty but the only one of an empty buffer.  This is what
  `GrowsWhenEmpty` breaks.  With it the oldest block is in the first chunk, and one pass of
  the loop drops at most the first chunk of each list (`EmptyChunksAreFew`);
- `Claimed`: handles name active blocks, and live blocks have a handle;
- between operations the head block is live, so that nothing stays behind.

Each action is a change of this form: a block at the end (`AddBlock`, behind `AddChunk` and
`AddInfo`), a block that is no longer live (`DisposedInfo`), the first chunk's start moved to
its oldest block (`MoveHead`), the oldest block removed (`RemoveOldest`), empty chunks dropped
and the others renumbered (`DropFirst`), the last chunk reset (`ResetFirst`).  That a chunk
added for a block holds it needs a power of two between any number and its double
(`PowerInBetween`), a descent that the least-number lemma `LeastNumber` gives.

### Model-checked only

Liveness, which TLAPS cannot treat: `JobsEnd`, `MainThreadGoesOn`, `RequestsAreAnswered`,
`UploadsFinish`, `EmittersEnd`, `LoadsSettle`, `WindowWaitsEnd`.  `CopiesAreWhole`, whose two
exceptions leave an invariant about marks that TLC can explore and that says little else.  The
mixer's links (`ListsAreSound`, `DetachesFromItsList`), the file I/O and the hash table; and
the sort, whose definitions recurse over data.

Every property has a mutant: a changed definition in the module, marked as such, under which
its run is violated.

## Not modelled

Most of the repository's lines are in parts without state that outlives a call, which a model
would only repeat:

- **Asset compilers** (`Anox_Build`, most of `RKit_Build`): conversions of maps, models,
  scripts, textures and pipelines.  What they do with the build system is in `BuildSystem`.
- **Vulkan renderer, WASAPI driver, Windows system layer**: wrappers of other systems' calls.
  Their contract is what `FrameTimeline`, `AudioMixer` and `AsyncFileIO` assume of them.
- **Text, JSON, compression, images, math, file formats; generated code and code
  generators**: conversions of data.
- **Game session, scripts, world, game logic and sandbox**: one thread that interprets the
  game's data and calls the subsystems above.
- **Coroutines**: their control flow is the compiler's, and they run in one thread.
- **Command stack**: a list that one thread uses.  Pop does not give its room back, and
  PushMultiple and Parse are ordinary code; both are listed as hazards.
- **Mutex-protected streams**: each call locks, seeks and reads; nothing but a position
  outlives a call.
- **Weak references**: nothing at this commit uses them.  (WeakPtr's move constructor does not
  reset its source.)
- **Vectors, strings, spans, bit vectors**: sequential and small.

What could still be modelled and proved: the ring buffer as an implementation of a queue of
blocks; the display modes and shutdown of the graphics subsystem; several roots and failed
writes in the build; and proofs about the mixer's lists and the rings of the hash table.
