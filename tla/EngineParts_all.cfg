\* Two requests, two uploads, three emitters, two loads, three handles and two clients of the window.
SPECIFICATION EngineSpec
CONSTANTS
  t1 = t1
  b1 = b1
  Threads = {x1, x2}
  Keys = {k}
  Trackers = {r1, r2}
  Requests = {q1, q2}
  NoTracker = NoTracker
  NoAnswer = NoAnswer
  StartMayFail = TRUE
  RunsIfFailed = TRUE
  DropsWhileZeroing = FALSE
  NumSyncPoints = 3
  HeapSize = 6
  Textures = {t1}
  Buffers = {b1}
  Parts <- MCParts
  NoTask = NoTask
  NoData = NoData
  Emitters = {e1, e2, e3}
  MaxCommands = 2
  Null = Null
  FileLoads = {l1, l2}
  FileSizes = {0, 2, 3}
  MaxTransfer = 2
  NoLoad = NoLoad
  Handles = {h1, h2, h3}
  AssetKeys = {k1, k2}
  Addresses = {a1, a2}
  None = None
  Clients = {c1, c2}
  ChangeMode = ChangeMode
INVARIANTS EngineTypeOK NothingDangles NoLeak FutureBeforeJob
INVARIANTS DoneMeansUploaded ListsAreSound DetachesFromItsList HandlesAreSound
PROPERTIES RequestsAreAnswered CopiesAreWhole UploadsFinish EmittersEnd LoadsSettle WindowWaitsEnd
CHECK_DEADLOCK FALSE
