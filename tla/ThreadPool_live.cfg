SPECIFICATION PoolSpec
CONSTANTS
  main = main
  io = io
  normal = normal
  helper = helper
  j1 = j1
  j2 = j2
  j3 = j3
  Main = main
  Worker <- TwoWorkers
  Helpers = {helper}
  Threads = {main, io, normal, helper}
  Jobs = {j1, j2}
  Types = {"Normal", "IO"}
  NormalPriority = "Normal"
  NoJob = NoJob
  NoThread = NoThread
  WorkTypes <- PoolWorkTypes
  IdleTypes <- PoolIdleTypes
  Contexts = {"client","run"}
  Creators = {main,helper,normal}
  MaxDepth = 2
  MayFail = TRUE
  MayClose = TRUE
  NameFailed = TRUE
  Uninterrupted = {}
INVARIANT NoWorkAfterJoin
PROPERTIES JobsEnd MainThreadGoesOn
CHECK_DEADLOCK FALSE
