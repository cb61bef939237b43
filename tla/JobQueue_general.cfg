SPECIFICATION Spec
CONSTANTS
  m = m
  w1 = w1
  w2 = w2
  j1 = j1
  j2 = j2
  j3 = j3
  Threads = {m, w1, w2}
  Jobs = {j1, j2}
  Types = {"Normal", "IO"}
  NormalPriority = "Normal"
  NoJob = NoJob
  NoThread = NoThread
  WorkTypes <- MCWorkTypes
  IdleTypes <- MCIdleTypes
  Contexts = {"client", "run"}
  Creators = {m, w2}
  MaxDepth = 3
  MayFail = TRUE
  MayClose = TRUE
  NameFailed = TRUE
  Uninterrupted = {}
SYMMETRY JobSymmetry
INVARIANTS TypeOK NoLostWork NoLostCompletion OneWakePerWait ClosedQueueIsEmpty NoDroppedJob
CHECK_DEADLOCK FALSE
