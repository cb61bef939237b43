SPECIFICATION Spec
CONSTANTS
  m = m
  w1 = w1
  w2 = w2
  j1 = j1
  j2 = j2
  j3 = j3
  Threads = {m, w2}
  Jobs = {j1, j2, j3}
  Types = {"Normal"}
  NormalPriority = "Normal"
  NoJob = NoJob
  NoThread = NoThread
  WorkTypes <- MCWorkTypes
  IdleTypes <- MCIdleTypes
  Contexts = {"client", "run"}
  Creators = {m, w2}
  MaxDepth = 3
  MayFail = TRUE
  MayClose = TRUE
  NameFailed = FALSE
  Uninterrupted = {"created"}
SYMMETRY JobSymmetry
PROPERTIES KeepsLifecycle WaitedJobIsDone
CHECK_DEADLOCK FALSE
