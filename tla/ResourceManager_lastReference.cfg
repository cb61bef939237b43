SPECIFICATION Spec
CONSTANTS
  Threads = {x1, x2}
  Keys = {k}
  Trackers = {t1, t2}
  Requests = {q1, q2}
  NoTracker = NoTracker
  NoAnswer = NoAnswer
  StartMayFail = FALSE
  RunsIfFailed = TRUE
  DropsWhileZeroing = TRUE
CHECK_DEADLOCK FALSE
INVARIANT NothingDangles
