\* Both parts, each with one failure and one restart.
SPECIFICATION ApiSpec
CONSTANTS
  Parts = {"lifecycle", "stream"}
  k1 = k1  k2 = k2  e1 = e1  chat = chat  bench = bench  q1 = q1  q2 = q2
  Task <- Tasks
  EvalTask <- Evals
  Thread <- Threads
  ThreadOf <- Threading
  Request <- Requests
  c1 = c1
  Reader <- Readers
  StreamSql = TRUE
  Sql = TRUE
  BufferSize = 4
  MaxRuns = 2
  MaxEvents = 3
  MaxApprovals = 1
  MaxFaults = 1
  MaxRestarts = 1
  MaxStreamRuns = 2
  MaxStreamFaults = 1
  MaxStreamRestarts = 1
INVARIANTS
  OneRunPerThread
  LiveRunUntouched
  TaskFollowsRun
  StreamComplete
  NoReaderLeftBehind
SYMMETRY Symmetry
CHECK_DEADLOCK FALSE
