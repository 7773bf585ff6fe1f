\* Fair native requests with a limit of zero parallel tools, and fair LangGraph runs.
SPECIFICATION LiveSpec
CONSTANTS
  Parts = {"native", "graph"}
  t1 = t1  r1 = r1  r2 = r2
  MaxTurns = 2  MaxParallelTools = 0  MaxRuns = 2  MaxBatch = 2  MaxRunFaults = 1
  write = write  wipe = wipe
  Action <- Actions  Risky <- Actions  Blocked <- Wiping  Gates <- AllGates  MaxCounted = 0
  MaxReplans = 2  MaxIterations = 1  Attempts = 2  MaxSteps = 2  MaxTasks = 2  MaxFaults = 1  MaxKept = 0  MaxResumes = 1
CHECK_DEADLOCK FALSE
INVARIANTS
  ApprovedAsShown
PROPERTIES
  RunSettles
  RunEnds
