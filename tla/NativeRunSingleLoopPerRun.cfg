\* A resume of a run that is still being served.
SPECIFICATION Spec
CONSTANTS
  t1 = t1
  t2 = t2
  r1 = r1
  r2 = r2
  w1 = w1
  w2 = w2
  Task <- TwoTasks
  Call <- TwoReadsOneWrite
  ReadOnly <- Reads
  MaxTurns = 2
  MaxParallelTools = 2
  Overlap = TRUE
  MaxRuns = 2
  MaxFaults = 0
  MaxBatch = 3
INVARIANTS
  SingleLoopPerRun
