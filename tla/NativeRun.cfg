\* One request at a time: two runs, two reads and two writes, one fault anywhere.
SPECIFICATION Spec
CONSTANTS
  t1 = t1
  t2 = t2
  r1 = r1
  r2 = r2
  w1 = w1
  w2 = w2
  Task <- OneTask
  Call <- TwoReadsTwoWrites
  ReadOnly <- Reads
  MaxTurns = 1
  MaxParallelTools = 2
  Overlap = FALSE
  MaxRuns = 2
  MaxFaults = 1
  MaxBatch = 3
SYMMETRY CallSymmetry
INVARIANTS
  AnsweredOnce
  CurrentTurnAnswered
  WriteBarrier
  StopBoundsWrites
  AtMostOncePerLoss
  OneReceiptPerRun
PROPERTIES
  SavedNeverRerun
