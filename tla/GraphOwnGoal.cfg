\* A task is resumed on another task's checkpoint; the property is expected to fail.
SPECIFICATION BoundedSpec
CONSTANTS
  look = look
  write = write
  wipe = wipe
  Action <- OnlyWrite
  Risky <- OnlyWrite
  Blocked <- Nothing
  Gates <- Asked
  MaxReplans = 2
  MaxIterations = 2
  Attempts = 2
  MaxSteps = 1
  MaxTasks = 2
  MaxFaults = 1
  MaxCounted = 0
  MaxKept = 0
  MaxResumes = 1
CHECK_DEADLOCK FALSE
INVARIANT CompletedItsOwnGoal
