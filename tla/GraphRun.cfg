\* Two turns over plans of up to two uses of one risky tool, under every gate: asked
\* about, allowed, refused; one fault, one resume as either task.  Or one such turn, people
\* asked, and two resumes, from the latest checkpoint, from any earlier one or by a name
\* that is not there.
SPECIFICATION BoundedSpec
CONSTANTS
  look = look
  write = write
  wipe = wipe
  Action <- OnlyWrite
  Risky <- OnlyWrite
  Blocked <- Nothing
  Gates <- AllGates
  MaxReplans = 2
  MaxIterations = 2
  Attempts = 2
  MaxSteps = 2
  MaxTasks = 2
  MaxFaults = 1
  MaxCounted = 0
  MaxKept = 1
  MaxResumes = 2
CHECK_DEADLOCK FALSE
INVARIANTS
  
  
  StreakWithinBudget
