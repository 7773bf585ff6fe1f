\* The bus implements the fair ordered log: two emitters and one client, two
\* failed emits or crashes.
SPECIFICATION DirectSpec
CONSTANTS
  t1 = t1
  t2 = t2
  c1 = c1
  c2 = c2
  Task <- TwoTasks
  Client <- OneClient
  Endpoint <- Nobody
  CutSaves = FALSE
  MaxEvents = 4
  MaxFaults = 2
  MaxDeletes = 0
INVARIANTS
  GapFree
PROPERTIES
  Promise
