\* Runs of two processes on one folder; the property is expected to fail.
SPECIFICATION PartsSpec
CONSTANTS
  Parts = {"checkpoints"}
  c1 = c1  c2 = c2  c3 = c3  k1 = k1  k2 = k2  NoCall = NoCall
  Call <- Calls  Key <- Keys  KeyOf <- Keying  Managed <- ByManager
  MaxBoxes = 3  MaxStopFaults = 1
  r1 = r1  r2 = r2  NoRun = NoRun  Run <- Runs
  Models = 2  MaxRetries = 1  MaxTurns = 2  MaxChunks = 1
  a1 = a1  a2 = a2  a3 = a3  a4 = a4  Anywhere = Anywhere  NoAsk = NoAsk
  ToolCall <- Asks  AskOf <- Askings  ReadOnly = {"read"}  Safe = {"read"}
  Rules <- OneRule  Inside = {"in"}  Scopes <- TwoScopes
  Parallel = 2  TurnCap = 2  MaxWidth = 3  MaxCalls = 2
  s1 = s1  s2 = s2  NoSender = NoSender
  Sender <- Senders  Workspace <- Senders  WorkspaceOf <- OwnFolder
  MaxProviders = 2  MaxClients = 4  MaxAttaches = 4
  LateCalls = FALSE  MaxWrites = 3  MaxLostAnswers = 1
  RecentWindow = 3  MaxSaved = 9  MaxBatch = 2  MaxCuts = 2
  Process <- Processes  Path = {"a", "env"}  Skipped = {"env"}  Original = {"a", "env"}
  MaxCheckpointFaults = 1  MaxRewinds = 1
CHECK_DEADLOCK FALSE
INVARIANT LaterRewindFindsIt
