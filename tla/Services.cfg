SPECIFICATION ServicesSpec
CONSTANTS
  Parts = {"blob", "stores", "records", "evals", "requests", "graphset", "nativeset", "judgeset", "bus", "harness"}
  o1 = o1  o2 = o2  w1 = w1  w2 = w2  Object <- Objects  Caller <- Callers
  NoCaller = NoCaller  Cancels = FALSE  MaxValue = 2  MaxFaults = 1
  t1 = t1  t2 = t2  u1 = u1  u2 = u2  q1 = q1
  Thread <- StoredThreads  Task <- StoredTasks  ThreadOf <- OneEach
  Approval <- Approvals  AskedBy <- FirstAsks  Usages = {"known"}
  DeletesEvaluated = FALSE  MaxStoredRuns = 2  MaxStoredCalls = 1  MaxApprovalRows = 3
  FaultAt <- Failing  MaxPlans = 3  MaxSteps = 2  MaxResumes = 1  MaxRecordFaults = 1
  Suite <- TwoSuites  LabelOf <- OwnNames  Track <- BothTracks  Served <- BothTracks
  EvalCase = 1  EvalJudged = TRUE  Attempts = 2  MaxRequests = 2  MaxTries = 2  MaxStops = 1
  s1 = s1  c1 = c1  c2 = c2  c3 = c3
  Session <- Sessions  Sender <- Senders  Resumer <- Resumers  SessionOf <- OneSession
  NoRequest = NoRequest  ResumesLive = FALSE  MaxLogged = 2  MaxHit = 1
  k1 = k1  k2 = k2  Patch <- Patches  TrackOf <- Tracks  Bodies <- SomeBodies
  EnvKeys = {"groq"}  Builds = {TRUE}
  Case = 2  Criteria <- Checks  Judged = TRUE  SuiteKnown = TRUE  Answers <- Naming
  MaxRetries = 1  MaxRejudges = 1
  Emitter <- Emitters  Listener <- Listeners  Endpoint <- Listeners  CutSaves = TRUE
  MaxNumbered = 2  MaxBusFaults = 1  MaxDeletes = 1
CHECK_DEADLOCK FALSE
INVARIANTS
  StoresAgree VerdictsOnTheirSteps EvaluationsAddUp RequestsMindTheirRuns CallsGoHome
  HandedInOrder JudgingStaysApart ToldIsStored
