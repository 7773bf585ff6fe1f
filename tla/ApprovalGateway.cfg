\* Two runs ask, one person answers; one failure and one restart.
SPECIFICATION FairSpec
CONSTANTS
  low = low
  risky = risky
  blocked = blocked
  a1 = a1
  a2 = a2
  r1 = r1
  r2 = r2
  Id <- AllIds
  Low <- OnlyLow
  Barred <- OnlyBlocked
  Asker <- Askers
  Answerer <- OneAnswerer
  LatestCounts = TRUE
  MaxFaults = 1
  MaxRestarts = 1
INVARIANTS
  DecisionDurable
  WaitersAreKnown
  AnswersAgree
PROPERTIES
  Settles
