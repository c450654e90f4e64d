SPECIFICATION FairPullSpec
CONSTANTS
  N = 3
  ReadyAttempts = 3
  WaitMax = 3
  StaleLimit = 2
  MaxRetries = 2
  DoneReplays = 3
  CrcBudget = 1
  CrashPolicy = FALSE
  BadBudget = 1
  LongStall = TRUE
  MaxFaults = 4
INVARIANTS
  UnconfirmedOnlyByExhaustion
PROPERTIES
  EndedPullIsAborted
  KeepsPromise
  PullEnds
