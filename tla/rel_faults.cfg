SPECIFICATION FairSpec
CONSTANTS
  NCand = 2
  Attempts = 3
  StaleLimit = 64
  PrevAckLimit = 8
  HostGets = 2
  HostReplays = 3
  RecControl = TRUE
  SignControl = TRUE
  CrcBudget = 4
  CrashPolicy = FALSE
  BadBudget = 1
  SilenceBounds = 4
  MaxFaults = 3
INVARIANTS
  InOrder
  RecordMatchesNotary
  ProtocolOnlyForUnsignedStop
  TermTellsTheTruth
PROPERTIES
  KeepsPromise
  BoardHalts
  HostEnds
