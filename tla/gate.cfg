SPECIFICATION FairSpec
CONSTANTS
  blank = blank
  g1 = g1
  g2 = g2
  Genomes <- MCGenomes
  Blank = blank
  VecCount = 3
  TrainCount = 2
  Order <- MCOrder
  Target <- MCTarget
  Function <- MCFunction
  SipCycles = 2
  PollsMax = 3
  MaxArms = 3
INVARIANTS
  ScoresOnlyVerified
  RecordsAreTrue
  SettledIsThisAttempt
PROPERTIES
  FaultIsFinal
  StrobeSettles
