\* Three candidates, one fault of the board, one damage to the books.
SPECIFICATION BooksSpec
CONSTANTS
  N = 3
  Every = 4
  PerBeat = 3
  Plans <- MCPlans
  Faults <- MCFaults
  MaxDamages = 1
INVARIANTS
  HonestIsJudgedByItsEnd
  KillMeansFalsified
  PassMeansWhole
  AuditedIsTrue
CHECK_DEADLOCK FALSE
