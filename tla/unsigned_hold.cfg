\* The closing unsigned ARM validates.
SPECIFICATION BooksSpec
CONSTANTS
  N = 1
  Every = 4
  PerBeat = 3
  Plans <- MCPlans
  Faults <- MCUnsigned
  MaxDamages = 0
INVARIANTS
  UnsignedArmIsKill
CHECK_DEADLOCK FALSE
