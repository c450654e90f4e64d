CONSTANTS
    ReadWords = 2
    WordLimit = 4
    MaxEdits = 2
SPECIFICATION PlanSpec
INVARIANTS BuiltIsAccepted AcceptedIsSound
CHECK_DEADLOCK FALSE
