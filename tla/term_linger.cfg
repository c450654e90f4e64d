CONSTANTS
    Attempts = 3
    Bound = 4
    Cap = 5
    Factor = 2
    StaleLimit = 2
    LineMax = 3
    MaxGets = 2
    MaxReplays = 3
    WallMax = 7
    Margin = 2
    Delay = 1
    MaxFaults = 3
    Babble = TRUE
SPECIFICATION FairSpec
CHECK_DEADLOCK FALSE
INVARIANTS NoLineHoldsTheReceiver LingerCoversLosses FewFaultsAcked
PROPERTIES BoardHalts
