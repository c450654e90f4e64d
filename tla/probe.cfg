CONSTANTS
    Runners = {r1, r2}
    Programs <- MCPrograms
    MaxResets = 2
    MaxLost = 1
SPECIFICATION Spec
INVARIANTS ChainTellsTheTruth EngineLeftClean
