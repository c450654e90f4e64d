SPECIFICATION LoopSpec
CONSTANTS
  Genomes = {"blank", "g1"}
  Blank = "blank"
  Budget = 2
  Envelopes = 2
INVARIANTS
  LogIsAChain
  SummaryIsTrue
PROPERTIES
  ArmsWhatItRead
  OnlyRestoreAfterStop
  KeepsPromise
