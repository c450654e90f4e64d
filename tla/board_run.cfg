CONSTANTS
    Envelopes = 2
    Programs <- MCPrograms
    Askers = {a1, a2}
    MaxSessions = 2
    MaxResets = 1
SPECIFICATION Spec
INVARIANTS LinksHold OutcomeIsTrue RulingSpentOnce BlameIsTrue
