SPECIFICATION FairSpec
CONSTANTS
    None = None
    Grants = {1, 2}
    MaxRuns = 2
    MaxClaims = 2
    Failing = {"Persist", "Reap", "Crash", "Connection"}
INVARIANTS
    OneAgent
    OneUnsettledPrompt
    OutcomeIsTrue
    ParentKeepsSession
PROPERTIES
    ContinuationHasContext
    CancelledRunEnds
CHECK_DEADLOCK FALSE
