SPECIFICATION Spec
CONSTANTS
    MaxAttempts = 2
    MaxTargets = 2
    MaxFaults = 1
INVARIANTS
    CompletedOnVerifiedTargets
PROPERTIES
    VerificationStartsAlone
    KeepsPromise
CHECK_DEADLOCK FALSE
