SPECIFICATION Spec
CONSTANTS
    MaxCommits = 2
    MaxIdleCycle = 1
    MaxRetriggers = 1
    MaxVerdicts = 2
    MaxEvents = 1
    MaxFaults = 2
INVARIANTS
    OnePullRequest
    OneTriggerPerHead
    MergedHeadWasVetted
    MergeLeavesItsIntent
    CompletedMeansMerged
CHECK_DEADLOCK FALSE
