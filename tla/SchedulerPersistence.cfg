SPECIFICATION Spec
CONSTANTS
    None = None
    IssueIds = {i1}
    StateNames = {"HumanReview", "Merging", "Backlog", "Done"}
    CategoryOf <- MCCategoryOf
    Repos = {}
    Unresolved = {}
    Workers = {1, 2}
    Conversations = {c1}
    Keys = {k1}
    Paths = {p1}
    KeysOf <- MCKeysOf
    PathsOf <- MCPathsOf
    U32Max = 3
    TimeBits = 1
    TimeMax = 1
    RecentMax = 1
    MaxConcurrent = 1
    StateLimit <- NoStateLimit
    MaxRetryAttempts = 1
    RetainFailed = FALSE
    Operator = TRUE
    Finishes = {"Succeeded", "Failed", "Detached"}
    Failing = {"PersistState", "PersistIntent", "AbortCall", "ReadLease", "Tracker", "Interrupt", "PersistExhaustion", "Hierarchy"}
INVARIANTS
    AcknowledgedMeansStopped
    OrphanWasReported
    PendingUpdateIsCurrent
