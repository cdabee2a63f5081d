SPECIFICATION Spec
CONSTANTS
    None = None
    IssueIds = {i1}
    StateNames = {"HumanReview", "Merging", "Done"}
    CategoryOf <- MCCategoryOf
    Repos = {}
    Unresolved = {}
    Workers = {1, 2, 3}
    Conversations = {c1}
    Keys = {k1}
    Paths = {p1}
    KeysOf <- MCKeysOf
    PathsOf <- MCPathsOf
    U32Max = 3
    TimeBits = 1
    TimeMax = 1
    RecentMax = 1
    MaxConcurrent = 1
    StateLimit <- NoStateLimit
    MaxRetryAttempts = 1
    RetainFailed = FALSE
    Operator = TRUE
    Finishes = {"Succeeded", "Failed", "Cancelled", "Detached"}
    Failing = {"Tracker", "StartWorker", "Workspace", "PersistRetry",
               "PersistExhaustion"}
INVARIANTS
    OverlapWasReported
    RetryIsDurable
    ReceiptMeansFinished
    Consistent
