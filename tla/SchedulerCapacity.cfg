SPECIFICATION Spec
CONSTANTS
    None = None
    IssueIds = {i1, i2, i3}
    StateNames = {"Todo", "Merging"}
    CategoryOf <- MCCategoryOf
    Repos = {}
    Unresolved = {}
    Workers = {1, 2, 3}
    Conversations = {c1}
    Keys = {k1}
    Paths = {p1}
    KeysOf <- MCKeysOf
    PathsOf <- MCPathsOf
    U32Max = 3
    TimeBits = 1
    TimeMax = 1
    RecentMax = 1
    MaxConcurrent = 2
    StateLimit <- OneInTodo
    MaxRetryAttempts = 1
    RetainFailed = FALSE
    Operator = FALSE
    Finishes = {}
    Failing = {"Hierarchy", "Tracker", "RateLimit"}
SYMMETRY MCSymmetry
INVARIANTS
    CapacityBound
