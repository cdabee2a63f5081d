SPECIFICATION Spec
CONSTANTS
    None = None
    i1 = i1
    i2 = i2
    r1 = r1
    k1 = k1
    k2 = k2
    p1 = p1
    p2 = p2
    IssueIds = {i1, i2}
    Issue = i1
    StateNames = {"Todo"}
    CategoryOf <- MCCategoryOf
    Repos = {r1}
    Unresolved = {}
    Workers = {w1, w2}
    Conversations = {c1}
    Keys = {k1, k2}
    Paths = {p1, p2}
    KeysOf <- MCKeysOf
    PathsOf <- MCPathsOf
    U32Max = 2
    TimeBits = 2
    TimeMax = 3
    RecentMax = 2
    IdleTimeout = 1
    ContinuationDelay = 0
    FailureBaseDelay = 1
    MaxBackoff = 2
    Inputs <- MCInputs
SYMMETRY MCSymmetry
CHECK_DEADLOCK FALSE
INVARIANTS
    InterruptBelongsToRun
    BackoffIsCappedDoubling
