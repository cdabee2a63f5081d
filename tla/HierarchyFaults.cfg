\* One leaf below a parent; the tracker changes the tree twice, two steps fail.
SPECIFICATION Spec
CONSTANTS
    P = P
    Q = Q
    A = A
    Parents = {P}
    Leaves = {A}
    IssueOrder <- MCSingleOrder
    InitialScope <- MCSingle
    MaxGeneration = 2
    MaxRuns = 2
    MaxEvents = 2
    MaxFaults = 2
INVARIANTS
    TypeOK
    FenceCoversRun
    FenceSurvivesCrash
PROPERTIES
    FreshWhenStarted
CHECK_DEADLOCK FALSE
