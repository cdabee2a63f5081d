\* A leaf below a nested parent below a root; the tracker changes the tree once,
\* and one call fails.
SPECIFICATION Spec
CONSTANTS
    P = P
    Q = Q
    A = A
    Parents = {P, Q}
    Leaves = {A}
    IssueOrder <- MCNestedOrder
    InitialScope <- MCNested
    MaxGeneration = 2
    MaxRuns = 2
    MaxEvents = 1
    MaxFaults = 1
PROPERTIES
    NoStartBelowRun
    RunningParentKeepsItsCheckouts
CHECK_DEADLOCK FALSE
