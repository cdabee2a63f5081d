-------------------------- MODULE MCIssueLifecycle --------------------------
(* Model-checking instance of IssueLifecycle. *)
EXTENDS IssueLifecycle, TLC

CONSTANTS i1, i2, r1, k1, k2, p1, p2

MCKeysOf == i1 :> {k1} @@ i2 :> {k2}
MCPathsOf == k1 :> {p1, p2} @@ k2 :> {}
MCCategoryOf == [s \in StateNames |-> "Active"]
MCInputs == [outcomes |-> {"Failed", "CancelFailed"},
             interrupts |-> {"OperatorCancel", "SchedulerAbort"},
             releases |-> {"TrackerInactive", "RetryExhausted"}]

\* Worker ids are fresh and paths of one key are interchangeable.
MCSymmetry == Permutations(Workers) \cup Permutations(Paths)
=============================================================================
