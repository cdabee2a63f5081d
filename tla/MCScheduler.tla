---------------------------- MODULE MCScheduler ----------------------------
(* Small instances of Scheduler for TLC.  The worker ordinals 1..N bound   *)
(* the number of runs, and with it the inbox: a worker reports once.       *)
EXTENDS Scheduler, TLC

MCCategoryOf == [s \in StateNames |->
    CASE s \in {"HumanReview", "Merging", "Todo"} -> "Active"
      [] s = "Backlog" -> "NonActive"
      [] OTHER -> "Terminal"]
MCKeysOf == [i \in IssueIds |-> Keys]
MCPathsOf == [k \in Keys |-> Paths]
NoStateLimit == [s \in StateNames |-> None]
MCSymmetry == Permutations(IssueIds)
OneInTodo == [s \in StateNames |-> IF s = "Todo" THEN 1 ELSE None]
=============================================================================
