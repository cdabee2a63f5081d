----------------------------- MODULE ParentRepair -----------------------------
(***************************************************************************)
(* One repair of a parent integration: branch, implementation turn, push,  *)
(* pull request, review, merge, refresh.  `parent_integration.rs` keeps    *)
(* the durable record and its ledger of intents and receipts;              *)
(* `scheduler.rs` drives it once per tick; `backends.rs` talks to GitHub.  *)
(*                                                                         *)
(* The record is written as a whole: `mem` is the copy of the daemon,      *)
(* `disk` the one last written.  Before every external write an intent is  *)
(* written, after it a receipt.  An action below is what the daemon does   *)
(* between two external writes; the provider, the reviewer and the worker  *)
(* move in between, and a crash may come at any point.                     *)
(*                                                                         *)
(* The model starts where `begin_repair` leaves the record.  Left out: the *)
(* instructions' hash, the repair lease (module Hierarchy has leases), the *)
(* tracker's cooldown, a parent that stops being active, retry exhaustion, *)
(* the text of reviews.                                                    *)
(***************************************************************************)
EXTENDS Integers, FiniteSets, Sequences

CONSTANTS
    MaxCommits,      \* bound on the commits made for the repair
    MaxIdleCycle,    \* bound on the cycles in which a turn may change nothing
    MaxRetriggers,   \* `MAX_CODEX_REVIEW_RETRIGGERS`: later reviews asked for
    MaxVerdicts,     \* bound on verdicts that are not an approval of passing work
    MaxEvents,       \* bound on what others do to the branch and the pull request
    MaxFaults        \* bound on failed calls, failed writes and crashes

ASSUME ParentRepairAssumption ==
    {MaxCommits, MaxIdleCycle, MaxRetriggers, MaxVerdicts, MaxEvents, MaxFaults} \subseteq Nat

VARIABLES
    mem,        \* daemon: the repair attempt and the controller's state
    disk,       \* its last written copy
    pc,         \* daemon: the external write it is about to make
    exec,       \* daemon: the execution of the parent
    branch,     \* checkout: the repair branch exists
    local,      \* checkout: the commit the branch is at
    work,       \* checkout: there are changes not committed
    remote,     \* repository: the commit of the remote branch
    pr,         \* provider: the state of the pull request
    prCount,    \* provider: how many pull requests were opened for the branch
    verdict,    \* provider: the review of the head of the branch
    checks,     \* provider: the checks of that head
    conflict,   \* provider: the head cannot be merged
    asked,      \* provider: the review triggers posted while each commit was the head
    comments,   \* provider: the comments on the pull request; their number is the latest
    contained,  \* provider: the merge result is on the target branch
    merger,     \* history: who merged, and which head
    vetted,     \* history: the heads that satisfied the policy at some moment
    lastSeen,   \* history: the last snapshot the daemon read satisfied the policy
    verdicts, events, faults

daemon   == <<mem, disk, pc>>
checkout == <<branch, local, work>>
provider == <<remote, pr, prCount, verdict, checks, conflict, asked, comments,
              contained, merger, vetted>>
bounds   == <<verdicts, events, faults>>
vars     == <<daemon, exec, checkout, provider, lastSeen, bounds>>

NoCommit == -1
Target   == 0                      \* the commit the repair starts from
Ours     == 1 .. MaxCommits
Foreign  == MaxCommits + 1         \* a commit somebody else pushed to the branch
None     == -1                     \* no input: nothing is pending

Kinds == {"ReconcileBranch", "CreateBranch", "ReconcilePush", "Push",
          "ReconcilePullRequest", "CreatePullRequest", "ReconcileReview",
          "RequestReview", "ReconcileMerge", "Merge", "RefreshTarget"}

Prerequisite(kind) ==
    CASE kind = "CreateBranch"      -> {"ReconcileBranch"}
      [] kind = "Push"              -> {"ReconcilePush"}
      [] kind = "CreatePullRequest" -> {"ReconcilePullRequest"}
      [] kind = "RequestReview"     -> {"ReconcileReview"}
      [] kind = "Merge"             -> {"ReconcileMerge"}
      [] OTHER                      -> {}

BlockedStatuses == {"FailedChecks", "ReviewRejected", "ReviewBudgetExhausted",
                    "ProviderUnavailable", "ExternallyClosed", "ForcePushed", "MergeConflict"}

Statuses == BlockedStatuses \cup
    {"PreparingBranch", "Implementing", "AwaitingPullRequest", "AwaitingReview",
     "ChangesRequested", "AwaitingMerge", "Refreshing", "Completed"}

\* The controller's states a repair goes through.
States == {"Fixing", "AwaitingFixReview", "AwaitingFixMerge", "RefreshingAfterFixes",
           "Integrating", "Blocked"}

-----------------------------------------------------------------------------
(* The durable record.                                                       *)

InitialRepair ==
    [state    |-> "Fixing",
     status   |-> "PreparingBranch",
     pushed   |-> NoCommit,
     pr       |-> FALSE,            \* the pull request's number is recorded
     cycle    |-> 0,                \* `requested_change_count`
     done     |-> FALSE,            \* `implementation_completed`
     pending  |-> [k \in Kinds |-> IF k = "ReconcileBranch" THEN 0 ELSE None],
     receipts |-> {},               \* the kinds that have a receipt
     requested |-> {},              \* the heads a review was requested for
     cursor   |-> 0,                \* the latest comment when the request was decided
     keys     |-> {}]               \* the transitions already made, by key and input

\* What a controller operation returns: the record it leaves and whether it
\* succeeded.  An operation that fails keeps what it changed before failing.
Done(r)   == [rec |-> r, ok |-> TRUE]
Failed(r) == [rec |-> r, ok |-> FALSE]

AllowedTransition(from, to) ==
    \/ <<from, to>> \in
         {<<"Fixing", "AwaitingFixReview">>, <<"AwaitingFixReview", "Fixing">>,
          <<"AwaitingFixReview", "AwaitingFixMerge">>, <<"AwaitingFixMerge", "AwaitingFixReview">>,
          <<"AwaitingFixMerge", "Fixing">>,
          <<"AwaitingFixReview", "RefreshingAfterFixes">>,
          <<"AwaitingFixMerge", "RefreshingAfterFixes">>,
          <<"RefreshingAfterFixes", "Integrating">>,
          <<"Blocked", "Fixing">>, <<"Blocked", "AwaitingFixReview">>,
          <<"Blocked", "AwaitingFixMerge">>, <<"Blocked", "RefreshingAfterFixes">>}
    \/ to = "Blocked"

\* A transition with a key that was used before changes nothing: it succeeds
\* when the input is the same and fails when it is not.
Keyed(r, to, name, input) ==
    IF \E k \in r.keys : k.name = name
    THEN IF [name |-> name, input |-> input] \in r.keys THEN Done(r) ELSE Failed(r)
    ELSE IF AllowedTransition(r.state, to)
         THEN Done([r EXCEPT !.state = to, !.keys = @ \cup {[name |-> name, input |-> input]}])
         ELSE Failed(r)

\* A transition whose key holds the state's version or a new cycle is new.
Fresh(r, to) ==
    IF AllowedTransition(r.state, to) THEN Done([r EXCEPT !.state = to]) ELSE Failed(r)

Block(r, status, input) ==
    Keyed([r EXCEPT !.status = status], "Blocked", <<status, 0>>, input)

\* `begin_provider_operation`
Intend(r, kind, input) ==
    IF \/ ~ (Prerequisite(kind) \subseteq r.receipts)
       \/ r.pending[kind] \notin {None, input}
    THEN Failed(r)
    ELSE Done([r EXCEPT !.pending[kind] = input])

\* `record_provider_operation` on the pending operation of that kind
Receipt(r, kind) ==
    [r EXCEPT !.pending[kind] = None,
              !.receipts = @ \cup {kind},
              !.requested = IF kind = "RequestReview" THEN @ \cup {r.pending[kind]} ELSE @]

ReceiptIfPending(r, kind, input) ==
    IF r.pending[kind] # None /\ r.pending[kind] = input THEN Receipt(r, kind) ELSE r

Superseded(r, kind) == IF r.pending[kind] # None THEN Receipt(r, kind) ELSE r

\* `record_repair_push`: a new commit ends the pending merges of the old one.
RecordPush(r, commit) ==
    LET changed == r.pushed # commit
        kept    == IF changed THEN Superseded(Superseded(r, "ReconcileMerge"), "Merge") ELSE r
        pushed  == [kept EXCEPT !.pushed = commit,
                                !.status = IF r.pr THEN "AwaitingReview" ELSE "AwaitingPullRequest"]
    IN IF r.pr /\ (changed \/ r.state = "Fixing")
       THEN Keyed(pushed, "AwaitingFixReview", <<"push", commit>>, r.cycle)
       ELSE Done(pushed)

\* `record_repair_pull_request`, and the receipt of the intent to create it
RecordPullRequest(r) ==
    IF r.pr
    THEN Done(Superseded(r, "CreatePullRequest"))
    ELSE LET moved == Keyed(r, "AwaitingFixReview", <<"pull-request", 0>>, r.cycle)
         IN IF moved.ok
            THEN Done(Superseded([moved.rec EXCEPT !.pr = TRUE, !.status = "AwaitingReview"],
                                 "CreatePullRequest"))
            ELSE moved

-----------------------------------------------------------------------------
(* What the daemon learns from the provider, and what it makes of it.        *)

\* Wrong on purpose: the list of pull requests is asked for open ones only.
FoundOpen == pr = "open"

Found == pr # "none"

\* `github_parent_repair_snapshot`: the reviews and the checks are those of the
\* head; `contained` is whether the merge result is on the target branch.
Snapshot ==
    [available |-> TRUE,
     found     |-> Found,
     head      |-> IF Found THEN remote ELSE NoCommit,
     review    |-> IF Found THEN verdict ELSE "none",
     checks    |-> IF Found THEN checks ELSE "pending",
     conflict  |-> Found /\ conflict,
     open      |-> pr = "open",
     merged    |-> pr = "merged",
     reachable |-> contained]

\* `unavailable_provider_snapshot`
Unavailable(r) == [Snapshot EXCEPT !.available = FALSE, !.found = r.pr]

Eligible(s) == s.checks = "passed" /\ s.review = "approved"

\* Wrong on purpose: whoever merged the pushed head is believed.
ReconcileMergedByAnyone(r, s) ==
    IF s.head # r.pushed
    THEN Block(r, "ExternallyClosed", 0)
    ELSE Keyed([Receipt(r, "Merge") EXCEPT !.status = "Refreshing"],
               "RefreshingAfterFixes", <<"merged", 0>>, 0)

\* The merged branch of `reconcile_repair_provider`: only a merge of the
\* recorded head, still satisfying the policy, that this ledger intended.
ReconcileMerged(r, s) ==
    IF \/ s.head # r.pushed \/ ~ Eligible(s)
       \/ r.pending["Merge"] = None \/ r.pending["Merge"] # r.pushed
    THEN Block(r, "ExternallyClosed", 0)
    ELSE IF ~ s.reachable
    THEN Block(r, "ForcePushed", 0)
    ELSE Keyed([Receipt(r, "Merge") EXCEPT !.status = "Refreshing"],
               "RefreshingAfterFixes", <<"merged", 0>>, 0)

\* `reconcile_repair_provider`, its guards in the order of the code.
ReconcileProvider(r, s) ==
    IF ~ s.available
    THEN Block(r, "ProviderUnavailable", 0)
    ELSE IF ~ s.found /\ ~ r.pr /\ r.pushed # NoCommit /\ r.state = "Blocked"
    THEN Fresh([r EXCEPT !.status = "AwaitingPullRequest"], "Fixing")
    ELSE IF s.merged
    THEN ReconcileMerged(r, s)
    ELSE IF s.found /\ ~ s.open
    THEN Block(r, "ExternallyClosed", 0)
    ELSE IF s.head # NoCommit /\ r.pushed # NoCommit /\ s.head # r.pushed
    THEN Block(r, "ForcePushed", 0)
    ELSE IF s.conflict
    THEN Block(r, "MergeConflict", 0)
    ELSE IF s.checks = "failed"
    THEN Block(r, "FailedChecks", 0)
    ELSE IF s.review = "changes"
    THEN Fresh([r EXCEPT !.status = "ChangesRequested", !.done = FALSE, !.cycle = @ + 1], "Fixing")
    ELSE IF s.review = "rejected"
    THEN Block(r, "ReviewRejected", 0)
    ELSE IF Eligible(s)
    THEN IF r.pr
         THEN Keyed([r EXCEPT !.status = "AwaitingMerge"],
                    "AwaitingFixMerge", <<"merge-ready", 0>>, 0)
         ELSE Failed(r)
    ELSE IF /\ r.status # "ReviewBudgetExhausted"
            /\ r.state \in {"Blocked", "AwaitingFixMerge"}
            /\ s.open
    THEN IF r.pr
         THEN Fresh([r EXCEPT !.status = "AwaitingReview"], "AwaitingFixReview")
         ELSE Failed(r)
    ELSE Done(r)

-----------------------------------------------------------------------------
(* Writing the record.                                                       *)

\* Only the first n records of `ms` get written: a write failed, or the
\* daemon stopped there.  Memory goes back to the last written record.
StopsAfter(ms, n) ==
    /\ faults < MaxFaults /\ faults' = faults + 1
    /\ pc' = "idle"
    /\ mem' = IF n = 0 THEN mem ELSE ms[n]
    /\ disk' \in IF n = 0 THEN {disk, mem} ELSE {ms[n]}

\* The records of `ms` are written one after the other, then `next`.
Written(ms, next) ==
    \/ /\ mem' = ms[Len(ms)] /\ disk' = ms[Len(ms)]
       /\ pc' = next
       /\ UNCHANGED faults
    \/ \E n \in 0 .. Len(ms) - 1 : StopsAfter(ms, n)

\* The operation after `ms` failed: the failure is recorded together with
\* whatever the operation had changed.  That write may fail too.
Abandoned(ms, r) ==
    \/ /\ mem' = r
       /\ pc' = "idle"
       /\ \/ disk' = r /\ UNCHANGED faults
          \/ /\ disk' = IF ms = <<>> THEN disk ELSE ms[Len(ms)]
             /\ faults < MaxFaults /\ faults' = faults + 1
    \/ \E n \in 0 .. Len(ms) - 1 : StopsAfter(ms, n)

\* Write `ms`, then what the operation returned.
Concluded(ms, result, next) ==
    IF result.ok THEN Written(Append(ms, result.rec), next) ELSE Abandoned(ms, result.rec)

\* An external call failed, or its answer was lost, after `ms` was written.
CallFails(ms) ==
    /\ faults < MaxFaults /\ faults' = faults + 1
    /\ mem' = (IF ms = <<>> THEN mem ELSE ms[Len(ms)]) /\ disk' = mem'
    /\ pc' = "idle"

-----------------------------------------------------------------------------
(* `begin_parent_repair`: the branch.                                        *)

Idle(status) == pc = "idle" /\ mem.status = status

BranchReady(r) == [r EXCEPT !.status = "Implementing"]

\* Look for the branch; adopt it, or intend to create it.
ReconcileBranch ==
    /\ Idle("PreparingBranch")
    /\ LET intended == Intend(mem, "ReconcileBranch", 0).rec
           looked   == Receipt(intended, "ReconcileBranch")
           adopted  == Superseded(looked, "CreateBranch")
       IN IF branch
          THEN Written(<<intended, looked, adopted, BranchReady(adopted)>>, "idle")
          ELSE Concluded(<<intended, looked>>, Intend(looked, "CreateBranch", 0), "CreateBranch")
    /\ UNCHANGED <<exec, checkout, provider, lastSeen, verdicts, events>>

CreateBranch ==
    /\ pc = "CreateBranch"
    /\ LET created == Receipt(mem, "CreateBranch")
       IN \/ branch' = TRUE /\ Written(<<created, BranchReady(created)>>, "idle")
          \/ branch' \in BOOLEAN /\ CallFails(<<>>)
    /\ UNCHANGED <<exec, local, work, provider, lastSeen, verdicts, events>>

-----------------------------------------------------------------------------
(* The implementation turn of the parent's worker.                           *)

TurnWanted == \/ mem.status = "Implementing" /\ ~ mem.done
              \/ mem.status = "ChangesRequested"

\* `queue_parent_repair_retry`
QueueTurn ==
    /\ pc = "idle" /\ TurnWanted
    /\ exec = "released"
    /\ exec' = "retry"
    /\ UNCHANGED <<daemon, checkout, provider, lastSeen, bounds>>

Dispatch ==
    /\ pc = "idle" /\ exec = "retry"
    /\ exec' = "running"
    /\ UNCHANGED <<daemon, checkout, provider, lastSeen, bounds>>

\* The worker leaves changes in the checkout, or none, and its checks pass:
\* `record_parent_worker_outcome`.  A write that fails is retried with the
\* same outcome.
TurnPasses(changed) ==
    /\ pc = "idle" /\ exec = "running"
    /\ work' = (work \/ changed)
    /\ IF changed THEN local < MaxCommits ELSE mem.cycle <= MaxIdleCycle
    /\ LET r == [mem EXCEPT !.status = "Implementing", !.done = TRUE]
       IN IF TurnWanted /\ mem.state = "Fixing"
          THEN mem' = r /\ disk' = r
          ELSE UNCHANGED <<mem, disk>>
    /\ exec' = "released"
    /\ UNCHANGED <<pc, branch, local, provider, lastSeen, bounds>>

TurnFails ==
    /\ pc = "idle" /\ exec = "running"
    /\ faults < MaxFaults /\ faults' = faults + 1
    /\ work' \in {work, local < MaxCommits}
    /\ exec' = "retry"
    /\ UNCHANGED <<daemon, branch, local, provider, lastSeen, verdicts, events>>

-----------------------------------------------------------------------------
(* `publish_parent_repair`: push, then the pull request.                     *)

Publishable ==
    \/ Idle("Implementing") /\ mem.done /\ exec = "released"
    \/ Idle("AwaitingPullRequest")

\* Compare the checkout with the remote branch, and decide whether to push.
ReconcilePush ==
    /\ Publishable
    /\ LET intended == Intend(mem, "ReconcilePush", mem.cycle)
           looked   == Receipt(intended.rec, "ReconcilePush")
           required == [looked EXCEPT !.status = "Implementing", !.done = FALSE]
           pushed   == ReceiptIfPending(looked, "Push", looked.cycle)
           begun    == <<intended.rec, looked>>
       IN IF ~ intended.ok
          THEN Abandoned(<<>>, intended.rec)
          ELSE IF remote \notin {NoCommit, local, mem.pushed}
          THEN Abandoned(begun, looked)
          ELSE IF ~ work /\ local = Target
          THEN Written(Append(begun, required), "idle")
          ELSE IF work \/ remote # local
          THEN Concluded(begun, Intend(looked, "Push", looked.cycle), "Push")
          ELSE Concluded(Append(begun, pushed), RecordPush(pushed, local), "FindPullRequest")
    /\ UNCHANGED <<exec, checkout, provider, lastSeen, verdicts, events>>

\* Commit what the worker left and push the branch.  The remote refuses a
\* branch that does not contain its head.
Push ==
    /\ pc = "Push"
    /\ LET head     == IF work THEN local + 1 ELSE local
           received == Receipt(mem, "Push")
       IN /\ local' = head
          /\ work' = FALSE
          /\ \/ /\ remote # Foreign
                /\ remote' = head
                /\ verdict' = "none" /\ checks' = "pending" /\ conflict' = FALSE
                /\ \/ Concluded(<<received>>, RecordPush(received, head), "FindPullRequest")
                   \/ CallFails(<<>>)
             \/ /\ remote = Foreign
                /\ Abandoned(<<>>, mem)
                /\ UNCHANGED <<remote, verdict, checks, conflict>>
             \/ /\ CallFails(<<>>)
                /\ UNCHANGED <<remote, verdict, checks, conflict>>
    /\ UNCHANGED <<exec, branch, pr, prCount, asked, comments, contained, merger, vetted, lastSeen,
                   verdicts, events>>

\* Look for the pull request; adopt it, or intend to create it.
FindPullRequest ==
    /\ pc = "FindPullRequest"
    /\ LET intended == Intend(mem, "ReconcilePullRequest", mem.cycle)
           looked   == Receipt(intended.rec, "ReconcilePullRequest")
           begun    == <<intended.rec, looked>>
       IN IF ~ intended.ok
          THEN Abandoned(<<>>, intended.rec)
          ELSE \/ IF Found
                  THEN Concluded(begun, RecordPullRequest(looked), "idle")
                  ELSE Concluded(begun, Intend(looked, "CreatePullRequest", looked.cycle),
                                 "CreatePullRequest")
               \/ CallFails(<<ReconcileProvider(intended.rec, Unavailable(mem)).rec>>)
    /\ UNCHANGED <<exec, checkout, provider, lastSeen, verdicts, events>>

\* `ensure_parent_repair_pull_request` looks once more before it creates one.
EnsurePullRequest ==
    IF Found THEN UNCHANGED <<pr, prCount>> ELSE pr' = "open" /\ prCount' = prCount + 1

CreatePullRequest ==
    /\ pc = "CreatePullRequest"
    /\ \/ EnsurePullRequest /\ Concluded(<<>>, RecordPullRequest(mem), "idle")
       \/ EnsurePullRequest /\ CallFails(<<>>)
       \/ UNCHANGED <<pr, prCount>> /\ CallFails(<<>>)
    /\ UNCHANGED <<exec, checkout, remote, verdict, checks, conflict, asked, comments, contained,
                   merger, vetted, lastSeen, verdicts, events>>

-----------------------------------------------------------------------------
(* `request_parent_repair_review` and `reconcile_parent_repair`.             *)

\* Wrong on purpose: the cursor moves with every reconciliation.
LookedForReviewAgain(r) == [Receipt(r, "ReconcileReview") EXCEPT !.cursor = comments]

\* The cursor of the reconciliation that a pending request was decided on.
LookedForReview(r) ==
    [Receipt(r, "ReconcileReview") EXCEPT
        !.cursor = IF r.pending["RequestReview"] = None THEN comments ELSE @]

\* Read the review of the pushed head; ask for one only if there is none.
ReconcileReview ==
    /\ Idle("AwaitingReview") /\ mem.pushed \notin mem.requested
    /\ LET intended == Intend(mem, "ReconcileReview", mem.pushed)
           looked   == LookedForReview(intended.rec)
           begun    == <<intended.rec, looked>>
       IN IF ~ intended.ok
          THEN Abandoned(<<>>, intended.rec)
          ELSE \/ IF Snapshot.review # "none" /\ Snapshot.head = mem.pushed
                  THEN Concluded(begun, ReconcileProvider(looked, Snapshot), "idle")
                  ELSE IF mem.cycle > MaxRetriggers
                  THEN Concluded(begun, Block(looked, "ReviewBudgetExhausted", mem.pushed), "idle")
                  ELSE Concluded(begun, Intend(looked, "RequestReview", mem.pushed),
                                 "RequestReview")
               \/ CallFails(<<intended.rec>>)
    /\ UNCHANGED <<exec, checkout, provider, lastSeen, verdicts, events>>

\* A comment after the cursor shows that this review was asked for before.
AlreadyPosted == comments > mem.cursor

\* The first review starts by itself; a later one is asked for by a comment.
Trigger ==
    IF mem.cycle \in 1 .. MaxRetriggers /\ ~ AlreadyPosted
    THEN asked' = [asked EXCEPT ![mem.pushed] = @ + 1] /\ comments' = comments + 1
    ELSE UNCHANGED <<asked, comments>>

RequestReview ==
    /\ pc = "RequestReview"
    /\ LET received == Receipt(mem, "RequestReview")
       IN \/ Trigger /\ Concluded(<<received>>, ReconcileProvider(received, Snapshot), "idle")
          \/ Trigger /\ CallFails(<<>>)
          \/ UNCHANGED <<asked, comments>> /\ CallFails(<<>>)
    /\ UNCHANGED <<exec, checkout, remote, pr, prCount, verdict, checks, conflict, contained,
                   merger, vetted, lastSeen, verdicts, events>>

\* Follow the provider while waiting for it, and while blocked.
Reconcile ==
    /\ pc = "idle"
    /\ \/ mem.status \in BlockedStatuses
       \/ mem.status = "AwaitingReview" /\ mem.pushed \in mem.requested
    /\ \/ Concluded(<<>>, ReconcileProvider(mem, Snapshot), "idle")
       \/ CallFails(<<ReconcileProvider(mem, Unavailable(mem)).rec>>)
    /\ UNCHANGED <<exec, checkout, provider, lastSeen, verdicts, events>>

-----------------------------------------------------------------------------
(* `merge_parent_repair` and `refresh_parent_repair`.                        *)

\* Wrong on purpose: the merge is called before its intent is written.
ReconcileMergeOnly ==
    /\ Idle("AwaitingMerge")
    /\ LET intended == Intend(mem, "ReconcileMerge", mem.pushed)
           looked   == Receipt(intended.rec, "ReconcileMerge")
           applied  == ReconcileProvider(looked, Snapshot)
       IN /\ intended.ok /\ applied.ok
          /\ Written(<<intended.rec, looked, applied.rec>>,
                     IF applied.rec.status = "AwaitingMerge" THEN "Merge" ELSE "idle")
    /\ lastSeen' = Eligible(Snapshot)
    /\ UNCHANGED <<exec, checkout, provider, verdicts, events>>

\* Read a fresh snapshot, apply it, and go on only if the status still allows.
ReconcileMerge ==
    /\ Idle("AwaitingMerge")
    /\ LET intended == Intend(mem, "ReconcileMerge", mem.pushed)
           looked   == Receipt(intended.rec, "ReconcileMerge")
           applied  == ReconcileProvider(looked, Snapshot)
           begun    == <<intended.rec, looked>>
       IN IF ~ intended.ok
          THEN Abandoned(<<>>, intended.rec) /\ UNCHANGED lastSeen
          ELSE \/ /\ IF applied.ok /\ applied.rec.status = "AwaitingMerge"
                     THEN Concluded(Append(begun, applied.rec),
                                    Intend(applied.rec, "Merge", mem.pushed), "Merge")
                     ELSE Concluded(begun, applied, "idle")
                  /\ lastSeen' = Eligible(Snapshot)
               \/ /\ CallFails(<<ReconcileProvider(intended.rec, Unavailable(mem)).rec>>)
                  /\ UNCHANGED lastSeen
    /\ UNCHANGED <<exec, checkout, provider, verdicts, events>>

\* Wrong on purpose: the merge call does not name the commit.
MergeableAtAnyHead(head) == pr = "open" /\ ~ conflict

\* The provider merges the pushed commit or declines.
Mergeable(head) == pr = "open" /\ remote = head /\ ~ conflict

MergeHead ==
    /\ Mergeable(mem.pushed)
    /\ pr' = "merged" /\ contained' = TRUE
    /\ merger' = [who |-> "daemon", head |-> remote]

Merge ==
    /\ pc = "Merge"
    /\ LET merged == [Snapshot EXCEPT !.merged = TRUE, !.open = FALSE, !.reachable = TRUE]
       IN \/ MergeHead /\ Concluded(<<>>, ReconcileProvider(mem, merged), "idle")
          \/ MergeHead /\ CallFails(<<>>)
          \/ /\ ~ Mergeable(mem.pushed) /\ Abandoned(<<>>, mem)
             /\ UNCHANGED <<pr, contained, merger>>
          \/ CallFails(<<>>) /\ UNCHANGED <<pr, contained, merger>>
    /\ UNCHANGED <<exec, checkout, remote, prCount, verdict, checks, conflict, asked, comments,
                   vetted, lastSeen, verdicts, events>>

\* Fetch the target, check that it contains the merge, record the new target
\* and queue the turn that verifies it.
Refresh ==
    /\ Idle("Refreshing")
    /\ LET intended  == Intend(mem, "RefreshTarget", 0).rec
           completed == [Receipt(intended, "RefreshTarget") EXCEPT !.status = "Completed"]
           moved     == Fresh(completed, "Integrating")
       IN \/ /\ contained
             /\ Concluded(<<intended>>, moved, "idle")
             /\ exec' = IF disk' = moved.rec /\ exec = "released" THEN "retry" ELSE exec
          \/ ~ contained /\ Abandoned(<<intended>>, intended) /\ UNCHANGED exec
    /\ UNCHANGED <<checkout, provider, lastSeen, verdicts, events>>

-----------------------------------------------------------------------------
(* The provider, its users, and crashes.                                     *)

Vetted(ok) == vetted' = IF ok THEN vetted \cup {remote} ELSE vetted

Approve ==
    /\ pr = "open" /\ verdict # "approved"
    /\ verdict' = "approved"
    /\ Vetted(checks = "passed")
    /\ UNCHANGED <<daemon, exec, checkout, remote, pr, prCount, checks, conflict, asked,
                   comments, contained, merger, lastSeen, bounds>>

PassChecks ==
    /\ pr = "open" /\ checks # "passed"
    /\ checks' = "passed"
    /\ Vetted(verdict = "approved")
    /\ UNCHANGED <<daemon, exec, checkout, remote, pr, prCount, verdict, conflict, asked,
                   comments, contained, merger, lastSeen, bounds>>

\* Changes are requested, the work is rejected, an approval is dismissed, a
\* check fails or runs again.
Object ==
    /\ pr # "none" /\ verdicts < MaxVerdicts
    /\ verdicts' = verdicts + 1
    /\ \/ verdict' \in {"none", "changes", "rejected"} \ {verdict} /\ UNCHANGED checks
       \/ checks' \in {"pending", "failed"} \ {checks} /\ UNCHANGED verdict
    /\ UNCHANGED <<daemon, exec, checkout, remote, pr, prCount, conflict, asked, comments,
                   contained, merger, vetted, lastSeen, events, faults>>

OthersMerge ==
    /\ Mergeable(remote)
    /\ pr' = "merged" /\ contained' = TRUE
    /\ merger' = [who |-> "other", head |-> remote]
    /\ UNCHANGED <<remote, verdict, checks, conflict>>

OthersCloseOrReopen ==
    /\ pr \in {"open", "closed"}
    /\ pr' = IF pr = "open" THEN "closed" ELSE "open"
    /\ UNCHANGED <<remote, verdict, checks, conflict, contained, merger>>

OthersPush ==
    /\ remote # NoCommit
    /\ remote' \in ({Foreign} \cup 1 .. local) \ {remote}
    /\ verdict' = "none" /\ checks' = "pending" /\ conflict' = FALSE
    /\ UNCHANGED <<pr, contained, merger>>

\* The target branch moves on and conflicts, or loses the merge.
TargetMoves ==
    /\ \/ pr = "open" /\ conflict' = ~ conflict /\ UNCHANGED contained
       \/ pr = "merged" /\ contained' = ~ contained /\ UNCHANGED conflict
    /\ UNCHANGED <<remote, pr, verdict, checks, merger>>

Others ==
    /\ events < MaxEvents /\ events' = events + 1
    /\ OthersMerge \/ OthersCloseOrReopen \/ OthersPush \/ TargetMoves
    /\ UNCHANGED <<daemon, exec, checkout, prCount, asked, comments, vetted, lastSeen, verdicts, faults>>

\* A run in flight is recovered and retried; the record is read back.
Crash ==
    /\ faults < MaxFaults /\ faults' = faults + 1
    /\ mem' = disk
    /\ pc' = "idle"
    /\ exec' = IF exec = "running" THEN "retry" ELSE exec
    /\ UNCHANGED <<disk, checkout, provider, lastSeen, verdicts, events>>

-----------------------------------------------------------------------------

Init ==
    /\ mem = InitialRepair /\ disk = InitialRepair
    /\ pc = "idle" /\ exec = "released"
    /\ branch = FALSE /\ local = Target /\ work = FALSE
    /\ remote = NoCommit /\ pr = "none" /\ prCount = 0
    /\ verdict = "none" /\ checks = "pending" /\ conflict = FALSE /\ contained = FALSE
    /\ asked = [c \in Ours |-> 0] /\ comments = 0
    /\ merger = [who |-> "nobody", head |-> NoCommit]
    /\ vetted = {} /\ lastSeen = FALSE
    /\ verdicts = 0 /\ events = 0 /\ faults = 0

\* The daemon: one external write at a time.
Advance ==
    \/ ReconcileBranch \/ CreateBranch
    \/ ReconcilePush \/ Push \/ FindPullRequest \/ CreatePullRequest
    \/ ReconcileReview \/ RequestReview \/ Reconcile
    \/ ReconcileMerge \/ Merge \/ Refresh

Worker == \/ QueueTurn \/ Dispatch
          \/ TurnPasses(TRUE) \/ TurnPasses(FALSE) \/ TurnFails

Review == Approve \/ PassChecks \/ Object

Next == Advance \/ Worker \/ Review \/ Others \/ Crash

Spec == Init /\ [][Next]_vars

\* Opening the pull request starts the review of its first commit; later ones
\* are reviewed when a trigger asks for it; who objected looks again.
ReviewDue == remote = 1 \/ verdict # "none" \/ (remote \in Ours /\ asked[remote] > 0)

\* The daemon ticks; turns are queued, dispatched and end; a turn that changes
\* something comes in the end; reviews that are due and checks come in.
Fairness ==
    /\ WF_vars(Advance)
    /\ WF_vars(QueueTurn) /\ WF_vars(Dispatch) /\ SF_vars(TurnPasses(TRUE))
    /\ WF_vars(ReviewDue /\ Approve) /\ WF_vars(PassChecks)

LiveSpec == Spec /\ Fairness

-----------------------------------------------------------------------------
(* Properties.                                                               *)

\* The record holds known states; while an external write is out, memory and
\* disk agree, because its intent has just been written.
TypeOK ==
    /\ mem.state \in States /\ mem.status \in Statuses
    /\ disk.state \in States /\ disk.status \in Statuses
    /\ pc \in {"idle", "CreateBranch", "Push", "FindPullRequest", "CreatePullRequest",
               "RequestReview", "Merge"}
    /\ pc # "idle" => mem = disk

\* However often a call is repeated after a crash, a lost answer or a failed
\* write, and whoever closes the pull request, one is opened for the repair:
\* `publish_parent_repair` and `ensure_parent_repair_pull_request`.
OnePullRequest == prCount <= 1

\* The trigger of a review is posted at most once for a head: a request that is
\* repeated finds the comment of the first one behind the cursor that was
\* recorded before it (`pending_codex_review_request_context`).
OneTriggerPerHead == \A c \in Ours : asked[c] <= 1

\* The daemon merges only a head that was approved with passing checks, even
\* when somebody pushes between its snapshot and its merge.
MergedHeadWasVetted == merger.who = "daemon" => merger.head \in vetted

\* A merge of the daemon is never unknown to it: whatever was lost or failed
\* since, the record on disk holds the intent for that head or its outcome.
MergeLeavesItsIntent ==
    merger.who = "daemon" =>
        \/ disk.pending["Merge"] = merger.head
        \/ disk.status \in {"Refreshing", "Completed"} /\ disk.pushed = merger.head

\* A repair refreshes and completes only on a merge of the commit it recorded
\* as pushed, and that commit was approved with passing checks: a merge or a
\* push by somebody else is not taken for it (`reconcile_repair_provider`).
CompletedMeansMerged ==
    disk.status \in {"Refreshing", "Completed"} =>
        /\ pr = "merged" /\ merger.head = disk.pushed /\ merger.head \in vetted

\* When no call and no write fails, the repair completes and hands back to the
\* verification, or waits for an operator: its review budget is used up, or it
\* was merged while the policy had just ceased to be satisfied.
RepairSettles ==
    <>[](\/ mem.status = "Completed" /\ mem.state = "Integrating"
         \/ mem.status = "ReviewBudgetExhausted"
         \/ mem.status = "ExternallyClosed" /\ merger.who # "nobody")

\* The merge follows a snapshot in which the approval and the checks were
\* current.  It need not: the key of the "merge-ready" transition is the same
\* each time, so the second time the status moves and the state does not, and
\* the snapshot that retracts the approval leaves the status alone.
MergeFollowsFreshSnapshot == pc = "Merge" => lastSeen

\* A completed repair has returned its parent to the integration, where the
\* final verification runs.  It need not: after two turns that push nothing
\* new the push transition conflicts with its own key, the state stays
\* "Fixing" and the repair goes on and completes without it.
CompletedRepairResumes == mem.status = "Completed" => mem.state = "Integrating"
=============================================================================
