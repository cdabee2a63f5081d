--------------------------- MODULE IssueLifecycle ---------------------------
(***************************************************************************)
(* The life of one IssueExecution under every sequence of calls the        *)
(* scheduler may make on it: one action per method of the Rust type.  The  *)
(* arguments are chosen freely within what callers can pass; a call whose  *)
(* guard (XOk) fails returns Err and leaves the caller's record unchanged, *)
(* so it is no step here.                                                  *)
(***************************************************************************)
EXTENDS IssueExecution

CONSTANTS
    Issue,          \* the id of the issue this execution belongs to
    IdleTimeout,    \* scheduler stall_timeout_ms
    ContinuationDelay, FailureBaseDelay, MaxBackoff,   \* RetryPolicy
    Inputs          \* enumerated outcome kinds and reasons

ASSUME LifecycleAssumption ==
    /\ Issue \in IssueIds
    /\ IdleTimeout \in Times
    /\ ContinuationDelay \in Times
    /\ FailureBaseDelay \in Times
    /\ MaxBackoff \in Times
    /\ MaxBackoff <= 2^(TimeBits - 1)
    /\ Inputs.outcomes \subseteq OutcomeKinds
    /\ Inputs.interrupts \subseteq InterruptReasons
    /\ Inputs.releases \subseteq ReleaseReasons

VARIABLES
    exec,           \* the IssueExecution
    spent,          \* worker ids already used: next_worker_id never repeats one
    target          \* history: the worker whose run the recorded interrupt was
                    \* raised against (the command itself only names the issue)

vars == <<exec, spent, target>>

\* The expected next state each interrupt reason is raised with.
NextFor(reason) ==
    CASE reason = "OperatorCancel" -> "Paused"
      [] reason = "TrackerMergingSupersedesHumanReview" -> "CloseoutPending"
      [] OTHER -> "Released"

Init ==
    /\ \E b \in Bindings, s \in StateNames :
          exec = NewExecution([id |-> Issue, state |-> s, binding |-> b])
    /\ spent = {}
    /\ target = None

-----------------------------------------------------------------------------
Refresh ==
    \E i \in IssueIds, s \in StateNames, b \in Bindings :
        LET issue == [id |-> i, state |-> s, binding |-> b] IN
        /\ RefreshIssueOk(exec, issue)
        /\ exec' = RefreshIssue(exec, issue)
        /\ UNCHANGED <<spent, target>>

Attach ==
    \E k \in Keys, p \in Paths :
        LET ws == [key |-> k, path |-> p] IN
        /\ AttachWorkspaceOk(exec, ws)
        /\ exec' = AttachWorkspace(exec, ws)
        /\ UNCHANGED <<spent, target>>

\* Every caller removes a workspace only when no run can use it.
Clear ==
    /\ exec.status \in {"Unclaimed", "Released"}
    /\ exec' = ClearWorkspace(exec)
    /\ UNCHANGED <<spent, target>>

DoClaim ==
    \E w \in Workers \ spent, p \in Paths, b \in Repos \cup {None}, a \in U32 :
        LET run == NewRun(w, Issue, p, b, a) IN
        /\ ClaimOk(exec, run)
        /\ exec' = Claim(exec, run)
        /\ spent' = spent \cup {w}
        /\ UNCHANGED target

DoStartRunning ==
    \E at \in Times, session \in Conversations \cup {None} :
        /\ StartRunningOk(exec, session)
        /\ exec' = StartRunning(exec, at, IdleTimeout, session)
        /\ UNCHANGED <<spent, target>>

DoRecordTurnStarted ==
    \E at \in Times :
        /\ ObserveOk(exec)
        /\ exec' = RecordTurnStarted(exec, at)
        /\ UNCHANGED <<spent, target>>

\* observe_runtime_event and observe_operator_resolution, which differ only
\* outside Running.
Observe ==
    \E at \in Times :
        /\ exec' = ObserveOperatorResolution(exec, at)
        /\ UNCHANGED <<spent, target>>

\* ConversationMetadataUpdate from the worker of the current run.
NewConversation ==
    \E c \in Conversations :
        /\ IsLive(exec)
        /\ exec' = UpdateConversation(exec, c)
        /\ UNCHANGED <<spent, target>>

DoRequestInterrupt ==
    \E reason \in Inputs.interrupts :
        /\ RequestInterruptOk(exec)
        /\ exec' = RequestInterrupt(exec, reason, NextFor(reason))
        /\ target' = IF InterruptQueued(exec) THEN exec.run.worker ELSE target
        /\ UNCHANGED spent

\* Only recovery calls it, on the run it has just started.
DoRestoreInterruptIntent ==
    \E reason \in Inputs.interrupts :
        /\ exec.status = "Running" /\ exec.interrupt = None
        /\ RequestInterruptOk(exec)
        /\ exec' = RestoreInterruptIntent(exec, reason, NextFor(reason))
        /\ target' = exec.run.worker
        /\ UNCHANGED spent

DoUpdateInterrupt ==
    \E status \in {"Acknowledged", "Failed", "TimedOut"} :
        /\ UpdateInterruptOk(exec)
        /\ exec' = UpdateInterrupt(exec, status)
        /\ UNCHANGED <<spent, target>>

\* queue_retry_for_outcome: continuation or failure entry for the current run.
DoQueueRetry ==
    \E kind \in Inputs.outcomes, at \in Times, fails \in BOOLEAN :
        LET outcome == OutcomeFromRun(exec.run, kind)
            retry == IF fails
                     THEN RetryEntry(exec, "Failure", at,
                            FailureDelay(After(exec.run.attempt),
                                         FailureBaseDelay, MaxBackoff))
                     ELSE RetryEntry(exec, "Continuation", at, ContinuationDelay)
        IN  /\ IsLive(exec)
            /\ QueueRetryOk(exec, retry, outcome)
            /\ exec' = QueueRetry(exec, retry, outcome)
            /\ UNCHANGED <<spent, target>>

\* Recovery and reopening rebuild a retry whose attempt is its consumed count.
DoRestoreRetry ==
    \E n \in RetryAttempts, at \in Times :
        LET retry == [issue |-> Issue, attempt |-> n, normalRetryCount |-> n,
                      scheduledAt |-> at, dueAt |-> at,
                      reason |-> "Reconciliation"]
        IN  /\ RestoreRetryOk(exec, retry)
            /\ exec' = RestoreRetry(exec, retry)
            /\ UNCHANGED <<spent, target>>

DoRelease ==
    \E reason \in Inputs.releases, kind \in Inputs.outcomes \cup {None} :
        /\ ReleaseOk(exec)
        /\ kind # None => IsLive(exec)
        /\ exec' = Release(exec, reason,
                           IF kind = None THEN None
                           ELSE OutcomeFromRun(exec.run, kind))
        /\ UNCHANGED <<spent, target>>

DoReplaceReleaseReason ==
    \E reason \in Inputs.releases :
        /\ ReplaceReleaseReasonOk(exec)
        /\ exec' = ReplaceReleaseReason(exec, reason)
        /\ UNCHANGED <<spent, target>>

DoReopen ==
    /\ ReopenOk(exec)
    /\ exec' = Reopen(exec)
    /\ UNCHANGED <<spent, target>>

\* A fallible terminal transition keeps the outcome on the live record.
RetainOutcome ==
    \E kind \in Inputs.outcomes :
        /\ IsLive(exec)
        /\ exec' = RecordOutcome(exec, OutcomeFromRun(exec.run, kind))
        /\ UNCHANGED <<spent, target>>

DoSetRetryCountOverride ==
    \E n \in U32 :
        /\ exec.reason = "RetryExhausted"
        /\ exec' = SetRetryCountOverride(exec, n)
        /\ UNCHANGED <<spent, target>>

Next ==
    \/ Refresh \/ Attach \/ Clear \/ DoClaim \/ DoStartRunning
    \/ DoRecordTurnStarted \/ Observe \/ NewConversation
    \/ DoRequestInterrupt \/ DoRestoreInterruptIntent \/ DoUpdateInterrupt
    \/ DoQueueRetry \/ DoRestoreRetry \/ DoRelease \/ DoReplaceReleaseReason
    \/ DoReopen \/ RetainOutcome \/ DoSetRetryCountOverride

Spec == Init /\ [][Next]_vars

-----------------------------------------------------------------------------
(* Properties. *)

PayloadMatches(e) ==
    /\ e.run # None <=> IsLive(e)
    /\ e.stall # None <=> e.status = "Running"
    /\ e.retry # None <=> e.status = "RetryQueued"
    /\ e.reason # None <=> e.status = "Released"

\* Type correctness, which includes that no attempt number or retry count ever
\* leaves u32 (RetryAttempt::after is checked, normal_retry_count saturates),
\* and that each status carries exactly the payload of its enum variant.
TypeOK ==
    /\ exec \in Executions
    /\ spent \subseteq Workers
    /\ target \in Workers \cup {None}
    /\ PayloadMatches(exec)

\* A live run keeps the workspace directory, the issue and the repository it
\* was claimed with, whatever refreshes, reattachments and cleanups happen
\* while it runs (validate_run_binding, the identity check of refresh_issue,
\* the path check of attach_workspace).
RunKeepsItsBinding ==
    IsLive(exec) =>
        /\ exec.run.issue = exec.issue.id
        /\ exec.workspace # None
        /\ exec.workspace.path = exec.run.path
        /\ exec.issue.binding \in Repos => exec.run.binding = exec.issue.binding

\* The retry budget cannot drift from the attempt number: every way to reach a
\* run or a queued retry (first claim, retry, restored retry) leaves
\* normal_retry_count equal to the attempt number.
AttemptAccounting ==
    /\ IsLive(exec) => exec.run.normalRetryCount = exec.run.attempt
    /\ exec.status = "RetryQueued" =>
          exec.retry.normalRetryCount = exec.retry.attempt

\* An interrupt on a live run was raised against that run: no stop requested
\* for, or acknowledged by, an earlier run of the issue survives into the next
\* one, although the command identifies only the issue.
InterruptBelongsToRun ==
    IsLive(exec) /\ exec.interrupt # None => target = exec.run.worker

\* The bounded outcome history always ends with the last outcome.
NewestOutcomeKept ==
    /\ Len(exec.recent) <= RecentMax
    /\ exec.last = IF exec.recent = <<>> THEN None
                   ELSE exec.recent[Len(exec.recent)]

\* A failure retry is due after the capped, doubling backoff of its attempt,
\* computed without the machine word's limits.
BackoffIsCappedDoubling ==
    exec.status = "RetryQueued" /\ exec.retry.reason = "Failure" =>
        exec.retry.dueAt =
            SatAdd(exec.retry.scheduledAt,
                   Least(FailureBaseDelay * 2^(exec.retry.attempt - 1),
                         MaxBackoff),
                   TimeMax)

ExactDeadline(stall) ==
    stall.stalledAt = SatAdd(stall.lastActivityAt, stall.idleTimeout, TimeMax)

\* The stall deadline is the idle timeout after the latest signal seen, which
\* start_running and every observed event keep up.
StallDeadline == exec.status = "Running" => ExactDeadline(exec.stall)

\* Both states belong to the same run.
SameRun == IsLive(exec) /\ IsLive(exec)' /\ exec'.run.worker = exec.run.worker

\* Events delivered out of order never pull the stall deadline of a run back.
DeadlineNeverPulledBack ==
    [][SameRun /\ exec.status = "Running" =>
          exec'.stall.stalledAt >= exec.stall.stalledAt]_vars

\* A stop the harness acknowledged stays acknowledged for that run: no late
\* failure or timeout report, and no superseding request, makes it unconfirmed.
AcknowledgedStopSticks ==
    [][(SameRun /\ exec.interrupt # None
                /\ exec.interrupt.status = "Acknowledged") =>
          /\ exec'.interrupt # None
          /\ exec'.interrupt.status = "Acknowledged"]_vars
=============================================================================
