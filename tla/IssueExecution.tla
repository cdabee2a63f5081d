--------------------------- MODULE IssueExecution ---------------------------
(***************************************************************************)
(* The scheduler-owned record of one tracker issue and its operations,     *)
(* translated from crates/opensymphony-domain/src/state_machine.rs and     *)
(* runtime.rs.  Everything here is constant level: an operation X of the   *)
(* Rust type IssueExecution becomes a predicate XOk(e, ...) that holds when *)
(* the call returns Ok, and an operator X(e, ...) giving the resulting     *)
(* record.  A call that returns Err is one whose XOk is false.             *)
(*                                                                         *)
(* Option values use None, except Option<RetryAttempt>: a RetryAttempt is a *)
(* NonZeroU32, so 0 stands for "no attempt number" (the first run).        *)
(***************************************************************************)
EXTENDS Integers, Sequences

CONSTANTS
    None,           \* the absent Option value
    IssueIds,       \* tracker issue ids
    StateNames,     \* tracker workflow state names
    CategoryOf,     \* the configured category of each state name
    Repos,          \* canonical repository identities of resolved bindings
    Unresolved,     \* the other RepositoryBindingOutcome values
    Workers,        \* WorkerId values
    Conversations,  \* harness conversation ids
    Keys,           \* workspace keys
    Paths,          \* comparable (canonicalised) workspace paths
    KeysOf,         \* KeysOf[i]: keys workspace_key_matches_issue accepts for i
    PathsOf,        \* PathsOf[k]: paths workspace_path_matches_key accepts for k
    U32Max,         \* u32::MAX, scaled down
    TimeBits,       \* width of TimestampMs and DurationMs (64), scaled down
    TimeMax,        \* the largest TimestampMs
    RecentMax       \* MAX_RECENT_WORKER_OUTCOMES

ASSUME WidthAssumption ==
    /\ U32Max \in Nat \ {0}
    /\ TimeBits \in Nat \ {0}
    /\ TimeMax \in Nat
    /\ RecentMax \in Nat \ {0}

ASSUME TimeWidthAssumption == TimeMax = 2^TimeBits - 1

\* Facts of arithmetic the provers have no induction to derive; they bound the
\* backoff, a product with a power of two.
ASSUME PowerAssumption ==
    \A m, n \in 0..(TimeBits + U32Max) :
        2^n \in Nat /\ (m <= n => 2^m <= 2^n)

ASSUME StateAssumption ==
    CategoryOf \in [StateNames -> {"Active", "NonActive", "Terminal"}]

ASSUME WorkspaceAssumption ==
    /\ KeysOf \in [IssueIds -> SUBSET Keys]
    /\ PathsOf \in [Keys -> SUBSET Paths]

ASSUME BindingAssumption == Repos \cap Unresolved = {}

-----------------------------------------------------------------------------
(* Enumerations and record types. *)

Statuses == {"Unclaimed", "Claimed", "Running", "RetryQueued", "Released"}
OutcomeKinds == {"Succeeded", "Failed", "TimedOut", "Stalled", "Cancelled",
                 "Detached", "CancelFailed"}
RetryReasons == {"Continuation", "Failure", "Stalled", "Cancelled",
                 "Reconciliation"}
InterruptReasons == {"OperatorCancel", "TrackerMergingSupersedesHumanReview",
                     "SchedulerAbort"}
NextStates == {"Paused", "Interrupted", "Released", "CloseoutPending"}
InterruptStatuses == {"Requested", "Acknowledged", "Failed", "TimedOut"}
ReleaseReasons == {"Completed", "TrackerInactive", "TrackerTerminal",
                   "Cancelled", "RetryExhausted"}

Times == 0..TimeMax
U32 == 0..U32Max
RetryAttempts == 1..U32Max

Bindings == Repos \cup Unresolved \cup {None}
Issues == [id : IssueIds, state : StateNames, binding : Bindings]
WorkspaceRecords == [key : Keys, path : Paths]
RunAttempts == [worker : Workers, issue : IssueIds, path : Paths,
                binding : Repos \cup {None}, attempt : U32,
                normalRetryCount : U32, turnCount : U32]
RetryEntries == [issue : IssueIds, attempt : RetryAttempts,
                 normalRetryCount : U32, scheduledAt : Times, dueAt : Times,
                 reason : RetryReasons]
StallMetadata == [startedAt : Times, lastActivityAt : Times,
                  idleTimeout : Times, stalledAt : Times]
InterruptCommands == [conversation : Conversations, reason : InterruptReasons,
                      next : NextStates]
InterruptStates == [command : InterruptCommands, status : InterruptStatuses]
OutcomeRecords == [worker : Workers, attempt : U32, outcome : OutcomeKinds]

\* None is none of the values an Option may hold.
ASSUME NoneAssumption ==
    /\ None \notin Repos \cup Unresolved \cup Workers \cup Conversations
    /\ None \notin U32 /\ None \notin ReleaseReasons
    /\ None \notin WorkspaceRecords
    /\ None \notin RunAttempts
    /\ None \notin StallMetadata
    /\ None \notin RetryEntries
    /\ None \notin InterruptStates
    /\ None \notin OutcomeRecords

Executions ==
    [issue : Issues,
     workspace : WorkspaceRecords \cup {None},
     conversation : Conversations \cup {None},
     interrupt : InterruptStates \cup {None},
     status : Statuses,
     run : RunAttempts \cup {None},        \* payload of Claimed and Running
     stall : StallMetadata \cup {None},    \* payload of Running
     retry : RetryEntries \cup {None},     \* payload of RetryQueued
     reason : ReleaseReasons \cup {None},  \* payload of Released
     last : OutcomeRecords \cup {None},
     recent : Seq(OutcomeRecords),
     retryCountOverride : U32 \cup {None}]

-----------------------------------------------------------------------------
(* Saturating and checked arithmetic. *)

SatAdd(x, y, max) == IF x + y > max THEN max ELSE x + y

SatMul(x, y, max) == IF x * y > max THEN max ELSE x * y
Least(x, y) == IF x <= y THEN x ELSE y

\* RetryAttempt::after: checked_add on a NonZeroU32
AfterOk(attempt) == attempt < U32Max
After(attempt) == attempt + 1

\* Wrong on purpose, like every operator said to be so below: each shows that a
\* property notices the bug.  Here the first retry already doubles.
FailureDelayTooLong(attempt, base, maxBackoff) ==
    Least(SatMul(base, 2^Least(attempt, TimeBits - 1), TimeMax), maxBackoff)

\* RetryPolicy::failure_delay.  The shift is capped below the word width, the
\* product saturates, and the policy's maximum caps the result.
FailureDelay(attempt, base, maxBackoff) ==
    LET exponent == Least(attempt - 1, TimeBits - 1)
    IN  Least(SatMul(base, 2^exponent, TimeMax), maxBackoff)

-----------------------------------------------------------------------------
(* RetryEntry::continuation and RetryEntry::failure differ in reason and in *)
(* the delay; both consume one normal retry.                               *)

RetryEntry(e, reason, at, delay) ==
    [issue |-> e.issue.id,
     attempt |-> After(e.run.attempt),
     normalRetryCount |-> SatAdd(e.run.normalRetryCount, 1, U32Max),
     scheduledAt |-> at,
     dueAt |-> SatAdd(at, delay, TimeMax),
     reason |-> reason]

NewRun(worker, issue, path, binding, attempt) ==
    [worker |-> worker, issue |-> issue, path |-> path, binding |-> binding,
     attempt |-> attempt, normalRetryCount |-> 0, turnCount |-> 0]

OutcomeFromRun(run, kind) ==
    [worker |-> run.worker, attempt |-> run.attempt, outcome |-> kind]

NewStall(at, idle) ==
    [startedAt |-> at, lastActivityAt |-> at, idleTimeout |-> idle,
     stalledAt |-> SatAdd(at, idle, TimeMax)]

\* A signal older than the last one observed is ignored: events may arrive
\* out of order.
ObserveActivity(stall, at) ==
    IF at < stall.lastActivityAt THEN stall
    ELSE [stall EXCEPT !.lastActivityAt = at,
                       !.stalledAt = SatAdd(at, stall.idleTimeout, TimeMax)]

-----------------------------------------------------------------------------
(* Status with the payload the Rust enum variant carries, all others None. *)

WithState(e, status, run, stall, retry, reason) ==
    [e EXCEPT !.status = status, !.run = run, !.stall = stall,
              !.retry = retry, !.reason = reason]

ToUnclaimed(e) == WithState(e, "Unclaimed", None, None, None, None)
ToRetryQueued(e, retry) == WithState(e, "RetryQueued", None, None, retry, None)
ToReleased(e, reason) == WithState(e, "Released", None, None, None, reason)

Category(e) == CategoryOf[e.issue.state]

IsLive(e) == e.status \in {"Claimed", "Running"}

NewExecution(issue) ==
    [issue |-> issue, workspace |-> None, conversation |-> None,
     interrupt |-> None, status |-> "Unclaimed", run |-> None, stall |-> None,
     retry |-> None, reason |-> None, last |-> None, recent |-> <<>>,
     retryCountOverride |-> None]

\* canonical_identity_changed_opt: a resolved binding is represented by its
\* canonical repository, any other outcome by itself
IdentityChanged(left, right) == left # right

RefreshIssueOk(e, issue) ==
    /\ issue.id = e.issue.id
    /\ ~(IsLive(e) /\ IdentityChanged(e.issue.binding, issue.binding))
RefreshIssue(e, issue) == [e EXCEPT !.issue = issue]

ClearWorkspace(e) == [e EXCEPT !.workspace = None, !.conversation = None]

UpdateConversation(e, conversation) == [e EXCEPT !.conversation = conversation]

SetRetryCountOverride(e, count) == [e EXCEPT !.retryCountOverride = count]

-----------------------------------------------------------------------------
(* Harness interrupts. *)

Command(e, reason, next) ==
    [conversation |-> e.conversation, reason |-> reason, next |-> next]

RequestInterruptOk(e) == IsLive(e) /\ e.conversation # None

\* The boolean returned with the command: does the caller have to send it?
InterruptQueued(e) ==
    e.interrupt # None => e.interrupt.status \in {"Failed", "TimedOut"}

RequestInterrupt(e, reason, next) ==
    CASE InterruptQueued(e) ->
            [e EXCEPT !.interrupt = [command |-> Command(e, reason, next),
                                     status |-> "Requested"]]
      [] ~InterruptQueued(e) /\ e.interrupt.status = "Acknowledged" ->
            [e EXCEPT !.interrupt.command = Command(e, reason, next)]
      [] OTHER -> e

\* A persisted intent says nothing about whether the request was sent, so it
\* comes back as a failed one.
RestoreInterruptIntent(e, reason, next) ==
    [e EXCEPT !.interrupt = [command |-> Command(e, reason, next),
                             status |-> "Failed"]]

UpdateInterruptOk(e) == e.interrupt # None

\* acknowledge_interrupt, fail_interrupt and timeout_interrupt
UpdateInterrupt(e, status) ==
    IF e.interrupt.status = "Requested"
    THEN [e EXCEPT !.interrupt.status = status]
    ELSE e

-----------------------------------------------------------------------------
(* Workspaces. *)

AttachWorkspaceOk(e, ws) ==
    IF e.workspace # None
    THEN /\ e.workspace.key = ws.key
         /\ e.workspace.path = ws.path \/ e.status = "RetryQueued"
    ELSE /\ ws.key \in KeysOf[e.issue.id]
         /\ ws.path \in PathsOf[ws.key]
AttachWorkspace(e, ws) == [e EXCEPT !.workspace = ws]

-----------------------------------------------------------------------------
(* Outcomes. *)

\* The last RecentMax outcomes, oldest first.
PushRecent(recent, outcome) ==
    Append(IF Len(recent) = RecentMax THEN Tail(recent) ELSE recent, outcome)

RecordOutcome(e, outcome) ==
    [e EXCEPT
        !.interrupt =
            IF /\ outcome.outcome = "CancelFailed"
               /\ e.interrupt # None
               /\ e.interrupt.status = "Requested"
            THEN [e.interrupt EXCEPT !.status = "Failed"]
            ELSE e.interrupt,
        !.last = outcome,
        !.recent = PushRecent(e.recent, outcome)]

-----------------------------------------------------------------------------
(* Transitions of the scheduler state. *)

\* validate_run_binding
RunBindingOk(e, run) ==
    /\ run.issue = e.issue.id
    /\ e.issue.binding \in Repos => run.binding = e.issue.binding
    /\ e.workspace # None
    /\ e.workspace.path = run.path

ClaimOk(e, run) ==
    /\ RunBindingOk(e, run)
    /\ \/ e.status = "Unclaimed" /\ run.attempt = 0
       \/ e.status = "RetryQueued" /\ run.attempt = e.retry.attempt
\* Wrong on purpose: the stop requested for the last run is carried over.
ClaimKeepsInterrupt(e, run) ==
    LET count == IF e.status = "RetryQueued" THEN e.retry.normalRetryCount ELSE 0
    IN  WithState(e, "Claimed", [run EXCEPT !.normalRetryCount = count],
                  None, None, None)

Claim(e, run) ==
    LET count == IF e.status = "RetryQueued" THEN e.retry.normalRetryCount ELSE 0
    IN  [WithState(e, "Claimed", [run EXCEPT !.normalRetryCount = count],
                   None, None, None)
         EXCEPT !.interrupt = None]

StartRunningOk(e, session) ==
    /\ e.status = "Claimed"
    /\ session # None \/ e.conversation # None
StartRunning(e, at, idle, session) ==
    [WithState(e, "Running", e.run, NewStall(at, idle), None, None)
     EXCEPT !.conversation = IF session # None THEN session ELSE e.conversation]

ObserveOk(e) == e.status = "Running"
RecordTurnStarted(e, at) ==
    [e EXCEPT !.run.turnCount = SatAdd(e.run.turnCount, 1, U32Max),
              !.stall = ObserveActivity(e.stall, at)]
ObserveRuntimeEvent(e, at) == [e EXCEPT !.stall = ObserveActivity(e.stall, at)]
ObserveOperatorResolution(e, at) ==
    IF e.status = "Running" THEN ObserveRuntimeEvent(e, at) ELSE e

\* validate_outcome_binding
OutcomeBindingOk(run, outcome) ==
    outcome.worker = run.worker /\ outcome.attempt = run.attempt

QueueRetryOk(e, retry, outcome) ==
    /\ retry.issue = e.issue.id
    /\ IsLive(e)
    /\ OutcomeBindingOk(e.run, outcome)
    /\ AfterOk(e.run.attempt)
    /\ retry.attempt = After(e.run.attempt)
QueueRetry(e, retry, outcome) == ToRetryQueued(RecordOutcome(e, outcome), retry)

RestoreRetryOk(e, retry) == retry.issue = e.issue.id /\ e.status = "Unclaimed"
RestoreRetry(e, retry) == ToRetryQueued(e, retry)

ReleaseOk(e) == e.status # "Released"
Release(e, reason, outcome) ==
    ToReleased(IF outcome = None THEN e ELSE RecordOutcome(e, outcome), reason)

ReplaceReleaseReasonOk(e) == e.status = "Released"
ReplaceReleaseReason(e, reason) == ToReleased(e, reason)

PreservesReactivationState(reason) == reason = "TrackerInactive"

ReopenOk(e) == e.status = "Released"
Reopen(e) ==
    ToUnclaimed(IF PreservesReactivationState(e.reason) THEN e
                ELSE [e EXCEPT !.workspace = None, !.conversation = None,
                               !.interrupt = None])
=============================================================================
