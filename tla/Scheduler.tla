----------------------------- MODULE Scheduler -----------------------------
(***************************************************************************)
(* The orchestrator's scheduler for leaf issues, translated from           *)
(* crates/opensymphony-orchestrator/src/scheduler.rs.  One tick is the     *)
(* sequence of phases Scheduler::tick runs; each phase handles one issue or *)
(* one worker update per step, and the tracker, the harness and the worker  *)
(* tasks act between any two steps.  An awaited call that can fail does so  *)
(* when its name is in Failing; the step then does what the code does with  *)
(* the error.  In particular `?` ends the tick at once (EndTick), dropping  *)
(* whatever the handler held outside the scheduler's maps.                 *)
(*                                                                         *)
(* Time is abstracted: whether an interval, a retry or a stall deadline is *)
(* due is a free choice.  Parent issues, repository rebinding, operator    *)
(* questions, runtime events and restart recovery are not part of this     *)
(* module.                                                                 *)
(***************************************************************************)
EXTENDS IssueExecution, FiniteSets

CONSTANTS
    MaxConcurrent,      \* max_concurrent_agents
    StateLimit,         \* max_concurrent_agents_by_state; None = no limit
    MaxRetryAttempts,   \* max_retry_attempts; None = unlimited
    RetainFailed,       \* workspace.retain_failed_workspaces()
    Operator,           \* whether an operator cancels runs
    Finishes,           \* outcome kinds the worker tasks report
    Failing             \* the awaited calls that may fail

Calls == {"Tracker", "RateLimit", "PersistState", "PersistIntent",
          "PersistRetry", "PersistExhaustion", "ReadLease", "Interrupt",
          "AbortCall", "StartWorker", "LaunchTimeout", "Workspace", "Hierarchy"}

ASSUME SchedulerAssumption ==
    /\ MaxConcurrent \in Nat
    /\ StateLimit \in [StateNames -> Nat \cup {None}]
    /\ MaxRetryAttempts \in Nat \cup {None}
    /\ RetainFailed \in BOOLEAN
    /\ Operator \in BOOLEAN
    /\ Finishes \subseteq OutcomeKinds
    /\ Failing \subseteq Calls
    /\ Workers \subseteq Nat \ {0}
    /\ IsFiniteSet(Workers)
    /\ IsFiniteSet(IssueIds)

\* A harness opens conversations, the workspace manager has a place for every
\* issue, and None is no value of the scheduler's maps.
ASSUME InputAssumption ==
    /\ Conversations # {}
    /\ \A i \in IssueIds : \E k \in KeysOf[i] : PathsOf[k] # {}
    /\ None \notin IssueIds \cup StateNames
    /\ None \notin Executions

VARIABLES
    \* the world outside the scheduler
    tracker,            \* the true workflow state of each issue
    remote,             \* the harness run of each worker; detached or unstopped
                        \* when it goes on after its worker's report
    task,               \* workers whose local task has not reported yet
    given,              \* the run each worker was started with
    inbox,              \* outcomes sent by worker tasks, oldest first
    stored,             \* attempt number in the durable retry record
    \* scheduler state
    executions, counts, metadata, ordinal, receipts,
    pendingFinished, pendingRetry, pendingExhaustion, cooldown,
    \* the tick in progress
    pc,                 \* the phase
    mode,               \* which tracker view or candidate list it works on
    snap,               \* the tracker state of each issue in that view, or None
    todo,               \* issues the phase still has to handle
    launches,           \* claimed executions waiting for start_workers
    started,            \* issues whose worker start_workers has started
    batch,              \* polled updates not applied yet
    failed,             \* first_error is set
    contradicted        \* history: issues a refresh later than the snapshot
                        \* has shown not to be active

world == <<tracker, remote, task, given, inbox, stored>>
pendings == <<pendingFinished, pendingRetry, pendingExhaustion>>
locals == <<snap, launches, started, contradicted>>
tick == <<pc, mode, todo, batch, failed, locals>>
vars == <<world, executions, counts, metadata, ordinal, receipts, pendings,
          cooldown, tick>>

Fails(call) == call \in Failing
MayFail(call) == IF Fails(call) THEN BOOLEAN ELSE {FALSE}

NoSnapshot == [i \in IssueIds |-> None]
NoLaunches == [i \in IssueIds |-> None]

Init ==
    /\ tracker \in [IssueIds -> StateNames]
    /\ remote = [w \in Workers |-> "none"]
    /\ task = {} /\ given = [w \in Workers |-> None] /\ inbox = <<>>
    /\ stored = [i \in IssueIds |-> 0]
    /\ executions = [i \in IssueIds |-> None]
    /\ counts = [s \in StateNames |-> 0]
    /\ metadata = [w \in Workers |-> None]
    /\ ordinal = 0 /\ receipts = {}
    /\ pendingFinished = [i \in IssueIds |-> None]
    /\ pendingRetry = [i \in IssueIds |-> None]
    /\ pendingExhaustion = {} /\ cooldown = FALSE
    /\ pc = "idle" /\ mode = "none" /\ snap = NoSnapshot /\ todo = {}
    /\ launches = NoLaunches /\ started = {} /\ batch = 0 /\ failed = FALSE
    /\ contradicted = {}

-----------------------------------------------------------------------------
(* Predicates on executions. *)

NonActiveReason(category) ==
    IF category = "Terminal" THEN "TrackerTerminal" ELSE "TrackerInactive"

RetryReasonFor(kind) ==
    CASE kind \in {"Failed", "TimedOut"} -> "Failure"
      [] kind = "Stalled" -> "Stalled"
      [] kind = "Cancelled" -> "Cancelled"
      [] OTHER -> "Continuation"

\* acknowledged_operator_cancel_terminal
OperatorCancelTerminal(e, outcome) ==
    /\ outcome.outcome \in {"Succeeded", "Cancelled"}
    /\ e.interrupt # None
    /\ e.interrupt.command.reason = "OperatorCancel"
    /\ e.interrupt.command.next = "Paused"

RetryExhausted(e) == e.status = "Released" /\ e.reason = "RetryExhausted"

\* Wrong on purpose, like every operator said to be so below: each shows that a
\* property notices the bug.  This one ignores how the last run ended.
PreventsReopenByReason(e) ==
    e.status = "Released" /\ e.reason \in {"RetryExhausted", "Completed", "Cancelled"}

\* terminal_worker_outcome_prevents_reopen
PreventsReopen(e) ==
    \/ RetryExhausted(e)
    \/ e.status = "Released" /\ e.reason \in {"Completed", "Cancelled"}
    \/ /\ e.last # None
       /\ \/ e.last.outcome \in {"Detached", "CancelFailed"}
          \/ OperatorCancelTerminal(e, e.last)

LimitReached(count) == MaxRetryAttempts # None /\ count >= MaxRetryAttempts

\* tracker_merging_interrupt_cancelled
MergingCancelled(e, outcome) ==
    /\ outcome.outcome = "Cancelled"
    /\ e.interrupt # None
    /\ e.interrupt.command.reason = "TrackerMergingSupersedesHumanReview"

\* merging_interrupt_candidate
MergingCandidate(e, state) ==
    /\ e # None
    /\ IsLive(e)
    /\ state = "Merging"
    /\ \/ e.issue.state = "HumanReview"
       \/ /\ e.issue.state = "Merging"
          /\ e.interrupt # None
          /\ e.interrupt.command.reason = "TrackerMergingSupersedesHumanReview"
          /\ e.interrupt.status \in {"Failed", "TimedOut"}

InState(e, state) == RefreshIssue(e, [e.issue EXCEPT !.state = state])
Issue(i, state) == [id |-> i, state |-> state, binding |-> None]
WorkspaceOf(i) ==
    LET k == CHOOSE k \in KeysOf[i] : PathsOf[k] # {}
    IN  [key |-> k, path |-> CHOOSE p \in PathsOf[k] : TRUE]
Conversation == CHOOSE c \in Conversations : TRUE

-----------------------------------------------------------------------------
(* The executions map, its cached per-state counts and the success receipts *)
(* (terminal_orchestrator_issues), maintained by insert_execution and       *)
(* remove_execution.                                                        *)

RunningKey(e) ==
    IF e # None /\ e.status = "Running" THEN {e.issue.state} ELSE {}
One(s, keys) == IF s \in keys THEN 1 ELSE 0

\* Wrong on purpose: the cached count of the refreshed state is decremented.
PutRefreshed(i, e, rc) ==
    LET old == IF e # None /\ RunningKey(executions[i]) # {} THEN {e.issue.state}
               ELSE RunningKey(executions[i])
    IN  /\ executions' = [executions EXCEPT ![i] = e]
        /\ counts' = [s \in StateNames |->
                        counts[s] - One(s, old) + One(s, RunningKey(e))]
        /\ receipts' = IF e # None /\ e.status # "Released" THEN rc \ {i} ELSE rc

\* Wrong on purpose: a reopened issue keeps its success receipt.
PutWithReceipt(i, e, rc) ==
    /\ executions' = [executions EXCEPT ![i] = e]
    /\ counts' = [s \in StateNames |->
                    counts[s] - One(s, RunningKey(executions[i]))
                              + One(s, RunningKey(e))]
    /\ receipts' = rc

Put(i, e, rc) ==
    /\ executions' = [executions EXCEPT ![i] = e]
    /\ counts' = [s \in StateNames |->
                    counts[s] - One(s, RunningKey(executions[i]))
                              + One(s, RunningKey(e))]
    /\ receipts' = IF e # None /\ e.status # "Released" THEN rc \ {i} ELSE rc

KeepMap == UNCHANGED <<executions, counts, receipts>>

-----------------------------------------------------------------------------
(* Results of the awaited calls, as sets of possible outcomes. *)

\* worker.interrupt_worker: the harness accepts, refuses or stays silent.  A
\* request that was not confirmed may have stopped the run all the same.
InterruptReplies ==
    {[status |-> "Acknowledged", reached |-> TRUE]}
    \cup (IF Fails("Interrupt")
          THEN [status : {"Failed", "TimedOut"}, reached : BOOLEAN] ELSE {})

\* The harness run of w goes on, whether or not its worker still watches it.
Alive(w) == remote[w] \in {"running", "detached", "unstopped"}

StopRemote(w, reached) ==
    IF reached /\ Alive(w)
    THEN [remote EXCEPT ![w] = "stopped"] ELSE remote

\* worker.abort_worker, reached once the harness confirmed the stop
AbortCall(e, reached) ==
    {[ok |-> ~f, stopped |-> ~f, exec |-> e, reached |-> reached] :
        f \in MayFail("AbortCall")}

\* Wrong on purpose: a stop the harness did not confirm counts as one.
AbortUnconfirmed(e) ==
    LET asked == RequestInterrupt(e, "SchedulerAbort", "Released")
    IN  IF e.conversation = None THEN AbortCall(e, FALSE)
        ELSE UNION {AbortCall(UpdateInterrupt(asked, r.status), r.reached) :
                      r \in InterruptReplies}

\* Scheduler::abort_worker
AbortWorker(e) ==
    LET asked == RequestInterrupt(e, "SchedulerAbort", "Released")
        unsent == {[ok |-> FALSE, stopped |-> FALSE, exec |-> asked,
                    reached |-> FALSE] : f \in MayFail("PersistIntent") \ {FALSE}}
        waiting(x, r) == {[ok |-> TRUE, stopped |-> FALSE, exec |-> x,
                           reached |-> r]}
        replied(r) ==
            LET x == UpdateInterrupt(asked, r.status)
            IN  IF r.status = "Acknowledged" THEN AbortCall(x, TRUE)
                ELSE waiting(x, r.reached)
    IN  IF e.conversation = None THEN AbortCall(e, FALSE)
        ELSE unsent \cup
             (IF InterruptQueued(e)
              THEN UNION {replied(r) : r \in InterruptReplies}
              ELSE IF asked.interrupt.status = "Acknowledged"
              THEN AbortCall(asked, FALSE)
              ELSE waiting(asked, FALSE))

\* Workspace removal may fail or be blocked by a lease; both keep the workspace.
Cleaned(e) == {e, ClearWorkspace(e)}

RetryCount(e) == IF e.run = None THEN 0 ELSE e.run.normalRetryCount

\* A call that returns Ok(exec) or Err; marker: was a retry-exhaustion marker
\* written or deferred; receipt: was a durable success receipt recorded.
OkResult(e, marker, receipt) ==
    [ok |-> TRUE, exec |-> e, marker |-> marker, receipt |-> receipt]
ErrResult(marker, receipt) ==
    [ok |-> FALSE, exec |-> None, marker |-> marker, receipt |-> receipt]

\* release_finished_execution
ReleaseFinished(e, reason, outcome) ==
    LET cleanup == reason \in {"TrackerTerminal", "RetryExhausted"}
        success == reason = "TrackerTerminal" /\ outcome.outcome = "Succeeded"
        exhausted == reason = "RetryExhausted"
        markers == IF ~exhausted THEN {"none"}
                   ELSE IF Fails("PersistExhaustion") THEN {"written", "deferred"}
                   ELSE {"written"}
        released == IF exhausted
                    THEN SetRetryCountOverride(Release(e, reason, outcome),
                                               RetryCount(e))
                    ELSE Release(e, reason, outcome)
        removes(m) == /\ cleanup
                      /\ e.workspace # None
                      /\ exhausted => m = "written" /\ ~RetainFailed
        finals(m) ==
            IF ~ReleaseOk(e) THEN {ErrResult(m, success)}
            ELSE IF ~removes(m) THEN {OkResult(released, m, success)}
            ELSE {OkResult(x, m, success) : x \in Cleaned(released)}
                 \cup (IF Fails("ReadLease") THEN {ErrResult(m, success)} ELSE {})
    IN  (UNION {finals(m) : m \in markers})
        \cup (IF Fails("PersistState") /\ cleanup /\ (success \/ e.workspace # None)
              THEN {ErrResult("none", FALSE)} ELSE {})

\* queue_retry_for_outcome.  Without a run its expect panics: the daemon is
\* gone, and no step follows.
QueueRetryFor(e, outcome) ==
    LET reason == IF MergingCancelled(e, outcome) THEN "Continuation"
                  ELSE RetryReasonFor(outcome.outcome)
        retry == RetryEntry(e, reason, 0, 0)
    IN  IF ~IsLive(e) THEN {}
        ELSE IF AfterOk(e.run.attempt) /\ QueueRetryOk(e, retry, outcome)
        THEN {OkResult(QueueRetry(e, retry, outcome), "none", FALSE)}
        ELSE {ErrResult("none", FALSE)}

\* resolve_finished_execution; `seen` is the state refresh_finished_issue_state
\* returned, None when it failed.  The tracker is asked only when nothing
\* local decides.
AsksTracker(e, outcome) ==
    /\ Category(e) = "Active"
    /\ outcome.outcome \notin {"Detached", "CancelFailed"}
    /\ ~OperatorCancelTerminal(e, outcome)

ResolveLocally(e, outcome) ==
    ReleaseFinished(e,
        IF Category(e) # "Active" THEN NonActiveReason(Category(e))
        ELSE IF outcome.outcome \in {"Detached", "CancelFailed"}
        THEN "TrackerInactive" ELSE "Cancelled",
        outcome)

ResolveRefreshed(e, outcome) ==
    IF Category(e) # "Active"
    THEN ReleaseFinished(e, NonActiveReason(Category(e)), outcome)
    ELSE IF LimitReached(RetryCount(e))
    THEN ReleaseFinished(e, "RetryExhausted", outcome)
    ELSE QueueRetryFor(e, outcome)

ResolveFinished(e, outcome, seen) ==
    IF ~AsksTracker(e, outcome) THEN ResolveLocally(e, outcome)
    ELSE ResolveRefreshed(IF seen = None THEN e ELSE InState(e, seen), outcome)

\* refresh_finished_issue_state: a rate-limited refresh starts the cooldown.
RefreshReplies(i) ==
    {[seen |-> tracker[i], limited |-> FALSE]}
    \cup (IF Fails("Tracker") THEN {[seen |-> None, limited |-> FALSE]} ELSE {})
    \cup (IF Fails("RateLimit") THEN {[seen |-> None, limited |-> TRUE]} ELSE {})

\* Wrong on purpose: a failure to write the record is forgotten.
PersistRetryOnce(e) ==
    LET result(wrote) == [ok |-> TRUE, queued |-> FALSE, wrote |-> wrote]
    IN  IF e = None \/ e.retry = None \/ e.workspace = None THEN {result(FALSE)}
        ELSE {result(TRUE)} \cup (IF Fails("PersistRetry") THEN {result(FALSE)} ELSE {})

\* persist_retry_if_queued: the record may not be written, and is then kept in
\* pending_retry_persistence, or the old pending marker may not be cleared.
PersistRetry(e) ==
    LET nothing == [ok |-> TRUE, queued |-> FALSE, wrote |-> FALSE]
        saved == [ok |-> TRUE, queued |-> FALSE, wrote |-> TRUE]
    IN  IF e = None \/ e.retry = None \/ e.workspace = None THEN {nothing}
        ELSE IF Fails("PersistRetry")
        THEN {saved, [ok |-> FALSE, queued |-> TRUE, wrote |-> FALSE],
                     [ok |-> FALSE, queued |-> FALSE, wrote |-> TRUE]}
        ELSE {saved}

\* A finished run resolved and, on success, its retry persisted.
Settlements(i, e, outcome) ==
    LET replies == IF AsksTracker(e, outcome) THEN RefreshReplies(i)
                   ELSE {[seen |-> None, limited |-> FALSE]}
    IN  UNION {UNION {{[result |-> r, save |-> p, reply |-> reply] :
                         p \in PersistRetry(r.exec)} :
                       r \in ResolveFinished(e, outcome, reply.seen)} :
                reply \in replies}

\* The effect of a settlement on everything but the tick and the worker maps;
\* `e` is what the caller leaves in the executions map.
Settle(i, s, e) ==
    /\ Put(i, e, IF s.result.receipt THEN receipts \cup {i} ELSE receipts)
    /\ pendingExhaustion' = IF s.result.marker = "deferred"
                            THEN pendingExhaustion \cup {i} ELSE pendingExhaustion
    /\ stored' = IF s.save.wrote
                 THEN [stored EXCEPT ![i] = s.result.exec.retry.attempt]
                 ELSE stored
    /\ pendingRetry' = IF s.save.queued
                       THEN [pendingRetry EXCEPT ![i] = s.result.exec.retry]
                       ELSE pendingRetry
    /\ cooldown' = (cooldown \/ s.reply.limited)

\* The refresh made a full snapshot loaded earlier in the tick out of date.
Contradicts(s) ==
    /\ mode = "full"
    /\ s.reply.seen # None
    /\ CategoryOf[s.reply.seen] # "Active"

-----------------------------------------------------------------------------
(* Control of the tick. *)

Go(phase, m, view, issues) ==
    /\ pc' = phase /\ mode' = m /\ snap' = view /\ todo' = issues

\* tick (or drain_worker_updates) returns, with Ok or with an error: locals go.
EndTick ==
    /\ Go("idle", "none", NoSnapshot, {})
    /\ launches' = NoLaunches /\ started' = {}
    /\ batch' = 0 /\ failed' = FALSE /\ contradicted' = {}

Continue == UNCHANGED <<batch, failed, launches, started, contradicted>>
Stay == UNCHANGED tick

Handled(i) ==
    /\ todo' = todo \ {i}
    /\ UNCHANGED <<pc, mode, batch, failed, locals>>

\* Wrong on purpose: the worker updates are not polled.
EnterDrainUnpolled(m, view) ==
    /\ Go("drain", m, view, {})
    /\ batch' = 0
    /\ UNCHANGED <<failed, launches, started, contradicted>>

EnterDrain(m, view) ==
    /\ Go("drain", m, view, {})
    /\ batch' = Len(inbox)
    /\ UNCHANGED <<failed, launches, started, contradicted>>

Known == {i \in IssueIds : executions[i] # None}
InStatus(statuses) == {i \in Known : executions[i].status \in statuses}
View(issues) == [i \in IssueIds |-> IF i \in issues THEN tracker[i] ELSE None]
ActiveIn(view) ==
    {i \in IssueIds : view[i] # None /\ CategoryOf[view[i]] = "Active"}

\* A rate-limited call starts the cooldown; any other error ends the tick.
TrackerFails ==
    /\ Fails("Tracker") /\ EndTick
    /\ UNCHANGED <<world, executions, counts, metadata, ordinal, receipts,
                   pendings, cooldown>>
RateLimited(phase) ==
    /\ Fails("RateLimit")
    /\ cooldown' = TRUE
    /\ UNCHANGED <<world, executions, counts, metadata, ordinal, receipts, pendings>>
    /\ IF phase = "drain" THEN EnterDrain("none", NoSnapshot)
       ELSE /\ Go(phase, "none", NoSnapshot, {})
            /\ Continue

StepOnly ==
    UNCHANGED <<world, executions, counts, metadata, ordinal, receipts, pendings>>

-----------------------------------------------------------------------------
(* The world outside. *)

Outside == UNCHANGED <<executions, counts, metadata, ordinal, receipts, pendings,
                       cooldown, tick>>

TrackerMove(i) ==
    /\ \E s \in StateNames \ {tracker[i]} : tracker' = [tracker EXCEPT ![i] = s]
    /\ UNCHANGED <<remote, task, given, inbox, stored>> /\ Outside

\* A worker task sends its one Finished update.  Detached and CancelFailed say
\* that the harness run may go on; Cancelled is reported once a stop was observed.
\* Any other kind says nothing of the run: a lost stream, the stall timeout, an
\* error of the session and a panic of the task are reported as Failed or Stalled
\* with harness_stopped unset, and retry_reason_for_outcome does not look at it.
LeftBehind(kind) ==
    CASE kind \in {"Detached", "CancelFailed"} -> {"detached"}
      [] kind = "Cancelled" -> {"stopped"}
      [] OTHER -> {"unstopped", "stopped"}

WorkerFinishes(w) ==
    /\ w \in task
    /\ task' = task \ {w}
    /\ \E kind \in Finishes :
          /\ inbox' = Append(inbox, OutcomeFromRun(given[w], kind))
          /\ \E left \in (IF remote[w] = "running" THEN LeftBehind(kind)
                          ELSE {"stopped"}) :
                remote' = [remote EXCEPT ![w] = left]
    /\ UNCHANGED <<tracker, given, stored>> /\ Outside

\* A run that nobody watches any more comes to its end.
UnwatchedEnds(w) ==
    /\ remote[w] \in {"detached", "unstopped"}
    /\ remote' = [remote EXCEPT ![w] = "stopped"]
    /\ UNCHANGED <<tracker, task, given, inbox, stored>> /\ Outside

-----------------------------------------------------------------------------
(* Between ticks. *)

\* interrupt_operator_cancel works on a clone, so a failed persist_interrupt_intent
\* leaves no trace.
OperatorCancel(i) ==
    /\ Operator /\ pc = "idle"
    /\ executions[i] # None /\ IsLive(executions[i])
    /\ RequestInterruptOk(executions[i])
    /\ LET asked == RequestInterrupt(executions[i], "OperatorCancel", "Paused")
           w == asked.run.worker
       IN  IF InterruptQueued(executions[i])
           THEN \E r \in InterruptReplies :
                    /\ Put(i, UpdateInterrupt(asked, r.status), receipts)
                    /\ remote' = StopRemote(w, r.reached)
           ELSE Put(i, asked, receipts) /\ UNCHANGED remote
    /\ UNCHANGED <<tracker, task, given, inbox, stored, metadata, ordinal,
                   pendings, cooldown, tick>>

SoloDrain ==
    /\ pc = "idle" /\ inbox # <<>>
    /\ EnterDrain("solo", NoSnapshot)
    /\ StepOnly /\ UNCHANGED cooldown

\* The start of tick: flush_pending_retry_persistence, then, if that wrote
\* everything, flush_pending_retry_exhaustion_persistence, which cleans up the
\* workspaces of the issues whose marker it wrote.
FlushRetries ==
    /\ pc = "idle"
    /\ LET held == {i \in Known : pendingRetry[i] # None
                                  /\ executions[i].workspace # None}
       IN  \E stuck \in SUBSET (IF Fails("PersistRetry") THEN held ELSE {}) :
             /\ stored' = [i \in IssueIds |->
                             IF i \in held \ stuck THEN pendingRetry[i].attempt
                             ELSE stored[i]]
             /\ pendingRetry' = [i \in IssueIds |->
                                   IF i \in stuck THEN pendingRetry[i] ELSE None]
             /\ IF stuck # {} THEN Stay
                ELSE /\ Go("exhaustion", "none", NoSnapshot, {})
                     /\ Continue
    /\ UNCHANGED <<tracker, remote, task, given, inbox, executions, counts, metadata,
                   ordinal, receipts, pendingFinished, pendingExhaustion, cooldown>>

FlushExhaustion ==
    /\ pc = "exhaustion"
    /\ \E stuck \in SUBSET (IF Fails("PersistExhaustion") THEN pendingExhaustion
                             ELSE {}),
          clean \in SUBSET {i \in pendingExhaustion \cap Known :
                              RetryExhausted(executions[i]) /\ ~RetainFailed} :
          /\ clean \cap stuck = {}
          /\ pendingExhaustion' = stuck
          /\ executions' = [i \in IssueIds |->
                               IF i \in clean THEN ClearWorkspace(executions[i])
                               ELSE executions[i]]
          /\ \/ stuck # {} /\ EndTick /\ UNCHANGED cooldown
             \/ /\ stuck = {}
                /\ cooldown' \in {FALSE, cooldown}
                /\ Go("snapshot", "none", NoSnapshot, {})
                /\ Continue
    /\ UNCHANGED <<world, counts, metadata, ordinal, receipts, pendingFinished,
                   pendingRetry>>

-----------------------------------------------------------------------------
(* Looking at the tracker before the worker updates are drained. *)

Pending == {i \in IssueIds : pendingFinished[i] # None}

\* load_tracker_snapshot: every active or terminal issue, and the known others.
\* It is due at times, and always while a finished update is pending.
LoadSnapshot ==
    /\ pc = "snapshot" /\ ~cooldown
    /\ LET seen == Known \cup {i \in IssueIds : CategoryOf[tracker[i]] # "NonActive"}
       IN  Go("flush", "full", View(seen), Pending)
    /\ Continue
    /\ StepOnly /\ UNCHANGED cooldown

\* refresh_running_issue_states
RefreshRunning ==
    /\ pc = "snapshot" /\ ~cooldown /\ Pending = {}
    /\ LET asked == InStatus({"Claimed", "Running", "RetryQueued"})
       IN  asked # {} /\ Go("reconcile", "running", View(asked), asked)
    /\ Continue
    /\ StepOnly /\ UNCHANGED cooldown

SnapshotFails ==
    /\ pc = "snapshot" /\ ~cooldown
    /\ TrackerFails \/ RateLimited("drain")

\* Wrong on purpose: the tick goes on with a finished update still pending.
NoRefreshYet ==
    /\ pc = "snapshot"
    /\ EnterDrain("none", NoSnapshot)
    /\ StepOnly /\ UNCHANGED cooldown

NoRefresh ==
    /\ pc = "snapshot"
    /\ cooldown \/ Pending = {}
    /\ EnterDrain("none", NoSnapshot)
    /\ StepOnly /\ UNCHANGED cooldown

\* flush_pending_finished_updates resolves the clone kept with the update.
Flush(i) ==
    /\ pc = "flush" /\ i \in todo
    /\ LET p == pendingFinished[i] IN
       \E s \in Settlements(i, p.exec, p.outcome) :
          /\ Settle(i, s, IF s.result.ok THEN s.result.exec ELSE p.exec)
          /\ pendingFinished' = IF s.result.ok THEN [pendingFinished EXCEPT ![i] = None]
                                ELSE pendingFinished
          /\ failed' = (failed \/ ~s.result.ok \/ ~s.save.ok)
          /\ contradicted' = IF Contradicts(s) THEN contradicted \cup {i}
                             ELSE contradicted
    /\ todo' = todo \ {i}
    /\ UNCHANGED <<pc, mode, batch, snap, launches, started, tracker, remote, task,
                   given, inbox, metadata, ordinal>>

FlushDone ==
    /\ pc = "flush" /\ todo = {}
    /\ IF failed THEN EndTick ELSE EnterDrain(mode, snap)
    /\ StepOnly /\ UNCHANGED cooldown

-----------------------------------------------------------------------------
(* apply_worker_updates. *)

ApplyFinished(w, i, outcome) ==
    \E s \in Settlements(i, executions[i], outcome) :
        LET retained == RecordOutcome(executions[i], outcome) IN
        /\ Settle(i, s, IF s.result.ok THEN s.result.exec ELSE retained)
        /\ pendingFinished' =
             IF s.result.ok THEN pendingFinished
             ELSE [pendingFinished EXCEPT
                     ![i] = [exec |-> retained, outcome |-> outcome]]
        /\ failed' = (failed \/ ~s.result.ok \/ ~s.save.ok)
        /\ contradicted' = IF Contradicts(s) THEN contradicted \cup {i}
                           ELSE contradicted

DrainUpdate ==
    /\ pc = "drain" /\ batch > 0
    /\ inbox' = Tail(inbox) /\ batch' = batch - 1
    /\ LET outcome == Head(inbox)
           w == outcome.worker
           i == metadata[w]
       IN  /\ metadata' = [metadata EXCEPT ![w] = None]
           /\ IF i = None \/ (i # None /\ executions[i] = None)
              THEN UNCHANGED <<executions, counts, receipts, pendings, stored,
                               cooldown, failed, contradicted>>
              ELSE ApplyFinished(w, i, outcome)
    /\ UNCHANGED <<tracker, remote, task, given, ordinal, pc, mode, todo, snap,
                   launches, started>>

DrainDone ==
    /\ pc = "drain" /\ batch = 0
    /\ IF failed \/ mode = "solo" THEN EndTick
       ELSE /\ IF mode = "full"
               THEN Go("reconcile", "full", snap, {i \in IssueIds : snap[i] # None})
               ELSE Go(IF cooldown THEN "stalls" ELSE "late", "none", NoSnapshot, {})
            /\ Continue
    /\ StepOnly /\ UNCHANGED cooldown

-----------------------------------------------------------------------------
(* reconcile_tracker_state: the active issues of the view first, then the   *)
(* known executions that are not active in it.                             *)

\* Does the step handle issue i now?
Reconciles(i) ==
    /\ pc = "reconcile" /\ i \in todo
    /\ i \in ActiveIn(snap) \/ ActiveIn(snap) \cap todo = {}

WorldButRemote == <<tracker, task, given, inbox, stored>>

\* The workspace of a parked, retry-exhausted issue that is active again is
\* removed; a failing lease check ends the tick.  Only full snapshots list the
\* active issues; the other views know the issue by its state alone.
Parked(e) ==
    /\ mode = "full" /\ RetryExhausted(e) /\ e.workspace # None /\ ~RetainFailed

\* interrupt_human_review_polling_for_merging, on a clone of the execution
InterruptForMerging(i) ==
    LET e == executions[i]
        asked == RequestInterrupt(InState(e, snap[i]),
                    "TrackerMergingSupersedesHumanReview", "CloseoutPending")
    IN  \/ /\ ~InterruptQueued(e)
           /\ Put(i, asked, receipts) /\ Handled(i) /\ UNCHANGED remote
        \/ /\ InterruptQueued(e)
           /\ \E r \in InterruptReplies :
                 /\ Put(i, UpdateInterrupt(asked, r.status), receipts)
                 /\ remote' = StopRemote(e.run.worker, r.reached)
           /\ Handled(i)
        \/ /\ InterruptQueued(e) /\ Fails("PersistIntent")
           /\ KeepMap /\ EndTick /\ UNCHANGED remote

\* upsert_active_execution
Upserted(e, i, state) ==
    IF e = None THEN NewExecution(Issue(i, state))
    ELSE InState(IF e.status = "Released" /\ ~PreventsReopen(e) THEN Reopen(e) ELSE e,
                 state)

ReconcileActive(i) ==
    /\ Reconciles(i) /\ i \in ActiveIn(snap)
    /\ IF MergingCandidate(executions[i], snap[i])
       THEN InterruptForMerging(i)
       ELSE /\ UNCHANGED remote
            /\ LET e == executions[i] IN
               IF mode = "full"
               THEN \E x \in IF e # None /\ Parked(e) THEN Cleaned(e) ELSE {e} :
                       Put(i, Upserted(x, i, snap[i]), receipts) /\ Handled(i)
               ELSE /\ Put(i, IF e = None THEN None ELSE InState(e, snap[i]), receipts)
                    /\ Handled(i)
    /\ UNCHANGED <<WorldButRemote, metadata, ordinal, pendings, cooldown>>

\* workspace_has_active_lease fails for a parked issue: the tick ends.
ParkedLeaseFails(i) ==
    /\ Fails("ReadLease")
    /\ Reconciles(i) /\ i \in ActiveIn(snap)
    /\ executions[i] # None /\ Parked(executions[i])
    /\ EndTick
    /\ UNCHANGED <<world, executions, counts, metadata, ordinal, receipts, pendings,
                   cooldown>>

\* release_issue once no harness run stands in the way.  exec = None: the
\* execution was dropped by `?`.
Finalised(e, reason, known) ==
    LET exhausted == RetryExhausted(e)
        cleanup == reason = "TrackerTerminal"
        released == CASE e.status # "Released" -> Release(e, reason, None)
                      [] cleanup /\ ~exhausted /\ e.status = "Released" ->
                            ReplaceReleaseReason(e, reason)
                      [] OTHER -> e
        success == cleanup /\ e.last # None /\ e.last.outcome = "Succeeded"
        removes == cleanup /\ e.workspace # None /\ ~(exhausted /\ RetainFailed)
        result(ok, x) == [ok |-> ok, exec |-> x, receipt |-> success]
        unmarked(x) == IF exhausted /\ (RetainFailed \/ x.workspace = None)
                       THEN {result(TRUE, ReplaceReleaseReason(x, reason))}
                            \cup (IF Fails("PersistExhaustion")
                                  THEN {result(FALSE, x)} ELSE {})
                       ELSE {result(TRUE, x)}
        unrecorded == IF Fails("PersistState") /\ success /\ ~known
                      THEN {[ok |-> FALSE, exec |-> None, receipt |-> FALSE]} ELSE {}
        unleased == IF Fails("PersistState") /\ cleanup /\ e.workspace # None
                    THEN {result(FALSE, released)} ELSE {}
        unread == IF Fails("ReadLease") /\ removes THEN {result(FALSE, None)} ELSE {}
    IN  unrecorded \cup unleased \cup unread
        \cup UNION {unmarked(x) :
                      x \in IF removes THEN Cleaned(released) ELSE {released}}

\* Wrong on purpose: a live run is left to finish by itself.
ReleasesLater(i, e, reason) ==
    LET tag(r) == [ok |-> r.ok, exec |-> r.exec, receipt |-> r.receipt,
                   stopped |-> FALSE, reached |-> FALSE]
    IN  IF IsLive(e) THEN {tag([ok |-> TRUE, exec |-> e, receipt |-> FALSE])}
        ELSE {tag(r) : r \in Finalised(e, reason, i \in receipts)}

\* release_issue: a live run is stopped first.  Until the harness confirms, and
\* when the stop fails, the execution stays as it is.
Releases(i, e, reason) ==
    LET tag(r, a) == [ok |-> r.ok, exec |-> r.exec, receipt |-> r.receipt,
                      stopped |-> a.stopped, reached |-> a.reached]
        kept(a) == [ok |-> a.ok, exec |-> a.exec, receipt |-> FALSE]
    IN  IF ~IsLive(e)
        THEN {tag(r, [stopped |-> FALSE, reached |-> FALSE]) :
                r \in Finalised(e, reason, i \in receipts)}
        ELSE UNION {{tag(r, a) :
                       r \in IF a.stopped
                             THEN Finalised(a.exec, reason, i \in receipts)
                             ELSE {kept(a)}} :
                     a \in AbortWorker(e)}

ReconcileRelease(i) ==
    /\ Reconciles(i) /\ i \notin ActiveIn(snap)
    /\ executions[i] # None
    /\ LET e == InState(executions[i], snap[i])
           reason == NonActiveReason(Category(e))
           w == e.run.worker
       IN  /\ ~(RetryExhausted(e) /\ reason = "TrackerInactive")
           /\ \E r \in Releases(i, e, reason) :
                /\ Put(i, r.exec, IF r.receipt THEN receipts \cup {i} ELSE receipts)
                /\ metadata' = IF r.stopped THEN [metadata EXCEPT ![w] = None]
                               ELSE metadata
                /\ task' = IF r.stopped THEN task \ {w} ELSE task
                /\ remote' = IF IsLive(e) THEN StopRemote(w, r.reached) ELSE remote
                /\ IF r.ok THEN Handled(i) ELSE EndTick
    /\ UNCHANGED <<tracker, given, inbox, stored, ordinal, pendings, cooldown>>

\* A parked issue that is not active keeps its reason but may lose its
\* workspace (cleanup_retry_exhausted_workspace_if_ready); an issue the
\* scheduler does not know is skipped.
ReconcileParked(i) ==
    /\ Reconciles(i) /\ i \notin ActiveIn(snap)
    /\ LET e == executions[i] IN
       \/ e = None /\ KeepMap
       \/ /\ e # None /\ RetryExhausted(e) /\ CategoryOf[snap[i]] = "NonActive"
          /\ \E x \in IF RetainFailed THEN {e} ELSE Cleaned(e) :
                Put(i, InState(x, snap[i]), receipts)
    /\ Handled(i)
    /\ UNCHANGED <<world, metadata, ordinal, pendings, cooldown>>

ReconcileDone ==
    /\ pc = "reconcile" /\ todo = {}
    /\ CASE mode = "full" -> Go("dispatch", "full", snap, ActiveIn(snap)) /\ Continue
         [] mode = "running" -> EnterDrain("none", NoSnapshot)
         [] OTHER -> Go("discover", "none", NoSnapshot, {}) /\ Continue
    /\ StepOnly /\ UNCHANGED cooldown

-----------------------------------------------------------------------------
(* Without a full snapshot: terminal issues, then dispatch discovery. *)

\* refresh_terminal_issues
RefreshTerminal ==
    /\ pc = "late"
    /\ LET ended == {i \in IssueIds : CategoryOf[tracker[i]] = "Terminal"}
       IN  Go("reconcile", "terminal", View(ended), ended)
    /\ Continue /\ StepOnly /\ UNCHANGED cooldown

NoTerminalRefresh ==
    /\ pc = "late"
    /\ Go("discover", "none", NoSnapshot, {})
    /\ Continue /\ StepOnly /\ UNCHANGED cooldown

\* load_dispatch_candidates: summaries of the active issues
Discover ==
    /\ pc = "discover"
    /\ Go("details", "summary", NoSnapshot,
          {i \in IssueIds : CategoryOf[tracker[i]] = "Active"})
    /\ Continue /\ StepOnly /\ UNCHANGED cooldown

NoDiscovery ==
    /\ pc = "discover"
    /\ Go("stalls", "none", NoSnapshot, {})
    /\ Continue /\ StepOnly /\ UNCHANGED cooldown

LateFails ==
    \/ pc = "late" /\ (TrackerFails \/ RateLimited("discover"))
    \/ pc \in {"discover", "details"} /\ (TrackerFails \/ RateLimited("stalls"))

-----------------------------------------------------------------------------
(* dispatch_ready_issues. *)

Busy == {w \in Workers : metadata[w] # None}
Claims == {i \in IssueIds : launches[i] # None}
Capacity == MaxConcurrent - Cardinality(Busy)

\* Summaries are dispatched in batches no larger than the capacity, each after
\* a look at the details of its issues; snap marks the batch.
FetchDetails ==
    /\ pc = "details" /\ todo # {} /\ Capacity > 0
    /\ \E some \in SUBSET todo :
          /\ Cardinality(some) = Least(Capacity, Cardinality(todo))
          /\ Go("dispatch", "summary", View(some), todo)
    /\ Continue /\ StepOnly /\ UNCHANGED cooldown

NoDetails ==
    /\ pc = "details"
    /\ todo = {} \/ Capacity <= 0
    /\ Go("stalls", "none", NoSnapshot, {})
    /\ Continue /\ StepOnly /\ UNCHANGED cooldown

Candidates == {i \in todo : i \in ActiveIn(snap)}
\* Wrong on purpose: one launch too many.
HasRoomForOneMore == Cardinality(Claims) <= Capacity
HasRoom == Cardinality(Claims) < Capacity

\* dispatch_summary_candidates reopens a released issue that is active again.
Reopened(i) ==
    LET e == executions[i] IN
    IF mode = "summary" /\ e # None /\ e.status = "Released" /\ ~PreventsReopen(e)
    THEN Upserted(e, i, snap[i]) ELSE e

Planned(s) == Cardinality({j \in Claims : launches[j].issue.state = s})
StateFull(s) == StateLimit[s] # None /\ counts[s] + Planned(s) >= StateLimit[s]

\* Wrong on purpose: a queued retry is never ready.
ShouldDispatchNew(e) == e # None => e.status = "Unclaimed"
ShouldDispatch(e) == e # None => e.status \in {"Unclaimed", "RetryQueued"}

\* The issue is claimed and leaves the executions map until it is launched.
DoClaim(i) ==
    /\ pc = "dispatch" /\ i \in Candidates /\ HasRoom
    /\ ordinal + 1 \in Workers
    /\ LET e == IF Reopened(i) = None THEN NewExecution(Issue(i, snap[i]))
                ELSE InState(Reopened(i), snap[i])
           ready == AttachWorkspace(e, WorkspaceOf(i))
           run == NewRun(ordinal + 1, i, WorkspaceOf(i).path, None,
                         IF e.retry = None THEN 0 ELSE e.retry.attempt)
       IN  /\ ShouldDispatch(Reopened(i)) /\ ~StateFull(snap[i])
           /\ AttachWorkspaceOk(e, WorkspaceOf(i)) /\ ClaimOk(ready, run)
           /\ launches' = [launches EXCEPT ![i] = Claim(ready, run)]
           /\ Put(i, None, IF e.status # "Released" /\ executions[i] # None
                           THEN receipts \ {i} ELSE receipts)
    /\ ordinal' = ordinal + 1
    /\ todo' = todo \ {i}
    /\ UNCHANGED <<world, metadata, pendings, cooldown, pc, mode, batch, failed,
                   snap, started, contradicted>>

\* The candidate is not dispatched: it is not ready or not due, its state is
\* full, or its workspace cannot be prepared.  The bound on Workers stops it too.
DoSkip(i) ==
    /\ pc = "dispatch" /\ i \in Candidates /\ HasRoom
    /\ LET e == Reopened(i)
           fits == ShouldDispatch(e) /\ ~StateFull(snap[i])
           refreshed == IF e = None THEN None ELSE InState(e, snap[i])
       IN  \/ /\ ~fits \/ (e # None /\ e.status = "RetryQueued" /\ mode # "known")
             /\ Put(i, e, receipts) /\ UNCHANGED failed
          \/ /\ fits /\ (Fails("Workspace") \/ ordinal + 1 \notin Workers)
             /\ Put(i, refreshed, receipts) /\ failed' = (failed \/ Fails("Workspace"))
    /\ todo' = todo \ {i}
    /\ UNCHANGED <<world, metadata, ordinal, pendings, cooldown, pc, mode, batch,
                   locals>>

\* Preparing another candidate fails with `?` (a parent issue's hierarchy state
\* or eligibility cannot be persisted): the claims made so far are dropped.
PreparationFails ==
    /\ Fails("Hierarchy") /\ pc = "dispatch" /\ Claims # {}
    /\ EndTick
    /\ UNCHANGED <<world, executions, counts, metadata, ordinal, receipts, pendings,
                   cooldown>>

\* start_workers.  A launch fails before the harness has a run, or times out:
\* the task is aborted then, whether or not the harness had accepted the run.
StartWorkers ==
    /\ pc = "dispatch" /\ Claims # {}
    /\ Candidates = {} \/ ~HasRoom
    /\ \E some \in IF Fails("StartWorker") \/ Fails("LaunchTimeout")
                 THEN SUBSET Claims ELSE {Claims} :
       \E late \in SUBSET (IF Fails("LaunchTimeout") THEN Claims \ some ELSE {}) :
          LET run(w) == CHOOSE r \in {launches[i].run : i \in Claims} : r.worker = w
              ordinals(issues) == {launches[i].run.worker : i \in issues}
              new == ordinals(some \cup late)
          IN  /\ started' = some
              /\ remote' = [w \in Workers |-> IF w \in new THEN "running" ELSE remote[w]]
              /\ given' = [w \in Workers |-> IF w \in new THEN run(w) ELSE given[w]]
              /\ task' = task \cup ordinals(some)
    /\ Go("launch", mode, snap, todo)
    /\ UNCHANGED <<tracker, inbox, stored, executions, counts, metadata, ordinal,
                   receipts, pendings, cooldown, launches, batch, failed,
                   contradicted>>

\* Persisting the run start or clearing the old retry marker may fail; the run
\* is kept all the same.
LaunchStarted(i) ==
    /\ pc = "launch" /\ i \in Claims \cap started
    /\ LET e == StartRunning(launches[i], 0, 0, Conversation) IN
       /\ Put(i, RecordTurnStarted(e, 0), receipts \ {i})
       /\ metadata' = [metadata EXCEPT ![e.run.worker] = i]
    /\ failed' \in {failed, failed \/ Fails("Workspace") \/ Fails("PersistState")}
    /\ launches' = [launches EXCEPT ![i] = None]
    /\ UNCHANGED <<world, ordinal, pendings, cooldown, pc, mode, todo, batch, snap,
                   started, contradicted>>

\* A worker that did not start has failed.  An error in resolving that ends the
\* tick: the execution and the launches not looked at yet are dropped.
LaunchFailed(i) ==
    /\ pc = "launch" /\ i \in Claims \ started
    /\ \E s \in Settlements(i, launches[i], OutcomeFromRun(launches[i].run, "Failed")) :
          /\ Settle(i, s, s.result.exec)
          /\ IF s.result.ok
             THEN /\ failed' = (failed \/ ~s.save.ok)
                  /\ launches' = [launches EXCEPT ![i] = None]
                  /\ UNCHANGED <<pc, mode, todo, batch, snap, started, contradicted>>
             ELSE EndTick
    /\ UNCHANGED <<tracker, remote, task, given, inbox, metadata, ordinal,
                   pendingFinished>>

DispatchDone ==
    /\ Claims = {}
    /\ \/ pc = "launch"
       \/ pc = "dispatch" /\ (Candidates = {} \/ ~HasRoom)
    /\ IF failed \/ mode = "known" THEN EndTick
       ELSE /\ pc' = IF mode = "summary" THEN "details" ELSE "stalls"
            /\ mode' = IF mode = "summary" THEN "summary" ELSE "none"
            /\ todo' = IF mode = "summary" THEN {i \in todo : snap[i] = None} ELSE {}
            /\ snap' = NoSnapshot /\ started' = {}
            /\ UNCHANGED <<batch, failed, launches, contradicted>>
    /\ StepOnly /\ UNCHANGED cooldown

-----------------------------------------------------------------------------
(* handle_stalls, then dispatch of what the scheduler already knows. *)

FindStalls ==
    /\ pc = "stalls"
    /\ \E quiet \in SUBSET InStatus({"Running"}) :
          Go("stalled", "none", NoSnapshot, quiet)
    /\ Continue /\ StepOnly /\ UNCHANGED cooldown

\* The execution is out of the map while abort_worker and
\* resolve_finished_execution run, and an error of either drops it.
StopStalled(i) ==
    /\ pc = "stalled" /\ i \in todo
    /\ \E a \in AbortWorker(executions[i]) :
          LET w == executions[i].run.worker IN
          /\ ~a.stopped
          /\ Put(i, IF a.ok THEN a.exec ELSE None, receipts)
          /\ remote' = StopRemote(w, a.reached)
          /\ IF a.ok THEN Handled(i) ELSE EndTick
    /\ UNCHANGED <<WorldButRemote, metadata, ordinal, pendings, cooldown>>

HandleStalled(i) ==
    /\ pc = "stalled" /\ i \in todo
    /\ \E a \in AbortWorker(executions[i]) :
          /\ a.stopped
          /\ remote' = StopRemote(a.exec.run.worker, a.reached)
          /\ metadata' = [metadata EXCEPT ![a.exec.run.worker] = None]
          /\ task' = task \ {a.exec.run.worker}
          /\ \E s \in Settlements(i, a.exec, OutcomeFromRun(a.exec.run, "Stalled")) :
               /\ Settle(i, s, s.result.exec)
               /\ IF s.result.ok /\ s.save.ok THEN Handled(i) ELSE EndTick
    /\ UNCHANGED <<tracker, given, inbox, ordinal, pendingFinished>>

\* known_dispatch_candidates
StallsDone ==
    /\ pc = "stalled" /\ todo = {}
    /\ \E due \in SUBSET InStatus({"RetryQueued"}) :
          LET local == {i \in InStatus({"Unclaimed"}) \cup due :
                          Category(executions[i]) = "Active"}
          IN  Go("dispatch", "known",
                 [i \in IssueIds |-> IF i \in local THEN executions[i].issue.state
                                     ELSE None],
                 local)
    /\ Continue /\ StepOnly /\ UNCHANGED cooldown

-----------------------------------------------------------------------------
World ==
    \/ \E i \in IssueIds : TrackerMove(i)
    \/ \E w \in Workers : WorkerFinishes(w) \/ UnwatchedEnds(w)

TickStep ==
    \/ FlushRetries \/ FlushExhaustion
    \/ LoadSnapshot \/ RefreshRunning \/ SnapshotFails \/ NoRefresh
    \/ \E i \in IssueIds : Flush(i)
    \/ FlushDone \/ DrainUpdate \/ DrainDone
    \/ \E i \in IssueIds :
          ReconcileActive(i) \/ ParkedLeaseFails(i) \/ ReconcileRelease(i)
          \/ ReconcileParked(i)
    \/ ReconcileDone
    \/ RefreshTerminal \/ NoTerminalRefresh \/ Discover \/ NoDiscovery \/ LateFails
    \/ FetchDetails \/ NoDetails
    \/ \E i \in IssueIds : DoClaim(i) \/ DoSkip(i)
    \/ PreparationFails \/ StartWorkers
    \/ \E i \in IssueIds : LaunchStarted(i) \/ LaunchFailed(i)
    \/ DispatchDone
    \/ FindStalls
    \/ \E i \in IssueIds : StopStalled(i) \/ HandleStalled(i)
    \/ StallsDone

Next ==
    \/ World
    \/ \E i \in IssueIds : OperatorCancel(i)
    \/ SoloDrain
    \/ TickStep

Spec == Init /\ [][Next]_vars

\* What the run loop guarantees: ticks keep coming and each is run to its end,
\* full refreshes keep coming, and the clock passes the due time of a retry.
\* Worker tasks owe nothing: a run may go on for ever.
Fairness ==
    /\ WF_vars(TickStep)
    /\ SF_vars(LoadSnapshot)
    /\ \A i \in IssueIds : SF_vars(DoClaim(i))

FairSpec == Spec /\ Fairness

-----------------------------------------------------------------------------
(* Properties. *)

Phases == {"idle", "exhaustion", "snapshot", "flush", "drain", "reconcile", "late",
           "discover", "details", "dispatch", "launch", "stalls", "stalled"}
Modes == {"none", "solo", "full", "running", "terminal", "summary", "known"}

\* Type correctness of the scheduler's maps and of the tick.
TypeOK ==
    /\ tracker \in [IssueIds -> StateNames]
    /\ remote \in [Workers -> {"none", "running", "detached", "unstopped", "stopped"}]
    /\ task \subseteq Workers
    /\ given \in [Workers -> RunAttempts \cup {None}]
    /\ inbox \in Seq(OutcomeRecords)
    /\ stored \in [IssueIds -> U32]
    /\ executions \in [IssueIds -> Executions \cup {None}]
    /\ counts \in [StateNames -> Nat]
    /\ metadata \in [Workers -> IssueIds \cup {None}]
    /\ ordinal \in Workers \cup {0}
    /\ receipts \subseteq IssueIds
    /\ pendingFinished \in [IssueIds -> [exec : Executions, outcome : OutcomeRecords]
                                        \cup {None}]
    /\ pendingRetry \in [IssueIds -> RetryEntries \cup {None}]
    /\ pendingExhaustion \subseteq IssueIds
    /\ cooldown \in BOOLEAN
    /\ pc \in Phases /\ mode \in Modes
    /\ snap \in [IssueIds -> StateNames \cup {None}]
    /\ todo \subseteq IssueIds
    /\ launches \in [IssueIds -> Executions \cup {None}]
    /\ started \subseteq IssueIds
    /\ batch \in 0..Len(inbox) /\ failed \in BOOLEAN
    /\ contradicted \subseteq IssueIds

\* The harness run w is in the scheduler's hands: it can be stopped, stalled and
\* its outcome applied.
Supervised(w) ==
    \/ metadata[w] # None
    \/ \E i \in Claims : launches[i].run.worker = w

\* At any point of a tick, and whatever fails but a launch, a harness run that goes
\* on is in the scheduler's hands unless its own worker has reported it: as given
\* up, or by an outcome that says nothing of the run.  No handler, error or abort of
\* a task leaves "a remote run alive after its local task was discarded".
OrphanWasReported ==
    \A w \in Workers :
        Alive(w) /\ ~Supervised(w) => remote[w] \in {"detached", "unstopped"}

\* Two harness runs of one issue go on at the same time only if the worker of one
\* has reported it as over while it was not (Failed, Stalled, ...): the scheduler
\* then retries beside it.  A run it watches, one whose stop was not confirmed and
\* one that was given up on (Detached, CancelFailed) never get a second beside
\* them, through stops, retries, releases and reopens.
OverlapWasReported ==
    \A v, w \in Workers :
        /\ v # w /\ Alive(v) /\ Alive(w)
        /\ given[v].issue = given[w].issue
        => "unstopped" \in {remote[v], remote[w]}

\* What the retries are meant to avoid ("retrying would duplicate work"): two
\* harness runs at work on one issue.  The code does not keep this once a worker
\* reports Failed or Stalled for a run that goes on.
OneLiveRunPerIssue ==
    \A v, w \in Workers :
        v # w /\ Alive(v) /\ Alive(w) => given[v].issue # given[w].issue

\* max_concurrent_agents bounds the harness runs that were started and whose
\* worker has not reported, over every dispatch of a tick (a tick may dispatch
\* twice, and summaries in several batches).  A run that goes on after its report
\* is not counted: with the report its slot is free.
CapacityBound ==
    Cardinality({w \in Workers : remote[w] = "running"}) <= MaxConcurrent

\* The cached per-state counts are exact (debug_assert_running_counts, which
\* release builds leave out): state limits read only the cache.
RunningCountsExact ==
    \A s \in StateNames :
        counts[s] = Cardinality({i \in Known :
                        /\ executions[i].status = "Running"
                        /\ executions[i].issue.state = s})

\* The types, the phase of the tick, and the counts per state that `insert_execution`
\* and `remove_execution` keep for the capacity limits.
Consistent == TypeOK /\ RunningCountsExact

\* A retry is in the durable record before its worker can start, so a crash
\* before start_workers recovers that retry and not an older one.
RetryIsDurable ==
    \A i \in Claims :
        launches[i].run.attempt > 0 => stored[i] = launches[i].run.attempt

\* A stop request the scheduler still records as Requested is one nobody will
\* send again, so none may survive the step that made it: every live run is
\* unasked, confirmed stopped, or asked again at the next reconciliation.
StopRequestIsRetriable ==
    \A i \in Known :
        IsLive(executions[i]) /\ executions[i].interrupt # None
        => executions[i].interrupt.status # "Requested"

\* A stop recorded as acknowledged stopped the very run it is recorded on:
\* abort_worker takes a live run with an acknowledged interrupt for stopped and
\* does not ask the harness again.
AcknowledgedMeansStopped ==
    \A i \in Known :
        LET e == executions[i] IN
        IsLive(e) /\ e.interrupt # None /\ e.interrupt.status = "Acknowledged"
        => remote[e.run.worker] = "stopped"

\* A durable success receipt (terminal_orchestrator_issues) lasts only while its
\* issue is not being worked on.
ReceiptMeansFinished ==
    \A i \in receipts :
        /\ launches[i] = None
        /\ executions[i] # None => executions[i].status = "Released"

\* A finished update kept for later is applied to the execution it was kept
\* with: nothing else has used or replaced that execution's run meanwhile.
PendingUpdateIsCurrent ==
    \A i \in Pending :
        /\ launches[i] = None
        /\ executions[i] # None
        /\ executions[i].run = pendingFinished[i].exec.run

\* No worker starts on an issue that a refresh made after the snapshot, in the
\* same tick, has already shown to be finished or parked.  The code does not keep
\* this: a run released by its own refresh is reopened from the older snapshot.
NoLaunchAgainstNewerRefresh ==
    \A i \in Claims : i \notin contradicted

\* The outcome of every run is applied in the end: the worker's slot is freed.
FinishedIsApplied ==
    \A w \in Workers : metadata[w] # None /\ w \notin task ~> metadata[w] = None

\* A queued retry does not wait for ever: it is claimed, or the issue released.
RetryIsDispatched ==
    \A i \in IssueIds :
        /\ executions[i] # None
        /\ executions[i].status = "RetryQueued"
        /\ ordinal + 1 \in Workers
        ~> \/ executions[i] = None
           \/ executions[i].status # "RetryQueued"

\* When the tracker keeps an issue terminal its run is stopped in the end, even
\* one that never reports.
TerminalIssueIsStopped ==
    \A i \in IssueIds :
        <>[](CategoryOf[tracker[i]] = "Terminal")
        => <>[](\A w \in Workers : metadata[w] # i)
=============================================================================
