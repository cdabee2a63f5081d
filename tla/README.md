# OpenSymphony models

TLA+ models of OpenSymphony: the daemon that polls a tracker for issues, runs a
coding agent on each in a workspace of its own, and stops, retries or releases
the runs as the tracker and the agents report. The models are translated from
the code; every definition that stands for code is listed with its lines in
`PROJECT.json`, under `map`.

Contents: [the system](#the-system) · [the modules](#the-modules) ·
[how state and actions correspond](#how-state-and-actions-correspond-to-the-code) ·
[the runs](#the-runs) · [fairness](#fairness) ·
[where code and documentation differ](#where-code-and-documentation-differ) ·
[the proofs](#the-proofs) · [not modelled](#not-modelled) · [the plan](#the-plan)

To repeat the checks, inside this directory:

    tlc -workers 2 -config IssueLifecycle.cfg MCIssueLifecycle.tla
    tlc -workers 2 -config SchedulerFailures.cfg MCScheduler.tla     # and the other cfgs
    tlc -workers 2 -config HierarchyNested.cfg MCHierarchy.tla       # HierarchyFaults
    tlc -workers 2 -config RepairFaults.cfg MCParentRepair.tla
    tlc -workers 2 -config ParentAttempts.cfg MCParentAttempts.tla
    tlc -workers 2 -config AcpSession.cfg AcpSession.tla
    tlc -workers 2 -config HarnessReuse.cfg HarnessSession.tla       # HarnessFaults
    tlapm IssueLifecycleProofs.tla
    tlapm SchedulerProofs.tla
    tlapm ParentAttemptsProofs.tla
    tlapm ParentRepairProofs.tla
    tlapm AcpSessionProofs.tla
    tlapm HarnessSessionProofs.tla

## The system

Paths are under `crates/` unless another directory is named.

| Component | State it keeps | Operations | Talks to |
|---|---|---|---|
| **IssueExecution** (`opensymphony-domain`: `state_machine.rs`, `runtime.rs`) | one record per issue: status (Unclaimed, Claimed, Running, RetryQueued, Released) with its payload, workspace, conversation, last outcomes, interrupt | claim, start, observe, queue retry, release, reopen, interrupt, refresh | called by the scheduler |
| **Scheduler** (`opensymphony-orchestrator/scheduler.rs`) | the executions map, worker metadata, cached per-state counts, kept updates, kept retry and exhaustion markers, success receipts, rate-limit cooldown | `tick`, `drain_worker_updates`, operator cancel, operator answers, bootstrap | tracker, workspace and worker backends (awaited calls), run loop |
| **Crash recovery** (same file) | the durable run, retry and parent markers | `bootstrap_recovery`, `load_recovery_state` | workspace backend |
| **Parent integration** (`parent_integration.rs`) | attempts, repairs, provider operations of one parent | plan, apply, reconcile after a restart | hierarchy, repository provider |
| **Hierarchy and leases** (`hierarchy.rs`, `selection.rs`) | child edges with generations, dispatch intents, workspace leases | acquire, release, supersede, select | scheduler, workspace manager |
| **Worker backend** (`opensymphony-cli/orchestrator_run/backends.rs`) | one local task and one abort handle per worker, an update channel | start (with a launch timeout), poll, interrupt, abort | scheduler, harness sessions |
| **Run loop** (`orchestrator_run/mod.rs`) | the ticker, the action cursor, the operator channels | wake on a tick, a worker update, an operator request | scheduler, gateway, control plane |
| **OpenHands adapter** (`opensymphony-openhands`) | per stream: socket, readiness event, event cache, queue, state mirror; per issue: the conversation manifest; the local server process | attach, next event, reconnect, reconcile by REST; prompt, run, await the end, recover | agent server, worker backend |
| **ACP host** (`opensymphony-acp`, and its worker `orchestrator_run/backends/acp.rs`) | one retained session per issue: a durable record, a lock, one owner task with one agent process; pending questions | claim, restore, submit, cancel, retire, answer, expire | agent process, worker backend, control plane |
| **Codex adapter** (`opensymphony-codex`) | none of its own | build and validate requests | app server |
| **Workspace manager** (`opensymphony-workspace`) | manifests, checkouts, hooks | prepare, run hooks, clean up | file system, git |
| **Linear client** (`opensymphony-linear`) | retry state, task-graph cache | queries and mutations with retry and rate limit | Linear |
| **Event journal** (`opensymphony-domain`: `journal.rs`, `timeline.rs`, `terminal_log.rs`) | partitions of numbered events | append, read from a cursor | gateway, clients |
| **Gateway** (`opensymphony-gateway`) | action log, idempotence keys, audit | accept, apply, audit an action | run loop, journal |
| **Control plane** (`opensymphony-control`) | the latest snapshot | publish, subscribe | run loop, clients |
| **Clients** (`packages/`, `apps/`, `opensymphony-tui`) | a replayed stream and its cursor | replay, render | gateway, control plane |
| **Planning, memory, code intelligence, workflow configuration, CLI commands** | files | sequential data processing | each other |

`PROJECT.json` lists every component with its sources and what of it is modelled.

### Which behaviours are hard, and what correctness means

The daemon is one task, so no two handlers of the scheduler run at once. It is
hard because of what happens *between* and *inside* its awaited calls:

* **The world moves during a tick.** Issues change state in the tracker, worker
  tasks finish, a harness accepts or ignores a stop, all between two phases of
  one tick. The tick reads the tracker up to four times and acts on each view in
  turn.
* **`?` ends a tick anywhere.** Handlers take an execution *out of* the map, await
  something that can fail, and put it back; an error in between forgets it.
* **Stops are requests.** An interrupt may be refused, time out although it worked,
  or never be sent because its intent could not be made durable first.
* **Updates are kept.** An outcome whose handling failed is kept and handled
  again later, beside everything else that can happen to the issue.
* **Durable markers and memory disagree.** Retries, exhaustion and success are
  recorded on disk, and each write may fail on its own.
* **Counters are cached.** Per-state limits read counts that are updated by hand.

* **Parents hold what others may want.** A parent is integrated by a run of its own,
  inside the checkouts of its finished children. While it runs the tracker may reopen a
  child, move it to another parent or close the parent; a lease or a fence, not the
  tracker, decides what may touch a checkout.
* **External writes cannot be undone or asked about.** A push, a pull request, a review
  trigger or a merge may have happened although its answer was lost. An intent is
  written before each, a receipt after it, and the next tick starts from both.
* **An agent outlives who started it.** The session of an ACP agent is kept from run to run, its
  process survives a crash of the daemon and may survive its own teardown, and a prompt it was
  given may be half done. The next owner has only the record, the lock and the process table.
* **A turn is known by its echoes.** What an OpenHands conversation does arrives as events on a
  socket, as pages of a search and as a status, each of a different age, out of order, twice or
  not at all; the conversation outlives the turn, so an earlier turn looks like this one. And a
  deadline may drop the stream's future at any await.

* **A report is not an end.** A worker that gives up says so (`Detached`), but a lost stream, a stall
  timeout, an error of the session or a panic of its task is reported as `Failed` or `Stalled` while the
  harness run goes on, and the scheduler retries without asking.

What makes the scheduler correct, then: no harness run without an owner until its worker reports it; never
two runs of one issue beside each other unless one was reported as over; the limits hold; the record of a retry is durable before
the retry can start; a stop is either confirmed or asked again; what is terminal
stays so; every outcome is applied, exactly once and to its own run; and ticks
that keep coming get everything done in the end. For `IssueExecution`: a live run
keeps its repository and directory, a stop belongs to the run it was raised
against, attempts and budgets do not drift, arithmetic saturates where it must.

For parents: no descendant works in a checkout a parent's run integrates, whatever the
tracker does and wherever the daemon dies; no cleanup takes a checkout from a parent that
holds it; a parent's run starts from merged work only. A parent completes on exactly the
commits one of its attempts verified. A repair opens one pull request, asks for each
review once, merges only what was approved, and recognises its own merge after a crash.

For sessions: one agent at a time, a prompt is sent at most once and never beside one that
is unsettled, an agent is not asked to continue what it was never told, a run is reported
stopped only when nothing works on it, and a cancelled run comes to an end.

For turns on a conversation: the stream misses no event and delivers none twice; a turn that is
reported as succeeded finished, without an error the server had told of; an earlier turn is never
taken for this one; and a turn that was started comes to an outcome, the right one if it finished.

## The modules

| Module | Models | Kind |
|---|---|---|
| `IssueExecution` | the record of one issue and all its operations, with the retry, stall, interrupt and outcome records; constants and types | constant-level operators |
| `IssueLifecycle` | one `IssueExecution` under every legal sequence of calls | state machine: 18 actions |
| `IssueExecutionLemmas` | what each operation of `IssueExecution` returns, for the proofs about both modules that call them | proofs |
| `IssueLifecycleProofs` | theorems about `IssueLifecycle` | proofs |
| `Scheduler` | `tick`, worker drains and operator cancels for leaf issues, with tracker, harness and worker tasks around them | state machine: 38 actions |
| `SchedulerProofs` | theorems about `Scheduler` | proofs |
| `Hierarchy` | the tree of parents and leaves, leases, fences and dispatch intents; ticks, outcomes, replanning, cleanup, crash and recovery of parents and their leaves, with tracker, provider and harness around them | state machine: 27 actions |
| `HierarchyProofs` | theorems about `Hierarchy` | proofs |
| `ParentAttempts` | the verification attempts of one parent: intent, launch, attachment, commands, outcome, release, restart | state machine: 13 actions |
| `VerifiedParent` | what a parent promises: it completes on verified targets only, and a settled parent does not change | abstract; `ParentAttempts` implements it |
| `ParentAttemptsProofs` | theorems about `ParentAttempts` | proofs |
| `ParentRepair` | one repair of a parent: branch, turn, push, pull request, review, merge and refresh, with GitHub, the reviewer and other people around it | state machine: 21 actions |
| `ParentRepairProofs` | theorems about `ParentRepair` | proofs |
| `AcpSession` | the retained ACP session of one issue: its durable record, the owner of the agent process, the worker that runs a prompt on it, rotation, cancellation, crash and restart, with the agent around them | state machine: 35 actions |
| `AcpSessionProofs` | theorems about `AcpSession` | proofs |
| `HarnessSession` | one turn on an OpenHands conversation: the runtime stream (socket, readiness, search, cache, queue, mirror, reconnection), the runner that prompts and waits, its deadlines, crash and recovery, with the agent server and the network around them | state machine: 28 actions |
| `HarnessSessionProofs` | theorems about the stream of `HarnessSession` and the runner's reports | proofs |
| `MC...` | small instances, symmetry (`AcpSession` and `HarnessSession` need none) | for TLC |

`IssueExecution` is shared: `IssueLifecycle` gives its callers every freedom, and is
proved by itself; `Scheduler` calls the same operators the way the scheduler does.
The guards of the record (`ClaimOk`, `QueueRetryOk`, ...) are the `Err` returns of
the Rust methods, so `Scheduler` also models what happens when such a call fails.

The three parent modules divide one controller (`parent_integration.rs`) and its scheduler
by what they keep in full:

| | `Hierarchy` | `ParentAttempts` | `ParentRepair` |
|---|---|---|---|
| which run may start, which checkout is held | every lease, fence and scope | "admitted" | "admitted" |
| an attempt of the controller | started, ended | every receipt and status | one turn that passes or fails |
| a repair of the controller | the state `fixing` | the state `Publishing` | every operation |
| executions | of every issue | of the parent: the attempt it holds | of the parent: three states |

Each takes from the other two only what its guards read, and lets it happen at any time:
in `Hierarchy` a repair may be merged whenever the controller is fixing, in `ParentAttempts`
it may be merged or returned whenever it is published, in `ParentRepair` a turn may
leave changes or none.

## How state and actions correspond to the code

### IssueExecution, IssueLifecycle

The record's fields are those of the Rust struct; the payload of the status enum
is spread over `run`, `stall`, `retry` and `reason`, of which the status determines
those that are not `None` (part of `TypeOK`). A method `m` that may return `Err` is
a guard `MOk` and a result `M`. `RetryAttempt` is a `NonZeroU32`: 0 is "no attempt
number". Times are integers of `TimeBits` bits with saturating addition and
multiplication; `u32` is `0..U32Max`; the shift of the backoff is capped below the
word width, as `failure_delay` does.

The three variables are `exec`, `spent` (worker ids already used: `next_worker_id`
counts up) and the history variable `target`, the worker against whose run the
recorded interrupt was raised: the command the code stores names only the issue.
Every action is one call. Constraints on arguments are those all callers keep: a
fresh worker id, a workspace removed only where no run can use it, a retry built
from the run it follows.

### Scheduler

| Variable | Code |
|---|---|
| `tracker`, `remote`, `task`, `given`, `inbox` | the tracker, the harness runs, the worker tasks and their channel |
| `stored` | the retry record in the workspace |
| `executions`, `counts`, `receipts` | `executions`, `running_counts_by_state`, `terminal_orchestrator_issues` (updated together in `insert_execution`/`remove_execution`: `Put`) |
| `metadata`, `ordinal` | `worker_metadata`, `next_worker_ordinal` |
| `pendingFinished`, `pendingRetry`, `pendingExhaustion` | `pending_finished_updates`, `pending_retry_persistence`, `pending_retry_exhaustion_persistence` |
| `cooldown` | whether `rate_limited_until` is in the future |
| `pc`, `mode`, `snap`, `todo`, `launches`, `started`, `batch`, `failed` | where `tick` is and its local variables |
| `contradicted` | history: issues a refresh made later than the snapshot showed not to be active |

One tick is these phases, in this order; a step handles one issue or one update, so
the world acts between any two:

    idle        FlushRetries           flush_pending_retry_persistence
    exhaustion  FlushExhaustion        flush_pending_retry_exhaustion_persistence
    snapshot    LoadSnapshot | RefreshRunning | SnapshotFails | NoRefresh
    flush       Flush(i)               flush_pending_finished_updates
    drain       DrainUpdate            apply_worker_updates
    reconcile   ReconcileActive(i), ReconcileRelease(i), ReconcileParked(i),
                ParkedLeaseFails(i)    reconcile_tracker_state
    late        RefreshTerminal        refresh_terminal_issues
    discover, details                  dispatch_summary_candidates
    dispatch    DoClaim(i), DoSkip(i), PreparationFails, StartWorkers
    launch      LaunchStarted(i), LaunchFailed(i)
    stalls, stalled                    FindStalls, StopStalled(i), HandleStalled(i)
    dispatch    again, for the issues already known (StallsDone)

`remote` is what became of a worker's harness run. `WorkerFinishes` is the report of the local task: after
`Detached` and `CancelFailed` the run goes on as `detached`; `Cancelled` follows an observed stop; any other
outcome leaves it `stopped` or going on as `unstopped`, since `Failed` and `Stalled` are reported with
`harness_stopped` unset when the stream is lost or the stall timeout strikes (session.rs:3637-3717),
when the session ends in an error (backends.rs:7231-7238, 7861) and when its task panics
(backends.rs:10383-10393), and a success may be reported too early (see `SuccessIsTrue` below). The scheduler treats `unstopped` and
`stopped` alike, as `retry_reason_for_outcome` does; only an interrupt that reaches the harness tells them
apart (`StopRemote`).

Between ticks `SoloDrain` is `drain_worker_updates` on its own and `OperatorCancel`
is `interrupt_operator_cancel`.

A handler with failing calls is a *set of results* (`AbortWorker`,
`ResolveFinished`, `Finalised`, `Releases`, `PersistRetry`): each result carries
what the handler returns and which effects it had before it returned. The action
picks one. `Failing` names the awaited calls that may fail in a run; `EndTick` is
what `?` does: the tick ends and every local is lost, also an execution held
outside the map. `LaunchTimeout` is the launch that times out locally while the
harness has accepted the run.

Abstractions. Time: whether an interval, a retry, a stall or the cooldown is due is
a free choice, so every timing is covered and nothing that depends on a particular
one is claimed. Issues are a state and an id: order of dispatch, blockers and
priorities only choose among candidates, and the model lets any be chosen.
`Workers` are the ordinals 1..N and bound the number of runs in a behaviour;
a candidate beyond the bound is skipped. A worker reports once, so the
inbox is bounded too. `Cleaned` covers a workspace removed and one that was kept.

### Hierarchy

`scope`, `open`, `merged` are the tracker and the provider; `runs` counts the run manifests of
an issue, and a merge is the number of the run it came from, which is how
`MergeFresh` compares the time of a merge with the last run. `live` is what the harness
runs for a worker that has not reported. `mem` and `disk` are the two copies of `DurableOrchestratorState`: snapshots,
leases, `run_hierarchy_generations` (`stamp`), success receipts and controllers.

| Steps | Code |
|---|---|
| `Refresh` | `tick` up to the write after the snapshot: `reconcile_hierarchy_snapshots`, `reconcile_terminal_hierarchy_snapshots` |
| `Release`, `StopRefused`, `Upsert`, one issue at a time | `reconcile_tracker_state`, `fence_hierarchy_changed_runs`, `release_issue`, `retain_terminal_child_lease` |
| `Skip`, `PrepareLeaf`, `PrepareParent`, `PreparationFails`, `EligibilityWriteFails`, `AdmissionRefused` | `dispatch_ready_issues`, `parent_dispatch_is_eligible` |
| `StartWorkers(failed)`, then `RecordLaunch`, `RecordLaunchFailure` | `start_workers` and the loop over its results |
| `FinishLeaf`, `FinishParent`, `RepairMerged` | `drain_worker_updates` down to `release_finished_execution` |
| `Replan`, `Capture`, `CleanUp` | `replan_parent`, `acknowledge_terminal_capture`, `reconcile_parent_subtree_cleanup` |
| `Crash`, `Recover` | `bootstrap_recovery` |

`phase` separates what the code separates by awaiting; the world moves between any two
steps. `ReconcileScope` is `HierarchySnapshot::reconcile`; `Reconciled` applies it to the
parents in the order the tracker lists them (`EachParent`), since the order matters when a child moves.
`Recording` takes the launches one by one, as the loop over the results does. `Recover` is the
bootstrap of a daemon that was down: it stops the recovered runs of closed issues, and a run whose
stop the harness refuses (`refused`) is put back among the running ones
(`stop_recovered_run_before_workspace_removal`).
A write that fails is either undone in memory (`SavedOrUndone`) or kept there and owed
(`SavedOrOwed`), as the call site does.

### ParentAttempts and VerifiedParent

An attempt is its receipt: status, whether a conversation is attached, whether a
foreground process is open, exit codes seen, cleanup, whether the stop of its harness is
known, the targets it started from and those it verified. `RecordOutcome` takes any
outcome a worker can report (`Outcomes`), and `Decided` is what `record_parent_worker_outcome`
makes of it; where a transition is refused (`?`), the finished attempt stays in memory,
as in the code. `Restart` is a crash and the bootstrap after it: the manifest the workspace
holds is any that can be there (`Manifests`).

`VerifiedParent` knows three things of a parent: its phase, its targets, and the targets an
attempt passed on. The refinement mapping (`Promise`) reads them off the controller in
memory. It makes a crash a stutter: what memory knows beyond the disk is never a decision.

### AcpSession

One issue, since the host, the lock and the record are keyed by it. `parent` says whether the
issue is a parent, whose session must survive (`require_persistence`).

| Variable | Code |
|---|---|
| `disk`, `file` | `AcpSessionState` in `conversation.json`; the run manifest `run.json` |
| `bound` | the conversation id in the parent controller's attempts |
| `pc`, `mem`, `pend`, `watched`, `clean` | the owner's task in `start` and `drive`: where it is, `Durability::state`, `PreparingPrompt` or `ActivePrompt`, `attachments`, what becomes `cleanup_ready` |
| `w`, `stop`, `boot` | the worker in `run_issue` and `try_run`, the interrupt that is observed beside it, whether the daemon has just started |
| `up`, `task`, `ctx` | the agent: process groups alive, the prompt each works on, the sessions that saw the full workflow prompt |
| `sent`, `answered`, `won`, `quiet` | history: what was transmitted and answered, and what the scheduler was told |

| Steps | Code |
|---|---|
| `StartAttempt`, `Prepare`, `StartRun` | the launch of a run in `backends.rs`, new or found by `recover_workspaces` |
| `RetireLive`, `RetirePersisted`, `Archive` | the rotation when the profile or the credential scope changed: `retire`, `retire_and_archive` |
| `Settle`, `Borrow`, `Claim`, `Inspect`, `SendPrompt`, `Observe`, `Conclude` | `try_run` and `run_issue`, from await to await; `Borrow` and `Claim` are the two ends of `SessionHost::open` |
| `Spawn`, `RecordLaunch`, `SetUp` | process start, `Durability::launched`, negotiation and restoration up to `Durability::ready` |
| `Submit`, `WithdrawPrompt`, `Transmit`, `Respond`, `PromptFails` | the two prompt branches of `drive` and `prompt_rpc`, which look for a cancellation before, after and again |
| `Cancel`, `AcknowledgeStop`, `InterruptTimesOut`, `AbortWorker`, `StreamLost` | `interrupt`, `abort_worker`, a lost frame of the event stream |
| `ConnectionLost`, `IdleExpires`, `Watch`, `Teardown`, `Close` | the end of the connection, the tick, observation leases, reaping, the end of `start` |
| `AgentExits`, `OrphanEndsTurn`, `Crash` | the agent and the daemon |

A claim is a number, and stands for what the code makes of a claim: the owner's id and
generation, the process id it records and the session it may create. There is one
daemon at a time (`RuntimeRootLock` on the runtime root); the session lock is held exactly
while `pc # "none"`, and dies with the daemon. `Persisted` and `NotPersisted` are
`persist`: it changes the record in memory first, and a write that fails may have replaced
the file. A run counts as `quiet` from the report to its next start: a recovered run is
the same run and may be transmitted if it was not before. `run.json` is always written;
`max_tokens` and `max_turn_requests` end a run like `end_turn`.

### HarnessSession

One conversation and one turn of the issue on it: a stream belongs to one runner, and the runner
awaits it in one task. Events are numbers, their places in the server's log: the cache is kept in the
order of time and without duplicates, so it is a set. An event is `mine` if it belongs to the turn
of this prompt; the code cannot see that, the properties can.

| Variable | Code |
|---|---|
| `log`, `busy`, `announced`, `runs` | the agent server: persisted events, the turn it works on, whether that turn wrote `running`, how many run requests it accepted |
| `sock`, `wire` | the web socket, and the frames on it that were not read |
| `conv`, `ready`, `cache`, `pend`, `redial`, `mirror` | `conversation`, `ready_event`, `event_cache`, `pending_events`, `reconnect_pending`, `state_mirror` of `RuntimeEventStream` |
| `dial`, `tries` | where `attach` or `reconnect` is suspended, and its `attempts` |
| `pc`, `rec`, `baseline`, `waited`, `why`, `told`, `out` | the runner: where it is suspended, run or recovery, `baseline_event_ids`, `waited_for_prior_turn` or `had_run_conflict`, the arm of `await_terminal_outcome` that reconciles, what the observer got, the outcome with `harness_stopped` |
| `pending`, `marker` | `trigger_pending_run_id` and `last_event_id` in the manifest on disk |
| `given` | history: what `next_event` returned |

| Steps | Code |
|---|---|
| `Announce`, `Work`, `Finish`, `FailLate`, `Drop` | the agent server and the network |
| `Absorb`, `Closed`, `Redial`, `Deliver`, `Ended` | `next_event`, from await to await |
| `Refreshed`, `Connected`, `Searched`, `DialFails` | `attach` and `reconnect`: conversation, socket with readiness barrier, events; a failure |
| `DialCut`, `Tick`, `Stall`, `ConfirmDeadline`, `WaitDeadline`, `FramesLost` | the deadlines: `timeout_at` drops `next_event` in a reconnection, while it waits, or while it holds frames |
| `Attached`, `Send`, `Trigger`, `Backlog`, `Record`, `Resync` | `prepare_turn` and `start_turn`, and their counterparts in `recover_with_observer` |
| `Check`, `Reconcile` | `terminal_outcome_from_state`, `handle_reconcile_progress` |
| `Crash` | the daemon, up to the attachment of `recover_with_observer` |

`Returned` and `Broken` are what the three callers of `next_event` make of an event, and of none or an
error. `Rebuilt` is `rebuild_state_mirror` with its two corrections, `Fallback` and `Barrier`. `failed`
stands for `error` and `stuck`; `idle` also for a conversation without updates. Without `Tight` a
read takes every frame that is there, and a deadline ends a read only when there is none: what the
second look before a delivery (`defer_pending_event_delivery_once`) and the drains aim at.

### ParentRepair

`mem` and `disk` are the copies of the repair and of its controller's state, with the ledger:
`pending` intents, `receipts`, the `keys` of the transitions made so far. `Keyed` is
`transition`: a key used before changes nothing and succeeds or fails with its input.
`ReconcileProvider` is `reconcile_repair_provider`, its guards in order. An action is what
the daemon does between two external writes; the records it writes on the way are a
sequence, of which `Written`, `Concluded` and `Abandoned` let any prefix be the last
that reached the disk. `CallFails` is an external call that fails before or after it
took effect. Commits are numbers; `Foreign` is a commit of somebody else; `vetted`, `merger` and
`lastSeen` are history.

## The runs

At most four workers are ever started, so four reports are sent; the attempt number
stays below `U32Max`. `Todo`, `HumanReview` and `Merging` are active states,
`Backlog` is neither active nor terminal, `Done` is terminal.

| Run | Instance | Shows |
|---|---|---|
| `IssueLifecycle` | 1 execution, 2 issue ids, 2 workers, 2 workspaces, 2-bit time, `U32Max` 2, history 2 | the ownership of a stop and the backoff, for every call sequence: both workers, overflow of attempt, time and history all occur; the type invariant and the other properties of the record are proved |
| `SchedulerFailures` | 1 issue, 3 runs, states HumanReview/Merging/Done; the tracker, starts, workspace, retry and exhaustion markers fail; workers report success, failure, cancellation or that they give up, and the run may go on (1.9 million states) | a second run beside another only after a report, the type invariant with exact counts (`Consistent`), durable retries, receipts |
| `SchedulerPersistence` | 1 issue, 2 runs, also Backlog; orchestrator state, interrupt intents, leases, aborts, interrupts, exhaustion markers, preparation and tracker fail; workers report success, failure or that they give up (2.2 million states) | no orphan but of a reported run, an acknowledged stop really happened, a kept update is of the current run |
| `SchedulerCapacity` | 3 interchangeable issues, 3 runs, limit 2 and 1 in Todo; preparation and tracker fail or are rate limited, runs end by stalling (1.05 million states) | the limit on concurrent agents |
| `SchedulerLiveness` | 1 issue, 2 runs; launches time out | outcomes applied, retries claimed, terminal issues stopped |
| `HierarchyNested` | a leaf below a parent below a root, 2 scope generations, 2 runs each, 1 change by the tracker, 1 fault (2.8 million states) | no run starts below a parent that holds a checkout while its run is alive; no operation on one parent takes a checkout from another that runs |
| `HierarchyFaults` | a leaf below a root, 2 generations, 2 runs each, 2 changes, 2 faults (1.03 million states) | the type invariant; the fence covers a parent's run, in memory and on disk, and a live one until it is observed stopped; a parent starts from fresh merges |
| `ParentAttempts` | 2 attempts, 2 versions of the targets, 1 fault (279,000 states) | completion on verified targets; a verification turn starts alone; `VerifiedParent` is implemented |
| `RepairFaults` | 2 commits, 1 turn without changes, 1 later review, 2 objections, 1 event by others, 2 faults (1.35 million states) | one pull request; one trigger per head; a merged head was vetted; a merge leaves its intent; completion means this merge |
| `AcpSession` | 2 runs, 2 claims, 2 grants, leaf or parent; writes, reaping and the connection fail, the daemon dies at any step (704,000 states) | one agent; one unsettled prompt, sent once; a continuation has its context; reported outcomes are true; a parent keeps its session; a cancelled run ends |
| `HarnessFaults` | a fresh conversation, 4 events on the way, 2 closed sockets, 2 attempts, every failure but a crash (281,000 states) | no event is delivered twice or lost in the queue; reported success and stop are true; a started turn comes to an outcome |
| `HarnessReuse` | a conversation that is fresh or whose earlier turn ended, goes on or is announced late, 5 events, 1 closed socket, 1 crash, 2 attempts (4.0 million states) | nothing is missed on a settled socket; success and error are this turn's own |

**Why these bounds.** Every scheduler property but the limits is about one issue:
the code handles issues one at a time and the maps are keyed by issue, so one issue
with three successive runs reaches first run, retry, retry of a retry, and a new run
after a reopen beside an old one. The limits need more issues than slots, and a
third run so that one too many can start: with two slots, three issues. There the
workers never report; a stall frees a slot in the middle of a tick, before its last
dispatch, which is the case that matters. `MaxRetryAttempts = 1` makes
exhaustion reachable. In the lifecycle two bits of time make every sum saturate
and `U32Max = 2` exhausts the attempt numbers.

In the hierarchy a second generation is what replanning and rebinding lead to, and a second
run of a leaf what makes a merge stale; the nested parent is the smallest tree in which a
checkout has two ancestors and passes from one to the other. In the attempts a second
attempt is one that starts after the first was left in any of its ends. A commit that
answers a review and an objection to it are the second of each in the repair; a second fault is
one in the recovery from the first; the budget of reviews runs out with `MaxRetriggers = 1`.

In `AcpSession` the second claim is the one that finds what the first left behind, and the second
run the one that may replay a prompt, continue a session or find its owner rotated; a second
grant makes the rotation. With three runs, three claims and crashes only (4.1 million
states) the invariants hold as well.

In `HarnessSession` the shortest turn writes three events, `running`, its work and its end; the prompt is
one more, a second piece of work one that can overtake it, and an earlier turn has its own. With two
attempts one reconnection fails and recovers and another is exhausted; two closed sockets close a socket
that a reconnection opened; after a crash the recovery meets the marker of any step of the first attempt.

**Which failures a run leaves out, and why.** A property is checked under every failure
that does not refute it; a failure that does is in
[where code and documentation differ](#where-code-and-documentation-differ) or a hazard with a
note. `OverlapWasReported` fails with `PersistIntent`, with `ReadLease`, and with `PersistState` beside
`RateLimit` (a trace of 43 states); `StopRequestIsRetriable` of the same module fails with `PersistIntent`. So
`SchedulerFailures` leaves out `PersistIntent` and `ReadLease`, and `SchedulerPersistence` adds them
for what still holds. It leaves out `Interrupt`, the rate limit, `PersistState` and `AbortCall` for its size only: with
the first its properties hold (6.1 million states), with the rate limit as well too (8.9 million), and
`OverlapWasReported` with the first and either of the others (7.3 and 6.8 million).
Both runs let a worker report `Succeeded` or `Failed` for a run that goes on, and give one up (`Detached`);
`Stalled` and `TimedOut` leave a run behind in the same way, and `CancelFailed` as `Detached` does.
`PendingUpdateIsCurrent` fails with `RateLimit`. `OrphanWasReported` and `CapacityBound` fail with
`LaunchTimeout`: the session asks the harness to run before it reports the launch, and the launch
timeout then aborts the local task only; and with `StartWorker` beside another call that fails
while the failed launch is settled: the tick ends and drops the launches that succeeded.
`ReceiptMeansFinished` fails with `ReadLease`: the error of the lease check drops the record of a
finished run and keeps its receipt. `RetryIsDurable` fails with `RateLimit` and `PersistState`, on
an instance larger than the runs' (1 issue, 4 workers, 2 slots, a trace of 59 states): a finished
update kept over a cooldown overwrites the record of a newer retry. What each of these properties
needs is the hypothesis of its theorem in [`SchedulerProofs`](#schedulerproofs).

`NoStartBelowRun` and `RunningParentKeepsItsCheckouts` speak of a start and of a step, because the
state they seem to stand for does not last. A leaf that the tracker moves under a running parent, or out
of its scope, may be running there while the parent does; a parent and a leaf below
it can both be launched by one pass, if the leaf was closed in the snapshot of the tick and is reopened
after the claim of the parent, whose intent is no fence yet (hierarchy.rs:1414-1441); and the release
of a closed nested parent drops its leases one step before its run is stopped.

So the first says that at the start of a run no parent above it holds a checkout while its run is
alive; of a parent that starts, `FreshWhenStarted` covers the direct leaves. The second says which steps may
take a checkout from a run that goes on. The exceptions it makes are two uses of
`release_subtree_evidence_for_undispatched_parent` (hierarchy.rs:1213), which releases everything
below a parent, the checkouts of a nested one included: on a parent that the tracker closes before it
was ever launched, and on a finished child that has no leaf below it, when its own parent is
examined. Its hypothesis, that the orchestrator's tree is the tracker's, is needed since a
reconciliation of a changed scope drops the leases of what left it.

`VerificationStartsAlone` speaks of harnesses whose conversation
was attached: one that a crash orphaned before that is in nobody's record.

The runs of `HarnessSession` divide the failures by what they do not refute. `HarnessFaults` lets
everything fail but the daemon, and asks what then still holds of a conversation without an
earlier turn. With one crash, one closed socket and every failure its invariants hold as well (5.68
million states), its two reports stated for at most one accepted request, since a recovery that
asks again may start a second turn on the same prompt; and `TurnEnds` holds with a crash and three
events (637,000 states). `HarnessReuse` keeps closed sockets and crashes. Every other failure refutes one
of its properties on a conversation with an earlier turn, as the next section tells: `Late`,
`Socket` and `Poll` refute `SuccessIsTrue`, `Rest` refutes `FailureIsOwn`, and
`StreamMissesNothing` is proved for every `Failing` without `Tight`. `ErrorIsSeen` is stated for one accepted
request.

**What holds beyond the runs.** Definitions of the modules that no run repeats, with the instance on
which TLC found them to hold:

| Property | Instance |
|---|---|
| the type invariants of `IssueLifecycle`, `ParentAttempts`, `ParentRepair`, `AcpSession`, `HarnessSession` | proved, and on the runs' own |
| `RepairSettles` (`ParentRepair`) | `LiveSpec`, 4 commits, no idle turn, 2 later reviews, 3 objections, no events of others, no faults (23,000 states). A failed call may leave an intent for an old head pending, which then refuses the new one |
| `LeasedCheckoutExists` (`Hierarchy`) | `HierarchyNested` with `MaxFaults = 0` (376,000 states). It fails with a fault: what the reconciliation of closed parents released is not owed to the disk when its write fails, and a crash brings the lease of a removed checkout back |
| `FinishIsReported`, `MissedFinishIsFound` (`HarnessSession`) | `FairSpec`, `Histories = {"fresh"}`, 4 events, 2 closed sockets, no crash, 2 attempts, `Failing = {"Drop", "Socket", "Poll"}` (17,000 states). On a reused conversation a turn may be given up for the earlier turn's failure, see below |
| `PromptWaits` (`HarnessSession`) | `HarnessReuse` |

Every property of a passing run has a mutant in `PROJECT.json`: an operator of these
modules commented "Wrong on purpose" that makes one plausible mistake (a guard
dropped, a count not reset, an update overwritten), under which the run fails.
The mutants are not part of the specifications.

## Fairness

`FairSpec` assumes of the run loop (`orchestrator_run/mod.rs`, the loop around
`RunWake`):

* `WF(TickStep)`. The ticker wakes the loop for ever, an error of a tick is logged and the
  loop goes on, and every awaited call of a tick returns (backend calls carry
  timeouts). So a tick that can take a step takes one.
* `SF(LoadSnapshot)`. A full refresh is due at an interval, and is forced while an update
  is kept; the cooldown ends. Strong, because refreshes are due again and again and
  not continuously: cooldowns and light refreshes come between.
* `SF(DoClaim(i))` for each issue. The clock passes a retry's due time and, with a slot
  free, the candidate order cannot pass the same issue over for ever. Strong, since
  dispatch is enabled only in its phase of each tick. With one issue, as in the run,
  the order plays no part; with many, a low-priority issue may starve in the code and
  nothing is claimed about it.

Nothing is assumed of the world: worker tasks may run for ever, the tracker may
change at any time. `RetryIsDispatched` is stated for the runs the bound allows
(`ordinal + 1 \in Workers`), and `TerminalIssueIsStopped` for an issue that stays
terminal.

`FairSpec` of `AcpSession` assumes weak fairness of each step the daemon's tasks take by
themselves: of the owner `Spawn`, `RecordLaunch`, `SetUp`, `Submit`, `WithdrawPrompt`,
`Transmit`, `CancelTimesOut`, `Teardown`, `Close`; of the worker `Inspect`, `SendPrompt`,
`Observe`, `Conclude`, `InterruptTimesOut`. Each is a local computation, a file operation,
or a wait with a timeout of its own (`setup_timeout`, `cancel_timeout`, `reap_timeout`, the
fifteen seconds of an interrupt), so a task that can take it takes it. Nothing is
assumed of the agent, which may ignore a cancellation for ever (no prompt timeout is set in
production), and neither a crash nor a failed write is assumed away.

`FairSpec` of `HarnessSession` assumes of the agent server that a turn it accepted is announced
and ends (`WF(Announce)`, `WF(Finish)`): the runner waits for nothing else, and a turn that hangs is
its stall timeout's business. Of the daemon: the runner and its stream are one task, which the
runtime polls whenever a future it awaits is ready, so each step of `next_event`, of a reconnection and
of the runner is taken (`WF` of each, and of `Runner`), and its timers fire (`WF` of `Tick`,
`ConfirmDeadline`, `Stall`, `WaitDeadline`). Nothing is assumed of failures: a step that may fail may
fail every time, and a deadline may cut every reconnection. `Due` is an assumption on the
configuration: the stall timeout is longer than the fifteen seconds between two token counts, so
after a quiet end the state is looked at before the turn is called stalled.

`LiveSpec` of `ParentRepair`, which `RepairSettles` needs, assumes of the daemon `WF(Advance)`: `advance_parent_repairs` runs in
every tick and takes up a repair from its written record; and `WF` of the retry queue and the
dispatch, which `SchedulerLiveness` is about. Of the world it assumes what the program has to
rely on: a turn that changes something passes if turns are taken again and again
(`SF(TurnPasses(TRUE))`), checks come in (`WF(PassChecks)`), and a review comes in where one
is due (`WF(ReviewDue /\ Approve)`). A review is due for the first commit, for a head whose
trigger was posted, and from a reviewer who objected before; so a daemon that never
posts its trigger is not helped by the assumption.

## Where code and documentation differ

Each of these properties is a definition of its module. It is refuted when a failure that the runs above
leave out is let in, when a bound is raised, or at once where nothing is added; none is in a run.
Where the table names no instance, take the run of the module and the failure in brackets.

| Property | What happens |
|---|---|
| `OneLiveRunPerIssue` (one worker that reports `Failed`, no failing call; a trace of 26 states) | the stream of a run ends, or its session fails, and the worker reports `Failed` with `harness_stopped` unset (session.rs:3682-3717, backends.rs:7231-7238); `retry_reason_for_outcome` queues a retry all the same, which starts beside the run that goes on: the danger for which `Detached` is not retried ("retrying would duplicate work", scheduler.rs:9651-9652). What the runs check and the theorem proves is `OverlapWasReported`, which excepts just this. On an OpenHands conversation that is reused the retry waits for the earlier turn first (`HarnessSession`) |
| `OverlapWasReported` (with `PersistIntent`) | a run stalls, the stop's intent cannot be persisted, `?` drops the execution; the harness run goes on and a second one is started, against docs/operations.md:593-596 |
| `StopRequestIsRetriable` (with `PersistIntent`) | a stop recorded as Requested was never sent, and a Requested interrupt is not queued again, against docs/operations.md:888-891 |
| `PendingUpdateIsCurrent` (with `RateLimit` and stalls) | a stall pass resolves a run whose finished update is being kept; the flush then resolves it again, against the comment at scheduler.rs:7213 |
| `OverlapWasReported` (with `RateLimit`, `PersistState`) | a finished update is kept, the cooldown puts its flush off, and a stall pass resolves the same run and a new one starts; the flush then puts the old record in place of the new one, whose run goes on while a third is started, against docs/operations.md:593-596 |
| `OverlapWasReported` (with `ReadLease`) | a failing lease check drops a detached execution; the issue runs again beside the detached run, against the comment at scheduler.rs:7441 |
| `NoLaunchAgainstNewerRefresh` | a finished run is released on a fresh look at the tracker, then reopened and started from the older snapshot of the same tick, against the comment at scheduler.rs:7982 |
| `CapacityBound` (with `StartWorker`, `PersistState`) | an error for one failed launch abandons the launches that did start: they no longer count, against docs/configuration.md:993 |
| `ReceiptMeansFinished` (with `ReadLease`) | an execution dropped while its success receipt is kept is claimed again with the receipt in place, against docs/architecture.md:99-101 |
| `AncestorsKeepCheckouts` (`Hierarchy`) | a nested parent completes and its cleanup removes checkouts that an open root has not integrated, against docs/specs/multi-repo-orchestration-spec.md:532-533 |
| `TurnsStartAlone` (`ParentAttempts`, 3 attempts, 1 target, no faults) | a turn that implements a repair has finished its command and its stop is unknown; since the controller is Fixing, dispatch (scheduler.rs:6301) does not ask `has_unreconciled_harness`, and the next turn starts beside it, against docs/workspace-and-lifecycle.md:226-227 |
| `CompletedRepairResumes` (`ParentRepair`, `MaxIdleCycle = 2`) | two turns push nothing new, the push transition conflicts with its own key, the state stays Fixing while the repair goes on and completes, against docs/operations.md:832 |
| `MergeFollowsFreshSnapshot` (`ParentRepair`, 1 commit, 1 later review, 3 objections, no faults) | a repair becomes mergeable, is objected to, and becomes mergeable again: the second `merge-ready` transition (parent_integration.rs:2008) replays the key of the first, so the status says AwaitingMerge and the state AwaitingFixReview; when the approval is then retracted the fresh snapshot changes nothing and the merge goes ahead, against docs/operations.md:804-806 ("The scheduler applies a fresh provider snapshot immediately before merge and returns to review if approval, checks, or mergeability are no longer current") |
| `ReconnectIsPursued` (`HarnessFaults`, 1 closed socket, 3 attempts, `Drop` and `Poll` only) | the 15 s between token counts end while the stream reconnects; `timeout_at` drops `next_event` and the reconnection in it, whose intent is cleared already (client.rs:602); the next call returns `None`, and if one search finds nothing new the run fails with attempts left, against docs/websocket-runtime.md:345 |
| `ObservedOnce` (the same instance) | a reconciliation reports what it found and counts it as progress (session.rs:3750); the same events are queued, delivered by the stream, reported and counted again, against the comment at session.rs:3624-3628 |
| `StoppedIsTrue` (`HarnessReuse`, history `idle`, `Rest` only) | the server accepts the run request and the answer is lost; the outcome says `harness_stopped` (session.rs:3914) because the mirror still shows the end of the earlier turn, while the new one runs, against crates/opensymphony-domain/src/runtime.rs:1102-1104 |
| `PriorTurnUnobserved` (`HarnessReuse`, history `active`, no failure) | the wait for an earlier turn ends when the mirror shows its end (session.rs:3491); events of the same batch are still queued and go to the observer of this run, against the comment at session.rs:3513-3515 |
| `SuccessIsTrue` (`HarnessReuse` with `Poll`, or with `Socket`) | the socket closes between the prompt and the run request, so the mirror still shows the `finished` of the earlier turn; the reconnection that would correct it is cut by the 100 ms of the drain, or exhausts its attempts there, and the run is reported as succeeded while its turn goes on |
| `FinishIsReported` (`HarnessReuse` with fairness, history `active`, `Drop` only) | the same with an earlier turn that failed: the run fails for it, and the turn that then finishes is not reported |
| `SuccessIsTrue` (`HarnessReuse` with `Late`) | the request is accepted and the turn's `running` update comes later than the prompt's own event and the 100 ms of the drain; the earlier `finished` in the mirror passes for the end of this turn; docs/websocket-runtime.md, section 7.2, waits for the status to *enter* a terminal state |
| `StreamMissesNothing` without its `tries = 0` (`Drop`, `Poll`) | a deadline cuts a reconnection between the readiness barrier and the search: the socket stays, the search is never made, and what was written before is missing until a stall, against docs/websocket-runtime.md, section 8 (step 4 of "On reconnect") |
| `FailureIsOwn` (`HarnessReuse` with `Rest`) | the best-effort reconciliation before the wait fails, and one of the earlier turn's errors reaches the cache after the baseline was taken: the run fails for it |
| `ErrorIsSeen` without `runs = 1`, or with two crashes | attaching for a recovery moves `last_event_id` past an error of the turn; after the next crash the error counts as history, and the turn can succeed |

## The proofs

### IssueLifecycleProofs

For all values of the constants, the type invariant, six state properties and two action
properties of `IssueLifecycle`. A run repeats `InterruptSafety` and `BackoffSafety`; the conjuncts of the invariant were all checked by TLC on the same instance:

| Theorem | Statement |
|---|---|
| `TypeCorrect` | `Spec => []TypeOK`: no attempt number or count leaves `u32`, each status has its payload |
| `BindingSafety` | `Spec => []RunKeepsItsBinding` |
| `AccountingSafety` | `Spec => []AttemptAccounting` |
| `InterruptSafety` | `Spec => []InterruptBelongsToRun` |
| `HistorySafety` | `Spec => []NewestOutcomeKept` |
| `DeadlineSafety` | `Spec => []StallDeadline` |
| `BackoffSafety` | `Spec => []BackoffIsCappedDoubling` |
| `AcknowledgementSafety` | `Spec => AcknowledgedStopSticks` |
| `DeadlineMonotone` | `Spec => DeadlineNeverPulledBack` |

**The inductive invariant** `IInv` is the conjunction of the seven state properties.
None but the type invariant is inductive by itself: `BindingSafety` needs the type of
the workspace, `AccountingSafety` needs to know which payload a status has,
`DeadlineMonotone` needs the exact deadline. There is a lemma per action that it keeps
`IInv` (`ClaimKeepsIInv`, ...), under it a step per conjunct the action can disturb;
`InitIInv`, `NextKeepsIInv` and `IInvHolds` put them together.

**Assumptions**, all named in the modules and evaluated by TLC: the widths are
positive (`WidthAssumption`); `TimeMax = 2^TimeBits - 1`; the categories and the
workspace relation are functions; a resolved repository is no unresolved outcome;
`None` is no value; the configured `MaxBackoff` is at most half the range of time
(`LifecycleAssumption`), which makes the capped shift invisible: an attempt whose shift
is cut off has a backoff above the maximum already. `PowerAssumption` states two facts
of arithmetic (`2^n` is a natural number and grows with `n`) for the exponents that
occur: the provers derive nothing about powers without induction.

### SchedulerProofs

For every number of issues, workers and states, every limit and every configuration:

| Theorem | Statement |
|---|---|
| `SchedulerInvariant` | `Spec => []IInv` |
| `CountsStayExact` | `Spec => []Consistent`: the types, and the cached counts of every state |
| `AcknowledgedStopHolds` | `Spec => []AcknowledgedMeansStopped` |
| `OrphansWereReported` | `Spec => []OrphanWasReported`, if `LaunchesSucceed` |
| `RunsWithinCapacity` | `Spec => []CapacityBound`, if `LaunchesSucceed` |
| `ReceiptsAreOfFinishedIssues` | `Spec => []ReceiptMeansFinished`, if `"ReadLease" \notin Failing` |
| `RetriesAreDurable` | `Spec => []RetryIsDurable`, if `StopsSucceed` |
| `KeptUpdatesAreCurrent` | `Spec => []PendingUpdateIsCurrent`, if `StopsSucceed` |
| `OverlapsWereReported` | `Spec => []OverlapWasReported`, if `NothingLost` |

**What they say of harness runs.** A run that goes on is *watched* (`running`: its worker has not reported),
*given up* (`detached`) or *left behind* (`unstopped`: reported as over while it goes on). The scheduler
knows nothing of the last kind, so nothing bounds how many there are, and the theorems say so: `OrphansWereReported`
that a watched run always has an owner, `RunsWithinCapacity` that the watched runs are within the limit,
`OverlapsWereReported` that a watched or given-up run never has another beside it that is not left behind. Since a
run is watched when it starts, the one left behind is then the older of the two.
`AcknowledgedStopHolds` has no exception: a run whose stop is acknowledged has stopped.

**The hypotheses** are about `Failing`, the awaited calls that may fail; every other call may fail
at any time. `LaunchesSucceed` takes out `StartWorker` and `LaunchTimeout`, `StopsSucceed` takes out
`AbortCall`, `PersistIntent` and `RateLimit`, `NothingLost` takes out both and `ReadLease`. Without them TLC refutes the properties, as
[the runs](#the-runs) tell: they say which errors the code does not survive, and the theorems that it
survives all others, in any combination and any number. `NothingLost` is wider than it need be in
one case: a `StartWorker` that fails is harmless to `OverlapWasReported` unless another call fails
while it is settled, which only TLC checks (`SchedulerFailures`).

**The inductive invariant** `IInv` has ten parts. A handler of the tick takes a record out of the map,
awaits, and puts it back or loses it; the parts say what is then still true of the pieces.

| Part | Says | Carries |
|---|---|---|
| `MapsOK`, `WorldOK`, `KeptOK`, `TickOK` | the types of the maps, the world, what is kept between ticks and the tick's locals; a record in the map is never a claim; a task was given a run of its own number | the types; the counts are exact because every `Put` moves them by the one record it stores |
| `TodoOK` | what a phase has left to handle is there to be handled | a stall is handled on a running record |
| `LaunchesOK` | a claim is in nobody's map but the launches of the tick, with a number that was handed out | no record is written over while its launch is out |
| `RunsOK` | a record, kept or not, whose stop is acknowledged has a run that stopped; a claim that was not started has none | `AcknowledgedMeansStopped`: a new run takes a fresh number and no old acknowledgement |
| `ReceiptsKept` | a receipt's record is still in the map | `ReceiptMeansFinished` |
| `SlotsOK` | the workers known and the claims take at most `MaxConcurrent` slots (`Occupied`) | `CapacityBound`: every watched run has one of them (`WatchedIsSupervised`), which is `OrphanWasReported` |
| `RetriesKept` | a queued retry is on disk or kept to be written, and one is kept only while nothing can be launched (`MayHoldRetry`) | `RetryIsDurable`: a launch comes after the flush, which ends the tick if it fails |
| `UpdatesOK` | a worker's entry leads to the run it was made for; a kept update is of the record's own run, which nobody else looks after | `PendingUpdateIsCurrent` |

None of the properties is inductive. `OrphanWasReported` needs that every launch looked at has started, so that no error drops the others;
`CapacityBound` counts records and needs the slots counted over the claims as well, since a tick may
dispatch twice; `RetryIsDurable` needs to know in which phases a marker can be owed.

`OverlapWasReported` looks across records and needs a second invariant on top of `IInv`, `OwnersOK`.
Its first part, `Owned`, gives every run that is watched or given up one owner in its issue (one that is left
behind has none): the claim it was started for until the launch is recorded (`Launching`), then the record that
runs it, or that was released with the outcome by which its worker gave it up (`Holds`). Two runs of
one issue would have the same owner, and an owner names one worker. The other parts say why an
owner is never let go of too early: a record whose stop is acknowledged has a run that no longer goes
on, detached runs included (`Confirmed`); an outcome in the inbox or kept with its record says the
run was given up whenever it is `detached`, so that the record is released at once, without asking the
tracker, with a last outcome that `terminal_worker_outcome_prevents_reopen` respects (`Reported`,
`GivenUpReleases`). Each step is then a matter of what it puts in place of the record it takes
out: `Carried` says that the new record holds the runs of the old one that still go on.

The argument: `IssueExecutionLemmas` says what the operations of a record return, `SchedulerProofs`
first what the scheduler's handlers make of one, as sets of results (`AbortWorker`, `ResolveFinished`,
`Finalised`, `Releases`, `PersistRetry`), then what storing, removing and settling a record does to
each part of the invariant; a lemma per action puts them together (`NextKeepsIInv`). TLC found the parts of
`IInv` to hold with one issue, two workers and every call failing (2.95 million states) and with
two issues and two workers (2.61 million) before they were proved, and the parts of `OwnersOK` with one
issue, two workers and every call failing that `NothingLost` lets fail (767 thousand states), and with
three workers (448 thousand). The assumptions are on the
inputs: `SchedulerAssumption`, and `InputAssumption` (a harness opens conversations, every issue
has a place for a workspace, `None` is no value of the maps).

### ParentAttemptsProofs

For every number of attempts, target versions and faults:

| Theorem | Statement |
|---|---|
| `AttemptsInvariant` | `Spec => []IInv` |
| `TypeCorrect` | `Spec => []TypeOK` |
| `CompletedVerified` | `Spec => []CompletedOnVerifiedTargets` |
| `VerificationAlone` | `Spec => VerificationStartsAlone` |
| `Implements` | `Spec => KeepsPromise`: the controller implements `VerifiedParent` |

**The inductive invariant** `IInv` says three things beside the types. `Sound(c, h)` holds of the
copy in memory *and* of the one on disk, because a crash makes the second the first: only the
newest attempt runs and it runs on the present targets; an attached harness that may be alive
is not recorded as stopped; a passed attempt has stopped; a completed controller has its
evidence. `SameDecisions` is what makes the restart a stutter of `VerifiedParent`: the
copies may differ in what an attempt has shown, never in the state, the targets, the
counter or in what passed. And a running attempt in memory is the one the execution holds, so
no other can be announced beside it.

The argument: lemmas say what each operation of the controller makes of a sound copy
(`SoundOnward`, `SoundReplaced`, `SoundIntent`, `FinishedSound`, `DecidedResult`, `ReleasedResult`,
`SoundRestarted`); `WriteKeeps` and `NoteKeeps` carry that to the two copies, whichever of them
the write reached; one lemma per action puts them together. `StepPromised` maps a step that
starts from the invariant to a step or a stutter of `VerifiedParent`. TLC found the invariant
to hold on the instance of the run before it was proved. The only assumption is that the
bounds are natural numbers and there is a target (`BoundsAssumption`).

### ParentRepairProofs

For every number of commits, reviews, objections, events of others and faults, all safety
properties of `ParentRepair`:

| Theorem | Statement |
|---|---|
| `RecordDescribesWorld` | `Spec => []IInv` |
| `TypeCorrect` | `Spec => []TypeOK` |
| `OpensOnePullRequest` | `Spec => []OnePullRequest` |
| `TriggersOncePerHead` | `Spec => []OneTriggerPerHead` |
| `MergesVettedHead` | `Spec => []MergedHeadWasVetted` |
| `MergeIsNeverForgotten` | `Spec => []MergeLeavesItsIntent` |
| `CompletesOnlyWhenMerged` | `Spec => []CompletedMeansMerged` |

**The inductive invariant** `IInv` is about what the daemon cannot ask again. `Sound(r, w)` relates a
record to the world it describes: a posted trigger is receipted, or its request is pending and the
comment is behind the cursor (`TriggerIsKnown`); the daemon's own merge has its intent or its outcome,
and as long as it has the intent the status is one from which only a reconciliation leads on
(`OwnMergeIsKnown`); what awaits its merge was vetted, and what is refreshed was merged
(`MergeIsSound`). It holds of the copy in memory, of the one on disk and of every record written on
the way from one external write to the next, because a failed write or a crash may make any of them
the next start: `SoundRecords(World)` is the set of them. `WorldOK` says what the provider's side
adds up to, `CallOK` what the daemon knows at each external write.

None of the properties is inductive. `OneTriggerPerHead` needs the cursor to stay where it was when
the request was decided: the mutant `LookedForReviewAgain` moves it. `MergedHeadWasVetted` needs what
`AwaitingMerge` stands for, `CompletedMeansMerged` that a merge by somebody else which still satisfies
the policy is the merge of an approved head, `MergeLeavesItsIntent` that no push supersedes the intent
after the merge.

The argument: lemmas say what each operation of the record returns (`KeyedDoes`, `IntendDoes`,
`ReceiptDoes`, ...) and what keeps a record sound (`BlockedIsSound`, `FreeIsSound`, `MergedIsSound`,
...); `ReconcileIsSound` does so for whatever snapshot is true of the world, `RecordPushIsSound` and
`RecordPullRequestIsSound` for the receipts. `WrittenKeeps`, `ConcludedKeeps` and `CallFailsKeeps` carry
a set of records through a sequence of writes that may stop anywhere. `SoundWhenMoved` and
`SoundWhenTriggered` do the same for a step of the world. A lemma per action puts them together. TLC
found `IInv` to hold on the instance of the run (1,349,074 states) before it was proved. The only
assumption is that the bounds are natural numbers (`ParentRepairAssumption`).

### HierarchyProofs

For every tree of issues, every order of the tracker and any number of scope changes, runs and
faults, the six properties of `Hierarchy` that its runs check:

| Theorem | Statement |
|---|---|
| `Invariance` | `Spec => []IInv` |
| `TypeCorrect` | `Spec => []TypeOK` |
| `FenceKept` | `Spec => []FenceCoversRun` |
| `FenceRestorable` | `Spec => []FenceSurvivesCrash` |
| `StartsFresh` | `Spec => FreshWhenStarted` |
| `StartsApart` | `Spec => NoStartBelowRun` |
| `CheckoutsKept` | `Spec => RunningParentKeepsItsCheckouts` |

**The inductive invariant.** A fence alone is not inductive: it is lost to whoever may take the parent
for one that does not run, so the invariant ties the fences to the executions and these to the runs.

| Part | Says | Carries |
|---|---|---|
| `Typed` | the types, with both copies of the durable state in `States`: dispatch marks of the present generation or none, a controller no newer than its snapshot | the types |
| `RunKnown` | a run that is alive is supervised, or launched and not yet recorded, or about to be recovered | `FenceCoversRun`: no live run is outside the daemon's hands |
| `ClaimKnown` | a claim belongs to the present dispatch pass, or its launch waits to be recorded | that outside a pass nothing is claimed (`NoClaims`) |
| `FenceKnown` | in memory a running parent is frozen with a fence (`Bound`), a claimed one frozen with an intent (`Announced`); on disk either has an intent or a fence (`Backed`), and so has one to be recovered | `FenceCoversRun`, `FenceSurvivesCrash` |
| `MergeKnown` | no merge is of a run that was not started | that `MergeFresh` means merged as of the last run |
| `FreshKnown` | each leaf a claimed parent requires is merged as of its last run, as the controller says, and cannot be claimed in this pass | `FreshWhenStarted` |

The last two theorems need `AllInv`, which adds to `IInv`

| Part | Says | Carries |
|---|---|---|
| `HoldInv` | only a finished parent is cleaned up (`Fit`), one that is cleaned up has no run, on disk neither; the children of a claimed parent do not run and are not about to | `CheckoutsKept`: cleaning up one parent releases nothing of a run, and a launch rebinds no lease a running child holds |
| `ClearInv` | while launches are prepared, no parent above a prepared one runs and holds a checkout | `StartsApart`: the question asked when a candidate was prepared has the same answer when its worker starts |

`frozen` is the part of `FenceKnown` that is easy to miss. A changed scope moves the launch of the old generation to
`in_flight_generation` only in a frozen snapshot (`ReconcileScopeGood`), and only a snapshot that is not
frozen is forgotten (`ForgetParentKeeps`); a recovered parent has in addition to be `Flying`, since the
reconciliation of the bootstrap takes place while nothing counts as running, and `Reactivated` spares a parent
without a run only if its launch is in flight.

**The argument.** What an operation makes of one snapshot comes first (`MarkDispatchedGood`, `RestoreFenceGood`, ...),
then of a state: `Edit` replaces one parent, `SameTree` is what the operations on leases leave alone. A pass over the
parents in tracker order is a recursive function over a prefix of `IssueOrder`. The induction theorems of the library
are not available to the installed provers, so `Iterates` and `RunEnds` get a fixed number of steps from a smallest counterexample
(`Least`, from the well-foundedness of `<`): whatever set of states each step stays in, the pass stays in
(`ReconciledIn`, `ReleasedIn`, `ResumedIn`). `Keeps` says what a reconciliation may do to a fence. `QuietStep`,
`DispatchStep` and `RecordStep` reduce the actions of one phase to what they change, and each action has its lemma.
The recovery is `RecoverStep`: restored fences are in flight, both reconciliations keep those, the controllers
do not touch them, and what the announced launches become is `Bound`.

For the checkouts, what is below a parent is a function of the children alone (`Reached`, `SameSubtrees`), so an operation
on leases leaves it as it was. Each operation on leases has a lemma that says whose hold it keeps
(`DropKeepsHold`, `UndispatchedKeepsHold`, `ResourcesKeepHold`, `RebindKeepsHold`, ...) and one that says it
gives nobody a lease who had none (`DropNoGain`, ...), from which `ClearInv` survives the rest of a pass
(`PassKeepsClear`). A reconciliation is followed parent by parent: with the tree unchanged it can only release below
a closed parent that has no fence, or prune what a parent without leaves holds (`Spared`, `Follows`). `ReachedNothing`, that no
root reaches nothing, is by induction over the steps of the walk, whose number is finite because the tracker's order lists
every parent (`ParentsFinite`). `NextKeepsHold` puts the actions together. TLC
found the parts of `AllInv` to hold on the instance of `HierarchyNested` without faults before they were proved.

Assumptions: parents and leaves are disjoint, the tree and the order of the tracker are of these issues, the bound on
runs is a number (`HierarchyAssumption`); nothing is assumed of the shape of the tree, which may be cyclic.

### AcpSessionProofs

For every number of runs, claims and grants, for a leaf or a parent, and whichever of the failures
occur, all safety properties of `AcpSession`:

| Theorem | Statement |
|---|---|
| `AcpInvariant` | `Spec => []IInv` |
| `AcpTypes` | `Spec => []TypeOK` |
| `OnlyOneAgent` | `Spec => []OneAgent` |
| `OnlyOneUnsettledPrompt` | `Spec => []OneUnsettledPrompt` |
| `EveryPromptHasContext` | `Spec => ContinuationHasContext` |
| `ReportedOutcomeIsTrue` | `Spec => []OutcomeIsTrue` |
| `ParentKeepsItsSession` | `Spec => []ParentKeepsSession` |

**The inductive invariant** `IInv` has eleven named parts, since no property is inductive by
itself: each speaks of one moment, and what makes it true is what is on disk when the daemon
dies at that moment.

| Part | Says | Carries |
|---|---|---|
| `WorkerOK` | what a worker and an owner hold where they stand, and that their numbers were given out | the types |
| `AgentInv` | an agent that may be alive is the one on record, not recorded as stopped; a record is archived only without one | `OneAgent`: a claim needs the last process to be proved gone |
| `RunInv`, `PendInv` | a run that may still send has not sent; a prompt is on record before it goes out | at most once |
| `FenceInv` | an unanswered prompt fences the record, on disk and in memory | none beside it, also after a restart |
| `ContextInv` | a seeded record names a session that saw the full prompt, and nothing is sent without it but on such a record | `ContinuationHasContext` |
| `ParentInv` | the session reported to a parent's attempt is already on record | `ParentKeepsSession` |
| `TaskInv`, `QuietInv`, `OutcomeInv` | what an agent works on is unanswered; a run reported as stopped has its prompt cancelled before it is sent; what was heard is true | `OutcomeIsTrue` |

Two of them are easy to miss. A recovered run is the same run, so its prompt may be out: it
reaches an owner only if the record, which the restart found, does not settle it (`OpensUnsent`). And
an acknowledged stop can come before the owner has sent the prompt: that the owner looks for the
cancellation after it has written the marker is what keeps `QuietInv` (`Transmit` in `QuietKept`).

The argument: a lemma per action says field by field what it does (`ClaimDoes`, ...), so that the
later proofs need no definition of an action; a lemma per part of the invariant has a step per
action (`AgentKept`, `FenceKept`, ...); `InitIInv` and `NextKeepsIInv` put them together. TLC found
`IInv` to hold on the instance of the run before it was proved. Assumptions: the bounds are natural
numbers, the failures are known ones and `None` is no number (`AcpAssumption`), nor a record, a prompt
or a stop (`NoneAssumption`).

### HarnessSessionProofs

For logs of any length and any number of closed sockets, crashes and attempts, what
`RuntimeEventStream` promises and what the reports of `IssueSessionRunner` are worth. The
hypotheses on the failures are those a reader needs to know, and are told below:

| Theorem | Statement |
|---|---|
| `StreamInvariant` | `Spec => []IInv` |
| `DeliversOnce` | `Spec => []StreamDeliversOnce` |
| `MissesNothing` | `Spec => []("Tight" \notin Failing => StreamMissesNothing)` |
| `TypeCorrect` | `Spec => []TypeOK` |
| `FreshReports` | `Spec => [](Histories \subseteq {"fresh"} => FreshReportsAreTrue)` |
| `SuccessReports` | `Spec => [](Failing \subseteq {"Drop", "Crash"} => SuccessIsTrue)` |
| `FailureReports` | `Spec => [](Failing \subseteq {"Drop", "Late", "Crash"} => FailureIsOwn)` |
| `SuccessSeesErrors` | `Spec => ErrorIsSeen`, if `Failing \subseteq {"Drop", "Late", "Crash"}` and `MaxCrashes <= 1` |

**The stream.** Its inductive invariant `IInv` has three parts beside the type of the log. `StreamDeliversOnce`: every
way into the queue goes through the cache, which tells what is new, and nothing leaves the queue but
to the caller. `StreamMissesNothing` holds once a (re)connection came to its end; it is inductive
only with `DialInv`, which says that a connection being made has an attempt counted, so that the
one step that declares the stream settled is the search, with the socket open before it: what the
search does not bring is on the socket. That is the mutant `DialNextEarly`, in which the socket is
opened after the search and what is written between the two is in neither. Lemmas say what a step
of the server and a push make of the sets (`PublishKeeps`, `PushKeeps`); a lemma per group of
actions has a step per action, and the runner's steps that touch no event are `Quiet`. The only
assumption is `HarnessAssumption`, here and below.

**Types** (`TypeInv`). That `LastOf` and `StatusOf`, which choose the newest event of a set, give
an event of it rests on a set of naturals having a least element (`Least`, from the well-foundedness
of `<`), so that one with an upper bound has a greatest (`Greatest`). One conjunct of `TypeOK` needs more
than types: `runs` is bounded because a run request is accepted at most once between two
crashes (`RunTypes`).

**A fresh conversation** (`FreshInv`). Whatever fails, a terminal status the runner knows of, in the
conversation it fetched, the readiness barrier or the mirror, was written by a turn of this prompt,
since there is no other; and one turn writes one terminal status. No more is needed, so no failure is excluded.

**A used conversation.** There an earlier turn has left a `finished` in the log, and what the runner
knows must be recent. `HeldInv` says that it is, when no request fails and no deadline cuts a
reconnection or a read: the cache is a prefix of the log (`PrefixOK`), and the mirror shows the
newest update in it (`MirrorOK`), although `Rebuilt` puts it together from a conversation, a cache and
a barrier fetched at different times (`RebuiltLatest`). `ServerInv` says what the log looks like: a
turn that is announced is the newest update, and after the first accepted request every update is
of this prompt. Then

* a success is decided in the drain when the socket is up and nothing is on it or queued, so the cache is the
  whole log, its newest update is `finished`, and no error is outside the baseline
  (`ConfirmInv`, `SuccessStep`): with `ServerInv` that is `SuccessIsTrue`;
* while the runner waits for an earlier turn it holds that turn's `running` (`WaitInv`), and any update
  above it comes after the turn's last event (`SettledBy`). A wait ends when such an update is at
  hand, and since the cache is a prefix, so are all errors of the turn, which the end of the wait puts in the
  baseline (`WaitOver`, `HeardInv`). A turn that has not been announced by then is
  announced after the prompt, the exception `FailureIsOwn` makes;
* the baseline is fixed before the turn can write an error: by the cache before the run request or, in
  a recovery, by the marker saved when the request was accepted (`SeenInv`). The first recovery
  moves the marker, which is why a second one may lose an error.

The hypotheses are sharp as far as TLC can tell, on the instance of `HarnessReuse` with one
failure added: each of `Socket`, `Rest`, `Poll`, `Tight` and `Late` refutes `SuccessIsTrue`; `Rest` and
`Tight` refute `FailureIsOwn`; `Socket`, `Rest`, `Poll` and `Tight`, or a second crash, refute
`ErrorIsSeen`. `FailureIsOwn` was found to hold with `Socket` or `Poll` too, which is not proved. TLC found the parts
of the invariants to hold on that instance, with `Late` as well, before they were proved.

### Only model-checked

Liveness under fairness, which the proof system does not cover: `FinishedIsApplied`,
`RetryIsDispatched` and `TerminalIssueIsStopped` of `Scheduler`, `CancelledRunEnds` of `AcpSession`, `TurnEnds` of
`HarnessSession`. Every other property of a run is a theorem.

## Not modelled

* The composition of the parent modules with each other and with `Scheduler` as one state machine:
  each models the others by what they may do at any time, which covers their interleavings
  and not a property across all of them.
* Of parents: retry exhaustion, retained failed workspaces, per-state limits (modelled for leaf
  issues), diagnostic leases and lease expiry, named resources other than the foreground process,
  several repositories per leaf, repairs of several repositories at once.
* Runs of parents and of the leaves below them that go on after their worker reported `Failed` or `Stalled`:
  in `Hierarchy` a run that is reported has ended (`live` counts the runs without a report), so its properties
  speak of watched runs and of those a stop or a crash left; what the scheduler does about the others is in
  `Scheduler`, for leaf issues.
* Steps taken together. `CleanUp` of `Hierarchy` is one step where
  `reconcile_parent_subtree_cleanup` writes several times; `Snapshot` of `ParentRepair` is one look at the provider
  where the backend makes several requests, so a pull request that changes between two of them is not there.
* Keys and clauses. `Block` of `ParentRepair` has one key for each status it sets, where the code has one for
  each reason (parent_integration.rs:1837-1851, 1884-1903); `CanCancel` of `ParentAttempts` leaves out the
  clauses on unreconciled provider operations and on a missing conversation
  (parent_integration.rs:2275-2293), so the model cancels in more states than the code.
* Of the recovery of parents: that the record of a refused stop is kept and the stop asked for again
  at the next tick, which `Release` does to the running execution; and that a daemon which comes up while
  the tracker is in its cooldown reconciles first in the tick after it (scheduler.rs:2536-2545, 2607).
* Repository rebinding (`supersede_binding`), blockers and dependency order, dry runs,
  operator questions and answers. Runtime events reach `IssueLifecycle` and `ParentAttempts`; the
  scheduler model has only their last one, the outcome.
* The restart of leaf issues: the durable retry record is modelled because it constrains the
  order of steps; the bootstrap that reads it is not.
* Of ACP sessions: operator questions and the callbacks an agent makes (files, terminals), outbound
  operations, the event projection, the capacity of the host, model selection, records of earlier
  versions, Windows job objects, and a `run.json` that cannot be written.
* Of OpenHands sessions: creating, retiring and rehydrating a conversation, interrupts and their
  acknowledgement, recovery from context overflow and the condenser, token counts, the attachment
  with recent events only, a crash before the trigger marker is written, failing manifest writes.
  The agent server is not in the repository: it is modelled as the code uses it.
* The Codex protocol: what the scheduler sees of it is a launch, events, an outcome, an error or a
  timeout.
* Tracker requests, the event journal, the gateway and the control plane: the scheduler
  never reads back what it publishes, and takes actions and replies as inputs.
* Snapshots, logs, token counts, file formats: no transition reads them.
* User interfaces, planning, memory and code intelligence: sequential or presentational.

## The plan

Done: `IssueExecution`, `IssueLifecycle` (proved), `Scheduler` (proved), `Hierarchy` (proved), `ParentAttempts` with
`VerifiedParent` (proved), `ParentRepair` (proved), `AcpSession` (proved), `HarnessSession` (proved). What would add most next, in this order:

| Module | Of | To state |
|---|---|---|
| `SupervisedRuns` | abstract: an issue has at most one supervised run, which starts, may be asked to stop, and ends once | `Scheduler` implements it, with `OwnersOK` as the relation between the two |
| `Recovery` | bootstrap of leaf issues on the durable markers | a crash at any step loses no retry and starts no second run |
| `OperatorQuestions` | questions of an agent and their answers | an answer and an expiry do not both win |
| `EventJournal` | journal partitions and the client's replay | replay implements an abstract log or reports a gap |
| `GatewayActions` | idempotent actions and their audit | an action is applied once |
