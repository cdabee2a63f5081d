--------------------------- MODULE ParentAttempts ---------------------------
(* The verification attempts of one parent integration controller             *)
(* (crates/opensymphony-orchestrator/src/parent_integration.rs) and the       *)
(* scheduler around them: a launch is announced by a durable intent, the      *)
(* harness is started, its conversation attached, its commands observed, its  *)
(* outcome recorded, and the next turn is let in once the last one is clean.  *)
(* The scheduler's memory (mem) and the written state (disk) are kept apart:  *)
(* a write can fail and the daemon can die between any two steps.             *)
(*                                                                            *)
(* Simplifications. The controller is an admitted one: admission and leases   *)
(* are those of Hierarchy. The commits of all targets are one number. The     *)
(* publication of a repair (ParentRepair) is the one state "Publishing", a    *)
(* turn that implements it the state "Fixing". The receipts of the commands   *)
(* of an attempt are the set of their exit codes, 1 standing for every        *)
(* failure; named resources other than the foreground process are allocated   *)
(* by no caller. Dropping the oldest of MAX_ATTEMPTS receipts is left out:    *)
(* a dropped one is clean.                                                    *)
EXTENDS Integers

CONSTANTS
    MaxAttempts,    \* bound: turns started
    MaxTargets,     \* bound: versions of the target commits
    MaxFaults       \* bound: crashes and failed writes

ASSUME BoundsAssumption ==
    /\ MaxAttempts \in Nat
    /\ MaxTargets \in Nat \ {0}
    /\ MaxFaults \in Nat

None == -1
Attempts == 1..MaxAttempts
Targets == 1..MaxTargets
Statuses == {"none", "Running", "Passed", "Failed", "TimedOut", "Canceled", "Indeterminate"}
States == {"Preparing", "Refreshing", "Integrating", "Fixing", "Publishing", "Completed",
           "Canceled"}

Attempt ==
    [status : Statuses,
     conversation : BOOLEAN,            \* attached
     open : BOOLEAN,                    \* a foreground process is held
     exits : SUBSET {0, 1},             \* of the commands that finished
     exit : {None, 0, 1},
     cleanup : {"none", "Pending", "Succeeded"},
     stopped : BOOLEAN,                 \* harness_stopped_at is set
     input : Targets,
     verified : Targets \union {None}]

Controller ==
    [state : States,
     target : Targets,
     attempts : [Attempts -> Attempt],
     sequence : 0..MaxAttempts,
     baseline : (0..MaxAttempts) \union {None},     \* the sequence at the last baseline
     evidence : Targets \union {None}]

VARIABLES
    mem,        \* the controller the scheduler works with
    disk,       \* the controller last written
    run,        \* the attempt whose worker the execution holds, 0 for none
    harness,    \* [Attempts -> {"none", "live", "gone"}]: what is really running
    faults

vars == <<mem, disk, run, harness, faults>>

NotStarted ==
    [status |-> "none", conversation |-> FALSE, open |-> FALSE, exits |-> {}, exit |-> None,
     cleanup |-> "none", stopped |-> FALSE, input |-> 1, verified |-> None]

Init ==
    /\ mem = [state |-> "Preparing", target |-> 1, attempts |-> [a \in Attempts |-> NotStarted],
              sequence |-> 0, baseline |-> None, evidence |-> None]
    /\ disk = mem
    /\ run = 0
    /\ harness = [a \in Attempts |-> "none"]
    /\ faults = 0

-----------------------------------------------------------------------------
(* The controller. *)

(* Wrong on purpose: a completed controller is not taken for a terminal one.   *)
TerminalCanceled(c) == c.state = "Canceled"

Terminal(c) == c.state \in {"Completed", "Canceled"}

Started(c) == 1..c.sequence

(* attempt_mut: the controller with another receipt for one attempt. *)
SetAttempt(c, a, at) == [c EXCEPT !.attempts = [c.attempts EXCEPT ![a] = at]]

IsRunning(c, a) == a \in Started(c) /\ c.attempts[a].status = "Running"

Current(c) == {a \in Attempts : IsRunning(c, a)}

Clean(at) == at.cleanup = "Succeeded" /\ ~at.open

CleanupComplete(c) ==
    \A a \in Started(c) : c.attempts[a].status # "Running" /\ Clean(c.attempts[a])

(* Wrong on purpose: an attempt whose end is unknown is not looked at.         *)
HasFailedHarness(c) ==
    \E a \in Started(c) :
        /\ c.attempts[a].conversation
        /\ ~c.attempts[a].stopped
        /\ c.attempts[a].status \in {"Running", "Failed", "TimedOut"}

HasUnreconciledHarness(c) ==
    \E a \in Started(c) :
        /\ c.attempts[a].conversation
        /\ ~c.attempts[a].stopped
        /\ c.attempts[a].status \in {"Running", "Failed", "TimedOut", "Indeterminate"}

CanCancelWithoutHarness(c) ==
    \A a \in Started(c) :
        /\ c.attempts[a].status # "Running"
        /\ Clean(c.attempts[a])
        /\ c.attempts[a].conversation => c.attempts[a].stopped

(* record_workspace_prepared and record_baseline_verified: the same baseline  *)
(* again is a replay, any other is refused while the controller integrates.   *)
CanTakeBaseline(c, t) ==
    /\ CleanupComplete(c)
    /\ \/ c.state \in {"Preparing", "Refreshing"}
       \/ c.state = "Integrating" /\ c.baseline = c.sequence /\ c.target = t

WithBaseline(c, t) ==
    [c EXCEPT !.state = "Integrating", !.target = t, !.baseline = c.sequence]

CanStartAttempt(c) ==
    /\ c.state \in {"Integrating", "Fixing"}
    /\ CleanupComplete(c)

WithIntent(c) ==
    SetAttempt([c EXCEPT !.sequence = c.sequence + 1], c.sequence + 1,
               [NotStarted EXCEPT !.status = "Running", !.input = c.target])

CommandStarted(at) == [at EXCEPT !.open = TRUE, !.exit = None, !.cleanup = "Pending"]

CommandFinished(at, code) ==
    [at EXCEPT !.open = FALSE, !.exits = at.exits \union {code}, !.exit = code,
               !.cleanup = "Succeeded"]

HarnessStopped(at) == [at EXCEPT !.open = FALSE, !.stopped = TRUE, !.cleanup = "Succeeded"]

(* The receipt names the commits and one of the completed commands. *)
WithEvidence(at, code, target) == [at EXCEPT !.exit = code, !.verified = target]

EvidencePasses(at, code) == code = 0 /\ Clean(at)

CanPrepareRetry(c) == c.state = "Integrating"
PrepareRetry(c) == [c EXCEPT !.state = "Refreshing"]

(* complete(): the passed attempt must have seen what the targets are now. *)
CanComplete(c, a) ==
    /\ c.state = "Integrating"
    /\ c.attempts[a].status = "Passed"
    /\ c.attempts[a].input = c.target
    /\ c.attempts[a].exit = 0
    /\ c.attempts[a].cleanup = "Succeeded"
    /\ c.attempts[a].verified = c.target

Complete(c) == [c EXCEPT !.state = "Completed", !.evidence = c.target]
Cancel(c) == [c EXCEPT !.state = "Canceled"]

(* reconcile_restart and reconcile_terminal_run_after_restart, with what the  *)
(* run manifest of the workspace says of the attempt. An attempt that is not  *)
(* known to have touched anything is given up whatever the manifest says.     *)
Untouched(at) == ~at.conversation /\ ~at.open /\ at.exits = {}

Interrupted(at, manifest) ==
    IF Untouched(at) /\ manifest # "terminal"
    THEN [at EXCEPT !.status = "Indeterminate", !.cleanup = "Succeeded"]
    ELSE IF manifest = "terminal"
    THEN [at EXCEPT !.status = "Indeterminate", !.stopped = TRUE,
                    !.cleanup = IF at.open THEN "Pending" ELSE "Succeeded"]
    ELSE [at EXCEPT !.status = "Indeterminate", !.cleanup = "Pending"]

Keeps(at, manifest) == manifest = "running" /\ ~Untouched(at)

Restarted(c, manifest) ==
    IF \A a \in Current(c) : Keeps(c.attempts[a], manifest)
    THEN c
    ELSE [c EXCEPT !.attempts = [a \in Attempts |->
                       IF a \in Current(c) THEN Interrupted(c.attempts[a], manifest)
                                           ELSE c.attempts[a]],
                   !.state = IF c.state = "Integrating" THEN "Refreshing" ELSE c.state]

-----------------------------------------------------------------------------
(* The scheduler. *)

(* persist_orchestrator_state with its rollback: both copies take the change, *)
(* or neither does.                                                           *)
Write(c) ==
    \/ /\ mem' = c
       /\ disk' = c
       /\ faults' = faults
    \/ /\ faults < MaxFaults
       /\ faults' = faults + 1
       /\ UNCHANGED <<mem, disk>>

(* What is only noted in memory, to be written at the end of the tick. *)
Note(c) == mem' = c /\ UNCHANGED <<disk, faults>>

(* dispatch_ready_issues: the workspace was prepared with these targets. *)
PrepareWorkspace ==
    /\ run = 0
    /\ mem.state # "Fixing"
    /\ ~HasUnreconciledHarness(mem)
    /\ \E t \in Targets :
          /\ CanTakeBaseline(mem, t)
          /\ Write(WithBaseline(mem, t))
    /\ UNCHANGED <<run, harness>>

(* dispatch_ready_issues: start_attempt_intent, before the workers start. The *)
(* turn of a repair comes here past parent_dispatch_is_eligible.              *)
AnnounceAttempt ==
    /\ run = 0
    /\ mem.sequence < MaxAttempts
    /\ CanStartAttempt(mem)
    /\ mem.state = "Integrating" =>
          ~HasUnreconciledHarness(mem) /\ mem.baseline = mem.sequence
    /\ Write(WithIntent(mem))
    /\ run' = IF mem'.sequence = mem.sequence THEN 0 ELSE mem'.sequence
    /\ UNCHANGED harness

(* start_workers, within the same pass. *)
StartHarness(a) ==
    /\ run = a
    /\ IsRunning(mem, a)
    /\ ~mem.attempts[a].conversation
    /\ harness[a] = "none"
    /\ harness' = [harness EXCEPT ![a] = "live"]
    /\ UNCHANGED <<mem, disk, run, faults>>

(* The launch is recorded, and mark_dispatched written; when the write fails  *)
(* the memory keeps what it knows.                                            *)
AttachConversation(a) ==
    LET attached == SetAttempt(mem, a, [mem.attempts[a] EXCEPT !.conversation = TRUE]) IN
    /\ run = a
    /\ IsRunning(mem, a)
    /\ ~mem.attempts[a].conversation
    /\ harness[a] # "none"
    /\ mem' = attached
    /\ \/ disk' = attached /\ faults' = faults
       \/ faults < MaxFaults /\ faults' = faults + 1 /\ UNCHANGED disk
    /\ UNCHANGED <<run, harness>>

(* apply_worker_updates: a runtime event of the running attempt. *)
ObserveCommand(a) ==
    /\ run = a
    /\ IsRunning(mem, a)
    /\ mem.attempts[a].conversation
    /\ \/ /\ ~mem.attempts[a].open
          /\ Note(SetAttempt(mem, a, CommandStarted(mem.attempts[a])))
       \/ /\ mem.attempts[a].open
          /\ \E code \in {0, 1} :
                Note(SetAttempt(mem, a, CommandFinished(mem.attempts[a], code)))
    /\ UNCHANGED <<run, harness>>

Flush ==
    /\ disk # mem
    /\ disk' = mem
    /\ UNCHANGED <<mem, run, harness, faults>>

Categories == {"Active", "Inactive", "Terminal"}

(* What the worker reports: how the turn ended, the exit code of the command  *)
(* its receipt names, and why it wants a repair or was interrupted. stop says *)
(* how the stop of the harness is known: the worker has "seen" it, the        *)
(* harness has "acknowledged" an interrupt, or it is "unknown". late: the     *)
(* deadline of the attempt had passed, and the receipt is not looked at.      *)
(* category: of the issue in the tracker, as the last refresh found it.       *)
Outcomes ==
    {o \in [kind : {"Succeeded", "Failed", "TimedOut", "Cancelled", "Detached"},
            stop : {"seen", "acknowledged", "unknown"}, code : {None, 0, 1},
            why : {"", "repair", "merging", "operator"}, late : BOOLEAN,
            category : Categories] :
        /\ o.why = "repair" => o.code # None /\ o.kind = "Failed"
        /\ o.why \in {"merging", "operator"} => o.kind = "Cancelled"
        /\ o.late => o.kind = "Succeeded" /\ o.code = None}

(* A harness that never started has nothing to show, and a receipt names a    *)
(* command that finished.                                                     *)
CanReport(o, a) ==
    /\ o.code # None => o.code \in mem.attempts[a].exits
    /\ harness[a] = "none" => o.kind = "Failed" /\ o.stop = "unknown"

(* The attempt as the outcome leaves it. Evidence is weighed before the stop  *)
(* the outcome brings along, and after the one an interrupt has confirmed.    *)
Weighed(at, o) ==
    LET confirmed == IF o.stop = "acknowledged" THEN HarnessStopped(at) ELSE at
    IN  IF o.code # None THEN WithEvidence(confirmed, o.code, mem.target)
                        ELSE confirmed

Passes(at, o) == o.code # None /\ EvidencePasses(Weighed(at, o), o.code)

(* enforce_parent_outcome_trust: success needs evidence, in time. *)
TrustedKind(at, o) ==
    IF o.kind # "Succeeded" \/ Passes(at, o) THEN o.kind
    ELSE IF o.late THEN "TimedOut" ELSE "Failed"

StatusOf == [Succeeded |-> "Passed", Failed |-> "Failed", TimedOut |-> "TimedOut",
             Cancelled |-> "Canceled", Detached |-> "Indeterminate"]

(* Wrong on purpose: a turn passes although nobody knows whether it stopped.   *)
StatusBeforeStop(at, o) == StatusOf[TrustedKind(at, o)]

StatusAfter(at, o) ==
    IF at.conversation /\ ~at.stopped /\ o.stop = "unknown"
    THEN "Indeterminate"
    ELSE StatusOf[TrustedKind(at, o)]

Finished(at, o) ==
    LET weighed == Weighed(at, o)
        ended == IF o.stop = "seen" THEN HarnessStopped(weighed) ELSE weighed
    IN  [ended EXCEPT !.status = StatusAfter(at, o),
                      !.cleanup = IF ended.cleanup # "none" THEN ended.cleanup
                                  ELSE IF at.conversation THEN "Pending" ELSE "Succeeded"]

WithFinished(a, o) == SetAttempt(mem, a, Finished(mem.attempts[a], o))

(* record_parent_worker_outcome: what becomes of the controller; a retry or a *)
(* completion the controller refuses leaves None of it.                       *)
Decided(a, o) ==
    LET c == WithFinished(a, o)
        status == c.attempts[a].status
        fixing == c.state = "Fixing"
        retry == IF CanPrepareRetry(c) THEN {PrepareRetry(c)} ELSE {}
    IN  IF fixing /\ o.category # "Active" THEN {Cancel(c)}
        ELSE IF status = "Passed" /\ fixing THEN {[c EXCEPT !.state = "Publishing"]}
        ELSE IF status = "Passed" /\ o.category # "Terminal" THEN {c}
        ELSE IF status = "Passed" THEN IF CanComplete(c, a) THEN {Complete(c)} ELSE {}
        ELSE IF o.why = "merging" \/ status = "Indeterminate" THEN retry
        ELSE IF status = "Canceled" /\ (o.category # "Active" \/ o.why = "operator")
             THEN {Cancel(c)}
        ELSE IF fixing THEN {c}
        ELSE IF status = "Failed" /\ o.why = "repair" THEN {[c EXCEPT !.state = "Fixing"]}
        ELSE retry

HarnessAfter(a, o) ==
    IF o.stop # "unknown" THEN [harness EXCEPT ![a] = "gone"] ELSE harness

(* A refused transition leaves the finished attempt in memory. A repair that  *)
(* is asked for is begun by a second write, and without it the controller     *)
(* stays Integrating. An outcome that cannot be written is kept for later.    *)
RecordOutcome(a) ==
    /\ run = a
    /\ IsRunning(mem, a)
    /\ harness[a] = "none" \/ mem.attempts[a].conversation
    /\ \E o \in Outcomes :
          /\ CanReport(o, a)
          /\ harness' = HarnessAfter(a, o)
          /\ \/ /\ Decided(a, o) = {}
                /\ Note(WithFinished(a, o))
                /\ run' = run
             \/ /\ \E c \in Decided(a, o) : Write(c)
                /\ run' = IF a \in Current(mem') THEN run ELSE 0
             \/ /\ \E c \in Decided(a, o) : c.state = "Fixing" /\ mem.state # "Fixing"
                /\ faults < MaxFaults
                /\ faults' = faults + 1
                /\ mem' = WithFinished(a, o)
                /\ disk' = mem'
                /\ run' = 0

(* The outcome of a run whose attempt is already settled, or that lost its    *)
(* attempt in a crash: the execution ends, and nothing is recorded. The stop  *)
(* such a run is asked for may have been confirmed or not.                    *)
FinishWithoutAttempt(a) ==
    /\ run = a
    /\ ~IsRunning(mem, a)
    /\ run' = 0
    /\ harness' \in {harness, [harness EXCEPT ![a] = IF @ = "live" THEN "gone" ELSE @]}
    /\ UNCHANGED <<mem, disk, faults>>

(* The repair was merged and its checkout refreshed, for a final verification. *)
RepairMerged ==
    /\ mem.state = "Publishing"
    /\ run = 0
    /\ \E t \in Targets \ {mem.target} :
          Write([mem EXCEPT !.state = "Refreshing", !.target = t])
    /\ UNCHANGED <<run, harness>>

(* The reviewers want changes: another turn. *)
RepairReturned ==
    /\ mem.state = "Publishing"
    /\ run = 0
    /\ Write([mem EXCEPT !.state = "Fixing"])
    /\ UNCHANGED <<run, harness>>

(* The newest attempt that passed. *)
LastPassed(c, a) ==
    /\ a \in Started(c)
    /\ c.attempts[a].status = "Passed"
    /\ \A b \in Started(c) : c.attempts[b].status = "Passed" => b <= a

(* release_issue once the tracker has taken the issue out of the active       *)
(* states; a running worker has confirmed its stop before.                    *)
Released(c, category) ==
    IF c.state = "Integrating" /\ category = "Terminal" /\ Current(c) = {}
       /\ \E a \in Attempts : LastPassed(c, a)
    THEN {Complete(c) : a \in {b \in Attempts : LastPassed(c, b) /\ CanComplete(c, b)}}
    ELSE IF Terminal(c) THEN {}
    ELSE IF Current(c) = {}
    THEN IF CanCancelWithoutHarness(c) THEN {Cancel(c)} ELSE {}
    ELSE {Cancel([c EXCEPT !.attempts = [a \in Attempts |->
                      IF a \in Current(c)
                      THEN [HarnessStopped(c.attempts[a]) EXCEPT !.status = "Canceled"]
                      ELSE c.attempts[a]]])}

ReleaseIssue ==
    /\ run # 0 => mem.attempts[run].conversation
    /\ harness' = [a \in Attempts |-> IF a = run THEN "gone" ELSE harness[a]]
    /\ \E category \in Categories \ {"Active"} :
          \/ Released(mem, category) = {} /\ Note(mem) /\ run' = 0
          \/ \E c \in Released(mem, category) : Write(c) /\ run' = IF mem' = c THEN 0 ELSE run

(* The daemon dies and comes back: bootstrap_recovery reads the state and the *)
(* run manifests. A live harness has left an in-flight manifest, or one that  *)
(* proves nothing; "terminal" is the proof that it stopped.                   *)
Manifests(c) ==
    IF \E a \in Current(c) : harness[a] = "live" THEN {"running", "none"}
                                               ELSE {"running", "terminal", "none"}

Restart ==
    /\ faults < MaxFaults
    /\ faults' = faults + 1
    /\ \E manifest \in Manifests(disk) :
          /\ mem' = Restarted(disk, manifest)
          /\ disk' = mem'
          /\ run' = IF manifest = "running" /\ disk.sequence > 0 THEN disk.sequence ELSE 0
    /\ UNCHANGED harness

(* A harness that ends before anyone asks. *)
HarnessEnds(a) ==
    /\ harness[a] = "live"
    /\ harness' = [harness EXCEPT ![a] = "gone"]
    /\ UNCHANGED <<mem, disk, run, faults>>

Next ==
    \/ PrepareWorkspace
    \/ AnnounceAttempt
    \/ \E a \in Attempts : StartHarness(a)
    \/ \E a \in Attempts : AttachConversation(a)
    \/ \E a \in Attempts : ObserveCommand(a)
    \/ Flush
    \/ \E a \in Attempts : RecordOutcome(a)
    \/ \E a \in Attempts : FinishWithoutAttempt(a)
    \/ RepairMerged
    \/ RepairReturned
    \/ ReleaseIssue
    \/ Restart
    \/ \E a \in Attempts : HarnessEnds(a)

Spec == Init /\ [][Next]_vars

-----------------------------------------------------------------------------
(* Every variable has its type, and the number of starts is that of the       *)
(* attempts in use.                                                           *)
TypeOK ==
    /\ mem \in Controller
    /\ disk \in Controller
    /\ run \in 0..MaxAttempts
    /\ harness \in [Attempts -> {"none", "live", "gone"}]
    /\ faults \in 0..MaxFaults

(* Whatever failed, crashed or was given up on the way, a parent that is      *)
(* completed has the evidence of an attempt that passed on exactly the        *)
(* targets it holds, and that attempt had its harness stopped (complete,      *)
(* record_parent_worker_outcome, release_issue).                              *)
CompletedOnVerifiedTargets ==
    mem.state = "Completed" =>
        /\ mem.evidence = mem.target
        /\ \E a \in Started(mem) :
              /\ mem.attempts[a].status = "Passed"
              /\ mem.attempts[a].verified = mem.target
              /\ harness[a] = "gone"

(* A verification turn is announced only when no harness whose conversation   *)
(* was attached can still be running, although the receipts of its commands   *)
(* may long say that it is clean (has_unreconciled_harness).                  *)
VerificationStartsAlone ==
    [][mem'.sequence > mem.sequence /\ mem.state = "Integrating" =>
          \A a \in Attempts : harness[a] = "live" => ~mem.attempts[a].conversation]_vars

(* The controller keeps the promise of VerifiedParent. *)
Phase ==
    IF mem.state = "Completed" THEN "completed"
    ELSE IF mem.state = "Canceled" THEN "canceled" ELSE "open"

VerifiedTargets ==
    {mem.attempts[a].verified : a \in {b \in Started(mem) : mem.attempts[b].status = "Passed"}}

Promise == INSTANCE VerifiedParent
               WITH phase <- Phase, target <- mem.target, verified <- VerifiedTargets

KeepsPromise == Promise!Spec

-----------------------------------------------------------------------------
(* What every copy of the controller, in memory or written, says of its       *)
(* attempts and of the harnesses h: only the newest attempt runs, on the      *)
(* present targets and not known to have stopped; a conversation belongs to a *)
(* harness that was started; one that may still be running is unreconciled; a *)
(* passed attempt has stopped.                                                *)
Sound(c, h) ==
    /\ \A a \in Attempts : IsRunning(c, a) =>
          /\ a = c.sequence
          /\ c.state \in {"Integrating", "Fixing"}
          /\ c.attempts[a].input = c.target
          /\ ~c.attempts[a].stopped
    /\ \A a \in Attempts : c.attempts[a].conversation => a \in Started(c) /\ h[a] # "none"
    /\ \A a \in Attempts : h[a] = "live" /\ c.attempts[a].conversation =>
          /\ ~c.attempts[a].stopped
          /\ c.attempts[a].status \in {"Running", "Failed", "TimedOut", "Indeterminate"}
    /\ \A a \in Started(c) : c.attempts[a].status = "Passed" => h[a] = "gone"
    /\ c.state = "Completed" =>
          /\ c.evidence = c.target
          /\ \E a \in Started(c) :
                c.attempts[a].status = "Passed" /\ c.attempts[a].verified = c.target

(* What a crash cannot take back: c and d agree on the state of the           *)
(* controller, on its targets and on what has passed on them.                 *)
SameDecisions(c, d) ==
    /\ c.state = d.state
    /\ c.target = d.target
    /\ c.sequence = d.sequence
    /\ \A a \in Attempts : c.attempts[a].status = "Passed" <=> d.attempts[a].status = "Passed"
    /\ \A a \in Attempts : c.attempts[a].status = "Passed" =>
          c.attempts[a].verified = d.attempts[a].verified

(* The inductive invariant. *)
IInv ==
    /\ TypeOK
    /\ Sound(mem, harness)
    /\ Sound(disk, harness)
    /\ SameDecisions(mem, disk)
    /\ \A a \in Attempts : IsRunning(mem, a) => run = a

-----------------------------------------------------------------------------
(* What the documentation says and the code does not keep. *)

(* No turn of the parent starts while a harness it has attached may still be  *)
(* running: what was left uncertain needs explicit stopped state              *)
(* reconciliation first (docs/workspace-and-lifecycle.md).                    *)
TurnsStartAlone ==
    [][mem'.sequence > mem.sequence =>
          \A a \in Attempts : harness[a] = "live" => ~mem.attempts[a].conversation]_vars
=============================================================================
