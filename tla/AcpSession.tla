----------------------------- MODULE AcpSession -----------------------------
(* The retained ACP session of one issue: the durable conversation record,  *)
(* the owner that claims it and drives one agent process (SessionHost,      *)
(* SessionDriver, Durability), and the worker that borrows the owner for a  *)
(* run (run_issue).  The daemon may die at any step and is started again;   *)
(* the agent it leaves behind goes on.  An owner is named by its claim, and *)
(* so are the one process it starts and the one session it may create.      *)
EXTENDS Naturals

CONSTANTS
    None,
    Grants,      \* credential scopes and profile fingerprints a run may ask for
    MaxRuns,     \* bounds the runs the scheduler starts (not a limit of the code)
    MaxClaims,   \* bounds the claims of the record (the code: a u64 generation)
    Failing      \* failures of the environment: a subset of Faults

Faults == {"Persist", "Reap", "Crash", "Connection"}

ASSUME AcpAssumption ==
    /\ MaxRuns \in Nat /\ MaxClaims \in Nat
    /\ None \notin Nat
    /\ Failing \subseteq Faults

Runs   == 1..MaxRuns
Owners == 1..MaxClaims

VARIABLES
    disk,      \* conversation.json, with the ACP state, or None
    file,      \* run.json: its run, and whether it may still be attached to
    bound,     \* the session the parent's attempts are bound to
    parent,    \* the issue is a parent (require_persistence)
    pc,        \* where the owner's task stands
    mem,       \* the record the owner holds
    pend,      \* the prompt the owner prepares or has sent
    watched,   \* some observation lease is unexpired
    clean,     \* no error so far, and the stop was written (cleanup_ready)
    w,         \* the worker of the issue
    stop,      \* an interrupt whose outcome is still observed
    boot,      \* the daemon has just started: it may recover a run
    up,        \* the agent process groups that are alive
    task,      \* the run whose prompt an agent works on
    ctx,       \* sessions that were given the full workflow prompt
    sent,      \* how often the prompt of a run was transmitted
    answered,  \* runs whose prompt got its response
    won,       \* runs reported to the scheduler as succeeded
    quiet,     \* runs reported to the scheduler as stopped, and not started again
    claims, runs

record == <<disk, file, bound, parent>>
owner  == <<pc, mem, pend, watched, clean>>
worker == <<w, stop, boot>>
agent  == <<up, task, ctx, sent, answered>>
report == <<won, quiet>>
count  == <<claims, runs>>
vars   == <<record, owner, worker, agent, report, count>>

Records ==
    [run: Runs \cup {None}, status: {"Ready", "Submitted", "Finished", "Uncertain"},
     process: {"LaunchPending", "Running", "Stopped"}, session: Owners \cup {None},
     seeded: BOOLEAN, stop: {None, "end_turn", "refusal", "cancelled", "cancelled_before_prompt"},
     grant: Grants, owner: Owners \cup {None}]
Prompts == [run: Runs, full: BOOLEAN, cancelled: BOOLEAN]
Stops   == [run: Runs, owner: Owners]

\* None is no record.
ASSUME NoneAssumption == None \notin Records /\ None \notin Prompts /\ None \notin Stops

NewRecord(g) ==
    [run |-> None, status |-> "Ready", process |-> "Stopped", session |-> None,
     seeded |-> FALSE, stop |-> None, grant |-> g, owner |-> None]

NoWorker ==
    [pc |-> "idle", run |-> None, grant |-> None, recovered |-> FALSE, full |-> FALSE,
     owner |-> None, session |-> None, started |-> FALSE, cancelled |-> FALSE, res |-> None]

Init ==
    /\ disk = None /\ file = [run |-> None, live |-> FALSE] /\ bound = None
    /\ parent \in BOOLEAN
    /\ pc = "none" /\ mem = None /\ pend = None /\ watched = FALSE /\ clean = TRUE
    /\ w = NoWorker /\ stop = None /\ boot = TRUE
    /\ up = {} /\ task = [o \in Owners |-> None] /\ ctx = {}
    /\ sent = [r \in Runs |-> 0] /\ answered = {} /\ won = {} /\ quiet = {}
    /\ claims = 0 /\ runs = 0

-----------------------------------------------------------------------------
(* Durability: the record is changed in memory first and then written.  A    *)
(* write that fails may or may not have replaced the file; so may one that   *)
(* is dropped half-way, when the connection is lost beside it.               *)

Persisted(m)    == mem' = m /\ disk' = m
NotPersisted(m) == "Persist" \in Failing /\ mem' = m /\ disk' \in {disk, m}

Fenced(m) == m.status \in {"Submitted", "Uncertain"}

\* Wrong on purpose: the process of a dead owner is taken for dead.
LockMeansAbsent(m) == m.process # "LaunchPending"

ProcessAbsent(m) ==
    \/ m.process = "Stopped"
    \/ m.process = "Running" /\ m.owner \notin up

\* The session a run must go on with: a parent that was bound to one.
Expected == IF parent THEN bound ELSE None

\* Wrong on purpose: only a submitted prompt fences the record.
ClaimOkUncertain(m, r, g) ==
    /\ file.run = r
    /\ IF Expected = None THEN m.grant = g ELSE m.session = Expected
    /\ m.status # "Submitted" /\ ProcessAbsent(m)

ClaimOk(m, r, g) ==
    /\ file.run = r
    /\ IF Expected = None THEN m.grant = g ELSE m.session = Expected
    /\ ~Fenced(m) /\ ProcessAbsent(m)

Claimed(m, r, g, o) ==
    [(IF m.run # r THEN [m EXCEPT !.status = "Ready", !.stop = None] ELSE m) EXCEPT
        !.run = r, !.grant = g, !.owner = o, !.process = "LaunchPending"]

\* Wrong on purpose: a fresh session counts as seeded when the old one was.
ReadyStillSeeded(m, s, fresh) ==
    [m EXCEPT !.session = s, !.status = "Ready", !.stop = None]

Ready(m, s, fresh) ==
    [m EXCEPT !.session = s, !.seeded = @ /\ ~fresh, !.status = "Ready", !.stop = None]

Submitted(m, r) == [m EXCEPT !.run = r, !.status = "Submitted", !.stop = None]

Finished(m, reason) ==
    [m EXCEPT !.status = "Finished", !.stop = reason,
              !.seeded = @ \/ reason # "cancelled_before_prompt"]

-----------------------------------------------------------------------------
(* The worker: rotate the owner if the identity changed, open, inspect,     *)
(* prompt, report.                                                          *)

Serving == pc \in {"serving", "preparing", "submitted", "prompting"}
Mine    == Serving /\ mem.owner = w.owner

\* Owner o is still there.
Lives(o) == mem # None /\ mem.owner = o

Fails    == w' = [w EXCEPT !.pc = "concluding", !.res = "Err"]
LaunchFails == w' = NoWorker

\* A restart finds a run to go on with if run.json has it in flight, or the record
\* does not say what became of a prompt; without a record there is nothing to attach to.
Attachable == disk # None /\ (file.live \/ Fenced(disk))

\* A new run, or after a restart the one that was in flight.
StartAttempt ==
    /\ w.pc = "idle"
    /\ \E g \in Grants, recovered \in BOOLEAN :
         /\ IF recovered THEN boot /\ Attachable ELSE runs < MaxRuns
         /\ w' = [NoWorker EXCEPT !.pc = "starting", !.grant = g, !.recovered = recovered,
                                  !.run = IF recovered THEN file.run ELSE runs + 1]
         /\ runs' = IF recovered THEN runs ELSE runs + 1
         /\ quiet' = quiet \ {w'.run}
    /\ boot' = FALSE
    /\ UNCHANGED <<record, owner, stop, agent, won, claims>>

\* A recovered run whose own prompt is on record is settled from the record.
Reconciles == w.recovered /\ disk # None /\ disk.run = w.run /\ disk.status # "Ready"

\* The identity of the retained session is compared with the new run's.
Prepare ==
    /\ w.pc = "starting"
    /\ IF \/ parent /\ disk # None /\ bound = None
          \/ bound # None /\ (IF disk = None THEN TRUE ELSE disk.session # bound)
       THEN LaunchFails
       ELSE w' = [w EXCEPT !.pc = IF disk # None /\ ~Reconciles /\ disk.grant # w.grant
                                  THEN "rotating" ELSE "recording"]
    /\ UNCHANGED <<record, owner, stop, boot, agent, report, count>>

\* retire: the live owner is asked to stop unless it is busy or watched.
RetireLive ==
    /\ w.pc = "rotating" /\ pc # "none"
    /\ IF pc = "serving" /\ ~watched
       THEN /\ pc' = "ending" /\ w' = [w EXCEPT !.pc = "retiring", !.owner = mem.owner]
       ELSE LaunchFails /\ UNCHANGED pc
    /\ UNCHANGED <<record, mem, pend, watched, clean, stop, boot, agent, report, count>>

\* Without an owner the record itself must prove that nothing is left running.
RetirePersisted ==
    /\ w.pc = "rotating" /\ pc = "none"
    /\ IF Fenced(disk) \/ ~ProcessAbsent(disk)
       THEN LaunchFails /\ UNCHANGED disk
       ELSE LET m == [disk EXCEPT !.process = "Stopped"] IN
            \/ disk' = m /\ w' = [w EXCEPT !.pc = "archiving"]
            \/ "Persist" \in Failing /\ disk' \in {disk, m} /\ LaunchFails
    /\ UNCHANGED <<file, bound, parent, owner, stop, boot, agent, report, count>>

\* Only a parent keeps its record: any other issue gets a new one.
Archive ==
    /\ w.pc = "archiving"
    /\ disk' = IF parent THEN disk ELSE None
    /\ w' = [w EXCEPT !.pc = "recording", !.owner = None]
    /\ UNCHANGED <<file, bound, parent, owner, stop, boot, agent, report, count>>

\* start_run writes run.json for a new run, unless its hook fails; a recovered run
\* finds its own.
StartRun ==
    /\ w.pc = "recording"
    /\ \/ /\ file' = IF w.recovered THEN file ELSE [run |-> w.run, live |-> TRUE]
          /\ w' = [w EXCEPT !.pc = "opening"]
       \/ /\ ~w.recovered /\ file' = [run |-> w.run, live |-> FALSE]
          /\ LaunchFails
    /\ UNCHANGED <<disk, bound, parent, owner, stop, boot, agent, report, count>>

\* try_run: a recovered run that is on record is settled without an owner; the
\* owner that is alive is borrowed; otherwise the record is claimed for a new one.
Settle ==
    /\ w.pc = "opening" /\ w.recovered /\ disk # None
    /\ \/ /\ Fenced(disk)
          /\ Fails
       \/ /\ Reconciles /\ disk.status = "Finished"
          /\ w' = [w EXCEPT !.pc = "concluding", !.res = disk.stop]
    /\ UNCHANGED <<record, owner, stop, boot, agent, report, count>>

Opens == w.pc = "opening" /\ ~(w.recovered /\ disk # None /\ (Fenced(disk) \/ Reconciles))

Borrow ==
    /\ Opens /\ pc # "none"
    /\ IF pc \in {"claimed", "spawned", "setup"} \/ mem.grant # w.grant
       THEN Fails
       ELSE w' = [w EXCEPT !.pc = "opened", !.owner = mem.owner]
    /\ UNCHANGED <<record, owner, stop, boot, agent, report, count>>

Claim ==
    /\ Opens /\ pc = "none" /\ claims < MaxClaims
    /\ LET m == IF disk = None THEN NewRecord(w.grant) ELSE disk
           c == Claimed(m, w.run, w.grant, claims + 1)
       IN  IF ~ClaimOk(m, w.run, w.grant)
           THEN Fails /\ UNCHANGED <<disk, owner, claims>>
           ELSE /\ claims' = claims + 1
                /\ pend' = None /\ watched' = FALSE /\ clean' = TRUE
                /\ \/ /\ Persisted(c) /\ pc' = "claimed"
                      /\ w' = [w EXCEPT !.pc = "opened", !.owner = claims + 1]
                   \/ "Persist" \in Failing /\ disk' \in {disk, c} /\ mem' = None
                      /\ pc' = "none" /\ Fails
    /\ UNCHANGED <<file, bound, parent, stop, boot, agent, report, runs>>

\* The handle's snapshot says which prompt the session needs.
Inspect ==
    /\ w.pc = "opened"
    /\ \/ /\ Mine
          /\ w' = [w EXCEPT !.pc = "ready", !.full = ~mem.seeded, !.session = mem.session,
                            !.started = TRUE]
       \/ /\ ~Lives(w.owner)
          /\ Fails
    /\ UNCHANGED <<record, owner, stop, boot, agent, report, count>>

\* The scheduler attaches the reported session to the parent's attempt.
AttachConversation ==
    /\ parent /\ bound = None /\ w.pc \in {"prompting", "observing", "concluding"}
    /\ w.session # None
    /\ bound' = w.session
    /\ UNCHANGED <<disk, file, parent, owner, worker, agent, report, count>>

\* Command::Prompt: one prompt at a time.
SendPrompt ==
    /\ w.pc = "ready"
    /\ \/ /\ Mine /\ pend = None /\ ~w.cancelled
          /\ pc' = "preparing" /\ w' = [w EXCEPT !.pc = "prompting"]
          /\ pend' = [run |-> w.run, full |-> w.full, cancelled |-> FALSE]
       \/ /\ ~Lives(w.owner) \/ (Mine /\ (pend # None \/ w.cancelled))
          /\ w' = [w EXCEPT !.pc = "observing", !.res = "Err"]
          /\ UNCHANGED <<pc, pend>>
    /\ UNCHANGED <<record, mem, watched, clean, stop, boot, agent, report, count>>

\* What an observer of the run may conclude: from the live owner, or, once it is
\* gone, from the record it left (observe_stop).
SeenStopped(o, r, over) ==
    IF Serving /\ mem.owner = o
    THEN \/ mem.status = "Finished" /\ mem.run = r
         \/ over /\ pend = None /\ ~watched /\ ~Fenced(mem)
    ELSE /\ ~Lives(o)
         /\ disk # None /\ disk.owner = o /\ disk.process = "Stopped" /\ ~Fenced(disk)

\* After an error a cancelled worker waits for the stop, for a while.
Observe ==
    /\ w.pc = "observing"
    /\ \/ /\ w.res = "Err" /\ w.cancelled /\ SeenStopped(w.owner, w.run, TRUE)
          /\ w' = [w EXCEPT !.pc = "concluding", !.res = "cancelled"]
       \/ /\ w' = [w EXCEPT !.pc = "concluding"]
    /\ UNCHANGED <<record, owner, stop, boot, agent, report, count>>

CancelPend(r) ==
    IF pend # None /\ pend.run = r THEN [pend EXCEPT !.cancelled = TRUE] ELSE pend

\* The event stream lost a frame: the worker gives up on a prompt that goes on.
StreamLost ==
    /\ w.pc = "prompting" /\ Fails
    /\ pend' = CancelPend(w.run)
    /\ UNCHANGED <<record, pc, mem, watched, clean, stop, boot, agent, report, count>>

\* interrupt_worker, and abort_worker once the session is in use: the prompt is
\* cancelled, and the stop observed beside the worker.
Cancel ==
    /\ w.pc \in {"ready", "prompting", "observing"} /\ ~w.cancelled
    /\ w' = [w EXCEPT !.cancelled = TRUE]
    /\ pend' = CancelPend(w.run)
    /\ stop' = [run |-> w.run, owner |-> w.owner]
    /\ UNCHANGED <<record, pc, mem, watched, clean, boot, agent, report, count>>

\* prompt_finished is set when the worker has left its prompt.
AcknowledgeStop ==
    /\ stop # None
    /\ SeenStopped(stop.owner, stop.run,
                   w.run # stop.run \/ w.pc \in {"observing", "concluding"})
    /\ quiet' = quiet \cup {stop.run} /\ stop' = None
    /\ UNCHANGED <<record, owner, w, boot, agent, won, count>>

\* Fifteen seconds without a verdict, or an uncertain one.
InterruptTimesOut ==
    /\ stop # None /\ stop' = None
    /\ UNCHANGED <<record, owner, w, boot, agent, report, count>>

\* abort_worker before that: the worker's task is dropped where it stands.
AbortWorker ==
    /\ w.pc \notin {"idle", "prompting", "observing", "concluding"} /\ ~w.cancelled
    /\ w' = NoWorker
    /\ UNCHANGED <<record, owner, stop, boot, agent, report, count>>

\* Wrong on purpose: a run without an outcome on record has stopped.
StoppedUnlessUncertain == IF disk = None THEN ~w.started ELSE disk.status # "Uncertain"

\* After an error the record says whether the run may have left something running.
StoppedOnRecord ==
    IF disk = None THEN ~w.started
    ELSE ~Fenced(disk) /\ (disk.status = "Finished" \/ disk.process = "Stopped")

Conclude ==
    /\ w.pc = "concluding"
    /\ quiet' = IF w.res # "Err" \/ StoppedOnRecord THEN quiet \cup {w.run} ELSE quiet
    /\ won' = IF w.res = "end_turn" THEN won \cup {w.run} ELSE won
    /\ file' = [file EXCEPT !.live = FALSE]
    /\ w' = NoWorker
    /\ UNCHANGED <<disk, bound, parent, owner, stop, boot, agent, count>>

-----------------------------------------------------------------------------
(* The owner's task: launch, set up, serve, tear down.                      *)

ownerRest == <<file, bound, parent, watched>>

\* Wrong on purpose: a prompt that fails is not answered.
RepliedOnSuccess(res) ==
    w' = IF pend # None /\ w.pc = "prompting" /\ w.run = pend.run /\ res # "Err"
         THEN [w EXCEPT !.pc = "observing", !.res = res] ELSE w

\* What the worker whose prompt it was hears.
Replied(res) ==
    w' = IF pend # None /\ w.pc = "prompting" /\ w.run = pend.run
         THEN [w EXCEPT !.pc = "observing", !.res = res] ELSE w

\* The connection ends with an error; who waits for a prompt hears of it.
Breaks == pc' = "ending" /\ clean' = FALSE /\ pend' = None

Spawn ==
    /\ pc = "claimed"
    /\ \/ pc' = "spawned" /\ up' = up \cup {mem.owner} /\ UNCHANGED clean
       \/ pc' = "ending" /\ clean' = FALSE /\ UNCHANGED up
    /\ UNCHANGED <<record, mem, pend, watched, worker, task, ctx, sent, answered, report, count>>

\* A process whose pid cannot be recorded is killed, but not recorded as stopped.
RecordLaunch ==
    /\ pc = "spawned"
    /\ LET m == [mem EXCEPT !.process = "Running"] IN
       \/ Persisted(m) /\ pc' = "setup" /\ UNCHANGED <<clean, up>>
       \/ NotPersisted(m) /\ pc' = "closing" /\ clean' = FALSE /\ up' = up \ {m.owner}
    /\ UNCHANGED <<ownerRest, pend, worker, task, ctx, sent, answered, report, count>>

\* A session is restored if the agent can and still knows it.  A parent accepts
\* no other; any other issue starts afresh.
\* Wrong on purpose: a parent too starts afresh when its session is unknown.
RestoresAnyway(restored, able) == ~parent \/ able

Restores(restored, able) == parent => able /\ (mem.session = None \/ restored)

SetUp ==
    /\ pc = "setup"
    /\ \/ \E able, restored \in BOOLEAN :
            /\ mem.owner \in up
            /\ restored => able /\ mem.session # None
            /\ Restores(restored, able)
            /\ LET m == Ready(mem, IF restored THEN mem.session ELSE mem.owner, ~restored) IN
               \/ Persisted(m) /\ pc' = "serving" /\ UNCHANGED clean
               \/ NotPersisted(m) /\ pc' = "ending" /\ clean' = FALSE
       \/ pc' = "ending" /\ clean' = FALSE /\ UNCHANGED <<mem, disk>>
    /\ UNCHANGED <<ownerRest, pend, worker, agent, report, count>>

\* The profile is applied to the session, the submission is written, and only then
\* may the prompt go out: a cancellation is looked for before, after, and again.
Submit ==
    /\ pc = "preparing"
    /\ \/ /\ ~pend.cancelled
          /\ LET m == Submitted(mem, pend.run) IN
             \/ /\ Persisted(m) /\ pc' = "submitted" /\ UNCHANGED <<clean, pend, w>>
             \/ /\ NotPersisted(m) /\ Breaks /\ Replied("Err")
       \/ /\ Breaks /\ Replied("Err") /\ UNCHANGED <<mem, disk>>
    /\ UNCHANGED <<ownerRest, stop, boot, agent, report, count>>

CancelledBeforePrompt == pend.cancelled

WithdrawPrompt ==
    /\ pc = "submitted" /\ CancelledBeforePrompt
    /\ LET m == Finished(mem, "cancelled_before_prompt") IN Persisted(m) \/ NotPersisted(m)
    /\ Breaks /\ Replied("Err")
    /\ UNCHANGED <<ownerRest, stop, boot, agent, report, count>>

Transmit ==
    /\ pc = "submitted" /\ ~CancelledBeforePrompt
    /\ pc' = "prompting"
    /\ task' = [task EXCEPT ![mem.owner] = pend.run]
    /\ sent' = [sent EXCEPT ![pend.run] = @ + 1]
    /\ ctx' = IF pend.full THEN ctx \cup {mem.session} ELSE ctx
    /\ UNCHANGED <<record, mem, pend, watched, clean, worker, up, answered, report, count>>

Respond ==
    /\ pc = "prompting" /\ mem.owner \in up
    /\ \E reason \in {"end_turn", "refusal"} \cup (IF pend.cancelled THEN {"cancelled"} ELSE {}) :
         LET m == Finished(mem, reason) IN
         \/ /\ Persisted(m)
            /\ pc' = "serving" /\ pend' = None /\ Replied(reason) /\ UNCHANGED clean
         \/ /\ NotPersisted(m) /\ Breaks /\ Replied("Err")
    /\ task' = [task EXCEPT ![mem.owner] = None] /\ answered' = answered \cup {pend.run}
    /\ UNCHANGED <<ownerRest, stop, boot, up, ctx, sent, report, count>>

Uncertain(m) == [m EXCEPT !.status = "Uncertain"]

\* An error instead of a response, or none within cancel_timeout: what became of the
\* prompt is not known.  (The daemon sets no prompt_timeout.)
PromptFails ==
    /\ pc = "prompting"
    /\ LET m == Uncertain(mem) IN Persisted(m) \/ NotPersisted(m)
    /\ Breaks /\ Replied("Err")
    /\ UNCHANGED <<ownerRest, stop, boot, agent, report, count>>

CancelTimesOut == pend # None /\ pend.cancelled /\ PromptFails

\* The agent hangs up, or its callbacks exceed a limit, beside whatever the owner does.
ConnectionLost ==
    /\ pc \in {"setup"} \cup {"serving", "preparing", "submitted", "prompting"}
    /\ "Connection" \in Failing \/ mem.owner \notin up
    /\ Breaks /\ Replied("Err")
    /\ UNCHANGED <<record, mem, watched, stop, boot, agent, report, count>>

\* Retained while watched or at work; otherwise it expires.
IdleExpires ==
    /\ pc = "serving" /\ ~watched
    /\ pc' = "ending"
    /\ UNCHANGED <<record, mem, pend, watched, clean, worker, agent, report, count>>

\* Observation leases: attach, renew, release, expiry.
Watch ==
    /\ Serving
    /\ watched' = ~watched
    /\ UNCHANGED <<record, pc, mem, pend, clean, worker, agent, report, count>>

\* The process tree is killed; only a reaped process is recorded as stopped.
Teardown ==
    /\ pc = "ending"
    /\ \/ /\ up' = up \ {mem.owner}
          /\ LET m == [mem EXCEPT !.process = "Stopped"] IN
             \/ Persisted(m) /\ UNCHANGED clean
             \/ NotPersisted(m) /\ clean' = FALSE
       \/ /\ "Reap" \in Failing /\ mem.owner \in up
          /\ clean' = FALSE /\ UNCHANGED <<disk, mem, up>>
    /\ pc' = "closing"
    /\ UNCHANGED <<ownerRest, pend, worker, task, ctx, sent, answered, report, count>>

\* A prompt without an outcome stays fenced; the lock goes, and a retirement that was
\* asked for is acknowledged if all of it is known to be over.
Close ==
    /\ pc = "closing" /\ pc' = "none" /\ mem' = None /\ pend' = None
    /\ disk' \in IF mem.status # "Submitted" THEN {disk}
                 ELSE {Uncertain(mem)} \cup
                      (IF "Persist" \in Failing THEN {disk} ELSE {})
    /\ w' = IF w.pc = "retiring" /\ w.owner = mem.owner
            THEN IF clean /\ ~Fenced(mem) THEN [w EXCEPT !.pc = "archiving"] ELSE NoWorker
            ELSE w
    /\ UNCHANGED <<ownerRest, clean, stop, boot, agent, report, count>>

-----------------------------------------------------------------------------
(* The agent, and the daemon.                                               *)

AgentExits ==
    /\ \E o \in up : up' = up \ {o}
    /\ UNCHANGED <<record, owner, worker, task, ctx, sent, answered, report, count>>

\* An agent whose daemon died ends its turn; nobody hears of it.
OrphanEndsTurn ==
    /\ \E o \in up :
         /\ task[o] # None /\ ~Lives(o)
         /\ task' = [task EXCEPT ![o] = None]
    /\ UNCHANGED <<record, owner, worker, up, ctx, sent, answered, report, count>>

Crash ==
    /\ "Crash" \in Failing
    /\ pc' = "none" /\ mem' = None /\ pend' = None /\ watched' = FALSE /\ clean' = TRUE
    /\ w' = NoWorker /\ stop' = None /\ boot' = TRUE
    /\ UNCHANGED <<record, agent, report, count>>

-----------------------------------------------------------------------------
WorkerStep ==
    \/ StartAttempt \/ Prepare \/ RetireLive \/ RetirePersisted \/ Archive \/ StartRun
    \/ Settle \/ Borrow \/ Claim \/ Inspect \/ AttachConversation \/ SendPrompt
    \/ Observe \/ StreamLost \/ Cancel \/ AcknowledgeStop \/ InterruptTimesOut
    \/ AbortWorker \/ Conclude

OwnerStep ==
    \/ Spawn \/ RecordLaunch \/ SetUp \/ Submit \/ WithdrawPrompt \/ Transmit \/ Respond
    \/ PromptFails \/ ConnectionLost \/ IdleExpires \/ Watch \/ Teardown \/ Close

Next == WorkerStep \/ OwnerStep \/ AgentExits \/ OrphanEndsTurn \/ Crash

Spec == Init /\ [][Next]_vars
\* Fairness: the daemon's tasks go on, a wait that is bounded by a timeout ends, and
\* the agent is owed nothing.  Neither a crash nor a stuck reaper is assumed away.
FairSpec ==
    /\ Spec
    /\ WF_vars(Spawn) /\ WF_vars(RecordLaunch) /\ WF_vars(SetUp) /\ WF_vars(Submit)
    /\ WF_vars(WithdrawPrompt) /\ WF_vars(Transmit) /\ WF_vars(CancelTimesOut)
    /\ WF_vars(Teardown) /\ WF_vars(Close)
    /\ WF_vars(Inspect) /\ WF_vars(SendPrompt) /\ WF_vars(Observe) /\ WF_vars(Conclude)
    /\ WF_vars(InterruptTimesOut)

-----------------------------------------------------------------------------
\* The records of the session, its owner and its worker are well formed, and the owner
\* holds a prompt exactly while it prepares or has sent one (PreparingPrompt,
\* ActivePrompt in host.rs).
TypeOK ==
    /\ disk \in Records \cup {None}
    /\ file \in [run: Runs \cup {None}, live: BOOLEAN]
    /\ bound \in Owners \cup {None} /\ parent \in BOOLEAN
    /\ pc \in {"none", "claimed", "spawned", "setup", "serving", "preparing", "submitted",
               "prompting", "ending", "closing"}
    /\ mem \in Records \cup {None} /\ (pc = "none" <=> mem = None)
    /\ pend \in {None} \cup Prompts
    /\ (pend # None <=> pc \in {"preparing", "submitted", "prompting"})
    /\ watched \in BOOLEAN /\ clean \in BOOLEAN /\ boot \in BOOLEAN
    /\ stop \in {None} \cup Stops
    /\ up \subseteq Owners /\ task \in [Owners -> Runs \cup {None}] /\ ctx \subseteq Owners
    /\ sent \in [Runs -> Nat]
    /\ answered \subseteq Runs /\ won \subseteq Runs /\ quiet \subseteq Runs

\* However often the daemon dies, a process is not reaped or the identity changes, no
\* second agent is started for the issue while one may be alive (the claim's
\* verify_prior_process, and the owner lock).
OneAgent == \A o, p \in up : o = p

\* Prompts the agent was given and has not answered.
Unsettled == {r \in Runs : sent[r] > 0 /\ r \notin answered}

\* A prompt is transmitted at most once, and none while another may still be worked on:
\* "a submitted prompt is never replayed on restart" (docs/architecture.md), which the
\* submitted marker written before the transmission has to ensure.
OneUnsettledPrompt ==
    /\ \A r \in Runs : sent[r] <= 1
    /\ \A r, s \in Unsettled : r = s

\* What is transmitted without the workflow's full prompt goes to a session that was
\* given it (workflow_prompt_seeded), also when the agent has lost a session.
ContinuationHasContext ==
    [][\A r \in Runs : sent'[r] > sent[r] => mem.session \in ctx']_vars

\* A run that run_issue reports as succeeded was answered, and of a run reported as
\* stopped, by its outcome or by observe_stop, no live agent works on the prompt.
OutcomeIsTrue ==
    /\ won \subseteq answered
    /\ \A r \in quiet : \A o \in up : task[o] # r

\* The session a parent's attempts are bound to is the one on record, through
\* rotations of its grants, restarts and agents that lost it (require_persistence).
ParentKeepsSession ==
    parent /\ bound # None => disk # None /\ disk.session = bound

\* A run that is cancelled comes to an end, whatever the agent does: every wait for
\* the owner is answered when its prompt fails or its connection ends.
CancelledRunEnds ==
    \A r \in Runs : (w.run = r /\ w.cancelled) ~> ~(w.run = r /\ w.cancelled)

=============================================================================
