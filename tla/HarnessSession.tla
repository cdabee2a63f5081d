---------------------------- MODULE HarnessSession ----------------------------
(* One turn of an issue on an OpenHands conversation: the runtime stream     *)
(* (RuntimeEventStream: socket, readiness barrier, REST reconciliation,      *)
(* event cache, pending queue, state mirror, reconnection) and the runner    *)
(* that waits on it for the end of the turn (IssueSessionRunner), with the   *)
(* recovery of a turn after a crash of the daemon.  An event is named by its *)
(* place in the server's log, which is its timestamp: a cache ordered by     *)
(* timestamp and without duplicates is a set.                                *)
EXTENDS Naturals, Sequences

CONSTANTS
    Histories,   \* what the conversation may look like at first
    MaxEvents,   \* bounds the log by what a turn writes on its way (not the code)
    MaxDrops,    \* bounds the sockets the server or the network closes
    MaxCrashes,  \* bounds the crashes of the daemon
    MaxTries,    \* max_reconnect_attempts
    Failing      \* failures of the environment: a subset of Faults

\* Drop: a socket closes.  Socket: a connection fails or is never ready.
\* Rest: a request fails, or its answer is lost.  Poll: a deadline ends
\* next_event while it reconnects.  Tight: frames arrive in any order, and a
\* deadline ends next_event while it reads or holds some.  Late: a turn is
\* announced after its request was accepted.
Faults == {"Drop", "Socket", "Rest", "Poll", "Tight", "Late", "Crash"}

ASSUME HarnessAssumption ==
    /\ Histories \subseteq {"fresh", "idle", "active", "late"}
    /\ MaxEvents \in Nat /\ MaxDrops \in Nat /\ MaxCrashes \in Nat /\ MaxTries \in Nat \ {0}
    /\ Failing \subseteq Faults

VARIABLES
    log,        \* the events the server has persisted
    busy,       \* the turn the server works on: "no", "prior" or "mine"
    announced,  \* that turn has written its `running` update
    runs,       \* run requests of this issue's prompt that were accepted
    sock, wire, \* the socket, and the frames on it
    conv,       \* execution_status of the conversation when last fetched
    ready,      \* the readiness barrier: when it was taken, and its status
    cache, pend, redial,    \* event_cache, pending_events, reconnect_pending
    mirror,     \* execution_status of the state mirror
    dial,       \* the step of a (re)connection, or "no"
    tries,      \* the attempts of this reconnection; 0 when it succeeded
    given,      \* events next_event has returned
    pc,         \* where the runner stands
    rec,        \* it recovers the run
    baseline,   \* events that do not belong to the turn
    waited,     \* it has waited for a turn it did not start
    why,        \* why it reconciles once more
    told,       \* events reported to the observer
    out,        \* its outcome
    pending,    \* trigger_pending_run_id, in the manifest on disk
    marker,     \* last_event_id, there too
    drops, crashes

server == <<log, busy, announced, runs>>
link   == <<sock, wire>>
stream == <<conv, ready, cache, pend, redial, mirror>>
dialer == <<dial, tries>>
turn   == <<rec, baseline, waited, why, told, out>>
disk   == <<pending, marker>>
count  == <<drops, crashes>>
vars   == <<server, link, stream, dialer, given, pc, turn, disk, count>>

Statuses == {"idle", "running", "finished", "failed"}   \* failed: `error` or `stuck`
Kinds    == Statuses \cup {"error", "other"}            \* error: ConversationErrorEvent
Events   == [kind: Kinds, mine: BOOLEAN]
Ids      == 1..Len(log)

NoReady  == [at |-> 0, status |-> "unready"]
NoOut    == [kind |-> "none", why |-> "none", stopped |-> FALSE]

Terminal(s)   == s \in {"finished", "failed"}
InProgress(s) == s = "running"

Event(k, m) == [kind |-> k, mine |-> m]

History(h) ==
    CASE h = "fresh"  -> <<Event("idle", FALSE)>>
      [] h = "active" -> <<Event("running", FALSE)>>
      [] OTHER        -> <<Event("running", FALSE), Event("finished", FALSE)>>

Updates(S)  == {e \in S : log[e].kind \in Statuses}
Newest(S)   == CHOOSE e \in S : \A f \in S : f <= e
LastOf(S)   == IF S = {} THEN 0 ELSE Newest(S)
StatusOf(S) == IF Updates(S) = {} THEN "idle" ELSE log[Newest(Updates(S))].kind

ServerStatus == StatusOf(Ids)

Init ==
    /\ \E h \in Histories :
         /\ log = History(h)
         /\ busy = IF h \in {"active", "late"} THEN "prior" ELSE "no"
         /\ announced = (h # "late")
    /\ runs = 0
    /\ sock = "none" /\ wire = {}
    /\ conv = "idle" /\ ready = NoReady /\ cache = {} /\ pend = {} /\ redial = FALSE
    /\ mirror = "idle"
    /\ dial = "refresh" /\ tries = 1 /\ given = {}
    /\ pc = "attach" /\ rec = FALSE /\ baseline = {} /\ waited = FALSE /\ why = "none"
    /\ told = {} /\ out = NoOut
    /\ pending = FALSE /\ marker = 0
    /\ drops = 0 /\ crashes = 0

-----------------------------------------------------------------------------
(* The server.  It persists an event and broadcasts it to the open sockets. *)

Publish(k, m) ==
    /\ log' = Append(log, Event(k, m))
    /\ wire' = IF sock = "up" THEN wire \cup {Len(log) + 1} ELSE wire

Mine == busy = "mine"

ServerStep(k) ==
    /\ Publish(k, Mine)
    /\ UNCHANGED <<runs, sock, stream, dialer, given, pc, turn, disk, count>>

Announce ==
    /\ busy # "no" /\ ~announced
    /\ ServerStep("running") /\ announced' = TRUE /\ busy' = busy

Work ==
    /\ busy # "no" /\ announced /\ Len(log) < MaxEvents
    /\ \E k \in {"other", "error"} : ServerStep(k)
    /\ UNCHANGED <<busy, announced>>

Finish ==
    /\ busy # "no" /\ announced
    /\ \E k \in {"finished", "failed"} : ServerStep(k)
    /\ busy' = "no" /\ UNCHANGED announced

\* The failure frame that comes right after the terminal update.
FailLate ==
    /\ busy = "no" /\ runs > 0 /\ Len(log) < MaxEvents /\ log[Len(log)] = Event("finished", TRUE)
    /\ Publish("error", TRUE)
    /\ UNCHANGED <<busy, announced, runs, sock, stream, dialer, given, pc, turn, disk, count>>

Drop ==
    /\ "Drop" \in Failing /\ drops < MaxDrops /\ sock = "up"
    /\ sock' = "broken" /\ drops' = drops + 1
    /\ \E e \in wire \cup {0} : wire' = {f \in wire : f <= e}
    /\ UNCHANGED <<server, stream, dialer, given, pc, turn, disk, crashes>>

Environment == Announce \/ Work \/ Finish \/ FailLate \/ Drop

-----------------------------------------------------------------------------
(* The state mirror: the conversation, then the cached updates in order of   *)
(* their time, then a terminal conversation the cache does not know of, then *)
(* a readiness barrier that is newer than the cache.                         *)

Fallback(cv, S, base) ==
    IF Terminal(cv) /\ ~Terminal(base) /\ ~(Updates(S) # {} /\ InProgress(StatusOf(S)))
    THEN cv ELSE base

Barrier(rd, S, base) ==
    IF \/ rd = NoReady
       \/ \E e \in Updates(S) : e > rd.at
       \/ Terminal(base) /\ rd.status = "idle"
    THEN base ELSE rd.status

\* Wrong on purpose: the refreshed conversation is not followed by the cached updates.
RebuiltFromConversation(cv, S, rd) == Barrier(rd, S, Fallback(cv, S, cv))

Rebuilt(cv, S, rd) ==
    LET base == IF Updates(S) = {} THEN cv ELSE StatusOf(S)
    IN  Barrier(rd, S, Fallback(cv, S, base))

\* Wrong on purpose: what the cache knows is queued again.
PushAgain(S) ==
    /\ cache' = cache \cup S /\ pend' = pend \cup S
    /\ mirror' = IF Updates(S \ cache) = {} THEN mirror ELSE Rebuilt(conv, cache', ready)
    /\ UNCHANGED <<conv, ready, redial>>

\* push_new_events: only unseen events are queued.
Push(S) ==
    /\ cache' = cache \cup S
    /\ pend' = pend \cup (S \ cache)
    /\ mirror' = IF Updates(S \ cache) = {} THEN mirror ELSE Rebuilt(conv, cache', ready)
    /\ UNCHANGED <<conv, ready, redial>>

-----------------------------------------------------------------------------
(* What the runner makes of what it knows.                                  *)

Current      == cache \ baseline
CurrentError == \E e \in Current : log[e].kind = "error"

Waiting  == pc \in {"waitPrior", "waitConflict"}
InStream == Waiting \/ pc \in {"await", "confirm"}

\* finalize_active_session: the harness counts as stopped if the mirror is terminal.
Finalize(kind, reason) ==
    /\ out' = [kind |-> kind, why |-> reason, stopped |-> Terminal(mirror')]
    /\ pc' = "done" /\ pending' = FALSE /\ marker' = LastOf(cache')
    /\ UNCHANGED <<rec, baseline, waited, why>>

\* An error without an outcome: nothing is attached, or the run not recovered.
NoSession ==
    /\ out' = [kind |-> "NoSession", why |-> "none", stopped |-> FALSE]
    /\ pc' = "done"
    /\ UNCHANGED <<rec, baseline, waited, why, disk>>

Goto(p) == pc' = p /\ UNCHANGED <<rec, baseline, waited, why, out, disk>>

\* Wrong on purpose: the events of the wait stay out of the baseline.
AfterWaitUnextended ==
    /\ pc' = IF pc = "waitPrior" THEN "send" ELSE "trigger"
    /\ marker' = IF pc = "waitPrior" THEN LastOf(cache') ELSE marker
    /\ UNCHANGED <<rec, baseline, waited, why, out, pending>>

\* The turn it waited for has stopped: prepare_turn, or the next run request.
AfterWait ==
    /\ baseline' = IF pc = "waitPrior" THEN cache' ELSE baseline \cup cache'
    /\ pc' = IF pc = "waitPrior" THEN "send" ELSE "trigger"
    /\ marker' = IF pc = "waitPrior" THEN LastOf(cache') ELSE marker
    /\ UNCHANGED <<rec, waited, why, out, pending>>

\* next_event has returned event e.
Returned(e) ==
    /\ told' = IF Waiting THEN told ELSE told \cup {e}
    /\ \/ pc = "await" /\ Goto("check")
       \/ /\ pc = "confirm"
          /\ Goto(IF CurrentError \/ mirror # "finished" THEN "await" ELSE "confirm")
       \/ Waiting /\ ~InProgress(mirror) /\ AfterWait
       \/ Waiting /\ InProgress(mirror) /\ Goto(pc)

WaitFailed == IF rec THEN NoSession ELSE Finalize("Failed", "prior")

\* Wrong on purpose: an exhausted reconnection is tolerated before the end was seen.
BrokenTolerated(reason) ==
    /\ told' = told
    /\ \/ Waiting /\ AfterWait
       \/ ~Waiting /\ Finalize("Succeeded", "finished")

\* next_event has returned no event, or an error.  Without an event a wait asks again.
Broken(reason) ==
    /\ told' = told
    /\ \/ /\ pc = "await"
          /\ pc' = "reconcile" /\ why' = reason
          /\ UNCHANGED <<rec, baseline, waited, out, disk>>
       \/ pc = "confirm" /\ Finalize("Succeeded", "finished")
       \/ Waiting /\ reason = "exhausted" /\ ~InProgress(mirror) /\ AfterWait
       \/ Waiting /\ reason = "exhausted" /\ InProgress(mirror) /\ WaitFailed

-----------------------------------------------------------------------------
(* next_event.                                                              *)

Polling == InStream /\ dial = "no"

\* The frames one read finds, in one batch.
Absorb ==
    /\ Polling /\ wire # {}
    /\ \E S \in IF "Tight" \in Failing THEN SUBSET wire \ {{}} ELSE {wire} :
         Push(S) /\ wire' = wire \ S
    /\ UNCHANGED <<server, sock, dialer, given, pc, turn, disk, count>>

\* reconnect: the first attempt.
Redialled ==
    /\ dial' = "refresh" /\ tries' = 1 /\ ready' = NoReady /\ redial' = FALSE

Closed ==
    /\ Polling /\ sock = "broken" /\ wire = {}
    /\ sock' = "none"
    /\ \/ pend = {} /\ Redialled
       \/ pend # {} /\ redial' = TRUE /\ UNCHANGED <<dialer, ready>>
    /\ UNCHANGED <<server, wire, conv, cache, pend, mirror, given, pc, turn, disk, count>>

Redial ==
    /\ Polling /\ redial /\ pend = {}
    /\ Redialled
    /\ UNCHANGED <<server, link, conv, cache, pend, mirror, given, pc, turn, disk, count>>

\* A queued event goes out after one more look at the socket.
Deliver ==
    /\ Polling /\ pend # {} /\ (wire = {} \/ "Tight" \in Failing)
    /\ UNCHANGED <<server, link, conv, ready, cache, redial, mirror, dialer, count>>
    /\ \E e \in pend :
         /\ \A f \in pend : e <= f
         /\ pend' = pend \ {e} /\ given' = given \cup {e}
         /\ Returned(e)

\* No socket, nothing queued and no reconnection due.
Over == sock = "none" /\ pend = {} /\ ~redial

Ended ==
    /\ Polling /\ Over
    /\ UNCHANGED <<server, link, stream, dialer, given, count>>
    /\ Broken("ended")

-----------------------------------------------------------------------------
(* attach and reconnect: the conversation, the socket with its readiness    *)
(* barrier, then the events.                                                *)

Dialling == dial # "no" /\ (pc = "attach" \/ InStream)

\* Wrong on purpose: the events are fetched before the socket is open.
DialNextEarly(step) ==
    CASE step = "refresh" -> "search" [] step = "search" -> "connect" [] OTHER -> "no"

DialNext(step) ==
    CASE step = "refresh" -> "connect" [] step = "connect" -> "search" [] OTHER -> "no"

Refreshed ==
    /\ Dialling /\ dial = "refresh"
    /\ conv' = ServerStatus /\ mirror' = Rebuilt(conv', cache, ready)
    /\ dial' = DialNext(dial)
    /\ UNCHANGED <<server, link, ready, cache, pend, redial, tries, given, pc, turn, disk, count>>

Connected ==
    /\ Dialling /\ dial = "connect"
    /\ sock' = "up" /\ wire' = {}
    /\ ready' = [at |-> Len(log), status |-> ServerStatus]
    /\ dial' = DialNext(dial)
    /\ UNCHANGED <<server, conv, cache, pend, redial, mirror, tries, given, pc, turn, disk, count>>

Searched ==
    /\ Dialling /\ dial = "search"
    /\ cache' = cache \cup Ids /\ pend' = pend \cup (Ids \ cache)
    /\ mirror' = Rebuilt(conv, cache', ready)
    /\ dial' = DialNext(dial) /\ tries' = 0
    /\ pc' = IF pc = "attach" THEN "attached" ELSE pc
    /\ UNCHANGED <<server, link, conv, ready, redial, given, turn, disk, count>>

\* Wrong on purpose: the attempts are not counted.
DialFailsUncounted ==
    /\ Dialling /\ InStream
    /\ (IF dial = "connect" THEN "Socket" ELSE "Rest") \in Failing
    /\ dial' = "refresh"
    /\ UNCHANGED <<server, link, stream, tries, given, pc, turn, disk, count>>

\* A step fails: an attachment is given up, a reconnection tries again.
DialFails ==
    /\ Dialling
    /\ (IF dial = "connect" THEN "Socket" ELSE "Rest") \in Failing
    /\ UNCHANGED <<server, link, stream, given, count>>
    /\ \/ pc = "attach" /\ NoSession /\ dial' = "no" /\ UNCHANGED <<tries, told>>
       \/ /\ InStream /\ tries < MaxTries
          /\ dial' = "refresh" /\ tries' = tries + 1
          /\ UNCHANGED <<pc, turn, disk>>
       \/ InStream /\ tries >= MaxTries /\ Broken("exhausted") /\ dial' = "no" /\ tries' = tries

\* A deadline drops next_event in the middle of a reconnection, and the
\* reconnection with it: the 15 s of the token count, the stall, the drain.
DialCut ==
    /\ "Poll" \in Failing /\ Dialling /\ InStream
    /\ UNCHANGED <<server, link, stream, tries, given, count>>
    /\ dial' = "no" /\ told' = told
    /\ \/ pc = "await" /\ Goto("check")
       \/ /\ pc = "await"
          /\ pc' = "reconcile" /\ why' = "stalled"
          /\ UNCHANGED <<rec, baseline, waited, out, disk>>
       \/ pc = "confirm" /\ Finalize("Succeeded", "finished")
       \/ Waiting /\ WaitFailed

-----------------------------------------------------------------------------
(* The deadlines of a runner that waits for an event.                       *)

Idle == wire = {} /\ pend = {} /\ ~redial /\ sock = "up"

Expired ==
    /\ Polling /\ ~Over
    /\ Idle \/ "Tight" \in Failing

Still == UNCHANGED <<server, link, stream, dialer, given, told, count>>

\* The 15 s of the token count bring the state check again, well before the
\* stall timeout, unless the cap of the whole run comes first.
Due == Current # {} /\ (CurrentError \/ Terminal(mirror))

Tick ==
    /\ Expired /\ pc = "await" /\ Due
    /\ Still /\ Goto("check")

ConfirmDeadline ==
    /\ Expired /\ pc = "confirm"
    /\ Still /\ Finalize("Succeeded", "finished")

Stall ==
    /\ Expired /\ pc = "await" /\ (Due => "Tight" \in Failing)
    /\ pc' = "reconcile" /\ why' = "stalled"
    /\ Still /\ UNCHANGED <<rec, baseline, waited, out, disk>>

WaitDeadline ==
    /\ Expired /\ Waiting
    /\ Still /\ WaitFailed

\* The deadline drops the frames a read has taken from the socket and not yet pushed.
FramesLost ==
    /\ "Tight" \in Failing /\ Polling /\ pc = "await"
    /\ \E L \in SUBSET wire \ {{}} : wire' = wire \ L
    /\ Goto("check")
    /\ UNCHANGED <<server, sock, stream, dialer, given, told, count>>

-----------------------------------------------------------------------------
(* The runner.                                                              *)

\* recovery_baseline_event_ids: the cache up to the marker, or all of it, but
\* for the newest terminal update.
RecoveryBaseline ==
    LET terminal == {e \in cache : Terminal(log[e].kind)}
        known    == IF marker \in cache THEN {e \in cache : e <= marker} ELSE cache
    IN  IF terminal = {} THEN known ELSE known \ {Newest(terminal)}

Attached ==
    /\ pc = "attached"
    /\ \/ /\ ~rec /\ InProgress(mirror)
          /\ pc' = "waitPrior" /\ waited' = TRUE /\ baseline' = baseline
       \/ ~rec /\ ~InProgress(mirror) /\ pc' = "send" /\ baseline' = cache /\ waited' = waited
       \/ rec /\ pending /\ pc' = "trigger" /\ baseline' = cache /\ waited' = waited
       \/ rec /\ ~pending /\ pc' = "check" /\ baseline' = RecoveryBaseline /\ waited' = waited
    /\ marker' = LastOf(cache)
    /\ UNCHANGED <<server, link, stream, dialer, given, rec, why, told, out, pending, count>>

Prompted == Publish("other", TRUE) /\ UNCHANGED <<busy, announced, runs>>
Unheard  == UNCHANGED <<server, wire>>

Send ==
    /\ pc = "send"
    /\ UNCHANGED <<sock, stream, dialer, given, told, count>>
    /\ \/ /\ Prompted
          /\ pc' = "trigger" /\ pending' = TRUE
          /\ UNCHANGED <<rec, baseline, waited, why, out, marker>>
       \/ /\ "Rest" \in Failing /\ (Prompted \/ Unheard)
          /\ Finalize("Failed", "send")

\* The server starts a turn, unless it works on one.
Started ==
    /\ busy = "no" /\ busy' = "mine" /\ runs' = runs + 1
    /\ \/ Publish("running", TRUE) /\ announced' = TRUE
       \/ "Late" \in Failing /\ announced' = FALSE /\ UNCHANGED <<log, wire>>

TriggerFailed == IF rec THEN NoSession ELSE Finalize("Failed", "trigger")

Trigger ==
    /\ pc = "trigger"
    /\ UNCHANGED <<sock, stream, dialer, given, told, count>>
    /\ \/ Started /\ Goto("record")
       \/ /\ busy # "no" /\ ~(rec /\ waited) /\ Unheard
          /\ pc' = "backlog" /\ waited' = TRUE
          /\ UNCHANGED <<rec, baseline, why, out, disk>>
       \/ busy # "no" /\ rec /\ waited /\ Unheard /\ NoSession
       \/ "Rest" \in Failing /\ (Started \/ Unheard) /\ TriggerFailed

\* The best-effort reconcile_events before a wait and after a conflict.
Refetched ==
    \/ Push(Ids)
    \/ "Rest" \in Failing /\ UNCHANGED stream

Backlog ==
    /\ pc = "backlog" /\ Refetched
    /\ \/ InProgress(mirror') /\ Goto("waitConflict")
       \/ ~InProgress(mirror') /\ AfterWait
    /\ UNCHANGED <<server, link, dialer, given, told, count>>

\* The accepted trigger is recorded.
Record ==
    /\ pc = "record"
    /\ pc' = IF waited /\ ~rec THEN "resync" ELSE "check"
    /\ pending' = FALSE /\ marker' = IF rec THEN marker ELSE LastOf(cache)
    /\ UNCHANGED <<server, link, stream, dialer, given, rec, baseline, waited, why, told, out, count>>

Resync ==
    /\ pc = "resync" /\ Refetched
    /\ Goto("check")
    /\ UNCHANGED <<server, link, dialer, given, told, count>>

\* Wrong on purpose: `finished` is believed at once.
CheckUnconfirmed ==
    /\ pc = "check" /\ Still
    /\ \/ Current = {} /\ Goto("await")
       \/ CurrentError /\ Finalize("Failed", "error")
       \/ /\ Current # {} /\ ~CurrentError
          /\ \/ mirror = "finished" /\ Finalize("Succeeded", "finished")
             \/ mirror = "failed" /\ Finalize("Failed", "failed")
             \/ ~Terminal(mirror) /\ Goto("await")

\* terminal_outcome_from_state.
Check ==
    /\ pc = "check" /\ Still
    /\ \/ Current = {} /\ Goto("await")
       \/ CurrentError /\ Finalize("Failed", "error")
       \/ /\ Current # {} /\ ~CurrentError
          /\ \/ mirror = "finished" /\ Goto("confirm")
             \/ mirror = "failed" /\ Finalize("Failed", "failed")
             \/ ~Terminal(mirror) /\ Goto("await")

\* handle_reconcile_progress, and the outcome when it finds nothing.
GivenUp == Finalize(IF why = "stalled" THEN "Stalled" ELSE "Failed", why)

Reconcile ==
    /\ pc = "reconcile"
    /\ \/ /\ Ids \ cache # {}
          /\ Push(Ids) /\ told' = told \cup (Ids \ cache) /\ Goto("check")
       \/ Ids \ cache = {} /\ UNCHANGED <<stream, told>> /\ GivenUp
       \/ "Rest" \in Failing /\ UNCHANGED <<stream, told>> /\ GivenUp
    /\ UNCHANGED <<server, link, dialer, given, count>>

\* The daemon dies once the prompt is on record, and recovers the run.
Crash ==
    /\ "Crash" \in Failing /\ crashes < MaxCrashes
    /\ out = NoOut /\ (runs > 0 \/ pending)
    /\ rec' = TRUE /\ pc' = "attach" /\ crashes' = crashes + 1
    /\ sock' = "none" /\ wire' = {}
    /\ conv' = "idle" /\ ready' = NoReady /\ mirror' = "idle"
    /\ cache' = {} /\ pend' = {} /\ redial' = FALSE /\ given' = {} /\ told' = {}
    /\ dial' = "refresh" /\ tries' = 1
    /\ baseline' = {} /\ waited' = FALSE /\ why' = "none"
    /\ UNCHANGED <<server, out, disk, drops>>

NextEvent == Absorb \/ Closed \/ Redial \/ Deliver \/ Ended
Dial      == Refreshed \/ Connected \/ Searched \/ DialFails \/ DialCut
Deadline  == Tick \/ ConfirmDeadline \/ Stall \/ WaitDeadline \/ FramesLost
Runner    == Attached \/ Send \/ Trigger \/ Backlog \/ Record \/ Resync \/ Check \/ Reconcile

Next == Environment \/ NextEvent \/ Dial \/ Deadline \/ Runner \/ Crash

Spec == Init /\ [][Next]_vars

\* The server goes on with a turn it has accepted and ends it; the runner and
\* its stream are one task that the runtime keeps polling, and their timers fire.
Fairness ==
    /\ WF_vars(Announce) /\ WF_vars(Finish)
    /\ WF_vars(Absorb) /\ WF_vars(Closed) /\ WF_vars(Redial) /\ WF_vars(Deliver) /\ WF_vars(Ended)
    /\ WF_vars(Refreshed) /\ WF_vars(Connected) /\ WF_vars(Searched)
    /\ WF_vars(Tick) /\ WF_vars(ConfirmDeadline) /\ WF_vars(Stall) /\ WF_vars(WaitDeadline)
    /\ WF_vars(Runner)

FairSpec == Spec /\ Fairness

-----------------------------------------------------------------------------
(* Properties.                                                              *)

Own(k)    == \E e \in Ids : log[e] = Event(k, TRUE)
Decided   == out = NoOut /\ out' # NoOut
Succeeded == out.kind = "Succeeded"

\* Types, and what belongs together: the queue is a part of the cache, the
\* cache of the log, and a decided runner is done.
TypeOK ==
    /\ \A e \in Ids : log[e] \in Events
    /\ busy \in {"no", "prior", "mine"} /\ announced \in BOOLEAN /\ runs \in 0..(1 + MaxCrashes)
    /\ sock \in {"none", "up", "broken"} /\ wire \subseteq Ids
    /\ conv \in Statuses /\ mirror \in Statuses
    /\ ready = NoReady \/ ready \in [at : Ids, status : Statuses]
    /\ pend \subseteq cache /\ given \subseteq cache /\ cache \subseteq Ids /\ redial \in BOOLEAN
    /\ dial \in {"no", "refresh", "connect", "search"} /\ tries \in 0..MaxTries
    /\ baseline \subseteq Ids /\ told \subseteq cache /\ marker \in 0..Len(log)
    /\ rec \in BOOLEAN /\ waited \in BOOLEAN /\ pending \in BOOLEAN
    /\ (out # NoOut) <=> pc = "done"
    /\ out.kind \in {"none", "Succeeded", "Failed", "Stalled", "NoSession"}

\* merge_new_events and the queue: next_event never returns an event twice, and
\* what is cached is queued or was returned.
StreamDeliversOnce ==
    /\ pend \cap given = {}
    /\ cache = pend \cup given

\* attach and reconnect: while a socket whose connection came to its end is up,
\* every event of the conversation has been cached or is on its way.
StreamMissesNothing ==
    pc # "done" /\ sock = "up" /\ dial = "no" /\ tries = 0 => Ids \subseteq cache \cup wire

\* terminal_outcome_from_state reports a success only if the server ended a turn
\* of this prompt as finished, and works on no other one of it.
SuccessIsTrue == Succeeded => Own("finished") /\ busy # "mine"

\* The same of a conversation without earlier turns, where finalize_active_session
\* also reports no harness as stopped that works on the turn.
FreshReportsAreTrue ==
    runs <= 1 => SuccessIsTrue /\ (out.stopped => busy # "mine")

\* confirm_finished_terminal_state: when success is decided, the server has
\* written no error event of the turn.
ErrorIsSeen == [][Decided /\ out'.kind = "Succeeded" /\ runs = 1 => ~Own("error")]_vars

\* A turn it did not start was announced only after the prompt.
AnnouncedLate == \E p, e \in Ids : p < e /\ log[p] = Event("other", TRUE) /\ log[e] = Event("running", FALSE)

\* latest_current_turn_error after a wait: a failure for an error event is for one
\* of this turn, unless the turn it waited for was announced late.
FailureIsOwn == waited /\ out.why = "error" /\ ~AnnouncedLate => Own("error")

\* prepare_turn: the prompt is not sent into a turn that the events at hand show
\* in progress.
PromptWaits ==
    [][pc = "send" /\ log' # log =>
         ~(busy = "prior" /\ announced /\ InProgress(StatusOf(cache)))]_vars

\* handle_reconcile_progress: a turn that finished without an error is not given
\* up as stalled or lost.
MissedFinishIsFound ==
    [][Decided /\ out'.why \in {"stalled", "ended", "exhausted"} => ~Own("finished") \/ Own("error")]_vars

\* await_terminal_outcome: what finished while the runner waits for it is reported.
FinishIsReported ==
    Own("finished") /\ busy = "no" /\ out = NoOut ~> out.kind = "Succeeded" \/ out.why = "error"

\* execute_turn: a started turn comes to an outcome.
TurnEnds == runs > 0 ~> out # NoOut

\* reconnect: a stream is given up only when its attempts are exhausted.
ReconnectIsPursued == out.why # "ended"

\* observe_event, observe_reconciled_events: an event is reported once.
ObservedOnce ==
    [][(given' \ given) \cap told = {} \/ Waiting]_vars

\* harness_stopped: a harness reported as stopped works on no turn.
StoppedIsTrue == out.stopped => busy = "no"

\* wait_for_active_turn_to_finish: events of the turn that was waited for are not
\* reported as events of this one.
PriorTurnUnobserved == waited => told \cap baseline = {}

=============================================================================
