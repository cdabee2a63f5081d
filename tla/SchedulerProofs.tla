-------------------------- MODULE SchedulerProofs --------------------------
(***************************************************************************)
(* Theorems about Scheduler, for every number of issues, workers and       *)
(* states, every limit and, where a theorem does not say otherwise, every  *)
(* set of calls that may fail.                                             *)
(***************************************************************************)
EXTENDS Scheduler, IssueExecutionLemmas, FiniteSetTheorems

-----------------------------------------------------------------------------
(* What the scheduler's own operators on records return.                    *)

\* A record in the executions map: one that is claimed is in nobody's map but
\* the launches of the tick.
Recorded(e) == WellFormed(e) /\ e.status # "Claimed"

\* The harness confirmed the stop of the record's run.
Acknowledged(e) == e.interrupt # None /\ e.interrupt.status = "Acknowledged"

\* refresh_issue with the state the tracker reported.
LEMMA InStateResult ==
    ASSUME NEW e, WellFormed(e), NEW state \in StateNames,
           NEW f, f = InState(e, state)
    PROVE  /\ WellFormed(f) /\ f.issue.state = state /\ SamePhase(f, e)
           /\ f.workspace = e.workspace /\ f.interrupt = e.interrupt
           /\ f.conversation = e.conversation /\ f.last = e.last
<1> DEFINE issue == [e.issue EXCEPT !.state = state]
<1>1. e.issue \in Issues
  BY DEF WellFormed, Executions
<1>2. issue \in Issues /\ issue.state = state
  BY <1>1 DEF Issues
<1>3. f = RefreshIssue(e, issue)
  BY DEF InState
<1> HIDE DEF issue
<1>. QED  BY <1>2, <1>3, RefreshIssueResult

\* Cleaned: a workspace removed or kept.
LEMMA CleanedResult ==
    ASSUME NEW e, WellFormed(e), e.status = "Released", NEW f \in Cleaned(e)
    PROVE  /\ WellFormed(f) /\ f.issue = e.issue /\ SamePhase(f, e)
           /\ f.interrupt = e.interrupt /\ f.last = e.last
<1>1. CASE f = e
  BY <1>1 DEF SamePhase
<1>2. CASE f = ClearWorkspace(e)
  BY <1>2, ClearWorkspaceResult
<1>. QED  BY <1>1, <1>2 DEF Cleaned

\* upsert_active_execution: a new record, the record as it is, or a released one
\* reopened.
LEMMA UpsertedResult ==
    ASSUME NEW e, e # None => Recorded(e), NEW i \in IssueIds,
           NEW state \in StateNames, NEW f, f = Upserted(e, i, state)
    PROVE  /\ Recorded(f) /\ f # None
           /\ \/ f.status = "Unclaimed" /\ (e # None => e.status = "Released")
              \/ e # None /\ SamePhase(f, e) /\ f.interrupt = e.interrupt
<1> DEFINE g == IF e.status = "Released" /\ ~PreventsReopen(e) THEN Reopen(e) ELSE e
<1>1. CASE e = None
  <2>1. Issue(i, state) \in Issues
    BY DEF Issue, Issues, Bindings
  <2>2. f = NewExecution(Issue(i, state))
    BY <1>1 DEF Upserted
  <2>. QED  BY <1>1, <2>1, <2>2, NewExecutionResult, InputAssumption
               DEF Recorded, WellFormed
<1>2. CASE e # None
  <2>1. f = InState(g, state)
    BY <1>2 DEF Upserted
  <2>2. WellFormed(e) /\ e.status # "Claimed"
    BY <1>2 DEF Recorded
  <2>3. /\ WellFormed(g) /\ g.status # "Claimed"
        /\ \/ g.status = "Unclaimed" /\ e.status = "Released"
           \/ SamePhase(g, e) /\ g.interrupt = e.interrupt
    <3>1. CASE e.status = "Released" /\ g = Reopen(e)
      BY <2>2, <3>1, ReopenResult
    <3>2. CASE g = e
      BY <2>2, <3>2 DEF SamePhase
    <3>. QED  BY <3>1, <3>2
  <2> HIDE DEF g
  <2>4. /\ WellFormed(f) /\ SamePhase(f, g) /\ f.interrupt = g.interrupt
    BY <2>1, <2>3, InStateResult
  <2>. QED  BY <1>2, <2>3, <2>4, InputAssumption DEF Recorded, SamePhase, WellFormed
<1>. QED  BY <1>1, <1>2

\* abort_worker, on a run under way: it gives back the record with the stop it
\* asked for, and takes the run for stopped only when the harness confirmed that,
\* now or before.  It fails when a call of its own fails.
LEMMA AbortWorkerResult ==
    ASSUME NEW e, WellFormed(e), e.status = "Running", NEW a \in AbortWorker(e)
    PROVE  /\ WellFormed(a.exec) /\ SamePhase(a.exec, e)
           /\ a.exec.issue = e.issue /\ a.exec.workspace = e.workspace
           /\ Acknowledged(a.exec) => a.reached \/ Acknowledged(e)
           /\ a.stopped => a.ok /\ Acknowledged(a.exec)
           /\ ~a.ok => Fails("PersistIntent") \/ Fails("AbortCall")
<1> DEFINE asked == RequestInterrupt(e, "SchedulerAbort", "Released")
<1>1. e.conversation # None
  BY DEF WellFormed
<1>2. /\ WellFormed(asked) /\ SamePhase(asked, e) /\ asked.issue = e.issue
      /\ asked.workspace = e.workspace /\ asked.interrupt # None
      /\ InterruptQueued(e) => asked.interrupt.status = "Requested"
      /\ ~InterruptQueued(e) => /\ e.interrupt # None
                                /\ asked.interrupt.status = e.interrupt.status
  BY <1>1, RequestInterruptResult DEF InterruptReasons, NextStates
<1>3. \/ a = [ok |-> FALSE, stopped |-> FALSE, exec |-> asked, reached |-> FALSE]
         /\ Fails("PersistIntent")
      \/ InterruptQueued(e) /\ \E r \in InterruptReplies :
            LET x == UpdateInterrupt(asked, r.status) IN
            \/ r.status = "Acknowledged" /\ a \in AbortCall(x, TRUE)
            \/ /\ r.status # "Acknowledged"
               /\ a = [ok |-> TRUE, stopped |-> FALSE, exec |-> x,
                       reached |-> r.reached]
      \/ /\ ~InterruptQueued(e) /\ asked.interrupt.status = "Acknowledged"
         /\ a \in AbortCall(asked, FALSE)
      \/ /\ ~InterruptQueued(e) /\ asked.interrupt.status # "Acknowledged"
         /\ a = [ok |-> TRUE, stopped |-> FALSE, exec |-> asked, reached |-> FALSE]
  BY <1>1 DEF AbortWorker, MayFail
<1> HIDE DEF asked
<1>4. ASSUME NEW x, NEW r, a \in AbortCall(x, r)
      PROVE  /\ a.exec = x /\ a.reached = r /\ (a.stopped => a.ok)
             /\ ~a.ok => Fails("AbortCall")
  <2>1. PICK f \in MayFail("AbortCall") :
          a = [ok |-> ~f, stopped |-> ~f, exec |-> x, reached |-> r]
    BY <1>4 DEF AbortCall
  <2>2. f = FALSE \/ (f = TRUE /\ Fails("AbortCall"))
    BY DEF MayFail
  <2>. QED  BY <2>1, <2>2
<1>5. CASE a = [ok |-> FALSE, stopped |-> FALSE, exec |-> asked, reached |-> FALSE]
           /\ Fails("PersistIntent")
  BY <1>2, <1>5 DEF Acknowledged
<1>6. CASE InterruptQueued(e) /\ \E r \in InterruptReplies :
            LET x == UpdateInterrupt(asked, r.status) IN
            \/ r.status = "Acknowledged" /\ a \in AbortCall(x, TRUE)
            \/ /\ r.status # "Acknowledged"
               /\ a = [ok |-> TRUE, stopped |-> FALSE, exec |-> x,
                       reached |-> r.reached]
  <2>1. PICK r \in InterruptReplies :
            LET x == UpdateInterrupt(asked, r.status) IN
            \/ r.status = "Acknowledged" /\ a \in AbortCall(x, TRUE)
            \/ /\ r.status # "Acknowledged"
               /\ a = [ok |-> TRUE, stopped |-> FALSE, exec |-> x,
                       reached |-> r.reached]
    BY <1>6
  <2> DEFINE x == UpdateInterrupt(asked, r.status)
  <2>2. r.status \in InterruptStatuses
    BY DEF InterruptReplies, InterruptStatuses
  <2>3. /\ WellFormed(x) /\ SamePhase(x, asked) /\ x.issue = asked.issue
        /\ x.workspace = asked.workspace /\ x.interrupt # None
        /\ x.interrupt.status = r.status
    BY <1>2, <1>6, <2>2, UpdateInterruptResult
  <2> HIDE DEF x
  <2>4. CASE r.status = "Acknowledged" /\ a \in AbortCall(x, TRUE)
    BY <1>2, <1>4, <2>3, <2>4 DEF Acknowledged, SamePhase
  <2>5. CASE /\ r.status # "Acknowledged"
             /\ a = [ok |-> TRUE, stopped |-> FALSE, exec |-> x,
                     reached |-> r.reached]
    BY <1>2, <2>3, <2>5 DEF Acknowledged, SamePhase
  <2>. QED  BY <2>1, <2>4, <2>5 DEF x
<1>7. CASE /\ ~InterruptQueued(e) /\ asked.interrupt.status = "Acknowledged"
           /\ a \in AbortCall(asked, FALSE)
  BY <1>2, <1>4, <1>7 DEF Acknowledged
<1>8. CASE /\ ~InterruptQueued(e) /\ asked.interrupt.status # "Acknowledged"
           /\ a = [ok |-> TRUE, stopped |-> FALSE, exec |-> asked, reached |-> FALSE]
  BY <1>2, <1>8 DEF Acknowledged
<1>. QED  BY <1>3, <1>5, <1>6, <1>7, <1>8

-----------------------------------------------------------------------------
(* The end of a run. *)

\* release_finished_execution gives a released record that ends with the
\* outcome, or none; a receipt is recorded of a success only.
LEMMA ReleaseFinishedResult ==
    ASSUME NEW e, WellFormed(e), NEW reason \in ReleaseReasons,
           NEW o \in OutcomeRecords, NEW r \in ReleaseFinished(e, reason, o)
    PROVE  /\ r.ok => /\ WellFormed(r.exec) /\ r.exec.status = "Released"
                      /\ r.exec.retry = None /\ r.exec.last = o
           /\ ~r.ok => r.exec = None
           /\ r.receipt => o.outcome = "Succeeded"
<1> DEFINE success == reason = "TrackerTerminal" /\ o.outcome = "Succeeded"
           plain == Release(e, reason, o)
           counted == SetRetryCountOverride(plain, RetryCount(e))
           released == IF reason = "RetryExhausted" THEN counted ELSE plain
<1>0. o \in OutcomeRecords \cup {None} /\ o # None
  BY NoneAssumption
<1>1. /\ WellFormed(plain) /\ plain.status = "Released" /\ plain.retry = None
      /\ plain.last = o
  BY <1>0, ReleaseResult
<1>2. RetryCount(e) \in U32
  <2>1. e.run \in RunAttempts \cup {None}
    BY DEF WellFormed, Executions
  <2>. QED  BY <2>1, WidthAssumption DEF RetryCount, RunAttempts, U32
<1>3. /\ WellFormed(counted) /\ counted.status = "Released"
      /\ counted.retry = None /\ counted.last = o
  BY <1>1, <1>2, SetRetryCountOverrideResult DEF SamePhase
<1>4. /\ WellFormed(released) /\ released.status = "Released"
      /\ released.retry = None /\ released.last = o
  BY <1>1, <1>3
<1>5. \/ r = ErrResult("none", FALSE)
      \/ \E m \in {"none", "written", "deferred"} :
            \/ r = ErrResult(m, success)
            \/ \E x \in Cleaned(released) \cup {released} : r = OkResult(x, m, success)
  <2> DEFINE exhausted == reason = "RetryExhausted"
             cleanup == reason \in {"TrackerTerminal", "RetryExhausted"}
             markers == IF ~exhausted THEN {"none"}
                        ELSE IF Fails("PersistExhaustion") THEN {"written", "deferred"}
                        ELSE {"written"}
             removes(m) == /\ cleanup
                           /\ e.workspace # None
                           /\ exhausted => m = "written" /\ ~RetainFailed
             finals(m) ==
                IF ~ReleaseOk(e) THEN {ErrResult(m, success)}
                ELSE IF ~removes(m) THEN {OkResult(released, m, success)}
                ELSE {OkResult(x, m, success) : x \in Cleaned(released)}
                     \cup (IF Fails("ReadLease") THEN {ErrResult(m, success)} ELSE {})
  <2>1. (\E m \in markers : r \in finals(m)) \/ r = ErrResult("none", FALSE)
    <3> DEFINE unsaved == IF Fails("PersistState") /\ cleanup
                             /\ (success \/ e.workspace # None)
                          THEN {ErrResult("none", FALSE)} ELSE {}
    <3>1. ReleaseFinished(e, reason, o)
          = (UNION {finals(m) : m \in markers}) \cup unsaved
      BY Zenon DEF ReleaseFinished
    <3>2. unsaved \subseteq {ErrResult("none", FALSE)}
      OBVIOUS
    <3> HIDE DEF finals, markers, unsaved
    <3>. QED  BY <3>1, <3>2
  <2>2. markers \subseteq {"none", "written", "deferred"}
    OBVIOUS
  <2>3. ASSUME NEW m, r \in finals(m)
        PROVE  \/ r = ErrResult(m, success)
               \/ \E x \in Cleaned(released) \cup {released} :
                     r = OkResult(x, m, success)
    <3> HIDE DEF released, success, removes
    <3>. QED  BY <2>3
  <2> HIDE DEF finals, markers, released, success
  <2>. QED  BY <2>1, <2>2, <2>3
<1> HIDE DEF released, success
<1>7. CASE r = ErrResult("none", FALSE)
  BY <1>7 DEF ErrResult
<1>8. ASSUME NEW m, r = ErrResult(m, success)
      PROVE  ~r.ok /\ r.exec = None /\ r.receipt = success
  BY <1>8 DEF ErrResult
<1>9. ASSUME NEW m, NEW x \in Cleaned(released) \cup {released},
             r = OkResult(x, m, success)
      PROVE  /\ WellFormed(r.exec) /\ r.exec.status = "Released"
             /\ r.exec.retry = None /\ r.exec.last = o
             /\ r.ok /\ r.receipt = success
  <2>1. /\ WellFormed(x) /\ x.status = "Released" /\ x.retry = None /\ x.last = o
    BY <1>4, CleanedResult DEF SamePhase
  <2>. QED  BY <1>9, <2>1 DEF OkResult
<1>. QED  BY <1>5, <1>7, <1>8, <1>9 DEF success

\* queue_retry_for_outcome queues a retry of the run that ended, or fails.
LEMMA QueueRetryForResult ==
    ASSUME NEW e, WellFormed(e), NEW o \in OutcomeRecords,
           NEW r \in QueueRetryFor(e, o)
    PROVE  /\ r.ok => /\ WellFormed(r.exec) /\ r.exec.status = "RetryQueued"
                      /\ r.exec.last = o
           /\ ~r.ok => r.exec = None
           /\ ~r.receipt
<1> DEFINE reason == IF MergingCancelled(e, o) THEN "Continuation"
                     ELSE RetryReasonFor(o.outcome)
<1>1. reason \in RetryReasons
  BY DEF RetryReasonFor, RetryReasons
<1>2. \/ r = ErrResult("none", FALSE)
      \/ /\ IsLive(e) /\ AfterOk(e.run.attempt)
         /\ r = OkResult(QueueRetry(e, RetryEntry(e, reason, 0, 0), o), "none", FALSE)
  BY DEF QueueRetryFor
<1> HIDE DEF reason
<1>3. CASE r = ErrResult("none", FALSE)
  BY <1>3 DEF ErrResult
<1>4. CASE /\ IsLive(e) /\ AfterOk(e.run.attempt)
           /\ r = OkResult(QueueRetry(e, RetryEntry(e, reason, 0, 0), o), "none", FALSE)
  <2> DEFINE f == QueueRetry(e, RetryEntry(e, reason, 0, 0), o)
  <2>1. WellFormed(f) /\ f.status = "RetryQueued" /\ f.last = o
    BY <1>1, <1>4, QueueRetryResult
  <2>2. r = OkResult(f, "none", FALSE)
    BY <1>4
  <2> HIDE DEF f
  <2>. QED  BY <2>1, <2>2 DEF OkResult
<1>. QED  BY <1>2, <1>3, <1>4

\* resolve_finished_execution: the issue is released or a retry queued, or the
\* record is lost with the error.
LEMMA ResolveFinishedResult ==
    ASSUME NEW e, WellFormed(e), NEW o \in OutcomeRecords,
           NEW seen \in StateNames \cup {None},
           NEW r \in ResolveFinished(e, o, seen)
    PROVE  /\ r.ok => /\ WellFormed(r.exec)
                      /\ r.exec.status \in {"Released", "RetryQueued"}
                      /\ r.exec.status = "Released" => r.exec.retry = None
                      /\ r.exec.last = o
           /\ ~r.ok => r.exec = None
           /\ r.receipt => o.outcome = "Succeeded"
<1>1. PICK f \in {e, InState(e, seen)} :
        /\ f = InState(e, seen) => seen \in StateNames \/ f = e
        /\ \/ \E reason \in ReleaseReasons : r \in ReleaseFinished(f, reason, o)
           \/ r \in QueueRetryFor(f, o)
  <2>0. /\ "TrackerTerminal" \in ReleaseReasons /\ "TrackerInactive" \in ReleaseReasons
        /\ "Cancelled" \in ReleaseReasons /\ "RetryExhausted" \in ReleaseReasons
    BY DEF ReleaseReasons
  <2>1. CASE ~AsksTracker(e, o)
    BY <2>0, <2>1 DEF ResolveFinished, ResolveLocally, NonActiveReason
  <2>2. CASE AsksTracker(e, o)
    <3> DEFINE f == IF seen = None THEN e ELSE InState(e, seen)
    <3>1. r \in ResolveRefreshed(f, o)
      BY <2>2 DEF ResolveFinished
    <3>2. f \in {e, InState(e, seen)}
          /\ (f = InState(e, seen) => seen \in StateNames \/ f = e)
      OBVIOUS
    <3> HIDE DEF f
    <3>3. \/ \E reason \in ReleaseReasons : r \in ReleaseFinished(f, reason, o)
          \/ r \in QueueRetryFor(f, o)
      BY <2>0, <3>1 DEF ResolveRefreshed, NonActiveReason
    <3>. QED  BY <3>2, <3>3
  <2>. QED  BY <2>1, <2>2
<1>2. WellFormed(f)
  BY <1>1, InStateResult
<1>3. CASE \E reason \in ReleaseReasons : r \in ReleaseFinished(f, reason, o)
  BY <1>2, <1>3, ReleaseFinishedResult
<1>4. CASE r \in QueueRetryFor(f, o)
  BY <1>2, <1>4, QueueRetryForResult
<1>. QED  BY <1>1, <1>3, <1>4

\* persist_retry_if_queued: a queued retry is in the record or kept to be
\* written, and then the step does not count as a success.
LEMMA PersistRetryResult ==
    ASSUME NEW e, NEW p \in PersistRetry(e)
    PROVE  /\ p.wrote \/ p.queued => e # None /\ e.retry # None
           /\ e # None /\ e.retry # None /\ e.workspace # None
              => p.wrote \/ p.queued
           /\ ~(p.wrote /\ p.queued)
           /\ p.queued => ~p.ok
BY DEF PersistRetry

\* A settlement: the run is resolved and its retry, if any, persisted.
Settled(s, o) ==
    /\ s.result.ok => /\ Recorded(s.result.exec) /\ s.result.exec # None
                      /\ s.result.exec.status \in {"Released", "RetryQueued"}
                      /\ s.result.exec.last = o
    /\ ~s.result.ok => /\ s.result.exec = None
                       /\ ~s.save.wrote /\ ~s.save.queued
    /\ s.save.wrote \/ s.save.queued
       => s.result.exec # None /\ s.result.exec.status = "RetryQueued"
    /\ s.result.exec # None /\ s.result.exec.status = "RetryQueued"
       => s.save.wrote \/ s.save.queued
    /\ ~(s.save.wrote /\ s.save.queued)
    /\ s.save.queued => ~s.save.ok
    /\ s.result.receipt => o.outcome = "Succeeded"
    /\ s.reply.limited => Fails("RateLimit")

LEMMA SettlementResult ==
    ASSUME tracker \in [IssueIds -> StateNames], NEW i \in IssueIds,
           NEW e, WellFormed(e), NEW o \in OutcomeRecords,
           NEW s \in Settlements(i, e, o)
    PROVE  Settled(s, o)
<1> DEFINE replies == IF AsksTracker(e, o) THEN RefreshReplies(i)
                      ELSE {[seen |-> None, limited |-> FALSE]}
<1>0. PICK reply \in replies : \E r \in ResolveFinished(e, o, reply.seen) :
        \E p \in PersistRetry(r.exec) :
           s = [result |-> r, save |-> p, reply |-> reply]
  BY DEF Settlements
<1>1. PICK r \in ResolveFinished(e, o, reply.seen) : \E p \in PersistRetry(r.exec) :
        s = [result |-> r, save |-> p, reply |-> reply]
  BY <1>0
<1>a. PICK p \in PersistRetry(r.exec) :
        s = [result |-> r, save |-> p, reply |-> reply]
  BY <1>1
<1>2. /\ reply.seen \in StateNames \cup {None}
      /\ reply.limited => Fails("RateLimit")
  BY <1>0 DEF RefreshReplies
<1>3. s.result = r /\ s.save = p /\ s.reply = reply
  BY <1>a
<1>4. /\ r.ok => /\ WellFormed(r.exec)
                 /\ r.exec.status \in {"Released", "RetryQueued"}
                 /\ r.exec.status = "Released" => r.exec.retry = None
                 /\ r.exec.last = o
      /\ ~r.ok => r.exec = None
      /\ r.receipt => o.outcome = "Succeeded"
  BY <1>2, ResolveFinishedResult
<1>5. /\ p.wrote \/ p.queued => r.exec # None /\ r.exec.retry # None
      /\ r.exec # None /\ r.exec.retry # None /\ r.exec.workspace # None
         => p.wrote \/ p.queued
      /\ ~(p.wrote /\ p.queued)
      /\ p.queued => ~p.ok
  BY PersistRetryResult
<1>6. r.ok => r.exec # None /\ Recorded(r.exec)
  BY <1>4, InputAssumption DEF Recorded, WellFormed
<1>7. r.exec # None /\ r.exec.status = "RetryQueued"
      => r.exec.retry # None /\ r.exec.workspace # None
  BY <1>4 DEF WellFormed
<1>. QED  BY <1>2, <1>3, <1>4, <1>5, <1>6, <1>7 DEF Settled

-----------------------------------------------------------------------------
(* The inductive invariant. *)

\* The run a record holds was started, and one whose stop the harness confirmed
\* has stopped.
Backed(e, runs) ==
    /\ IsLive(e) => runs[e.run.worker] # "none"
    /\ IsLive(e) /\ Acknowledged(e) => runs[e.run.worker] = "stopped"

\* The executions map, with its counts and receipts.
MapsOK ==
    /\ executions \in [IssueIds -> Executions \cup {None}]
    /\ \A i \in IssueIds : executions[i] # None => Recorded(executions[i])
    /\ counts \in [StateNames -> Int]
    /\ RunningCountsExact
    /\ receipts \subseteq IssueIds
    /\ \A i \in receipts : executions[i] # None => executions[i].status = "Released"

WorldOK ==
    /\ tracker \in [IssueIds -> StateNames]
    /\ remote \in [Workers -> {"none", "running", "detached", "unstopped", "stopped"}]
    /\ task \subseteq Workers
    /\ given \in [Workers -> RunAttempts \cup {None}]
    /\ inbox \in Seq(OutcomeRecords)
    /\ stored \in [IssueIds -> U32]
    /\ \A w \in task : given[w] # None /\ given[w].worker = w /\ remote[w] # "none"
    /\ \A k \in 1..Len(inbox) : remote[inbox[k].worker] \in {"detached", "unstopped", "stopped"}

\* What is kept between ticks.
KeptOK ==
    /\ pendingFinished \in [IssueIds -> [exec : Executions, outcome : OutcomeRecords]
                                        \cup {None}]
    /\ \A i \in IssueIds :
          pendingFinished[i] # None => Recorded(pendingFinished[i].exec)
    /\ pendingRetry \in [IssueIds -> RetryEntries \cup {None}]
    /\ pendingExhaustion \subseteq IssueIds
    /\ cooldown \in BOOLEAN
    /\ metadata \in [Workers -> IssueIds \cup {None}]
    /\ ordinal \in Workers \cup {0}

TickOK ==
    /\ pc \in Phases /\ mode \in Modes
    /\ snap \in [IssueIds -> StateNames \cup {None}]
    /\ todo \subseteq IssueIds
    /\ started \subseteq IssueIds
    /\ batch \in 0..Len(inbox) /\ failed \in BOOLEAN
    /\ contradicted \subseteq IssueIds

\* What each phase has left to handle is there to be handled.
TodoOK ==
    /\ pc = "reconcile" => \A i \in todo : snap[i] # None
    /\ pc = "flush" => \A i \in todo : pendingFinished[i] # None
    /\ pc = "stalled" => \A i \in todo : /\ executions[i] # None
                                         /\ executions[i].status = "Running"

\* A claim is a record of its own, out of the executions map, with a worker
\* number that was handed out.
ClaimOf(e) ==
    /\ WellFormed(e) /\ e.status = "Claimed" /\ e.interrupt = None
    /\ e.run.worker <= ordinal

LaunchesOK ==
    /\ launches \in [IssueIds -> Executions \cup {None}]
    /\ \A i \in IssueIds :
          launches[i] # None => ClaimOf(launches[i]) /\ executions[i] = None
    /\ pc \notin {"dispatch", "launch"} => \A i \in IssueIds : launches[i] = None
    /\ pc = "dispatch" => \A i \in todo : launches[i] = None

\* The runs that the records speak of.
RunsOK ==
    /\ \A i \in IssueIds : executions[i] # None => Backed(executions[i], remote)
    /\ \A i \in IssueIds :
          pendingFinished[i] # None => Backed(pendingFinished[i].exec, remote)
    /\ \A i \in IssueIds :
          launches[i] # None =>
          /\ pc = "dispatch" => remote[launches[i].run.worker] = "none"
          /\ pc = "launch" /\ i \in started => remote[launches[i].run.worker] # "none"
    /\ \A w \in Workers : w > ordinal => remote[w] = "none"

\* A queued retry is in the durable record or kept to be written; one is kept
\* only while nothing can be launched.
HasQueued(i) == executions[i] # None /\ executions[i].status = "RetryQueued"
MayHoldRetry ==
    \/ pc = "idle"
    \/ pc = "drain" /\ mode = "solo"
    \/ failed /\ pc \in {"flush", "drain", "launch"}
RetriesKept ==
    /\ \A i \in IssueIds : HasQueued(i) =>
          \/ stored[i] = executions[i].retry.attempt
          \/ pendingRetry[i] # None
    /\ \A i \in IssueIds : pendingRetry[i] # None =>
          /\ MayHoldRetry
          /\ HasQueued(i) => pendingRetry[i].attempt = executions[i].retry.attempt
          /\ executions[i] # None => ~IsLive(executions[i])
          /\ pc = "flush" => i \notin todo
          /\ launches[i] = None
    /\ RetryIsDurable

\* A receipt outlives its record only through an error of the lease check.
ReceiptsKept ==
    "ReadLease" \notin Failing => \A i \in receipts : executions[i] # None

\* Every slot is taken by a worker the scheduler knows or by a claim, and so is
\* every run whose worker has not reported.
WatchedIsSupervised == \A w \in Workers : remote[w] = "running" => Supervised(w)
LaunchesSucceed == "StartWorker" \notin Failing /\ "LaunchTimeout" \notin Failing
Occupied == Cardinality(Busy) + Cardinality(Claims) <= MaxConcurrent
SlotsOK ==
    /\ Occupied
    /\ LaunchesSucceed =>
          /\ WatchedIsSupervised
          /\ pc = "launch" => \A i \in IssueIds : launches[i] # None => i \in started

\* While no stop is cut short, a worker's entry leads to the very run it was
\* made for, and an update is kept with a run nobody else looks after.
StopsSucceed == {"AbortCall", "PersistIntent", "RateLimit"} \cap Failing = {}
Runs(e, w) == e # None /\ e.status = "Running" /\ e.run.worker = w
KeptNow(i) ==
    \/ pc \in {"idle", "exhaustion", "snapshot"}
    \/ pc = "flush" /\ (failed \/ i \in todo)
    \/ pc = "drain" /\ (failed \/ mode = "solo")
UpdatesOK ==
    /\ ~cooldown
    /\ \A w \in Workers : metadata[w] # None => Runs(executions[metadata[w]], w)
    /\ \A i \in IssueIds : pendingFinished[i] # None =>
         /\ executions[i] # None /\ executions[i].status = "Running"
         /\ pendingFinished[i].exec.status = "Running"
         /\ executions[i].run = pendingFinished[i].exec.run
         /\ metadata[executions[i].run.worker] = None
         /\ KeptNow(i)

IInv ==
    /\ MapsOK /\ WorldOK /\ KeptOK /\ TickOK /\ TodoOK /\ LaunchesOK /\ RunsOK
    /\ ReceiptsKept /\ SlotsOK
    /\ StopsSucceed => RetriesKept /\ UpdatesOK

-----------------------------------------------------------------------------
(* Steps on one record of the map. *)

\* The issues counted for a state.
RunningIn(map, s) == {j \in IssueIds : /\ map[j] # None
                                       /\ map[j].status = "Running"
                                       /\ map[j].issue.state = s}

LEMMA CountsByMap ==
    RunningCountsExact
    <=> \A s \in StateNames : counts[s] = Cardinality(RunningIn(executions, s))
<1>1. \A s \in StateNames :
        {j \in Known : executions[j].status = "Running"
                       /\ executions[j].issue.state = s} = RunningIn(executions, s)
  BY DEF Known, RunningIn
<1>. QED  BY <1>1 DEF RunningCountsExact

\* A record replaced in the map moves the counts of two states.
LEMMA RunningInPut ==
    ASSUME NEW map, NEW i \in IssueIds, NEW x, NEW new, NEW s \in StateNames,
           new[i] = x, \A j \in IssueIds : j # i => new[j] = map[j]
    PROVE  Cardinality(RunningIn(new, s))
           = Cardinality(RunningIn(map, s)) - One(s, RunningKey(map[i]))
                                            + One(s, RunningKey(x))
<1> DEFINE rest == RunningIn(map, s) \ {i}
           before == RunningIn(map, s)
           after == RunningIn(new, s)
<1>1. IsFiniteSet(before)
  <2>1. before \in SUBSET IssueIds
    BY DEF RunningIn
  <2>. QED  BY <2>1, SchedulerAssumption, FS_Subset
<1>2. /\ i \in before <=> One(s, RunningKey(map[i])) = 1
      /\ i \notin before => One(s, RunningKey(map[i])) = 0
  BY DEF RunningIn, One, RunningKey
<1>3. after = IF One(s, RunningKey(x)) = 1 THEN rest \cup {i} ELSE rest
  BY DEF RunningIn, One, RunningKey
<1>4. One(s, RunningKey(x)) \in {0, 1} /\ One(s, RunningKey(map[i])) \in {0, 1}
  BY DEF One
<1>5. i \notin rest
  OBVIOUS
<1> HIDE DEF before, after
<1>6. rest = before \ {i}
  BY DEF before
<1> HIDE DEF rest
<1>7. /\ IsFiniteSet(rest) /\ Cardinality(before) \in Nat
      /\ Cardinality(rest) = IF i \in before THEN Cardinality(before) - 1
                             ELSE Cardinality(before)
  BY <1>1, <1>6, FS_RemoveElement, FS_CardinalityType
<1>8. Cardinality(rest \cup {i}) = Cardinality(rest) + 1
  BY <1>5, <1>7, FS_AddElement
<1>9. Cardinality(after) = Cardinality(before) - One(s, RunningKey(map[i]))
                                               + One(s, RunningKey(x))
  BY <1>2, <1>3, <1>4, <1>7, <1>8
<1>. QED  BY <1>9 DEF after, before

\* insert_execution and remove_execution keep the map and its counts consistent,
\* whatever record they store.
LEMMA PutResult ==
    ASSUME MapsOK, NEW i \in IssueIds, NEW x, x # None => Recorded(x),
           NEW rc, rc \subseteq receipts \cup {i}, Put(i, x, rc)
    PROVE  /\ MapsOK'
           /\ executions'[i] = x
           /\ \A j \in IssueIds : j # i => executions'[j] = executions[j]
           /\ receipts' \subseteq rc
           /\ x # None /\ x.status # "Released" => i \notin receipts'
<1>1. /\ executions' = [executions EXCEPT ![i] = x]
      /\ executions \in [IssueIds -> Executions \cup {None}]
      /\ x \in Executions \cup {None}
  BY DEF MapsOK, Put, Recorded, WellFormed
<1>2. /\ executions' \in [IssueIds -> Executions \cup {None}]
      /\ executions'[i] = x
      /\ \A j \in IssueIds : j # i => executions'[j] = executions[j]
  BY <1>1
<1>3. \A j \in IssueIds : executions'[j] # None => Recorded(executions'[j])
  BY <1>2 DEF MapsOK
<1>4. receipts' = IF x # None /\ x.status # "Released" THEN rc \ {i} ELSE rc
  BY DEF Put
<1>5. /\ receipts' \subseteq IssueIds
      /\ \A j \in receipts' :
            executions'[j] # None => executions'[j].status = "Released"
  BY <1>2, <1>4 DEF MapsOK
<1>6. /\ counts' \in [StateNames -> Int]
      /\ \A s \in StateNames :
            counts'[s] = Cardinality(RunningIn(executions', s))
  <2>1. counts' = [s \in StateNames |->
                      counts[s] - One(s, RunningKey(executions[i]))
                                + One(s, RunningKey(x))]
    BY DEF Put
  <2>2. \A s \in StateNames :
          Cardinality(RunningIn(executions', s))
           = Cardinality(RunningIn(executions, s))
             - One(s, RunningKey(executions[i])) + One(s, RunningKey(x))
    BY <1>2, RunningInPut
  <2>3. \A s \in StateNames : counts[s] = Cardinality(RunningIn(executions, s))
    BY CountsByMap DEF MapsOK
  <2>4. \A s, keys : One(s, keys) \in Int
    BY DEF One
  <2>5. counts \in [StateNames -> Int]
    BY DEF MapsOK
  <2>6. \A s \in StateNames : counts[s] - One(s, RunningKey(executions[i]))
                                        + One(s, RunningKey(x)) \in Int
    BY <2>4, <2>5
  <2>7. counts' \in [StateNames -> Int]
    BY <2>1, <2>6
  <2>8. \A s \in StateNames :
          counts'[s] = counts[s] - One(s, RunningKey(executions[i]))
                                 + One(s, RunningKey(x))
    BY <2>1
  <2>. QED  BY <2>2, <2>3, <2>7, <2>8
<1>7. RunningCountsExact'
  <2>1. (\A s \in StateNames : counts[s] = Cardinality(RunningIn(executions, s)))'
    BY <1>6
  <2>. QED  BY <2>1, CountsByMap, PTL
<1>. QED  BY <1>2, <1>3, <1>4, <1>5, <1>6, <1>7 DEF MapsOK

-----------------------------------------------------------------------------
(* What steps do to the harness runs. *)

\* Runs that were started may end or go on unwatched, and nothing else happens
\* to any.
OnlyEnds(runs) ==
    /\ runs \in [Workers -> {"none", "running", "detached", "unstopped", "stopped"}]
    /\ \A w \in Workers :
          \/ runs[w] = remote[w]
          \/ remote[w] # "none" /\ runs[w] = "stopped"
          \/ remote[w] = "running" /\ runs[w] \in {"detached", "unstopped"}

LEMMA LiveWorker ==
    ASSUME NEW e, WellFormed(e), IsLive(e)
    PROVE  e.run \in RunAttempts /\ e.run.worker \in Workers
BY DEF WellFormed, Executions, RunAttempts

LEMMA SameRuns ==
    ASSUME WorldOK
    PROVE  OnlyEnds(remote)
BY DEF OnlyEnds, WorldOK

\* A stop that reached the harness leaves no run going.
LEMMA StopRemoteResult ==
    ASSUME WorldOK, NEW w \in Workers, NEW reached,
           NEW runs, runs = StopRemote(w, reached)
    PROVE  /\ OnlyEnds(runs)
           /\ reached /\ remote[w] # "none" => runs[w] = "stopped"
<1>1. remote \in [Workers -> {"none", "running", "detached", "unstopped", "stopped"}]
  BY DEF WorldOK
<1>2. CASE reached /\ Alive(w)
  <2>1. runs = [remote EXCEPT ![w] = "stopped"] /\ remote[w] # "none"
    BY <1>2 DEF StopRemote, Alive
  <2>. QED  BY <1>1, <1>2, <2>1 DEF OnlyEnds
<1>3. CASE ~(reached /\ Alive(w))
  <2>1. runs = remote
    BY <1>3 DEF StopRemote
  <2>. QED  BY <1>1, <1>3, <2>1 DEF OnlyEnds, Alive
<1>. QED  BY <1>2, <1>3

LEMMA BackedEnds ==
    ASSUME WorldOK, NEW runs, OnlyEnds(runs), NEW e, WellFormed(e),
           Backed(e, remote)
    PROVE  Backed(e, runs)
BY LiveWorker DEF OnlyEnds, Backed

\* Nothing but the scheduler state and the acknowledgement matters.
LEMMA BackedSame ==
    ASSUME NEW runs, NEW e, Backed(e, runs), NEW f, SamePhase(f, e),
           Acknowledged(f) => Acknowledged(e)
    PROVE  Backed(f, runs)
BY DEF Backed, SamePhase, IsLive

LEMMA NotLiveBacked ==
    ASSUME NEW runs, NEW e, ~IsLive(e)
    PROVE  Backed(e, runs)
BY DEF Backed

\* Runs end and tasks leave; the rest of the world stays.
LEMMA WorldEnds ==
    ASSUME WorldOK, OnlyEnds(remote'), task' \subseteq task,
           UNCHANGED <<tracker, given, inbox>>,
           stored' \in [IssueIds -> U32]
    PROVE  WorldOK'
<1>1. \A k \in 1..Len(inbox) : inbox[k].worker \in Workers
  <2>1. \A k \in 1..Len(inbox) : inbox[k] \in OutcomeRecords
    BY DEF WorldOK
  <2>. QED  BY <2>1 DEF OutcomeRecords
<1>2. \A k \in 1..Len(inbox) : remote'[inbox[k].worker] \in {"detached", "unstopped", "stopped"}
  BY <1>1 DEF OnlyEnds, WorldOK
<1>3. \A w \in task' : given[w] # None /\ given[w].worker = w /\ remote'[w] # "none"
  BY DEF OnlyEnds, WorldOK
<1>. QED  BY <1>2, <1>3 DEF WorldOK, OnlyEnds

\* The runs after a step that starts none.
LEMMA RunsEnd ==
    ASSUME MapsOK, WorldOK, KeptOK, LaunchesOK, RunsOK, OnlyEnds(remote'),
           \A j \in IssueIds : executions'[j] # None =>
              \/ executions'[j] = executions[j]
              \/ Backed(executions'[j], remote'),
           \A j \in IssueIds : pendingFinished'[j] # None =>
              \/ pendingFinished'[j] = pendingFinished[j]
              \/ Backed(pendingFinished'[j].exec, remote'),
           \A j \in IssueIds : launches'[j] # None =>
              launches'[j] = launches[j] /\ pc' = pc /\ started' = started,
           ordinal' = ordinal
    PROVE  RunsOK'
<1>1. \A j \in IssueIds : executions'[j] # None => Backed(executions'[j], remote')
  BY BackedEnds DEF RunsOK, MapsOK, Recorded
<1>2. \A j \in IssueIds :
        pendingFinished'[j] # None => Backed(pendingFinished'[j].exec, remote')
  BY BackedEnds DEF RunsOK, KeptOK, Recorded
<1>3. ASSUME NEW j \in IssueIds, launches'[j] # None
      PROVE  /\ pc' = "dispatch" => remote'[launches'[j].run.worker] = "none"
             /\ pc' = "launch" /\ j \in started'
                => remote'[launches'[j].run.worker] # "none"
  <2>1. launches'[j] = launches[j] /\ pc' = pc /\ started' = started
    BY <1>3
  <2>2. launches[j].run.worker \in Workers
    BY <1>3, <2>1, LiveWorker DEF LaunchesOK, ClaimOf, IsLive
  <2>. QED  BY <1>3, <2>1, <2>2 DEF RunsOK, OnlyEnds
<1>4. \A w \in Workers : w > ordinal' => remote'[w] = "none"
  BY DEF RunsOK, OnlyEnds
<1>. QED  BY <1>1, <1>2, <1>3, <1>4 DEF RunsOK

-----------------------------------------------------------------------------
(* What steps do to the tick. *)

\* The phase goes on with one issue fewer.
GoesOn(i) ==
    /\ todo' = todo \ {i}
    /\ failed' \in BOOLEAN /\ (failed => failed')
    /\ contradicted' \subseteq IssueIds
    /\ UNCHANGED <<pc, mode, snap, started>>

LEMMA HandledGoesOn ==
    ASSUME TickOK, NEW i, Handled(i)
    PROVE  GoesOn(i) /\ batch' = batch /\ launches' = launches
BY DEF TickOK, Handled, GoesOn, locals

LEMMA GoesOnTick ==
    ASSUME TickOK, TodoOK, NEW i, GoesOn(i), batch' \in 0..Len(inbox'),
           \A j \in IssueIds : j # i => executions'[j] = executions[j],
           \A j \in IssueIds : j # i => pendingFinished'[j] = pendingFinished[j]
    PROVE  TickOK' /\ TodoOK'
<1>1. TickOK'
  BY DEF TickOK, GoesOn
<1>2. TodoOK'
  BY DEF TickOK, TodoOK, GoesOn
<1>. QED  BY <1>1, <1>2

\* The tick is over.
LEMMA EndTickResult ==
    ASSUME EndTick, inbox' \in Seq(OutcomeRecords)
    PROVE  /\ TickOK' /\ TodoOK' /\ LaunchesOK'
           /\ pc' = "idle" /\ ~failed'
           /\ \A j \in IssueIds : launches'[j] = None
<1>1. /\ pc' = "idle" /\ mode' = "none" /\ snap' = NoSnapshot /\ todo' = {}
      /\ launches' = NoLaunches /\ started' = {} /\ batch' = 0
      /\ failed' = FALSE /\ contradicted' = {}
  BY DEF EndTick, Go
<1>2. \A j \in IssueIds : launches'[j] = None
  BY <1>1 DEF NoLaunches
<1>3. LaunchesOK'
  BY <1>1, <1>2 DEF LaunchesOK, NoLaunches
<1>4. TodoOK'
  BY <1>1 DEF TodoOK
<1>5. 0 \in 0..Len(inbox')
  <2>1. Len(inbox') \in Nat
    OBVIOUS
  <2>. QED  BY <2>1
<1>6. TickOK'
  <2>1. snap' \in [IssueIds -> StateNames \cup {None}]
    BY <1>1 DEF NoSnapshot
  <2>. QED  BY <1>1, <1>5, <2>1 DEF TickOK, Phases, Modes
<1>. QED  BY <1>1, <1>2, <1>3, <1>4, <1>6

\* Claims stay claims as long as nothing is stored for their issues.
LEMMA LaunchesStay ==
    ASSUME LaunchesOK, TickOK, launches' \in [IssueIds -> Executions \cup {None}],
           \A j \in IssueIds : launches'[j] # None =>
              launches'[j] = launches[j] /\ executions'[j] = executions[j],
           ordinal' = ordinal, pc' = pc, todo' \subseteq todo
    PROVE  LaunchesOK'
<1>1. ASSUME NEW j \in IssueIds, launches'[j] # None
      PROVE  ClaimOf(launches'[j]) /\ executions'[j] = None
  BY <1>1 DEF LaunchesOK, ClaimOf
<1>2. pc \notin {"dispatch", "launch"} => \A j \in IssueIds : launches'[j] = None
  BY DEF LaunchesOK
<1>3. pc = "dispatch" => \A j \in todo' : launches'[j] = None
  BY DEF LaunchesOK, TickOK
<1>. QED  BY <1>1, <1>2, <1>3 DEF LaunchesOK, ClaimOf

\* Slots only become free, and no run loses its owner.
LEMMA SlotsStay ==
    ASSUME WorldOK, KeptOK, SlotsOK, OnlyEnds(remote'),
           metadata' \in [Workers -> IssueIds \cup {None}],
           \A w \in Workers :
              \/ metadata'[w] = metadata[w]
              \/ metadata'[w] = None /\ remote'[w] # "running",
           \/ launches' = launches /\ pc' = pc /\ started' = started
           \/ pc' # "launch" /\ \A j \in IssueIds : launches[j] = None /\ launches'[j] = None
    PROVE  SlotsOK'
<1>1. Busy' \subseteq Busy /\ Claims' = Claims
  BY DEF Busy, Claims
<1>2. IsFiniteSet(Busy) /\ IsFiniteSet(Claims)
  <2>1. Busy \in SUBSET Workers /\ Claims \in SUBSET IssueIds
    BY DEF Busy, Claims
  <2>. QED  BY <2>1, SchedulerAssumption, FS_Subset
<1>3. Cardinality(Busy') <= Cardinality(Busy)
  BY <1>1, <1>2, FS_Subset
<1>4. Cardinality(Busy) \in Nat /\ Cardinality(Busy') \in Nat
      /\ Cardinality(Claims) \in Nat
  BY <1>1, <1>2, FS_Subset, FS_CardinalityType
<1>5. Occupied'
  BY <1>1, <1>3, <1>4, SchedulerAssumption DEF SlotsOK, Occupied
<1>6. ASSUME LaunchesSucceed
      PROVE  WatchedIsSupervised'
  <2> SUFFICES ASSUME NEW w \in Workers, remote'[w] = "running"
               PROVE  Supervised(w)'
    BY DEF WatchedIsSupervised
  <2>1. remote[w] = "running"
    BY DEF OnlyEnds
  <2>2. Supervised(w)
    BY <1>6, <2>1 DEF SlotsOK, WatchedIsSupervised
  <2>3. metadata'[w] = metadata[w]
    OBVIOUS
  <2>4. CASE metadata[w] # None
    BY <2>3, <2>4 DEF Supervised
  <2>5. CASE \E j \in Claims : launches[j].run.worker = w
    <3>1. launches' = launches
      BY <2>5 DEF Claims
    <3>. QED  BY <1>1, <2>5, <3>1 DEF Supervised
  <2>. QED  BY <2>2, <2>4, <2>5 DEF Supervised
<1>7. LaunchesSucceed /\ pc' = "launch"
      => \A j \in IssueIds : launches'[j] # None => j \in started'
  BY DEF SlotsOK
<1>. QED  BY <1>5, <1>6, <1>7 DEF SlotsOK, LaunchesSucceed

\* A stale entry of the worker map leaves with its worker, and pending updates
\* stay where they are.
LEMMA UpdatesStay ==
    ASSUME UpdatesOK, KeptOK, MapsOK, ~cooldown', NEW i \in IssueIds,
           \A j \in IssueIds : j # i => executions'[j] = executions[j],
           metadata' \in [Workers -> IssueIds \cup {None}],
           \A w \in Workers : metadata'[w] \in {metadata[w], None},
           \A w \in Workers : metadata'[w] = i => Runs(executions'[i], w),
           \A j \in IssueIds : pendingFinished'[j] # None => KeptNow(j)',
           \A j \in IssueIds : j # i => pendingFinished'[j] = pendingFinished[j],
           pendingFinished'[i] # None =>
              /\ executions'[i] # None /\ executions'[i].status = "Running"
              /\ pendingFinished'[i].exec.status = "Running"
              /\ executions'[i].run = pendingFinished'[i].exec.run
              /\ metadata'[executions'[i].run.worker] = None
    PROVE  UpdatesOK'
<1>1. \A w \in Workers : metadata'[w] # None => Runs(executions'[metadata'[w]], w)
  BY DEF UpdatesOK, KeptOK
<1>2. ASSUME NEW j \in IssueIds, pendingFinished'[j] # None, j # i
      PROVE  /\ executions'[j] # None /\ executions'[j].status = "Running"
             /\ pendingFinished'[j].exec.status = "Running"
             /\ executions'[j].run = pendingFinished'[j].exec.run
             /\ metadata'[executions'[j].run.worker] = None
  <2>1. executions'[j] = executions[j] /\ pendingFinished'[j] = pendingFinished[j]
    BY <1>2
  <2>2. executions[j].run.worker \in Workers
    BY <1>2, <2>1, LiveWorker DEF UpdatesOK, MapsOK, Recorded, IsLive
  <2>. QED  BY <1>2, <2>1, <2>2 DEF UpdatesOK
<1>. QED  BY <1>1, <1>2 DEF UpdatesOK, KeptNow

\* Retries stay durable while none is queued and no claim is made.
LEMMA RetriesStay ==
    ASSUME RetriesKept, UNCHANGED <<stored, pendingRetry>>,
           \A j \in IssueIds : executions'[j] # None =>
              \/ executions'[j] = executions[j]
              \/ executions[j] # None /\ SamePhase(executions'[j], executions[j])
              \/ executions'[j].status \notin {"Claimed", "Running", "RetryQueued"},
           MayHoldRetry => MayHoldRetry',
           pc' = "flush" => \/ ~MayHoldRetry
                            \/ pc = "flush" /\ todo' \subseteq todo,
           \A j \in IssueIds : launches'[j] # None => launches'[j] = launches[j]
    PROVE  RetriesKept'
<1>1. ASSUME NEW j \in IssueIds, HasQueued(j)'
      PROVE  HasQueued(j) /\ executions'[j].retry = executions[j].retry
  BY <1>1 DEF HasQueued, SamePhase
<1>2. ASSUME NEW j \in IssueIds, executions'[j] # None, IsLive(executions'[j])
      PROVE  executions[j] # None /\ IsLive(executions[j])
  BY <1>2 DEF SamePhase, IsLive
<1>3. ASSUME NEW j \in IssueIds, HasQueued(j)'
      PROVE  stored'[j] = executions'[j].retry.attempt \/ pendingRetry'[j] # None
  BY <1>1, <1>3 DEF RetriesKept
<1>4. ASSUME NEW j \in IssueIds, pendingRetry'[j] # None
      PROVE  /\ MayHoldRetry'
             /\ HasQueued(j)' => pendingRetry'[j].attempt = executions'[j].retry.attempt
             /\ executions'[j] # None => ~IsLive(executions'[j])
             /\ pc' = "flush" => j \notin todo'
             /\ launches'[j] = None
  <2>1. /\ MayHoldRetry
        /\ HasQueued(j) => pendingRetry[j].attempt = executions[j].retry.attempt
        /\ executions[j] # None => ~IsLive(executions[j])
        /\ pc = "flush" => j \notin todo
        /\ launches[j] = None
    BY <1>4 DEF RetriesKept
  <2>. QED  BY <1>1, <1>2, <1>4, <2>1
<1>5. RetryIsDurable'
  <2>1. \A j \in IssueIds :
          launches'[j] # None => launches'[j] = launches[j] /\ stored'[j] = stored[j]
    OBVIOUS
  <2>. QED  BY <2>1 DEF RetriesKept, RetryIsDurable, Claims
<1>. QED  BY <1>3, <1>4, <1>5 DEF RetriesKept, HasQueued, MayHoldRetry

-----------------------------------------------------------------------------
(* One record of the map is replaced and nothing kept changes: requests to stop *)
(* a run, refreshes, releases by the tracker.                                  *)

LEMMA PutStep ==
    ASSUME IInv, NEW i \in IssueIds, NEW x, x # None => Recorded(x),
           NEW rc, rc \subseteq receipts \cup {i}, Put(i, x, rc),
           OnlyEnds(remote'), task' \subseteq task,
           UNCHANGED <<tracker, given, inbox, stored, ordinal, pendings, cooldown>>,
           metadata' \in [Workers -> IssueIds \cup {None}],
           \A w \in Workers :
              \/ metadata'[w] = metadata[w]
              \/ metadata'[w] = None /\ remote'[w] # "running",
           \* the record
           x # None => Backed(x, remote'),
           x # None => \/ executions[i] # None /\ SamePhase(x, executions[i])
                       \/ x.status \notin {"Claimed", "Running", "RetryQueued"},
           "ReadLease" \notin Failing /\ i \in receipts' => x # None,
           launches[i] = None,
           StopsSucceed /\ UpdatesOK => \A w \in Workers : metadata'[w] = i => Runs(x, w),
           \/ \A j \in IssueIds : pendingFinished[j] = None
           \/ /\ metadata' = metadata /\ x # None /\ executions[i] # None
              /\ SamePhase(x, executions[i])
           \/ ~UpdatesOK,
           \* the tick
           \/ GoesOn(i) /\ batch' = batch /\ launches' = launches /\ pc # "flush"
           \/ UNCHANGED tick /\ pc = "idle"
           \/ EndTick /\ \A j \in IssueIds : launches[j] = None
    PROVE  IInv'
<1>0. /\ MapsOK /\ WorldOK /\ KeptOK /\ TickOK /\ TodoOK /\ LaunchesOK /\ RunsOK
      /\ ReceiptsKept /\ SlotsOK /\ (StopsSucceed => RetriesKept /\ UpdatesOK)
  BY DEF IInv
<1>1. /\ MapsOK' /\ executions'[i] = x
      /\ \A j \in IssueIds : j # i => executions'[j] = executions[j]
      /\ receipts' \subseteq rc
      /\ x # None /\ x.status # "Released" => i \notin receipts'
  BY <1>0, PutResult
<1>2. /\ UNCHANGED <<pendingFinished, pendingRetry, pendingExhaustion>>
      /\ UNCHANGED <<stored, inbox, tracker, given, ordinal, cooldown>>
  BY DEF pendings
<1>3. inbox' \in Seq(OutcomeRecords) /\ batch \in 0..Len(inbox')
  BY <1>0, <1>2 DEF WorldOK, TickOK
<1>4. WorldOK'
  BY <1>0, <1>2, WorldEnds DEF WorldOK
<1>5. KeptOK'
  BY <1>0, <1>2 DEF KeptOK
<1>6. /\ TickOK' /\ TodoOK'
      /\ \/ launches' = launches /\ pc' = pc /\ started' = started /\ todo' \subseteq todo
         \/ /\ pc' = "idle"
            /\ \A j \in IssueIds : launches[j] = None /\ launches'[j] = None
      /\ launches' \in [IssueIds -> Executions \cup {None}]
      /\ MayHoldRetry => MayHoldRetry'
      /\ pc' = "flush" => pc = "flush" /\ todo' \subseteq todo
  <2>1. CASE GoesOn(i) /\ batch' = batch /\ launches' = launches /\ pc # "flush"
    <3>1. TickOK' /\ TodoOK'
      BY <1>0, <1>1, <1>2, <1>3, <2>1, GoesOnTick
    <3>. QED  BY <1>0, <2>1, <3>1 DEF GoesOn, MayHoldRetry, LaunchesOK
  <2>2. CASE UNCHANGED tick /\ pc = "idle"
    <3>1. /\ UNCHANGED <<pc, mode, todo, batch, failed, snap, launches, started>>
          /\ contradicted' = contradicted
      BY <2>2 DEF tick, locals
    <3>2. TickOK' /\ TodoOK'
      BY <1>0, <1>3, <2>2, <3>1 DEF TickOK, TodoOK
    <3>. QED  BY <1>0, <2>2, <3>1, <3>2 DEF MayHoldRetry, LaunchesOK
  <2>3. CASE EndTick /\ \A j \in IssueIds : launches[j] = None
    <3>1. /\ TickOK' /\ TodoOK' /\ LaunchesOK' /\ pc' = "idle"
          /\ \A j \in IssueIds : launches'[j] = None
      BY <1>3, <2>3, EndTickResult
    <3>. QED  BY <2>3, <3>1 DEF MayHoldRetry, LaunchesOK
  <2>. QED  BY <2>1, <2>2, <2>3
<1>7. \A j \in IssueIds : launches'[j] # None =>
        /\ launches'[j] = launches[j] /\ executions'[j] = executions[j]
        /\ pc' = pc /\ started' = started /\ todo' \subseteq todo
  BY <1>1, <1>6
<1>8. LaunchesOK'
  <2>1. CASE launches' = launches /\ pc' = pc /\ started' = started
             /\ todo' \subseteq todo
    BY <1>0, <1>2, <1>6, <1>7, <2>1, LaunchesStay
  <2>2. CASE /\ pc' = "idle"
             /\ \A j \in IssueIds : launches[j] = None /\ launches'[j] = None
    BY <1>6, <2>2 DEF LaunchesOK
  <2>. QED  BY <1>6, <2>1, <2>2
<1>9. RunsOK'
  BY <1>0, <1>1, <1>2, <1>7, RunsEnd
<1>10. StopsSucceed => RetriesKept'
  BY <1>0, <1>1, <1>2, <1>6, <1>7, RetriesStay
<1>11. ReceiptsKept'
  <2> SUFFICES ASSUME "ReadLease" \notin Failing, NEW j \in receipts'
               PROVE  executions'[j] # None
    BY DEF ReceiptsKept
  <2>1. CASE j = i
    BY <1>1, <2>1
  <2>2. CASE j # i
    <3>1. j \in receipts /\ j \in IssueIds
      BY <1>0, <1>1, <2>2 DEF MapsOK
    <3>. QED  BY <1>0, <1>1, <2>2, <3>1 DEF ReceiptsKept
  <2>. QED  BY <2>1, <2>2
<1>12. SlotsOK'
  BY <1>0, <1>6, SlotsStay
<1>13. ASSUME StopsSucceed
       PROVE  UpdatesOK'
  <2>1. UpdatesOK /\ ~cooldown'
    BY <1>0, <1>2, <1>13 DEF UpdatesOK
  <2>2. \A w \in Workers : metadata'[w] \in {metadata[w], None}
    OBVIOUS
  <2>3. \A w \in Workers : metadata'[w] = i => Runs(executions'[i], w)
    BY <1>1, <1>13, <2>1
  <2>4. ASSUME NEW j \in IssueIds, pendingFinished'[j] # None
        PROVE  KeptNow(j)'
    <3>1. KeptNow(j)
      BY <1>2, <2>1, <2>4 DEF UpdatesOK
    <3>2. CASE GoesOn(i) /\ batch' = batch /\ launches' = launches /\ pc # "flush"
      BY <3>1, <3>2 DEF GoesOn, KeptNow
    <3>3. CASE pc' = "idle"
      BY <3>3 DEF KeptNow
    <3>. QED  BY <1>3, <3>2, <3>3, EndTickResult DEF tick
  <2>5. CASE \A j \in IssueIds : pendingFinished[j] = None
    BY <1>0, <1>1, <1>2, <2>1, <2>2, <2>3, <2>4, <2>5, UpdatesStay
  <2>6. CASE /\ metadata' = metadata /\ x # None /\ executions[i] # None
             /\ SamePhase(x, executions[i])
    <3>1. pendingFinished'[i] # None =>
            /\ executions'[i] # None /\ executions'[i].status = "Running"
            /\ pendingFinished'[i].exec.status = "Running"
            /\ executions'[i].run = pendingFinished'[i].exec.run
            /\ metadata'[executions'[i].run.worker] = None
      BY <1>1, <1>2, <2>1, <2>6 DEF UpdatesOK, SamePhase
    <3>. QED  BY <1>0, <1>1, <1>2, <2>1, <2>2, <2>3, <2>4, <3>1, UpdatesStay
  <2>. QED  BY <2>1, <2>5, <2>6
<1>. QED  BY <1>1, <1>4, <1>5, <1>6, <1>8, <1>9, <1>10, <1>11, <1>12, <1>13
     DEF IInv, StopsSucceed

LEMMA InIssues ==
    ASSUME IInv, NEW i \in IssueIds, executions[i] # None
    PROVE  /\ Recorded(executions[i]) /\ WellFormed(executions[i])
           /\ Backed(executions[i], remote) /\ launches[i] = None
           /\ IsLive(executions[i]) =>
                 /\ executions[i].status = "Running"
                 /\ executions[i].run.worker \in Workers
                 /\ executions[i].conversation # None
<1>1. Recorded(executions[i]) /\ Backed(executions[i], remote) /\ launches[i] = None
  BY DEF IInv, MapsOK, RunsOK, LaunchesOK
<1>. QED  BY <1>1, LiveWorker DEF Recorded, IsLive, WellFormed

\* A step that changes no phase: the record is refreshed or a stop is asked for.
LEMMA SamePhaseStep ==
    ASSUME IInv, NEW i \in IssueIds, executions[i] # None,
           NEW x, WellFormed(x), SamePhase(x, executions[i]),
           \/ Acknowledged(x) => Acknowledged(executions[i])
           \/ remote'[executions[i].run.worker] = "stopped",
           Put(i, x, receipts), OnlyEnds(remote'),
           UNCHANGED <<tracker, task, given, inbox, stored, metadata, ordinal,
                       pendings, cooldown>>,
           \/ GoesOn(i) /\ batch' = batch /\ launches' = launches /\ pc # "flush"
           \/ UNCHANGED tick /\ pc = "idle"
    PROVE  IInv'
<1>1. /\ Recorded(executions[i]) /\ WellFormed(executions[i])
      /\ Backed(executions[i], remote) /\ launches[i] = None
  BY InIssues
<1>2. Recorded(x) /\ x # None
  BY <1>1, InputAssumption DEF Recorded, SamePhase, WellFormed
<1>3. WorldOK /\ KeptOK
  BY DEF IInv
<1>4. Backed(executions[i], remote')
  BY <1>1, <1>3, BackedEnds
<1>5. Backed(x, remote')
  BY <1>4 DEF Backed, SamePhase, IsLive
<1>6. metadata' \in [Workers -> IssueIds \cup {None}]
  BY <1>3 DEF KeptOK
<1>7. StopsSucceed /\ UpdatesOK => \A w \in Workers : metadata'[w] = i => Runs(x, w)
  BY <1>2, InputAssumption DEF UpdatesOK, Runs, SamePhase
<1>8. receipts \subseteq receipts \cup {i} /\ task' \subseteq task
  OBVIOUS
<1>9. \A w \in Workers : metadata'[w] = metadata[w]
  OBVIOUS
<1>. QED  BY <1>1, <1>2, <1>5, <1>6, <1>7, <1>8, <1>9, PutStep

\* A stop asked for and its answer: only the harness's own confirmation counts.
LEMMA InterruptedResult ==
    ASSUME NEW e, WellFormed(e), e.conversation # None,
           NEW reason \in InterruptReasons, NEW next \in NextStates,
           NEW asked, asked = RequestInterrupt(e, reason, next)
    PROVE  /\ WellFormed(asked) /\ SamePhase(asked, e)
           /\ Acknowledged(asked) => Acknowledged(e)
           /\ InterruptQueued(e) =>
                \A r \in InterruptReplies :
                   LET x == UpdateInterrupt(asked, r.status) IN
                   /\ WellFormed(x) /\ SamePhase(x, e)
                   /\ Acknowledged(x) => r.reached
<1>1. /\ WellFormed(asked) /\ SamePhase(asked, e)
      /\ asked.interrupt # None
      /\ InterruptQueued(e) => asked.interrupt.status = "Requested"
      /\ ~InterruptQueued(e) => /\ e.interrupt # None
                                /\ asked.interrupt.status = e.interrupt.status
  BY RequestInterruptResult
<1>2. ASSUME InterruptQueued(e), NEW r \in InterruptReplies
      PROVE  LET x == UpdateInterrupt(asked, r.status) IN
             /\ WellFormed(x) /\ SamePhase(x, e)
             /\ Acknowledged(x) => r.reached
  <2> DEFINE x == UpdateInterrupt(asked, r.status)
  <2>1. r.status \in InterruptStatuses /\ (r.status = "Acknowledged" => r.reached)
    BY DEF InterruptReplies, InterruptStatuses
  <2>2. WellFormed(x) /\ SamePhase(x, asked) /\ x.interrupt.status = r.status
    BY <1>1, <1>2, <2>1, UpdateInterruptResult
  <2> HIDE DEF x
  <2>3. WellFormed(x) /\ SamePhase(x, e) /\ (Acknowledged(x) => r.reached)
    BY <1>1, <2>1, <2>2 DEF SamePhase, Acknowledged
  <2>. QED  BY <2>3 DEF x
<1>. QED  BY <1>1, <1>2 DEF Acknowledged

LEMMA OperatorCancelStep ==
    ASSUME IInv, NEW i \in IssueIds, OperatorCancel(i)
    PROVE  IInv'
<1> DEFINE e == executions[i]
           asked == RequestInterrupt(e, "OperatorCancel", "Paused")
<1>1. /\ e # None /\ IsLive(e) /\ e.conversation # None /\ pc = "idle"
      /\ UNCHANGED <<tracker, task, given, inbox, stored, metadata, ordinal,
                     pendings, cooldown, tick>>
      /\ IF InterruptQueued(e)
         THEN \E r \in InterruptReplies :
                  /\ Put(i, UpdateInterrupt(asked, r.status), receipts)
                  /\ remote' = StopRemote(asked.run.worker, r.reached)
         ELSE Put(i, asked, receipts) /\ UNCHANGED remote
  BY DEF OperatorCancel, RequestInterruptOk
<1>2. /\ WellFormed(e) /\ e.run.worker \in Workers
      /\ remote[e.run.worker] # "none"
  BY <1>1, InIssues DEF Backed
<1> HIDE DEF asked
<1>3. /\ WellFormed(asked) /\ SamePhase(asked, e)
      /\ Acknowledged(asked) => Acknowledged(e)
      /\ InterruptQueued(e) =>
           \A r \in InterruptReplies :
              LET x == UpdateInterrupt(asked, r.status) IN
              /\ WellFormed(x) /\ SamePhase(x, e)
              /\ Acknowledged(x) => r.reached
  BY <1>1, <1>2, InterruptedResult DEF asked, InterruptReasons, NextStates
<1>4. asked.run.worker = e.run.worker
  BY <1>3 DEF SamePhase
<1>5. WorldOK
  BY DEF IInv
<1>6. CASE InterruptQueued(e)
  <2>1. PICK r \in InterruptReplies :
           /\ Put(i, UpdateInterrupt(asked, r.status), receipts)
           /\ remote' = StopRemote(e.run.worker, r.reached)
    BY <1>1, <1>4, <1>6
  <2> DEFINE x == UpdateInterrupt(asked, r.status)
  <2>2. WellFormed(x) /\ SamePhase(x, e) /\ (Acknowledged(x) => r.reached)
    BY <1>3, <1>6
  <2>3. OnlyEnds(remote') /\ (r.reached => remote'[e.run.worker] = "stopped")
    BY <1>2, <1>5, <2>1, StopRemoteResult
  <2> HIDE DEF x
  <2>4. Put(i, x, receipts)
    BY <2>1 DEF x
  <2>. QED  BY <1>1, <2>2, <2>3, <2>4, SamePhaseStep
<1>7. CASE ~InterruptQueued(e)
  <2>1. OnlyEnds(remote') /\ Put(i, asked, receipts)
    BY <1>1, <1>5, <1>7, SameRuns
  <2>. QED  BY <1>1, <1>3, <2>1, SamePhaseStep
<1>. QED  BY <1>6, <1>7

-----------------------------------------------------------------------------
(* Steps that change the tick alone. *)

\* The tick goes on, or ends and drops the claims it has made.
LEMMA ControlStep ==
    ASSUME IInv,
           UNCHANGED <<world, executions, counts, metadata, ordinal, receipts, pendings>>,
           TickOK', TodoOK',
           cooldown' \in BOOLEAN, StopsSucceed => cooldown' = cooldown,
           launches' \in [IssueIds -> Executions \cup {None}],
           \A j \in IssueIds : launches'[j] = None,
           pc = "dispatch" \/ \A j \in IssueIds : launches[j] = None,
           MayHoldRetry => MayHoldRetry',
           pc' = "flush" => ~MayHoldRetry,
           StopsSucceed => \A j \in IssueIds :
              KeptNow(j) /\ pendingFinished[j] # None => KeptNow(j)'
    PROVE  IInv'
<1>0. /\ MapsOK /\ WorldOK /\ KeptOK /\ TickOK /\ TodoOK /\ LaunchesOK /\ RunsOK
      /\ ReceiptsKept /\ SlotsOK /\ (StopsSucceed => RetriesKept /\ UpdatesOK)
  BY DEF IInv
<1>1. /\ UNCHANGED <<tracker, remote, task, given, inbox, stored>>
      /\ UNCHANGED <<pendingFinished, pendingRetry, pendingExhaustion>>
      /\ UNCHANGED <<executions, counts, metadata, ordinal, receipts>>
  BY DEF world, pendings
<1>2. MapsOK' /\ WorldOK' /\ KeptOK' /\ ReceiptsKept'
  <2>1. MapsOK'
    BY <1>0, <1>1 DEF MapsOK, RunningCountsExact, Known
  <2>2. WorldOK'
    BY <1>0, <1>1 DEF WorldOK
  <2>3. KeptOK'
    BY <1>0, <1>1 DEF KeptOK
  <2>4. ReceiptsKept'
    BY <1>0, <1>1 DEF ReceiptsKept
  <2>. QED  BY <2>1, <2>2, <2>3, <2>4
<1>3. LaunchesOK'
  BY DEF LaunchesOK, TickOK
<1>4. RunsOK'
  BY <1>0, <1>1 DEF RunsOK
<1>5. StopsSucceed => RetriesKept'
  BY <1>0, <1>1, RetriesStay
<1>6. SlotsOK'
  <2>1. Busy' = Busy /\ Claims' = {}
    BY <1>1 DEF Busy, Claims
  <2>2. IsFiniteSet(Busy) /\ IsFiniteSet(Claims)
    <3>1. Busy \in SUBSET Workers /\ Claims \in SUBSET IssueIds
      BY DEF Busy, Claims
    <3>. QED  BY <3>1, SchedulerAssumption, FS_Subset
  <2>3. /\ Cardinality(Busy) \in Nat /\ Cardinality(Claims) \in Nat
        /\ Cardinality(Claims') = 0
    BY <2>1, <2>2, FS_CardinalityType, FS_EmptySet
  <2>4. Occupied'
    BY <1>0, <2>1, <2>3, SchedulerAssumption DEF SlotsOK, Occupied
  <2>5. ASSUME LaunchesSucceed
        PROVE  WatchedIsSupervised'
    <3> SUFFICES ASSUME NEW w \in Workers, remote'[w] = "running"
                 PROVE  metadata'[w] # None
      BY DEF WatchedIsSupervised, Supervised
    <3>1. Supervised(w) /\ remote[w] = "running"
      BY <1>0, <1>1, <2>5 DEF SlotsOK, WatchedIsSupervised
    <3>2. ~ \E j \in Claims : launches[j].run.worker = w
      BY <1>0, <3>1 DEF Claims, RunsOK
    <3>. QED  BY <1>1, <3>1, <3>2 DEF Supervised
  <2>. QED  BY <2>4, <2>5 DEF SlotsOK, LaunchesSucceed
<1>7. ASSUME StopsSucceed
      PROVE  UpdatesOK'
  <2>1. UpdatesOK /\ cooldown' = cooldown
    BY <1>0, <1>7
  <2>2. \A j \in IssueIds : pendingFinished'[j] # None => KeptNow(j)'
    BY <1>1, <1>7, <2>1 DEF UpdatesOK
  <2>. QED  BY <1>1, <2>1, <2>2 DEF UpdatesOK
<1>. QED  BY <1>2, <1>3, <1>4, <1>5, <1>6, <1>7 DEF IInv, StopsSucceed

\* An error that leaves nothing but the end of the tick.
LEMMA EndStep ==
    ASSUME IInv, EndTick,
           UNCHANGED <<world, executions, counts, metadata, ordinal, receipts, pendings>>,
           cooldown' = cooldown,
           pc = "dispatch" \/ \A j \in IssueIds : launches[j] = None
    PROVE  IInv'
<1>1. inbox' \in Seq(OutcomeRecords) /\ cooldown' \in BOOLEAN
  BY DEF IInv, WorldOK, KeptOK, world
<1>2. /\ TickOK' /\ TodoOK' /\ LaunchesOK' /\ pc' = "idle"
      /\ \A j \in IssueIds : launches'[j] = None
  BY <1>1, EndTickResult
<1>. QED  BY <1>1, <1>2, ControlStep DEF LaunchesOK, MayHoldRetry, KeptNow

\* The record is refreshed, created, reopened, or still absent.
LEMMA QuietStep ==
    ASSUME IInv, NEW i \in IssueIds, launches[i] = None, NEW x,
           \/ x = None /\ executions[i] = None
           \/ /\ executions[i] # None /\ Recorded(x) /\ SamePhase(x, executions[i])
              /\ Acknowledged(x) => Acknowledged(executions[i])
           \/ /\ Recorded(x) /\ x.status = "Unclaimed"
              /\ executions[i] # None => executions[i].status = "Released",
           Put(i, x, receipts), GoesOn(i), batch' = batch, launches' = launches,
           UNCHANGED <<tracker, task, given, inbox, stored, metadata, ordinal, remote,
                       pendings, cooldown>>,
           pc \notin {"idle", "exhaustion", "snapshot", "flush", "drain"}
    PROVE  IInv'
<1>0. WorldOK /\ KeptOK /\ ReceiptsKept /\ RunsOK /\ MapsOK
  BY DEF IInv
<1>1. OnlyEnds(remote') /\ remote' = remote
  BY <1>0, SameRuns
<1>2. CASE x = None /\ executions[i] = None
  <2>1. "ReadLease" \notin Failing /\ i \in receipts' => x # None
    <3>1. receipts' = receipts
      BY <1>2 DEF Put
    <3>. QED  BY <1>0, <1>2, <3>1 DEF ReceiptsKept
  <2>2. UpdatesOK => \A j \in IssueIds : pendingFinished[j] = None
    BY DEF UpdatesOK, KeptNow
  <2>3. UpdatesOK => \A w \in Workers : metadata'[w] # i
    BY <1>2, InputAssumption DEF UpdatesOK, Runs
  <2>4. /\ receipts \subseteq receipts \cup {i} /\ task' \subseteq task
        /\ metadata' \in [Workers -> IssueIds \cup {None}]
        /\ \A w \in Workers : metadata'[w] = metadata[w]
    BY <1>0 DEF KeptOK
  <2>. QED  BY <1>1, <1>2, <2>1, <2>2, <2>3, <2>4, PutStep
<1>3. CASE /\ executions[i] # None /\ Recorded(x) /\ SamePhase(x, executions[i])
           /\ Acknowledged(x) => Acknowledged(executions[i])
  BY <1>1, <1>3, SamePhaseStep DEF Recorded
<1>4. CASE /\ Recorded(x) /\ x.status = "Unclaimed"
           /\ executions[i] # None => executions[i].status = "Released"
  <2>1. x # None /\ ~IsLive(x)
    BY <1>4, InputAssumption DEF Recorded, WellFormed, IsLive
  <2>2. Backed(x, remote')
    BY <2>1, NotLiveBacked
  <2>3. UpdatesOK => \A j \in IssueIds : pendingFinished[j] = None
    BY DEF UpdatesOK, KeptNow
  <2>4. UpdatesOK => \A w \in Workers : metadata'[w] # i
    BY <1>4, InputAssumption DEF UpdatesOK, Runs
  <2>5. /\ receipts \subseteq receipts \cup {i} /\ task' \subseteq task
        /\ metadata' \in [Workers -> IssueIds \cup {None}]
        /\ \A w \in Workers : metadata'[w] = metadata[w]
    BY <1>0 DEF KeptOK
  <2>. QED  BY <1>1, <1>4, <2>1, <2>2, <2>3, <2>4, <2>5, PutStep
<1>. QED  BY <1>2, <1>3, <1>4

-----------------------------------------------------------------------------
(* reconcile_tracker_state. *)

LEMMA Reconciling ==
    ASSUME IInv, NEW i \in IssueIds, Reconciles(i)
    PROVE  /\ pc = "reconcile" /\ i \in todo /\ snap[i] \in StateNames
           /\ \A j \in IssueIds : launches[j] = None
<1>1. pc = "reconcile" /\ i \in todo /\ snap[i] # None
  BY DEF Reconciles, IInv, TodoOK
<1>2. snap[i] \in StateNames
  BY <1>1 DEF IInv, TickOK
<1>. QED  BY <1>1, <1>2 DEF IInv, LaunchesOK

\* interrupt_human_review_polling_for_merging
LEMMA InterruptForMergingStep ==
    ASSUME IInv, NEW i \in IssueIds, Reconciles(i),
           MergingCandidate(executions[i], snap[i]), InterruptForMerging(i),
           UNCHANGED <<WorldButRemote, metadata, ordinal, pendings, cooldown>>
    PROVE  IInv'
<1> DEFINE e == executions[i]
           seen == InState(e, snap[i])
           asked == RequestInterrupt(seen, "TrackerMergingSupersedesHumanReview",
                                     "CloseoutPending")
<1>1. /\ pc = "reconcile" /\ snap[i] \in StateNames
      /\ \A j \in IssueIds : launches[j] = None
  BY Reconciling
<1>2. e # None /\ IsLive(e)
  BY DEF MergingCandidate
<1>3. /\ WellFormed(e) /\ e.run.worker \in Workers /\ e.conversation # None
      /\ remote[e.run.worker] # "none"
  BY <1>2, InIssues DEF Backed
<1>4. UNCHANGED <<tracker, task, given, inbox, stored, metadata, ordinal, pendings,
                  cooldown>>
  BY DEF WorldButRemote
<1>5. WorldOK /\ TickOK
  BY DEF IInv
<1>6. \/ ~InterruptQueued(e) /\ Put(i, asked, receipts) /\ Handled(i) /\ UNCHANGED remote
      \/ /\ InterruptQueued(e) /\ Handled(i)
         /\ \E r \in InterruptReplies :
               /\ Put(i, UpdateInterrupt(asked, r.status), receipts)
               /\ remote' = StopRemote(e.run.worker, r.reached)
      \/ KeepMap /\ EndTick /\ UNCHANGED remote
  BY DEF InterruptForMerging
<1>7. /\ WellFormed(seen) /\ SamePhase(seen, e) /\ seen.interrupt = e.interrupt
      /\ seen.conversation = e.conversation
  BY <1>1, <1>3, InStateResult
<1>8. InterruptQueued(e) <=> InterruptQueued(seen)
  BY <1>7 DEF InterruptQueued
<1> HIDE DEF seen
<1>9. /\ WellFormed(asked) /\ SamePhase(asked, seen)
      /\ Acknowledged(asked) => Acknowledged(seen)
      /\ InterruptQueued(seen) =>
           \A r \in InterruptReplies :
              LET x == UpdateInterrupt(asked, r.status) IN
              /\ WellFormed(x) /\ SamePhase(x, seen)
              /\ Acknowledged(x) => r.reached
  BY <1>3, <1>7, InterruptedResult DEF InterruptReasons, NextStates
<1> HIDE DEF asked
<1>10. SamePhase(asked, e) /\ (Acknowledged(asked) => Acknowledged(e))
  BY <1>7, <1>9 DEF SamePhase, Acknowledged
<1>11. Handled(i) => GoesOn(i) /\ batch' = batch /\ launches' = launches
  BY <1>5, HandledGoesOn
<1>12. CASE ~InterruptQueued(e) /\ Put(i, asked, receipts) /\ Handled(i)
            /\ UNCHANGED remote
  <2>1. OnlyEnds(remote')
    BY <1>5, <1>12, SameRuns
  <2>. QED  BY <1>1, <1>2, <1>4, <1>9, <1>10, <1>11, <1>12, <2>1, SamePhaseStep
<1>13. CASE /\ InterruptQueued(e) /\ Handled(i)
            /\ \E r \in InterruptReplies :
                  /\ Put(i, UpdateInterrupt(asked, r.status), receipts)
                  /\ remote' = StopRemote(e.run.worker, r.reached)
  <2>1. PICK r \in InterruptReplies :
           /\ Put(i, UpdateInterrupt(asked, r.status), receipts)
           /\ remote' = StopRemote(e.run.worker, r.reached)
    BY <1>13
  <2> DEFINE x == UpdateInterrupt(asked, r.status)
  <2>2. WellFormed(x) /\ SamePhase(x, seen) /\ (Acknowledged(x) => r.reached)
    BY <1>8, <1>9, <1>13
  <2>3. OnlyEnds(remote') /\ (r.reached => remote'[e.run.worker] = "stopped")
    BY <1>3, <1>5, <2>1, StopRemoteResult
  <2> HIDE DEF x
  <2>4. Put(i, x, receipts)
    BY <2>1 DEF x
  <2>5. SamePhase(x, e)
    BY <1>7, <2>2 DEF SamePhase
  <2>. QED  BY <1>1, <1>2, <1>4, <1>11, <1>13, <2>2, <2>3, <2>4, <2>5, SamePhaseStep
<1>14. CASE KeepMap /\ EndTick /\ UNCHANGED remote
  BY <1>1, <1>4, <1>14, EndStep DEF KeepMap, world
<1>. QED  BY <1>6, <1>12, <1>13, <1>14

LEMMA ReconcileActiveStep ==
    ASSUME IInv, NEW i \in IssueIds, ReconcileActive(i)
    PROVE  IInv'
<1> DEFINE e == executions[i]
<1>1. /\ pc = "reconcile" /\ snap[i] \in StateNames
      /\ \A j \in IssueIds : launches[j] = None
  BY Reconciling DEF ReconcileActive
<1>2. e # None => Recorded(e)
  BY DEF IInv, MapsOK
<1>3. UNCHANGED <<tracker, task, given, inbox, stored, metadata, ordinal, pendings,
                  cooldown>>
  BY DEF ReconcileActive, WorldButRemote
<1>4. Handled(i) => GoesOn(i) /\ batch' = batch /\ launches' = launches
  BY HandledGoesOn DEF IInv
<1>5. CASE MergingCandidate(e, snap[i])
  BY <1>5, InterruptForMergingStep DEF ReconcileActive
<1>6. CASE ~MergingCandidate(e, snap[i]) /\ mode = "full"
  <2>1. PICK x \in IF e # None /\ Parked(e) THEN Cleaned(e) ELSE {e} :
          Put(i, Upserted(x, i, snap[i]), receipts) /\ Handled(i)
    BY <1>6 DEF ReconcileActive
  <2>2. UNCHANGED remote
    BY <1>6 DEF ReconcileActive
  <2>3. /\ x = None <=> e = None
        /\ x # None => /\ Recorded(x) /\ SamePhase(x, e)
                       /\ x.interrupt = e.interrupt
    <3>1. CASE e # None /\ Parked(e)
      <4>1. e.status = "Released" /\ WellFormed(e) /\ x \in Cleaned(e)
        BY <1>2, <2>1, <3>1 DEF Parked, RetryExhausted, Recorded
      <4>2. WellFormed(x) /\ SamePhase(x, e) /\ x.interrupt = e.interrupt
        BY <4>1, CleanedResult
      <4>. QED  BY <3>1, <4>1, <4>2, InputAssumption DEF Recorded, SamePhase, WellFormed
    <3>2. CASE x = e
      BY <1>2, <3>2 DEF SamePhase
    <3>. QED  BY <2>1, <3>1, <3>2
  <2> DEFINE f == Upserted(x, i, snap[i])
  <2>4. /\ Recorded(f) /\ f # None
        /\ \/ f.status = "Unclaimed" /\ (x # None => x.status = "Released")
           \/ x # None /\ SamePhase(f, x) /\ f.interrupt = x.interrupt
    BY <1>1, <2>3, UpsertedResult
  <2>5. Put(i, f, receipts)
    BY <2>1
  <2> HIDE DEF f
  <2>6. \/ /\ e # None /\ SamePhase(f, e)
           /\ Acknowledged(f) => Acknowledged(e)
        \/ f.status = "Unclaimed" /\ (e # None => e.status = "Released")
    BY <2>3, <2>4 DEF SamePhase, Acknowledged
  <2>. QED  BY <1>1, <1>3, <1>4, <2>1, <2>2, <2>4, <2>5, <2>6, QuietStep
<1>7. CASE ~MergingCandidate(e, snap[i]) /\ mode # "full"
  <2> DEFINE x == IF e = None THEN None ELSE InState(e, snap[i])
  <2>1. Put(i, x, receipts) /\ Handled(i) /\ UNCHANGED remote
    BY <1>7 DEF ReconcileActive
  <2>2. e # None => /\ WellFormed(x) /\ SamePhase(x, e)
                    /\ x.interrupt = e.interrupt
    BY <1>1, <1>2, InStateResult DEF Recorded
  <2>3. e = None => x = None
    OBVIOUS
  <2> HIDE DEF x
  <2>4. e # None => /\ Recorded(x) /\ SamePhase(x, e)
                    /\ Acknowledged(x) => Acknowledged(e)
    BY <1>2, <2>2 DEF Recorded, SamePhase, Acknowledged
  <2>. QED  BY <1>1, <1>3, <1>4, <2>1, <2>3, <2>4, QuietStep
<1>. QED  BY <1>5, <1>6, <1>7

LEMMA ReconcileParkedStep ==
    ASSUME IInv, NEW i \in IssueIds, ReconcileParked(i)
    PROVE  IInv'
<1> DEFINE e == executions[i]
<1>1. /\ pc = "reconcile" /\ snap[i] \in StateNames
      /\ \A j \in IssueIds : launches[j] = None
  BY Reconciling DEF ReconcileParked
<1>2. UNCHANGED <<tracker, remote, task, given, inbox, stored, metadata, ordinal,
                  pendings, cooldown>>
  BY DEF ReconcileParked, world
<1>3. GoesOn(i) /\ batch' = batch /\ launches' = launches
  BY HandledGoesOn DEF IInv, ReconcileParked
<1>4. \/ e = None /\ KeepMap
      \/ /\ e # None /\ RetryExhausted(e)
         /\ \E x \in IF RetainFailed THEN {e} ELSE Cleaned(e) :
               Put(i, InState(x, snap[i]), receipts)
  BY DEF ReconcileParked
<1>5. CASE e = None /\ KeepMap
  <2>1. /\ MapsOK /\ executions \in [IssueIds -> Executions \cup {None}]
        /\ counts \in [StateNames -> Int]
    BY DEF IInv, MapsOK
  <2>2. \A s \in StateNames :
          counts[s] - One(s, RunningKey(None)) + One(s, RunningKey(None)) = counts[s]
    BY <2>1 DEF One, RunningKey
  <2>3. Put(i, None, receipts)
    BY <1>5, <2>1, <2>2 DEF Put, KeepMap
  <2>. QED  BY <1>1, <1>2, <1>3, <1>5, <2>3, QuietStep
<1>6. CASE /\ e # None /\ RetryExhausted(e)
           /\ \E x \in IF RetainFailed THEN {e} ELSE Cleaned(e) :
                 Put(i, InState(x, snap[i]), receipts)
  <2>1. PICK x \in IF RetainFailed THEN {e} ELSE Cleaned(e) :
          Put(i, InState(x, snap[i]), receipts)
    BY <1>6
  <2>2. WellFormed(e) /\ e.status = "Released"
    BY <1>6, InIssues DEF RetryExhausted
  <2>3. WellFormed(x) /\ SamePhase(x, e) /\ x.interrupt = e.interrupt
    BY <2>1, <2>2, CleanedResult DEF SamePhase, Cleaned
  <2> DEFINE f == InState(x, snap[i])
  <2>4. WellFormed(f) /\ SamePhase(f, x) /\ f.interrupt = x.interrupt
    BY <1>1, <2>3, InStateResult
  <2>5. Put(i, f, receipts)
    BY <2>1
  <2> HIDE DEF f
  <2>6. /\ Recorded(f) /\ SamePhase(f, e)
        /\ Acknowledged(f) => Acknowledged(e)
    BY <2>2, <2>3, <2>4 DEF Recorded, SamePhase, Acknowledged
  <2>. QED  BY <1>1, <1>2, <1>3, <1>6, <2>5, <2>6, QuietStep
<1>. QED  BY <1>4, <1>5, <1>6

EndedWell(e) == e.last # None /\ e.last.outcome = "Succeeded"

\* release_issue, once no run stands in the way: the record is released or lost
\* with an error, and then the run had succeeded and no receipt is left, unless
\* the lease check failed.
LEMMA FinalisedResult ==
    ASSUME NEW e, WellFormed(e), NEW reason \in ReleaseReasons, NEW known,
           NEW r \in Finalised(e, reason, known)
    PROVE  /\ r.exec # None => /\ WellFormed(r.exec) /\ r.exec.status = "Released"
                               /\ r.exec.last = e.last
           /\ r.exec = None => \/ Fails("ReadLease")
                               \/ ~r.receipt /\ ~known /\ EndedWell(e)
<1> DEFINE exhausted == RetryExhausted(e)
           cleanup == reason = "TrackerTerminal"
           released == CASE e.status # "Released" -> Release(e, reason, None)
                         [] cleanup /\ ~exhausted /\ e.status = "Released" ->
                               ReplaceReleaseReason(e, reason)
                         [] OTHER -> e
           success == cleanup /\ e.last # None /\ e.last.outcome = "Succeeded"
           removes == cleanup /\ e.workspace # None /\ ~(exhausted /\ RetainFailed)
           result(ok, x) == [ok |-> ok, exec |-> x, receipt |-> success]
           unmarked(x) == IF exhausted /\ (RetainFailed \/ x.workspace = None)
                          THEN {result(TRUE, ReplaceReleaseReason(x, reason))}
                               \cup (IF Fails("PersistExhaustion")
                                     THEN {result(FALSE, x)} ELSE {})
                          ELSE {result(TRUE, x)}
           unrecorded == IF Fails("PersistState") /\ success /\ ~known
                         THEN {[ok |-> FALSE, exec |-> None, receipt |-> FALSE]} ELSE {}
           unleased == IF Fails("PersistState") /\ cleanup /\ e.workspace # None
                       THEN {result(FALSE, released)} ELSE {}
           unread == IF Fails("ReadLease") /\ removes THEN {result(FALSE, None)} ELSE {}
           ends == IF removes THEN Cleaned(released) ELSE {released}
<1>1. /\ WellFormed(released) /\ released.status = "Released"
      /\ released.last = e.last
  <2>1. CASE e.status # "Released"
    <3>1. released = Release(e, reason, None)
      BY <2>1
    <3>. QED  BY <3>1, ReleaseResult
  <2>2. CASE e.status = "Released"
    <3>1. released = ReplaceReleaseReason(e, reason) \/ released = e
      BY <2>2
    <3>. QED  BY <2>2, <3>1, ReplaceReleaseReasonResult
  <2>. QED  BY <2>1, <2>2
<1>2. ASSUME NEW x \in ends
      PROVE  WellFormed(x) /\ x.status = "Released" /\ x.last = e.last
  <2> HIDE DEF released
  <2>. QED  BY <1>1, CleanedResult DEF SamePhase
<1>3. Finalised(e, reason, known)
      = unrecorded \cup unleased \cup unread \cup UNION {unmarked(x) : x \in ends}
  BY Zenon DEF Finalised
<1>4. /\ r \in unrecorded => r.exec = None /\ ~r.receipt /\ ~known /\ success
      /\ r \in unleased => r.exec = released
      /\ r \in unread => r.exec = None /\ Fails("ReadLease")
  <2> HIDE DEF released, success, removes
  <2>. QED  OBVIOUS
<1>5. \A x \in ends : r \in unmarked(x)
                       => r.exec \in {x, ReplaceReleaseReason(x, reason)}
  <2> HIDE DEF released, ends, success
  <2>. QED  OBVIOUS
<1> HIDE DEF unrecorded, unleased, unread, unmarked, ends, released
<1>7. \/ r \in unrecorded \/ r \in unleased \/ r \in unread
      \/ \E x \in ends : r \in unmarked(x)
  BY <1>3
<1>8. CASE r \in unrecorded
  BY <1>4, <1>8 DEF EndedWell
<1>9. CASE r \in unleased
  BY <1>1, <1>4, <1>9, InputAssumption DEF WellFormed
<1>10. CASE r \in unread
  BY <1>4, <1>10
<1>11. CASE \E x \in ends : r \in unmarked(x)
  <2>1. PICK x \in ends : r \in unmarked(x)
    BY <1>11
  <2>2. WellFormed(x) /\ x.status = "Released" /\ x.last = e.last
    BY <1>2
  <2>3. /\ WellFormed(ReplaceReleaseReason(x, reason))
        /\ ReplaceReleaseReason(x, reason).status = "Released"
        /\ ReplaceReleaseReason(x, reason).last = x.last
    BY <2>2, ReplaceReleaseReasonResult
  <2>4. r.exec = x \/ r.exec = ReplaceReleaseReason(x, reason)
    BY <1>5, <2>1
  <2>. QED  BY <2>2, <2>3, <2>4, InputAssumption DEF WellFormed
<1>. QED  BY <1>7, <1>8, <1>9, <1>10, <1>11

\* release_issue: a live run is stopped first, and keeps its record until the
\* harness confirms.
LEMMA ReleasesResult ==
    ASSUME NEW i, NEW e, WellFormed(e), e.status # "Claimed",
           NEW reason \in ReleaseReasons, NEW r \in Releases(i, e, reason)
    PROVE  /\ r.exec # None => Recorded(r.exec)
           /\ ~IsLive(e) => /\ r.exec # None => r.exec.last = e.last
                            /\ r.exec = None => Fails("ReadLease") \/ EndedWell(e)
           /\ r.exec = None => Fails("ReadLease") \/ (~r.receipt /\ i \notin receipts)
           /\ r.stopped => IsLive(e) /\ (r.reached \/ Acknowledged(e))
           /\ (r.stopped \/ ~IsLive(e)) /\ r.exec # None => r.exec.status = "Released"
           /\ IsLive(e) /\ ~r.stopped =>
                 /\ r.exec # None /\ SamePhase(r.exec, e) /\ ~r.receipt
                 /\ Acknowledged(r.exec) => r.reached \/ Acknowledged(e)
<1> DEFINE tag(q, stopped, reached) ==
              [ok |-> q.ok, exec |-> q.exec, receipt |-> q.receipt,
               stopped |-> stopped, reached |-> reached]
<1>1. CASE ~IsLive(e)
  <2>1. PICK q \in Finalised(e, reason, i \in receipts) : r = tag(q, FALSE, FALSE)
    BY <1>1 DEF Releases
  <2>2. /\ q.exec # None => /\ WellFormed(q.exec) /\ q.exec.status = "Released"
                            /\ q.exec.last = e.last
        /\ q.exec = None => \/ Fails("ReadLease")
                            \/ ~q.receipt /\ i \notin receipts /\ EndedWell(e)
    BY FinalisedResult
  <2>3. r.exec = q.exec /\ r.receipt = q.receipt /\ r.stopped = FALSE
    BY <2>1
  <2>. QED  BY <1>1, <2>2, <2>3 DEF Recorded
<1>2. CASE IsLive(e)
  <2>1. PICK a \in AbortWorker(e) :
          \/ /\ a.stopped
             /\ \E q \in Finalised(a.exec, reason, i \in receipts) :
                   r = tag(q, a.stopped, a.reached)
          \/ /\ ~a.stopped
             /\ r = tag([ok |-> a.ok, exec |-> a.exec, receipt |-> FALSE],
                        a.stopped, a.reached)
    BY <1>2 DEF Releases
  <2>2. e.status = "Running"
    BY <1>2 DEF IsLive
  <2>3. /\ WellFormed(a.exec) /\ SamePhase(a.exec, e)
        /\ Acknowledged(a.exec) => a.reached \/ Acknowledged(e)
        /\ a.stopped => a.ok /\ Acknowledged(a.exec)
    BY <2>2, AbortWorkerResult
  <2>4. CASE /\ a.stopped
             /\ \E q \in Finalised(a.exec, reason, i \in receipts) :
                   r = tag(q, a.stopped, a.reached)
    <3>1. PICK q \in Finalised(a.exec, reason, i \in receipts) :
            r = tag(q, a.stopped, a.reached)
      BY <2>4
    <3>2. /\ q.exec # None => WellFormed(q.exec) /\ q.exec.status = "Released"
          /\ q.exec = None => Fails("ReadLease") \/ (~q.receipt /\ i \notin receipts)
      BY <2>3, FinalisedResult
    <3>3. /\ r.exec = q.exec /\ r.receipt = q.receipt /\ r.stopped = a.stopped
          /\ r.reached = a.reached
      BY <3>1
    <3>. QED  BY <1>2, <2>3, <2>4, <3>2, <3>3 DEF Recorded
  <2>5. CASE /\ ~a.stopped
             /\ r = tag([ok |-> a.ok, exec |-> a.exec, receipt |-> FALSE],
                        a.stopped, a.reached)
    <3>1. /\ r.exec = a.exec /\ r.receipt = FALSE /\ r.stopped = a.stopped
          /\ r.reached = a.reached
      BY <2>5
    <3>. QED  BY <1>2, <2>2, <2>3, <2>5, <3>1, InputAssumption
              DEF Recorded, SamePhase, WellFormed
  <2>. QED  BY <2>1, <2>4, <2>5
<1>. QED  BY <1>1, <1>2

LEMMA ReconcileReleaseStep ==
    ASSUME IInv, NEW i \in IssueIds, ReconcileRelease(i)
    PROVE  IInv'
<1> DEFINE e == InState(executions[i], snap[i])
           reason == NonActiveReason(Category(e))
           w == e.run.worker
<1>1. /\ pc = "reconcile" /\ snap[i] \in StateNames /\ executions[i] # None
      /\ \A j \in IssueIds : launches[j] = None
  BY Reconciling DEF ReconcileRelease
<1>2. /\ Recorded(executions[i]) /\ WellFormed(executions[i])
      /\ Backed(executions[i], remote)
      /\ IsLive(executions[i]) => /\ executions[i].status = "Running"
                                  /\ executions[i].run.worker \in Workers
  BY <1>1, InIssues
<1>3. PICK r \in Releases(i, e, reason) :
        /\ Put(i, r.exec, IF r.receipt THEN receipts \cup {i} ELSE receipts)
        /\ metadata' = IF r.stopped THEN [metadata EXCEPT ![w] = None] ELSE metadata
        /\ task' = IF r.stopped THEN task \ {w} ELSE task
        /\ remote' = IF IsLive(e) THEN StopRemote(w, r.reached) ELSE remote
        /\ IF r.ok THEN Handled(i) ELSE EndTick
  BY DEF ReconcileRelease
<1>4. UNCHANGED <<tracker, given, inbox, stored, ordinal, pendings, cooldown>>
  BY DEF ReconcileRelease
<1>5. /\ WellFormed(e) /\ SamePhase(e, executions[i])
      /\ e.interrupt = executions[i].interrupt
  BY <1>1, <1>2, InStateResult
<1>6. reason \in ReleaseReasons
  BY DEF NonActiveReason, ReleaseReasons
<1> HIDE DEF e, reason
<1>7. /\ Recorded(e) /\ Backed(e, remote)
      /\ IsLive(e) <=> executions[i].status = "Running"
      /\ IsLive(e) => w \in Workers /\ e.status = "Running"
      /\ w = executions[i].run.worker
  BY <1>2, <1>5 DEF Recorded, SamePhase, IsLive, Backed, Acknowledged
<1>8. /\ r.exec # None => Recorded(r.exec)
      /\ r.exec = None => Fails("ReadLease") \/ (~r.receipt /\ i \notin receipts)
      /\ r.stopped => IsLive(e) /\ (r.reached \/ Acknowledged(e))
      /\ (r.stopped \/ ~IsLive(e)) /\ r.exec # None => r.exec.status = "Released"
      /\ IsLive(e) /\ ~r.stopped =>
            /\ r.exec # None /\ SamePhase(r.exec, e) /\ ~r.receipt
            /\ Acknowledged(r.exec) => r.reached \/ Acknowledged(e)
  BY <1>5, <1>6, <1>7, ReleasesResult DEF Recorded
<1>9. WorldOK /\ KeptOK /\ TickOK
  BY DEF IInv
<1>10. /\ OnlyEnds(remote')
       /\ IsLive(e) /\ r.reached => remote'[w] = "stopped"
  <2>1. CASE IsLive(e)
    BY <1>3, <1>7, <1>9, <2>1, StopRemoteResult DEF Backed
  <2>2. CASE ~IsLive(e)
    BY <1>3, <1>9, <2>2, SameRuns
  <2>. QED  BY <2>1, <2>2
<1>11. IsLive(e) /\ Acknowledged(e) => remote'[w] = "stopped"
  BY <1>7, <1>10 DEF Backed, OnlyEnds
<1>12. r.exec # None => Backed(r.exec, remote')
  <2>1. CASE r.stopped \/ ~IsLive(e)
    BY <1>8, <2>1, NotLiveBacked DEF IsLive
  <2>2. CASE IsLive(e) /\ ~r.stopped
    <3>1. Backed(e, remote')
      BY <1>5, <1>7, <1>9, <1>10, BackedEnds
    <3>2. r.exec.run.worker = w /\ (IsLive(r.exec) <=> IsLive(e))
      BY <1>8, <2>2 DEF SamePhase, IsLive
    <3>. QED  BY <1>8, <1>10, <1>11, <2>2, <3>1, <3>2 DEF Backed
  <2>. QED  BY <2>1, <2>2
<1>13. r.exec # None =>
          \/ executions[i] # None /\ SamePhase(r.exec, executions[i])
          \/ r.exec.status \notin {"Claimed", "Running", "RetryQueued"}
  BY <1>1, <1>5, <1>8 DEF SamePhase
<1>14. /\ metadata' \in [Workers -> IssueIds \cup {None}]
       /\ \A v \in Workers :
             \/ metadata'[v] = metadata[v]
             \/ metadata'[v] = None /\ remote'[v] # "running"
       /\ r.stopped => metadata'[w] = None
       /\ ~r.stopped => metadata' = metadata
  <2>1. metadata \in [Workers -> IssueIds \cup {None}]
    BY <1>9 DEF KeptOK
  <2>2. CASE r.stopped
    <3>1. metadata' = [metadata EXCEPT ![w] = None] /\ w \in Workers
      BY <1>3, <1>7, <1>8, <2>2
    <3>2. remote'[w] # "running"
      BY <1>8, <1>10, <1>11, <2>2
    <3>. QED  BY <2>1, <2>2, <3>1, <3>2
  <2>3. CASE ~r.stopped
    BY <1>3, <2>1, <2>3
  <2>. QED  BY <2>2, <2>3
<1>15. StopsSucceed /\ UpdatesOK =>
          \A v \in Workers : metadata'[v] = i => Runs(r.exec, v)
  <2> SUFFICES ASSUME UpdatesOK, NEW v \in Workers, metadata'[v] = i
               PROVE  Runs(r.exec, v)
    OBVIOUS
  <2>1. metadata[v] = i /\ i # None
    BY <1>14, InputAssumption
  <2>2. Runs(executions[i], v)
    BY <2>1 DEF UpdatesOK
  <2>3. IsLive(e) /\ v = w
    BY <1>7, <2>2 DEF Runs
  <2>4. ~r.stopped
    BY <1>14, <2>1, <2>3
  <2>. QED  BY <1>5, <1>7, <1>8, <2>2, <2>3, <2>4 DEF Runs, SamePhase
<1>16. UpdatesOK => \A j \in IssueIds : pendingFinished[j] = None
  BY <1>1 DEF UpdatesOK, KeptNow
<1>17. "ReadLease" \notin Failing /\ i \in receipts' => r.exec # None
  <2> SUFFICES ASSUME "ReadLease" \notin Failing, r.exec = None
               PROVE  i \notin receipts'
    OBVIOUS
  <2>1. ~r.receipt /\ i \notin receipts
    BY <1>8 DEF Fails
  <2>. QED  BY <1>3, <2>1 DEF Put
<1> DEFINE rc == IF r.receipt THEN receipts \cup {i} ELSE receipts
<1>18. rc \subseteq receipts \cup {i} /\ task' \subseteq task
  BY <1>3
<1>19. Put(i, r.exec, rc)
  BY <1>3
<1> HIDE DEF rc
<1>20. \/ GoesOn(i) /\ batch' = batch /\ launches' = launches /\ pc # "flush"
       \/ EndTick
  BY <1>1, <1>3, <1>9, HandledGoesOn
<1>. QED  BY <1>1, <1>4, <1>8, <1>10, <1>12, <1>13, <1>14, <1>15, <1>16, <1>17, <1>18,
          <1>19, <1>20, PutStep

-----------------------------------------------------------------------------
(* Stalled runs that do not stop, and candidates that are not dispatched. *)

LEMMA StopStalledStep ==
    ASSUME IInv, NEW i \in IssueIds, StopStalled(i)
    PROVE  IInv'
<1> DEFINE e == executions[i]
           w == e.run.worker
<1>1. pc = "stalled" /\ i \in todo
  BY DEF StopStalled
<1>2. /\ e # None /\ e.status = "Running"
      /\ \A j \in IssueIds : launches[j] = None
  BY <1>1 DEF IInv, TodoOK, LaunchesOK
<1>3. PICK a \in AbortWorker(e) :
        /\ ~a.stopped
        /\ Put(i, IF a.ok THEN a.exec ELSE None, receipts)
        /\ remote' = StopRemote(w, a.reached)
        /\ IF a.ok THEN Handled(i) ELSE EndTick
  BY DEF StopStalled
<1>4. UNCHANGED <<tracker, task, given, inbox, stored, metadata, ordinal, pendings,
                  cooldown>>
  BY DEF StopStalled, WorldButRemote
<1>5. /\ Recorded(e) /\ WellFormed(e) /\ Backed(e, remote) /\ w \in Workers
  BY <1>2, InIssues DEF IsLive
<1>6. /\ WellFormed(a.exec) /\ SamePhase(a.exec, e)
      /\ Acknowledged(a.exec) => a.reached \/ Acknowledged(e)
      /\ ~a.ok => Fails("PersistIntent") \/ Fails("AbortCall")
  BY <1>2, <1>5, AbortWorkerResult
<1>7. WorldOK /\ TickOK /\ KeptOK /\ MapsOK
  BY DEF IInv
<1>8. OnlyEnds(remote') /\ (a.reached => remote'[w] = "stopped")
  BY <1>2, <1>3, <1>5, <1>7, StopRemoteResult DEF Backed, IsLive
<1>9. CASE a.ok
  <2>1. GoesOn(i) /\ batch' = batch /\ launches' = launches
    BY <1>3, <1>7, <1>9, HandledGoesOn
  <2>2. Put(i, a.exec, receipts)
    BY <1>3, <1>9
  <2>. QED  BY <1>1, <1>2, <1>4, <1>6, <1>8, <2>1, <2>2, SamePhaseStep
<1>10. CASE ~a.ok
  <2>1. Put(i, None, receipts) /\ EndTick
    BY <1>3, <1>10
  <2>2. i \notin receipts'
    BY <1>2, <1>7, <2>1 DEF Put, MapsOK
  <2>3. ~StopsSucceed
    BY <1>6, <1>10 DEF StopsSucceed, Fails
  <2>4. UpdatesOK => \A j \in IssueIds : pendingFinished[j] = None
    BY <1>1 DEF UpdatesOK, KeptNow
  <2>5. /\ receipts \subseteq receipts \cup {i} /\ task' \subseteq task
        /\ metadata' \in [Workers -> IssueIds \cup {None}]
        /\ \A v \in Workers : metadata'[v] = metadata[v]
    BY <1>4, <1>7 DEF KeptOK
  <2>. QED  BY <1>2, <1>4, <1>8, <2>1, <2>2, <2>3, <2>4, <2>5, PutStep
<1>. QED  BY <1>9, <1>10

\* What the dispatcher sees of a candidate: a released record of an active issue
\* is reopened.
LEMMA ReopenedResult ==
    ASSUME IInv, NEW i \in IssueIds, snap[i] \in StateNames,
           NEW e, e = Reopened(i)
    PROVE  /\ e # None => Recorded(e)
           /\ \/ e = executions[i]
              \/ /\ e # None /\ e.status = "Unclaimed"
                 /\ executions[i] # None /\ executions[i].status = "Released"
              \/ /\ e # None /\ executions[i] # None
                 /\ executions[i].status = "Released" /\ SamePhase(e, executions[i])
                 /\ Acknowledged(e) => Acknowledged(executions[i])
<1>1. executions[i] # None => Recorded(executions[i])
  BY InIssues
<1>2. CASE e = executions[i]
  BY <1>1, <1>2
<1>3. CASE /\ executions[i] # None /\ executions[i].status = "Released"
           /\ e = Upserted(executions[i], i, snap[i])
  <2>1. /\ Recorded(e) /\ e # None
        /\ \/ e.status = "Unclaimed"
           \/ SamePhase(e, executions[i]) /\ e.interrupt = executions[i].interrupt
    BY <1>1, <1>3, UpsertedResult
  <2>. QED  BY <1>3, <2>1 DEF Acknowledged
<1>. QED  BY <1>2, <1>3 DEF Reopened

LEMMA Dispatching ==
    ASSUME IInv, pc = "dispatch", NEW i \in Candidates
    PROVE  /\ i \in IssueIds /\ i \in todo /\ snap[i] \in StateNames
           /\ launches[i] = None
<1>1. i \in IssueIds /\ i \in todo /\ snap[i] # None
  BY DEF Candidates, ActiveIn
<1>. QED  BY <1>1 DEF IInv, TickOK, LaunchesOK

LEMMA DoSkipStep ==
    ASSUME IInv, NEW i \in IssueIds, DoSkip(i)
    PROVE  IInv'
<1> DEFINE e == Reopened(i)
           refreshed == IF e = None THEN None ELSE InState(e, snap[i])
<1>1. /\ pc = "dispatch" /\ i \in Candidates
      /\ \/ Put(i, e, receipts) /\ UNCHANGED failed
         \/ /\ Put(i, refreshed, receipts)
            /\ failed' = (failed \/ Fails("Workspace"))
      /\ todo' = todo \ {i}
      /\ UNCHANGED <<tracker, remote, task, given, inbox, stored>>
      /\ UNCHANGED <<metadata, ordinal, pendings, cooldown>>
      /\ UNCHANGED <<pc, mode, batch, snap, launches, started, contradicted>>
  BY DEF DoSkip, world, locals
<1>2. snap[i] \in StateNames /\ launches[i] = None
  BY <1>1, Dispatching
<1>3. GoesOn(i)
  <2>1. failed \in BOOLEAN /\ contradicted \subseteq IssueIds
    BY DEF IInv, TickOK
  <2>2. failed' \in BOOLEAN /\ (failed => failed')
    BY <1>1, <2>1, Zenon DEF Fails
  <2>. QED  BY <1>1, <2>1, <2>2 DEF GoesOn
<1>4. /\ e # None => Recorded(e)
      /\ \/ e = executions[i]
         \/ /\ e # None /\ e.status = "Unclaimed"
            /\ executions[i] # None /\ executions[i].status = "Released"
         \/ /\ e # None /\ executions[i] # None
            /\ executions[i].status = "Released" /\ SamePhase(e, executions[i])
            /\ Acknowledged(e) => Acknowledged(executions[i])
  BY <1>2, ReopenedResult
<1> HIDE DEF e
<1>5. /\ e = None => refreshed = None
      /\ e # None => /\ Recorded(refreshed) /\ SamePhase(refreshed, e)
                     /\ refreshed.interrupt = e.interrupt
  <2>1. CASE e = None
    BY <2>1
  <2>2. CASE e # None
    <3>1. refreshed = InState(e, snap[i])
      BY <2>2
    <3>2. /\ WellFormed(refreshed) /\ SamePhase(refreshed, e)
          /\ refreshed.interrupt = e.interrupt
      BY <1>2, <1>4, <2>2, <3>1, InStateResult DEF Recorded
    <3>. QED  BY <1>4, <2>2, <3>2 DEF Recorded, SamePhase
  <2>. QED  BY <2>1, <2>2
<1> HIDE DEF refreshed
<1>6. ASSUME NEW x, x = e \/ x = refreshed
      PROVE  \/ x = None /\ executions[i] = None
             \/ /\ executions[i] # None /\ Recorded(x) /\ SamePhase(x, executions[i])
                /\ Acknowledged(x) => Acknowledged(executions[i])
             \/ /\ Recorded(x) /\ x.status = "Unclaimed"
                /\ executions[i] # None => executions[i].status = "Released"
  BY <1>4, <1>5, <1>6 DEF SamePhase, Acknowledged
<1>7. ASSUME NEW x, x = e \/ x = refreshed, Put(i, x, receipts)
      PROVE  IInv'
  BY <1>1, <1>2, <1>3, <1>6, <1>7, QuietStep
<1>. QED  BY <1>1, <1>7

-----------------------------------------------------------------------------
(* Settlements: a run has ended, its record is resolved, its retry persisted. *)

\* What Settle leaves in the maps.
LEMMA SettleResult ==
    ASSUME IInv, NEW i \in IssueIds, NEW o, NEW s, Settled(s, o),
           NEW x, x # None => Recorded(x), Settle(i, s, x)
    PROVE  /\ MapsOK' /\ executions'[i] = x
           /\ \A j \in IssueIds : j # i => executions'[j] = executions[j]
           /\ receipts' \subseteq receipts \cup {i}
           /\ ~s.result.receipt => receipts' \subseteq receipts
           /\ x # None /\ x.status # "Released" => i \notin receipts'
           /\ pendingExhaustion' \subseteq IssueIds
           /\ cooldown' \in BOOLEAN
           /\ StopsSucceed => cooldown' = cooldown
           /\ stored' \in [IssueIds -> U32]
           /\ pendingRetry' \in [IssueIds -> RetryEntries \cup {None}]
           /\ \A j \in IssueIds :
                 j # i => stored'[j] = stored[j] /\ pendingRetry'[j] = pendingRetry[j]
           /\ s.save.wrote => stored'[i] = s.result.exec.retry.attempt
           /\ s.save.queued => /\ pendingRetry'[i] = s.result.exec.retry
                               /\ pendingRetry'[i] # None
           /\ ~s.save.queued => pendingRetry'[i] = pendingRetry[i]
<1> DEFINE rc == IF s.result.receipt THEN receipts \cup {i} ELSE receipts
           retry == s.result.exec.retry
<1>0. /\ MapsOK
      /\ stored \in [IssueIds -> U32]
      /\ pendingRetry \in [IssueIds -> RetryEntries \cup {None}]
      /\ pendingExhaustion \subseteq IssueIds /\ cooldown \in BOOLEAN
  BY DEF IInv, WorldOK, KeptOK
<1>1. /\ Put(i, x, rc)
      /\ pendingExhaustion' = IF s.result.marker = "deferred"
                              THEN pendingExhaustion \cup {i} ELSE pendingExhaustion
      /\ stored' = IF s.save.wrote THEN [stored EXCEPT ![i] = retry.attempt]
                   ELSE stored
      /\ pendingRetry' = IF s.save.queued THEN [pendingRetry EXCEPT ![i] = retry]
                         ELSE pendingRetry
      /\ cooldown' = (cooldown \/ s.reply.limited)
  BY DEF Settle
<1>2. s.save.wrote \/ s.save.queued
      => retry \in RetryEntries /\ retry # None /\ retry.attempt \in U32
  <2> SUFFICES ASSUME s.save.wrote \/ s.save.queued
               PROVE  retry \in RetryEntries /\ retry # None /\ retry.attempt \in U32
    OBVIOUS
  <2>1. /\ s.result.exec # None /\ s.result.exec.status = "RetryQueued"
        /\ s.result.ok
    BY DEF Settled
  <2>2. WellFormed(s.result.exec)
    BY <2>1 DEF Settled, Recorded
  <2>3. retry # None /\ retry \in RetryEntries
    BY <2>1, <2>2 DEF WellFormed, Executions
  <2>. QED  BY <2>3, WidthAssumption DEF RetryEntries, RetryAttempts, U32
<1>3. rc \subseteq receipts \cup {i} /\ (~s.result.receipt => rc = receipts)
  OBVIOUS
<1>4. /\ s.reply.limited => Fails("RateLimit")
      /\ cooldown' \in BOOLEAN /\ (~s.reply.limited => cooldown' = cooldown)
  <2>1. s.reply.limited => Fails("RateLimit")
    BY DEF Settled
  <2>2. cooldown' \in BOOLEAN
    BY <1>1
  <2>3. ~s.reply.limited => cooldown' = cooldown
    BY <1>0, <1>1, Zenon
  <2>. QED  BY <2>1, <2>2, <2>3
<1>5. StopsSucceed => cooldown' = cooldown
  BY <1>4 DEF StopsSucceed, Fails
<1> HIDE DEF rc, retry
<1>6. /\ MapsOK' /\ executions'[i] = x
      /\ \A j \in IssueIds : j # i => executions'[j] = executions[j]
      /\ receipts' \subseteq rc
      /\ x # None /\ x.status # "Released" => i \notin receipts'
  BY <1>0, <1>1, <1>3, PutResult
<1>7. /\ stored' \in [IssueIds -> U32]
      /\ \A j \in IssueIds : j # i => stored'[j] = stored[j]
      /\ s.save.wrote => stored'[i] = retry.attempt
  <2>1. CASE s.save.wrote
    BY <1>0, <1>1, <1>2, <2>1
  <2>2. CASE ~s.save.wrote
    BY <1>0, <1>1, <2>2
  <2>. QED  BY <2>1, <2>2
<1>8. /\ pendingRetry' \in [IssueIds -> RetryEntries \cup {None}]
      /\ \A j \in IssueIds : j # i => pendingRetry'[j] = pendingRetry[j]
      /\ s.save.queued => pendingRetry'[i] = retry /\ pendingRetry'[i] # None
      /\ ~s.save.queued => pendingRetry'[i] = pendingRetry[i]
  <2>1. CASE s.save.queued
    BY <1>0, <1>1, <1>2, <2>1
  <2>2. CASE ~s.save.queued
    BY <1>0, <1>1, <2>2
  <2>. QED  BY <2>1, <2>2
<1>9. pendingExhaustion' \subseteq IssueIds
  BY <1>0, <1>1
<1>. QED  BY <1>3, <1>4, <1>5, <1>6, <1>7, <1>8, <1>9 DEF retry

\* A queued retry is in the record, or it is kept and nothing is launched until it
\* is: persist_retry_if_queued.
LEMMA SettleRetries ==
    ASSUME IInv, StopsSucceed, NEW i \in IssueIds, NEW o, NEW s, Settled(s, o), NEW x,
           s.result.ok => x = s.result.exec,
           ~s.result.ok => x = None \/ x.status = "Running",
           x # None => Recorded(x),
           Settle(i, s, x), pendingRetry[i] = None,
           launches'[i] = None,
           \A j \in IssueIds : launches'[j] # None => launches'[j] = launches[j],
           MayHoldRetry => MayHoldRetry',
           ~s.save.ok => MayHoldRetry',
           pc' = "flush" => pc = "flush" /\ i \notin todo' /\ todo' \subseteq todo
    PROVE  RetriesKept'
<1>1. /\ executions'[i] = x
      /\ \A j \in IssueIds : j # i => executions'[j] = executions[j]
      /\ \A j \in IssueIds :
            j # i => stored'[j] = stored[j] /\ pendingRetry'[j] = pendingRetry[j]
      /\ s.save.wrote => stored'[i] = s.result.exec.retry.attempt
      /\ s.save.queued => /\ pendingRetry'[i] = s.result.exec.retry
                          /\ pendingRetry'[i] # None
      /\ ~s.save.queued => pendingRetry'[i] = None
  BY SettleResult
<1>2. x # None /\ x.status = "RetryQueued"
      => x = s.result.exec /\ (s.save.wrote \/ s.save.queued)
  BY DEF Settled
<1>3. s.save.queued => /\ x = s.result.exec /\ x # None /\ x.status = "RetryQueued"
                       /\ ~s.save.ok
  BY DEF Settled
<1>4. RetriesKept
  BY DEF IInv
<1>5. ASSUME NEW j \in IssueIds, HasQueued(j)'
      PROVE  stored'[j] = executions'[j].retry.attempt \/ pendingRetry'[j] # None
  <2>1. CASE j = i
    BY <1>1, <1>2, <1>5, <2>1 DEF HasQueued
  <2>2. CASE j # i
    BY <1>1, <1>4, <1>5, <2>2 DEF HasQueued, RetriesKept
  <2>. QED  BY <2>1, <2>2
<1>6. ASSUME NEW j \in IssueIds, pendingRetry'[j] # None
      PROVE  /\ MayHoldRetry'
             /\ HasQueued(j)' => pendingRetry'[j].attempt = executions'[j].retry.attempt
             /\ executions'[j] # None => ~IsLive(executions'[j])
             /\ pc' = "flush" => j \notin todo'
             /\ launches'[j] = None
  <2>1. CASE j = i
    <3>1. s.save.queued
      BY <1>1, <1>6, <2>1
    <3>. QED  BY <1>1, <1>3, <2>1, <3>1 DEF IsLive
  <2>2. CASE j # i
    <3>1. /\ pendingRetry[j] # None /\ pendingRetry'[j] = pendingRetry[j]
          /\ executions'[j] = executions[j]
      BY <1>1, <1>6, <2>2
    <3>2. /\ MayHoldRetry
          /\ HasQueued(j) => pendingRetry[j].attempt = executions[j].retry.attempt
          /\ executions[j] # None => ~IsLive(executions[j])
          /\ pc = "flush" => j \notin todo
          /\ launches[j] = None
      BY <1>4, <3>1 DEF RetriesKept
    <3>. QED  BY <3>1, <3>2 DEF HasQueued
  <2>. QED  BY <2>1, <2>2
<1>7. RetryIsDurable'
  <2>1. \A j \in IssueIds :
          launches'[j] # None => launches'[j] = launches[j] /\ stored'[j] = stored[j]
    BY <1>1
  <2>. QED  BY <1>4, <2>1 DEF RetriesKept, RetryIsDurable, Claims
<1>. QED  BY <1>5, <1>6, <1>7 DEF RetriesKept, HasQueued, MayHoldRetry

LEMMA SettleStep ==
    ASSUME IInv, NEW i \in IssueIds, NEW o, NEW s, Settled(s, o), NEW x,
           s.result.ok => x = s.result.exec,
           ~s.result.ok => x = None \/ Recorded(x),
           Settle(i, s, x),
           \* the world
           OnlyEnds(remote'), task' \subseteq task, UNCHANGED <<tracker, given, ordinal>>,
           inbox' \in Seq(OutcomeRecords),
           \A k \in 1..Len(inbox') : \E m \in 1..Len(inbox) : inbox'[k] = inbox[m],
           x # None => Backed(x, remote'),
           metadata' \in [Workers -> IssueIds \cup {None}],
           \A w \in Workers : metadata'[w] \in {metadata[w], None},
           "ReadLease" \notin Failing /\ i \in receipts' => x # None,
           \* the update kept for later
           pendingFinished' \in [IssueIds -> [exec : Executions, outcome : OutcomeRecords]
                                             \cup {None}],
           \A j \in IssueIds : j # i => pendingFinished'[j] = pendingFinished[j],
           pendingFinished'[i] # None => /\ Recorded(pendingFinished'[i].exec)
                                         /\ Backed(pendingFinished'[i].exec, remote'),
           StopsSucceed =>
              /\ pendingRetry[i] = None
              /\ ~s.result.ok => x = None \/ x.status = "Running"
              /\ \A w \in Workers : metadata'[w] = i => x # None /\ Runs(x, w)
              /\ \A j \in IssueIds : pendingFinished'[j] # None => KeptNow(j)'
              /\ pendingFinished'[i] # None =>
                    /\ x # None /\ x.status = "Running"
                    /\ pendingFinished'[i].exec.status = "Running"
                    /\ x.run = pendingFinished'[i].exec.run
                    /\ metadata'[x.run.worker] = None,
           \* the tick
           TickOK', TodoOK', SlotsOK', LaunchesOK', launches'[i] = None,
           \A j \in IssueIds : launches'[j] # None =>
              launches'[j] = launches[j] /\ pc' = pc /\ started' = started,
           MayHoldRetry => MayHoldRetry', ~s.save.ok => MayHoldRetry',
           pc' = "flush" => pc = "flush" /\ i \notin todo' /\ todo' \subseteq todo
    PROVE  IInv'
<1>0. /\ MapsOK /\ WorldOK /\ KeptOK /\ TickOK /\ TodoOK /\ LaunchesOK /\ RunsOK
      /\ ReceiptsKept /\ SlotsOK /\ (StopsSucceed => RetriesKept /\ UpdatesOK)
  BY DEF IInv
<1>1. x # None => Recorded(x)
  BY DEF Settled
<1>2. /\ MapsOK' /\ executions'[i] = x
      /\ \A j \in IssueIds : j # i => executions'[j] = executions[j]
      /\ receipts' \subseteq receipts \cup {i}
      /\ pendingExhaustion' \subseteq IssueIds
      /\ cooldown' \in BOOLEAN
      /\ StopsSucceed => cooldown' = cooldown
      /\ stored' \in [IssueIds -> U32]
      /\ pendingRetry' \in [IssueIds -> RetryEntries \cup {None}]
  BY <1>1, SettleResult
<1>3. WorldOK'
  <2>1. \A k \in 1..Len(inbox) : inbox[k].worker \in Workers
    <3>1. \A k \in 1..Len(inbox) : inbox[k] \in OutcomeRecords
      BY <1>0 DEF WorldOK
    <3>. QED  BY <3>1 DEF OutcomeRecords
  <2>2. \A k \in 1..Len(inbox) : remote'[inbox[k].worker] \in {"detached", "unstopped", "stopped"}
    BY <1>0, <2>1 DEF OnlyEnds, WorldOK
  <2>3. \A k \in 1..Len(inbox') : remote'[inbox'[k].worker] \in {"detached", "unstopped", "stopped"}
    BY <2>2
  <2>4. \A w \in task' : given[w] # None /\ given[w].worker = w /\ remote'[w] # "none"
    BY <1>0 DEF OnlyEnds, WorldOK
  <2>. QED  BY <1>0, <1>2, <2>3, <2>4 DEF WorldOK, OnlyEnds
<1>4. KeptOK'
  <2>1. \A j \in IssueIds :
          pendingFinished'[j] # None => Recorded(pendingFinished'[j].exec)
    BY <1>0 DEF KeptOK
  <2>2. ordinal' \in Workers \cup {0}
    BY <1>0 DEF KeptOK
  <2>. QED  BY <1>2, <2>1, <2>2 DEF KeptOK
<1>5. RunsOK'
  BY <1>0, <1>2, RunsEnd
<1>6. StopsSucceed => RetriesKept'
  BY <1>1, SettleRetries
<1>7. ReceiptsKept'
  <2> SUFFICES ASSUME "ReadLease" \notin Failing, NEW j \in receipts'
               PROVE  executions'[j] # None
    BY DEF ReceiptsKept
  <2>1. CASE j = i
    BY <1>2, <2>1
  <2>2. CASE j # i
    <3>1. j \in receipts /\ j \in IssueIds
      BY <1>0, <1>2, <2>2 DEF MapsOK
    <3>. QED  BY <1>0, <1>2, <2>2, <3>1 DEF ReceiptsKept
  <2>. QED  BY <2>1, <2>2
<1>8. ASSUME StopsSucceed
      PROVE  UpdatesOK'
  <2>1. UpdatesOK /\ ~cooldown'
    BY <1>0, <1>2, <1>8 DEF UpdatesOK
  <2>2. \A w \in Workers : metadata'[w] = i => Runs(executions'[i], w)
    BY <1>2, <1>8
  <2>3. pendingFinished'[i] # None =>
          /\ executions'[i] # None /\ executions'[i].status = "Running"
          /\ pendingFinished'[i].exec.status = "Running"
          /\ executions'[i].run = pendingFinished'[i].exec.run
          /\ metadata'[executions'[i].run.worker] = None
    BY <1>2, <1>8
  <2>. QED  BY <1>0, <1>2, <1>8, <2>1, <2>2, <2>3, UpdatesStay
<1>. QED  BY <1>2, <1>3, <1>4, <1>5, <1>6, <1>7, <1>8 DEF IInv, StopsSucceed

\* flush_pending_finished_updates, one kept update.
LEMMA FlushStep ==
    ASSUME IInv, NEW i \in IssueIds, Flush(i)
    PROVE  IInv'
<1> DEFINE p == pendingFinished[i]
<1>0. /\ MapsOK /\ WorldOK /\ KeptOK /\ TickOK /\ TodoOK /\ LaunchesOK /\ RunsOK
      /\ ReceiptsKept /\ SlotsOK /\ (StopsSucceed => RetriesKept /\ UpdatesOK)
  BY DEF IInv
<1>1. /\ pc = "flush" /\ i \in todo
      /\ todo' = todo \ {i}
      /\ UNCHANGED <<pc, mode, batch, snap, launches, started, tracker, remote, task,
                     given, inbox, metadata, ordinal>>
  BY DEF Flush
<1>2. PICK s \in Settlements(i, p.exec, p.outcome) :
        /\ Settle(i, s, IF s.result.ok THEN s.result.exec ELSE p.exec)
        /\ pendingFinished' = IF s.result.ok THEN [pendingFinished EXCEPT ![i] = None]
                              ELSE pendingFinished
        /\ failed' = (failed \/ ~s.result.ok \/ ~s.save.ok)
        /\ contradicted' = IF Contradicts(s) THEN contradicted \cup {i}
                           ELSE contradicted
  BY DEF Flush
<1>3. p # None /\ p \in [exec : Executions, outcome : OutcomeRecords]
  BY <1>0, <1>1 DEF TodoOK, KeptOK
<1>4. Recorded(p.exec) /\ WellFormed(p.exec) /\ Backed(p.exec, remote)
      /\ p.exec # None /\ p.outcome \in OutcomeRecords
  BY <1>0, <1>3, InputAssumption DEF KeptOK, RunsOK, Recorded
<1>5. Settled(s, p.outcome)
  BY <1>0, <1>4, SettlementResult DEF WorldOK
<1> DEFINE x == IF s.result.ok THEN s.result.exec ELSE p.exec
<1>6. Settle(i, s, x)
  BY <1>2
<1>7. /\ s.result.ok => x = s.result.exec
      /\ ~s.result.ok => x = p.exec
      /\ Recorded(x) /\ x # None
      /\ s.result.ok => ~IsLive(x)
  BY <1>4, <1>5 DEF Settled, IsLive
<1> HIDE DEF x
<1>8. /\ failed' \in BOOLEAN /\ (failed => failed')
      /\ ~s.result.ok \/ ~s.save.ok => failed'
  BY <1>0, <1>2, Zenon DEF TickOK
<1>9. GoesOn(i)
  <2>1. contradicted' \subseteq IssueIds
    BY <1>0, <1>2 DEF TickOK
  <2>. QED  BY <1>1, <1>8, <2>1 DEF GoesOn
<1>10. /\ pendingFinished' \in [IssueIds -> [exec : Executions, outcome : OutcomeRecords]
                                            \cup {None}]
       /\ \A j \in IssueIds : j # i => pendingFinished'[j] = pendingFinished[j]
       /\ pendingFinished'[i] # None => ~s.result.ok /\ pendingFinished'[i] = p
  <2>1. CASE s.result.ok
    BY <1>0, <1>2, <2>1 DEF KeptOK
  <2>2. CASE ~s.result.ok
    BY <1>0, <1>2, <2>2 DEF KeptOK
  <2>. QED  BY <2>1, <2>2
<1>11. \A j \in IssueIds : launches[j] = None
  BY <1>0, <1>1 DEF LaunchesOK
<1>12. /\ OnlyEnds(remote') /\ remote' = remote /\ task' \subseteq task
       /\ inbox' \in Seq(OutcomeRecords) /\ inbox' = inbox
       /\ metadata' \in [Workers -> IssueIds \cup {None}] /\ metadata' = metadata
  BY <1>0, <1>1, SameRuns DEF WorldOK, KeptOK
<1>13. Backed(x, remote')
  BY <1>4, <1>7, <1>12, NotLiveBacked
<1>14. TickOK' /\ TodoOK'
  <2>1. \A j \in IssueIds : j # i => executions'[j] = executions[j]
    BY <1>5, <1>6, <1>7, SettleResult
  <2>2. batch' \in 0..Len(inbox')
    BY <1>0, <1>1 DEF TickOK
  <2>. QED  BY <1>0, <1>9, <1>10, <2>1, <2>2, GoesOnTick
<1>15. LaunchesOK'
  BY <1>0, <1>1, <1>11 DEF LaunchesOK
<1>16. SlotsOK'
  BY <1>0, <1>1, <1>12, SlotsStay
<1>17. MayHoldRetry => MayHoldRetry'
  BY <1>1, <1>8 DEF MayHoldRetry
<1>18. ~s.save.ok => MayHoldRetry'
  BY <1>1, <1>8 DEF MayHoldRetry
<1>19. ASSUME StopsSucceed
       PROVE  /\ pendingRetry[i] = None
              /\ ~s.result.ok => x = None \/ x.status = "Running"
              /\ \A w \in Workers : metadata'[w] = i => x # None /\ Runs(x, w)
              /\ \A j \in IssueIds : pendingFinished'[j] # None => KeptNow(j)'
              /\ pendingFinished'[i] # None =>
                    /\ x # None /\ x.status = "Running"
                    /\ pendingFinished'[i].exec.status = "Running"
                    /\ x.run = pendingFinished'[i].exec.run
                    /\ metadata'[x.run.worker] = None
  <2>1. UpdatesOK /\ RetriesKept
    BY <1>0, <1>19
  <2>2. /\ executions[i] # None /\ executions[i].status = "Running"
        /\ p.exec.status = "Running" /\ executions[i].run = p.exec.run
        /\ metadata[executions[i].run.worker] = None
    BY <1>3, <2>1 DEF UpdatesOK
  <2>3. pendingRetry[i] = None
    BY <2>1, <2>2 DEF RetriesKept, IsLive
  <2>4. \A w \in Workers : metadata[w] # i
    BY <2>1, <2>2, InputAssumption DEF UpdatesOK, Runs
  <2>5. ASSUME NEW j \in IssueIds, pendingFinished'[j] # None
        PROVE  KeptNow(j)'
    <3>1. CASE j = i
      BY <1>1, <1>8, <1>10, <2>5, <3>1 DEF KeptNow
    <3>2. CASE j # i
      <4>1. KeptNow(j)
        BY <1>10, <2>1, <2>5, <3>2 DEF UpdatesOK
      <4>. QED  BY <1>1, <1>8, <3>2, <4>1 DEF KeptNow
    <3>. QED  BY <3>1, <3>2
  <2>. QED  BY <1>7, <1>10, <1>12, <2>2, <2>3, <2>4, <2>5
<1>20. /\ UNCHANGED <<tracker, given, ordinal>> /\ launches'[i] = None
       /\ \A j \in IssueIds : launches'[j] # None =>
             launches'[j] = launches[j] /\ pc' = pc /\ started' = started
       /\ \A k \in 1..Len(inbox') : \E m \in 1..Len(inbox) : inbox'[k] = inbox[m]
       /\ pc' = "flush" => pc = "flush" /\ i \notin todo' /\ todo' \subseteq todo
       /\ \A w \in Workers : metadata'[w] \in {metadata[w], None}
  BY <1>1, <1>11
<1>21. pendingFinished'[i] # None => /\ Recorded(pendingFinished'[i].exec)
                                     /\ Backed(pendingFinished'[i].exec, remote')
  BY <1>4, <1>10, <1>12
<1>. QED  BY <1>5, <1>6, <1>7, <1>10, <1>12, <1>13, <1>14, <1>15, <1>16, <1>17, <1>18,
          <1>19, <1>20, <1>21, SettleStep

\* apply_worker_updates takes the oldest update; the runs it reports have ended.
LEMMA DrainTakes ==
    ASSUME IInv, DrainUpdate
    PROVE  /\ pc = "drain" /\ Head(inbox) \in OutcomeRecords
           /\ Head(inbox).worker \in Workers
           /\ remote[Head(inbox).worker] # "running"
           /\ inbox' \in Seq(OutcomeRecords)
           /\ \A k \in 1..Len(inbox') : \E m \in 1..Len(inbox) : inbox'[k] = inbox[m]
           /\ batch' \in 0..Len(inbox')
           /\ \A j \in IssueIds : launches[j] = None
           /\ metadata' = [metadata EXCEPT ![Head(inbox).worker] = None]
           /\ metadata' \in [Workers -> IssueIds \cup {None}]
           /\ \A v \in Workers : \/ metadata'[v] = metadata[v]
                                 \/ metadata'[v] = None /\ remote[v] # "running"
           /\ OnlyEnds(remote')
           /\ UNCHANGED <<tracker, remote, task, given, ordinal, pc, mode, todo, snap,
                          launches, started>>
<1>1. /\ pc = "drain" /\ batch > 0 /\ inbox' = Tail(inbox) /\ batch' = batch - 1
      /\ metadata' = [metadata EXCEPT ![Head(inbox).worker] = None]
      /\ UNCHANGED <<tracker, remote, task, given, ordinal, pc, mode, todo, snap,
                     launches, started>>
  BY DEF DrainUpdate
<1>2. /\ inbox \in Seq(OutcomeRecords)
      /\ \A k \in 1..Len(inbox) : remote[inbox[k].worker] \in {"detached", "unstopped", "stopped"}
      /\ batch \in 0..Len(inbox) /\ metadata \in [Workers -> IssueIds \cup {None}]
  BY DEF IInv, WorldOK, TickOK, KeptOK
<1>3. /\ Len(inbox) \in Nat /\ Len(inbox) > 0 /\ inbox # <<>>
      /\ inbox' \in Seq(OutcomeRecords) /\ Len(inbox') = Len(inbox) - 1
      /\ \A k \in 1..Len(inbox') : inbox'[k] = inbox[k + 1]
      /\ Head(inbox) = inbox[1] /\ inbox[1] \in OutcomeRecords
  BY <1>1, <1>2
<1>4. \A k \in 1..Len(inbox') : k + 1 \in 1..Len(inbox)
  BY <1>3
<1>5. Head(inbox).worker \in Workers /\ remote[Head(inbox).worker] # "running"
  <2>1. 1 \in 1..Len(inbox)
    BY <1>3
  <2>. QED  BY <1>2, <1>3, <2>1 DEF OutcomeRecords
<1>6. batch' \in 0..Len(inbox')
  BY <1>1, <1>2, <1>3
<1>7. \A j \in IssueIds : launches[j] = None
  BY <1>1 DEF IInv, LaunchesOK
<1>8. OnlyEnds(remote')
  BY <1>1, SameRuns DEF IInv
<1>. QED  BY <1>1, <1>2, <1>3, <1>4, <1>5, <1>6, <1>7, <1>8

\* An update of a worker the scheduler does not know is dropped.
LEMMA DrainIgnoredStep ==
    ASSUME IInv, DrainUpdate,
           NEW i, i = metadata[Head(inbox).worker],
           i = None \/ executions[i] = None,
           UNCHANGED <<executions, counts, receipts, pendings, stored, cooldown, failed,
                       contradicted>>
    PROVE  IInv'
<1> DEFINE w == Head(inbox).worker
<1>0. /\ MapsOK /\ WorldOK /\ KeptOK /\ TickOK /\ TodoOK /\ LaunchesOK /\ RunsOK
      /\ ReceiptsKept /\ SlotsOK /\ (StopsSucceed => RetriesKept /\ UpdatesOK)
  BY DEF IInv
<1>1. /\ pc = "drain" /\ w \in Workers /\ inbox' \in Seq(OutcomeRecords)
      /\ \A k \in 1..Len(inbox') : \E m \in 1..Len(inbox) : inbox'[k] = inbox[m]
      /\ batch' \in 0..Len(inbox')
      /\ metadata' = [metadata EXCEPT ![w] = None]
      /\ metadata' \in [Workers -> IssueIds \cup {None}]
      /\ \A v \in Workers : \/ metadata'[v] = metadata[v]
                            \/ metadata'[v] = None /\ remote[v] # "running"
      /\ OnlyEnds(remote') /\ \A j \in IssueIds : launches[j] = None
      /\ UNCHANGED <<tracker, remote, task, given, ordinal, pc, mode, todo, snap,
                     launches, started>>
  BY DrainTakes
<1>2. UNCHANGED <<pendingFinished, pendingRetry, pendingExhaustion>>
  BY DEF pendings
<1> HIDE DEF w
<1>3. WorldOK'
  <2>1. \A k \in 1..Len(inbox') : remote[inbox'[k].worker] \in {"detached", "unstopped", "stopped"}
    BY <1>0, <1>1 DEF WorldOK
  <2>. QED  BY <1>0, <1>1, <2>1 DEF WorldOK
<1>4. MapsOK' /\ KeptOK' /\ ReceiptsKept'
  <2>1. MapsOK'
    BY <1>0 DEF MapsOK, RunningCountsExact, Known
  <2>2. KeptOK'
    BY <1>0, <1>1, <1>2 DEF KeptOK
  <2>3. ReceiptsKept'
    BY <1>0 DEF ReceiptsKept
  <2>. QED  BY <2>1, <2>2, <2>3
<1>5. TickOK' /\ TodoOK' /\ LaunchesOK'
  BY <1>0, <1>1, <1>2 DEF TickOK, TodoOK, LaunchesOK
<1>6. RunsOK'
  BY <1>0, <1>1, <1>2, RunsEnd
<1>7. SlotsOK'
  BY <1>0, <1>1, SlotsStay
<1>8. ASSUME StopsSucceed
      PROVE  RetriesKept' /\ UpdatesOK'
  <2>1. RetriesKept /\ UpdatesOK
    BY <1>0, <1>8
  <2>2. RetriesKept'
    BY <1>1, <1>2, <2>1, RetriesStay DEF MayHoldRetry
  <2>3. \A v \in Workers : metadata'[v] = metadata[v] \/ metadata'[v] = None
    BY <1>1
  <2>4. \A v \in Workers :
          metadata'[v] # None => Runs(executions'[metadata'[v]], v)
    BY <2>1, <2>3 DEF UpdatesOK
  <2>5. ASSUME NEW j \in IssueIds, pendingFinished'[j] # None
        PROVE  /\ executions'[j] # None /\ executions'[j].status = "Running"
               /\ pendingFinished'[j].exec.status = "Running"
               /\ executions'[j].run = pendingFinished'[j].exec.run
               /\ metadata'[executions'[j].run.worker] = None
               /\ KeptNow(j)'
    <3>1. executions'[j] = executions[j] /\ pendingFinished'[j] = pendingFinished[j]
      BY <1>2
    <3>2. /\ executions[j] # None /\ executions[j].status = "Running"
          /\ pendingFinished[j].exec.status = "Running"
          /\ executions[j].run = pendingFinished[j].exec.run
          /\ metadata[executions[j].run.worker] = None
          /\ KeptNow(j)
      BY <2>1, <2>5, <3>1 DEF UpdatesOK
    <3>3. executions[j].run.worker \in Workers
      BY <3>2, InIssues DEF IsLive
    <3>. QED  BY <1>1, <2>3, <3>1, <3>2, <3>3 DEF KeptNow
  <2>. QED  BY <1>2, <2>1, <2>2, <2>4, <2>5 DEF UpdatesOK
<1>. QED  BY <1>3, <1>4, <1>5, <1>6, <1>7, <1>8 DEF IInv, StopsSucceed

LEMMA DrainAppliedStep ==
    ASSUME IInv, DrainUpdate, NEW i \in IssueIds,
           i = metadata[Head(inbox).worker], executions[i] # None,
           ApplyFinished(Head(inbox).worker, i, Head(inbox))
    PROVE  IInv'
<1> DEFINE o == Head(inbox)
           w == o.worker
           retained == RecordOutcome(executions[i], o)
<1>0. /\ MapsOK /\ WorldOK /\ KeptOK /\ TickOK /\ TodoOK /\ LaunchesOK /\ RunsOK
      /\ ReceiptsKept /\ SlotsOK /\ (StopsSucceed => RetriesKept /\ UpdatesOK)
  BY DEF IInv
<1>1. /\ pc = "drain" /\ w \in Workers /\ inbox' \in Seq(OutcomeRecords)
      /\ o \in OutcomeRecords
      /\ \A k \in 1..Len(inbox') : \E m \in 1..Len(inbox) : inbox'[k] = inbox[m]
      /\ batch' \in 0..Len(inbox')
      /\ metadata' = [metadata EXCEPT ![w] = None]
      /\ metadata' \in [Workers -> IssueIds \cup {None}]
      /\ \A v \in Workers : \/ metadata'[v] = metadata[v]
                            \/ metadata'[v] = None /\ remote[v] # "running"
      /\ OnlyEnds(remote') /\ \A j \in IssueIds : launches[j] = None
      /\ UNCHANGED <<tracker, remote, task, given, ordinal, pc, mode, todo, snap,
                     launches, started>>
  BY DrainTakes
<1>2. PICK s \in Settlements(i, executions[i], o) :
        /\ Settle(i, s, IF s.result.ok THEN s.result.exec ELSE retained)
        /\ pendingFinished' = IF s.result.ok THEN pendingFinished
                              ELSE [pendingFinished EXCEPT
                                      ![i] = [exec |-> retained, outcome |-> o]]
        /\ failed' = (failed \/ ~s.result.ok \/ ~s.save.ok)
        /\ contradicted' = IF Contradicts(s) THEN contradicted \cup {i}
                           ELSE contradicted
  BY DEF ApplyFinished
<1>3. /\ i = metadata[w] /\ i # None
      /\ Recorded(executions[i]) /\ WellFormed(executions[i])
      /\ Backed(executions[i], remote)
  BY InIssues, InputAssumption
<1> HIDE DEF o, w
<1>4. /\ Recorded(retained) /\ WellFormed(retained) /\ retained # None
      /\ SamePhase(retained, executions[i]) /\ Backed(retained, remote)
      /\ retained \in Executions
  <2>1. /\ WellFormed(retained) /\ SamePhase(retained, executions[i])
        /\ retained.interrupt # None /\ retained.interrupt.status = "Acknowledged"
           => retained.interrupt = executions[i].interrupt
    BY <1>1, <1>3, RecordOutcomeWellFormed
  <2> HIDE DEF retained
  <2>2. Acknowledged(retained) => Acknowledged(executions[i])
    BY <2>1 DEF Acknowledged
  <2>3. Backed(retained, remote)
    BY <1>3, <2>1, <2>2, BackedSame
  <2>. QED  BY <1>3, <2>1, <2>3, InputAssumption DEF Recorded, SamePhase, WellFormed
<1> HIDE DEF retained
<1>5. Settled(s, o)
  BY <1>0, <1>1, <1>3, SettlementResult DEF WorldOK
<1> DEFINE x == IF s.result.ok THEN s.result.exec ELSE retained
<1>6. Settle(i, s, x)
  BY <1>2
<1>7. /\ s.result.ok => x = s.result.exec
      /\ ~s.result.ok => x = retained
      /\ Recorded(x) /\ x # None
      /\ s.result.ok => ~IsLive(x)
  BY <1>4, <1>5 DEF Settled, IsLive
<1> HIDE DEF x
<1>8. /\ failed' \in BOOLEAN /\ (failed => failed')
      /\ ~s.result.ok \/ ~s.save.ok => failed'
  BY <1>0, <1>2, Zenon DEF TickOK
<1>9. contradicted' \subseteq IssueIds
  BY <1>0, <1>2 DEF TickOK
<1>10. /\ pendingFinished' \in [IssueIds -> [exec : Executions, outcome : OutcomeRecords]
                                            \cup {None}]
       /\ \A j \in IssueIds : j # i => pendingFinished'[j] = pendingFinished[j]
       /\ s.result.ok => pendingFinished'[i] = pendingFinished[i]
       /\ ~s.result.ok => pendingFinished'[i].exec = retained
  <2>1. CASE s.result.ok
    BY <1>0, <1>2, <2>1 DEF KeptOK
  <2>2. CASE ~s.result.ok
    <3> DEFINE q == [exec |-> retained, outcome |-> o]
    <3>1. q \in [exec : Executions, outcome : OutcomeRecords] /\ q.exec = retained
      BY <1>1, <1>4
    <3>2. pendingFinished' = [pendingFinished EXCEPT ![i] = q]
      BY <1>2, <2>2
    <3> HIDE DEF q
    <3>. QED  BY <1>0, <2>2, <3>1, <3>2 DEF KeptOK
  <2>. QED  BY <2>1, <2>2
<1>11. Backed(x, remote') /\ remote' = remote /\ task' \subseteq task
  BY <1>1, <1>4, <1>7, NotLiveBacked
<1>12. TickOK' /\ TodoOK'
  BY <1>0, <1>1, <1>8, <1>9 DEF TickOK, TodoOK
<1>13. LaunchesOK'
  BY <1>0, <1>1 DEF LaunchesOK
<1>14. SlotsOK'
  BY <1>0, <1>1, SlotsStay
<1>15. /\ MayHoldRetry => MayHoldRetry'
       /\ ~s.save.ok => MayHoldRetry'
  BY <1>1, <1>8 DEF MayHoldRetry
<1>16. ASSUME StopsSucceed
       PROVE  /\ pendingRetry[i] = None
              /\ ~s.result.ok => x = None \/ x.status = "Running"
              /\ \A v \in Workers : metadata'[v] = i => x # None /\ Runs(x, v)
              /\ \A j \in IssueIds : pendingFinished'[j] # None => KeptNow(j)'
              /\ pendingFinished'[i] # None =>
                    /\ x # None /\ x.status = "Running"
                    /\ pendingFinished'[i].exec.status = "Running"
                    /\ x.run = pendingFinished'[i].exec.run
                    /\ metadata'[x.run.worker] = None
  <2>1. UpdatesOK /\ RetriesKept
    BY <1>0, <1>16
  <2>2. executions[i].status = "Running" /\ executions[i].run.worker = w
    BY <1>1, <1>3, <2>1 DEF UpdatesOK, Runs
  <2>3. pendingRetry[i] = None
    BY <2>1, <2>2 DEF RetriesKept, IsLive
  <2>4. pendingFinished[i] = None
    BY <1>3, <2>1, <2>2 DEF UpdatesOK
  <2>5. metadata'[w] = None
    BY <1>0, <1>1 DEF KeptOK
  <2>6. \A v \in Workers : metadata'[v] # i
    BY <1>1, <1>3, <2>1, <2>2, <2>5 DEF UpdatesOK, Runs
  <2>7. retained.status = "Running" /\ retained.run = executions[i].run
    BY <1>4, <2>2 DEF SamePhase
  <2>8. ASSUME NEW j \in IssueIds, pendingFinished'[j] # None
        PROVE  KeptNow(j)'
    <3>1. CASE j = i
      BY <1>1, <1>8, <1>10, <2>4, <2>8, <3>1 DEF KeptNow
    <3>2. CASE j # i
      <4>1. KeptNow(j)
        BY <1>10, <2>1, <2>8, <3>2 DEF UpdatesOK
      <4>. QED  BY <1>1, <1>8, <4>1 DEF KeptNow
    <3>. QED  BY <3>1, <3>2
  <2>. QED  BY <1>7, <1>10, <2>2, <2>3, <2>4, <2>5, <2>6, <2>7, <2>8
<1>17. /\ UNCHANGED <<tracker, given, ordinal>> /\ launches'[i] = None
       /\ \A j \in IssueIds : launches'[j] # None =>
             launches'[j] = launches[j] /\ pc' = pc /\ started' = started
       /\ pc' # "flush"
       /\ \A v \in Workers : metadata'[v] \in {metadata[v], None}
  BY <1>1
<1>18. pendingFinished'[i] # None => /\ Recorded(pendingFinished'[i].exec)
                                     /\ Backed(pendingFinished'[i].exec, remote')
  BY <1>0, <1>4, <1>10, <1>11 DEF KeptOK, RunsOK
<1>. QED  BY <1>1, <1>5, <1>6, <1>7, <1>10, <1>11, <1>12, <1>13, <1>14, <1>15,
          <1>16, <1>17, <1>18, SettleStep

LEMMA DrainUpdateStep ==
    ASSUME IInv, DrainUpdate
    PROVE  IInv'
<1> DEFINE i == metadata[Head(inbox).worker]
<1>1. /\ Head(inbox).worker \in Workers
      /\ metadata \in [Workers -> IssueIds \cup {None}]
  BY DrainTakes DEF IInv, KeptOK
<1>2. \/ /\ i = None \/ executions[i] = None
         /\ UNCHANGED <<executions, counts, receipts, pendings, stored, cooldown, failed,
                        contradicted>>
      \/ /\ i # None /\ executions[i] # None
         /\ ApplyFinished(Head(inbox).worker, i, Head(inbox))
  BY DEF DrainUpdate
<1>3. i \in IssueIds \cup {None}
  BY <1>1
<1>4. CASE /\ i = None \/ executions[i] = None
           /\ UNCHANGED <<executions, counts, receipts, pendings, stored, cooldown,
                          failed, contradicted>>
  BY <1>4, DrainIgnoredStep
<1>5. CASE /\ i # None /\ executions[i] # None
           /\ ApplyFinished(Head(inbox).worker, i, Head(inbox))
  BY <1>3, <1>5, DrainAppliedStep
<1>. QED  BY <1>2, <1>4, <1>5

\* The record of what a run ended with.
LEMMA OutcomeFromRunResult ==
    ASSUME NEW run \in RunAttempts, NEW kind \in OutcomeKinds
    PROVE  /\ OutcomeFromRun(run, kind) \in OutcomeRecords
           /\ OutcomeFromRun(run, kind).outcome = kind
           /\ OutcomeFromRun(run, kind).worker = run.worker
BY DEF OutcomeFromRun, OutcomeRecords, RunAttempts

\* A worker that did not start.
LEMMA LaunchFailedStep ==
    ASSUME IInv, NEW i \in IssueIds, LaunchFailed(i)
    PROVE  IInv'
<1> DEFINE e == launches[i]
           o == OutcomeFromRun(e.run, "Failed")
<1>0. /\ MapsOK /\ WorldOK /\ KeptOK /\ TickOK /\ TodoOK /\ LaunchesOK /\ RunsOK
      /\ ReceiptsKept /\ SlotsOK /\ (StopsSucceed => RetriesKept /\ UpdatesOK)
  BY DEF IInv
<1>1. /\ pc = "launch" /\ e # None /\ i \notin started
      /\ UNCHANGED <<tracker, remote, task, given, inbox, metadata, ordinal,
                     pendingFinished>>
  BY DEF LaunchFailed, Claims
<1>2. PICK s \in Settlements(i, e, o) :
        /\ Settle(i, s, s.result.exec)
        /\ IF s.result.ok
           THEN /\ failed' = (failed \/ ~s.save.ok)
                /\ launches' = [launches EXCEPT ![i] = None]
                /\ UNCHANGED <<pc, mode, todo, batch, snap, started, contradicted>>
           ELSE EndTick
  BY DEF LaunchFailed
<1>3. /\ WellFormed(e) /\ executions[i] = None /\ e.run \in RunAttempts
      /\ launches \in [IssueIds -> Executions \cup {None}]
  BY <1>0, <1>1, LiveWorker DEF LaunchesOK, ClaimOf, IsLive
<1>4. o \in OutcomeRecords /\ o.outcome = "Failed"
  BY <1>3, OutcomeFromRunResult DEF OutcomeKinds
<1> HIDE DEF o
<1>5. Settled(s, o)
  BY <1>0, <1>3, <1>4, SettlementResult DEF WorldOK
<1> DEFINE x == s.result.exec
<1>6. /\ ~s.result.ok => x = None
      /\ x # None => Recorded(x) /\ ~IsLive(x)
      /\ ~s.result.receipt
  BY <1>4, <1>5 DEF Settled, IsLive
<1> HIDE DEF e
<1>7. ~LaunchesSucceed
  BY <1>0, <1>1 DEF SlotsOK, e
<1>8. \A j \in IssueIds :
        launches'[j] = None \/ (s.result.ok /\ j # i /\ launches'[j] = launches[j])
  <2>1. CASE s.result.ok
    BY <1>2, <1>3, <2>1
  <2>2. CASE ~s.result.ok
    BY <1>1, <1>0, <1>2, <2>2, EndTickResult DEF WorldOK
  <2>. QED  BY <2>1, <2>2
<1>9. s.result.ok => /\ failed' \in BOOLEAN /\ (failed => failed')
                     /\ ~s.save.ok => failed'
  BY <1>0, <1>2, Zenon DEF TickOK
<1>10. /\ executions'[i] = x
       /\ \A j \in IssueIds : j # i => executions'[j] = executions[j]
       /\ receipts' \subseteq receipts
  BY <1>2, <1>5, <1>6, SettleResult
<1>11. TickOK' /\ TodoOK' /\ LaunchesOK'
  <2>1. CASE s.result.ok
    <3>1. /\ launches' = [launches EXCEPT ![i] = None]
          /\ UNCHANGED <<pc, mode, todo, batch, snap, started, contradicted>>
      BY <1>2, <2>1
    <3>2. TickOK' /\ TodoOK'
      BY <1>0, <1>1, <1>9, <2>1, <3>1 DEF TickOK, TodoOK
    <3>3. launches' \in [IssueIds -> Executions \cup {None}]
      BY <1>3, <3>1
    <3>4. LaunchesOK'
      BY <1>0, <1>1, <1>8, <1>10, <3>1, <3>3, LaunchesStay
    <3>. QED  BY <3>2, <3>4
  <2>2. CASE ~s.result.ok
    BY <1>0, <1>1, <1>2, <2>2, EndTickResult DEF WorldOK
  <2>. QED  BY <2>1, <2>2
<1>12. SlotsOK'
  <2>1. Busy' = Busy
    BY <1>1 DEF Busy
  <2>2. Claims' \subseteq Claims
    BY <1>8 DEF Claims
  <2>3. IsFiniteSet(Busy) /\ IsFiniteSet(Claims)
    <3>1. Busy \in SUBSET Workers /\ Claims \in SUBSET IssueIds
      BY DEF Busy, Claims
    <3>. QED  BY <3>1, SchedulerAssumption, FS_Subset
  <2>4. /\ Cardinality(Claims') <= Cardinality(Claims)
        /\ Cardinality(Claims') \in Nat
    BY <2>2, <2>3, FS_Subset, FS_CardinalityType
  <2>5. Cardinality(Busy) \in Nat /\ Cardinality(Claims) \in Nat
    BY <2>3, FS_CardinalityType
  <2>6. Occupied'
    BY <1>0, <2>1, <2>4, <2>5, SchedulerAssumption DEF SlotsOK, Occupied
  <2>. QED  BY <1>7, <2>6 DEF SlotsOK, LaunchesSucceed
<1>13. s.result.ok \/ pc' = "idle"
  BY <1>0, <1>1, <1>2, EndTickResult DEF WorldOK
<1>14. s.result.ok => pc' = "launch" /\ started' = started
  BY <1>1, <1>2
<1>15. /\ MayHoldRetry => MayHoldRetry'
       /\ ~s.save.ok => MayHoldRetry'
  BY <1>1, <1>9, <1>13, <1>14 DEF MayHoldRetry
<1>16. "ReadLease" \notin Failing /\ i \in receipts' => x # None
  BY <1>0, <1>3, <1>10 DEF ReceiptsKept
<1>17. ASSUME StopsSucceed
       PROVE  /\ pendingRetry[i] = None
              /\ \A v \in Workers : metadata'[v] # i
              /\ \A j \in IssueIds : pendingFinished'[j] = None
  <2>1. UpdatesOK /\ RetriesKept
    BY <1>0, <1>17
  <2>2. pendingRetry[i] = None
    BY <1>1, <2>1 DEF RetriesKept, e
  <2>3. \A v \in Workers : metadata[v] # i
    BY <1>3, <2>1, InputAssumption DEF UpdatesOK, Runs
  <2>4. \A j \in IssueIds : pendingFinished[j] = None
    BY <1>1, <2>1 DEF UpdatesOK, KeptNow
  <2>. QED  BY <1>1, <2>2, <2>3, <2>4
<1>18. /\ OnlyEnds(remote') /\ remote' = remote
       /\ x # None => Backed(x, remote')
  BY <1>0, <1>1, <1>6, SameRuns, NotLiveBacked
<1>19. /\ inbox' \in Seq(OutcomeRecords)
       /\ \A k \in 1..Len(inbox') : \E m \in 1..Len(inbox) : inbox'[k] = inbox[m]
       /\ metadata' \in [Workers -> IssueIds \cup {None}]
       /\ \A w \in Workers : metadata'[w] \in {metadata[w], None}
       /\ pendingFinished' \in [IssueIds -> [exec : Executions, outcome : OutcomeRecords]
                                            \cup {None}]
       /\ \A j \in IssueIds : pendingFinished'[j] = pendingFinished[j]
       /\ task' \subseteq task
  BY <1>0, <1>1 DEF WorldOK, KeptOK
<1>20. pendingFinished'[i] # None => /\ Recorded(pendingFinished'[i].exec)
                                     /\ Backed(pendingFinished'[i].exec, remote')
  BY <1>0, <1>18, <1>19 DEF KeptOK, RunsOK
<1>21. /\ launches'[i] = None
       /\ \A j \in IssueIds : launches'[j] # None =>
             launches'[j] = launches[j] /\ pc' = pc /\ started' = started
       /\ pc' # "flush"
  BY <1>1, <1>8, <1>13, <1>14
<1>22. Settle(i, s, x)
  BY <1>2
<1> HIDE DEF x
<1>. QED  BY <1>1, <1>5, <1>6, <1>11, <1>12, <1>15, <1>16, <1>17, <1>18, <1>19,
          <1>20, <1>21, <1>22, SettleStep DEF x

\* handle_stalls, for a run whose stop is confirmed.
LEMMA HandleStalledStep ==
    ASSUME IInv, NEW i \in IssueIds, HandleStalled(i)
    PROVE  IInv'
<1> DEFINE e == executions[i]
           w == e.run.worker
<1>0. /\ MapsOK /\ WorldOK /\ KeptOK /\ TickOK /\ TodoOK /\ LaunchesOK /\ RunsOK
      /\ ReceiptsKept /\ SlotsOK /\ (StopsSucceed => RetriesKept /\ UpdatesOK)
  BY DEF IInv
<1>1. /\ pc = "stalled" /\ i \in todo
      /\ UNCHANGED <<tracker, given, inbox, ordinal, pendingFinished>>
  BY DEF HandleStalled
<1>2. /\ e # None /\ e.status = "Running" /\ i \notin receipts
      /\ \A j \in IssueIds : launches[j] = None
  BY <1>0, <1>1 DEF TodoOK, LaunchesOK, MapsOK
<1>3. /\ Recorded(e) /\ WellFormed(e) /\ Backed(e, remote) /\ w \in Workers
  BY <1>2, InIssues DEF IsLive
<1>4. PICK a \in AbortWorker(e) :
        /\ a.stopped
        /\ remote' = StopRemote(a.exec.run.worker, a.reached)
        /\ metadata' = [metadata EXCEPT ![a.exec.run.worker] = None]
        /\ task' = task \ {a.exec.run.worker}
        /\ \E s \in Settlements(i, a.exec, OutcomeFromRun(a.exec.run, "Stalled")) :
             /\ Settle(i, s, s.result.exec)
             /\ IF s.result.ok /\ s.save.ok THEN Handled(i) ELSE EndTick
  BY DEF HandleStalled
<1> DEFINE o == OutcomeFromRun(a.exec.run, "Stalled")
<1>5. /\ WellFormed(a.exec) /\ SamePhase(a.exec, e)
      /\ a.reached \/ Acknowledged(e)
      /\ a.exec.run = e.run /\ IsLive(a.exec)
  BY <1>2, <1>3, <1>4, AbortWorkerResult DEF SamePhase, IsLive
<1>6. o \in OutcomeRecords /\ o.outcome = "Stalled"
  BY <1>5, LiveWorker, OutcomeFromRunResult DEF OutcomeKinds
<1>7. PICK s \in Settlements(i, a.exec, o) :
        /\ Settle(i, s, s.result.exec)
        /\ IF s.result.ok /\ s.save.ok THEN Handled(i) ELSE EndTick
  BY <1>4
<1> HIDE DEF o
<1>8. Settled(s, o)
  BY <1>0, <1>5, <1>6, SettlementResult DEF WorldOK
<1> DEFINE x == s.result.exec
<1>9. /\ ~s.result.ok => x = None
      /\ x # None => Recorded(x) /\ ~IsLive(x)
      /\ ~s.result.receipt
  BY <1>6, <1>8 DEF Settled, IsLive
<1>10. /\ executions'[i] = x
       /\ \A j \in IssueIds : j # i => executions'[j] = executions[j]
       /\ receipts' \subseteq receipts
  BY <1>7, <1>8, <1>9, SettleResult
<1>11. /\ OnlyEnds(remote') /\ remote'[w] # "running"
  <2>1. remote' = StopRemote(w, a.reached)
    BY <1>4, <1>5
  <2>2. OnlyEnds(remote') /\ (a.reached => remote'[w] = "stopped")
    BY <1>0, <1>2, <1>3, <2>1, StopRemoteResult DEF Backed, IsLive
  <2>3. Acknowledged(e) => remote[w] = "stopped"
    BY <1>2, <1>3 DEF Backed, IsLive
  <2>. QED  BY <1>3, <1>5, <2>2, <2>3 DEF OnlyEnds
<1>12. /\ metadata' = [metadata EXCEPT ![w] = None] /\ task' \subseteq task
       /\ metadata' \in [Workers -> IssueIds \cup {None}] /\ metadata'[w] = None
       /\ \A v \in Workers : v # w => metadata'[v] = metadata[v]
  <2>1. metadata' = [metadata EXCEPT ![w] = None] /\ task' \subseteq task
    BY <1>4, <1>5
  <2>. QED  BY <1>0, <1>3, <2>1 DEF KeptOK
<1> HIDE DEF e, w, x
<1>13. \/ GoesOn(i) /\ batch' = batch /\ launches' = launches
       \/ EndTick
  BY <1>0, <1>7, HandledGoesOn
<1>14. \A j \in IssueIds : launches'[j] = None
  BY <1>0, <1>1, <1>2, <1>13, EndTickResult DEF WorldOK
<1>15. inbox' \in Seq(OutcomeRecords) /\ inbox' = inbox /\ batch \in 0..Len(inbox')
  BY <1>0, <1>1 DEF WorldOK, TickOK
<1>16. /\ TickOK' /\ TodoOK' /\ LaunchesOK'
       /\ pc' = "stalled" \/ pc' = "idle"
  <2>1. CASE GoesOn(i) /\ batch' = batch /\ launches' = launches
    <3>1. TickOK' /\ TodoOK'
      BY <1>0, <1>1, <1>10, <1>15, <2>1, GoesOnTick
    <3>2. pc' = pc /\ todo' \subseteq todo
      BY <2>1 DEF GoesOn
    <3>3. LaunchesOK'
      BY <1>0, <1>1, <1>14, <2>1, <3>2 DEF LaunchesOK
    <3>. QED  BY <1>1, <3>1, <3>2, <3>3
  <2>2. CASE EndTick
    BY <1>15, <2>2, EndTickResult
  <2>. QED  BY <1>13, <2>1, <2>2
<1>17. SlotsOK'
  <2>1. \A v \in Workers : \/ metadata'[v] = metadata[v]
                           \/ metadata'[v] = None /\ remote'[v] # "running"
    BY <1>11, <1>12
  <2>. QED  BY <1>0, <1>2, <1>11, <1>12, <1>14, <1>16, <2>1, SlotsStay
<1>18. ~(s.result.ok /\ s.save.ok) => pc' = "idle"
  BY <1>7, <1>15, EndTickResult
<1>19. /\ MayHoldRetry => MayHoldRetry'
       /\ ~s.save.ok => MayHoldRetry'
  BY <1>1, <1>18 DEF MayHoldRetry
<1>20. "ReadLease" \notin Failing /\ i \in receipts' => x # None
  BY <1>2, <1>10
<1>21. ASSUME StopsSucceed
       PROVE  /\ pendingRetry[i] = None
              /\ \A v \in Workers : metadata'[v] # i
              /\ \A j \in IssueIds : pendingFinished'[j] = None
  <2>1. UpdatesOK /\ RetriesKept
    BY <1>0, <1>21
  <2>2. pendingRetry[i] = None
    BY <1>2, <2>1 DEF RetriesKept, IsLive, e
  <2>3. \A v \in Workers : metadata[v] = i => v = w
    BY <1>2, <2>1, InputAssumption DEF UpdatesOK, Runs, w, e
  <2>4. \A j \in IssueIds : pendingFinished[j] = None
    BY <1>1, <2>1 DEF UpdatesOK, KeptNow
  <2>. QED  BY <1>1, <1>12, <2>2, <2>3, <2>4, InputAssumption
<1>22. x # None => Backed(x, remote')
  BY <1>9, NotLiveBacked
<1>23. /\ \A k \in 1..Len(inbox') : \E m \in 1..Len(inbox) : inbox'[k] = inbox[m]
       /\ \A v \in Workers : metadata'[v] \in {metadata[v], None}
       /\ pendingFinished' \in [IssueIds -> [exec : Executions, outcome : OutcomeRecords]
                                            \cup {None}]
       /\ \A j \in IssueIds : pendingFinished'[j] = pendingFinished[j]
  BY <1>0, <1>1, <1>12, <1>15 DEF KeptOK
<1>24. pendingFinished'[i] # None => /\ Recorded(pendingFinished'[i].exec)
                                     /\ Backed(pendingFinished'[i].exec, remote')
  BY <1>0, <1>11, <1>23, BackedEnds DEF KeptOK, RunsOK, Recorded
<1>25. Settle(i, s, x)
  BY <1>7 DEF x
<1>26. s.result.ok => x = s.result.exec
  BY DEF x
<1>27. /\ launches'[i] = None /\ pc' # "flush"
       /\ \A j \in IssueIds : launches'[j] # None =>
             launches'[j] = launches[j] /\ pc' = pc /\ started' = started
  BY <1>14, <1>16
<1>. QED  BY <1>1, <1>8, <1>9, <1>11, <1>12, <1>15, <1>16, <1>17, <1>19, <1>20,
          <1>21, <1>22, <1>23, <1>24, <1>25, <1>26, <1>27, SettleStep

-----------------------------------------------------------------------------
(* From phase to phase. *)

\* The tick goes on to another phase, with what that phase has to handle.
LEMMA MoveStep ==
    ASSUME IInv, StepOnly,
           NEW phase \in Phases, NEW m \in Modes,
           NEW view \in [IssueIds -> StateNames \cup {None}],
           NEW issues \in SUBSET IssueIds, Go(phase, m, view, issues),
           batch' \in 0..Len(inbox), started' \subseteq IssueIds,
           UNCHANGED <<failed, contradicted, launches>>,
           \A j \in IssueIds : launches[j] = None,
           cooldown' \in BOOLEAN, StopsSucceed => cooldown' = cooldown,
           phase = "reconcile" => \A j \in issues : view[j] # None,
           phase = "flush" => \A j \in issues : pendingFinished[j] # None,
           phase = "stalled" => \A j \in issues : /\ executions[j] # None
                                                  /\ executions[j].status = "Running",
           ~MayHoldRetry \/ (phase = "drain" /\ m = "solo"),
           StopsSucceed => \A j \in IssueIds : pendingFinished[j] # None =>
              \/ phase = "flush" /\ j \in issues
              \/ phase = "drain" /\ m = "solo"
    PROVE  IInv'
<1>1. pc' = phase /\ mode' = m /\ snap' = view /\ todo' = issues
  BY DEF Go
<1>2. UNCHANGED <<world, executions, counts, metadata, ordinal, receipts, pendings>>
  BY DEF StepOnly
<1>3. inbox' = inbox /\ executions' = executions /\ pendingFinished' = pendingFinished
  BY <1>2 DEF world, pendings
<1>4. TickOK'
  BY <1>1, <1>3 DEF IInv, TickOK
<1>5. TodoOK'
  BY <1>1, <1>3 DEF TodoOK
<1>6. /\ launches' \in [IssueIds -> Executions \cup {None}]
      /\ \A j \in IssueIds : launches'[j] = None
  BY DEF IInv, LaunchesOK
<1>7. /\ MayHoldRetry => MayHoldRetry'
      /\ pc' = "flush" => ~MayHoldRetry
  BY <1>1 DEF MayHoldRetry
<1>8. StopsSucceed => \A j \in IssueIds : pendingFinished[j] # None => KeptNow(j)'
  BY <1>1 DEF KeptNow
<1>. QED  BY <1>2, <1>4, <1>5, <1>6, <1>7, <1>8, ControlStep

\* Nothing is launched, no update is kept and no retry waits for its record in
\* the phases in between.
LEMMA Between ==
    ASSUME IInv
    PROVE  /\ pc \notin {"dispatch", "launch"} => \A j \in IssueIds : launches[j] = None
           /\ StopsSucceed => ~cooldown
           /\ /\ StopsSucceed
              /\ \/ pc \notin {"idle", "exhaustion", "snapshot", "flush", "drain"}
                 \/ pc = "flush" /\ ~failed /\ todo = {}
                 \/ pc = "drain" /\ ~failed /\ mode # "solo"
              => \A j \in IssueIds : pendingFinished[j] = None
           /\ pc \notin {"idle", "flush", "drain", "launch"} => ~MayHoldRetry
           /\ ~failed /\ pc # "idle" /\ ~(pc = "drain" /\ mode = "solo")
              => ~MayHoldRetry
           /\ NoSnapshot \in [IssueIds -> StateNames \cup {None}]
           /\ batch \in 0..Len(inbox) /\ Len(inbox) \in 0..Len(inbox)
           /\ started \subseteq IssueIds /\ cooldown \in BOOLEAN
           /\ \A issues \in SUBSET IssueIds :
                 /\ View(issues) \in [IssueIds -> StateNames \cup {None}]
                 /\ \A j \in issues : View(issues)[j] # None
<1>1. pc \notin {"dispatch", "launch"} => \A j \in IssueIds : launches[j] = None
  BY DEF IInv, LaunchesOK
<1>2. StopsSucceed => ~cooldown
  BY DEF IInv, UpdatesOK
<1>3. ASSUME StopsSucceed,
             \/ pc \notin {"idle", "exhaustion", "snapshot", "flush", "drain"}
             \/ pc = "flush" /\ ~failed /\ todo = {}
             \/ pc = "drain" /\ ~failed /\ mode # "solo",
             NEW j \in IssueIds
      PROVE  pendingFinished[j] = None
  BY <1>3 DEF IInv, UpdatesOK, KeptNow
<1>4. /\ pc \notin {"idle", "flush", "drain", "launch"} => ~MayHoldRetry
      /\ ~failed /\ pc # "idle" /\ ~(pc = "drain" /\ mode = "solo")
         => ~MayHoldRetry
  BY DEF MayHoldRetry
<1>5. NoSnapshot \in [IssueIds -> StateNames \cup {None}]
  BY DEF NoSnapshot
<1>6. inbox \in Seq(OutcomeRecords) /\ tracker \in [IssueIds -> StateNames]
  BY DEF IInv, WorldOK
<1>7. Len(inbox) \in 0..Len(inbox)
  <2>1. Len(inbox) \in Nat
    BY <1>6
  <2>. QED  BY <2>1
<1>8. batch \in 0..Len(inbox) /\ started \subseteq IssueIds /\ cooldown \in BOOLEAN
  BY DEF IInv, TickOK, KeptOK
<1>9. ASSUME NEW issues \in SUBSET IssueIds
      PROVE  /\ View(issues) \in [IssueIds -> StateNames \cup {None}]
             /\ \A j \in issues : View(issues)[j] # None
  BY <1>6, InputAssumption DEF View
<1>. QED  BY <1>1, <1>2, <1>3, <1>4, <1>5, <1>7, <1>8, <1>9

LEMMA TrackerFailsStep ==
    ASSUME IInv, pc \notin {"dispatch", "launch"}, TrackerFails
    PROVE  IInv'
BY Between, EndStep DEF TrackerFails

LEMMA EnterDrainStep ==
    ASSUME IInv, StepOnly, pc \notin {"dispatch", "launch"},
           NEW m \in Modes, NEW view \in [IssueIds -> StateNames \cup {None}],
           EnterDrain(m, view),
           cooldown' \in BOOLEAN, StopsSucceed => cooldown' = cooldown,
           m = "solo" \/ ~MayHoldRetry,
           m = "solo" \/ (StopsSucceed => \A j \in IssueIds : pendingFinished[j] = None)
    PROVE  IInv'
<1>1. /\ Go("drain", m, view, {}) /\ batch' = Len(inbox)
      /\ UNCHANGED <<failed, launches, started, contradicted>>
  BY DEF EnterDrain
<1>2. "drain" \in Phases
  BY DEF Phases
<1>3. batch' \in 0..Len(inbox) /\ started' \subseteq IssueIds
      /\ \A j \in IssueIds : launches[j] = None
  BY <1>1, Between
<1>. QED  BY <1>1, <1>2, <1>3, MoveStep

LEMMA ContinueStep ==
    ASSUME IInv, StepOnly, Continue, pc \notin {"dispatch", "launch"},
           NEW phase \in Phases, NEW m \in Modes,
           NEW view \in [IssueIds -> StateNames \cup {None}],
           NEW issues \in SUBSET IssueIds, Go(phase, m, view, issues),
           cooldown' \in BOOLEAN, StopsSucceed => cooldown' = cooldown,
           phase = "reconcile" => \A j \in issues : view[j] # None,
           phase = "flush" => \A j \in issues : pendingFinished[j] # None,
           phase = "stalled" => \A j \in issues : /\ executions[j] # None
                                                  /\ executions[j].status = "Running",
           ~MayHoldRetry,
           \/ StopsSucceed => \A j \in IssueIds : pendingFinished[j] = None
           \/ phase = "flush" /\ Pending \subseteq issues
    PROVE  IInv'
<1>1. /\ UNCHANGED <<failed, contradicted, launches>> /\ batch' = batch
      /\ started' = started
  BY DEF Continue
<1>2. batch' \in 0..Len(inbox) /\ started' \subseteq IssueIds
      /\ \A j \in IssueIds : launches[j] = None
  BY <1>1, Between
<1>3. StopsSucceed => \A j \in IssueIds : pendingFinished[j] # None =>
         phase = "flush" /\ j \in issues
  BY DEF Pending
<1>. QED  BY <1>1, <1>2, <1>3, MoveStep

LEMMA RateLimitedStep ==
    ASSUME IInv, NEW phase \in {"drain", "discover", "stalls"}, RateLimited(phase),
           pc \in {"snapshot", "late", "discover", "details"}
    PROVE  IInv'
<1>1. /\ ~StopsSucceed /\ cooldown' \in BOOLEAN /\ StepOnly
  BY DEF RateLimited, StopsSucceed, Fails, StepOnly
<1>2. /\ phase \in Phases /\ "none" \in Modes /\ {} \in SUBSET IssueIds
      /\ NoSnapshot \in [IssueIds -> StateNames \cup {None}]
      /\ ~MayHoldRetry
  BY Between DEF Phases, Modes
<1>3. CASE phase = "drain"
  <2>1. EnterDrain("none", NoSnapshot)
    BY <1>3 DEF RateLimited
  <2>. QED  BY <1>1, <1>2, <2>1, EnterDrainStep
<1>4. CASE phase # "drain"
  <2>1. Go(phase, "none", NoSnapshot, {}) /\ Continue
    BY <1>4 DEF RateLimited
  <2>. QED  BY <1>1, <1>2, <1>4, <2>1, ContinueStep
<1>. QED  BY <1>3, <1>4

\* Before the updates are drained.
LEMMA SoloDrainStep ==
    ASSUME IInv, SoloDrain
    PROVE  IInv'
<1>1. /\ pc = "idle" /\ EnterDrain("solo", NoSnapshot) /\ StepOnly
      /\ cooldown' = cooldown
  BY DEF SoloDrain
<1>2. /\ "solo" \in Modes /\ NoSnapshot \in [IssueIds -> StateNames \cup {None}]
      /\ cooldown \in BOOLEAN
  BY Between DEF Modes
<1>. QED  BY <1>1, <1>2, EnterDrainStep

LEMMA LoadSnapshotStep ==
    ASSUME IInv, LoadSnapshot
    PROVE  IInv'
<1> DEFINE seen == Known \cup {i \in IssueIds : CategoryOf[tracker[i]] # "NonActive"}
<1>1. /\ pc = "snapshot" /\ Go("flush", "full", View(seen), Pending)
      /\ Continue /\ StepOnly /\ cooldown' = cooldown
  BY DEF LoadSnapshot
<1>2. seen \in SUBSET IssueIds /\ Pending \in SUBSET IssueIds
  BY DEF Known, Pending
<1> HIDE DEF seen
<1>3. /\ View(seen) \in [IssueIds -> StateNames \cup {None}]
      /\ "flush" \in Phases /\ "full" \in Modes
      /\ ~MayHoldRetry /\ cooldown \in BOOLEAN
      /\ \A j \in Pending : pendingFinished[j] # None
  BY <1>1, <1>2, Between DEF Phases, Modes, Pending
<1>. QED  BY <1>1, <1>2, <1>3, ContinueStep

LEMMA RefreshRunningStep ==
    ASSUME IInv, RefreshRunning
    PROVE  IInv'
<1> DEFINE asked == InStatus({"Claimed", "Running", "RetryQueued"})
<1>1. /\ pc = "snapshot" /\ Pending = {} /\ Go("reconcile", "running", View(asked), asked)
      /\ Continue /\ StepOnly /\ cooldown' = cooldown
  BY DEF RefreshRunning
<1>2. asked \in SUBSET IssueIds
  BY DEF InStatus, Known
<1> HIDE DEF asked
<1>3. /\ View(asked) \in [IssueIds -> StateNames \cup {None}]
      /\ \A j \in asked : View(asked)[j] # None
      /\ "reconcile" \in Phases /\ "running" \in Modes
      /\ ~MayHoldRetry /\ cooldown \in BOOLEAN
      /\ \A j \in IssueIds : pendingFinished[j] = None
  BY <1>1, <1>2, Between DEF Phases, Modes, Pending
<1>. QED  BY <1>1, <1>2, <1>3, ContinueStep

LEMMA SnapshotFailsStep ==
    ASSUME IInv, SnapshotFails
    PROVE  IInv'
BY TrackerFailsStep, RateLimitedStep DEF SnapshotFails

LEMMA NoRefreshStep ==
    ASSUME IInv, NoRefresh
    PROVE  IInv'
<1>1. /\ pc = "snapshot"
      /\ (cooldown \/ Pending = {})
      /\ EnterDrain("none", NoSnapshot) /\ StepOnly /\ cooldown' = cooldown
  BY DEF NoRefresh
<1>2. /\ "none" \in Modes /\ NoSnapshot \in [IssueIds -> StateNames \cup {None}]
      /\ cooldown \in BOOLEAN /\ ~MayHoldRetry
      /\ StopsSucceed => ~cooldown
  BY <1>1, Between DEF Modes
<1>3. StopsSucceed => \A j \in IssueIds : pendingFinished[j] = None
  BY <1>1, <1>2 DEF Pending
<1>. QED  BY <1>1, <1>2, <1>3, EnterDrainStep

LEMMA FlushDoneStep ==
    ASSUME IInv, FlushDone
    PROVE  IInv'
<1>1. /\ pc = "flush" /\ todo = {}
      /\ IF failed THEN EndTick ELSE EnterDrain(mode, snap)
      /\ StepOnly /\ cooldown' = cooldown
  BY DEF FlushDone
<1>2. CASE failed
  BY <1>1, <1>2, Between, EndStep DEF StepOnly
<1>3. CASE ~failed
  <2>1. /\ mode \in Modes /\ snap \in [IssueIds -> StateNames \cup {None}]
        /\ cooldown \in BOOLEAN
    BY DEF IInv, TickOK, KeptOK
  <2>2. /\ ~MayHoldRetry
        /\ StopsSucceed => \A j \in IssueIds : pendingFinished[j] = None
    BY <1>1, <1>3, Between
  <2>. QED  BY <1>1, <1>3, <2>1, <2>2, EnterDrainStep
<1>. QED  BY <1>2, <1>3

LEMMA DrainDoneStep ==
    ASSUME IInv, DrainDone
    PROVE  IInv'
<1>1. /\ pc = "drain" /\ StepOnly /\ cooldown' = cooldown
      /\ IF failed \/ mode = "solo" THEN EndTick
         ELSE /\ IF mode = "full"
                 THEN Go("reconcile", "full", snap, {i \in IssueIds : snap[i] # None})
                 ELSE Go(IF cooldown THEN "stalls" ELSE "late", "none", NoSnapshot, {})
              /\ Continue
  BY DEF DrainDone
<1>2. CASE failed \/ mode = "solo"
  BY <1>1, <1>2, Between, EndStep DEF StepOnly
<1>3. CASE ~failed /\ mode # "solo"
  <2>1. /\ snap \in [IssueIds -> StateNames \cup {None}] /\ cooldown \in BOOLEAN
    BY DEF IInv, TickOK, KeptOK
  <2>2. /\ ~MayHoldRetry
        /\ StopsSucceed => \A j \in IssueIds : pendingFinished[j] = None
        /\ NoSnapshot \in [IssueIds -> StateNames \cup {None}]
    BY <1>1, <1>3, Between
  <2>3. /\ "reconcile" \in Phases /\ "stalls" \in Phases /\ "late" \in Phases
        /\ "full" \in Modes /\ "none" \in Modes
    BY DEF Phases, Modes
  <2>4. CASE mode = "full"
    <3> DEFINE issues == {i \in IssueIds : snap[i] # None}
    <3>1. Go("reconcile", "full", snap, issues) /\ Continue
      BY <1>1, <1>3, <2>4
    <3>2. issues \in SUBSET IssueIds /\ \A j \in issues : snap[j] # None
      OBVIOUS
    <3> HIDE DEF issues
    <3>. QED  BY <1>1, <2>1, <2>2, <2>3, <3>1, <3>2, ContinueStep
  <2>5. CASE mode # "full"
    <3> DEFINE phase == IF cooldown THEN "stalls" ELSE "late"
    <3>1. Go(phase, "none", NoSnapshot, {}) /\ Continue
      BY <1>1, <1>3, <2>5
    <3>2. phase \in Phases /\ phase \in {"stalls", "late"}
      BY <2>3
    <3>3. {} \in SUBSET IssueIds
      OBVIOUS
    <3> HIDE DEF phase
    <3>. QED  BY <1>1, <2>1, <2>2, <2>3, <3>1, <3>2, <3>3, ContinueStep
  <2>. QED  BY <2>4, <2>5
<1>. QED  BY <1>2, <1>3

LEMMA ParkedLeaseFailsStep ==
    ASSUME IInv, NEW i \in IssueIds, ParkedLeaseFails(i)
    PROVE  IInv'
<1>1. /\ pc = "reconcile" /\ EndTick /\ cooldown' = cooldown
      /\ UNCHANGED <<world, executions, counts, metadata, ordinal, receipts, pendings>>
  BY DEF ParkedLeaseFails, Reconciles
<1>. QED  BY <1>1, Between, EndStep

LEMMA ReconcileDoneStep ==
    ASSUME IInv, ReconcileDone
    PROVE  IInv'
<1>1. /\ pc = "reconcile" /\ StepOnly /\ cooldown' = cooldown
      /\ \/ Go("dispatch", "full", snap, ActiveIn(snap)) /\ Continue
         \/ EnterDrain("none", NoSnapshot)
         \/ Go("discover", "none", NoSnapshot, {}) /\ Continue
  BY DEF ReconcileDone
<1>2. /\ snap \in [IssueIds -> StateNames \cup {None}] /\ cooldown \in BOOLEAN
      /\ ActiveIn(snap) \in SUBSET IssueIds /\ {} \in SUBSET IssueIds
  BY DEF IInv, TickOK, KeptOK, ActiveIn
<1>3. /\ ~MayHoldRetry
      /\ StopsSucceed => \A j \in IssueIds : pendingFinished[j] = None
      /\ NoSnapshot \in [IssueIds -> StateNames \cup {None}]
  BY <1>1, Between
<1>4. /\ "dispatch" \in Phases /\ "discover" \in Phases
      /\ "full" \in Modes /\ "none" \in Modes
  BY DEF Phases, Modes
<1>5. CASE Go("dispatch", "full", snap, ActiveIn(snap)) /\ Continue
  BY <1>1, <1>2, <1>3, <1>4, <1>5, ContinueStep
<1>6. CASE EnterDrain("none", NoSnapshot)
  BY <1>1, <1>2, <1>3, <1>4, <1>6, EnterDrainStep
<1>7. CASE Go("discover", "none", NoSnapshot, {}) /\ Continue
  BY <1>1, <1>2, <1>3, <1>4, <1>7, ContinueStep
<1>. QED  BY <1>1, <1>5, <1>6, <1>7

LEMMA RefreshTerminalStep ==
    ASSUME IInv, RefreshTerminal
    PROVE  IInv'
<1> DEFINE ended == {i \in IssueIds : CategoryOf[tracker[i]] = "Terminal"}
<1>1. /\ pc = "late" /\ Go("reconcile", "terminal", View(ended), ended)
      /\ Continue /\ StepOnly /\ cooldown' = cooldown
  BY DEF RefreshTerminal
<1>2. ended \in SUBSET IssueIds
  OBVIOUS
<1> HIDE DEF ended
<1>3. /\ View(ended) \in [IssueIds -> StateNames \cup {None}]
      /\ \A j \in ended : View(ended)[j] # None
      /\ "reconcile" \in Phases /\ "terminal" \in Modes
      /\ ~MayHoldRetry /\ cooldown \in BOOLEAN
      /\ StopsSucceed => \A j \in IssueIds : pendingFinished[j] = None
  BY <1>1, <1>2, Between DEF Phases, Modes
<1>. QED  BY <1>1, <1>2, <1>3, ContinueStep

\* To a phase that looks at the tracker itself, with nothing in hand.
LEMMA NothingToHandleStep ==
    ASSUME IInv, pc \in {"late", "discover", "details"}, StepOnly, Continue,
           NEW phase \in {"discover", "stalls"}, Go(phase, "none", NoSnapshot, {}),
           cooldown' = cooldown
    PROVE  IInv'
<1>1. /\ phase \in Phases /\ "none" \in Modes /\ {} \in SUBSET IssueIds
      /\ NoSnapshot \in [IssueIds -> StateNames \cup {None}]
      /\ ~MayHoldRetry /\ cooldown \in BOOLEAN
      /\ StopsSucceed => \A j \in IssueIds : pendingFinished[j] = None
  BY Between DEF Phases, Modes
<1>. QED  BY <1>1, ContinueStep

LEMMA NoTerminalRefreshStep ==
    ASSUME IInv, NoTerminalRefresh
    PROVE  IInv'
BY NothingToHandleStep DEF NoTerminalRefresh

LEMMA DiscoverStep ==
    ASSUME IInv, Discover
    PROVE  IInv'
<1> DEFINE active == {i \in IssueIds : CategoryOf[tracker[i]] = "Active"}
<1>1. /\ pc = "discover" /\ Go("details", "summary", NoSnapshot, active)
      /\ Continue /\ StepOnly /\ cooldown' = cooldown
  BY DEF Discover
<1>2. active \in SUBSET IssueIds
  OBVIOUS
<1> HIDE DEF active
<1>3. /\ NoSnapshot \in [IssueIds -> StateNames \cup {None}]
      /\ "details" \in Phases /\ "summary" \in Modes
      /\ ~MayHoldRetry /\ cooldown \in BOOLEAN
      /\ StopsSucceed => \A j \in IssueIds : pendingFinished[j] = None
  BY <1>1, Between DEF Phases, Modes
<1>. QED  BY <1>1, <1>2, <1>3, ContinueStep

LEMMA NoDiscoveryStep ==
    ASSUME IInv, NoDiscovery
    PROVE  IInv'
BY NothingToHandleStep DEF NoDiscovery

LEMMA LateFailsStep ==
    ASSUME IInv, LateFails
    PROVE  IInv'
<1>1. CASE pc = "late" /\ TrackerFails
  BY <1>1, TrackerFailsStep
<1>2. CASE pc = "late" /\ RateLimited("discover")
  BY <1>2, RateLimitedStep
<1>3. CASE pc \in {"discover", "details"} /\ TrackerFails
  BY <1>3, TrackerFailsStep
<1>4. CASE pc \in {"discover", "details"} /\ RateLimited("stalls")
  BY <1>4, RateLimitedStep
<1>. QED  BY <1>1, <1>2, <1>3, <1>4 DEF LateFails

LEMMA FetchDetailsStep ==
    ASSUME IInv, FetchDetails
    PROVE  IInv'
<1>1. PICK some \in SUBSET todo : Go("dispatch", "summary", View(some), todo)
  BY DEF FetchDetails
<1>2. pc = "details" /\ Continue /\ StepOnly /\ cooldown' = cooldown
  BY DEF FetchDetails
<1>3. todo \in SUBSET IssueIds /\ some \in SUBSET IssueIds
  BY DEF IInv, TickOK
<1>4. /\ View(some) \in [IssueIds -> StateNames \cup {None}]
      /\ "dispatch" \in Phases /\ "summary" \in Modes
      /\ ~MayHoldRetry /\ cooldown \in BOOLEAN
      /\ StopsSucceed => \A j \in IssueIds : pendingFinished[j] = None
  BY <1>2, <1>3, Between DEF Phases, Modes
<1>. QED  BY <1>1, <1>2, <1>3, <1>4, ContinueStep

LEMMA NoDetailsStep ==
    ASSUME IInv, NoDetails
    PROVE  IInv'
BY NothingToHandleStep DEF NoDetails

LEMMA FindStallsStep ==
    ASSUME IInv, FindStalls
    PROVE  IInv'
<1>1. PICK quiet \in SUBSET InStatus({"Running"}) :
        Go("stalled", "none", NoSnapshot, quiet)
  BY DEF FindStalls
<1>2. pc = "stalls" /\ Continue /\ StepOnly /\ cooldown' = cooldown
  BY DEF FindStalls
<1>3. /\ quiet \in SUBSET IssueIds
      /\ \A j \in quiet : executions[j] # None /\ executions[j].status = "Running"
  BY DEF InStatus, Known
<1>4. /\ NoSnapshot \in [IssueIds -> StateNames \cup {None}]
      /\ "stalled" \in Phases /\ "none" \in Modes
      /\ ~MayHoldRetry /\ cooldown \in BOOLEAN
      /\ StopsSucceed => \A j \in IssueIds : pendingFinished[j] = None
  BY <1>2, Between DEF Phases, Modes
<1>. QED  BY <1>1, <1>2, <1>3, <1>4, ContinueStep

LEMMA StallsDoneStep ==
    ASSUME IInv, StallsDone
    PROVE  IInv'
<1>1. PICK due \in SUBSET InStatus({"RetryQueued"}) :
          LET local == {i \in InStatus({"Unclaimed"}) \cup due :
                          Category(executions[i]) = "Active"}
          IN  Go("dispatch", "known",
                 [i \in IssueIds |-> IF i \in local THEN executions[i].issue.state
                                     ELSE None],
                 local)
  BY DEF StallsDone
<1> DEFINE local == {i \in InStatus({"Unclaimed"}) \cup due :
                       Category(executions[i]) = "Active"}
           view == [i \in IssueIds |-> IF i \in local THEN executions[i].issue.state
                                       ELSE None]
<1>2. /\ pc = "stalled" /\ Continue /\ StepOnly /\ cooldown' = cooldown
      /\ Go("dispatch", "known", view, local)
  BY <1>1 DEF StallsDone
<1>3. local \in SUBSET IssueIds /\ \A i \in local : executions[i] # None
  BY DEF InStatus, Known
<1> HIDE DEF local
<1>4. \A i \in local : executions[i].issue.state \in StateNames
  BY <1>3 DEF IInv, MapsOK, Executions, Issues
<1>5. view \in [IssueIds -> StateNames \cup {None}]
  BY <1>4
<1> HIDE DEF view
<1>6. /\ "dispatch" \in Phases /\ "known" \in Modes
      /\ ~MayHoldRetry /\ cooldown \in BOOLEAN
      /\ StopsSucceed => \A j \in IssueIds : pendingFinished[j] = None
  BY <1>2, Between DEF Phases, Modes
<1>. QED  BY <1>2, <1>3, <1>5, <1>6, ContinueStep

LEMMA PreparationFailsStep ==
    ASSUME IInv, PreparationFails
    PROVE  IInv'
<1>1. /\ pc = "dispatch" /\ EndTick /\ cooldown' = cooldown
      /\ UNCHANGED <<world, executions, counts, metadata, ordinal, receipts, pendings>>
  BY DEF PreparationFails
<1>. QED  BY <1>1, EndStep

\* The claims are launched or lost; the next phase, or the end of the tick.
LEMMA DispatchDoneStep ==
    ASSUME IInv, DispatchDone
    PROVE  IInv'
<1>1. /\ pc \in {"launch", "dispatch"} /\ StepOnly /\ cooldown' = cooldown
      /\ \A j \in IssueIds : launches[j] = None
  BY DEF DispatchDone, Claims
<1>2. CASE failed \/ mode = "known"
  <2>1. EndTick
    BY <1>2 DEF DispatchDone
  <2>. QED  BY <1>1, <2>1, EndStep DEF StepOnly
<1>3. CASE ~(failed \/ mode = "known")
  <2> DEFINE phase == IF mode = "summary" THEN "details" ELSE "stalls"
             m == IF mode = "summary" THEN "summary" ELSE "none"
             issues == IF mode = "summary" THEN {i \in todo : snap[i] = None} ELSE {}
  <2>1. /\ Go(phase, m, NoSnapshot, issues) /\ started' = {}
        /\ UNCHANGED <<batch, failed, launches, contradicted>>
    BY <1>3 DEF DispatchDone, Go
  <2>2. /\ phase \in Phases /\ m \in Modes
        /\ phase \in {"details", "stalls"}
    BY DEF Phases, Modes
  <2>3. issues \in SUBSET IssueIds
    BY DEF IInv, TickOK
  <2> HIDE DEF phase, m, issues
  <2>4. /\ NoSnapshot \in [IssueIds -> StateNames \cup {None}]
        /\ batch' \in 0..Len(inbox) /\ started' \subseteq IssueIds
        /\ ~MayHoldRetry /\ cooldown \in BOOLEAN
        /\ StopsSucceed => \A j \in IssueIds : pendingFinished[j] = None
    BY <1>1, <1>3, <2>1, Between
  <2>. QED  BY <1>1, <2>1, <2>2, <2>3, <2>4, MoveStep
<1>. QED  BY <1>2, <1>3

-----------------------------------------------------------------------------
(* The world outside. *)

\* Nothing of the scheduler's moves; runs that were started may end.
LEMMA OutsideStep ==
    ASSUME IInv, Outside, WorldOK', OnlyEnds(remote'), stored' = stored,
           Len(inbox') >= Len(inbox)
    PROVE  IInv'
<1>0. /\ MapsOK /\ WorldOK /\ KeptOK /\ TickOK /\ TodoOK /\ LaunchesOK /\ RunsOK
      /\ ReceiptsKept /\ SlotsOK /\ (StopsSucceed => RetriesKept /\ UpdatesOK)
  BY DEF IInv
<1>1. /\ UNCHANGED <<executions, counts, metadata, ordinal, receipts, cooldown>>
      /\ UNCHANGED <<pendingFinished, pendingRetry, pendingExhaustion>>
      /\ UNCHANGED <<pc, mode, todo, batch, failed>>
      /\ UNCHANGED <<snap, launches, started, contradicted>>
  BY DEF Outside, pendings, tick, locals
<1>2. MapsOK'
  BY <1>0, <1>1 DEF MapsOK, RunningCountsExact, Known
<1>3. KeptOK'
  BY <1>0, <1>1 DEF KeptOK
<1>4. TickOK'
  <2>1. batch' \in 0..Len(inbox')
    <3>1. batch \in 0..Len(inbox) /\ Len(inbox) \in Nat /\ Len(inbox') \in Nat
      BY <1>0 DEF TickOK, WorldOK
    <3>. QED  BY <1>1, <3>1
  <2>. QED  BY <1>0, <1>1, <2>1 DEF TickOK
<1>5. TodoOK'
  BY <1>0, <1>1 DEF TodoOK
<1>6. LaunchesOK'
  BY <1>0, <1>1 DEF LaunchesOK, ClaimOf
<1>7. RunsOK'
  BY <1>0, <1>1, RunsEnd
<1>8. ReceiptsKept'
  BY <1>0, <1>1 DEF ReceiptsKept
<1>9. SlotsOK'
  <2>1. metadata' \in [Workers -> IssueIds \cup {None}]
    BY <1>0, <1>1 DEF KeptOK
  <2>. QED  BY <1>0, <1>1, <2>1, SlotsStay
<1>10. StopsSucceed => RetriesKept'
  BY <1>0, <1>1, RetriesStay DEF MayHoldRetry
<1>11. StopsSucceed => UpdatesOK'
  BY <1>0, <1>1 DEF UpdatesOK, KeptNow
<1>. QED  BY <1>2, <1>3, <1>4, <1>5, <1>6, <1>7, <1>8, <1>9, <1>10, <1>11
     DEF IInv, StopsSucceed

LEMMA TrackerMoveStep ==
    ASSUME IInv, NEW i \in IssueIds, TrackerMove(i)
    PROVE  IInv'
<1>1. PICK s \in StateNames \ {tracker[i]} : tracker' = [tracker EXCEPT ![i] = s]
  BY DEF TrackerMove
<1>2. UNCHANGED <<remote, task, given, inbox, stored>> /\ Outside
  BY DEF TrackerMove
<1>3. WorldOK
  BY DEF IInv
<1>4. WorldOK'
  BY <1>1, <1>2, <1>3 DEF WorldOK
<1>5. OnlyEnds(remote') /\ Len(inbox') >= Len(inbox)
  BY <1>2, <1>3, SameRuns DEF WorldOK
<1>. QED  BY <1>2, <1>4, <1>5, OutsideStep

LEMMA WorkerFinishesStep ==
    ASSUME IInv, NEW w \in Workers, WorkerFinishes(w)
    PROVE  IInv'
<1>1. PICK kind \in Finishes :
          /\ inbox' = Append(inbox, OutcomeFromRun(given[w], kind))
          /\ \E left \in (IF remote[w] = "running" THEN LeftBehind(kind)
                          ELSE {"stopped"}) :
                remote' = [remote EXCEPT ![w] = left]
  BY DEF WorkerFinishes
<1>2. /\ w \in task /\ task' = task \ {w}
      /\ UNCHANGED <<tracker, given, stored>> /\ Outside
  BY DEF WorkerFinishes
<1>3. WorldOK
  BY DEF IInv
<1> DEFINE o == OutcomeFromRun(given[w], kind)
<1>4. /\ given[w] \in RunAttempts /\ given[w].worker = w /\ remote[w] # "none"
  BY <1>2, <1>3 DEF WorldOK
<1>5. o \in OutcomeRecords /\ o.worker = w
  BY <1>4, OutcomeFromRunResult, SchedulerAssumption
<1>6. OnlyEnds(remote') /\ remote'[w] \in {"detached", "unstopped", "stopped"}
  <2>1. PICK left \in {"detached", "unstopped", "stopped"} :
          /\ remote' = [remote EXCEPT ![w] = left]
          /\ left = "stopped" \/ remote[w] = "running"
    BY <1>1 DEF LeftBehind
  <2>. QED  BY <1>3, <1>4, <2>1 DEF OnlyEnds, WorldOK
<1> HIDE DEF o
<1>7. /\ inbox' \in Seq(OutcomeRecords) /\ Len(inbox') = Len(inbox) + 1
      /\ inbox'[Len(inbox) + 1] = o /\ Len(inbox) \in Nat
      /\ \A k \in 1..Len(inbox) : inbox'[k] = inbox[k]
  BY <1>1, <1>3, <1>5 DEF WorldOK, o
<1>8. \A k \in 1..Len(inbox') : remote'[inbox'[k].worker] \in {"detached", "unstopped", "stopped"}
  <2> SUFFICES ASSUME NEW k \in 1..Len(inbox')
               PROVE  remote'[inbox'[k].worker] \in {"detached", "unstopped", "stopped"}
    OBVIOUS
  <2>1. CASE k = Len(inbox) + 1
    BY <1>5, <1>6, <1>7, <2>1
  <2>2. CASE k # Len(inbox) + 1
    <3>1. k \in 1..Len(inbox) /\ inbox'[k] = inbox[k]
      BY <1>7, <2>2
    <3>2. inbox[k] \in OutcomeRecords
      BY <1>3, <3>1 DEF WorldOK
    <3>3. inbox[k].worker \in Workers
      BY <3>2 DEF OutcomeRecords
    <3>. QED  BY <1>3, <1>6, <3>1, <3>3 DEF WorldOK, OnlyEnds
  <2>. QED  BY <2>1, <2>2
<1>9. \A v \in task' : given'[v] # None /\ given'[v].worker = v /\ remote'[v] # "none"
  BY <1>2, <1>3, <1>6 DEF WorldOK, OnlyEnds
<1>10. WorldOK'
  BY <1>2, <1>3, <1>6, <1>7, <1>8, <1>9 DEF WorldOK, OnlyEnds
<1>. QED  BY <1>2, <1>6, <1>7, <1>10, OutsideStep

LEMMA UnwatchedEndsStep ==
    ASSUME IInv, NEW w \in Workers, UnwatchedEnds(w)
    PROVE  IInv'
<1>1. /\ remote[w] \in {"detached", "unstopped"}
      /\ remote' = [remote EXCEPT ![w] = "stopped"]
      /\ UNCHANGED <<tracker, task, given, inbox, stored>> /\ Outside
  BY DEF UnwatchedEnds
<1>2. WorldOK
  BY DEF IInv
<1>3. OnlyEnds(remote')
  BY <1>1, <1>2 DEF OnlyEnds, WorldOK
<1>4. stored' \in [IssueIds -> U32]
  BY <1>1, <1>2 DEF WorldOK
<1>5. WorldOK'
  BY <1>1, <1>2, <1>3, <1>4, WorldEnds
<1>6. Len(inbox') >= Len(inbox)
  BY <1>1, <1>2 DEF WorldOK
<1>. QED  BY <1>1, <1>3, <1>5, <1>6, OutsideStep

-----------------------------------------------------------------------------
(* The start of a tick. *)

\* flush_pending_retry_persistence
LEMMA FlushRetriesStep ==
    ASSUME IInv, FlushRetries
    PROVE  IInv'
<1> DEFINE held == {i \in Known : pendingRetry[i] # None
                                  /\ executions[i].workspace # None}
<1>0. /\ MapsOK /\ WorldOK /\ KeptOK /\ TickOK /\ TodoOK /\ LaunchesOK /\ RunsOK
      /\ ReceiptsKept /\ SlotsOK /\ (StopsSucceed => RetriesKept /\ UpdatesOK)
  BY DEF IInv
<1>1. /\ pc = "idle"
      /\ UNCHANGED <<tracker, remote, task, given, inbox>>
      /\ UNCHANGED <<executions, counts, metadata, ordinal, receipts>>
      /\ UNCHANGED <<pendingFinished, pendingExhaustion, cooldown>>
  BY DEF FlushRetries
<1>2. PICK stuck \in SUBSET (IF Fails("PersistRetry") THEN held ELSE {}) :
             /\ stored' = [i \in IssueIds |->
                             IF i \in held \ stuck THEN pendingRetry[i].attempt
                             ELSE stored[i]]
             /\ pendingRetry' = [i \in IssueIds |->
                                   IF i \in stuck THEN pendingRetry[i] ELSE None]
             /\ IF stuck # {} THEN Stay
                ELSE /\ Go("exhaustion", "none", NoSnapshot, {})
                     /\ Continue
  BY DEF FlushRetries
<1>3. /\ stuck \subseteq held
      /\ \A i \in IssueIds : i \in held
            <=> /\ executions[i] # None /\ pendingRetry[i] # None
                /\ executions[i].workspace # None
  BY DEF Known
<1> HIDE DEF held
<1>4. \A i \in IssueIds : pendingRetry[i] # None => pendingRetry[i].attempt \in U32
  BY <1>0, WidthAssumption DEF KeptOK, RetryEntries, RetryAttempts, U32
<1>5. stored' \in [IssueIds -> U32]
  BY <1>0, <1>2, <1>3, <1>4 DEF WorldOK
<1>6. pendingRetry' \in [IssueIds -> RetryEntries \cup {None}]
  BY <1>0, <1>2 DEF KeptOK
<1>7. /\ \A j \in IssueIds : launches[j] = None
      /\ NoSnapshot \in [IssueIds -> StateNames \cup {None}]
  BY <1>1, Between
<1>8. /\ launches' = launches /\ started' = started /\ batch' = batch
      /\ failed' = failed /\ contradicted' = contradicted
      /\ \/ stuck # {} /\ UNCHANGED <<pc, mode, todo, snap>>
         \/ /\ stuck = {} /\ pc' = "exhaustion" /\ mode' = "none"
            /\ snap' = NoSnapshot /\ todo' = {}
  BY <1>2 DEF Stay, tick, locals, Continue, Go
<1>9. MapsOK'
  BY <1>0, <1>1 DEF MapsOK, RunningCountsExact, Known
<1>10. OnlyEnds(remote')
  BY <1>0, <1>1, SameRuns
<1>11. WorldOK'
  BY <1>0, <1>1, <1>5, <1>10, WorldEnds
<1>12. KeptOK'
  BY <1>0, <1>1, <1>6 DEF KeptOK
<1>13. TickOK'
  BY <1>0, <1>1, <1>7, <1>8 DEF TickOK, Phases, Modes
<1>14. TodoOK'
  BY <1>1, <1>8 DEF TodoOK
<1>15. LaunchesOK'
  BY <1>0, <1>1, <1>7, <1>8 DEF LaunchesOK
<1>16. RunsOK'
  BY <1>0, <1>1, <1>7, <1>8, <1>10, RunsEnd
<1>17. ReceiptsKept'
  BY <1>0, <1>1 DEF ReceiptsKept
<1>18. SlotsOK'
  <2>1. metadata' \in [Workers -> IssueIds \cup {None}] /\ pc' # "launch"
    BY <1>0, <1>1, <1>8 DEF KeptOK
  <2>. QED  BY <1>0, <1>1, <1>7, <1>8, <1>10, <2>1, SlotsStay
<1>19. ASSUME StopsSucceed
       PROVE  RetriesKept'
  <2>1. RetriesKept
    BY <1>0, <1>19
  <2>2. ASSUME NEW i \in IssueIds, HasQueued(i)'
        PROVE  stored'[i] = executions'[i].retry.attempt \/ pendingRetry'[i] # None
    <3>1. HasQueued(i) /\ executions'[i] = executions[i]
      BY <1>1, <2>2 DEF HasQueued
    <3>2. executions[i] # None /\ executions[i].workspace # None
      BY <3>1, InIssues DEF WellFormed, HasQueued
    <3>3. CASE pendingRetry[i] = None
      <4>1. stored[i] = executions[i].retry.attempt /\ i \notin held
        BY <1>3, <2>1, <3>1, <3>3 DEF RetriesKept
      <4>. QED  BY <1>2, <3>1, <4>1
    <3>4. CASE pendingRetry[i] # None
      <4>1. i \in held /\ pendingRetry[i].attempt = executions[i].retry.attempt
        BY <1>3, <2>1, <3>1, <3>2, <3>4 DEF RetriesKept
      <4>. QED  BY <1>2, <3>1, <3>4, <4>1
    <3>. QED  BY <3>3, <3>4
  <2>3. ASSUME NEW i \in IssueIds, pendingRetry'[i] # None
        PROVE  /\ MayHoldRetry'
               /\ HasQueued(i)' =>
                     pendingRetry'[i].attempt = executions'[i].retry.attempt
               /\ executions'[i] # None => ~IsLive(executions'[i])
               /\ pc' = "flush" => i \notin todo'
               /\ launches'[i] = None
    <3>1. i \in stuck /\ pendingRetry'[i] = pendingRetry[i]
      BY <1>2, <2>3
    <3>2. pc' = "idle"
      BY <1>1, <1>8, <3>1
    <3>. QED  BY <1>1, <1>7, <1>8, <2>1, <2>3, <3>1, <3>2
         DEF RetriesKept, MayHoldRetry, HasQueued
  <2>4. RetryIsDurable'
    BY <1>7, <1>8 DEF RetryIsDurable, Claims
  <2>. QED  BY <2>2, <2>3, <2>4 DEF RetriesKept
<1>20. ASSUME StopsSucceed
       PROVE  UpdatesOK'
  <2>1. UpdatesOK
    BY <1>0, <1>20
  <2>2. \A j \in IssueIds : KeptNow(j)'
    BY <1>1, <1>8 DEF KeptNow
  <2>. QED  BY <1>1, <2>1, <2>2 DEF UpdatesOK
<1>. QED  BY <1>9, <1>11, <1>12, <1>13, <1>14, <1>15, <1>16, <1>17, <1>18, <1>19, <1>20
     DEF IInv, StopsSucceed

\* flush_pending_retry_exhaustion_persistence
LEMMA FlushExhaustionStep ==
    ASSUME IInv, FlushExhaustion
    PROVE  IInv'
<1>0. /\ MapsOK /\ WorldOK /\ KeptOK /\ TickOK /\ TodoOK /\ LaunchesOK /\ RunsOK
      /\ ReceiptsKept /\ SlotsOK /\ (StopsSucceed => RetriesKept /\ UpdatesOK)
  BY DEF IInv
<1>1. /\ pc = "exhaustion"
      /\ UNCHANGED <<tracker, remote, task, given, inbox, stored>>
      /\ UNCHANGED <<counts, metadata, ordinal, receipts, pendingFinished, pendingRetry>>
  BY DEF FlushExhaustion, world
<1>2. PICK stuck \in SUBSET (IF Fails("PersistExhaustion") THEN pendingExhaustion
                             ELSE {}),
          clean \in SUBSET {i \in pendingExhaustion \cap Known :
                              RetryExhausted(executions[i]) /\ ~RetainFailed} :
          /\ clean \cap stuck = {}
          /\ pendingExhaustion' = stuck
          /\ executions' = [i \in IssueIds |->
                               IF i \in clean THEN ClearWorkspace(executions[i])
                               ELSE executions[i]]
          /\ \/ stuck # {} /\ EndTick /\ UNCHANGED cooldown
             \/ /\ stuck = {}
                /\ cooldown' \in {FALSE, cooldown}
                /\ Go("snapshot", "none", NoSnapshot, {})
                /\ Continue
  BY DEF FlushExhaustion
<1>3. \A i \in clean : /\ i \in IssueIds /\ executions[i] # None
                       /\ executions[i].status = "Released"
  BY DEF Known, RetryExhausted
<1>4. pendingExhaustion' \subseteq IssueIds
  BY <1>0, <1>2 DEF KeptOK
<1>5. \A j \in IssueIds :
        \/ executions'[j] = executions[j]
        \/ /\ executions[j] # None /\ executions[j].status = "Released"
           /\ Recorded(executions'[j]) /\ SamePhase(executions'[j], executions[j])
           /\ executions'[j] # None
  <2> SUFFICES ASSUME NEW j \in IssueIds, executions'[j] # executions[j]
               PROVE  /\ executions[j] # None /\ executions[j].status = "Released"
                      /\ Recorded(executions'[j])
                      /\ SamePhase(executions'[j], executions[j])
                      /\ executions'[j] # None
    OBVIOUS
  <2>1. j \in clean /\ executions'[j] = ClearWorkspace(executions[j])
    BY <1>2
  <2>2. WellFormed(executions'[j]) /\ SamePhase(executions'[j], executions[j])
    BY <1>3, <2>1, InIssues, ClearWorkspaceResult
  <2>. QED  BY <1>3, <2>1, <2>2, InputAssumption DEF Recorded, SamePhase, WellFormed
<1>6. executions' \in [IssueIds -> Executions \cup {None}]
  <2>1. \A j \in IssueIds : executions'[j] \in Executions \cup {None}
    BY <1>0, <1>5 DEF MapsOK, Recorded, WellFormed
  <2>. QED  BY <1>2, <2>1
<1>7. \A j \in IssueIds :
        /\ executions'[j] = None <=> executions[j] = None
        /\ executions[j] # None => /\ executions'[j].status = executions[j].status
                                   /\ \/ executions'[j] = executions[j]
                                      \/ executions[j].status = "Released"
  BY <1>5 DEF SamePhase
<1>8. MapsOK'
  <2>1. \A s \in StateNames : RunningIn(executions', s) = RunningIn(executions, s)
    BY <1>7 DEF RunningIn
  <2>2. (\A s \in StateNames : counts[s] = Cardinality(RunningIn(executions, s)))'
    BY <1>0, <1>1, <2>1, CountsByMap DEF MapsOK
  <2>3. RunningCountsExact'
    BY <2>2, CountsByMap, PTL
  <2>4. \A j \in IssueIds : executions'[j] # None => Recorded(executions'[j])
    BY <1>0, <1>5 DEF MapsOK
  <2>5. \A j \in receipts' : executions'[j] # None => executions'[j].status = "Released"
    BY <1>0, <1>1, <1>7 DEF MapsOK
  <2>. QED  BY <1>0, <1>1, <1>6, <2>3, <2>4, <2>5 DEF MapsOK
<1>9. OnlyEnds(remote') /\ inbox' \in Seq(OutcomeRecords)
      /\ cooldown' \in BOOLEAN /\ (~cooldown => ~cooldown')
  <2>0. cooldown' = cooldown \/ cooldown' = FALSE
    BY <1>2
  <2>a. cooldown \in BOOLEAN
    BY <1>0 DEF KeptOK
  <2>1. cooldown' \in BOOLEAN /\ (~cooldown => ~cooldown')
    <3>1. CASE cooldown' = cooldown
      BY <2>a, <3>1
    <3>2. CASE cooldown' = FALSE
      BY <3>2
    <3>. QED  BY <2>0, <3>1, <3>2
  <2>. QED  BY <1>0, <1>1, <2>1, SameRuns DEF WorldOK
<1>10. WorldOK'
  BY <1>0, <1>1, <1>9, WorldEnds DEF WorldOK
<1>11. KeptOK'
  BY <1>0, <1>1, <1>4, <1>9 DEF KeptOK
<1>12. /\ \A j \in IssueIds : launches[j] = None
       /\ NoSnapshot \in [IssueIds -> StateNames \cup {None}]
       /\ batch \in 0..Len(inbox)
  BY <1>1, Between
<1>13. /\ TickOK' /\ TodoOK' /\ LaunchesOK'
       /\ pc' \in {"idle", "snapshot"}
       /\ \A j \in IssueIds : launches'[j] = None
  <2>1. CASE EndTick
    BY <1>9, <2>1, EndTickResult
  <2>2. CASE Go("snapshot", "none", NoSnapshot, {}) /\ Continue
    <3>1. /\ pc' = "snapshot" /\ mode' = "none" /\ snap' = NoSnapshot /\ todo' = {}
          /\ UNCHANGED <<batch, failed, launches, started, contradicted>>
      BY <2>2 DEF Go, Continue
    <3>2. TickOK'
      BY <1>0, <1>1, <1>12, <3>1 DEF TickOK, Phases, Modes
    <3>3. TodoOK'
      BY <3>1 DEF TodoOK
    <3>4. LaunchesOK'
      BY <1>0, <1>12, <3>1 DEF LaunchesOK
    <3>. QED  BY <1>12, <3>1, <3>2, <3>3, <3>4
  <2>. QED  BY <1>2, <2>1, <2>2
<1>14. RunsOK'
  <2>1. \A j \in IssueIds : executions'[j] # None =>
          executions'[j] = executions[j] \/ Backed(executions'[j], remote')
    BY <1>7, NotLiveBacked DEF IsLive
  <2>. QED  BY <1>0, <1>1, <1>9, <1>13, <2>1, RunsEnd
<1>15. ReceiptsKept'
  BY <1>0, <1>1, <1>7 DEF ReceiptsKept, MapsOK
<1>16. SlotsOK'
  <2>1. metadata' \in [Workers -> IssueIds \cup {None}] /\ pc' # "launch"
    BY <1>0, <1>1, <1>13 DEF KeptOK
  <2>. QED  BY <1>0, <1>1, <1>9, <1>12, <1>13, <2>1, SlotsStay
<1>17. StopsSucceed => RetriesKept'
  BY <1>0, <1>1, <1>5, <1>13, RetriesStay DEF MayHoldRetry
<1>18. ASSUME StopsSucceed
       PROVE  UpdatesOK'
  <2>1. UpdatesOK
    BY <1>0, <1>18
  <2>2. \A w \in Workers : metadata'[w] # None => Runs(executions'[metadata'[w]], w)
    <3> SUFFICES ASSUME NEW w \in Workers, metadata'[w] # None
                 PROVE  Runs(executions'[metadata'[w]], w)
      OBVIOUS
    <3>1. metadata[w] \in IssueIds /\ Runs(executions[metadata[w]], w)
      BY <1>0, <1>1, <2>1 DEF UpdatesOK, KeptOK
    <3>2. executions'[metadata[w]] = executions[metadata[w]]
      BY <1>7, <3>1 DEF Runs
    <3>. QED  BY <1>1, <3>1, <3>2
  <2>3. ASSUME NEW j \in IssueIds, pendingFinished'[j] # None
        PROVE  /\ executions'[j] = executions[j]
               /\ executions[j] # None /\ executions[j].status = "Running"
               /\ pendingFinished[j].exec.status = "Running"
               /\ executions[j].run = pendingFinished[j].exec.run
               /\ metadata[executions[j].run.worker] = None
               /\ KeptNow(j)'
    BY <1>1, <1>7, <1>13, <2>1, <2>3 DEF UpdatesOK, KeptNow
  <2>. QED  BY <1>1, <1>9, <2>1, <2>2, <2>3 DEF UpdatesOK
<1>. QED  BY <1>8, <1>10, <1>11, <1>13, <1>14, <1>15, <1>16, <1>17, <1>18
     DEF IInv, StopsSucceed

-----------------------------------------------------------------------------
(* dispatch_ready_issues and start_workers. *)

\* prepare_launch: the record of a candidate, with its workspace, the run it is
\* given, and the record claimed for that run.
OpenedFor(i) == IF Reopened(i) = None THEN NewExecution(Issue(i, snap[i]))
                ELSE InState(Reopened(i), snap[i])
ReadyFor(i)  == AttachWorkspace(OpenedFor(i), WorkspaceOf(i))
RunFor(i)    == NewRun(ordinal + 1, i, WorkspaceOf(i).path, None,
                       IF OpenedFor(i).retry = None THEN 0 ELSE OpenedFor(i).retry.attempt)
LaunchFor(i) == Claim(ReadyFor(i), RunFor(i))

LEMMA ClaimGives ==
    ASSUME NEW e, WellFormed(e), NEW run \in RunAttempts, ClaimOk(e, run)
    PROVE  /\ WellFormed(Claim(e, run)) /\ Claim(e, run).status = "Claimed"
           /\ Claim(e, run).interrupt = None
           /\ Claim(e, run).run.worker = run.worker /\ Claim(e, run).run.attempt = run.attempt
           /\ Claim(e, run).run.issue = run.issue
BY ClaimResult

LEMMA ClaimedResult ==
    ASSUME IInv, NEW i \in IssueIds, snap[i] \in StateNames,
           ordinal + 1 \in Workers, ShouldDispatch(Reopened(i)), ClaimOk(ReadyFor(i), RunFor(i))
    PROVE  /\ WellFormed(LaunchFor(i)) /\ LaunchFor(i).status = "Claimed"
           /\ LaunchFor(i).interrupt = None
           /\ LaunchFor(i).run.worker = ordinal + 1 /\ LaunchFor(i).run.issue = i
           /\ OpenedFor(i).status # "Released"
           /\ executions[i] # None => executions[i].status # "Running"
           /\ LaunchFor(i).run.attempt > 0 =>
                 HasQueued(i) /\ executions[i].retry.attempt = LaunchFor(i).run.attempt
<1> DEFINE e == OpenedFor(i)
           ready == ReadyFor(i)
           run == RunFor(i)
           c == LaunchFor(i)
<1>0. /\ e = IF Reopened(i) = None THEN NewExecution(Issue(i, snap[i]))
             ELSE InState(Reopened(i), snap[i])
      /\ ready = AttachWorkspace(e, WorkspaceOf(i))
      /\ run = NewRun(ordinal + 1, i, WorkspaceOf(i).path, None,
                      IF e.retry = None THEN 0 ELSE e.retry.attempt)
      /\ c = Claim(ready, run) /\ ClaimOk(ready, run)
  BY DEF OpenedFor, ReadyFor, RunFor, LaunchFor
<1> HIDE DEF e, ready, run, c
<1> DEFINE f == Reopened(i)
<1>1. /\ f # None => Recorded(f)
      /\ \/ f = executions[i]
         \/ /\ f # None /\ f.status = "Unclaimed"
            /\ executions[i] # None /\ executions[i].status = "Released"
         \/ /\ f # None /\ executions[i] # None
            /\ executions[i].status = "Released" /\ SamePhase(f, executions[i])
  BY ReopenedResult
<1>2. f # None => f.status \in {"Unclaimed", "RetryQueued"}
  BY DEF ShouldDispatch
<1>3. e = IF f = None THEN NewExecution(Issue(i, snap[i])) ELSE InState(f, snap[i])
  BY <1>0
<1> HIDE DEF f
<1>4. /\ WellFormed(e) /\ e.status \in {"Unclaimed", "RetryQueued"}
      /\ e.status = "RetryQueued" => f # None /\ f.status = "RetryQueued" /\ e.retry = f.retry
  <2>1. CASE f = None
    <3>1. Issue(i, snap[i]) \in Issues
      BY DEF Issue, Issues, Bindings
    <3>. QED  BY <1>3, <2>1, <3>1, NewExecutionResult
  <2>2. CASE f # None
    <3>1. e = InState(f, snap[i])
      BY <1>3, <2>2
    <3>2. WellFormed(e) /\ SamePhase(e, f)
      BY <1>1, <2>2, <3>1, InStateResult DEF Recorded
    <3>. QED  BY <1>2, <2>2, <3>2 DEF SamePhase
  <2>. QED  BY <2>1, <2>2
<1>5. WorkspaceOf(i) \in WorkspaceRecords
  <2> DEFINE k == CHOOSE k \in KeysOf[i] : PathsOf[k] # {}
             p == CHOOSE p \in PathsOf[k] : TRUE
  <2>1. k \in KeysOf[i] /\ PathsOf[k] # {}
    BY InputAssumption
  <2>2. k \in Keys
    BY <2>1, WorkspaceAssumption
  <2>3. WorkspaceOf(i) = [key |-> k, path |-> p]
    BY DEF WorkspaceOf
  <2> HIDE DEF k
  <2>4. p \in PathsOf[k]
    BY <2>1
  <2>5. p \in Paths
    BY <2>2, <2>4, WorkspaceAssumption
  <2>. QED  BY <2>2, <2>3, <2>5 DEF WorkspaceRecords
<1>6. /\ WellFormed(ready) /\ SamePhase(ready, e)
  BY <1>0, <1>4, <1>5, AttachWorkspaceResult
<1>7. e.retry \in RetryEntries \cup {None}
  BY <1>4 DEF WellFormed, Executions
<1>8. (IF e.retry = None THEN 0 ELSE e.retry.attempt) \in U32
  BY <1>7, WidthAssumption DEF RetryEntries, RetryAttempts, U32
<1>9. run \in RunAttempts /\ run.worker = ordinal + 1 /\ run.issue = i
      /\ run.attempt = IF e.retry = None THEN 0 ELSE e.retry.attempt
  <2>1. WorkspaceOf(i).path \in Paths
    BY <1>5 DEF WorkspaceRecords
  <2>. QED  BY <1>0, <1>8, <2>1, WidthAssumption DEF NewRun, RunAttempts, U32
<1>10. /\ WellFormed(c) /\ c.status = "Claimed" /\ c.interrupt = None
       /\ c.run.worker = run.worker /\ c.run.attempt = run.attempt
       /\ c.run.issue = run.issue
  <2>1. WellFormed(ready) /\ run \in RunAttempts /\ ClaimOk(ready, run)
    BY <1>0, <1>6, <1>9
  <2>2. /\ WellFormed(Claim(ready, run)) /\ Claim(ready, run).status = "Claimed"
        /\ Claim(ready, run).interrupt = None
        /\ Claim(ready, run).run.worker = run.worker
        /\ Claim(ready, run).run.attempt = run.attempt
        /\ Claim(ready, run).run.issue = run.issue
    BY <2>1, ClaimGives
  <2>. QED  BY <1>0, <2>2
<1>11. c.run.attempt > 0 =>
         HasQueued(i) /\ executions[i].retry.attempt = c.run.attempt
  <2> SUFFICES ASSUME c.run.attempt > 0
               PROVE  HasQueued(i) /\ executions[i].retry.attempt = c.run.attempt
    OBVIOUS
  <2>1. ready.status = "RetryQueued" /\ run.attempt = ready.retry.attempt
    <3>1. run.attempt > 0
      BY <1>10
    <3>2. \/ ready.status = "Unclaimed" /\ run.attempt = 0
          \/ ready.status = "RetryQueued" /\ run.attempt = ready.retry.attempt
      BY <1>0, Zenon DEF ClaimOk
    <3>. QED  BY <3>1, <3>2
  <2>2. /\ e.status = "RetryQueued" /\ run.attempt = e.retry.attempt
    BY <1>6, <2>1 DEF SamePhase
  <2>3. f = executions[i]
    BY <1>1, <1>4, <2>2 DEF SamePhase
  <2>. QED  BY <1>4, <1>10, <2>2, <2>3 DEF HasQueued
<1>12. executions[i] # None => executions[i].status # "Running"
  BY <1>1, <1>2
<1>. QED  BY <1>4, <1>9, <1>10, <1>11, <1>12 DEF e, c

\* The issue is claimed and leaves the map.
LEMMA DoClaimStep ==
    ASSUME IInv, NEW i \in IssueIds, DoClaim(i)
    PROVE  IInv'
<1> DEFINE e == OpenedFor(i)
           ready == ReadyFor(i)
           run == RunFor(i)
           c == LaunchFor(i)
<1>0. /\ MapsOK /\ WorldOK /\ KeptOK /\ TickOK /\ TodoOK /\ LaunchesOK /\ RunsOK
      /\ ReceiptsKept /\ SlotsOK /\ (StopsSucceed => RetriesKept /\ UpdatesOK)
  BY DEF IInv
<1>1. /\ pc = "dispatch" /\ i \in Candidates /\ HasRoom /\ ordinal + 1 \in Workers
      /\ ordinal' = ordinal + 1 /\ todo' = todo \ {i}
      /\ UNCHANGED <<tracker, remote, task, given, inbox, stored>>
      /\ UNCHANGED <<pendingFinished, pendingRetry, pendingExhaustion>>
      /\ UNCHANGED <<metadata, cooldown, pc, mode, batch, failed>>
      /\ UNCHANGED <<snap, started, contradicted>>
  BY DEF DoClaim, world, pendings
<1>2. /\ ShouldDispatch(Reopened(i)) /\ ClaimOk(ready, run)
      /\ launches' = [launches EXCEPT ![i] = c]
      /\ Put(i, None, IF e.status # "Released" /\ executions[i] # None
                      THEN receipts \ {i} ELSE receipts)
  BY DEF DoClaim, OpenedFor, ReadyFor, RunFor, LaunchFor
<1>3. /\ i \in todo /\ snap[i] \in StateNames /\ launches[i] = None
  BY <1>1, Dispatching
<1>4. /\ WellFormed(c) /\ c.status = "Claimed" /\ c.interrupt = None
      /\ c.run.worker = ordinal + 1 /\ c.run.issue = i
      /\ e.status # "Released"
      /\ executions[i] # None => executions[i].status # "Running"
      /\ c.run.attempt > 0 =>
            HasQueued(i) /\ executions[i].retry.attempt = c.run.attempt
  BY <1>1, <1>2, <1>3, ClaimedResult
<1> DEFINE rc == IF e.status # "Released" /\ executions[i] # None
                 THEN receipts \ {i} ELSE receipts
<1>5. /\ rc \subseteq receipts \cup {i} /\ Put(i, None, rc) /\ rc \subseteq receipts
      /\ executions[i] # None => i \notin rc
  BY <1>2, <1>4
<1> HIDE DEF e, ready, run, c, rc
<1>6. /\ MapsOK' /\ executions'[i] = None
      /\ \A j \in IssueIds : j # i => executions'[j] = executions[j]
      /\ receipts' \subseteq rc
  BY <1>0, <1>5, PutResult
<1>7. /\ launches' \in [IssueIds -> Executions \cup {None}]
      /\ launches'[i] = c /\ c # None
      /\ \A j \in IssueIds : j # i => launches'[j] = launches[j]
  BY <1>0, <1>2, <1>4, InputAssumption DEF LaunchesOK, WellFormed
<1>8. /\ ordinal \in Nat /\ ordinal' \in Workers
      /\ \A w \in Workers : w \in Nat
  BY <1>0, <1>1, SchedulerAssumption DEF KeptOK
<1>9. WorldOK'
  BY <1>0, <1>1 DEF WorldOK
<1>10. KeptOK'
  BY <1>0, <1>1, <1>8 DEF KeptOK
<1>11. TickOK' /\ TodoOK'
  BY <1>0, <1>1 DEF TickOK, TodoOK
<1>12. ASSUME NEW j \in IssueIds, launches'[j] # None
       PROVE  /\ WellFormed(launches'[j]) /\ launches'[j].status = "Claimed"
              /\ launches'[j].interrupt = None
              /\ launches'[j].run.worker <= ordinal' /\ executions'[j] = None
              /\ remote'[launches'[j].run.worker] = "none"
  <2>1. CASE j = i
    <3>1. /\ remote[ordinal + 1] = "none" /\ remote' = remote
      BY <1>0, <1>1, <1>8 DEF RunsOK
    <3>. QED  BY <1>1, <1>4, <1>6, <1>7, <1>8, <2>1, <3>1 DEF ClaimOf
  <2>2. CASE j # i
    <3>1. /\ launches[j] # None /\ launches'[j] = launches[j]
          /\ executions'[j] = executions[j] /\ remote' = remote
      BY <1>1, <1>6, <1>7, <1>12, <2>2
    <3>2. /\ ClaimOf(launches[j]) /\ executions[j] = None
          /\ remote[launches[j].run.worker] = "none"
      BY <1>0, <1>1, <3>1 DEF LaunchesOK, RunsOK
    <3>3. launches[j].run.worker \in Nat
      BY <1>8, <3>2, LiveWorker DEF ClaimOf, IsLive
    <3>. QED  BY <1>1, <1>8, <3>1, <3>2, <3>3 DEF ClaimOf
  <2>. QED  BY <2>1, <2>2
<1>13. LaunchesOK'
  <2>1. \A j \in todo' : launches'[j] = None
    BY <1>0, <1>1, <1>7 DEF LaunchesOK, TickOK
  <2>. QED  BY <1>1, <1>7, <1>12, <2>1 DEF LaunchesOK, ClaimOf
<1>14. RunsOK'
  <2>1. \A j \in IssueIds : executions'[j] # None => Backed(executions'[j], remote')
    BY <1>0, <1>1, <1>6 DEF RunsOK
  <2>2. \A j \in IssueIds :
          pendingFinished'[j] # None => Backed(pendingFinished'[j].exec, remote')
    BY <1>0, <1>1 DEF RunsOK
  <2>3. \A w \in Workers : w > ordinal' => remote'[w] = "none"
    BY <1>0, <1>1, <1>8 DEF RunsOK
  <2>4. pc' # "launch"
    BY <1>1
  <2>. QED  BY <1>12, <2>1, <2>2, <2>3, <2>4 DEF RunsOK
<1>15. ReceiptsKept'
  <2> SUFFICES ASSUME "ReadLease" \notin Failing, NEW j \in receipts'
               PROVE  executions'[j] # None
    BY DEF ReceiptsKept
  <2>1. j \in receipts /\ j \in IssueIds /\ executions[j] # None
    BY <1>0, <1>5, <1>6 DEF MapsOK, ReceiptsKept
  <2>2. j # i
    BY <1>5, <1>6, <2>1
  <2>. QED  BY <1>6, <2>1, <2>2
<1>16. SlotsOK'
  <2>1. Busy' = Busy
    BY <1>1 DEF Busy
  <2>2. Claims' = Claims \cup {i} /\ i \notin Claims
    BY <1>3, <1>7 DEF Claims
  <2>3. IsFiniteSet(Busy) /\ IsFiniteSet(Claims)
    <3>1. Busy \in SUBSET Workers /\ Claims \in SUBSET IssueIds
      BY DEF Busy, Claims
    <3>. QED  BY <3>1, SchedulerAssumption, FS_Subset
  <2>4. /\ Cardinality(Claims') = Cardinality(Claims) + 1
        /\ Cardinality(Claims) \in Nat /\ Cardinality(Busy) \in Nat
    BY <2>2, <2>3, FS_AddElement, FS_CardinalityType
  <2>5. Cardinality(Claims) < MaxConcurrent - Cardinality(Busy)
    BY <1>1 DEF HasRoom, Capacity
  <2>6. Occupied'
    BY <2>1, <2>4, <2>5, SchedulerAssumption DEF Occupied
  <2>7. ASSUME LaunchesSucceed
        PROVE  WatchedIsSupervised'
    <3> SUFFICES ASSUME NEW w \in Workers, remote'[w] = "running"
                 PROVE  Supervised(w)'
      BY DEF WatchedIsSupervised
    <3>1. Supervised(w)
      BY <1>0, <1>1, <2>7 DEF SlotsOK, WatchedIsSupervised
    <3>2. CASE metadata[w] # None
      BY <1>1, <3>2 DEF Supervised
    <3>3. CASE \E j \in Claims : launches[j].run.worker = w
      <4>1. PICK j \in Claims : launches[j].run.worker = w
        BY <3>3
      <4>2. j \in Claims' /\ launches'[j] = launches[j]
        BY <1>7, <2>2, <4>1 DEF Claims
      <4>. QED  BY <4>1, <4>2 DEF Supervised
    <3>. QED  BY <3>1, <3>2, <3>3 DEF Supervised
  <2>. QED  BY <1>1, <2>6, <2>7 DEF SlotsOK, LaunchesSucceed
<1>17. ASSUME StopsSucceed
       PROVE  RetriesKept'
  <2>1. RetriesKept /\ ~MayHoldRetry
    BY <1>0, <1>1, <1>17, Between
  <2>2. \A j \in IssueIds : pendingRetry'[j] = None
    BY <1>1, <2>1 DEF RetriesKept
  <2>3. \A j \in IssueIds : HasQueued(j) => stored[j] = executions[j].retry.attempt
    BY <1>1, <2>1, <2>2 DEF RetriesKept
  <2>4. \A j \in IssueIds : HasQueued(j)' => HasQueued(j) /\ executions'[j] = executions[j]
    BY <1>6 DEF HasQueued
  <2>5. RetryIsDurable'
    <3> SUFFICES ASSUME NEW j \in IssueIds, launches'[j] # None,
                        launches'[j].run.attempt > 0
                 PROVE  stored[j] = launches'[j].run.attempt
      BY <1>1 DEF RetryIsDurable, Claims
    <3>1. CASE j = i
      BY <1>4, <1>7, <2>3, <3>1
    <3>2. CASE j # i
      BY <1>7, <2>1, <3>2 DEF RetriesKept, RetryIsDurable, Claims
    <3>. QED  BY <3>1, <3>2
  <2>. QED  BY <1>1, <2>2, <2>3, <2>4, <2>5 DEF RetriesKept
<1>18. ASSUME StopsSucceed
       PROVE  UpdatesOK'
  <2>1. UpdatesOK /\ \A j \in IssueIds : pendingFinished'[j] = None
    BY <1>0, <1>1, <1>18, Between
  <2>2. ASSUME NEW w \in Workers, metadata'[w] # None
        PROVE  Runs(executions'[metadata'[w]], w)
    <3>1. metadata[w] \in IssueIds /\ Runs(executions[metadata[w]], w)
      BY <1>0, <1>1, <2>1, <2>2 DEF UpdatesOK, KeptOK
    <3>2. metadata[w] # i
      BY <1>4, <3>1 DEF Runs
    <3>. QED  BY <1>1, <1>6, <3>1, <3>2
  <2>. QED  BY <1>1, <2>1, <2>2 DEF UpdatesOK
<1>. QED  BY <1>6, <1>9, <1>10, <1>11, <1>13, <1>14, <1>15, <1>16, <1>17, <1>18
     DEF IInv, StopsSucceed

\* start_workers: the workers of the claims run, unless their launch failed.
LEMMA StartedResult ==
    ASSUME IInv, StartWorkers
    PROVE  \E some, new :
             /\ some \subseteq Claims /\ (LaunchesSucceed => some = Claims)
             /\ \A i \in some : launches[i].run.worker \in new
             /\ \A w \in new : \E i \in Claims : launches[i].run.worker = w
             /\ started' = some
             /\ remote' = [w \in Workers |-> IF w \in new THEN "running" ELSE remote[w]]
             /\ \A w \in Workers \ new : given'[w] = given[w]
             /\ given' \in [Workers -> RunAttempts \cup {None}]
             /\ \A w \in new : given'[w] # None /\ given'[w].worker = w
             /\ \A w \in new : \E i \in Claims : given'[w] = launches[i].run
             /\ task' \subseteq task \cup new
<1>1. PICK some \in IF Fails("StartWorker") \/ Fails("LaunchTimeout")
                    THEN SUBSET Claims ELSE {Claims} :
           \E late \in SUBSET (IF Fails("LaunchTimeout") THEN Claims \ some ELSE {}) :
          LET run(w) == CHOOSE r \in {launches[i].run : i \in Claims} : r.worker = w
              ordinals(issues) == {launches[i].run.worker : i \in issues}
              new == ordinals(some \cup late)
          IN  /\ started' = some
              /\ remote' = [w \in Workers |-> IF w \in new THEN "running" ELSE remote[w]]
              /\ given' = [w \in Workers |-> IF w \in new THEN run(w) ELSE given[w]]
              /\ task' = task \cup ordinals(some)
  BY DEF StartWorkers
<1>2. PICK late \in SUBSET (IF Fails("LaunchTimeout") THEN Claims \ some ELSE {}) :
          LET run(w) == CHOOSE r \in {launches[i].run : i \in Claims} : r.worker = w
              ordinals(issues) == {launches[i].run.worker : i \in issues}
              new == ordinals(some \cup late)
          IN  /\ started' = some
              /\ remote' = [w \in Workers |-> IF w \in new THEN "running" ELSE remote[w]]
              /\ given' = [w \in Workers |-> IF w \in new THEN run(w) ELSE given[w]]
              /\ task' = task \cup ordinals(some)
  BY <1>1
<1> DEFINE run(w) == CHOOSE r \in {launches[i].run : i \in Claims} : r.worker = w
           new == {launches[i].run.worker : i \in some \cup late}
<1>3. /\ started' = some
      /\ remote' = [w \in Workers |-> IF w \in new THEN "running" ELSE remote[w]]
      /\ given' = [w \in Workers |-> IF w \in new THEN run(w) ELSE given[w]]
      /\ task' = task \cup {launches[i].run.worker : i \in some}
  BY <1>2
<1>4. /\ some \subseteq Claims /\ late \subseteq Claims
      /\ LaunchesSucceed => some = Claims
  BY DEF LaunchesSucceed, Fails
<1>5. /\ \A i \in some : launches[i].run.worker \in new
      /\ \A w \in new : \E i \in Claims : launches[i].run.worker = w
  BY <1>4
<1>6. \A i \in Claims : /\ launches[i].run \in RunAttempts
                        /\ launches[i].run.worker \in Workers
  BY LiveWorker DEF IInv, LaunchesOK, ClaimOf, Claims, IsLive
<1>7. \A w \in new : /\ run(w) \in RunAttempts /\ run(w).worker = w
                    /\ \E i \in Claims : run(w) = launches[i].run
  <2> SUFFICES ASSUME NEW w \in new
               PROVE  /\ run(w) \in RunAttempts /\ run(w).worker = w
                      /\ \E i \in Claims : run(w) = launches[i].run
    OBVIOUS
  <2>1. PICK i \in Claims : launches[i].run.worker = w
    BY <1>5
  <2>2. \E r \in {launches[j].run : j \in Claims} : r.worker = w
    BY <2>1
  <2>3. run(w) \in {launches[j].run : j \in Claims} /\ run(w).worker = w
    BY <2>2
  <2> HIDE DEF run
  <2>. QED  BY <1>6, <2>3
<1> HIDE DEF run
<1>8. task' \subseteq task \cup new
  BY <1>3
<1>9. given \in [Workers -> RunAttempts \cup {None}]
  BY DEF IInv, WorldOK
<1>10. \A w \in new : w \in Workers
  BY <1>5, <1>6
<1> HIDE DEF new
<1>11. /\ \A w \in Workers \ new : given'[w] = given[w]
       /\ given' \in [Workers -> RunAttempts \cup {None}]
       /\ \A w \in new : given'[w] # None /\ given'[w].worker = w
       /\ \A w \in new : \E i \in Claims : given'[w] = launches[i].run
  BY <1>3, <1>7, <1>9, <1>10, NoneAssumption
<1>. QED  BY <1>3, <1>4, <1>5, <1>8, <1>11

LEMMA StartWorkersStep ==
    ASSUME IInv, StartWorkers
    PROVE  IInv'
<1>0. /\ MapsOK /\ WorldOK /\ KeptOK /\ TickOK /\ TodoOK /\ LaunchesOK /\ RunsOK
      /\ ReceiptsKept /\ SlotsOK /\ (StopsSucceed => RetriesKept /\ UpdatesOK)
  BY DEF IInv
<1>1. /\ pc = "dispatch" /\ pc' = "launch"
      /\ UNCHANGED <<tracker, inbox, stored>>
      /\ UNCHANGED <<executions, counts, metadata, ordinal, receipts>>
      /\ UNCHANGED <<pendingFinished, pendingRetry, pendingExhaustion>>
      /\ UNCHANGED <<cooldown, mode, snap, todo, launches, batch, failed, contradicted>>
  BY DEF StartWorkers, Go, pendings
<1>2. PICK some, new :
             /\ some \subseteq Claims /\ (LaunchesSucceed => some = Claims)
             /\ \A i \in some : launches[i].run.worker \in new
             /\ \A w \in new : \E i \in Claims : launches[i].run.worker = w
             /\ started' = some
             /\ remote' = [w \in Workers |-> IF w \in new THEN "running" ELSE remote[w]]
             /\ \A w \in Workers \ new : given'[w] = given[w]
             /\ given' \in [Workers -> RunAttempts \cup {None}]
             /\ \A w \in new : given'[w] # None /\ given'[w].worker = w
             /\ \A w \in new : \E i \in Claims : given'[w] = launches[i].run
             /\ task' \subseteq task \cup new
  BY StartedResult
<1>3. \A i \in Claims : /\ i \in IssueIds
                        /\ launches[i].run.worker \in Workers
                        /\ launches[i].run.worker <= ordinal
                        /\ remote[launches[i].run.worker] = "none"
  BY <1>0, <1>1, LiveWorker DEF LaunchesOK, RunsOK, ClaimOf, Claims, IsLive
<1>4. \A w \in new : w \in Workers /\ w <= ordinal /\ remote[w] = "none"
  BY <1>2, <1>3
<1>5. remote' \in [Workers -> {"none", "running", "detached", "unstopped", "stopped"}]
  BY <1>0, <1>2 DEF WorldOK
<1>6. \A w \in Workers : remote[w] # "none" => remote'[w] = remote[w]
  BY <1>2, <1>4
<1>7. \A w \in new : remote'[w] = "running"
  BY <1>2, <1>4
<1>8. \A w \in Workers : remote'[w] = remote[w] \/ w \in new
  BY <1>2
<1>9. started' \subseteq IssueIds
  BY <1>2, <1>3
<1>10. WorldOK'
  <2>1. \A w \in task' : given'[w] # None /\ given'[w].worker = w /\ remote'[w] # "none"
    BY <1>0, <1>2, <1>6, <1>7 DEF WorldOK
  <2>2. \A k \in 1..Len(inbox) : remote'[inbox[k].worker] \in {"detached", "unstopped", "stopped"}
    <3>1. \A k \in 1..Len(inbox) : inbox[k] \in OutcomeRecords
      BY <1>0 DEF WorldOK
    <3>2. \A k \in 1..Len(inbox) : inbox[k].worker \in Workers
      BY <3>1 DEF OutcomeRecords
    <3>. QED  BY <1>0, <1>6, <3>2 DEF WorldOK
  <2>3. task' \subseteq Workers
    BY <1>0, <1>2, <1>4 DEF WorldOK
  <2>. QED  BY <1>0, <1>1, <1>2, <1>5, <2>1, <2>2, <2>3 DEF WorldOK
<1>11. MapsOK'
  BY <1>0, <1>1 DEF MapsOK, RunningCountsExact, Known
<1>12. KeptOK'
  BY <1>0, <1>1 DEF KeptOK
<1>13. TickOK'
  BY <1>0, <1>1, <1>9 DEF TickOK, Phases
<1>14. TodoOK'
  BY <1>1 DEF TodoOK
<1>15. LaunchesOK'
  BY <1>0, <1>1 DEF LaunchesOK, ClaimOf
<1>16. RunsOK'
  <2>1. ASSUME NEW e, WellFormed(e), Backed(e, remote)
        PROVE  Backed(e, remote')
    BY <1>6, <2>1, LiveWorker DEF Backed
  <2>2. \A j \in IssueIds : executions'[j] # None => Backed(executions'[j], remote')
    BY <1>0, <1>1, <2>1 DEF RunsOK, MapsOK, Recorded
  <2>3. \A j \in IssueIds :
          pendingFinished'[j] # None => Backed(pendingFinished'[j].exec, remote')
    BY <1>0, <1>1, <2>1 DEF RunsOK, KeptOK, Recorded
  <2>4. \A j \in started' : remote'[launches'[j].run.worker] # "none"
    BY <1>1, <1>2, <1>7
  <2>5. \A w \in Workers : w > ordinal' => remote'[w] = "none"
    <3> SUFFICES ASSUME NEW w \in Workers, w > ordinal
                 PROVE  remote'[w] = "none"
      BY <1>1
    <3>1. w \in Nat /\ ordinal \in Nat
      BY <1>0, SchedulerAssumption DEF KeptOK
    <3>2. w \notin new
      BY <1>4, <3>1
    <3>. QED  BY <1>0, <1>8, <3>2 DEF RunsOK
  <2>. QED  BY <1>1, <2>2, <2>3, <2>4, <2>5 DEF RunsOK
<1>17. ReceiptsKept'
  BY <1>0, <1>1 DEF ReceiptsKept
<1>18. SlotsOK'
  <2>1. Busy' = Busy /\ Claims' = Claims
    BY <1>1 DEF Busy, Claims
  <2>2. Occupied'
    BY <1>0, <2>1 DEF SlotsOK, Occupied
  <2>3. ASSUME LaunchesSucceed
        PROVE  WatchedIsSupervised'
    <3> SUFFICES ASSUME NEW w \in Workers, remote'[w] = "running"
                 PROVE  Supervised(w)'
      BY DEF WatchedIsSupervised
    <3>1. CASE w \in new
      BY <1>1, <1>2, <2>1, <3>1 DEF Supervised
    <3>2. CASE remote'[w] = remote[w]
      BY <1>0, <1>1, <2>1, <2>3, <3>2 DEF SlotsOK, WatchedIsSupervised, Supervised
    <3>. QED  BY <1>8, <3>1, <3>2
  <2>4. LaunchesSucceed => \A j \in IssueIds : launches'[j] # None => j \in started'
    BY <1>1, <1>2 DEF Claims
  <2>. QED  BY <2>2, <2>3, <2>4 DEF SlotsOK, LaunchesSucceed
<1>19. ASSUME StopsSucceed
       PROVE  RetriesKept'
  <2>1. RetriesKept /\ ~MayHoldRetry
    BY <1>0, <1>1, <1>19, Between
  <2>. QED  BY <1>1, <2>1, RetriesStay
<1>20. ASSUME StopsSucceed
       PROVE  UpdatesOK'
  <2>1. UpdatesOK /\ \A j \in IssueIds : pendingFinished'[j] = None
    BY <1>0, <1>1, <1>20, Between
  <2>. QED  BY <1>1, <2>1 DEF UpdatesOK
<1>. QED  BY <1>10, <1>11, <1>12, <1>13, <1>14, <1>15, <1>16, <1>17, <1>18, <1>19, <1>20
     DEF IInv, StopsSucceed

\* A launch the harness accepted.
LEMMA LaunchStartedStep ==
    ASSUME IInv, NEW i \in IssueIds, LaunchStarted(i)
    PROVE  IInv'
<1> DEFINE c == launches[i]
           e == StartRunning(c, 0, 0, Conversation)
           x == RecordTurnStarted(e, 0)
           w == c.run.worker
<1>0. /\ MapsOK /\ WorldOK /\ KeptOK /\ TickOK /\ TodoOK /\ LaunchesOK /\ RunsOK
      /\ ReceiptsKept /\ SlotsOK /\ (StopsSucceed => RetriesKept /\ UpdatesOK)
  BY DEF IInv
<1>1. /\ pc = "launch" /\ c # None /\ i \in started
      /\ Put(i, x, receipts \ {i})
      /\ metadata' = [metadata EXCEPT ![e.run.worker] = i]
      /\ failed' \in {failed, failed \/ Fails("Workspace") \/ Fails("PersistState")}
      /\ launches' = [launches EXCEPT ![i] = None]
      /\ UNCHANGED <<tracker, remote, task, given, inbox, stored>>
      /\ UNCHANGED <<pendingFinished, pendingRetry, pendingExhaustion>>
      /\ UNCHANGED <<ordinal, cooldown, pc, mode, todo, batch>>
      /\ UNCHANGED <<snap, started, contradicted>>
  BY DEF LaunchStarted, Claims, world, pendings
<1>2. /\ WellFormed(c) /\ c.status = "Claimed" /\ c.interrupt = None
      /\ executions[i] = None /\ c.run \in RunAttempts /\ w \in Workers
  BY <1>0, <1>1, LiveWorker DEF LaunchesOK, ClaimOf, IsLive
<1>3. Conversation \in Conversations
  BY InputAssumption DEF Conversation
<1>4. /\ WellFormed(e) /\ e.status = "Running" /\ e.run = c.run
      /\ e.interrupt = None
  BY <1>2, <1>3, StartRunningResult DEF IsLive
<1> HIDE DEF e
<1>5. /\ WellFormed(x) /\ x.status = "Running"
      /\ x.run \in RunAttempts /\ x.run.worker = w
      /\ x.interrupt = None
  BY <1>2, <1>4, RecordTurnStartedResult
<1>6. x # None /\ Recorded(x)
  BY <1>5, InputAssumption DEF Recorded, WellFormed
<1>7. metadata' = [metadata EXCEPT ![w] = i]
  BY <1>1, <1>4
<1>8. remote[w] # "none"
  BY <1>0, <1>1 DEF RunsOK
<1>9. w \in Workers /\ launches[i].run.worker = w /\ launches[i] # None
  BY <1>1, <1>2
<1> HIDE DEF x, w, c
<1>10. /\ MapsOK' /\ executions'[i] = x
       /\ \A j \in IssueIds : j # i => executions'[j] = executions[j]
       /\ receipts' \subseteq receipts \ {i}
  <2>1. receipts \ {i} \subseteq receipts \cup {i}
    OBVIOUS
  <2>. QED  BY <1>0, <1>1, <1>6, <2>1, PutResult
<1>11. /\ launches' \in [IssueIds -> Executions \cup {None}]
       /\ launches'[i] = None
       /\ \A j \in IssueIds : j # i => launches'[j] = launches[j]
  BY <1>0, <1>1 DEF LaunchesOK
<1>12. /\ metadata' \in [Workers -> IssueIds \cup {None}] /\ metadata'[w] = i
       /\ \A v \in Workers : v # w => metadata'[v] = metadata[v]
  BY <1>0, <1>7, <1>9 DEF KeptOK
<1>13. failed' \in BOOLEAN /\ (failed => failed')
  <2>1. failed \in BOOLEAN
    BY <1>0 DEF TickOK
  <2>2. CASE failed' = failed
    BY <2>1, <2>2
  <2>3. CASE failed' = (failed \/ Fails("Workspace") \/ Fails("PersistState"))
    BY <2>1, <2>3, Zenon DEF Fails
  <2>. QED  BY <1>1, <2>2, <2>3
<1>14. WorldOK'
  BY <1>0, <1>1 DEF WorldOK
<1>15. KeptOK'
  BY <1>0, <1>1, <1>12 DEF KeptOK
<1>16. TickOK'
  BY <1>0, <1>1, <1>13 DEF TickOK
<1>17. TodoOK'
  BY <1>1 DEF TodoOK
<1>18. LaunchesOK'
  <2>1. \A j \in IssueIds : launches'[j] # None =>
          launches'[j] = launches[j] /\ executions'[j] = executions[j]
    BY <1>10, <1>11
  <2>. QED  BY <1>0, <1>1, <1>11, <2>1, LaunchesStay
<1>19. RunsOK'
  <2>1. Backed(x, remote')
    BY <1>1, <1>5, <1>8 DEF Backed, Acknowledged
  <2>2. OnlyEnds(remote')
    BY <1>0, <1>1, SameRuns
  <2>3. \A j \in IssueIds : executions'[j] # None =>
          executions'[j] = executions[j] \/ Backed(executions'[j], remote')
    BY <1>10, <2>1
  <2>4. \A j \in IssueIds : launches'[j] # None => launches'[j] = launches[j]
    BY <1>11
  <2>. QED  BY <1>0, <1>1, <2>2, <2>3, <2>4, RunsEnd
<1>20. ReceiptsKept'
  <2> SUFFICES ASSUME "ReadLease" \notin Failing, NEW j \in receipts'
               PROVE  executions'[j] # None
    BY DEF ReceiptsKept
  <2>1. j \in receipts /\ j \in IssueIds /\ j # i
    BY <1>0, <1>10 DEF MapsOK
  <2>. QED  BY <1>0, <1>10, <2>1 DEF ReceiptsKept
<1>21. SlotsOK'
  <2>1. Busy' \subseteq Busy \cup {w}
    BY <1>12 DEF Busy
  <2>2. Claims' = Claims \ {i} /\ i \in Claims
    BY <1>9, <1>11 DEF Claims
  <2>3. IsFiniteSet(Busy) /\ IsFiniteSet(Claims)
    <3>1. Busy \in SUBSET Workers /\ Claims \in SUBSET IssueIds
      BY DEF Busy, Claims
    <3>. QED  BY <3>1, SchedulerAssumption, FS_Subset
  <2>4. /\ Cardinality(Claims') = Cardinality(Claims) - 1
        /\ Cardinality(Claims) \in Nat /\ Cardinality(Busy) \in Nat
    BY <2>2, <2>3, FS_RemoveElement, FS_CardinalityType
  <2>5. /\ Cardinality(Busy') <= Cardinality(Busy) + 1 /\ Cardinality(Busy') \in Nat
    <3>1. /\ IsFiniteSet(Busy \cup {w})
          /\ Cardinality(Busy \cup {w}) <= Cardinality(Busy) + 1
          /\ Cardinality(Busy \cup {w}) \in Nat
      <4>1. /\ IsFiniteSet(Busy \cup {w})
            /\ \/ Cardinality(Busy \cup {w}) = Cardinality(Busy)
               \/ Cardinality(Busy \cup {w}) = Cardinality(Busy) + 1
        BY <2>3, FS_AddElement
      <4>. QED  BY <2>4, <4>1
    <3>2. /\ Cardinality(Busy') <= Cardinality(Busy \cup {w})
          /\ IsFiniteSet(Busy')
      BY <2>1, <3>1, FS_Subset
    <3>3. Cardinality(Busy') \in Nat
      BY <3>2, FS_CardinalityType
    <3>. QED  BY <2>4, <3>1, <3>2, <3>3
  <2>6. Occupied'
    BY <1>0, <2>4, <2>5, SchedulerAssumption DEF SlotsOK, Occupied
  <2>7. ASSUME LaunchesSucceed
        PROVE  WatchedIsSupervised'
    <3> SUFFICES ASSUME NEW v \in Workers, remote'[v] = "running"
                 PROVE  Supervised(v)'
      BY DEF WatchedIsSupervised
    <3>1. Supervised(v)
      BY <1>0, <1>1, <2>7 DEF SlotsOK, WatchedIsSupervised
    <3>2. CASE v = w
      <4>1. metadata'[v] # None
        BY <1>12, <3>2, InputAssumption
      <4>. QED  BY <4>1 DEF Supervised
    <3>3. CASE v # w /\ metadata[v] # None
      BY <1>12, <3>3 DEF Supervised
    <3>4. CASE v # w /\ \E j \in Claims : launches[j].run.worker = v
      <4>1. PICK j \in Claims : launches[j].run.worker = v
        BY <3>4
      <4>2. j # i
        BY <1>9, <3>4, <4>1
      <4>3. j \in Claims' /\ launches'[j] = launches[j]
        BY <1>11, <2>2, <4>1, <4>2 DEF Claims
      <4>. QED  BY <4>1, <4>3 DEF Supervised
    <3>. QED  BY <3>1, <3>2, <3>3, <3>4 DEF Supervised
  <2>8. LaunchesSucceed => \A j \in IssueIds : launches'[j] # None => j \in started'
    BY <1>0, <1>1, <1>11 DEF SlotsOK
  <2>. QED  BY <2>6, <2>7, <2>8 DEF SlotsOK, LaunchesSucceed
<1>22. ASSUME StopsSucceed
       PROVE  RetriesKept'
  <2>1. RetriesKept /\ x.status # "RetryQueued"
    BY <1>0, <1>5, <1>22
  <2>2. ASSUME NEW j \in IssueIds, HasQueued(j)'
        PROVE  HasQueued(j) /\ executions'[j] = executions[j] /\ j # i
    BY <1>10, <2>1, <2>2 DEF HasQueued
  <2>3. \A j \in IssueIds : HasQueued(j)' =>
          stored'[j] = executions'[j].retry.attempt \/ pendingRetry'[j] # None
    BY <1>1, <2>1, <2>2 DEF RetriesKept
  <2>4. ASSUME NEW j \in IssueIds, pendingRetry'[j] # None
        PROVE  /\ MayHoldRetry'
               /\ HasQueued(j)' =>
                     pendingRetry'[j].attempt = executions'[j].retry.attempt
               /\ executions'[j] # None => ~IsLive(executions'[j])
               /\ pc' = "flush" => j \notin todo'
               /\ launches'[j] = None
    <3>1. /\ MayHoldRetry
          /\ HasQueued(j) => pendingRetry[j].attempt = executions[j].retry.attempt
          /\ executions[j] # None => ~IsLive(executions[j])
          /\ launches[j] = None /\ pendingRetry'[j] = pendingRetry[j]
      BY <1>1, <2>1, <2>4 DEF RetriesKept
    <3>2. j # i
      BY <1>9, <3>1
    <3>3. MayHoldRetry'
      BY <1>1, <1>13, <3>1 DEF MayHoldRetry
    <3>. QED  BY <1>1, <1>10, <1>11, <2>2, <3>1, <3>2, <3>3
  <2>5. RetryIsDurable'
    BY <1>1, <1>11, <2>1 DEF RetriesKept, RetryIsDurable, Claims
  <2>. QED  BY <2>3, <2>4, <2>5 DEF RetriesKept
<1>23. ASSUME StopsSucceed
       PROVE  UpdatesOK'
  <2>1. UpdatesOK /\ \A j \in IssueIds : pendingFinished'[j] = None
    BY <1>0, <1>1, <1>23, Between
  <2>2. ASSUME NEW v \in Workers, metadata'[v] # None
        PROVE  Runs(executions'[metadata'[v]], v)
    <3>1. CASE v = w
      BY <1>5, <1>6, <1>10, <1>12, <3>1 DEF Runs
    <3>2. CASE v # w
      <4>1. metadata[v] \in IssueIds /\ Runs(executions[metadata[v]], v)
        BY <1>0, <1>12, <2>1, <2>2, <3>2 DEF UpdatesOK, KeptOK
      <4>2. metadata[v] # i
        BY <1>2, <4>1 DEF Runs
      <4>. QED  BY <1>10, <1>12, <3>2, <4>1, <4>2
    <3>. QED  BY <3>1, <3>2
  <2>. QED  BY <1>1, <2>1, <2>2 DEF UpdatesOK
<1>. QED  BY <1>10, <1>14, <1>15, <1>16, <1>17, <1>18, <1>19, <1>20, <1>21, <1>22, <1>23
     DEF IInv, StopsSucceed

-----------------------------------------------------------------------------
(* The invariant of every step. *)

LEMMA InitIInv ==
    ASSUME Init
    PROVE  IInv
<1>1. /\ \A i \in IssueIds : /\ executions[i] = None /\ launches[i] = None
                             /\ pendingFinished[i] = None /\ pendingRetry[i] = None
      /\ \A w \in Workers : remote[w] = "none" /\ metadata[w] = None
  BY DEF Init, NoLaunches
<1>2. MapsOK
  <2>1. RunningCountsExact
    <3>1. Known = {}
      BY <1>1 DEF Known
    <3>2. \A s \in StateNames : counts[s] = 0
      BY DEF Init
    <3>. QED  BY <3>1, <3>2, FS_EmptySet DEF RunningCountsExact
  <2>2. counts \in [StateNames -> Int]
    BY DEF Init
  <2>. QED  BY <1>1, <2>1, <2>2 DEF Init, MapsOK
<1>3. WorldOK
  <2>1. stored \in [IssueIds -> U32]
    BY WidthAssumption DEF Init, U32
  <2>. QED  BY <2>1 DEF Init, WorldOK
<1>4. KeptOK
  BY DEF Init, KeptOK
<1>5. TickOK
  <2>1. batch \in 0..Len(inbox)
    <3>1. batch = 0 /\ Len(inbox) = 0
      BY DEF Init
    <3>. QED  BY <3>1
  <2>2. snap \in [IssueIds -> StateNames \cup {None}]
    BY DEF Init, NoSnapshot
  <2>. QED  BY <2>1, <2>2 DEF Init, TickOK, Phases, Modes
<1>6. TodoOK
  BY DEF Init, TodoOK
<1>7. LaunchesOK
  BY DEF Init, LaunchesOK, NoLaunches
<1>8. RunsOK
  BY <1>1 DEF RunsOK
<1>9. ReceiptsKept
  BY DEF Init, ReceiptsKept
<1>10. SlotsOK
  <2>1. Busy = {} /\ Claims = {}
    BY <1>1 DEF Busy, Claims
  <2>2. Occupied
    BY <2>1, FS_EmptySet, SchedulerAssumption DEF Occupied
  <2>3. WatchedIsSupervised
    BY <1>1 DEF WatchedIsSupervised
  <2>. QED  BY <1>1, <2>2, <2>3 DEF SlotsOK
<1>11. RetriesKept
  <2>1. RetryIsDurable
    BY <1>1 DEF RetryIsDurable, Claims
  <2>. QED  BY <1>1, <2>1 DEF RetriesKept, HasQueued
<1>12. UpdatesOK
  BY <1>1 DEF Init, UpdatesOK
<1>. QED  BY <1>2, <1>3, <1>4, <1>5, <1>6, <1>7, <1>8, <1>9, <1>10, <1>11, <1>12
     DEF IInv

LEMMA StutterStep ==
    ASSUME IInv, UNCHANGED vars
    PROVE  IInv'
<1>1. WorldOK
  BY DEF IInv
<1>2. Outside /\ UNCHANGED <<tracker, remote, task, given, inbox, stored>>
  BY DEF vars, world, Outside
<1>3. OnlyEnds(remote') /\ Len(inbox') >= Len(inbox)
  BY <1>1, <1>2, SameRuns DEF WorldOK
<1>4. WorldOK'
  BY <1>1, <1>2 DEF WorldOK
<1>. QED  BY <1>2, <1>3, <1>4, OutsideStep

LEMMA TickStepKeepsIInv ==
    ASSUME IInv, TickStep
    PROVE  IInv'
<1>1. CASE FlushRetries \/ FlushExhaustion
  BY <1>1, FlushRetriesStep, FlushExhaustionStep
<1>2. CASE LoadSnapshot \/ RefreshRunning \/ SnapshotFails \/ NoRefresh
  BY <1>2, LoadSnapshotStep, RefreshRunningStep, SnapshotFailsStep, NoRefreshStep
<1>3. CASE \E i \in IssueIds : Flush(i)
  BY <1>3, FlushStep
<1>4. CASE FlushDone \/ DrainUpdate \/ DrainDone
  BY <1>4, FlushDoneStep, DrainUpdateStep, DrainDoneStep
<1>5. CASE \E i \in IssueIds :
             ReconcileActive(i) \/ ParkedLeaseFails(i) \/ ReconcileRelease(i)
             \/ ReconcileParked(i)
  BY <1>5, ReconcileActiveStep, ParkedLeaseFailsStep, ReconcileReleaseStep,
     ReconcileParkedStep
<1>6. CASE ReconcileDone
  BY <1>6, ReconcileDoneStep
<1>7. CASE RefreshTerminal \/ NoTerminalRefresh \/ Discover \/ NoDiscovery \/ LateFails
  BY <1>7, RefreshTerminalStep, NoTerminalRefreshStep, DiscoverStep, NoDiscoveryStep,
     LateFailsStep
<1>8. CASE FetchDetails \/ NoDetails
  BY <1>8, FetchDetailsStep, NoDetailsStep
<1>9. CASE \E i \in IssueIds : DoClaim(i) \/ DoSkip(i)
  BY <1>9, DoClaimStep, DoSkipStep
<1>10. CASE PreparationFails \/ StartWorkers
  BY <1>10, PreparationFailsStep, StartWorkersStep
<1>11. CASE \E i \in IssueIds : LaunchStarted(i) \/ LaunchFailed(i)
  BY <1>11, LaunchStartedStep, LaunchFailedStep
<1>12. CASE DispatchDone \/ FindStalls \/ StallsDone
  BY <1>12, DispatchDoneStep, FindStallsStep, StallsDoneStep
<1>13. CASE \E i \in IssueIds : StopStalled(i) \/ HandleStalled(i)
  BY <1>13, StopStalledStep, HandleStalledStep
<1>. QED  BY <1>1, <1>2, <1>3, <1>4, <1>5, <1>6, <1>7, <1>8, <1>9, <1>10, <1>11,
             <1>12, <1>13 DEF TickStep

LEMMA NextKeepsIInv ==
    ASSUME IInv, [Next]_vars
    PROVE  IInv'
<1>1. CASE World
  BY <1>1, TrackerMoveStep, WorkerFinishesStep, UnwatchedEndsStep DEF World
<1>2. CASE \E i \in IssueIds : OperatorCancel(i)
  BY <1>2, OperatorCancelStep
<1>3. CASE SoloDrain
  BY <1>3, SoloDrainStep
<1>4. CASE TickStep
  BY <1>4, TickStepKeepsIInv
<1>5. CASE UNCHANGED vars
  BY <1>5, StutterStep
<1>. QED  BY <1>1, <1>2, <1>3, <1>4, <1>5 DEF Next

\* IInv holds in every state the scheduler reaches, over the interleavings of its
\* tick with the tracker, the harness and the worker tasks.
THEOREM SchedulerInvariant == Spec => []IInv
BY InitIInv, NextKeepsIInv, PTL DEF Spec

-----------------------------------------------------------------------------
(* What the invariant is for. *)

LEMMA ConsistentFromIInv ==
    ASSUME IInv
    PROVE  Consistent
<1>1. RunningCountsExact
  BY DEF IInv, MapsOK
<1>2. counts \in [StateNames -> Nat]
  <2>1. \A s \in StateNames : counts[s] = Cardinality(RunningIn(executions, s))
    BY <1>1, CountsByMap
  <2>2. \A s \in StateNames : Cardinality(RunningIn(executions, s)) \in Nat
    <3> SUFFICES ASSUME NEW s \in StateNames
                 PROVE  Cardinality(RunningIn(executions, s)) \in Nat
      OBVIOUS
    <3>1. RunningIn(executions, s) \in SUBSET IssueIds
      BY DEF RunningIn
    <3>. QED  BY <3>1, SchedulerAssumption, FS_Subset, FS_CardinalityType
  <2>. QED  BY <2>1, <2>2 DEF IInv, MapsOK
<1>3. TypeOK
  BY <1>2 DEF IInv, MapsOK, WorldOK, KeptOK, TickOK, LaunchesOK, TypeOK
<1>. QED  BY <1>1, <1>3 DEF Consistent

\* The cached counts of running issues per state, which the per-state limits read,
\* are exact in every state of the tick, whatever insert_execution and
\* remove_execution stored and whichever call failed; and every map of the
\* scheduler keeps its type.
THEOREM CountsStayExact == Spec => []Consistent
BY SchedulerInvariant, ConsistentFromIInv, PTL

LEMMA StoppedFromIInv ==
    ASSUME IInv
    PROVE  AcknowledgedMeansStopped
BY DEF IInv, RunsOK, Backed, Acknowledged, AcknowledgedMeansStopped, Known

\* abort_worker may take a live run whose stop is recorded as acknowledged for
\* stopped: the run it is recorded on does not go on, through refusals, time-outs,
\* reused interrupts and new runs of the same issue.
THEOREM AcknowledgedStopHolds == Spec => []AcknowledgedMeansStopped
BY SchedulerInvariant, StoppedFromIInv, PTL

LEMMA WatchedFromIInv ==
    ASSUME IInv, LaunchesSucceed
    PROVE  WatchedIsSupervised
BY DEF IInv, SlotsOK

\* As long as every launch of start_workers succeeds, whichever other call fails, a
\* harness run that goes on has a record or a claim leading to it until its worker
\* has reported it.  One that goes on after its report, given up or reported as
\* Failed, Stalled and the like, may have none.
THEOREM OrphansWereReported ==
    ASSUME LaunchesSucceed
    PROVE  Spec => []OrphanWasReported
<1>1. IInv => OrphanWasReported
  BY WatchedFromIInv DEF WatchedIsSupervised, OrphanWasReported, Alive
<1>. QED  BY <1>1, SchedulerInvariant, PTL

LEMMA CapacityFromIInv ==
    ASSUME IInv, LaunchesSucceed
    PROVE  CapacityBound
<1> DEFINE going == {w \in Workers : remote[w] = "running"}
           claimed == {launches[i].run.worker : i \in Claims}
           worker == [i \in Claims |-> launches[i].run.worker]
<1>1. IsFiniteSet(Busy) /\ IsFiniteSet(Claims)
  <2>1. Busy \in SUBSET Workers /\ Claims \in SUBSET IssueIds
    BY DEF Busy, Claims
  <2>. QED  BY <2>1, SchedulerAssumption, FS_Subset
<1>2. going \subseteq Busy \cup claimed
  BY WatchedFromIInv DEF WatchedIsSupervised, Supervised, Busy
<1>3. IsFiniteSet(claimed) /\ Cardinality(claimed) <= Cardinality(Claims)
  <2>1. worker \in Surjection(Claims, claimed)
    BY DEF Surjection
  <2>. QED  BY <1>1, <2>1, FS_Surjection
<1>4. /\ Cardinality(Busy) \in Nat /\ Cardinality(Claims) \in Nat
      /\ Cardinality(claimed) \in Nat
  BY <1>1, <1>3, FS_CardinalityType
<1>5. /\ IsFiniteSet(Busy \cup claimed)
      /\ Cardinality(Busy \cup claimed) <= Cardinality(Busy) + Cardinality(claimed)
      /\ Cardinality(Busy \cup claimed) \in Nat
  <2>1. IsFiniteSet(Busy \cap claimed)
    BY <1>1, FS_Subset
  <2>2. Cardinality(Busy \cap claimed) \in Nat
    BY <2>1, FS_CardinalityType
  <2>3. IsFiniteSet(Busy \cup claimed)
        /\ Cardinality(Busy \cup claimed)
           = Cardinality(Busy) + Cardinality(claimed) - Cardinality(Busy \cap claimed)
    BY <1>1, <1>3, FS_Union
  <2>4. Cardinality(Busy \cup claimed) \in Nat
    BY <2>3, FS_CardinalityType
  <2>. QED  BY <1>4, <2>2, <2>3, <2>4
<1>6. Cardinality(going) <= Cardinality(Busy \cup claimed) /\ IsFiniteSet(going)
  BY <1>2, <1>5, FS_Subset
<1>7. Cardinality(going) \in Nat
  BY <1>6, FS_CardinalityType
<1>8. Cardinality(Busy) + Cardinality(Claims) <= MaxConcurrent
  BY DEF IInv, SlotsOK, Occupied
<1> HIDE DEF going, claimed
<1>9. Cardinality(going) <= MaxConcurrent
  BY <1>3, <1>4, <1>5, <1>6, <1>7, <1>8, SchedulerAssumption
<1>. QED  BY <1>9 DEF CapacityBound, going

\* max_concurrent_agents bounds the harness runs whose worker has not reported, over
\* all the dispatches of a tick and all the ways a run can end, as long as every
\* launch of start_workers succeeds.  A run that goes on after its report has given
\* its slot back and comes on top.
THEOREM RunsWithinCapacity ==
    ASSUME LaunchesSucceed
    PROVE  Spec => []CapacityBound
BY SchedulerInvariant, CapacityFromIInv, PTL DEF LaunchesSucceed

LEMMA ReceiptFromIInv ==
    ASSUME IInv, "ReadLease" \notin Failing
    PROVE  ReceiptMeansFinished
BY DEF IInv, ReceiptsKept, MapsOK, LaunchesOK, ReceiptMeansFinished

\* A durable success receipt (terminal_orchestrator_issues) is never held for an
\* issue that is claimed, running or waiting, as long as the lease check of a
\* finished run's workspace succeeds: its error drops the record and keeps the
\* receipt.
THEOREM ReceiptsAreOfFinishedIssues ==
    ASSUME "ReadLease" \notin Failing
    PROVE  Spec => []ReceiptMeansFinished
BY SchedulerInvariant, ReceiptFromIInv, PTL

LEMMA RetryFromIInv ==
    ASSUME IInv, StopsSucceed
    PROVE  RetryIsDurable
BY DEF IInv, RetriesKept

\* A worker starts on a retry only when the durable record names that attempt, as
\* long as no stop is cut short and no call is rate limited; the record's own
\* writes may fail.
THEOREM RetriesAreDurable ==
    ASSUME StopsSucceed
    PROVE  Spec => []RetryIsDurable
BY SchedulerInvariant, RetryFromIInv, PTL DEF StopsSucceed

LEMMA UpdateFromIInv ==
    ASSUME IInv, StopsSucceed
    PROVE  PendingUpdateIsCurrent
BY DEF IInv, UpdatesOK, LaunchesOK, PendingUpdateIsCurrent, Pending

\* A finished update kept after an error is applied to the run it is about, as
\* long as no stop is cut short and no call is rate limited.
THEOREM KeptUpdatesAreCurrent ==
    ASSUME StopsSucceed
    PROVE  Spec => []PendingUpdateIsCurrent
BY SchedulerInvariant, UpdateFromIInv, PTL DEF StopsSucceed

-----------------------------------------------------------------------------
(* One watched or given-up run per issue.                                   *)

\* A run that is watched or was given up on, and the outcome that gives one up.  A
\* run that goes on after another outcome (unstopped) is nobody's.
Going == {"running", "detached"}
GaveUp(o) == o.outcome \in {"Detached", "CancelFailed"}

\* The record keeps other runs of its issue from being started while w goes on.
Holds(e, w) ==
    /\ e # None
    /\ \/ e.status = "Running" /\ e.run.worker = w
       \/ e.status = "Released" /\ e.last # None /\ GaveUp(e.last) /\ e.last.worker = w

\* So does the claim w was started for, until the launch is recorded.
Launching(w) ==
    /\ pc = "launch"
    /\ LET i == given[w].issue
       IN  i \in started /\ launches[i] # None /\ launches[i].run.worker = w

\* The harness confirmed a stop, and the run does not go on.
Confirmed(e, runs) == IsLive(e) /\ Acknowledged(e) => runs[e.run.worker] \notin Going

\* A kept update is about the run of the record it is kept with.
Reported(p, runs) ==
    /\ p.outcome.worker = p.exec.run.worker
    /\ runs[p.outcome.worker] # "running"
    /\ runs[p.outcome.worker] = "detached" => GaveUp(p.outcome)
    /\ Confirmed(p.exec, runs)

Owned ==
    \A w \in Workers : remote[w] \in Going =>
        given[w] # None /\ (Launching(w) \/ Holds(executions[given[w].issue], w))

OwnersOK ==
    /\ Owned
    /\ \A j \in IssueIds : executions[j] # None => Confirmed(executions[j], remote)
    /\ \A j \in IssueIds :
          pendingFinished[j] # None => Reported(pendingFinished[j], remote)
    /\ \A k \in 1..Len(inbox) :
          remote[inbox[k].worker] = "detached" => GaveUp(inbox[k])
    /\ \A j \in IssueIds : launches[j] # None => launches[j].run.issue = j

\* What the argument needs: launches succeed, stops are not cut short, and no
\* record is lost to an error of the lease check.
NothingLost == LaunchesSucceed /\ StopsSucceed /\ "ReadLease" \notin Failing

\* Runs only stop.
OnlyStops(runs) == \A w \in Workers : runs[w] \in Going => runs[w] = remote[w]

\* The new record holds the runs the old one held, those that still go on.
Carried(e, f, runs) ==
    /\ \A w \in Workers : runs[w] \in Going /\ Holds(e, w) => Holds(f, w)
    /\ f # None => Confirmed(f, runs)

LEMMA CarriedSame ==
    ASSUME NEW e, NEW f, WellFormed(f), SamePhase(f, e),
           e.status # "Released" \/ f.last = e.last,
           NEW runs, Confirmed(f, runs)
    PROVE  Carried(e, f, runs)
<1>1. f # None
  BY InputAssumption DEF WellFormed
<1>. QED  BY <1>1 DEF Carried, Holds, SamePhase

\* A record no run is held by may be replaced.
LEMMA CarriedFree ==
    ASSUME NEW e, e # None => /\ e.status # "Running"
                              /\ e.status = "Released"
                                 => e.last = None \/ ~GaveUp(e.last),
           NEW f, NEW runs, f # None => Confirmed(f, runs)
    PROVE  Carried(e, f, runs)
BY DEF Carried, Holds

LEMMA StopRemoteOnly ==
    ASSUME WorldOK, NEW w \in Workers, NEW reached,
           NEW runs, runs = StopRemote(w, reached)
    PROVE  OnlyStops(runs) /\ (reached => runs[w] \notin Going)
<1>1. remote \in [Workers -> {"none", "running", "detached", "unstopped", "stopped"}]
  BY DEF WorldOK
<1>. QED  BY <1>1 DEF StopRemote, OnlyStops, Going, Alive

\* A confirmed stop stays confirmed.
LEMMA ConfirmedStops ==
    ASSUME NEW e, WellFormed(e), NEW runs, OnlyStops(runs), Confirmed(e, remote)
    PROVE  Confirmed(e, runs)
BY LiveWorker DEF Confirmed, OnlyStops

LEMMA ReportedStops ==
    ASSUME NEW p \in [exec : Executions, outcome : OutcomeRecords],
           WellFormed(p.exec), NEW runs, OnlyStops(runs), Reported(p, remote)
    PROVE  Reported(p, runs)
<1>1. p.outcome.worker \in Workers
  BY DEF OutcomeRecords
<1>. QED  BY <1>1, ConfirmedStops DEF Reported, OnlyStops, Going

\* Every step but those that start runs and record them.
LEMMA OwnStep ==
    ASSUME IInv, OwnersOK,
           pc # "launch" \/ \A j \in IssueIds : launches[j] = None,
           given' = given, OnlyStops(remote'),
           \A j \in IssueIds : \/ executions'[j] = executions[j]
                               \/ Carried(executions[j], executions'[j], remote'),
           \A j \in IssueIds : pendingFinished'[j] # None =>
              \/ pendingFinished'[j] = pendingFinished[j]
              \/ Reported(pendingFinished'[j], remote'),
           \A k \in 1..Len(inbox') : \E m \in 1..Len(inbox) : inbox'[k] = inbox[m],
           \A j \in IssueIds : launches'[j] # None => launches'[j] = launches[j]
    PROVE  OwnersOK'
<1>0. MapsOK /\ WorldOK /\ KeptOK /\ LaunchesOK
  BY DEF IInv
<1>1. Owned'
  <2> SUFFICES ASSUME NEW w \in Workers, remote'[w] \in Going
               PROVE  /\ given'[w] # None
                      /\ Holds(executions'[given'[w].issue], w)
    BY DEF Owned
  <2>1. remote[w] \in Going
    BY DEF OnlyStops
  <2>2. given[w] # None /\ (Launching(w) \/ Holds(executions[given[w].issue], w))
    BY <2>1 DEF OwnersOK, Owned
  <2>3. given[w].issue \in IssueIds
    BY <1>0, <2>2 DEF WorldOK, RunAttempts
  <2>4. ~Launching(w)
    BY <2>3 DEF Launching
  <2>. QED  BY <2>2, <2>3, <2>4 DEF Carried
<1>2. ASSUME NEW j \in IssueIds, executions'[j] # None
      PROVE  Confirmed(executions'[j], remote')
  <2>1. CASE executions'[j] = executions[j]
    <3>1. WellFormed(executions[j]) /\ Confirmed(executions[j], remote)
      BY <1>0, <1>2, <2>1 DEF MapsOK, Recorded, OwnersOK
    <3>. QED  BY <2>1, <3>1, ConfirmedStops
  <2>2. CASE Carried(executions[j], executions'[j], remote')
    BY <1>2, <2>2 DEF Carried
  <2>. QED  BY <2>1, <2>2
<1>3. ASSUME NEW j \in IssueIds, pendingFinished'[j] # None
      PROVE  Reported(pendingFinished'[j], remote')
  <2>1. CASE pendingFinished'[j] = pendingFinished[j]
    <3>1. /\ pendingFinished[j] \in [exec : Executions, outcome : OutcomeRecords]
          /\ WellFormed(pendingFinished[j].exec) /\ Reported(pendingFinished[j], remote)
      BY <1>0, <1>3, <2>1 DEF KeptOK, Recorded, OwnersOK
    <3>. QED  BY <2>1, <3>1, ReportedStops
  <2>. QED  BY <1>3, <2>1
<1>4. ASSUME NEW k \in 1..Len(inbox'), remote'[inbox'[k].worker] = "detached"
      PROVE  GaveUp(inbox'[k])
  <2>1. PICK m \in 1..Len(inbox) : inbox'[k] = inbox[m]
    OBVIOUS
  <2>2. inbox[m] \in OutcomeRecords
    BY <1>0 DEF WorldOK
  <2>3. inbox[m].worker \in Workers
    BY <2>2 DEF OutcomeRecords
  <2>4. remote[inbox[m].worker] = "detached"
    BY <1>4, <2>1, <2>3 DEF OnlyStops, Going
  <2>. QED  BY <2>1, <2>4 DEF OwnersOK
<1>5. \A j \in IssueIds : launches'[j] # None => launches'[j].run.issue = j
  BY DEF OwnersOK
<1>. QED  BY <1>1, <1>2, <1>3, <1>4, <1>5 DEF OwnersOK

\* ... when one record changes.
LEMMA PutMap ==
    ASSUME IInv, NEW i \in IssueIds, NEW x, NEW rc, Put(i, x, rc)
    PROVE  /\ executions'[i] = x
           /\ \A j \in IssueIds : j # i => executions'[j] = executions[j]
BY DEF Put, IInv, MapsOK

LEMMA EndTickDrops ==
    ASSUME EndTick
    PROVE  \A j \in IssueIds : launches'[j] = None
BY DEF EndTick, NoLaunches

LEMMA OwnPutStep ==
    ASSUME IInv, OwnersOK, NEW i \in IssueIds, NEW x, NEW rc, Put(i, x, rc),
           pc # "launch", OnlyStops(remote'), given' = given, inbox' = inbox,
           pendingFinished' = pendingFinished,
           Carried(executions[i], x, remote'),
           Handled(i) \/ EndTick \/ launches' = launches
    PROVE  OwnersOK'
<1>1. /\ executions'[i] = x
      /\ \A j \in IssueIds : j # i => executions'[j] = executions[j]
  BY PutMap
<1>2. \A j \in IssueIds : launches'[j] # None => launches'[j] = launches[j]
  BY EndTickDrops DEF Handled, locals
<1>. QED  BY <1>1, <1>2, OwnStep

\* ... and when none does.
LEMMA OwnFrame ==
    ASSUME IInv, OwnersOK,
           pc # "launch" \/ \A j \in IssueIds : launches[j] = None,
           UNCHANGED <<remote, given, inbox, executions, pendingFinished>>,
           \A j \in IssueIds : launches'[j] # None => launches'[j] = launches[j]
    PROVE  OwnersOK'
<1>1. OnlyStops(remote')
  BY DEF OnlyStops
<1>. QED  BY <1>1, OwnStep

-----------------------------------------------------------------------------
LEMMA OwnOperatorCancel ==
    ASSUME IInv, OwnersOK, NEW i \in IssueIds, OperatorCancel(i)
    PROVE  OwnersOK'
<1> DEFINE e == executions[i]
           asked == RequestInterrupt(e, "OperatorCancel", "Paused")
<1>1. /\ e # None /\ IsLive(e) /\ e.conversation # None /\ pc = "idle"
      /\ UNCHANGED <<given, inbox, pendings, tick>>
      /\ IF InterruptQueued(e)
         THEN \E r \in InterruptReplies :
                  /\ Put(i, UpdateInterrupt(asked, r.status), receipts)
                  /\ remote' = StopRemote(asked.run.worker, r.reached)
         ELSE Put(i, asked, receipts) /\ UNCHANGED remote
  BY DEF OperatorCancel, RequestInterruptOk
<1>2. /\ WellFormed(e) /\ e.run.worker \in Workers /\ e.status = "Running"
      /\ Confirmed(e, remote)
  BY <1>1, InIssues DEF OwnersOK
<1> HIDE DEF asked
<1>3. /\ WellFormed(asked) /\ SamePhase(asked, e)
      /\ Acknowledged(asked) => Acknowledged(e)
      /\ InterruptQueued(e) =>
           \A r \in InterruptReplies :
              LET x == UpdateInterrupt(asked, r.status) IN
              /\ WellFormed(x) /\ SamePhase(x, e)
              /\ Acknowledged(x) => r.reached
  BY <1>1, <1>2, InterruptedResult DEF asked, InterruptReasons, NextStates
<1>4. WorldOK /\ pendingFinished' = pendingFinished /\ launches' = launches
  BY <1>1 DEF IInv, pendings, tick, locals
<1>5. CASE InterruptQueued(e)
  <2>1. PICK r \in InterruptReplies :
           /\ Put(i, UpdateInterrupt(asked, r.status), receipts)
           /\ remote' = StopRemote(e.run.worker, r.reached)
    BY <1>1, <1>3, <1>5 DEF SamePhase
  <2> DEFINE x == UpdateInterrupt(asked, r.status)
  <2>2. WellFormed(x) /\ SamePhase(x, e) /\ (Acknowledged(x) => r.reached)
    BY <1>3, <1>5
  <2>3. OnlyStops(remote') /\ (r.reached => remote'[e.run.worker] \notin Going)
    BY <1>2, <1>4, <2>1, StopRemoteOnly
  <2> HIDE DEF x
  <2>4. Put(i, x, receipts)
    BY <2>1 DEF x
  <2>5. Confirmed(x, remote')
    BY <2>2, <2>3 DEF Confirmed, SamePhase
  <2>6. Carried(e, x, remote')
    BY <1>2, <2>2, <2>5, CarriedSame
  <2>. QED  BY <1>1, <1>4, <2>3, <2>4, <2>6, OwnPutStep
<1>6. CASE ~InterruptQueued(e)
  <2>1. Put(i, asked, receipts) /\ remote' = remote /\ OnlyStops(remote')
    BY <1>1, <1>6 DEF OnlyStops
  <2>2. Confirmed(asked, remote')
    BY <1>2, <1>3, <2>1 DEF Confirmed, SamePhase, IsLive
  <2>3. Carried(e, asked, remote')
    BY <1>2, <1>3, <2>2, CarriedSame
  <2>. QED  BY <1>1, <1>4, <2>1, <2>3, OwnPutStep
<1>. QED  BY <1>5, <1>6

LEMMA OwnInterruptForMerging ==
    ASSUME IInv, OwnersOK, NEW i \in IssueIds, Reconciles(i),
           MergingCandidate(executions[i], snap[i]), InterruptForMerging(i),
           UNCHANGED <<WorldButRemote, metadata, ordinal, pendings, cooldown>>
    PROVE  OwnersOK'
<1> DEFINE e == executions[i]
           seen == InState(e, snap[i])
           asked == RequestInterrupt(seen, "TrackerMergingSupersedesHumanReview",
                                     "CloseoutPending")
<1>1. /\ pc = "reconcile" /\ snap[i] \in StateNames
      /\ \A j \in IssueIds : launches[j] = None
  BY Reconciling
<1>2. e # None /\ IsLive(e)
  BY DEF MergingCandidate
<1>3. /\ WellFormed(e) /\ e.run.worker \in Workers /\ e.conversation # None
      /\ e.status = "Running" /\ Confirmed(e, remote)
  BY <1>2, InIssues DEF OwnersOK
<1>4. given' = given /\ inbox' = inbox /\ pendingFinished' = pendingFinished
  BY DEF WorldButRemote, pendings
<1>5. WorldOK
  BY DEF IInv
<1>6. \/ ~InterruptQueued(e) /\ Put(i, asked, receipts) /\ Handled(i) /\ UNCHANGED remote
      \/ /\ InterruptQueued(e) /\ Handled(i)
         /\ \E r \in InterruptReplies :
               /\ Put(i, UpdateInterrupt(asked, r.status), receipts)
               /\ remote' = StopRemote(e.run.worker, r.reached)
      \/ KeepMap /\ EndTick /\ UNCHANGED remote
  BY DEF InterruptForMerging
<1>7. /\ WellFormed(seen) /\ SamePhase(seen, e) /\ seen.interrupt = e.interrupt
      /\ seen.conversation = e.conversation
  BY <1>1, <1>3, InStateResult
<1>8. InterruptQueued(e) <=> InterruptQueued(seen)
  BY <1>7 DEF InterruptQueued
<1> HIDE DEF seen
<1>9. /\ WellFormed(asked) /\ SamePhase(asked, seen)
      /\ Acknowledged(asked) => Acknowledged(seen)
      /\ InterruptQueued(seen) =>
           \A r \in InterruptReplies :
              LET x == UpdateInterrupt(asked, r.status) IN
              /\ WellFormed(x) /\ SamePhase(x, seen)
              /\ Acknowledged(x) => r.reached
  BY <1>3, <1>7, InterruptedResult DEF InterruptReasons, NextStates
<1> HIDE DEF asked
<1>10. SamePhase(asked, e) /\ (Acknowledged(asked) => Acknowledged(e))
  BY <1>7, <1>9 DEF SamePhase, Acknowledged
<1>11. CASE ~InterruptQueued(e) /\ Put(i, asked, receipts) /\ Handled(i)
            /\ UNCHANGED remote
  <2>1. OnlyStops(remote') /\ Confirmed(asked, remote')
    BY <1>3, <1>10, <1>11 DEF OnlyStops, Confirmed, SamePhase, IsLive
  <2>2. Carried(e, asked, remote')
    BY <1>3, <1>9, <1>10, <2>1, CarriedSame
  <2>. QED  BY <1>1, <1>4, <1>11, <2>1, <2>2, OwnPutStep
<1>12. CASE /\ InterruptQueued(e) /\ Handled(i)
            /\ \E r \in InterruptReplies :
                  /\ Put(i, UpdateInterrupt(asked, r.status), receipts)
                  /\ remote' = StopRemote(e.run.worker, r.reached)
  <2>1. PICK r \in InterruptReplies :
           /\ Put(i, UpdateInterrupt(asked, r.status), receipts)
           /\ remote' = StopRemote(e.run.worker, r.reached)
    BY <1>12
  <2> DEFINE x == UpdateInterrupt(asked, r.status)
  <2>2. WellFormed(x) /\ SamePhase(x, seen) /\ (Acknowledged(x) => r.reached)
    BY <1>8, <1>9, <1>12
  <2>3. OnlyStops(remote') /\ (r.reached => remote'[e.run.worker] \notin Going)
    BY <1>3, <1>5, <2>1, StopRemoteOnly
  <2> HIDE DEF x
  <2>4. Put(i, x, receipts)
    BY <2>1 DEF x
  <2>5. SamePhase(x, e)
    BY <1>7, <2>2 DEF SamePhase
  <2>6. Confirmed(x, remote')
    BY <2>2, <2>3, <2>5 DEF Confirmed, SamePhase
  <2>7. Carried(e, x, remote')
    BY <1>3, <2>2, <2>5, <2>6, CarriedSame
  <2>. QED  BY <1>1, <1>4, <1>12, <2>3, <2>4, <2>7, OwnPutStep
<1>13. CASE KeepMap /\ EndTick /\ UNCHANGED remote
  BY <1>1, <1>4, <1>13, EndTickDrops, OwnFrame DEF KeepMap
<1>. QED  BY <1>6, <1>11, <1>12, <1>13

\* A record that prevents its issue from being taken up again stays as it is when
\* the issue is listed as active.
LEMMA UpsertedKeeps ==
    ASSUME NEW e, WellFormed(e), e.status # "Released" \/ PreventsReopen(e),
           NEW i, NEW state \in StateNames, NEW f, f = Upserted(e, i, state)
    PROVE  /\ WellFormed(f) /\ SamePhase(f, e) /\ f.last = e.last
           /\ f.interrupt = e.interrupt
<1>1. f = InState(e, state)
  BY InputAssumption DEF Upserted, WellFormed
<1>. QED  BY <1>1, InStateResult

\* ... and no other released record holds a run.
LEMMA UpsertedCarries ==
    ASSUME NEW e, e # None => Recorded(e), NEW i \in IssueIds,
           NEW state \in StateNames, NEW f, f = Upserted(e, i, state),
           e # None => Confirmed(e, remote)
    PROVE  Carried(e, f, remote)
<1>1. CASE e # None /\ (e.status # "Released" \/ PreventsReopen(e))
  <2>1. /\ WellFormed(f) /\ SamePhase(f, e) /\ f.last = e.last
        /\ f.interrupt = e.interrupt
    BY <1>1, UpsertedKeeps DEF Recorded
  <2>2. Confirmed(f, remote)
    BY <1>1, <2>1 DEF Confirmed, SamePhase, IsLive, Acknowledged
  <2>. QED  BY <2>1, <2>2, CarriedSame
<1>2. CASE e = None \/ (e.status = "Released" /\ ~PreventsReopen(e))
  <2>1. f.status = "Unclaimed" \/ (e # None /\ SamePhase(f, e))
    BY UpsertedResult
  <2>2. Confirmed(f, remote)
    BY <1>2, <2>1 DEF Confirmed, SamePhase, IsLive
  <2>3. e # None => e.status = "Released" /\ (e.last = None \/ ~GaveUp(e.last))
    BY <1>2 DEF PreventsReopen, GaveUp
  <2>. QED  BY <2>2, <2>3, CarriedFree
<1>. QED  BY <1>1, <1>2

LEMMA CarriedOn ==
    ASSUME NEW e, NEW f, NEW g, NEW runs, Carried(f, g, runs),
           \A w \in Workers : Holds(e, w) => Holds(f, w)
    PROVE  Carried(e, g, runs)
BY DEF Carried

LEMMA OwnReconcileActive ==
    ASSUME IInv, OwnersOK, NEW i \in IssueIds, ReconcileActive(i)
    PROVE  OwnersOK'
<1> DEFINE e == executions[i]
<1>1. /\ pc = "reconcile" /\ snap[i] \in StateNames
      /\ \A j \in IssueIds : launches[j] = None
  BY Reconciling DEF ReconcileActive
<1>2. e # None => Recorded(e) /\ Confirmed(e, remote)
  BY DEF IInv, MapsOK, OwnersOK
<1>3. given' = given /\ inbox' = inbox /\ pendingFinished' = pendingFinished
  BY DEF ReconcileActive, WorldButRemote, pendings
<1>4. CASE MergingCandidate(e, snap[i])
  BY <1>4, OwnInterruptForMerging DEF ReconcileActive
<1>5. CASE ~MergingCandidate(e, snap[i]) /\ mode = "full"
  <2>1. PICK x \in IF e # None /\ Parked(e) THEN Cleaned(e) ELSE {e} :
          Put(i, Upserted(x, i, snap[i]), receipts) /\ Handled(i)
    BY <1>5 DEF ReconcileActive
  <2>2. remote' = remote /\ OnlyStops(remote')
    BY <1>5 DEF ReconcileActive, OnlyStops
  <2>3. /\ x # None => Recorded(x) /\ Confirmed(x, remote)
        /\ \A w \in Workers : Holds(e, w) => Holds(x, w)
    <3>1. CASE e # None /\ Parked(e)
      <4>1. e.status = "Released" /\ WellFormed(e) /\ x \in Cleaned(e)
        BY <1>2, <2>1, <3>1 DEF Parked, RetryExhausted, Recorded
      <4>2. WellFormed(x) /\ SamePhase(x, e) /\ x.last = e.last
        BY <4>1, CleanedResult
      <4>3. x # None
        BY <4>2, InputAssumption DEF WellFormed
      <4>. QED  BY <4>1, <4>2, <4>3 DEF Recorded, SamePhase, Holds, Confirmed, IsLive
    <3>2. CASE x = e
      BY <1>2, <3>2
    <3>. QED  BY <2>1, <3>1, <3>2
  <2> DEFINE f == Upserted(x, i, snap[i])
  <2>4. Carried(x, f, remote)
    BY <1>1, <2>3, UpsertedCarries
  <2>5. Put(i, f, receipts)
    BY <2>1
  <2> HIDE DEF f
  <2>6. Carried(e, f, remote')
    BY <2>2, <2>3, <2>4, CarriedOn
  <2>. QED  BY <1>1, <1>3, <2>1, <2>2, <2>5, <2>6, OwnPutStep
<1>6. CASE ~MergingCandidate(e, snap[i]) /\ mode # "full"
  <2> DEFINE x == IF e = None THEN None ELSE InState(e, snap[i])
  <2>1. Put(i, x, receipts) /\ Handled(i) /\ UNCHANGED remote
    BY <1>6 DEF ReconcileActive
  <2>2. OnlyStops(remote')
    BY <2>1 DEF OnlyStops
  <2>3. CASE e = None
    <3>1. Carried(e, x, remote')
      BY <2>3 DEF Carried
    <3>. QED  BY <1>1, <1>3, <2>1, <2>2, <3>1, OwnPutStep
  <2>4. CASE e # None
    <3>1. /\ WellFormed(x) /\ SamePhase(x, e) /\ x.last = e.last
          /\ x.interrupt = e.interrupt
      BY <1>1, <1>2, <2>4, InStateResult DEF Recorded
    <3> HIDE DEF x
    <3>2. Confirmed(x, remote')
      BY <1>2, <2>1, <2>4, <3>1 DEF Confirmed, SamePhase, IsLive, Acknowledged
    <3>3. Carried(e, x, remote')
      BY <3>1, <3>2, CarriedSame
    <3>. QED  BY <1>1, <1>3, <2>1, <2>2, <3>3, OwnPutStep
  <2>. QED  BY <2>3, <2>4
<1>. QED  BY <1>4, <1>5, <1>6

LEMMA OwnReconcileParked ==
    ASSUME IInv, OwnersOK, NEW i \in IssueIds, ReconcileParked(i)
    PROVE  OwnersOK'
<1> DEFINE e == executions[i]
<1>1. /\ pc = "reconcile" /\ snap[i] \in StateNames
      /\ \A j \in IssueIds : launches[j] = None
  BY Reconciling DEF ReconcileParked
<1>2. /\ remote' = remote /\ given' = given /\ inbox' = inbox
      /\ pendingFinished' = pendingFinished /\ Handled(i)
  BY DEF ReconcileParked, world, pendings
<1>3. launches' = launches /\ OnlyStops(remote')
  BY <1>2 DEF Handled, locals, OnlyStops
<1>4. \/ e = None /\ KeepMap
      \/ /\ e # None /\ RetryExhausted(e)
         /\ \E x \in IF RetainFailed THEN {e} ELSE Cleaned(e) :
               Put(i, InState(x, snap[i]), receipts)
  BY DEF ReconcileParked
<1>5. CASE e = None /\ KeepMap
  BY <1>1, <1>2, <1>3, <1>5, OwnFrame DEF KeepMap
<1>6. CASE /\ e # None /\ RetryExhausted(e)
           /\ \E x \in IF RetainFailed THEN {e} ELSE Cleaned(e) :
                 Put(i, InState(x, snap[i]), receipts)
  <2>1. PICK x \in IF RetainFailed THEN {e} ELSE Cleaned(e) :
          Put(i, InState(x, snap[i]), receipts)
    BY <1>6
  <2>2. WellFormed(e) /\ e.status = "Released"
    BY <1>6, InIssues DEF RetryExhausted
  <2>3. WellFormed(x) /\ SamePhase(x, e) /\ x.last = e.last
    BY <2>1, <2>2, CleanedResult DEF SamePhase, Cleaned
  <2> DEFINE f == InState(x, snap[i])
  <2>4. WellFormed(f) /\ SamePhase(f, x) /\ f.last = x.last
    BY <1>1, <2>3, InStateResult
  <2>5. Put(i, f, receipts)
    BY <2>1
  <2> HIDE DEF f
  <2>6. SamePhase(f, e) /\ f.last = e.last /\ Confirmed(f, remote')
    BY <2>2, <2>3, <2>4 DEF SamePhase, Confirmed, IsLive
  <2>7. Carried(e, f, remote')
    BY <2>4, <2>6, CarriedSame
  <2>. QED  BY <1>1, <1>2, <1>3, <2>5, <2>7, OwnPutStep
<1>. QED  BY <1>4, <1>5, <1>6

LEMMA OwnReconcileRelease ==
    ASSUME IInv, OwnersOK, NothingLost, NEW i \in IssueIds, ReconcileRelease(i)
    PROVE  OwnersOK'
<1> DEFINE e == InState(executions[i], snap[i])
           reason == NonActiveReason(Category(e))
           w == e.run.worker
<1>1. /\ pc = "reconcile" /\ snap[i] \in StateNames /\ executions[i] # None
      /\ \A j \in IssueIds : launches[j] = None
  BY Reconciling DEF ReconcileRelease
<1>2. /\ Recorded(executions[i]) /\ WellFormed(executions[i])
      /\ Confirmed(executions[i], remote)
      /\ IsLive(executions[i]) => executions[i].run.worker \in Workers
  BY <1>1, InIssues DEF OwnersOK
<1>3. PICK r \in Releases(i, e, reason) :
        /\ Put(i, r.exec, IF r.receipt THEN receipts \cup {i} ELSE receipts)
        /\ remote' = IF IsLive(e) THEN StopRemote(w, r.reached) ELSE remote
        /\ IF r.ok THEN Handled(i) ELSE EndTick
  BY DEF ReconcileRelease
<1>4. given' = given /\ inbox' = inbox /\ pendingFinished' = pendingFinished
  BY DEF ReconcileRelease, pendings
<1>5. /\ WellFormed(e) /\ SamePhase(e, executions[i])
      /\ e.interrupt = executions[i].interrupt /\ e.last = executions[i].last
  BY <1>1, <1>2, InStateResult
<1>6. reason \in ReleaseReasons
  BY DEF NonActiveReason, ReleaseReasons
<1> HIDE DEF e, reason
<1>7. /\ e.status # "Claimed" /\ Confirmed(e, remote)
      /\ IsLive(e) => w \in Workers /\ e.status = "Running"
      /\ \A v \in Workers : Holds(executions[i], v) => Holds(e, v)
      /\ e # None
  BY <1>2, <1>5, InputAssumption
     DEF Recorded, SamePhase, IsLive, Confirmed, Acknowledged, Holds, WellFormed
<1>8. /\ r.exec # None => Recorded(r.exec)
      /\ ~IsLive(e) => /\ r.exec # None => r.exec.last = e.last
                       /\ r.exec = None => Fails("ReadLease") \/ EndedWell(e)
      /\ r.stopped => IsLive(e) /\ (r.reached \/ Acknowledged(e))
      /\ (r.stopped \/ ~IsLive(e)) /\ r.exec # None => r.exec.status = "Released"
      /\ IsLive(e) /\ ~r.stopped =>
            /\ r.exec # None /\ SamePhase(r.exec, e)
            /\ Acknowledged(r.exec) => r.reached \/ Acknowledged(e)
  BY <1>5, <1>6, <1>7, ReleasesResult
<1>9. WorldOK /\ ~Fails("ReadLease")
  BY DEF IInv, NothingLost, Fails
<1>10. /\ OnlyStops(remote')
       /\ IsLive(e) /\ (r.reached \/ Acknowledged(e)) => remote'[w] \notin Going
  <2>1. CASE IsLive(e)
    <3>1. OnlyStops(remote') /\ (r.reached => remote'[w] \notin Going)
      BY <1>3, <1>7, <1>9, <2>1, StopRemoteOnly
    <3>. QED  BY <1>7, <2>1, <3>1 DEF Confirmed, OnlyStops
  <2>2. CASE ~IsLive(e)
    BY <1>3, <2>2 DEF OnlyStops
  <2>. QED  BY <2>1, <2>2
<1>11. Carried(e, r.exec, remote')
  <2>1. CASE r.stopped
    <3>1. remote'[w] \notin Going /\ e.status = "Running"
      BY <1>7, <1>8, <1>10, <2>1
    <3>2. r.exec # None => r.exec.status = "Released"
      BY <1>8, <2>1
    <3>. QED  BY <3>1, <3>2 DEF Carried, Holds, Confirmed, IsLive
  <2>2. CASE ~IsLive(e)
    <3>1. r.exec # None => r.exec.status = "Released" /\ r.exec.last = e.last
      BY <1>8, <2>2
    <3>2. r.exec = None => EndedWell(e)
      BY <1>8, <1>9, <2>2
    <3>. QED  BY <2>2, <3>1, <3>2 DEF Carried, Holds, Confirmed, IsLive, EndedWell, GaveUp
  <2>3. CASE IsLive(e) /\ ~r.stopped
    <3>1. /\ WellFormed(r.exec) /\ SamePhase(r.exec, e)
          /\ Acknowledged(r.exec) => r.reached \/ Acknowledged(e)
      BY <1>8, <2>3 DEF Recorded
    <3>2. Confirmed(r.exec, remote')
      BY <1>10, <2>3, <3>1 DEF Confirmed, SamePhase
    <3>. QED  BY <1>7, <2>3, <3>1, <3>2, CarriedSame
  <2>. QED  BY <2>1, <2>2, <2>3
<1>12. Carried(executions[i], r.exec, remote')
  BY <1>7, <1>11, CarriedOn
<1>. QED  BY <1>1, <1>3, <1>4, <1>10, <1>12, OwnPutStep

\* abort_worker, where none of its own calls fails.
LEMMA OwnAborted ==
    ASSUME IInv, OwnersOK, NothingLost, NEW i \in IssueIds, executions[i] # None,
           executions[i].status = "Running", NEW a \in AbortWorker(executions[i]),
           NEW w, w = executions[i].run.worker, NEW runs, runs = StopRemote(w, a.reached)
    PROVE  /\ a.ok /\ WellFormed(a.exec) /\ SamePhase(a.exec, executions[i])
           /\ OnlyStops(runs) /\ w \in Workers
           /\ Carried(executions[i], a.exec, runs)
           /\ a.stopped => runs[w] \notin Going
<1> DEFINE e == executions[i]
<1>1. WellFormed(e) /\ w \in Workers /\ Confirmed(e, remote)
  BY InIssues DEF IsLive, OwnersOK
<1>2. /\ WellFormed(a.exec) /\ SamePhase(a.exec, e)
      /\ Acknowledged(a.exec) => a.reached \/ Acknowledged(e)
      /\ a.stopped => Acknowledged(a.exec)
      /\ ~a.ok => Fails("PersistIntent") \/ Fails("AbortCall")
  BY <1>1, AbortWorkerResult
<1>3. a.ok
  BY <1>2 DEF NothingLost, StopsSucceed, Fails
<1>4. OnlyStops(runs) /\ (a.reached => runs[w] \notin Going)
  BY <1>1, StopRemoteOnly DEF IInv
<1>5. Acknowledged(e) => runs[w] \notin Going
  BY <1>1, <1>4 DEF Confirmed, OnlyStops, IsLive
<1>6. Confirmed(a.exec, runs)
  BY <1>2, <1>4, <1>5 DEF Confirmed, SamePhase
<1>7. Carried(e, a.exec, runs)
  BY <1>2, <1>6, CarriedSame
<1>. QED  BY <1>1, <1>2, <1>3, <1>4, <1>5, <1>7

LEMMA OwnStopStalled ==
    ASSUME IInv, OwnersOK, NothingLost, NEW i \in IssueIds, StopStalled(i)
    PROVE  OwnersOK'
<1> DEFINE e == executions[i]
           w == e.run.worker
<1>1. pc = "stalled" /\ i \in todo
  BY DEF StopStalled
<1>2. e # None /\ e.status = "Running"
  BY <1>1 DEF IInv, TodoOK
<1>3. PICK a \in AbortWorker(e) :
        /\ Put(i, IF a.ok THEN a.exec ELSE None, receipts)
        /\ remote' = StopRemote(w, a.reached)
        /\ IF a.ok THEN Handled(i) ELSE EndTick
  BY DEF StopStalled
<1>4. given' = given /\ inbox' = inbox /\ pendingFinished' = pendingFinished
  BY DEF StopStalled, WorldButRemote, pendings
<1>5. a.ok /\ OnlyStops(remote') /\ Carried(e, a.exec, remote')
  BY <1>2, <1>3, OwnAborted
<1>6. Put(i, a.exec, receipts) /\ Handled(i)
  BY <1>3, <1>5
<1>. QED  BY <1>1, <1>4, <1>5, <1>6, OwnPutStep

LEMMA OwnDoSkip ==
    ASSUME IInv, OwnersOK, NEW i \in IssueIds, DoSkip(i)
    PROVE  OwnersOK'
<1> DEFINE e == Reopened(i)
           refreshed == IF e = None THEN None ELSE InState(e, snap[i])
<1>1. /\ pc = "dispatch" /\ i \in Candidates
      /\ Put(i, e, receipts) \/ Put(i, refreshed, receipts)
      /\ remote' = remote /\ given' = given /\ inbox' = inbox
      /\ pendingFinished' = pendingFinished /\ launches' = launches
  BY DEF DoSkip, world, locals, pendings
<1>2. snap[i] \in StateNames
  BY <1>1, Dispatching
<1>3. executions[i] # None => /\ Recorded(executions[i])
                              /\ Confirmed(executions[i], remote)
  BY InIssues DEF OwnersOK
<1>4. Carried(executions[i], e, remote) /\ (e # None => Recorded(e))
  <2>1. CASE e = executions[i]
    BY <1>3, <2>1 DEF Carried
  <2>2. CASE e = Upserted(executions[i], i, snap[i])
    <3> HIDE DEF e
    <3>1. Recorded(e)
      BY <1>2, <1>3, <2>2, UpsertedResult
    <3>2. Carried(executions[i], e, remote)
      BY <1>2, <1>3, <2>2, UpsertedCarries
    <3>. QED  BY <3>1, <3>2
  <2>. QED  BY <2>1, <2>2 DEF Reopened
<1> HIDE DEF e
<1>5. Carried(executions[i], refreshed, remote)
  <2>1. CASE e = None
    BY <1>4, <2>1
  <2>2. CASE e # None
    <3>1. refreshed = InState(e, snap[i])
      BY <2>2
    <3> HIDE DEF refreshed
    <3>2. /\ WellFormed(refreshed) /\ SamePhase(refreshed, e)
          /\ refreshed.interrupt = e.interrupt /\ refreshed.last = e.last
      BY <1>2, <1>4, <2>2, <3>1, InStateResult DEF Recorded
    <3>3. Confirmed(e, remote)
      BY <1>4, <2>2 DEF Carried
    <3>4. Confirmed(refreshed, remote)
      BY <3>2, <3>3 DEF Confirmed, SamePhase, IsLive, Acknowledged
    <3>5. Carried(e, refreshed, remote)
      BY <3>2, <3>4, CarriedSame
    <3>. QED  BY <1>4, <3>5 DEF Carried
  <2>. QED  BY <2>1, <2>2
<1> HIDE DEF refreshed
<1>6. OnlyStops(remote')
  BY <1>1 DEF OnlyStops
<1>. QED  BY <1>1, <1>4, <1>5, <1>6, OwnPutStep

\* A run its worker gave up on is released at once, whatever the tracker says.
LEMMA GivenUpReleases ==
    ASSUME NEW i \in IssueIds, NEW e, WellFormed(e), NEW o \in OutcomeRecords,
           GaveUp(o), NEW s \in Settlements(i, e, o), s.result.ok
    PROVE  s.result.exec.status = "Released"
<1>1. ~AsksTracker(e, o)
  BY DEF AsksTracker, GaveUp
<1>2. PICK reply : \E r \in ResolveFinished(e, o, reply.seen) :
        \E p \in PersistRetry(r.exec) :
           s = [result |-> r, save |-> p, reply |-> reply]
  BY DEF Settlements
<1>3. PICK r \in ResolveFinished(e, o, reply.seen) : s.result = r
  BY <1>2
<1>4. /\ "TrackerTerminal" \in ReleaseReasons /\ "TrackerInactive" \in ReleaseReasons
      /\ "Cancelled" \in ReleaseReasons
  BY DEF ReleaseReasons
<1>5. PICK reason \in ReleaseReasons : r \in ReleaseFinished(e, reason, o)
  BY <1>1, <1>3, <1>4 DEF ResolveFinished, ResolveLocally, NonActiveReason
<1>. QED  BY <1>3, <1>5, ReleaseFinishedResult

\* A run that ended is settled: a run still going is one its worker gave up on, and
\* its record is released with that outcome, or stays with the run.
LEMMA SettledCarries ==
    ASSUME IInv, NEW i \in IssueIds, NEW e, NEW f, WellFormed(f),
           f.status = "Running", f.run.worker = e.run.worker,
           e.status = "Running", NEW g, WellFormed(g), NEW o \in OutcomeRecords,
           o.worker = e.run.worker, NEW s \in Settlements(i, g, o),
           NEW runs, runs[o.worker] = "detached" => GaveUp(o),
           runs[o.worker] # "running", Confirmed(f, runs),
           NEW x, x = IF s.result.ok THEN s.result.exec ELSE f
    PROVE  Carried(e, x, runs)
<1>1. Settled(s, o)
  BY SettlementResult DEF IInv, WorldOK
<1>2. CASE s.result.ok
  <2>1. /\ x # None /\ x.status \in {"Released", "RetryQueued"} /\ x.last = o
    BY <1>1, <1>2 DEF Settled
  <2>2. GaveUp(o) => x.status = "Released"
    BY <1>2, GivenUpReleases
  <2>3. o # None
    BY NoneAssumption DEF GaveUp, Settled
  <2>. QED  BY <2>1, <2>2, <2>3 DEF Carried, Holds, Confirmed, IsLive, Going
<1>3. CASE ~s.result.ok
  <2>1. f # None /\ x = f
    BY <1>3, InputAssumption DEF WellFormed
  <2>. QED  BY <2>1 DEF Carried, Holds
<1>. QED  BY <1>2, <1>3

LEMMA OwnFlush ==
    ASSUME IInv, OwnersOK, NothingLost, NEW i \in IssueIds, Flush(i)
    PROVE  OwnersOK'
<1> DEFINE p == pendingFinished[i]
<1>1. /\ pc = "flush" /\ i \in todo
      /\ remote' = remote /\ given' = given /\ inbox' = inbox /\ launches' = launches
  BY DEF Flush
<1>2. PICK s \in Settlements(i, p.exec, p.outcome) :
        /\ Settle(i, s, IF s.result.ok THEN s.result.exec ELSE p.exec)
        /\ pendingFinished' = IF s.result.ok THEN [pendingFinished EXCEPT ![i] = None]
                              ELSE pendingFinished
  BY DEF Flush
<1>3. p # None /\ p \in [exec : Executions, outcome : OutcomeRecords]
  BY <1>1 DEF IInv, TodoOK, KeptOK
<1>4. /\ Recorded(p.exec) /\ p.outcome \in OutcomeRecords /\ Reported(p, remote)
  BY <1>3 DEF IInv, KeptOK, OwnersOK
<1>5. /\ executions[i].status = "Running" /\ p.exec.status = "Running"
      /\ executions[i].run = p.exec.run
  BY <1>3 DEF IInv, UpdatesOK, NothingLost
<1>6. WellFormed(p.exec)
  BY <1>4 DEF Recorded
<1> DEFINE x == IF s.result.ok THEN s.result.exec ELSE p.exec
           rc == IF s.result.receipt THEN receipts \cup {i} ELSE receipts
<1>7. Carried(executions[i], x, remote)
  BY <1>2, <1>4, <1>5, <1>6, SettledCarries DEF Reported
<1>8. Put(i, x, rc)
  BY <1>2 DEF Settle
<1> HIDE DEF x, rc
<1>9. /\ executions'[i] = x
      /\ \A j \in IssueIds : j # i => executions'[j] = executions[j]
  BY <1>8, PutMap
<1>10. \A j \in IssueIds :
          pendingFinished'[j] # None => pendingFinished'[j] = pendingFinished[j]
  BY <1>2 DEF IInv, KeptOK
<1>11. OnlyStops(remote')
  BY <1>1 DEF OnlyStops
<1>. QED  BY <1>1, <1>7, <1>9, <1>10, <1>11, OwnStep

LEMMA OwnDrainUpdate ==
    ASSUME IInv, OwnersOK, NothingLost, DrainUpdate
    PROVE  OwnersOK'
<1> DEFINE o == Head(inbox)
           w == o.worker
           i == metadata[w]
<1>1. /\ pc = "drain" /\ o \in OutcomeRecords /\ w \in Workers
      /\ remote[w] # "running"
      /\ \A k \in 1..Len(inbox') : \E m \in 1..Len(inbox) : inbox'[k] = inbox[m]
      /\ remote' = remote /\ given' = given /\ launches' = launches
  BY DrainTakes
<1>2. OnlyStops(remote')
  BY <1>1 DEF OnlyStops
<1>3. UpdatesOK /\ metadata \in [Workers -> IssueIds \cup {None}]
  BY DEF IInv, KeptOK, NothingLost
<1>4. remote[w] = "detached" => GaveUp(o)
  <2>1. inbox # <<>> /\ inbox \in Seq(OutcomeRecords)
    <3>1. batch > 0 /\ batch \in 0..Len(inbox) /\ inbox \in Seq(OutcomeRecords)
      BY DEF DrainUpdate, IInv, TickOK, WorldOK
    <3>. QED  BY <3>1
  <2>2. 1 \in 1..Len(inbox) /\ o = inbox[1]
    BY <2>1
  <2>. QED  BY <2>2 DEF OwnersOK
<1>5. CASE i = None \/ executions[i] = None
  <2>1. executions' = executions /\ pendingFinished' = pendingFinished
    BY <1>5 DEF DrainUpdate, pendings
  <2>. QED  BY <1>1, <1>2, <2>1, OwnStep
<1>6. CASE i # None /\ executions[i] # None
  <2> DEFINE e == executions[i]
             f == RecordOutcome(e, o)
  <2>1. i \in IssueIds /\ e.status = "Running" /\ e.run.worker = w
    BY <1>1, <1>3, <1>6 DEF UpdatesOK, Runs
  <2>2. WellFormed(e) /\ Confirmed(e, remote)
    BY <1>6, <2>1, InIssues DEF OwnersOK
  <2>3. PICK s \in Settlements(i, e, o) :
          /\ Settle(i, s, IF s.result.ok THEN s.result.exec ELSE f)
          /\ pendingFinished' = IF s.result.ok THEN pendingFinished
                                ELSE [pendingFinished EXCEPT
                                        ![i] = [exec |-> f, outcome |-> o]]
    BY <1>6 DEF DrainUpdate, ApplyFinished
  <2>4. /\ WellFormed(f) /\ SamePhase(f, e)
        /\ f.interrupt # None /\ f.interrupt.status = "Acknowledged"
           => f.interrupt = e.interrupt
    BY <1>1, <2>2, RecordOutcomeWellFormed
  <2> DEFINE x == IF s.result.ok THEN s.result.exec ELSE f
             rc == IF s.result.receipt THEN receipts \cup {i} ELSE receipts
  <2>5. Put(i, x, rc)
    BY <2>3 DEF Settle
  <2> HIDE DEF f
  <2>6. f.status = "Running" /\ f.run.worker = w /\ Confirmed(f, remote)
    BY <2>1, <2>2, <2>4 DEF SamePhase, Confirmed, IsLive, Acknowledged
  <2>a. x = IF s.result.ok THEN s.result.exec ELSE f
    OBVIOUS
  <2>b. s \in Settlements(i, e, o)
    OBVIOUS
  <2> HIDE DEF o, x, rc, i
  <2>7. Carried(e, x, remote)
    BY <1>1, <1>4, <2>1, <2>2, <2>4, <2>6, <2>a, <2>b, SettledCarries
  <2>8. /\ executions'[i] = x
        /\ \A j \in IssueIds : j # i => executions'[j] = executions[j]
    BY <2>1, <2>5, PutMap
  <2>9. ASSUME NEW j \in IssueIds, pendingFinished'[j] # None
        PROVE  \/ pendingFinished'[j] = pendingFinished[j]
               \/ Reported(pendingFinished'[j], remote')
    <3>1. CASE pendingFinished'[j] = [exec |-> f, outcome |-> o]
      BY <1>1, <1>4, <2>6, <3>1 DEF Reported
    <3>2. CASE pendingFinished'[j] = pendingFinished[j]
      BY <3>2
    <3>3. \/ pendingFinished'[j] = pendingFinished[j]
          \/ pendingFinished'[j] = [exec |-> f, outcome |-> o]
      BY <2>3 DEF IInv, KeptOK
    <3>. QED  BY <3>1, <3>2, <3>3
  <2>10. \A j \in IssueIds : \/ executions'[j] = executions[j]
                             \/ Carried(executions[j], executions'[j], remote')
    BY <1>1, <2>7, <2>8
  <2>. QED  BY <1>1, <1>2, <2>9, <2>10, OwnStep
<1>. QED  BY <1>5, <1>6

LEMMA OwnHandleStalled ==
    ASSUME IInv, OwnersOK, NothingLost, NEW i \in IssueIds, HandleStalled(i)
    PROVE  OwnersOK'
<1> DEFINE e == executions[i]
           w == e.run.worker
<1>1. /\ pc = "stalled" /\ i \in todo
      /\ UNCHANGED <<given, inbox, pendingFinished>>
  BY DEF HandleStalled
<1>2. e # None /\ e.status = "Running" /\ w \in Workers
  BY <1>1, InIssues DEF IInv, TodoOK, IsLive
<1>3. PICK a \in AbortWorker(e) :
        /\ a.stopped
        /\ remote' = StopRemote(a.exec.run.worker, a.reached)
        /\ \E s \in Settlements(i, a.exec, OutcomeFromRun(a.exec.run, "Stalled")) :
             /\ Settle(i, s, s.result.exec)
             /\ IF s.result.ok /\ s.save.ok THEN Handled(i) ELSE EndTick
  BY DEF HandleStalled
<1> DEFINE o == OutcomeFromRun(a.exec.run, "Stalled")
<1>4. PICK s \in Settlements(i, a.exec, o) :
        /\ Settle(i, s, s.result.exec)
        /\ IF s.result.ok /\ s.save.ok THEN Handled(i) ELSE EndTick
  BY <1>3
<1>5. /\ WellFormed(a.exec) /\ SamePhase(a.exec, e)
      /\ OnlyStops(StopRemote(w, a.reached))
      /\ StopRemote(w, a.reached)[w] \notin Going
  BY <1>2, <1>3, OwnAborted
<1>6. OnlyStops(remote') /\ remote'[w] \notin Going
  BY <1>3, <1>5 DEF SamePhase
<1>7. o \in OutcomeRecords
  BY <1>2, <1>5, LiveWorker, OutcomeFromRunResult DEF OutcomeKinds, SamePhase, IsLive
<1> HIDE DEF o
<1>8. Settled(s, o)
  BY <1>5, <1>7, SettlementResult DEF IInv, WorldOK
<1> DEFINE x == s.result.exec
           rc == IF s.result.receipt THEN receipts \cup {i} ELSE receipts
<1>9. x # None => ~IsLive(x)
  BY <1>8 DEF Settled, IsLive
<1>10. Put(i, x, rc)
  BY <1>4 DEF Settle
<1> HIDE DEF x, rc
<1>11. Carried(e, x, remote')
  BY <1>2, <1>6, <1>9 DEF Carried, Holds, Confirmed
<1>. QED  BY <1>1, <1>4, <1>6, <1>10, <1>11, OwnPutStep

\* The steps that only move the tick on or end it.
LEMMA OwnControl ==
    ASSUME IInv, OwnersOK, pc # "launch" \/ Claims = {},
           UNCHANGED <<world, executions, pendings>>, EndTick \/ launches' = launches
    PROVE  OwnersOK'
<1>1. pc # "launch" \/ \A j \in IssueIds : launches[j] = None
  BY DEF Claims
<1>2. UNCHANGED <<remote, given, inbox, executions, pendingFinished>>
  BY DEF world, pendings
<1>3. \A j \in IssueIds : launches'[j] # None => launches'[j] = launches[j]
  BY EndTickDrops
<1>. QED  BY <1>1, <1>2, <1>3, OwnFrame

LEMMA OwnTrackerFails ==
    ASSUME IInv, OwnersOK, pc # "launch", TrackerFails
    PROVE  OwnersOK'
BY OwnControl DEF TrackerFails

LEMMA OwnRateLimited ==
    ASSUME IInv, OwnersOK, pc # "launch", NEW phase, RateLimited(phase)
    PROVE  OwnersOK'
<1>1. launches' = launches
  BY DEF RateLimited, EnterDrain, Continue
<1>. QED  BY <1>1, OwnControl DEF RateLimited

LEMMA OwnLook ==
    ASSUME IInv, OwnersOK,
           LoadSnapshot \/ RefreshRunning \/ SnapshotFails \/ NoRefresh
    PROVE  OwnersOK'
<1>1. CASE LoadSnapshot \/ RefreshRunning \/ NoRefresh
  <2>1. pc # "launch" /\ launches' = launches
    BY <1>1 DEF LoadSnapshot, RefreshRunning, NoRefresh, EnterDrain, Continue
  <2>2. StepOnly
    BY <1>1 DEF LoadSnapshot, RefreshRunning, NoRefresh
  <2>. QED  BY <2>1, <2>2, OwnControl DEF StepOnly
<1>2. CASE SnapshotFails
  BY <1>2, OwnTrackerFails, OwnRateLimited DEF SnapshotFails
<1>. QED  BY <1>1, <1>2

LEMMA OwnPhaseDone ==
    ASSUME IInv, OwnersOK,
           FlushDone \/ DrainDone \/ ReconcileDone \/ DispatchDone
    PROVE  OwnersOK'
<1>1. StepOnly
  BY DEF FlushDone, DrainDone, ReconcileDone, DispatchDone
<1>2. pc # "launch" \/ Claims = {}
  BY DEF FlushDone, DrainDone, ReconcileDone, DispatchDone
<1>3. EndTick \/ launches' = launches
  <2>1. CASE FlushDone
    BY <2>1 DEF FlushDone, EnterDrain
  <2>2. CASE DrainDone
    BY <2>2 DEF DrainDone, Continue
  <2>3. CASE ReconcileDone
    BY <2>3 DEF ReconcileDone, EnterDrain, Continue
  <2>4. CASE DispatchDone
    BY <2>4 DEF DispatchDone
  <2>. QED  BY <2>1, <2>2, <2>3, <2>4
<1>. QED  BY <1>1, <1>2, <1>3, OwnControl DEF StepOnly

LEMMA OwnLate ==
    ASSUME IInv, OwnersOK,
           RefreshTerminal \/ NoTerminalRefresh \/ Discover \/ NoDiscovery \/ LateFails
    PROVE  OwnersOK'
<1>1. CASE RefreshTerminal \/ NoTerminalRefresh \/ Discover \/ NoDiscovery
  <2>1. pc # "launch" /\ Continue /\ StepOnly
    BY <1>1 DEF RefreshTerminal, NoTerminalRefresh, Discover, NoDiscovery
  <2>. QED  BY <2>1, OwnControl DEF Continue, StepOnly
<1>2. CASE LateFails
  BY <1>2, OwnTrackerFails, OwnRateLimited DEF LateFails
<1>. QED  BY <1>1, <1>2

LEMMA OwnDispatchControl ==
    ASSUME IInv, OwnersOK,
           FetchDetails \/ NoDetails \/ FindStalls \/ StallsDone \/ SoloDrain
    PROVE  OwnersOK'
<1>1. pc # "launch" /\ StepOnly
  BY DEF FetchDetails, NoDetails, FindStalls, StallsDone, SoloDrain
<1>2. launches' = launches
  BY DEF FetchDetails, NoDetails, FindStalls, StallsDone, SoloDrain, Continue, EnterDrain
<1>. QED  BY <1>1, <1>2, OwnControl DEF StepOnly

LEMMA OwnDropped ==
    ASSUME IInv, OwnersOK,
           PreparationFails \/ \E i \in IssueIds : ParkedLeaseFails(i)
    PROVE  OwnersOK'
BY OwnControl DEF PreparationFails, ParkedLeaseFails, Reconciles

LEMMA OwnFlushRetries ==
    ASSUME IInv, OwnersOK, FlushRetries
    PROVE  OwnersOK'
<1>1. pc # "launch" /\ UNCHANGED <<remote, given, inbox, executions, pendingFinished>>
  BY DEF FlushRetries
<1>2. launches' = launches
  BY DEF FlushRetries, Stay, tick, locals, Continue
<1>. QED  BY <1>1, <1>2, OwnFrame

LEMMA OwnFlushExhaustion ==
    ASSUME IInv, OwnersOK, FlushExhaustion
    PROVE  OwnersOK'
<1>1. /\ pc = "exhaustion" /\ pendingFinished' = pendingFinished
      /\ remote' = remote /\ given' = given /\ inbox' = inbox
  BY DEF FlushExhaustion, world
<1>2. EndTick \/ launches' = launches
  BY DEF FlushExhaustion, Continue
<1>3. OnlyStops(remote') /\ \A j \in IssueIds : launches'[j] # None => launches'[j] = launches[j]
  BY <1>1, <1>2, EndTickDrops DEF OnlyStops
<1>4. \A j \in IssueIds :
         \/ executions'[j] = executions[j]
         \/ /\ executions[j] # None /\ executions[j].status = "Released"
            /\ executions'[j] = ClearWorkspace(executions[j])
  BY DEF FlushExhaustion, Known, RetryExhausted
<1>5. ASSUME NEW j \in IssueIds, executions[j] # None, executions[j].status = "Released",
             executions'[j] = ClearWorkspace(executions[j])
      PROVE  Carried(executions[j], executions'[j], remote')
  <2>1. WellFormed(executions[j])
    BY <1>5, InIssues
  <2>2. /\ WellFormed(executions'[j]) /\ SamePhase(executions'[j], executions[j])
        /\ executions'[j].last = executions[j].last
    BY <1>5, <2>1, ClearWorkspaceResult
  <2>3. Confirmed(executions'[j], remote')
    BY <1>5, <2>2 DEF Confirmed, SamePhase, IsLive
  <2>. QED  BY <2>2, <2>3, CarriedSame
<1>. QED  BY <1>1, <1>3, <1>4, <1>5, OwnStep

LEMMA OwnDoClaim ==
    ASSUME IInv, OwnersOK, NEW i \in IssueIds, DoClaim(i)
    PROVE  OwnersOK'
<1> DEFINE e == OpenedFor(i)
           ready == ReadyFor(i)
           run == RunFor(i)
           c == LaunchFor(i)
           rc == IF e.status # "Released" /\ executions[i] # None
                 THEN receipts \ {i} ELSE receipts
<1>1. /\ pc = "dispatch" /\ pc' = pc /\ i \in Candidates /\ ordinal + 1 \in Workers
      /\ remote' = remote /\ given' = given /\ inbox' = inbox
      /\ pendingFinished' = pendingFinished
      /\ ShouldDispatch(Reopened(i)) /\ ClaimOk(ready, run)
      /\ launches' = [launches EXCEPT ![i] = c] /\ Put(i, None, rc)
  BY DEF DoClaim, world, pendings, OpenedFor, ReadyFor, RunFor, LaunchFor
<1>2. snap[i] \in StateNames
  BY <1>1, Dispatching
<1>3. c.run.issue = i /\ (executions[i] # None => executions[i].status # "Running")
  BY <1>1, <1>2, ClaimedResult
<1> HIDE DEF e, ready, run, c, rc
<1>4. /\ executions'[i] = None
      /\ \A j \in IssueIds : j # i => executions'[j] = executions[j]
  BY <1>1, PutMap
<1>5. executions[i] # None /\ executions[i].status = "Released"
      => executions[i].last = None \/ ~GaveUp(executions[i].last)
  BY <1>1 DEF ShouldDispatch, Reopened, PreventsReopen, GaveUp
<1>6. LaunchesOK /\ MapsOK /\ WorldOK /\ KeptOK
  BY DEF IInv
<1>7. Owned'
  <2> SUFFICES ASSUME NEW w \in Workers, remote[w] \in Going
               PROVE  given[w] # None /\ Holds(executions'[given[w].issue], w)
    BY <1>1 DEF Owned
  <2>1. given[w] # None /\ Holds(executions[given[w].issue], w)
    BY <1>1 DEF OwnersOK, Owned, Launching
  <2>2. given[w].issue \in IssueIds
    BY <1>6, <2>1 DEF WorldOK, RunAttempts
  <2>3. ~Holds(executions[i], w)
    BY <1>3, <1>5 DEF Holds
  <2>. QED  BY <1>4, <2>1, <2>2, <2>3
<1>8. \A j \in IssueIds : executions'[j] # None => Confirmed(executions'[j], remote')
  BY <1>1, <1>4 DEF OwnersOK
<1>9. \A j \in IssueIds : launches'[j] # None => launches'[j].run.issue = j
  BY <1>1, <1>3, <1>6 DEF OwnersOK, LaunchesOK
<1>. QED  BY <1>1, <1>7, <1>8, <1>9 DEF OwnersOK

LEMMA OwnStartWorkers ==
    ASSUME IInv, OwnersOK, NothingLost, StartWorkers
    PROVE  OwnersOK'
<1>1. /\ pc = "dispatch" /\ pc' = "launch" /\ inbox' = inbox /\ launches' = launches
      /\ executions' = executions /\ pendingFinished' = pendingFinished
  BY DEF StartWorkers, Go, pendings
<1>2. PICK some, new :
        /\ some \subseteq Claims /\ (LaunchesSucceed => some = Claims)
        /\ \A i \in some : launches[i].run.worker \in new
        /\ \A w \in new : \E i \in Claims : launches[i].run.worker = w
        /\ started' = some
        /\ remote' = [w \in Workers |-> IF w \in new THEN "running" ELSE remote[w]]
        /\ \A w \in Workers \ new : given'[w] = given[w]
        /\ given' \in [Workers -> RunAttempts \cup {None}]
        /\ \A w \in new : given'[w] # None /\ given'[w].worker = w
        /\ \A w \in new : \E i \in Claims : given'[w] = launches[i].run
        /\ task' \subseteq task \cup new
  BY StartedResult
<1>3. started' = Claims
  BY <1>2 DEF NothingLost
<1>4. /\ MapsOK /\ WorldOK /\ RunsOK /\ LaunchesOK
      /\ \A j \in IssueIds : pendingFinished[j] = None
  BY <1>1, Between DEF IInv, NothingLost
<1>5. \A w \in new : remote[w] = "none"
  BY <1>1, <1>2, <1>4 DEF RunsOK, Claims
<1>6. \A w \in Workers : remote[w] # "none" => remote'[w] = remote[w]
  BY <1>2, <1>5
<1>7. Owned'
  <2> SUFFICES ASSUME NEW w \in Workers, remote'[w] \in Going
               PROVE  /\ given'[w] # None
                      /\ Launching(w)' \/ Holds(executions'[given'[w].issue], w)
    BY DEF Owned
  <2>1. CASE w \in new
    <3>1. PICK i \in Claims : given'[w] = launches[i].run
      BY <1>2, <2>1
    <3>2. i \in IssueIds /\ launches[i] # None /\ launches[i].run.issue = i
      BY DEF Claims, OwnersOK
    <3>3. given'[w] # None /\ given'[w].worker = w
      BY <1>2, <2>1
    <3>. QED  BY <1>1, <1>3, <3>1, <3>2, <3>3 DEF Launching
  <2>2. CASE w \notin new
    <3>1. given'[w] = given[w] /\ remote'[w] = remote[w]
      BY <1>2, <2>2
    <3>. QED  BY <1>1, <3>1 DEF OwnersOK, Owned, Launching
  <2>. QED  BY <2>1, <2>2
<1>8. ASSUME NEW j \in IssueIds, executions[j] # None
      PROVE  Confirmed(executions[j], remote')
  <2>1. /\ Confirmed(executions[j], remote) /\ WellFormed(executions[j])
        /\ IsLive(executions[j]) => remote[executions[j].run.worker] # "none"
    BY <1>4, <1>8 DEF OwnersOK, MapsOK, Recorded, RunsOK, Backed
  <2>. QED  BY <1>6, <2>1, LiveWorker DEF Confirmed
<1>9. \A k \in 1..Len(inbox) : remote'[inbox[k].worker] = "detached" => GaveUp(inbox[k])
  <2>1. \A k \in 1..Len(inbox) : inbox[k] \in OutcomeRecords
    BY <1>4 DEF WorldOK
  <2>2. \A k \in 1..Len(inbox) : inbox[k].worker \in Workers
    BY <2>1 DEF OutcomeRecords
  <2>. QED  BY <1>4, <1>6, <2>2 DEF WorldOK, OwnersOK
<1>10. \A j \in IssueIds : launches'[j] # None => launches'[j].run.issue = j
  BY <1>1 DEF OwnersOK
<1>. QED  BY <1>1, <1>4, <1>7, <1>8, <1>9, <1>10 DEF OwnersOK

LEMMA OwnLaunchStarted ==
    ASSUME IInv, OwnersOK, NEW i \in IssueIds, LaunchStarted(i)
    PROVE  OwnersOK'
<1> DEFINE c == launches[i]
           e == StartRunning(c, 0, 0, Conversation)
           x == RecordTurnStarted(e, 0)
<1>1. /\ pc = "launch" /\ pc' = pc /\ c # None /\ i \in started /\ started' = started
      /\ Put(i, x, receipts \ {i})
      /\ launches' = [launches EXCEPT ![i] = None]
      /\ remote' = remote /\ given' = given /\ inbox' = inbox
      /\ pendingFinished' = pendingFinished
  BY DEF LaunchStarted, Claims, world, pendings
<1>2. /\ WellFormed(c) /\ c.status = "Claimed" /\ executions[i] = None
      /\ c.interrupt = None
  BY <1>1 DEF IInv, LaunchesOK, ClaimOf
<1>3. Conversation \in Conversations
  BY InputAssumption DEF Conversation
<1>4. /\ WellFormed(e) /\ e.status = "Running" /\ e.run = c.run /\ e.interrupt = None
  BY <1>2, <1>3, StartRunningResult DEF IsLive
<1> HIDE DEF e
<1>5. /\ WellFormed(x) /\ x.status = "Running" /\ x.run.worker = c.run.worker
      /\ x.interrupt = None
  BY <1>4, RecordTurnStartedResult
<1> HIDE DEF x
<1>6. /\ executions'[i] = x /\ x # None
      /\ \A j \in IssueIds : j # i => executions'[j] = executions[j]
  BY <1>1, <1>5, PutMap, InputAssumption DEF WellFormed
<1>7. launches'[i] = None /\ \A j \in IssueIds : j # i => launches'[j] = launches[j]
  BY <1>1 DEF IInv, LaunchesOK
<1>8. Owned'
  <2> SUFFICES ASSUME NEW w \in Workers, remote[w] \in Going
               PROVE  /\ given[w] # None
                      /\ Launching(w)' \/ Holds(executions'[given[w].issue], w)
    BY <1>1 DEF Owned
  <2>1. given[w] # None /\ (Launching(w) \/ Holds(executions[given[w].issue], w))
    BY DEF OwnersOK, Owned
  <2>2. given[w].issue \in IssueIds
    BY <2>1 DEF IInv, WorldOK, RunAttempts
  <2>3. CASE given[w].issue = i
    <3>1. Launching(w)
      BY <1>2, <2>1, <2>3 DEF Holds
    <3>. QED  BY <1>5, <1>6, <2>1, <2>3, <3>1 DEF Launching, Holds
  <2>4. CASE given[w].issue # i
    BY <1>1, <1>6, <1>7, <2>1, <2>2, <2>4 DEF Launching
  <2>. QED  BY <2>3, <2>4
<1>9. \A j \in IssueIds : executions'[j] # None => Confirmed(executions'[j], remote')
  BY <1>1, <1>5, <1>6 DEF OwnersOK, Confirmed, Acknowledged
<1>10. \A j \in IssueIds : launches'[j] # None => launches'[j].run.issue = j
  BY <1>7 DEF OwnersOK
<1>. QED  BY <1>1, <1>8, <1>9, <1>10 DEF OwnersOK

\* Every launch succeeds.
LEMMA OwnLaunchFailed ==
    ASSUME IInv, NothingLost, NEW i \in IssueIds, LaunchFailed(i)
    PROVE  FALSE
BY DEF IInv, SlotsOK, NothingLost, LaunchFailed, Claims

\* The tracker moves, or nothing happens.
LEMMA OwnSame ==
    ASSUME OwnersOK, UNCHANGED <<remote, given, inbox>>, Outside
    PROVE  OwnersOK'
<1>1. UNCHANGED <<pc, started, launches, executions, pendingFinished>>
  BY DEF Outside, tick, locals, pendings
<1>. QED  BY <1>1 DEF OwnersOK, Owned, Launching

\* A worker's outcome says that it gave its run up whenever the run goes on.
LEMMA OwnWorkerFinishes ==
    ASSUME IInv, OwnersOK, NEW w \in Workers, WorkerFinishes(w)
    PROVE  OwnersOK'
<1>1. PICK kind \in Finishes :
        /\ inbox' = Append(inbox, OutcomeFromRun(given[w], kind))
        /\ \E left \in (IF remote[w] = "running" THEN LeftBehind(kind)
                        ELSE {"stopped"}) :
              remote' = [remote EXCEPT ![w] = left]
  BY DEF WorkerFinishes
<1>2. /\ w \in task /\ given' = given
      /\ UNCHANGED <<pc, started, launches, executions, pendingFinished>>
  BY DEF WorkerFinishes, Outside, tick, locals, pendings
<1>3. WorldOK /\ MapsOK /\ KeptOK
  BY DEF IInv
<1> DEFINE o == OutcomeFromRun(given[w], kind)
<1>4. given[w] \in RunAttempts /\ given[w].worker = w
  BY <1>2, <1>3 DEF WorldOK
<1>5. o \in OutcomeRecords /\ o.worker = w /\ o.outcome = kind
  BY <1>4, OutcomeFromRunResult, SchedulerAssumption
<1>6. /\ remote'[w] \in {"detached", "unstopped", "stopped"}
      /\ remote'[w] = "detached" => remote[w] = "running" /\ GaveUp(o)
      /\ \A v \in Workers : v # w => remote'[v] = remote[v]
  <2>1. PICK left \in {"detached", "unstopped", "stopped"} :
          /\ remote' = [remote EXCEPT ![w] = left]
          /\ left = "detached" =>
                remote[w] = "running" /\ kind \in {"Detached", "CancelFailed"}
    BY <1>1 DEF LeftBehind
  <2>. QED  BY <1>3, <1>5, <2>1 DEF WorldOK, GaveUp
<1> HIDE DEF o
<1>7. /\ Len(inbox') = Len(inbox) + 1 /\ Len(inbox) \in Nat
      /\ inbox'[Len(inbox) + 1] = o
      /\ \A k \in 1..Len(inbox) : inbox'[k] = inbox[k]
  BY <1>1, <1>3, <1>5 DEF WorldOK, o
<1>8. \A v \in Workers : remote'[v] \in Going => remote[v] \in Going
  BY <1>6 DEF Going
<1>9. Owned'
  BY <1>2, <1>8 DEF OwnersOK, Owned, Launching
<1>10. ASSUME NEW e, WellFormed(e), Confirmed(e, remote)
       PROVE  Confirmed(e, remote')
  BY <1>8, <1>10, LiveWorker DEF Confirmed
<1>11. \A j \in IssueIds : executions'[j] # None => Confirmed(executions'[j], remote')
  BY <1>2, <1>3, <1>10 DEF OwnersOK, MapsOK, Recorded
<1>12. ASSUME NEW j \in IssueIds, pendingFinished[j] # None
       PROVE  Reported(pendingFinished[j], remote')
  <2> DEFINE p == pendingFinished[j]
  <2>1. /\ p \in [exec : Executions, outcome : OutcomeRecords]
        /\ WellFormed(p.exec) /\ Reported(p, remote)
    BY <1>3, <1>12 DEF KeptOK, Recorded, OwnersOK
  <2>2. p.outcome.worker \in Workers
    BY <2>1 DEF OutcomeRecords
  <2> HIDE DEF p
  <2>3. Confirmed(p.exec, remote')
    BY <1>10, <2>1 DEF Reported
  <2>4. /\ remote'[p.outcome.worker] # "running"
        /\ remote'[p.outcome.worker] = "detached" => GaveUp(p.outcome)
    BY <1>6, <2>1, <2>2 DEF Reported
  <2>5. Reported(p, remote')
    BY <2>1, <2>3, <2>4 DEF Reported
  <2>. QED  BY <2>5 DEF p
<1>13. ASSUME NEW k \in 1..Len(inbox'), remote'[inbox'[k].worker] = "detached"
       PROVE  GaveUp(inbox'[k])
  <2>1. CASE k = Len(inbox) + 1
    BY <1>5, <1>6, <1>7, <1>13, <2>1
  <2>2. CASE k # Len(inbox) + 1
    <3>1. k \in 1..Len(inbox) /\ inbox'[k] = inbox[k]
      BY <1>7, <2>2
    <3>2. inbox[k] \in OutcomeRecords /\ remote[inbox[k].worker] # "running"
      BY <1>3, <3>1 DEF WorldOK
    <3>3. inbox[k].worker \in Workers
      BY <3>2 DEF OutcomeRecords
    <3>4. remote[inbox[k].worker] = "detached"
      BY <1>6, <1>13, <3>1, <3>2, <3>3
    <3>. QED  BY <3>1, <3>4 DEF OwnersOK
  <2>. QED  BY <2>1, <2>2
<1>. QED  BY <1>2, <1>9, <1>11, <1>12, <1>13 DEF OwnersOK

LEMMA OwnUnwatchedEnds ==
    ASSUME IInv, OwnersOK, NEW w \in Workers, UnwatchedEnds(w)
    PROVE  OwnersOK'
<1>1. /\ remote' = [remote EXCEPT ![w] = "stopped"]
      /\ given' = given /\ inbox' = inbox
      /\ UNCHANGED <<pc, started, launches, executions, pendingFinished>>
  BY DEF UnwatchedEnds, Outside, tick, locals, pendings
<1>2. WorldOK /\ MapsOK /\ KeptOK
  BY DEF IInv
<1>3. OnlyStops(remote')
  BY <1>1, <1>2 DEF OnlyStops, WorldOK, Going
<1>4. Owned'
  BY <1>1, <1>3 DEF OwnersOK, Owned, Launching, OnlyStops
<1>5. \A j \in IssueIds : executions'[j] # None => Confirmed(executions'[j], remote')
  BY <1>1, <1>2, <1>3, ConfirmedStops DEF OwnersOK, MapsOK, Recorded
<1>6. \A j \in IssueIds :
         pendingFinished'[j] # None => Reported(pendingFinished'[j], remote')
  BY <1>1, <1>2, <1>3, ReportedStops DEF OwnersOK, KeptOK, Recorded
<1>7. ASSUME NEW k \in 1..Len(inbox), remote'[inbox[k].worker] = "detached"
      PROVE  GaveUp(inbox[k])
  <2>1. inbox[k] \in OutcomeRecords
    BY <1>2 DEF WorldOK
  <2>2. inbox[k].worker \in Workers
    BY <2>1 DEF OutcomeRecords
  <2>. QED  BY <1>3, <1>7, <2>2 DEF OwnersOK, OnlyStops, Going
<1>. QED  BY <1>1, <1>4, <1>5, <1>6, <1>7 DEF OwnersOK

LEMMA TickStepKeepsOwners ==
    ASSUME NothingLost, IInv, OwnersOK, TickStep
    PROVE  OwnersOK'
<1>1. CASE FlushRetries \/ FlushExhaustion
  BY <1>1, OwnFlushRetries, OwnFlushExhaustion
<1>2. CASE LoadSnapshot \/ RefreshRunning \/ SnapshotFails \/ NoRefresh
  BY <1>2, OwnLook
<1>3. CASE \E i \in IssueIds : Flush(i)
  BY <1>3, OwnFlush
<1>4. CASE DrainUpdate
  BY <1>4, OwnDrainUpdate
<1>5. CASE \E i \in IssueIds :
             ReconcileActive(i) \/ ReconcileRelease(i) \/ ReconcileParked(i)
  BY <1>5, OwnReconcileActive, OwnReconcileRelease, OwnReconcileParked
<1>6. CASE FlushDone \/ DrainDone \/ ReconcileDone \/ DispatchDone
  BY <1>6, OwnPhaseDone
<1>7. CASE RefreshTerminal \/ NoTerminalRefresh \/ Discover \/ NoDiscovery \/ LateFails
  BY <1>7, OwnLate
<1>8. CASE FetchDetails \/ NoDetails \/ FindStalls \/ StallsDone
  BY <1>8, OwnDispatchControl
<1>9. CASE \E i \in IssueIds : DoClaim(i) \/ DoSkip(i)
  BY <1>9, OwnDoClaim, OwnDoSkip
<1>10. CASE PreparationFails \/ \E i \in IssueIds : ParkedLeaseFails(i)
  BY <1>10, OwnDropped
<1>11. CASE StartWorkers
  BY <1>11, OwnStartWorkers
<1>12. CASE \E i \in IssueIds : LaunchStarted(i) \/ LaunchFailed(i)
  BY <1>12, OwnLaunchStarted, OwnLaunchFailed
<1>13. CASE \E i \in IssueIds : StopStalled(i) \/ HandleStalled(i)
  BY <1>13, OwnStopStalled, OwnHandleStalled
<1>. QED  BY <1>1, <1>2, <1>3, <1>4, <1>5, <1>6, <1>7, <1>8, <1>9, <1>10, <1>11,
             <1>12, <1>13 DEF TickStep

LEMMA NextKeepsOwners ==
    ASSUME NothingLost, IInv, OwnersOK, [Next]_vars
    PROVE  OwnersOK'
<1>1. CASE \E i \in IssueIds : TrackerMove(i)
  BY <1>1, OwnSame DEF TrackerMove
<1>2. CASE \E w \in Workers : WorkerFinishes(w) \/ UnwatchedEnds(w)
  BY <1>2, OwnWorkerFinishes, OwnUnwatchedEnds
<1>3. CASE \E i \in IssueIds : OperatorCancel(i)
  BY <1>3, OwnOperatorCancel
<1>4. CASE SoloDrain
  BY <1>4, OwnDispatchControl
<1>5. CASE TickStep
  BY <1>5, TickStepKeepsOwners
<1>6. CASE UNCHANGED vars
  BY <1>6, OwnSame DEF vars, world, Outside
<1>. QED  BY <1>1, <1>2, <1>3, <1>4, <1>5, <1>6 DEF Next, World

LEMMA InitOwners ==
    ASSUME Init
    PROVE  OwnersOK
<1>1. /\ \A w \in Workers : remote[w] = "none"
      /\ \A j \in IssueIds : /\ executions[j] = None /\ pendingFinished[j] = None
                             /\ launches[j] = None
      /\ Len(inbox) = 0
  BY DEF Init, NoLaunches
<1>2. Owned
  BY <1>1 DEF Owned, Going
<1>. QED  BY <1>1, <1>2 DEF OwnersOK

LEMMA OverlapFromOwners ==
    ASSUME IInv, OwnersOK
    PROVE  OverlapWasReported
<1> SUFFICES ASSUME NEW v \in Workers, NEW w \in Workers, v # w,
                    remote[v] \in Going, remote[w] \in Going,
                    given[v].issue = given[w].issue
             PROVE  FALSE
  BY DEF OverlapWasReported, Alive, Going
<1> DEFINE i == given[v].issue
<1>1. /\ given[v] # None /\ (Launching(v) \/ Holds(executions[i], v))
      /\ given[w] # None /\ (Launching(w) \/ Holds(executions[i], w))
  BY DEF OwnersOK, Owned
<1>2. i \in IssueIds
  BY <1>1 DEF IInv, WorldOK, RunAttempts
<1>3. launches[i] # None => executions[i] = None
  BY <1>2 DEF IInv, LaunchesOK
<1>4. CASE executions[i] = None
  BY <1>1, <1>4 DEF Launching, Holds
<1>5. CASE executions[i] # None
  BY <1>1, <1>3, <1>5 DEF Launching, Holds
<1>. QED  BY <1>4, <1>5

\* A second harness run goes on beside one of its issue only after a worker has
\* reported a run as Failed, Stalled and the like while it went on; a run that is
\* watched and one that was given up on never get a second.  This holds as long as
\* launches succeed, no stop is cut short and the lease check loses no record: a
\* launch that timed out may have left a run nobody knows, an execution dropped by
\* `?` no longer keeps its issue from being claimed.
THEOREM OverlapsWereReported ==
    ASSUME NothingLost
    PROVE  Spec => []OverlapWasReported
<1>1. Init => IInv /\ OwnersOK
  BY InitIInv, InitOwners
<1>2. IInv /\ OwnersOK /\ [Next]_vars => (IInv /\ OwnersOK)'
  BY NextKeepsIInv, NextKeepsOwners
<1>3. IInv /\ OwnersOK => OverlapWasReported
  BY OverlapFromOwners
<1>. QED  BY <1>1, <1>2, <1>3, PTL DEF Spec
=============================================================================
