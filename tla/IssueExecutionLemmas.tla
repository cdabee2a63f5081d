------------------------ MODULE IssueExecutionLemmas ------------------------
(***************************************************************************)
(* What the operations of IssueExecution return, for the proofs about the  *)
(* modules built from them.  Each lemma takes the record an operation is   *)
(* called with and says of the one it returns that it is well formed, and  *)
(* which of its fields are new.                                            *)
(***************************************************************************)
EXTENDS IssueExecution, TLAPS

-----------------------------------------------------------------------------
(* Histories, outcomes and changes of scheduler state. *)

\* PushRecent returns a non-empty history of at most RecentMax outcomes that
\* ends with the new one (record_outcome's VecDeque).
LEMMA PushRecentResult ==
    ASSUME NEW recent \in Seq(OutcomeRecords), NEW o \in OutcomeRecords,
           Len(recent) <= RecentMax
    PROVE  /\ PushRecent(recent, o) \in Seq(OutcomeRecords)
           /\ PushRecent(recent, o) # <<>>
           /\ Len(PushRecent(recent, o)) <= RecentMax
           /\ PushRecent(recent, o)[Len(PushRecent(recent, o))] = o
<1> DEFINE kept == IF Len(recent) = RecentMax THEN Tail(recent) ELSE recent
<1>1. kept \in Seq(OutcomeRecords) /\ Len(kept) < RecentMax
  BY WidthAssumption
<1> HIDE DEF kept
<1>2. Append(kept, o) \in Seq(OutcomeRecords) /\ Append(kept, o) # <<>>
      /\ Len(Append(kept, o)) = Len(kept) + 1
      /\ Append(kept, o)[Len(kept) + 1] = o
  BY <1>1
<1>3. Len(kept) \in Nat /\ RecentMax \in Nat
  BY <1>1, WidthAssumption
<1>. QED  BY <1>1, <1>2, <1>3 DEF PushRecent, kept

\* Replacing the fields an outcome touches keeps the record well typed.
LEMMA OutcomeFieldsType ==
    ASSUME NEW e \in Executions, NEW i \in InterruptStates \cup {None},
           NEW o \in OutcomeRecords, NEW r \in Seq(OutcomeRecords)
    PROVE  [e EXCEPT !.interrupt = i, !.last = o, !.recent = r] \in Executions
BY DEF Executions

\* record_outcome keeps the record well typed and its history bounded, with the
\* last outcome at its end, and touches nothing but the interrupt beside it.
LEMMA RecordOutcomeResult ==
    ASSUME NEW e \in Executions, NEW o \in OutcomeRecords,
           Len(e.recent) <= RecentMax
    PROVE  LET f == RecordOutcome(e, o) IN
           /\ f \in Executions
           /\ f.last = o
           /\ f.recent # <<>> /\ Len(f.recent) <= RecentMax
           /\ f.recent[Len(f.recent)] = o
           /\ f.interrupt = None <=> e.interrupt = None
           /\ f.issue = e.issue /\ f.workspace = e.workspace
           /\ f.status = e.status /\ f.run = e.run /\ f.stall = e.stall
           /\ f.retry = e.retry /\ f.reason = e.reason
<1> DEFINE i == IF /\ o.outcome = "CancelFailed"
                   /\ e.interrupt # None
                   /\ e.interrupt.status = "Requested"
                THEN [e.interrupt EXCEPT !.status = "Failed"]
                ELSE e.interrupt
           r == PushRecent(e.recent, o)
           f == [e EXCEPT !.interrupt = i, !.last = o, !.recent = r]
<1>1. i \in InterruptStates \cup {None} /\ (i = None <=> e.interrupt = None)
  BY NoneAssumption DEF Executions, InterruptStates, InterruptStatuses
<1>2. e.recent \in Seq(OutcomeRecords)
  BY DEF Executions
<1>3. /\ r \in Seq(OutcomeRecords) /\ r # <<>>
      /\ Len(r) <= RecentMax /\ r[Len(r)] = o
  BY <1>2, PushRecentResult, Zenon
<1>4. RecordOutcome(e, o) = f
  BY Zenon DEF RecordOutcome
<1> HIDE DEF i, r
<1>5. f \in Executions
  BY <1>1, <1>3, OutcomeFieldsType, Zenon
<1>6. /\ f.last = o /\ f.recent = r /\ f.interrupt = i
      /\ f.issue = e.issue /\ f.workspace = e.workspace
      /\ f.status = e.status /\ f.run = e.run /\ f.stall = e.stall
      /\ f.retry = e.retry /\ f.reason = e.reason
  BY DEF Executions
<1>. QED  BY <1>1, <1>3, <1>4, <1>5, <1>6, Zenon

\* The fields with_state sets, in two parts.
LEMMA StatusFieldsType ==
    ASSUME NEW e \in Executions, NEW s \in Statuses, NEW run \in RunAttempts \cup {None}
    PROVE  [e EXCEPT !.status = s, !.run = run] \in Executions
BY DEF Executions

LEMMA PayloadFieldsType ==
    ASSUME NEW e \in Executions, NEW stall \in StallMetadata \cup {None},
           NEW retry \in RetryEntries \cup {None}, NEW reason \in ReleaseReasons \cup {None}
    PROVE  [e EXCEPT !.stall = stall, !.retry = retry, !.reason = reason] \in Executions
<1> DEFINE g == [e EXCEPT !.stall = stall]
           h == [g EXCEPT !.retry = retry]
<1>1. g \in Executions
  BY DEF Executions
<1>2. [e EXCEPT !.stall = stall, !.retry = retry, !.reason = reason] = [h EXCEPT !.reason = reason]
  OBVIOUS
<1> HIDE DEF g
<1>3. h \in Executions
  BY <1>1 DEF Executions
<1> HIDE DEF h
<1>4. [h EXCEPT !.reason = reason] \in Executions
  BY <1>3 DEF Executions
<1>. QED  BY <1>2, <1>4

\* A change of scheduler state gives exactly the payload it is called with.
LEMMA WithStateResult ==
    ASSUME NEW e, NEW s, NEW run, NEW stall, NEW retry, NEW reason,
           e \in Executions, s \in Statuses,
           run \in RunAttempts \cup {None},
           stall \in StallMetadata \cup {None},
           retry \in RetryEntries \cup {None},
           reason \in ReleaseReasons \cup {None}
    PROVE  LET f == WithState(e, s, run, stall, retry, reason) IN
           /\ f \in Executions
           /\ f.status = s /\ f.run = run /\ f.stall = stall
           /\ f.retry = retry /\ f.reason = reason
           /\ f.issue = e.issue /\ f.workspace = e.workspace
           /\ f.conversation = e.conversation /\ f.interrupt = e.interrupt
           /\ f.last = e.last /\ f.recent = e.recent
<1> DEFINE f == [e EXCEPT !.status = s, !.run = run, !.stall = stall,
                          !.retry = retry, !.reason = reason]
<1>1. WithState(e, s, run, stall, retry, reason) = f
  BY DEF WithState
<1> DEFINE g == [e EXCEPT !.status = s, !.run = run]
<1>2. g \in Executions
  BY StatusFieldsType
<1>3. f = [g EXCEPT !.stall = stall, !.retry = retry, !.reason = reason]
  OBVIOUS
<1>4. f \in Executions
  <2> HIDE DEF f, g
  <2>. QED  BY <1>2, <1>3, PayloadFieldsType
<1>5. /\ f.status = s /\ f.run = run /\ f.stall = stall
      /\ f.retry = retry /\ f.reason = reason
      /\ f.issue = e.issue /\ f.workspace = e.workspace
      /\ f.conversation = e.conversation /\ f.interrupt = e.interrupt
      /\ f.last = e.last /\ f.recent = e.recent
  BY DEF Executions
<1> HIDE DEF f
<1>. QED  BY <1>1, <1>4, <1>5

\* A retry entry is well typed when the attempt after the run's exists, and its
\* count is its attempt when that holds of the run.
LEMMA RetryEntryResult ==
    ASSUME NEW e \in Executions, e.run \in RunAttempts, AfterOk(e.run.attempt),
           NEW reason \in RetryReasons, NEW at \in Times, NEW delay \in Times
    PROVE  LET r == RetryEntry(e, reason, at, delay) IN
           /\ r \in RetryEntries
           /\ r.attempt = e.run.attempt + 1
           /\ r.reason = reason /\ r.scheduledAt = at
           /\ r.dueAt = SatAdd(at, delay, TimeMax)
           /\ e.run.normalRetryCount = e.run.attempt
              => r.normalRetryCount = r.attempt
<1>1. /\ e.run.attempt \in Nat /\ e.run.attempt < U32Max
      /\ e.run.normalRetryCount \in U32
  BY DEF RunAttempts, U32, AfterOk
<1>2. After(e.run.attempt) \in RetryAttempts
  BY <1>1, WidthAssumption DEF After, RetryAttempts
<1>3. SatAdd(e.run.normalRetryCount, 1, U32Max) \in U32
  BY <1>1, WidthAssumption DEF SatAdd, U32
<1>4. SatAdd(at, delay, TimeMax) \in Times
  BY WidthAssumption DEF SatAdd, Times
<1>5. e.run.normalRetryCount = e.run.attempt
      => SatAdd(e.run.normalRetryCount, 1, U32Max) = After(e.run.attempt)
  BY <1>1, WidthAssumption DEF SatAdd, After
<1>6. e.issue.id \in IssueIds
  BY DEF Executions, Issues
<1>. QED
  BY <1>2, <1>3, <1>4, <1>5, <1>6 DEF RetryEntry, RetryEntries, After
-----------------------------------------------------------------------------
(* Well-formed records.  The Rust enum carries the payload of each state;   *)
(* beside it, a run has the workspace it was claimed with, a running one    *)
(* the conversation of its harness, and the history keeps its bound.        *)

WellFormed(e) ==
    /\ e \in Executions
    /\ IsLive(e) => e.run # None /\ e.workspace # None
    /\ e.status = "Running" => e.stall # None /\ e.conversation # None
    /\ e.status = "RetryQueued" => e.retry # None /\ e.workspace # None
    /\ Len(e.recent) <= RecentMax

\* The scheduler state, with its payload, is that of the other record.
SamePhase(f, e) ==
    /\ f.status = e.status /\ f.run = e.run /\ f.stall = e.stall
    /\ f.retry = e.retry /\ f.reason = e.reason

\* A well-formed record stays so when neither its scheduler state nor its
\* workspace and history are touched.
LEMMA SamePhaseWellFormed ==
    ASSUME NEW e, WellFormed(e), NEW f \in Executions, SamePhase(f, e),
           e.workspace # None => f.workspace # None,
           e.conversation # None => f.conversation # None,
           Len(f.recent) <= RecentMax
    PROVE  WellFormed(f)
BY DEF WellFormed, SamePhase, IsLive

\* IssueExecution::new
LEMMA NewExecutionResult ==
    ASSUME NEW issue \in Issues, NEW f, f = NewExecution(issue)
    PROVE  /\ WellFormed(f) /\ f.issue = issue /\ f.status = "Unclaimed"
           /\ f.interrupt = None /\ f.workspace = None /\ f.retry = None
<1>1. <<>> \in Seq(OutcomeRecords) /\ Len(<<>>) = 0 /\ RecentMax \in Nat
  BY WidthAssumption
<1>2. f \in Executions
  BY <1>1 DEF NewExecution, Executions, Statuses
<1>3. /\ f.issue = issue /\ f.status = "Unclaimed" /\ f.recent = <<>>
      /\ f.interrupt = None /\ f.workspace = None /\ f.retry = None
  BY DEF NewExecution
<1>. QED  BY <1>1, <1>2, <1>3 DEF WellFormed, IsLive

\* refresh_issue changes the issue alone.
LEMMA RefreshIssueResult ==
    ASSUME NEW e, WellFormed(e), NEW issue \in Issues,
           NEW f, f = RefreshIssue(e, issue)
    PROVE  /\ WellFormed(f) /\ f.issue = issue /\ SamePhase(f, e)
           /\ f.workspace = e.workspace /\ f.interrupt = e.interrupt
           /\ f.conversation = e.conversation /\ f.last = e.last
<1>1. e \in Executions /\ Len(e.recent) <= RecentMax
  BY DEF WellFormed
<1>2. f \in Executions
  BY <1>1 DEF RefreshIssue, Executions
<1>3. /\ f.issue = issue /\ SamePhase(f, e) /\ f.workspace = e.workspace
      /\ f.interrupt = e.interrupt /\ f.recent = e.recent
      /\ f.conversation = e.conversation /\ f.last = e.last
  BY <1>1 DEF RefreshIssue, Executions, SamePhase
<1>. QED  BY <1>1, <1>2, <1>3, SamePhaseWellFormed

\* clear_workspace, of an issue nobody works on.
LEMMA ClearWorkspaceResult ==
    ASSUME NEW e, WellFormed(e), e.status \in {"Unclaimed", "Released"},
           NEW f, f = ClearWorkspace(e)
    PROVE  /\ WellFormed(f) /\ f.issue = e.issue /\ SamePhase(f, e)
           /\ f.interrupt = e.interrupt /\ f.last = e.last
<1>1. e \in Executions /\ Len(e.recent) <= RecentMax
  BY DEF WellFormed
<1>2. f \in Executions
  BY <1>1 DEF ClearWorkspace, Executions
<1>3. /\ f.issue = e.issue /\ SamePhase(f, e) /\ f.recent = e.recent
      /\ f.interrupt = e.interrupt /\ f.last = e.last
  BY <1>1 DEF ClearWorkspace, Executions, SamePhase
<1>. QED  BY <1>1, <1>2, <1>3 DEF WellFormed, SamePhase, IsLive

\* attach_workspace
LEMMA AttachWorkspaceResult ==
    ASSUME NEW e, WellFormed(e), NEW ws \in WorkspaceRecords,
           NEW f, f = AttachWorkspace(e, ws)
    PROVE  /\ WellFormed(f) /\ f.issue = e.issue /\ SamePhase(f, e)
           /\ f.workspace = ws /\ f.interrupt = e.interrupt /\ f.last = e.last
<1>1. e \in Executions /\ Len(e.recent) <= RecentMax
  BY DEF WellFormed
<1>2. f \in Executions
  BY <1>1 DEF AttachWorkspace, Executions
<1>3. /\ f.issue = e.issue /\ SamePhase(f, e) /\ f.workspace = ws
      /\ f.conversation = e.conversation /\ f.recent = e.recent
      /\ f.interrupt = e.interrupt /\ f.last = e.last
  BY <1>1 DEF AttachWorkspace, Executions, SamePhase
<1>4. ws # None
  BY NoneAssumption
<1>. QED  BY <1>1, <1>2, <1>3, <1>4, SamePhaseWellFormed

\* set_retry_count_override
LEMMA SetRetryCountOverrideResult ==
    ASSUME NEW e, WellFormed(e), NEW count \in U32,
           NEW f, f = SetRetryCountOverride(e, count)
    PROVE  /\ WellFormed(f) /\ f.issue = e.issue /\ SamePhase(f, e)
           /\ f.workspace = e.workspace /\ f.interrupt = e.interrupt
           /\ f.last = e.last
<1>1. e \in Executions /\ Len(e.recent) <= RecentMax
  BY DEF WellFormed
<1>2. f \in Executions
  BY <1>1 DEF SetRetryCountOverride, Executions
<1>3. /\ f.issue = e.issue /\ SamePhase(f, e) /\ f.workspace = e.workspace
      /\ f.interrupt = e.interrupt /\ f.last = e.last
      /\ f.conversation = e.conversation /\ f.recent = e.recent
  BY <1>1 DEF SetRetryCountOverride, Executions, SamePhase
<1>. QED  BY <1>1, <1>2, <1>3, SamePhaseWellFormed

-----------------------------------------------------------------------------
(* Interrupts. *)

\* The interrupt alone is changed.
LEMMA NewInterruptResult ==
    ASSUME NEW e, WellFormed(e), NEW i \in InterruptStates \cup {None},
           NEW f, f = [e EXCEPT !.interrupt = i]
    PROVE  /\ WellFormed(f) /\ f.issue = e.issue /\ SamePhase(f, e)
           /\ f.workspace = e.workspace /\ f.last = e.last
           /\ f.conversation = e.conversation /\ f.interrupt = i
<1>1. e \in Executions /\ Len(e.recent) <= RecentMax
  BY DEF WellFormed
<1>2. f \in Executions
  BY <1>1 DEF Executions
<1>3. /\ f.issue = e.issue /\ SamePhase(f, e) /\ f.workspace = e.workspace
      /\ f.interrupt = i /\ f.recent = e.recent /\ f.last = e.last
      /\ f.conversation = e.conversation
  BY <1>1 DEF Executions, SamePhase
<1>. QED  BY <1>1, <1>2, <1>3, SamePhaseWellFormed

\* request_interrupt sends again what failed or timed out; a request under way
\* or confirmed keeps its status, and only its command may be new.
LEMMA RequestInterruptResult ==
    ASSUME NEW e, WellFormed(e), e.conversation # None,
           NEW reason \in InterruptReasons, NEW next \in NextStates,
           NEW f, f = RequestInterrupt(e, reason, next)
    PROVE  /\ WellFormed(f) /\ f.issue = e.issue /\ SamePhase(f, e)
           /\ f.workspace = e.workspace /\ f.last = e.last
           /\ f.conversation = e.conversation
           /\ f.interrupt \in InterruptStates /\ f.interrupt # None
           /\ InterruptQueued(e) => f.interrupt.status = "Requested"
           /\ ~InterruptQueued(e) => /\ e.interrupt # None
                                     /\ f.interrupt.status = e.interrupt.status
<1> DEFINE command == Command(e, reason, next)
<1>1. e \in Executions /\ command \in InterruptCommands
  BY DEF WellFormed, Executions, Command, InterruptCommands
<1>2. None \notin InterruptStates
  BY NoneAssumption
<1> HIDE DEF command
<1>3. CASE InterruptQueued(e)
  <2> DEFINE i == [command |-> command, status |-> "Requested"]
  <2>1. i \in InterruptStates /\ i.status = "Requested"
    BY <1>1 DEF InterruptStates, InterruptStatuses
  <2>2. f = [e EXCEPT !.interrupt = i]
    BY <1>3 DEF RequestInterrupt, command
  <2> HIDE DEF i
  <2>. QED  BY <1>2, <1>3, <2>1, <2>2, NewInterruptResult
<1>4. CASE ~InterruptQueued(e)
  <2>1. e.interrupt \in InterruptStates /\ e.interrupt # None
    BY <1>1, <1>4 DEF InterruptQueued, Executions
  <2>2. CASE e.interrupt.status = "Acknowledged"
    <3> DEFINE i == [e.interrupt EXCEPT !.command = command]
    <3>1. i \in InterruptStates /\ i.status = e.interrupt.status
      BY <1>1, <2>1 DEF InterruptStates
    <3>2. f = [e EXCEPT !.interrupt = i]
      BY <1>1, <1>4, <2>2 DEF RequestInterrupt, command, Executions
    <3> HIDE DEF i
    <3>. QED  BY <1>2, <1>4, <2>1, <3>1, <3>2, NewInterruptResult
  <2>3. CASE e.interrupt.status # "Acknowledged"
    <3>1. f = e
      BY <1>4, <2>3 DEF RequestInterrupt
    <3>. QED  BY <1>2, <1>4, <2>1, <3>1 DEF SamePhase
  <2>. QED  BY <2>2, <2>3
<1>. QED  BY <1>3, <1>4

\* acknowledge_interrupt, fail_interrupt and timeout_interrupt answer a request
\* that is under way, and no other.
LEMMA UpdateInterruptResult ==
    ASSUME NEW e, WellFormed(e), e.interrupt # None,
           NEW status \in InterruptStatuses,
           NEW f, f = UpdateInterrupt(e, status)
    PROVE  /\ WellFormed(f) /\ f.issue = e.issue /\ SamePhase(f, e)
           /\ f.workspace = e.workspace /\ f.last = e.last
           /\ f.conversation = e.conversation
           /\ f.interrupt \in InterruptStates /\ f.interrupt # None
           /\ e.interrupt.status = "Requested" => f.interrupt.status = status
           /\ e.interrupt.status # "Requested" => f = e
<1>1. e \in Executions /\ e.interrupt \in InterruptStates
  BY DEF WellFormed, Executions
<1>2. None \notin InterruptStates
  BY NoneAssumption
<1>3. CASE e.interrupt.status = "Requested"
  <2> DEFINE i == [e.interrupt EXCEPT !.status = status]
  <2>1. i \in InterruptStates /\ i.status = status
    BY <1>1 DEF InterruptStates
  <2>2. f = [e EXCEPT !.interrupt = i]
    BY <1>1, <1>3 DEF UpdateInterrupt, Executions
  <2> HIDE DEF i
  <2>. QED  BY <1>2, <1>3, <2>1, <2>2, NewInterruptResult
<1>4. CASE e.interrupt.status # "Requested"
  BY <1>1, <1>2, <1>4 DEF UpdateInterrupt, SamePhase
<1>. QED  BY <1>3, <1>4

-----------------------------------------------------------------------------
(* The transitions of the scheduler state. *)

\* The state is replaced together with its payload.
LEMMA NewPhaseWellFormed ==
    ASSUME NEW e, NEW s, NEW run, NEW stall, NEW retry, NEW reason, NEW f,
           f = WithState(e, s, run, stall, retry, reason),
           WellFormed(e), s \in Statuses,
           run \in RunAttempts \cup {None},
           stall \in StallMetadata \cup {None},
           retry \in RetryEntries \cup {None},
           reason \in ReleaseReasons \cup {None},
           s \in {"Claimed", "Running"} => run # None /\ e.workspace # None,
           s = "Running" => stall # None /\ e.conversation # None,
           s = "RetryQueued" => retry # None /\ e.workspace # None
    PROVE  /\ WellFormed(f)
           /\ f.status = s /\ f.run = run /\ f.stall = stall
           /\ f.retry = retry /\ f.reason = reason
           /\ f.issue = e.issue /\ f.workspace = e.workspace
           /\ f.conversation = e.conversation /\ f.interrupt = e.interrupt
           /\ f.last = e.last
<1>1. e \in Executions /\ Len(e.recent) <= RecentMax
  BY DEF WellFormed
<1>2. /\ f \in Executions /\ f.recent = e.recent
      /\ f.status = s /\ f.run = run /\ f.stall = stall
      /\ f.retry = retry /\ f.reason = reason
      /\ f.issue = e.issue /\ f.workspace = e.workspace
      /\ f.conversation = e.conversation /\ f.interrupt = e.interrupt
      /\ f.last = e.last
  <2>1. /\ f \in Executions /\ f.recent = e.recent
        /\ f.status = s /\ f.run = run /\ f.stall = stall
        /\ f.retry = retry /\ f.reason = reason
        /\ f.issue = e.issue /\ f.workspace = e.workspace
        /\ f.conversation = e.conversation /\ f.interrupt = e.interrupt
        /\ f.last = e.last
    BY <1>1, WithStateResult
  <2>. QED  BY <2>1
<1>. QED  BY <1>1, <1>2 DEF WellFormed, IsLive

\* record_outcome: the history of a well-formed record stays within its bound.
LEMMA RecordOutcomeWellFormed ==
    ASSUME NEW e, WellFormed(e), NEW o \in OutcomeRecords,
           NEW f, f = RecordOutcome(e, o)
    PROVE  /\ WellFormed(f) /\ f.issue = e.issue /\ SamePhase(f, e)
           /\ f.workspace = e.workspace /\ f.conversation = e.conversation
           /\ f.last = o
           /\ f.interrupt # None => e.interrupt # None
           /\ f.interrupt # None /\ f.interrupt.status = "Acknowledged"
              => f.interrupt = e.interrupt
<1>1. e \in Executions /\ Len(e.recent) <= RecentMax
  BY DEF WellFormed
<1>2. /\ f \in Executions /\ f.last = o
      /\ Len(f.recent) <= RecentMax
      /\ f.interrupt = None <=> e.interrupt = None
      /\ f.issue = e.issue /\ f.workspace = e.workspace
      /\ SamePhase(f, e)
  BY <1>1, RecordOutcomeResult DEF SamePhase
<1>3. /\ f.conversation = e.conversation
      /\ f.interrupt = IF /\ o.outcome = "CancelFailed"
                          /\ e.interrupt # None
                          /\ e.interrupt.status = "Requested"
                       THEN [e.interrupt EXCEPT !.status = "Failed"]
                       ELSE e.interrupt
  BY <1>1 DEF RecordOutcome, Executions
<1>4. e.interrupt # None => e.interrupt \in InterruptStates
  BY <1>1 DEF Executions
<1>5. f.interrupt # None /\ f.interrupt.status = "Acknowledged"
      => f.interrupt = e.interrupt
  BY <1>3, <1>4 DEF InterruptStates
<1>. QED  BY <1>1, <1>2, <1>3, <1>5, SamePhaseWellFormed

\* release: with the outcome the run ended with, or without one.
LEMMA ReleaseResult ==
    ASSUME NEW e, WellFormed(e), NEW reason \in ReleaseReasons,
           NEW o \in OutcomeRecords \cup {None},
           NEW f, f = Release(e, reason, o)
    PROVE  /\ WellFormed(f) /\ f.issue = e.issue
           /\ f.status = "Released" /\ f.reason = reason
           /\ f.run = None /\ f.retry = None
           /\ f.workspace = e.workspace
           /\ f.last = IF o = None THEN e.last ELSE o
<1> DEFINE g == IF o = None THEN e ELSE RecordOutcome(e, o)
<1>1. /\ WellFormed(g) /\ g.issue = e.issue /\ g.workspace = e.workspace
      /\ g.last = IF o = None THEN e.last ELSE o
  BY RecordOutcomeWellFormed
<1>2. f = WithState(g, "Released", None, None, None, reason)
  BY DEF Release, ToReleased
<1> HIDE DEF g
<1>. QED  BY <1>1, <1>2, NewPhaseWellFormed DEF Statuses

\* replace_release_reason
LEMMA ReplaceReleaseReasonResult ==
    ASSUME NEW e, WellFormed(e), NEW reason \in ReleaseReasons,
           NEW f, f = ReplaceReleaseReason(e, reason)
    PROVE  /\ WellFormed(f) /\ f.issue = e.issue
           /\ f.status = "Released" /\ f.reason = reason
           /\ f.run = None /\ f.retry = None
           /\ f.workspace = e.workspace /\ f.last = e.last
<1>1. f = WithState(e, "Released", None, None, None, reason)
  BY DEF ReplaceReleaseReason, ToReleased
<1>. QED  BY <1>1, NewPhaseWellFormed DEF Statuses

\* reopen_for_tracker_reactivation forgets the run and the reason.
LEMMA ReopenResult ==
    ASSUME NEW e, WellFormed(e), NEW f, f = Reopen(e)
    PROVE  /\ WellFormed(f) /\ f.issue = e.issue /\ f.status = "Unclaimed"
           /\ f.run = None /\ f.retry = None /\ f.last = e.last
<1> DEFINE g == [e EXCEPT !.workspace = None, !.conversation = None,
                          !.interrupt = None]
<1>1. e \in Executions /\ Len(e.recent) <= RecentMax
  BY DEF WellFormed
<1>2. /\ g \in Executions /\ g.issue = e.issue /\ g.recent = e.recent
      /\ g.last = e.last
  BY <1>1 DEF Executions
<1>3. PICK h \in {e, g} : f = WithState(h, "Unclaimed", None, None, None, None)
  BY DEF Reopen, ToUnclaimed
<1> HIDE DEF g
<1>4. h \in Executions /\ h.issue = e.issue /\ h.recent = e.recent /\ h.last = e.last
  BY <1>1, <1>2, <1>3
<1>5. /\ f \in Executions /\ f.status = "Unclaimed" /\ f.run = None
      /\ f.retry = None /\ f.issue = h.issue /\ f.recent = h.recent
      /\ f.last = h.last
  BY <1>3, <1>4, WithStateResult DEF Statuses
<1>. QED  BY <1>1, <1>4, <1>5 DEF WellFormed, IsLive

\* queue_retry, with the entry RetryEntry::continuation or ::failure makes.
LEMMA QueueRetryResult ==
    ASSUME NEW e, WellFormed(e), IsLive(e), AfterOk(e.run.attempt),
           NEW reason \in RetryReasons, NEW o \in OutcomeRecords,
           NEW f, f = QueueRetry(e, RetryEntry(e, reason, 0, 0), o)
    PROVE  /\ WellFormed(f) /\ f.issue = e.issue /\ f.status = "RetryQueued"
           /\ f.retry = RetryEntry(e, reason, 0, 0)
           /\ f.retry \in RetryEntries /\ f.retry.attempt = e.run.attempt + 1
           /\ f.workspace = e.workspace /\ f.last = o
<1> DEFINE g == RecordOutcome(e, o)
           r == RetryEntry(e, reason, 0, 0)
<1>1. e \in Executions /\ e.run \in RunAttempts /\ e.workspace # None
  BY DEF WellFormed, Executions
<1>2. 0 \in Times
  BY WidthAssumption DEF Times
<1>3. r \in RetryEntries /\ r.attempt = e.run.attempt + 1 /\ r # None
  BY <1>1, <1>2, RetryEntryResult, NoneAssumption
<1>4. WellFormed(g) /\ g.issue = e.issue /\ g.workspace = e.workspace /\ g.last = o
  BY RecordOutcomeWellFormed
<1>5. f = WithState(g, "RetryQueued", None, None, r, None)
  BY DEF QueueRetry, ToRetryQueued
<1> HIDE DEF g, r
<1>6. /\ WellFormed(f) /\ f.issue = g.issue /\ f.status = "RetryQueued"
      /\ f.retry = r /\ f.workspace = g.workspace /\ f.last = g.last
  BY <1>1, <1>3, <1>4, <1>5, NewPhaseWellFormed DEF Statuses
<1>. QED  BY <1>3, <1>4, <1>6 DEF r

\* claim: the run takes its count of retries from the queued entry, and no stop
\* requested for an earlier run is left.
LEMMA ClaimResult ==
    ASSUME NEW e, WellFormed(e), NEW run \in RunAttempts, ClaimOk(e, run),
           NEW f, f = Claim(e, run)
    PROVE  /\ WellFormed(f) /\ f.issue = e.issue /\ f.status = "Claimed"
           /\ f.run \in RunAttempts /\ f.run.worker = run.worker
           /\ f.run.attempt = run.attempt /\ f.run.issue = run.issue
           /\ f.interrupt = None /\ f.workspace = e.workspace
           /\ f.workspace # None /\ f.last = e.last
<1> DEFINE count == IF e.status = "RetryQueued" THEN e.retry.normalRetryCount ELSE 0
           new == [run EXCEPT !.normalRetryCount = count]
           g == WithState(e, "Claimed", new, None, None, None)
<1>1. e \in Executions /\ e.workspace # None
  BY DEF WellFormed, ClaimOk, RunBindingOk
<1>2. e.status = "RetryQueued" => e.retry \in RetryEntries
  BY DEF WellFormed, Executions
<1>3. count \in U32
  BY <1>2, WidthAssumption DEF RetryEntries, U32
<1> HIDE DEF count
<1>4. /\ new \in RunAttempts /\ new # None /\ new.worker = run.worker
      /\ new.attempt = run.attempt /\ new.issue = run.issue
  BY <1>3, NoneAssumption DEF RunAttempts
<1> HIDE DEF new
<1>5. /\ WellFormed(g) /\ g.issue = e.issue /\ g.status = "Claimed"
      /\ g.run = new /\ g.workspace = e.workspace /\ g.last = e.last
  BY <1>1, <1>4, NewPhaseWellFormed DEF Statuses
<1>6. f = [g EXCEPT !.interrupt = None]
  BY DEF Claim, g, new, count
<1> HIDE DEF g
<1>. QED  BY <1>1, <1>4, <1>5, <1>6, NewInterruptResult DEF SamePhase

\* start_running, with the conversation the harness opened.
LEMMA StartRunningResult ==
    ASSUME NEW e, WellFormed(e), IsLive(e), NEW c \in Conversations,
           NEW f, f = StartRunning(e, 0, 0, c)
    PROVE  /\ WellFormed(f) /\ f.issue = e.issue /\ f.status = "Running"
           /\ f.run = e.run /\ f.stall \in StallMetadata
           /\ f.interrupt = e.interrupt /\ f.workspace = e.workspace
           /\ f.last = e.last
<1> DEFINE h == [e EXCEPT !.conversation = c]
           g == WithState(e, "Running", e.run, NewStall(0, 0), None, None)
<1>1. /\ e \in Executions /\ e.workspace # None /\ e.run \in RunAttempts
      /\ Len(e.recent) <= RecentMax /\ c # None
  BY NoneAssumption DEF WellFormed, Executions
<1>2. NewStall(0, 0) \in StallMetadata /\ NewStall(0, 0) # None
  <2>1. 0 \in Times /\ SatAdd(0, 0, TimeMax) \in Times
    BY WidthAssumption DEF Times, SatAdd
  <2>2. NewStall(0, 0) \in StallMetadata
    BY <2>1 DEF NewStall, StallMetadata
  <2>. QED  BY <2>2, NoneAssumption
<1>3. /\ g \in Executions /\ g.status = "Running" /\ g.run = e.run
      /\ g.stall = NewStall(0, 0) /\ g.issue = e.issue
      /\ g.workspace = e.workspace /\ g.interrupt = e.interrupt
      /\ g.last = e.last /\ g.recent = e.recent
  <2>1. /\ "Running" \in Statuses /\ e.run \in RunAttempts \cup {None}
        /\ NewStall(0, 0) \in StallMetadata \cup {None}
        /\ None \in RetryEntries \cup {None} /\ None \in ReleaseReasons \cup {None}
    BY <1>1, <1>2 DEF Statuses
  <2>. QED  BY <1>1, <2>1, WithStateResult
<1>4. f = [g EXCEPT !.conversation = c]
  BY <1>1 DEF StartRunning
<1> HIDE DEF g
<1>5. /\ f \in Executions /\ f.status = "Running" /\ f.run = e.run
      /\ f.stall = NewStall(0, 0) /\ f.issue = e.issue /\ f.conversation = c
      /\ f.workspace = e.workspace /\ f.interrupt = e.interrupt
      /\ f.last = e.last /\ f.recent = e.recent
  BY <1>3, <1>4 DEF Executions
<1>. QED  BY <1>1, <1>2, <1>5 DEF WellFormed, IsLive

\* record_turn_started counts a turn of the run.
LEMMA RecordTurnStartedResult ==
    ASSUME NEW e, WellFormed(e), e.status = "Running",
           NEW f, f = RecordTurnStarted(e, 0)
    PROVE  /\ WellFormed(f) /\ f.issue = e.issue /\ f.status = "Running"
           /\ f.run \in RunAttempts /\ f.run.worker = e.run.worker
           /\ f.run.attempt = e.run.attempt /\ f.run.issue = e.run.issue
           /\ f.interrupt = e.interrupt /\ f.workspace = e.workspace
           /\ f.last = e.last
<1> DEFINE run == [e.run EXCEPT !.turnCount = SatAdd(e.run.turnCount, 1, U32Max)]
           stall == ObserveActivity(e.stall, 0)
<1>1. /\ e \in Executions /\ e.workspace # None /\ e.run \in RunAttempts
      /\ e.stall \in StallMetadata /\ Len(e.recent) <= RecentMax
      /\ e.conversation # None
  BY DEF WellFormed, Executions, IsLive
<1>2. SatAdd(e.run.turnCount, 1, U32Max) \in U32
  BY <1>1, WidthAssumption DEF SatAdd, RunAttempts, U32
<1>3. /\ run \in RunAttempts /\ run # None /\ run.worker = e.run.worker
      /\ run.attempt = e.run.attempt /\ run.issue = e.run.issue
  BY <1>1, <1>2, NoneAssumption DEF RunAttempts
<1>4. stall \in StallMetadata /\ stall # None
  <2>1. 0 \in Times /\ SatAdd(0, e.stall.idleTimeout, TimeMax) \in Times
    BY <1>1, WidthAssumption DEF StallMetadata, Times, SatAdd
  <2>2. stall \in StallMetadata
    BY <1>1, <2>1 DEF ObserveActivity, StallMetadata
  <2>. QED  BY <2>2, NoneAssumption
<1>5. f = [e EXCEPT !.run = run, !.stall = stall]
  BY <1>1 DEF RecordTurnStarted, Executions
<1> HIDE DEF run, stall
<1>6. /\ f \in Executions /\ f.status = e.status /\ f.run = run
      /\ f.stall = stall /\ f.issue = e.issue /\ f.workspace = e.workspace
      /\ f.interrupt = e.interrupt /\ f.last = e.last /\ f.recent = e.recent
      /\ f.conversation = e.conversation
  BY <1>1, <1>3, <1>4, <1>5 DEF Executions
<1>. QED  BY <1>1, <1>3, <1>4, <1>6 DEF WellFormed, IsLive
=============================================================================
