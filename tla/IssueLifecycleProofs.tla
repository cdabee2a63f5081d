------------------------ MODULE IssueLifecycleProofs ------------------------
(***************************************************************************)
(* Theorems about IssueLifecycle, for every number of issues, workers and  *)
(* states and every width of the integers.                                 *)
(***************************************************************************)
EXTENDS IssueLifecycle, IssueExecutionLemmas

-----------------------------------------------------------------------------
(* What the operations of IssueExecution return. *)

\* The backoff of a failed attempt is a time.
LEMMA FailureDelayType ==
    ASSUME NEW a \in RetryAttempts
    PROVE  FailureDelay(a, FailureBaseDelay, MaxBackoff) \in Times
<1>1. Least(a - 1, TimeBits - 1) \in 0..(TimeBits + U32Max)
  BY WidthAssumption DEF Least, RetryAttempts
<1>2. PICK p \in Nat : 2^Least(a - 1, TimeBits - 1) = p
  BY <1>1, PowerAssumption
<1>3. MaxBackoff \in Times /\ FailureBaseDelay \in Times
  BY LifecycleAssumption
<1>4. FailureBaseDelay * p \in Nat
  BY <1>2, <1>3 DEF Times
<1>. QED
  BY <1>2, <1>3, <1>4, WidthAssumption DEF FailureDelay, Times, SatMul, Least

\* The doubling is exact up to the cap although the shift stops below the word
\* width and the product saturates (RetryPolicy::failure_delay).
LEMMA FailureDelayIsCappedDoubling ==
    ASSUME NEW a \in RetryAttempts
    PROVE  FailureDelay(a, FailureBaseDelay, MaxBackoff)
             = Least(FailureBaseDelay * 2^(a - 1), MaxBackoff)
<1> DEFINE k == Least(a - 1, TimeBits - 1)
           p == 2^k
           q == 2^(a - 1)
<1>1. /\ k \in 0..(TimeBits + U32Max) /\ a - 1 \in 0..(TimeBits + U32Max)
      /\ k <= a - 1
      /\ k = a - 1 \/ k = TimeBits - 1
  BY WidthAssumption DEF Least, RetryAttempts
<1>2. p \in Nat /\ q \in Nat /\ p <= q
  BY <1>1, PowerAssumption
<1>3. p = q \/ p >= MaxBackoff
  BY <1>1, LifecycleAssumption
<1>4. /\ MaxBackoff \in Nat /\ FailureBaseDelay \in Nat
      /\ MaxBackoff <= TimeMax /\ TimeMax \in Nat
  BY LifecycleAssumption, WidthAssumption DEF Times
<1>5. FailureDelay(a, FailureBaseDelay, MaxBackoff)
        = Least(SatMul(FailureBaseDelay, p, TimeMax), MaxBackoff)
  BY DEF FailureDelay
<1> HIDE DEF k, p, q
<1>6. FailureBaseDelay * p \in Nat /\ FailureBaseDelay * q \in Nat
  BY <1>2, <1>4
<1>7. CASE FailureBaseDelay = 0
  <2>1. FailureBaseDelay * p = 0 /\ FailureBaseDelay * q = 0
    BY <1>2, <1>7
  <2>. QED  BY <1>4, <1>5, <2>1 DEF SatMul, Least, q
<1>8. CASE FailureBaseDelay > 0 /\ p = q
  BY <1>4, <1>5, <1>6, <1>8 DEF SatMul, Least, q
<1>9. CASE FailureBaseDelay > 0 /\ p >= MaxBackoff
  <2>1. FailureBaseDelay * p >= p /\ FailureBaseDelay * q >= q
    BY <1>2, <1>4, <1>9
  <2>2. FailureBaseDelay * p >= MaxBackoff /\ FailureBaseDelay * q >= MaxBackoff
    BY <1>2, <1>4, <1>6, <1>9, <2>1
  <2>. QED  BY <1>4, <1>5, <1>6, <2>2 DEF SatMul, Least, q
<1>. QED  BY <1>3, <1>4, <1>7, <1>8, <1>9

\* Stall metadata whose deadline follows its last signal stay so, and the
\* deadline only moves forward (StallMetadata::observe_activity).
LEMMA ObserveActivityResult ==
    ASSUME NEW stall \in StallMetadata, NEW at \in Times, ExactDeadline(stall)
    PROVE  /\ ObserveActivity(stall, at) \in StallMetadata
           /\ ExactDeadline(ObserveActivity(stall, at))
           /\ ObserveActivity(stall, at).stalledAt >= stall.stalledAt
<1>1. /\ stall.lastActivityAt \in Nat /\ stall.idleTimeout \in Nat
      /\ at \in Nat /\ TimeMax \in Nat /\ stall.stalledAt \in Nat
  BY WidthAssumption DEF StallMetadata, Times
<1>2. SatAdd(at, stall.idleTimeout, TimeMax) \in Times
  BY <1>1 DEF SatAdd, Times
<1>3. CASE at < stall.lastActivityAt
  BY <1>1, <1>3 DEF ObserveActivity, ExactDeadline
<1>4. CASE ~(at < stall.lastActivityAt)
  <2> DEFINE new == [stall EXCEPT
                       !.lastActivityAt = at,
                       !.stalledAt = SatAdd(at, stall.idleTimeout, TimeMax)]
  <2>1. ObserveActivity(stall, at) = new
    BY <1>4 DEF ObserveActivity
  <2>2. /\ new \in StallMetadata
        /\ new.lastActivityAt = at /\ new.idleTimeout = stall.idleTimeout
        /\ new.stalledAt = SatAdd(at, stall.idleTimeout, TimeMax)
    BY <1>2 DEF StallMetadata
  <2>3. SatAdd(at, stall.idleTimeout, TimeMax)
          >= SatAdd(stall.lastActivityAt, stall.idleTimeout, TimeMax)
    BY <1>1, <1>4 DEF SatAdd
  <2>. QED  BY <2>1, <2>2, <2>3 DEF ExactDeadline
<1>. QED  BY <1>3, <1>4

-----------------------------------------------------------------------------
(* The inductive invariant.  No part is inductive on its own: every step    *)
(* that rewrites the record needs its type, the queued retry needs the      *)
(* accounting of the run it came from and the binding of a new run needs    *)
(* the workspace attached before it.                                       *)

IInv ==
    /\ TypeOK
    /\ RunKeepsItsBinding
    /\ AttemptAccounting
    /\ InterruptBelongsToRun
    /\ NewestOutcomeKept
    /\ StallDeadline
    /\ BackoffIsCappedDoubling

\* A new execution is unclaimed and has no history.
LEMMA InitIInv == Init => IInv
<1> SUFFICES ASSUME Init PROVE IInv
  OBVIOUS
<1>1. PICK b \in Bindings, s \in StateNames :
        exec = NewExecution([id |-> Issue, state |-> s, binding |-> b])
  BY DEF Init
<1>2. Issue \in IssueIds
  BY LifecycleAssumption
<1>3. <<>> \in Seq(OutcomeRecords) /\ Len(<<>>) = 0 /\ RecentMax \in Nat \ {0}
  BY WidthAssumption
<1>4. exec \in Executions
  BY <1>1, <1>2, <1>3 DEF NewExecution, Executions, Issues, Statuses
<1>. QED
  BY <1>1, <1>3, <1>4
     DEF Init, IInv, TypeOK, PayloadMatches, RunKeepsItsBinding,
         AttemptAccounting, InterruptBelongsToRun, NewestOutcomeKept,
         StallDeadline, BackoffIsCappedDoubling, NewExecution, IsLive

\* The parts of the invariant that speak of the scheduler state only: a step
\* that leaves these fields alone keeps them.
SameSchedulerState ==
    /\ exec'.status = exec.status /\ exec'.run = exec.run
    /\ exec'.stall = exec.stall /\ exec'.retry = exec.retry
    /\ exec'.reason = exec.reason

\* A step that changes neither the scheduler state nor the history keeps the
\* invariant if it keeps the type, the binding of a live run and the owner of
\* its interrupt.
LEMMA QuietStep ==
    ASSUME IInv, exec' \in Executions, SameSchedulerState, spent' = spent,
           target' \in Workers \cup {None},
           exec'.last = exec.last, exec'.recent = exec.recent,
           RunKeepsItsBinding', InterruptBelongsToRun'
    PROVE  IInv'
BY DEF IInv, TypeOK, PayloadMatches, SameSchedulerState, AttemptAccounting,
       NewestOutcomeKept, StallDeadline, BackoffIsCappedDoubling, IsLive,
       ExactDeadline

LEMMA RefreshKeepsIInv == IInv /\ Refresh => IInv'
<1> SUFFICES ASSUME IInv, Refresh PROVE IInv'
  OBVIOUS
<1>1. PICK issue \in Issues : /\ RefreshIssueOk(exec, issue)
                              /\ exec' = RefreshIssue(exec, issue)
                              /\ UNCHANGED <<spent, target>>
  BY DEF Refresh, Issues
<1>2. exec' \in Executions /\ exec'.issue = issue
  BY <1>1 DEF IInv, TypeOK, RefreshIssue, Executions
<1>3. /\ SameSchedulerState /\ exec'.last = exec.last
      /\ exec'.recent = exec.recent /\ exec'.workspace = exec.workspace
      /\ exec'.interrupt = exec.interrupt
  BY <1>1 DEF IInv, TypeOK, RefreshIssue, Executions, SameSchedulerState
<1>4. RunKeepsItsBinding'
  BY <1>1, <1>2, <1>3
     DEF IInv, RunKeepsItsBinding, RefreshIssueOk, IdentityChanged, IsLive,
         SameSchedulerState
<1>5. InterruptBelongsToRun'
  BY <1>1, <1>3 DEF IInv, InterruptBelongsToRun, IsLive, SameSchedulerState
<1>. QED  BY <1>1, <1>2, <1>3, <1>4, <1>5, QuietStep DEF IInv, TypeOK

LEMMA AttachKeepsIInv == IInv /\ Attach => IInv'
<1> SUFFICES ASSUME IInv, Attach PROVE IInv'
  OBVIOUS
<1>1. PICK ws \in WorkspaceRecords : /\ AttachWorkspaceOk(exec, ws)
                                     /\ exec' = AttachWorkspace(exec, ws)
                                     /\ UNCHANGED <<spent, target>>
  BY DEF Attach, WorkspaceRecords
<1>2. exec' \in Executions /\ exec'.workspace = ws
  BY <1>1 DEF IInv, TypeOK, AttachWorkspace, Executions
<1>3. /\ SameSchedulerState /\ exec'.last = exec.last
      /\ exec'.recent = exec.recent /\ exec'.issue = exec.issue
      /\ exec'.interrupt = exec.interrupt
  BY <1>1 DEF IInv, TypeOK, AttachWorkspace, Executions, SameSchedulerState
<1>4. RunKeepsItsBinding'
  BY <1>1, <1>2, <1>3, NoneAssumption
     DEF IInv, RunKeepsItsBinding, AttachWorkspaceOk, IsLive, SameSchedulerState
<1>5. InterruptBelongsToRun'
  BY <1>1, <1>3 DEF IInv, InterruptBelongsToRun, IsLive, SameSchedulerState
<1>. QED  BY <1>1, <1>2, <1>3, <1>4, <1>5, QuietStep DEF IInv, TypeOK

LEMMA ClearKeepsIInv == IInv /\ Clear => IInv'
<1> SUFFICES ASSUME IInv, Clear PROVE IInv'
  OBVIOUS
<1>1. exec' \in Executions
  BY DEF IInv, TypeOK, Clear, ClearWorkspace, Executions
<1>2. /\ SameSchedulerState /\ exec'.last = exec.last
      /\ exec'.recent = exec.recent /\ ~IsLive(exec')
  BY DEF IInv, TypeOK, Clear, ClearWorkspace, Executions, SameSchedulerState,
         IsLive
<1>. QED
  BY <1>1, <1>2, QuietStep
     DEF IInv, TypeOK, Clear, RunKeepsItsBinding, InterruptBelongsToRun

\* claim takes the count of the queued retry and forgets the last run's interrupt.
LEMMA ClaimKeepsIInv == IInv /\ DoClaim => IInv'
<1> SUFFICES ASSUME IInv, DoClaim PROVE IInv'
  OBVIOUS
<1>1. PICK w \in Workers \ spent, p \in Paths, b \in Repos \cup {None}, a \in U32 :
        /\ ClaimOk(exec, NewRun(w, Issue, p, b, a))
        /\ exec' = Claim(exec, NewRun(w, Issue, p, b, a))
        /\ spent' = spent \cup {w}
        /\ UNCHANGED target
  BY DEF DoClaim
<1> DEFINE new == NewRun(w, Issue, p, b, a)
           count == IF exec.status = "RetryQueued" THEN exec.retry.normalRetryCount
                    ELSE 0
           run == [new EXCEPT !.normalRetryCount = count]
           e == WithState(exec, "Claimed", run, None, None, None)
<1>2. Issue \in IssueIds /\ 0 \in U32
  BY LifecycleAssumption, WidthAssumption DEF U32
<1>3. new \in RunAttempts /\ new.attempt = a
  BY <1>2 DEF NewRun, RunAttempts
<1>4. count \in U32 /\ count = a
  BY <1>1, <1>2, <1>3
     DEF IInv, TypeOK, PayloadMatches, AttemptAccounting, Executions,
         RetryEntries, ClaimOk
<1>5. /\ run \in RunAttempts
      /\ run.normalRetryCount = a /\ run.attempt = a
      /\ run.issue = new.issue /\ run.path = new.path /\ run.binding = new.binding
  BY <1>3, <1>4 DEF RunAttempts
<1>6. exec' = [e EXCEPT !.interrupt = None]
  BY <1>1 DEF Claim
<1>7. exec \in Executions
  BY DEF IInv, TypeOK
<1> HIDE DEF run, e
<1>c. e = WithState(exec, "Claimed", run, None, None, None)
  BY DEF e
<1>8. /\ e \in Executions
      /\ e.status = "Claimed" /\ e.run = run /\ e.stall = None
      /\ e.retry = None /\ e.reason = None
      /\ e.issue = exec.issue /\ e.workspace = exec.workspace
      /\ e.last = exec.last /\ e.recent = exec.recent
  BY <1>5, <1>7, <1>c, WithStateResult DEF Statuses
<1>9. /\ exec' \in Executions /\ exec'.interrupt = None
      /\ exec'.status = "Claimed" /\ exec'.run = run /\ exec'.stall = None
      /\ exec'.retry = None /\ exec'.reason = None
      /\ exec'.issue = exec.issue /\ exec'.workspace = exec.workspace
      /\ exec'.last = exec.last /\ exec'.recent = exec.recent
  BY <1>6, <1>8 DEF Executions
<1>10. TypeOK'
  BY <1>1, <1>5, <1>9, NoneAssumption
     DEF IInv, TypeOK, PayloadMatches, IsLive
<1>11. RunKeepsItsBinding'
  BY <1>1, <1>5, <1>9 DEF RunKeepsItsBinding, ClaimOk, RunBindingOk
<1>. QED
  BY <1>5, <1>9, <1>10, <1>11
     DEF IInv, AttemptAccounting, InterruptBelongsToRun, NewestOutcomeKept,
         StallDeadline, BackoffIsCappedDoubling, IsLive

\* A step of a live run that stays live, with the same identity: what is left to
\* show is its type and its stall deadline.
LEMMA LiveStep ==
    ASSUME IInv, IsLive(exec), exec' \in Executions, PayloadMatches(exec'),
           spent' = spent, target' \in Workers \cup {None},
           IsLive(exec'), exec'.run.attempt = exec.run.attempt,
           exec'.run.normalRetryCount = exec.run.normalRetryCount,
           exec'.run.worker = exec.run.worker, exec'.run.issue = exec.run.issue,
           exec'.run.path = exec.run.path, exec'.run.binding = exec.run.binding,
           exec'.issue = exec.issue, exec'.workspace = exec.workspace,
           exec'.interrupt = None <=> exec.interrupt = None, target' = target,
           NewestOutcomeKept', StallDeadline'
    PROVE  IInv'
BY DEF IInv, TypeOK, RunKeepsItsBinding, AttemptAccounting,
       InterruptBelongsToRun, BackoffIsCappedDoubling, IsLive

LEMMA StartRunningKeepsIInv == IInv /\ DoStartRunning => IInv'
<1> SUFFICES ASSUME IInv, DoStartRunning PROVE IInv'
  OBVIOUS
<1>1. PICK at \in Times, session \in Conversations \cup {None} :
        /\ StartRunningOk(exec, session)
        /\ exec' = StartRunning(exec, at, IdleTimeout, session)
        /\ UNCHANGED <<spent, target>>
  BY DEF DoStartRunning
<1> DEFINE stall == NewStall(at, IdleTimeout)
           c == IF session # None THEN session ELSE exec.conversation
<1>2. IdleTimeout \in Times /\ SatAdd(at, IdleTimeout, TimeMax) \in Times
  BY LifecycleAssumption, WidthAssumption DEF SatAdd, Times
<1>3. stall \in StallMetadata /\ ExactDeadline(stall)
  BY <1>2 DEF NewStall, StallMetadata, ExactDeadline
<1>4. exec \in Executions /\ exec.run \in RunAttempts
  BY <1>1 DEF IInv, TypeOK, PayloadMatches, StartRunningOk, IsLive, Executions
<1>5. c \in Conversations \cup {None}
  BY <1>4 DEF Executions
<1>6. exec' = [exec EXCEPT !.status = "Running", !.run = exec.run,
                           !.stall = stall, !.retry = None, !.reason = None,
                           !.conversation = c]
  BY <1>1, <1>4 DEF StartRunning, WithState, Executions
<1> HIDE DEF stall, c
<1>7. /\ exec' \in Executions
      /\ exec'.status = "Running" /\ exec'.run = exec.run /\ exec'.stall = stall
      /\ exec'.retry = None /\ exec'.reason = None
      /\ exec'.issue = exec.issue /\ exec'.workspace = exec.workspace
      /\ exec'.interrupt = exec.interrupt
      /\ exec'.last = exec.last /\ exec'.recent = exec.recent
  BY <1>3, <1>4, <1>5, <1>6 DEF Executions, Statuses
<1>8. PayloadMatches(exec') /\ IsLive(exec) /\ IsLive(exec')
  BY <1>1, <1>3, <1>4, <1>7, NoneAssumption
     DEF PayloadMatches, IsLive, StartRunningOk
<1>9. NewestOutcomeKept' /\ StallDeadline'
  BY <1>3, <1>7 DEF IInv, NewestOutcomeKept, StallDeadline
<1>. QED
  BY <1>1, <1>7, <1>8, <1>9, LiveStep DEF IInv, TypeOK

\* An observed event moves nothing but the turn count and the stall deadline.
LEMMA ObserveKeepsIInv ==
    ASSUME IInv, ObserveOk(exec), NEW turns \in U32, NEW at \in Times,
           exec' = [exec EXCEPT
                      !.run = [exec.run EXCEPT !.turnCount = turns],
                      !.stall = ObserveActivity(exec.stall, at)],
           UNCHANGED <<spent, target>>
    PROVE  IInv'
<1> DEFINE run == [exec.run EXCEPT !.turnCount = turns]
           stall == ObserveActivity(exec.stall, at)
<1>1. /\ exec \in Executions
      /\ exec.run \in RunAttempts /\ exec.stall \in StallMetadata
      /\ ExactDeadline(exec.stall)
  BY DEF IInv, TypeOK, PayloadMatches, ObserveOk, IsLive, Executions,
         StallDeadline
<1>2. stall \in StallMetadata /\ ExactDeadline(stall)
  BY <1>1, ObserveActivityResult
<1>3. /\ run \in RunAttempts
      /\ run.worker = exec.run.worker /\ run.issue = exec.run.issue
      /\ run.path = exec.run.path /\ run.binding = exec.run.binding
      /\ run.attempt = exec.run.attempt
      /\ run.normalRetryCount = exec.run.normalRetryCount
  BY <1>1 DEF RunAttempts
<1>4. exec' = [exec EXCEPT !.run = run, !.stall = stall]
  OBVIOUS
<1> HIDE DEF run, stall
<1>5. /\ exec' \in Executions
      /\ exec'.status = exec.status /\ exec'.run = run /\ exec'.stall = stall
      /\ exec'.retry = exec.retry /\ exec'.reason = exec.reason
      /\ exec'.issue = exec.issue /\ exec'.workspace = exec.workspace
      /\ exec'.interrupt = exec.interrupt
      /\ exec'.last = exec.last /\ exec'.recent = exec.recent
  BY <1>1, <1>2, <1>3, <1>4 DEF Executions
<1>6. PayloadMatches(exec') /\ IsLive(exec) /\ IsLive(exec')
  BY <1>2, <1>3, <1>5, NoneAssumption
     DEF IInv, TypeOK, PayloadMatches, IsLive, ObserveOk
<1>7. NewestOutcomeKept' /\ StallDeadline'
  BY <1>2, <1>5 DEF IInv, NewestOutcomeKept, StallDeadline
<1>8. target' = target /\ spent' = spent /\ target' \in Workers \cup {None}
  BY DEF IInv, TypeOK
<1>. QED  BY <1>3, <1>5, <1>6, <1>7, <1>8, LiveStep

LEMMA RecordTurnStartedKeepsIInv == IInv /\ DoRecordTurnStarted => IInv'
<1> SUFFICES ASSUME IInv, DoRecordTurnStarted PROVE IInv'
  OBVIOUS
<1>1. PICK at \in Times : /\ ObserveOk(exec)
                          /\ exec' = RecordTurnStarted(exec, at)
                          /\ UNCHANGED <<spent, target>>
  BY DEF DoRecordTurnStarted
<1> DEFINE turns == SatAdd(exec.run.turnCount, 1, U32Max)
<1>2. exec \in Executions /\ exec.run \in RunAttempts
  BY <1>1 DEF IInv, TypeOK, PayloadMatches, ObserveOk, IsLive, Executions
<1>3. turns \in U32
  BY <1>2, WidthAssumption DEF RunAttempts, SatAdd, U32
<1>4. exec' = [exec EXCEPT !.run = [exec.run EXCEPT !.turnCount = turns],
                           !.stall = ObserveActivity(exec.stall, at)]
  BY <1>1, <1>2 DEF RecordTurnStarted, Executions
<1>. QED  BY <1>1, <1>3, <1>4, ObserveKeepsIInv

LEMMA ObserveStepKeepsIInv == IInv /\ Observe => IInv'
<1> SUFFICES ASSUME IInv, Observe PROVE IInv'
  OBVIOUS
<1>1. PICK at \in Times : /\ exec' = ObserveOperatorResolution(exec, at)
                          /\ UNCHANGED <<spent, target>>
  BY DEF Observe
<1>2. CASE exec.status = "Running"
  <2>1. /\ exec \in Executions /\ exec.run \in RunAttempts
        /\ exec.run.turnCount \in U32
    BY <1>2 DEF IInv, TypeOK, PayloadMatches, IsLive, Executions, RunAttempts
  <2>2. exec.run = [exec.run EXCEPT !.turnCount = exec.run.turnCount]
    BY <2>1 DEF RunAttempts
  <2>3. exec' = [exec EXCEPT !.stall = ObserveActivity(exec.stall, at)]
    BY <1>1, <1>2 DEF ObserveOperatorResolution, ObserveRuntimeEvent
  <2>4. exec' = [exec EXCEPT
                   !.run = [exec.run EXCEPT !.turnCount = exec.run.turnCount],
                   !.stall = ObserveActivity(exec.stall, at)]
    BY <2>1, <2>2, <2>3 DEF Executions
  <2>. QED  BY <1>1, <1>2, <2>1, <2>4, ObserveKeepsIInv DEF ObserveOk
<1>3. CASE exec.status # "Running"
  <2>1. exec' = exec /\ SameSchedulerState
    BY <1>1, <1>3 DEF ObserveOperatorResolution, SameSchedulerState
  <2>. QED
    BY <1>1, <2>1, QuietStep
       DEF IInv, TypeOK, RunKeepsItsBinding, InterruptBelongsToRun
<1>. QED  BY <1>2, <1>3

LEMMA NewConversationKeepsIInv == IInv /\ NewConversation => IInv'
<1> SUFFICES ASSUME IInv, NewConversation PROVE IInv'
  OBVIOUS
<1>1. PICK c \in Conversations : /\ exec' = UpdateConversation(exec, c)
                                 /\ UNCHANGED <<spent, target>>
  BY DEF NewConversation
<1>2. /\ exec' \in Executions /\ SameSchedulerState
      /\ exec'.last = exec.last /\ exec'.recent = exec.recent
      /\ exec'.issue = exec.issue /\ exec'.workspace = exec.workspace
      /\ exec'.interrupt = exec.interrupt
  BY <1>1 DEF IInv, TypeOK, UpdateConversation, Executions, SameSchedulerState
<1>. QED
  BY <1>1, <1>2, QuietStep
     DEF IInv, TypeOK, RunKeepsItsBinding, InterruptBelongsToRun, IsLive,
         SameSchedulerState

-----------------------------------------------------------------------------
(* Interrupts. *)

\* A step that only replaces the recorded interrupt of a live run.
LEMMA InterruptStep ==
    ASSUME IInv, NEW i \in InterruptStates, exec' = [exec EXCEPT !.interrupt = i],
           spent' = spent, target' \in Workers \cup {None},
           IsLive(exec) => target' = exec.run.worker
    PROVE  IInv'
<1>1. exec' \in Executions
  BY DEF IInv, TypeOK, Executions
<1>2. /\ SameSchedulerState
      /\ exec'.last = exec.last /\ exec'.recent = exec.recent
      /\ exec'.issue = exec.issue /\ exec'.workspace = exec.workspace
  BY DEF IInv, TypeOK, Executions, SameSchedulerState
<1>. QED
  BY <1>1, <1>2, QuietStep
     DEF IInv, RunKeepsItsBinding, InterruptBelongsToRun, IsLive,
         SameSchedulerState

\* The command a live run with a conversation is interrupted with.
LEMMA CommandType ==
    ASSUME NEW e \in Executions, e.conversation # None,
           NEW reason \in InterruptReasons
    PROVE  Command(e, reason, NextFor(reason)) \in InterruptCommands
BY DEF Executions, Command, NextFor, InterruptCommands, NextStates

LEMMA RequestInterruptKeepsIInv == IInv /\ DoRequestInterrupt => IInv'
<1> SUFFICES ASSUME IInv, DoRequestInterrupt PROVE IInv'
  OBVIOUS
<1>1. PICK reason \in InterruptReasons :
        /\ RequestInterruptOk(exec)
        /\ exec' = RequestInterrupt(exec, reason, NextFor(reason))
        /\ target' = IF InterruptQueued(exec) THEN exec.run.worker ELSE target
        /\ UNCHANGED spent
  BY LifecycleAssumption DEF DoRequestInterrupt
<1> DEFINE command == Command(exec, reason, NextFor(reason))
<1>2. /\ exec \in Executions /\ IsLive(exec) /\ exec.run \in RunAttempts
      /\ exec.run.worker \in Workers /\ command \in InterruptCommands
  BY <1>1, CommandType
     DEF IInv, TypeOK, PayloadMatches, RequestInterruptOk, Executions, RunAttempts
<1>3. target' = exec.run.worker
  BY <1>1, <1>2 DEF IInv, InterruptBelongsToRun, InterruptQueued
<1> HIDE DEF command
<1>4. CASE InterruptQueued(exec)
  <2> DEFINE i == [command |-> command, status |-> "Requested"]
  <2>1. i \in InterruptStates
    BY <1>2 DEF InterruptStates, InterruptStatuses
  <2>2. exec' = [exec EXCEPT !.interrupt = i]
    BY <1>1, <1>4 DEF RequestInterrupt, command
  <2>. QED  BY <1>1, <1>2, <1>3, <2>1, <2>2, InterruptStep
<1>5. CASE ~InterruptQueued(exec)
  <2>1. exec.interrupt \in InterruptStates
    BY <1>2, <1>5 DEF InterruptQueued, Executions
  <2>2. CASE exec.interrupt.status = "Acknowledged"
    <3> DEFINE i == [exec.interrupt EXCEPT !.command = command]
    <3>1. i \in InterruptStates
      BY <1>2, <2>1 DEF InterruptStates
    <3>2. exec' = [exec EXCEPT !.interrupt = i]
      BY <1>1, <1>2, <1>5, <2>2 DEF RequestInterrupt, command, Executions
    <3>. QED  BY <1>1, <1>2, <1>3, <3>1, <3>2, InterruptStep
  <2>3. CASE exec.interrupt.status # "Acknowledged"
    <3>1. exec' = [exec EXCEPT !.interrupt = exec.interrupt]
      BY <1>1, <1>2, <1>5, <2>3 DEF RequestInterrupt, Executions
    <3>. QED  BY <1>1, <1>2, <1>3, <2>1, <3>1, InterruptStep
  <2>. QED  BY <2>2, <2>3
<1>. QED  BY <1>4, <1>5

LEMMA RestoreInterruptIntentKeepsIInv == IInv /\ DoRestoreInterruptIntent => IInv'
<1> SUFFICES ASSUME IInv, DoRestoreInterruptIntent PROVE IInv'
  OBVIOUS
<1>1. PICK reason \in InterruptReasons :
        /\ RequestInterruptOk(exec)
        /\ exec' = RestoreInterruptIntent(exec, reason, NextFor(reason))
        /\ target' = exec.run.worker
        /\ UNCHANGED spent
  BY LifecycleAssumption DEF DoRestoreInterruptIntent
<1> DEFINE i == [command |-> Command(exec, reason, NextFor(reason)),
                 status |-> "Failed"]
<1>2. /\ IsLive(exec) /\ exec.run.worker \in Workers
      /\ Command(exec, reason, NextFor(reason)) \in InterruptCommands
  BY <1>1, CommandType
     DEF IInv, TypeOK, PayloadMatches, RequestInterruptOk, Executions, RunAttempts
<1>3. i \in InterruptStates
  BY <1>2 DEF InterruptStates, InterruptStatuses
<1>4. exec' = [exec EXCEPT !.interrupt = i]
  BY <1>1 DEF RestoreInterruptIntent
<1>. QED  BY <1>1, <1>2, <1>3, <1>4, InterruptStep

LEMMA UpdateInterruptKeepsIInv == IInv /\ DoUpdateInterrupt => IInv'
<1> SUFFICES ASSUME IInv, DoUpdateInterrupt PROVE IInv'
  OBVIOUS
<1>1. PICK status \in InterruptStatuses :
        /\ exec.interrupt # None
        /\ exec' = UpdateInterrupt(exec, status)
        /\ UNCHANGED <<spent, target>>
  BY DEF DoUpdateInterrupt, UpdateInterruptOk, InterruptStatuses
<1>2. exec \in Executions /\ exec.interrupt \in InterruptStates
  BY <1>1 DEF IInv, TypeOK, Executions
<1> DEFINE i == IF exec.interrupt.status = "Requested"
                THEN [exec.interrupt EXCEPT !.status = status]
                ELSE exec.interrupt
<1>3. i \in InterruptStates
  BY <1>2 DEF InterruptStates
<1>4. exec' = [exec EXCEPT !.interrupt = i]
  BY <1>1, <1>2 DEF UpdateInterrupt, Executions
<1>5. /\ target' \in Workers \cup {None} /\ spent' = spent
      /\ IsLive(exec) => target' = exec.run.worker
  BY <1>1 DEF IInv, TypeOK, InterruptBelongsToRun
<1> HIDE DEF i
<1>. QED  BY <1>3, <1>4, <1>5, InterruptStep

-----------------------------------------------------------------------------
(* Leaving the live states. *)

\* An outcome made from the current run is well typed.
LEMMA OutcomeType ==
    ASSUME IInv, IsLive(exec), NEW kind \in OutcomeKinds
    PROVE  OutcomeFromRun(exec.run, kind) \in OutcomeRecords
BY DEF IInv, TypeOK, PayloadMatches, Executions, RunAttempts, OutcomeFromRun,
       OutcomeRecords

\* Once the execution is not live and has no queued failure retry, its payload,
\* accounting and history are all that is left of the invariant.
LEMMA IdleStep ==
    ASSUME IInv, exec' \in Executions, PayloadMatches(exec'), ~IsLive(exec'),
           exec'.status = "RetryQueued" =>
              /\ exec'.retry.normalRetryCount = exec'.retry.attempt
              /\ BackoffIsCappedDoubling',
           NewestOutcomeKept', UNCHANGED <<spent, target>>
    PROVE  IInv'
BY DEF IInv, TypeOK, RunKeepsItsBinding, AttemptAccounting,
       InterruptBelongsToRun, StallDeadline, BackoffIsCappedDoubling, IsLive

\* queue_retry is where a run's count and attempt become the retry's.
LEMMA QueueRetryKeepsIInv == IInv /\ DoQueueRetry => IInv' /\ ~IsLive(exec')
<1> SUFFICES ASSUME IInv, DoQueueRetry PROVE IInv' /\ ~IsLive(exec')
  OBVIOUS
<1>1. PICK kind \in OutcomeKinds, at \in Times, reason \in {"Failure", "Continuation"} :
        LET outcome == OutcomeFromRun(exec.run, kind)
            delay == IF reason = "Failure"
                     THEN FailureDelay(After(exec.run.attempt),
                                       FailureBaseDelay, MaxBackoff)
                     ELSE ContinuationDelay
            retry == RetryEntry(exec, reason, at, delay)
        IN  /\ IsLive(exec) /\ AfterOk(exec.run.attempt)
            /\ exec' = QueueRetry(exec, retry, outcome)
            /\ UNCHANGED <<spent, target>>
  <2>1. Inputs.outcomes \subseteq OutcomeKinds
    BY LifecycleAssumption
  <2>2. PICK kind \in Inputs.outcomes, at \in Times, fails \in BOOLEAN :
          LET outcome == OutcomeFromRun(exec.run, kind)
              retry == IF fails
                       THEN RetryEntry(exec, "Failure", at,
                              FailureDelay(After(exec.run.attempt),
                                           FailureBaseDelay, MaxBackoff))
                       ELSE RetryEntry(exec, "Continuation", at, ContinuationDelay)
          IN  /\ IsLive(exec)
              /\ QueueRetryOk(exec, retry, outcome)
              /\ exec' = QueueRetry(exec, retry, outcome)
              /\ UNCHANGED <<spent, target>>
    BY Zenon DEF DoQueueRetry
  <2>3. AfterOk(exec.run.attempt)
    BY <2>2 DEF QueueRetryOk
  <2>4. CASE fails
    BY <2>1, <2>2, <2>3, <2>4
  <2>5. CASE ~fails
    BY <2>1, <2>2, <2>3, <2>5
  <2>. QED  BY <2>4, <2>5
<1> DEFINE outcome == OutcomeFromRun(exec.run, kind)
           delay == IF reason = "Failure"
                    THEN FailureDelay(After(exec.run.attempt),
                                      FailureBaseDelay, MaxBackoff)
                    ELSE ContinuationDelay
           retry == RetryEntry(exec, reason, at, delay)
           e == RecordOutcome(exec, outcome)
<1>2. /\ exec \in Executions /\ exec.run \in RunAttempts
      /\ Len(exec.recent) <= RecentMax
      /\ exec.run.normalRetryCount = exec.run.attempt
      /\ IsLive(exec) /\ AfterOk(exec.run.attempt)
  BY <1>1 DEF IInv, TypeOK, PayloadMatches, Executions, NewestOutcomeKept,
              AttemptAccounting
<1>3. outcome \in OutcomeRecords
  BY <1>1, OutcomeType
<1>4. After(exec.run.attempt) \in RetryAttempts
  BY <1>2, WidthAssumption DEF After, AfterOk, RetryAttempts, RunAttempts, U32
<1>5. delay \in Times
  BY <1>4, FailureDelayType, LifecycleAssumption
<1>6. exec' = ToRetryQueued(e, retry) /\ UNCHANGED <<spent, target>>
  BY <1>1 DEF QueueRetry
<1>7. reason \in RetryReasons
  BY DEF RetryReasons
<1> HIDE DEF delay
<1>8. /\ retry \in RetryEntries
      /\ retry.attempt = After(exec.run.attempt) /\ retry.reason = reason
      /\ retry.scheduledAt = at /\ retry.dueAt = SatAdd(at, delay, TimeMax)
      /\ retry.normalRetryCount = retry.attempt
  BY <1>2, <1>5, <1>7, RetryEntryResult DEF After
<1>9. /\ e \in Executions /\ e.last = outcome
      /\ e.recent # <<>> /\ Len(e.recent) <= RecentMax
      /\ e.recent[Len(e.recent)] = outcome
  BY <1>2, <1>3, RecordOutcomeResult
<1> HIDE DEF e, retry, outcome
<1>10. exec' = [e EXCEPT !.status = "RetryQueued", !.run = None, !.stall = None,
                         !.retry = retry, !.reason = None]
  BY <1>6 DEF ToRetryQueued, WithState
<1>11. /\ exec' \in Executions
       /\ exec'.status = "RetryQueued" /\ exec'.run = None /\ exec'.stall = None
       /\ exec'.retry = retry /\ exec'.reason = None
       /\ exec'.last = e.last /\ exec'.recent = e.recent
  BY <1>8, <1>9, <1>10 DEF Executions, Statuses
<1>12. PayloadMatches(exec') /\ ~IsLive(exec')
  BY <1>8, <1>11, NoneAssumption DEF PayloadMatches, IsLive
<1>13. NewestOutcomeKept'
  BY <1>9, <1>11 DEF NewestOutcomeKept
<1>14. reason = "Failure" =>
         delay = Least(FailureBaseDelay * 2^(After(exec.run.attempt) - 1), MaxBackoff)
  BY <1>4, FailureDelayIsCappedDoubling DEF delay
<1>15. BackoffIsCappedDoubling'
  BY <1>8, <1>11, <1>14 DEF BackoffIsCappedDoubling
<1>. QED  BY <1>6, <1>8, <1>11, <1>12, <1>13, <1>15, IdleStep

LEMMA RestoreRetryKeepsIInv == IInv /\ DoRestoreRetry => IInv'
<1> SUFFICES ASSUME IInv, DoRestoreRetry PROVE IInv'
  OBVIOUS
<1>1. PICK n \in RetryAttempts, at \in Times :
        /\ exec' = RestoreRetry(exec,
                     [issue |-> Issue, attempt |-> n, normalRetryCount |-> n,
                      scheduledAt |-> at, dueAt |-> at, reason |-> "Reconciliation"])
        /\ UNCHANGED <<spent, target>>
  BY DEF DoRestoreRetry
<1> DEFINE retry == [issue |-> Issue, attempt |-> n, normalRetryCount |-> n,
                     scheduledAt |-> at, dueAt |-> at, reason |-> "Reconciliation"]
<1>2. retry \in RetryEntries
  BY LifecycleAssumption, WidthAssumption
     DEF RetryEntries, RetryReasons, RetryAttempts, U32
<1>3. /\ retry.normalRetryCount = retry.attempt /\ retry.reason # "Failure"
      /\ exec \in Executions
  BY DEF IInv, TypeOK
<1>4. exec' = [exec EXCEPT !.status = "RetryQueued", !.run = None, !.stall = None,
                           !.retry = retry, !.reason = None]
  BY <1>1 DEF RestoreRetry, ToRetryQueued, WithState
<1> HIDE DEF retry
<1>5. /\ exec' \in Executions
      /\ exec'.status = "RetryQueued" /\ exec'.run = None /\ exec'.stall = None
      /\ exec'.retry = retry /\ exec'.reason = None
      /\ exec'.last = exec.last /\ exec'.recent = exec.recent
  BY <1>2, <1>3, <1>4 DEF Executions, Statuses
<1>6. PayloadMatches(exec') /\ ~IsLive(exec')
  BY <1>2, <1>5, NoneAssumption DEF PayloadMatches, IsLive
<1>7. NewestOutcomeKept' /\ BackoffIsCappedDoubling'
  BY <1>3, <1>5 DEF IInv, NewestOutcomeKept, BackoffIsCappedDoubling
<1>. QED  BY <1>1, <1>3, <1>5, <1>6, <1>7, IdleStep

\* Releasing a record with a kept history.
LEMMA ReleasedStep ==
    ASSUME IInv, NEW e \in Executions, NEW reason \in ReleaseReasons,
           exec' = ToReleased(e, reason), UNCHANGED <<spent, target>>,
           Len(e.recent) <= RecentMax,
           e.last = IF e.recent = <<>> THEN None ELSE e.recent[Len(e.recent)]
    PROVE  IInv' /\ ~IsLive(exec')
<1>1. exec' = [e EXCEPT !.status = "Released", !.run = None, !.stall = None,
                        !.retry = None, !.reason = reason]
  BY DEF ToReleased, WithState
<1>2. /\ exec' \in Executions
      /\ exec'.status = "Released" /\ exec'.run = None /\ exec'.stall = None
      /\ exec'.retry = None /\ exec'.reason = reason
      /\ exec'.last = e.last /\ exec'.recent = e.recent
  <2>1. /\ "Released" \in Statuses /\ None \in RunAttempts \cup {None}
        /\ None \in StallMetadata \cup {None} /\ None \in RetryEntries \cup {None}
        /\ reason \in ReleaseReasons \cup {None}
    BY DEF Statuses
  <2>2. exec' = WithState(e, "Released", None, None, None, reason)
    BY DEF ToReleased
  <2>. QED  BY <2>1, <2>2, WithStateResult
<1>3. PayloadMatches(exec') /\ ~IsLive(exec')
  BY <1>2, NoneAssumption DEF PayloadMatches, IsLive
<1>4. NewestOutcomeKept'
  BY <1>2 DEF NewestOutcomeKept
<1>. QED  BY <1>2, <1>3, <1>4, IdleStep

LEMMA ReleaseKeepsIInv == IInv /\ DoRelease => IInv' /\ ~IsLive(exec')
<1> SUFFICES ASSUME IInv, DoRelease PROVE IInv' /\ ~IsLive(exec')
  OBVIOUS
<1>1. PICK reason \in ReleaseReasons, kind \in OutcomeKinds \cup {None} :
        /\ kind # None => IsLive(exec)
        /\ exec' = Release(exec, reason, IF kind = None THEN None
                                         ELSE OutcomeFromRun(exec.run, kind))
        /\ UNCHANGED <<spent, target>>
  BY LifecycleAssumption DEF DoRelease
<1>2. exec \in Executions /\ Len(exec.recent) <= RecentMax
  BY DEF IInv, TypeOK, NewestOutcomeKept
<1>3. CASE kind = None
  <2>1. exec' = ToReleased(exec, reason)
    BY <1>1, <1>3 DEF Release
  <2>. QED  BY <1>1, <1>2, <2>1, ReleasedStep DEF IInv, NewestOutcomeKept
<1>4. CASE kind # None
  <2> DEFINE outcome == OutcomeFromRun(exec.run, kind)
             e == RecordOutcome(exec, outcome)
  <2>1. outcome \in OutcomeRecords
    BY <1>1, <1>4, OutcomeType
  <2>2. exec' = ToReleased(e, reason)
    BY <1>1, <1>4, <2>1, NoneAssumption DEF Release
  <2>3. /\ e \in Executions /\ e.last = outcome
        /\ e.recent # <<>> /\ Len(e.recent) <= RecentMax
        /\ e.recent[Len(e.recent)] = outcome
    BY <1>2, <2>1, RecordOutcomeResult
  <2> HIDE DEF e, outcome
  <2>. QED  BY <1>1, <2>2, <2>3, ReleasedStep
<1>. QED  BY <1>3, <1>4

LEMMA ReplaceReleaseReasonKeepsIInv == IInv /\ DoReplaceReleaseReason => IInv'
<1> SUFFICES ASSUME IInv, DoReplaceReleaseReason PROVE IInv'
  OBVIOUS
<1>1. PICK reason \in ReleaseReasons : /\ exec' = ToReleased(exec, reason)
                                       /\ UNCHANGED <<spent, target>>
  BY LifecycleAssumption DEF DoReplaceReleaseReason, ReplaceReleaseReason
<1>. QED  BY <1>1, ReleasedStep DEF IInv, TypeOK, NewestOutcomeKept

LEMMA ReopenKeepsIInv == IInv /\ DoReopen => IInv'
<1> SUFFICES ASSUME IInv, DoReopen PROVE IInv'
  OBVIOUS
<1> DEFINE e == IF PreservesReactivationState(exec.reason) THEN exec
                ELSE [exec EXCEPT !.workspace = None, !.conversation = None,
                                  !.interrupt = None]
<1>1. e \in Executions /\ e.last = exec.last /\ e.recent = exec.recent
  BY DEF IInv, TypeOK, Executions
<1>2. exec' = [e EXCEPT !.status = "Unclaimed", !.run = None, !.stall = None,
                        !.retry = None, !.reason = None]
  BY DEF DoReopen, Reopen, ToUnclaimed, WithState
<1> HIDE DEF e
<1>3. /\ exec' \in Executions
      /\ exec'.status = "Unclaimed" /\ exec'.run = None /\ exec'.stall = None
      /\ exec'.retry = None /\ exec'.reason = None
      /\ exec'.last = exec.last /\ exec'.recent = exec.recent
  BY <1>1, <1>2 DEF Executions, Statuses
<1>4. PayloadMatches(exec') /\ ~IsLive(exec')
  BY <1>3 DEF PayloadMatches, IsLive
<1>5. NewestOutcomeKept' /\ UNCHANGED <<spent, target>>
  BY <1>3 DEF IInv, NewestOutcomeKept, DoReopen
<1>. QED  BY <1>3, <1>4, <1>5, IdleStep

LEMMA RetainOutcomeKeepsIInv == IInv /\ RetainOutcome => IInv'
<1> SUFFICES ASSUME IInv, RetainOutcome PROVE IInv'
  OBVIOUS
<1>1. PICK kind \in OutcomeKinds :
        /\ IsLive(exec)
        /\ exec' = RecordOutcome(exec, OutcomeFromRun(exec.run, kind))
        /\ UNCHANGED <<spent, target>>
  BY LifecycleAssumption DEF RetainOutcome
<1> DEFINE outcome == OutcomeFromRun(exec.run, kind)
<1>2. /\ outcome \in OutcomeRecords /\ exec \in Executions
      /\ Len(exec.recent) <= RecentMax
  BY <1>1, OutcomeType DEF IInv, TypeOK, NewestOutcomeKept
<1> HIDE DEF outcome
<1>3. exec' = RecordOutcome(exec, outcome)
  BY <1>1 DEF outcome
<1>4. /\ exec' \in Executions /\ exec'.last = outcome
      /\ exec'.recent # <<>> /\ Len(exec'.recent) <= RecentMax
      /\ exec'.recent[Len(exec'.recent)] = outcome
      /\ exec'.interrupt = None <=> exec.interrupt = None
      /\ exec'.issue = exec.issue /\ exec'.workspace = exec.workspace
      /\ exec'.status = exec.status /\ exec'.run = exec.run
      /\ exec'.stall = exec.stall /\ exec'.retry = exec.retry
      /\ exec'.reason = exec.reason
  BY <1>2, <1>3, RecordOutcomeResult
<1>5. PayloadMatches(exec') /\ IsLive(exec')
  BY <1>1, <1>4 DEF IInv, TypeOK, PayloadMatches, IsLive
<1>6. NewestOutcomeKept' /\ StallDeadline'
  BY <1>4 DEF IInv, NewestOutcomeKept, StallDeadline
<1>7. target' = target /\ spent' = spent /\ target' \in Workers \cup {None}
  BY <1>1 DEF IInv, TypeOK
<1>. QED  BY <1>1, <1>4, <1>5, <1>6, <1>7, LiveStep

LEMMA SetRetryCountOverrideKeepsIInv == IInv /\ DoSetRetryCountOverride => IInv'
<1> SUFFICES ASSUME IInv, DoSetRetryCountOverride PROVE IInv'
  OBVIOUS
<1>1. /\ exec' \in Executions /\ SameSchedulerState
      /\ exec'.last = exec.last /\ exec'.recent = exec.recent
      /\ exec'.issue = exec.issue /\ exec'.workspace = exec.workspace
      /\ exec'.interrupt = exec.interrupt
      /\ spent' = spent /\ target' = target
  BY DEF IInv, TypeOK, DoSetRetryCountOverride, SetRetryCountOverride, Executions,
         SameSchedulerState
<1>. QED
  BY <1>1, QuietStep
     DEF IInv, TypeOK, RunKeepsItsBinding, InterruptBelongsToRun, IsLive,
         SameSchedulerState

\* Every call on the record keeps the invariant.
LEMMA NextKeepsIInv == IInv /\ [Next]_vars => IInv'
<1> SUFFICES ASSUME IInv, [Next]_vars PROVE IInv'
  OBVIOUS
<1>1. CASE UNCHANGED vars
  BY <1>1
     DEF vars, IInv, TypeOK, PayloadMatches, RunKeepsItsBinding,
         AttemptAccounting, InterruptBelongsToRun, NewestOutcomeKept,
         StallDeadline, BackoffIsCappedDoubling, IsLive
<1>2. CASE Next
  BY <1>2, RefreshKeepsIInv, AttachKeepsIInv, ClearKeepsIInv, ClaimKeepsIInv,
     StartRunningKeepsIInv, RecordTurnStartedKeepsIInv, ObserveStepKeepsIInv,
     NewConversationKeepsIInv, RequestInterruptKeepsIInv,
     RestoreInterruptIntentKeepsIInv, UpdateInterruptKeepsIInv,
     QueueRetryKeepsIInv, RestoreRetryKeepsIInv, ReleaseKeepsIInv,
     ReplaceReleaseReasonKeepsIInv, ReopenKeepsIInv, RetainOutcomeKeepsIInv,
     SetRetryCountOverrideKeepsIInv
     DEF Next
<1>. QED  BY <1>1, <1>2

LEMMA IInvHolds == Spec => []IInv
BY InitIInv, NextKeepsIInv, PTL DEF Spec

-----------------------------------------------------------------------------
(* The theorems. *)

\* Attempt numbers, retry counts and deadlines never leave their machine words,
\* and every status carries exactly the payload of its enum variant.
THEOREM TypeCorrect == Spec => []TypeOK
<1>1. IInv => TypeOK
  BY DEF IInv
<1>. QED  BY <1>1, IInvHolds, PTL

\* A live run keeps the directory, issue and repository it was claimed with.
THEOREM BindingSafety == Spec => []RunKeepsItsBinding
<1>1. IInv => RunKeepsItsBinding
  BY DEF IInv
<1>. QED  BY <1>1, IInvHolds, PTL

\* The retry budget of a run or a queued retry is its attempt number, so
\* max_retry_attempts bounds attempts and not something that drifts from them.
THEOREM AccountingSafety == Spec => []AttemptAccounting
<1>1. IInv => AttemptAccounting
  BY DEF IInv
<1>. QED  BY <1>1, IInvHolds, PTL

\* No interrupt outlives the run it was raised against.
THEOREM InterruptSafety == Spec => []InterruptBelongsToRun
<1>1. IInv => InterruptBelongsToRun
  BY DEF IInv
<1>. QED  BY <1>1, IInvHolds, PTL

\* The outcome history is bounded and ends with the last outcome.
THEOREM HistorySafety == Spec => []NewestOutcomeKept
<1>1. IInv => NewestOutcomeKept
  BY DEF IInv
<1>. QED  BY <1>1, IInvHolds, PTL

\* The stall deadline follows the latest signal by the idle timeout.
THEOREM DeadlineSafety == Spec => []StallDeadline
<1>1. IInv => StallDeadline
  BY DEF IInv
<1>. QED  BY <1>1, IInvHolds, PTL

\* Failure retries are due after the mathematically exact capped backoff.
THEOREM BackoffSafety == Spec => []BackoffIsCappedDoubling
<1>1. IInv => BackoffIsCappedDoubling
  BY DEF IInv
<1>. QED  BY <1>1, IInvHolds, PTL

-----------------------------------------------------------------------------
(* Two properties of steps. *)

\* The steps of a live run that stays live.  All others start or end a run.
RunStep ==
    \/ Refresh \/ Attach \/ DoStartRunning \/ DoRecordTurnStarted \/ Observe
    \/ NewConversation \/ DoRequestInterrupt \/ DoRestoreInterruptIntent
    \/ DoUpdateInterrupt \/ RetainOutcome \/ DoSetRetryCountOverride

LEMMA OnlyRunSteps == IInv /\ Next /\ SameRun => RunStep
<1> SUFFICES ASSUME IInv, Next, SameRun PROVE RunStep
  OBVIOUS
<1>1. IsLive(exec) /\ IsLive(exec') /\ exec \in Executions
  BY DEF SameRun, IInv, TypeOK
<1>2. ~Clear
  BY <1>1 DEF Clear, IsLive
<1>3. ~DoRestoreRetry /\ ~DoReplaceReleaseReason
  BY <1>1 DEF DoRestoreRetry, RestoreRetryOk, DoReplaceReleaseReason,
              ReplaceReleaseReasonOk, IsLive
<1>4. ~DoReopen
  BY <1>1 DEF DoReopen, ReopenOk, IsLive
<1>5. ~DoClaim
  BY <1>1 DEF DoClaim, ClaimOk, IsLive
<1>6. ~DoRelease /\ ~DoQueueRetry
  BY <1>1, ReleaseKeepsIInv, QueueRetryKeepsIInv
<1>. QED  BY <1>2, <1>3, <1>4, <1>5, <1>6 DEF Next, RunStep

\* Late or repeated reports about an acknowledged stop do not undo it, whatever
\* else happens to the run.
THEOREM AcknowledgementSafety == Spec => AcknowledgedStopSticks
<1>1. ASSUME IInv, [Next]_vars, SameRun, exec.interrupt # None,
             exec.interrupt.status = "Acknowledged"
      PROVE  exec'.interrupt # None /\ exec'.interrupt.status = "Acknowledged"
  <2>1. exec \in Executions /\ exec.interrupt \in InterruptStates
    BY <1>1 DEF IInv, TypeOK, Executions
  <2>2. CASE exec'.interrupt = exec.interrupt
    BY <1>1, <2>2
  <2>3. CASE DoRequestInterrupt
    <3>1. PICK reason \in InterruptReasons :
            /\ RequestInterruptOk(exec)
            /\ exec' = RequestInterrupt(exec, reason, NextFor(reason))
      BY <2>3, LifecycleAssumption DEF DoRequestInterrupt
    <3> DEFINE command == Command(exec, reason, NextFor(reason))
               i == [exec.interrupt EXCEPT !.command = command]
    <3>2. command \in InterruptCommands
      BY <2>1, <3>1, CommandType DEF RequestInterruptOk
    <3> HIDE DEF command
    <3>3. i \in InterruptStates /\ i.status = "Acknowledged"
      BY <1>1, <2>1, <3>2 DEF InterruptStates
    <3>4. exec' = [exec EXCEPT !.interrupt.command = command]
      BY <1>1, <3>1 DEF RequestInterrupt, InterruptQueued, command
    <3>5. exec'.interrupt = i
      BY <2>1, <3>4 DEF Executions
    <3>. QED  BY <3>3, <3>5, NoneAssumption
  <2>4. CASE DoUpdateInterrupt
    BY <1>1, <2>4 DEF DoUpdateInterrupt, UpdateInterrupt
  <2>5. CASE RetainOutcome
    <3>1. PICK o : exec' = RecordOutcome(exec, o)
      BY <2>5 DEF RetainOutcome
    <3>2. exec'.interrupt = exec.interrupt
      BY <1>1, <2>1, <3>1 DEF RecordOutcome, Executions
    <3>. QED  BY <1>1, <3>2
  <2>6. CASE DoStartRunning
    <3>1. exec'.interrupt = exec.interrupt
      BY <2>1, <2>6 DEF DoStartRunning, StartRunning, WithState, Executions
    <3>. QED  BY <1>1, <3>1
  <2>7. CASE Refresh \/ Attach \/ NewConversation \/ DoSetRetryCountOverride
    <3>1. exec'.interrupt = exec.interrupt
      BY <2>1, <2>7
         DEF Refresh, RefreshIssue, Attach, AttachWorkspace, NewConversation,
             UpdateConversation, DoSetRetryCountOverride, SetRetryCountOverride,
             Executions
    <3>. QED  BY <1>1, <3>1
  <2>8. CASE DoRecordTurnStarted \/ Observe
    <3>1. exec'.interrupt = exec.interrupt
      BY <2>1, <2>8
         DEF DoRecordTurnStarted, RecordTurnStarted, Observe,
             ObserveOperatorResolution, ObserveRuntimeEvent, Executions
    <3>. QED  BY <1>1, <3>1
  <2>9. CASE DoRestoreInterruptIntent
    BY <1>1, <2>9 DEF DoRestoreInterruptIntent
  <2>. QED
    BY <1>1, <2>2, <2>3, <2>4, <2>5, <2>6, <2>7, <2>8, <2>9, OnlyRunSteps
       DEF RunStep, vars
<1>. QED  BY <1>1, IInvHolds, PTL DEF Spec, AcknowledgedStopSticks

\* Events delivered out of order never bring the stall of a run forward.
THEOREM DeadlineMonotone == Spec => DeadlineNeverPulledBack
<1>1. ASSUME IInv, [Next]_vars, SameRun, exec.status = "Running"
      PROVE  exec'.stall.stalledAt >= exec.stall.stalledAt
  <2>1. /\ exec \in Executions /\ exec.stall \in StallMetadata
        /\ ExactDeadline(exec.stall)
    BY <1>1 DEF IInv, TypeOK, PayloadMatches, Executions, StallDeadline
  <2>2. CASE exec'.stall = exec.stall
    BY <2>1, <2>2 DEF StallMetadata, Times
  <2>3. CASE DoRecordTurnStarted \/ Observe
    <3>1. PICK at \in Times : exec'.stall = ObserveActivity(exec.stall, at)
      BY <1>1, <2>1, <2>3
         DEF DoRecordTurnStarted, RecordTurnStarted, Observe,
             ObserveOperatorResolution, ObserveRuntimeEvent, Executions
    <3>. QED  BY <2>1, <3>1, ObserveActivityResult
  <2>4. CASE DoRequestInterrupt \/ DoRestoreInterruptIntent \/ DoUpdateInterrupt
    <3>1. exec'.stall = exec.stall
      BY <2>1, <2>4
         DEF DoRequestInterrupt, RequestInterrupt, DoRestoreInterruptIntent,
             RestoreInterruptIntent, DoUpdateInterrupt, UpdateInterrupt, Executions
    <3>. QED  BY <2>2, <3>1
  <2>5. CASE RetainOutcome
    <3>1. exec'.stall = exec.stall
      BY <2>1, <2>5 DEF RetainOutcome, RecordOutcome, Executions
    <3>. QED  BY <2>2, <3>1
  <2>6. CASE Refresh \/ Attach \/ NewConversation \/ DoSetRetryCountOverride
    <3>1. exec'.stall = exec.stall
      BY <2>1, <2>6
         DEF Refresh, RefreshIssue, Attach, AttachWorkspace, NewConversation,
             UpdateConversation, DoSetRetryCountOverride, SetRetryCountOverride,
             Executions
    <3>. QED  BY <2>2, <3>1
  <2>7. ~DoStartRunning
    BY <1>1 DEF DoStartRunning, StartRunningOk
  <2>. QED
    BY <1>1, <2>2, <2>3, <2>4, <2>5, <2>6, <2>7, OnlyRunSteps DEF RunStep, vars
<1>. QED  BY <1>1, IInvHolds, PTL DEF Spec, DeadlineNeverPulledBack
=============================================================================
