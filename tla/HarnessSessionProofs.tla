------------------------ MODULE HarnessSessionProofs ------------------------
(***************************************************************************)
(* Theorems about HarnessSession: what the runtime stream promises to the  *)
(* runner that reads it, and what the runner's reports are worth, for      *)
(* every length of the log and every number of closed sockets,             *)
(* reconnections and crashes.  What holds only where some failures are     *)
(* left out says which.                                                    *)
(***************************************************************************)
EXTENDS HarnessSession, TLAPS, WellFoundedInduction

(* An attempt is counted while it lasts. *)
DialInv == dial # "no" => tries # 0

(* Unless the deadline drops frames that were read, the stream misses nothing. *)
LinkInv == "Tight" \notin Failing => StreamMissesNothing

IInv ==
    /\ log \in Seq(Events) /\ tries \in Nat
    /\ DialInv
    /\ StreamDeliversOnce
    /\ LinkInv

(* What a step of the runner leaves alone when it neither reads nor writes events. *)
Quiet ==
    /\ pc # "done"
    /\ UNCHANGED <<log, sock, wire, cache, pend, dial, tries, given>>

LEMMA InitInv == Init => IInv
  <1> SUFFICES ASSUME Init PROVE IInv
    OBVIOUS
  <1>1. \A k \in Kinds : Event(k, FALSE) \in Events
    BY DEF Event, Events
  <1>2. PICK h \in Histories : log = History(h)
    BY DEF Init
  <1>3. log \in Seq(Events)
    <2> DEFINE idle == Event("idle", FALSE)
               running == Event("running", FALSE)
               finished == Event("finished", FALSE)
    <2>1. idle \in Events /\ running \in Events /\ finished \in Events
      BY <1>1 DEF Kinds, Statuses
    <2> HIDE DEF idle, running, finished
    <2>2. <<idle>> \in Seq(Events) /\ <<running>> \in Seq(Events)
          /\ <<running, finished>> \in Seq(Events)
      BY <2>1
    <2>3. log = <<idle>> \/ log = <<running>> \/ log = <<running, finished>>
      BY <1>2 DEF History, idle, running, finished
    <2>4. QED
      BY <2>2, <2>3
  <1>4. dial = "refresh" /\ tries = 1 /\ pend = {} /\ given = {} /\ cache = {}
    BY DEF Init
  <1>5. QED
    BY <1>3, <1>4 DEF IInv, DialInv, StreamDeliversOnce, LinkInv, StreamMissesNothing

LEMMA QuietKeeps == IInv /\ Quiet => IInv'
  BY DEF IInv, Quiet, DialInv, StreamDeliversOnce, LinkInv, StreamMissesNothing, Ids

(* What the server appends reaches an open socket. *)
LEMMA PublishKeeps ==
    ASSUME NEW k \in Kinds, NEW m \in BOOLEAN, IInv, Publish(k, m), pc # "done" \/ pc' = pc,
           UNCHANGED <<sock, cache, pend, dial, tries, given>>
    PROVE  IInv'
  <1>1. Event(k, m) \in Events
    BY DEF Event, Events
  <1>2. log' \in Seq(Events) /\ Len(log') = Len(log) + 1 /\ Len(log) \in Nat
    BY <1>1 DEF IInv, Publish
  <1>3. Ids' = Ids \cup {Len(log) + 1}
    BY <1>2 DEF Ids
  <1>4. LinkInv'
    BY <1>3 DEF IInv, LinkInv, StreamMissesNothing, Publish
  <1>5. QED
    BY <1>2, <1>4 DEF IInv, DialInv, StreamDeliversOnce

(* What is pushed is cached, and queued unless it was cached before. *)
LEMMA PushKeeps ==
    ASSUME NEW S, IInv, Push(S), pc # "done", wire \subseteq wire' \cup S,
           UNCHANGED <<log, sock, dial, tries, given>>
    PROVE  IInv'
  <1>1. StreamDeliversOnce'
    BY DEF IInv, StreamDeliversOnce, Push
  <1>2. LinkInv'
    BY DEF IInv, LinkInv, StreamMissesNothing, Push, Ids
  <1>3. QED
    BY <1>1, <1>2 DEF IInv, DialInv

-----------------------------------------------------------------------------
LEMMA EnvironmentKeeps == IInv /\ Environment => IInv'
  <1> SUFFICES ASSUME IInv, Environment PROVE IInv'
    OBVIOUS
  <1>1. CASE Announce
    BY <1>1, PublishKeeps DEF Announce, ServerStep, Mine, Kinds, Statuses, stream, dialer
  <1>2. CASE Work
    BY <1>2, PublishKeeps DEF Work, ServerStep, Mine, Kinds, Statuses, stream, dialer
  <1>3. CASE Finish
    BY <1>3, PublishKeeps DEF Finish, ServerStep, Mine, Kinds, Statuses, stream, dialer
  <1>4. CASE FailLate
    BY <1>4, PublishKeeps DEF FailLate, Kinds, stream, dialer
  <1>5. CASE Drop
    BY <1>5 DEF Drop, IInv, DialInv, StreamDeliversOnce, LinkInv, StreamMissesNothing, Ids,
                server, stream, dialer
  <1>6. QED
    BY <1>1, <1>2, <1>3, <1>4, <1>5 DEF Environment

LEMMA NextEventKeeps == IInv /\ NextEvent => IInv'
  <1> SUFFICES ASSUME IInv, NextEvent PROVE IInv'
    OBVIOUS
  <1>0. Polling => pc # "done"
    BY DEF Polling, InStream, Waiting
  <1>1. CASE Absorb
    <2>1. PICK S : Push(S) /\ wire' = wire \ S
      BY <1>1 DEF Absorb
    <2>2. QED
      BY <1>0, <1>1, <2>1, PushKeeps DEF Absorb, server, dialer
  <1>2. CASE Closed
    BY <1>2 DEF Closed, Redialled, IInv, DialInv, StreamDeliversOnce, LinkInv,
                StreamMissesNothing, server, dialer
  <1>3. CASE Redial
    BY <1>3 DEF Redial, Redialled, IInv, DialInv, StreamDeliversOnce, LinkInv,
                StreamMissesNothing, server, link
  <1>4. CASE Deliver
    <2>1. PICK e \in pend : pend' = pend \ {e} /\ given' = given \cup {e}
      BY <1>4 DEF Deliver
    <2>2. StreamDeliversOnce'
      BY <1>4, <2>1 DEF Deliver, IInv, StreamDeliversOnce
    <2>3. QED
      BY <1>0, <1>4, <2>2 DEF Deliver, IInv, DialInv, LinkInv, StreamMissesNothing, Ids,
                              server, link, dialer
  <1>5. CASE Ended
    BY <1>0, <1>5, QuietKeeps DEF Ended, Quiet, server, link, stream, dialer
  <1>6. QED
    BY <1>1, <1>2, <1>3, <1>4, <1>5 DEF NextEvent

LEMMA DialKeeps == IInv /\ Dial => IInv'
  <1> SUFFICES ASSUME IInv, Dial PROVE IInv'
    OBVIOUS
  <1>0. Dialling => dial # "no" /\ tries # 0 /\ pc # "done"
    BY DEF Dialling, InStream, Waiting, IInv, DialInv
  <1>1. CASE Refreshed
    BY <1>0, <1>1 DEF Refreshed, DialNext, IInv, DialInv, StreamDeliversOnce, LinkInv,
                      StreamMissesNothing, server, link
  <1>2. CASE Connected
    BY <1>0, <1>2 DEF Connected, DialNext, IInv, DialInv, StreamDeliversOnce, LinkInv,
                      StreamMissesNothing, server
  <1>3. CASE Searched
    <2>1. StreamDeliversOnce'
      BY <1>3 DEF Searched, IInv, StreamDeliversOnce
    <2>2. LinkInv'
      BY <1>3 DEF Searched, LinkInv, StreamMissesNothing, Ids, server
    <2>3. QED
      BY <1>3, <2>1, <2>2 DEF Searched, DialNext, IInv, DialInv, server
  <1>4. CASE DialFails
    <2>1. UNCHANGED <<log, sock, wire, cache, pend, given>>
      BY <1>4 DEF DialFails, server, link, stream
    <2>2. CASE NoSession /\ UNCHANGED tries /\ dial' = "no"
      BY <1>0, <1>4, <2>1, <2>2 DEF DialFails, NoSession, IInv, DialInv, StreamDeliversOnce, LinkInv,
                             StreamMissesNothing, Ids
    <2>3. CASE dial' = "refresh" /\ tries' = tries + 1
      BY <2>1, <2>3 DEF IInv, DialInv, StreamDeliversOnce, LinkInv, StreamMissesNothing, Ids
    <2>4. CASE dial' = "no" /\ tries' = tries
      BY <1>0, <1>4, <2>1, <2>4 DEF DialFails, IInv, DialInv, StreamDeliversOnce, LinkInv,
                             StreamMissesNothing, Ids
    <2>5. QED
      BY <1>4, <2>2, <2>3, <2>4 DEF DialFails
  <1>5. CASE DialCut
    BY <1>0, <1>5 DEF DialCut, IInv, DialInv, StreamDeliversOnce, LinkInv,
                      StreamMissesNothing, Ids, server, link, stream
  <1>6. QED
    BY <1>1, <1>2, <1>3, <1>4, <1>5 DEF Dial

LEMMA DeadlineKeeps == IInv /\ Deadline => IInv'
  <1> SUFFICES ASSUME IInv, Deadline PROVE IInv'
    OBVIOUS
  <1>0. Polling => pc # "done"
    BY DEF Polling, InStream, Waiting
  <1>1. CASE FramesLost
    BY <1>1 DEF FramesLost, IInv, DialInv, StreamDeliversOnce, LinkInv, StreamMissesNothing,
                server, stream, dialer
  <1>2. CASE Tick \/ ConfirmDeadline \/ Stall \/ WaitDeadline
    <2>1. Quiet
      BY <1>0, <1>2 DEF Tick, ConfirmDeadline, Stall, WaitDeadline, Expired, Still, Quiet,
                        server, link, stream, dialer
    <2>2. QED
      BY <2>1, QuietKeeps
  <1>3. QED
    BY <1>1, <1>2 DEF Deadline

LEMMA RunnerKeeps == IInv /\ Runner => IInv'
  <1> SUFFICES ASSUME IInv, Runner PROVE IInv'
    OBVIOUS
  <1>1. CASE Attached \/ Record \/ Check
    <2>1. Quiet
      BY <1>1 DEF Attached, Record, Check, Still, Quiet, server, link, stream, dialer
    <2>2. QED
      BY <2>1, QuietKeeps
  <1>2. CASE Send
    <2>1. pc # "done" /\ UNCHANGED <<sock, cache, pend, dial, tries, given>>
      BY <1>2 DEF Send, stream, dialer
    <2>2. CASE Publish("other", TRUE)
      BY <2>1, <2>2, PublishKeeps DEF Kinds
    <2>3. CASE Unheard
      BY <2>1, <2>3, QuietKeeps DEF Unheard, Quiet, server
    <2>4. QED
      BY <1>2, <2>2, <2>3 DEF Send, Prompted
  <1>3. CASE Trigger
    <2>1. pc # "done" /\ UNCHANGED <<sock, cache, pend, dial, tries, given>>
      BY <1>3 DEF Trigger, stream, dialer
    <2>2. CASE Publish("running", TRUE)
      BY <2>1, <2>2, PublishKeeps DEF Kinds, Statuses
    <2>3. CASE UNCHANGED <<log, wire>>
      BY <2>1, <2>3, QuietKeeps DEF Quiet
    <2>4. QED
      BY <1>3, <2>2, <2>3 DEF Trigger, Started, Unheard, server
  <1>4. CASE Backlog \/ Resync
    <2>1. pc # "done" /\ UNCHANGED <<log, sock, wire, dial, tries, given>>
      BY <1>4 DEF Backlog, Resync, server, link, dialer
    <2>2. CASE Push(Ids)
      BY <2>1, <2>2, PushKeeps
    <2>3. CASE UNCHANGED stream
      BY <2>1, <2>3, QuietKeeps DEF Quiet, stream
    <2>4. QED
      BY <1>4, <2>2, <2>3 DEF Backlog, Resync, Refetched
  <1>5. CASE Reconcile
    <2>1. pc # "done" /\ UNCHANGED <<log, sock, wire, dial, tries, given>>
      BY <1>5 DEF Reconcile, server, link, dialer
    <2>2. CASE Push(Ids)
      BY <2>1, <2>2, PushKeeps
    <2>3. CASE UNCHANGED stream
      BY <2>1, <2>3, QuietKeeps DEF Quiet, stream
    <2>4. QED
      BY <1>5, <2>2, <2>3 DEF Reconcile
  <1>6. QED
    BY <1>1, <1>2, <1>3, <1>4, <1>5 DEF Runner

LEMMA CrashKeeps == IInv /\ Crash => IInv'
  BY DEF Crash, IInv, DialInv, StreamDeliversOnce, LinkInv, StreamMissesNothing, server

LEMMA NextKeeps == IInv /\ [Next]_vars => IInv'
  <1>1. IInv /\ UNCHANGED vars => IInv'
    BY DEF vars, server, link, stream, dialer, IInv, DialInv, StreamDeliversOnce, LinkInv,
           StreamMissesNothing, Ids
  <1>2. QED
    BY <1>1, EnvironmentKeeps, NextEventKeeps, DialKeeps, DeadlineKeeps, RunnerKeeps, CrashKeeps
       DEF Next

(* The inductive invariant of the stream.                                   *)
THEOREM StreamInvariant == Spec => []IInv
  BY InitInv, NextKeeps, PTL DEF Spec

(* next_event returns no event twice and forgets none: what the cache holds *)
(* has been returned or is queued (client.rs: push_new_events).             *)
THEOREM DeliversOnce == Spec => []StreamDeliversOnce
  <1>1. IInv => StreamDeliversOnce
    BY DEF IInv
  <1>2. QED
    BY <1>1, StreamInvariant, PTL

(* The order of a reconnection, events after readiness, leaves no gap       *)
(* between the reconciled events and those of the new socket, as long as no *)
(* deadline drops frames that were read.                                    *)
THEOREM MissesNothing == Spec => []("Tight" \notin Failing => StreamMissesNothing)
  <1>1. IInv => ("Tight" \notin Failing => StreamMissesNothing)
    BY DEF IInv, LinkInv
  <1>2. QED
    BY <1>1, StreamInvariant, PTL
-----------------------------------------------------------------------------
(* Types.  What the newest event of a set is needs a largest element: that  *)
(* a set of naturals has a least one, applied to the upper bounds.          *)

LEMMA Least ==
    ASSUME NEW T, T \subseteq Nat, T # {}
    PROVE  \E m \in T : \A n \in T : m <= n
  <1> DEFINE R == OpToRel(<, Nat)
  <1>1. IsWellFoundedOn(R, Nat)
    BY NatLessThanWellFounded
  <1>2. \A x, y \in Nat : x < y => <<x, y>> \in R
    BY DEF OpToRel
  <1> HIDE DEF R
  <1>3. PICK m \in T : \A n \in T : ~ (<<n, m>> \in R)
    BY <1>1, WFMin, Zenon
  <1>4. \A n \in T : ~(n < m)
    <2> TAKE n \in T
    <2>1. n \in Nat /\ m \in Nat /\ ~ (<<n, m>> \in R)
      BY <1>3
    <2>2. QED
      BY <1>2, <2>1, Zenon
  <1>5. QED
    BY <1>4

LEMMA Greatest ==
    ASSUME NEW n \in Nat, NEW S \in SUBSET (1..n), S # {}
    PROVE  \E m \in S : \A e \in S : e <= m
  <1> DEFINE T == {m \in Nat : \A e \in S : e <= m}
  <1>1. n \in T
    OBVIOUS
  <1>2. PICK m \in T : \A k \in T : m <= k
    BY <1>1, Least
  <1>3. m \in S
    <2> SUFFICES ASSUME m \notin S PROVE FALSE
      OBVIOUS
    <2>0. PICK e \in S : TRUE
      OBVIOUS
    <2>1. m \in Nat /\ m >= 1 /\ m - 1 \in Nat
      BY <2>0
    <2>2. \A f \in S : f <= m - 1
      BY <2>1
    <2>3. m - 1 \in T
      BY <2>1, <2>2
    <2>4. QED
      BY <1>2, <2>1, <2>3
  <1>4. QED
    BY <1>2, <1>3

LEMMA NewestIs ==
    ASSUME log \in Seq(Events), NEW S \in SUBSET Ids, S # {}
    PROVE  Newest(S) \in S /\ \A f \in S : f <= Newest(S)
  <1>1. Len(log) \in Nat /\ S \in SUBSET (1..Len(log))
    BY DEF Ids
  <1>2. \E e \in S : \A f \in S : f <= e
    BY <1>1, Greatest, Zenon
  <1>3. QED
    BY <1>2 DEF Newest

LEMMA LastOfIs ==
    ASSUME log \in Seq(Events), NEW S \in SUBSET Ids
    PROVE  /\ LastOf(S) \in 0..Len(log)
           /\ S # {} => LastOf(S) \in S /\ \A f \in S : f <= LastOf(S)
  <1>1. CASE S = {}
    <2>1. LastOf(S) = 0 /\ Len(log) \in Nat
      BY <1>1 DEF LastOf
    <2>2. QED
      BY <1>1, <2>1
  <1>2. CASE S # {}
    <2>1. LastOf(S) = Newest(S)
      BY <1>2 DEF LastOf
    <2>2. Newest(S) \in S /\ \A f \in S : f <= Newest(S)
      BY <1>2, NewestIs
    <2>3. Len(log) \in Nat /\ Newest(S) \in Ids
      BY <2>2
    <2>4. Newest(S) \in 0..Len(log)
      BY <2>3 DEF Ids
    <2>5. QED
      BY <2>1, <2>2, <2>4, Zenon
  <1>3. QED
    BY <1>1, <1>2

(* An execution status is the default, or that of an update in the log.     *)
LEMMA StatusIs ==
    ASSUME log \in Seq(Events), NEW S \in SUBSET Ids
    PROVE  /\ StatusOf(S) \in Statuses
           /\ Updates(S) = {} => StatusOf(S) = "idle"
           /\ Updates(S) # {} => \E u \in Updates(S) : /\ StatusOf(S) = log[u].kind
                                                       /\ \A f \in Updates(S) : f <= u
  <1>1. Updates(S) \in SUBSET Ids
    BY DEF Updates
  <1>2. CASE Updates(S) = {}
    BY <1>2 DEF StatusOf, Statuses
  <1>3. CASE Updates(S) # {}
    <2>1. Newest(Updates(S)) \in Updates(S) /\ \A f \in Updates(S) : f <= Newest(Updates(S))
      BY <1>1, <1>3, NewestIs
    <2>2. StatusOf(S) = log[Newest(Updates(S))].kind
      BY <1>3 DEF StatusOf
    <2>3. log[Newest(Updates(S))].kind \in Statuses
      BY <2>1 DEF Updates
    <2>4. QED
      BY <1>3, <2>1, <2>2, <2>3
  <1>4. QED
    BY <1>2, <1>3

(* The mirror is rebuilt from the conversation, the cache and the barrier.  *)
LEMMA RebuiltIs ==
    ASSUME NEW cv, NEW S, NEW rd
    PROVE  \/ Rebuilt(cv, S, rd) = cv
           \/ Rebuilt(cv, S, rd) = StatusOf(S)
           \/ rd # NoReady /\ Rebuilt(cv, S, rd) = rd.status
  BY DEF Rebuilt, Barrier, Fallback

Early    == {"attach", "attached", "send", "trigger", "backlog", "waitPrior", "waitConflict"}
Launched == {"record", "resync", "check", "await", "confirm", "reconcile"}
Outcomes == {"Succeeded", "Failed", "Stalled", "NoSession"}

ServerTypes ==
    /\ Len(log) > 0
    /\ busy \in {"no", "prior", "mine"} /\ announced \in BOOLEAN

(* A run request is accepted at most once between two crashes. *)
RunTypes ==
    /\ runs \in Nat /\ crashes \in 0..MaxCrashes /\ runs <= crashes + 1
    /\ pc \in Early => runs <= crashes

StreamTypes ==
    /\ sock \in {"none", "up", "broken"} /\ wire \subseteq Ids
    /\ conv \in Statuses /\ mirror \in Statuses
    /\ ready = NoReady \/ ready \in [at : Ids, status : Statuses]
    /\ cache \subseteq Ids /\ redial \in BOOLEAN
    /\ dial \in {"no", "refresh", "connect", "search"} /\ tries \in 0..MaxTries
    /\ told \subseteq cache

RunnerTypes ==
    /\ pc \in Early \cup Launched \cup {"done"}
    /\ baseline \subseteq Ids /\ marker \in 0..Len(log)
    /\ rec \in BOOLEAN /\ waited \in BOOLEAN /\ pending \in BOOLEAN
    /\ why \in {"none", "stalled", "ended", "exhausted"}
    /\ \/ out = NoOut /\ pc # "done"
       \/ out.kind \in Outcomes /\ pc = "done"

TypeInv == IInv /\ ServerTypes /\ RunTypes /\ StreamTypes /\ RunnerTypes

LEMMA TypesCorrect == TypeInv => TypeOK
  <1> SUFFICES ASSUME TypeInv PROVE TypeOK
    OBVIOUS
  <1>1. \A e \in Ids : log[e] \in Events
    BY DEF TypeInv, IInv, Ids
  <1>2. pend \subseteq cache /\ given \subseteq cache
    BY DEF TypeInv, IInv, StreamDeliversOnce
  <1>3. runs \in 0..(1 + MaxCrashes)
    BY HarnessAssumption DEF TypeInv, RunTypes
  <1>4. (out # NoOut) <=> pc = "done"
    BY DEF TypeInv, RunnerTypes, NoOut, Outcomes
  <1>5. out.kind \in {"none", "Succeeded", "Failed", "Stalled", "NoSession"}
    BY DEF TypeInv, RunnerTypes, NoOut, Outcomes
  <1>6. QED
    BY <1>1, <1>2, <1>3, <1>4, <1>5 DEF TypeInv, ServerTypes, StreamTypes, RunnerTypes, TypeOK

(* The log only grows. *)
Grown ==
    /\ Len(log) \in Nat /\ Len(log') \in Nat /\ Len(log) <= Len(log')
    /\ log' \in Seq(Events)
    /\ Ids \subseteq Ids'
    /\ \A e \in Ids : log'[e] = log[e]

Written(k, m) ==
    /\ Grown
    /\ Len(log') = Len(log) + 1 /\ Ids' = Ids \cup {Len(log) + 1}
    /\ log'[Len(log) + 1] = Event(k, m)

LEMMA PublishWrites ==
    ASSUME NEW k \in Kinds, NEW m \in BOOLEAN, log \in Seq(Events), Publish(k, m)
    PROVE  Written(k, m)
  <1>1. Event(k, m) \in Events
    BY DEF Event, Events
  <1>2. log' = Append(log, Event(k, m))
    BY DEF Publish
  <1>3. /\ log' \in Seq(Events) /\ Len(log') = Len(log) + 1 /\ Len(log) \in Nat
        /\ \A e \in 1..Len(log) : log'[e] = log[e]
        /\ log'[Len(log) + 1] = Event(k, m)
    BY <1>1, <1>2
  <1>4. Ids' = Ids \cup {Len(log) + 1}
    BY <1>3 DEF Ids
  <1>5. QED
    BY <1>3, <1>4 DEF Written, Grown, Ids

LEMMA SameLog == log \in Seq(Events) /\ log' = log => Grown /\ Ids' = Ids
  BY DEF Grown, Ids

(* What each step does to the log. *)
LEMMA LogStep ==
    ASSUME log \in Seq(Events), [Next]_vars
    PROVE  log' = log \/ \E k \in Kinds \ {"idle"}, m \in BOOLEAN : Publish(k, m)
  <1>1. CASE Environment
    BY <1>1 DEF Environment, Announce, Work, Finish, FailLate, Drop, ServerStep, Mine, Kinds,
                Statuses, server
  <1>2. CASE NextEvent
    BY <1>2 DEF NextEvent, Absorb, Closed, Redial, Deliver, Ended, server
  <1>3. CASE Dial
    BY <1>3 DEF Dial, Refreshed, Connected, Searched, DialFails, DialCut, server
  <1>4. CASE Deadline
    BY <1>4 DEF Deadline, Tick, ConfirmDeadline, Stall, WaitDeadline, FramesLost, Still, server
  <1>5. CASE Send \/ Trigger
    BY <1>5 DEF Send, Trigger, Prompted, Unheard, Started, Kinds, Statuses, server
  <1>6. CASE Attached \/ Backlog \/ Record \/ Resync \/ Check \/ Reconcile
    BY <1>6 DEF Attached, Backlog, Record, Resync, Check, Reconcile, Still, server
  <1>7. CASE Crash
    BY <1>7 DEF Crash, server
  <1>8. CASE UNCHANGED vars
    BY <1>8 DEF vars, server
  <1>9. QED
    BY <1>1, <1>2, <1>3, <1>4, <1>5, <1>6, <1>7, <1>8 DEF Next, Runner

LEMMA LogGrows ==
    ASSUME log \in Seq(Events), [Next]_vars
    PROVE  Grown
  BY LogStep, PublishWrites, SameLog DEF Written

LEMMA RebuiltType ==
    ASSUME log \in Seq(Events), NEW cv \in Statuses, NEW S \in SUBSET Ids, NEW rd,
           rd = NoReady \/ rd \in [at : Ids, status : Statuses]
    PROVE  Rebuilt(cv, S, rd) \in Statuses
  <1>1. StatusOf(S) \in Statuses
    BY StatusIs
  <1>2. rd # NoReady => rd.status \in Statuses
    OBVIOUS
  <1>3. QED
    BY <1>1, <1>2, RebuiltIs

LEMMA PushTypes ==
    ASSUME TypeInv, NEW S \in SUBSET Ids, Push(S)
    PROVE  cache' \subseteq Ids /\ mirror' \in Statuses /\ conv' = conv /\ ready' = ready
           /\ redial' = redial /\ cache \subseteq cache'
  <1>1. cache' \in SUBSET Ids /\ cache \subseteq cache'
    BY DEF TypeInv, StreamTypes, Push
  <1>2. Rebuilt(conv, cache', ready) \in Statuses
    BY <1>1, RebuiltType DEF TypeInv, IInv, StreamTypes
  <1>3. QED
    BY <1>1, <1>2 DEF TypeInv, StreamTypes, Push

(* How a step of the runner may end. *)
Proceeds ==
    /\ pc # "done"
    /\ \/ \E p \in Early \cup Launched : Goto(p)
       \/ \E k \in Outcomes, r \in {"finished", "prior", "send", "trigger", "error", "failed",
                                    "none", "stalled", "ended", "exhausted"} : Finalize(k, r)
       \/ NoSession
       \/ AfterWait
       \/ /\ pc' = "reconcile" /\ why' \in {"stalled", "ended", "exhausted"}
          /\ UNCHANGED <<rec, baseline, waited, out, disk>>

LEMMA ProceedsTypes ==
    ASSUME TypeInv, Grown, cache' \subseteq Ids, Proceeds
    PROVE  RunnerTypes'
  <1>1. LastOf(cache') \in 0..Len(log)
    BY LastOfIs DEF TypeInv, IInv
  <1>2. LastOf(cache') \in 0..Len(log') /\ cache' \subseteq Ids' /\ baseline \subseteq Ids'
        /\ marker \in 0..Len(log')
    BY <1>1 DEF TypeInv, RunnerTypes, Grown, Ids
  <1>3. CASE \E p \in Early \cup Launched : Goto(p)
    BY <1>2, <1>3 DEF Proceeds, TypeInv, RunnerTypes, Goto, disk, Early, Launched
  <1>4. CASE \E k \in Outcomes, r \in {"finished", "prior", "send", "trigger", "error", "failed",
                                       "none", "stalled", "ended", "exhausted"} : Finalize(k, r)
    <2>1. PICK k \in Outcomes, r \in {"finished", "prior", "send", "trigger", "error", "failed",
                                      "none", "stalled", "ended", "exhausted"} : Finalize(k, r)
      BY <1>4
    <2>2. out'.kind \in Outcomes /\ pc' = "done"
      BY <2>1 DEF Finalize
    <2>3. QED
      BY <1>2, <2>1, <2>2 DEF TypeInv, RunnerTypes, Finalize
  <1>5. CASE NoSession
    <2>1. out'.kind \in Outcomes /\ pc' = "done"
      BY <1>5 DEF NoSession, Outcomes
    <2>2. QED
      BY <1>2, <1>5, <2>1 DEF TypeInv, RunnerTypes, NoSession, disk
  <1>6. CASE AfterWait
    <2>1. pc' \in {"send", "trigger"} /\ baseline' \subseteq Ids' /\ marker' \in 0..Len(log')
      BY <1>2, <1>6 DEF AfterWait
    <2>2. UNCHANGED <<rec, waited, why, out, pending>> /\ out = NoOut
      BY <1>6 DEF AfterWait, Proceeds, TypeInv, RunnerTypes
    <2>3. QED
      BY <2>1, <2>2 DEF TypeInv, RunnerTypes, Early
  <1>7. CASE /\ pc' = "reconcile" /\ why' \in {"stalled", "ended", "exhausted"}
             /\ UNCHANGED <<rec, baseline, waited, out, disk>>
    BY <1>2, <1>7 DEF Proceeds, TypeInv, RunnerTypes, disk, Launched
  <1>8. QED
    BY <1>3, <1>4, <1>5, <1>6, <1>7 DEF Proceeds

LEMMA RunnerSame ==
    ASSUME TypeInv, Grown, UNCHANGED <<pc, rec, baseline, waited, why, out, disk>>
    PROVE  RunnerTypes'
  BY DEF TypeInv, RunnerTypes, Grown, disk, Ids

LEMMA StreamSame ==
    ASSUME TypeInv, Grown, wire' \subseteq Ids', sock' \in {"none", "up", "broken"},
           UNCHANGED <<conv, ready, cache, redial, mirror, dial, tries, told>>
    PROVE  StreamTypes'
  <1>1. ready' = NoReady \/ ready' \in [at : Ids', status : Statuses]
    BY DEF TypeInv, StreamTypes, Grown
  <1>2. QED
    BY <1>1 DEF TypeInv, StreamTypes, Grown

LEMMA CountsSame ==
    ASSUME TypeInv, UNCHANGED <<runs, crashes>>, pc' \in Early => pc \in Early
    PROVE  RunTypes'
  BY DEF TypeInv, RunTypes

LEMMA PublishStep ==
    ASSUME TypeInv, NEW k \in Kinds, NEW m \in BOOLEAN, Publish(k, m), UNCHANGED sock
    PROVE  Grown /\ wire' \subseteq Ids' /\ sock' \in {"none", "up", "broken"}
           /\ Len(log') > 0
  <1>1. Written(k, m)
    BY PublishWrites DEF TypeInv, IInv
  <1>2. wire' \subseteq Ids'
    BY <1>1 DEF Publish, Written, TypeInv, StreamTypes
  <1>3. QED
    BY <1>1, <1>2 DEF Written, Grown, TypeInv, StreamTypes, ServerTypes

LEMMA ReturnedProceeds ==
    ASSUME NEW e, InStream, Returned(e)
    PROVE  Proceeds /\ (pc' \in Early => pc \in Early)
  <1>1. pc # "done" /\ pc \in Early \cup Launched
    BY DEF InStream, Waiting, Early, Launched
  <1>2. CASE pc = "await" /\ Goto("check")
    BY <1>1, <1>2 DEF Proceeds, Early, Launched, Goto
  <1>3. CASE pc = "confirm" /\ Goto(IF CurrentError \/ mirror # "finished" THEN "await" ELSE "confirm")
    BY <1>1, <1>3 DEF Proceeds, Early, Launched, Goto
  <1>4. CASE Waiting /\ AfterWait
    BY <1>1, <1>4 DEF Proceeds, Waiting, Early
  <1>5. CASE Waiting /\ Goto(pc)
    BY <1>1, <1>5 DEF Proceeds, Waiting, Early
  <1>6. QED
    BY <1>2, <1>3, <1>4, <1>5 DEF Returned

LEMMA WaitFailedProceeds ==
    ASSUME pc # "done", WaitFailed
    PROVE  Proceeds /\ pc' \notin Early
  BY DEF WaitFailed, Proceeds, NoSession, Finalize, Early, Outcomes

LEMMA BrokenProceeds ==
    ASSUME NEW reason \in {"ended", "exhausted"}, InStream, Broken(reason)
    PROVE  Proceeds /\ (pc' \in Early => pc \in Early) /\ told' = told
  <1>1. pc # "done" /\ pc \in Early \cup Launched
    BY DEF InStream, Waiting, Early, Launched
  <1>2. CASE pc = "await" /\ pc' = "reconcile" /\ why' = reason
             /\ UNCHANGED <<rec, baseline, waited, out, disk>>
    BY <1>1, <1>2 DEF Proceeds, Early, Broken
  <1>3. CASE pc = "confirm" /\ Finalize("Succeeded", "finished")
    BY <1>1, <1>3 DEF Proceeds, Early, Outcomes, Finalize, Broken
  <1>4. CASE Waiting /\ AfterWait
    BY <1>1, <1>4 DEF Proceeds, Waiting, Early, Broken
  <1>5. CASE Waiting /\ WaitFailed
    BY <1>1, <1>5, WaitFailedProceeds DEF Broken
  <1>6. QED
    BY <1>2, <1>3, <1>4, <1>5 DEF Broken

(* IInv' is known of every step. *)
LEMMA TypesTogether ==
    ASSUME TypeInv, [Next]_vars, ServerTypes', RunTypes', StreamTypes', RunnerTypes'
    PROVE  TypeInv'
  BY NextKeeps DEF TypeInv

LEMMA EnvironmentTypes == TypeInv /\ Environment => TypeInv'
  <1> SUFFICES ASSUME TypeInv, Environment PROVE TypeInv'
    OBVIOUS
  <1>1. CASE Announce \/ Work \/ Finish \/ FailLate
    <2>1. /\ \E k \in Kinds, m \in BOOLEAN : Publish(k, m)
          /\ UNCHANGED <<runs, sock, stream, dialer, given, pc, turn, disk, count>>
          /\ busy' \in {"no", "prior", "mine"} /\ announced' \in BOOLEAN
      BY <1>1 DEF Announce, Work, Finish, FailLate, ServerStep, Mine, Kinds, Statuses,
                  TypeInv, ServerTypes
    <2>2. Grown /\ wire' \subseteq Ids' /\ sock' \in {"none", "up", "broken"} /\ Len(log') > 0
      BY <2>1, PublishStep
    <2>3. ServerTypes'
      BY <2>1, <2>2 DEF ServerTypes
    <2>4. StreamTypes'
      BY <2>1, <2>2, StreamSame DEF stream, dialer, turn
    <2>5. RunTypes' /\ RunnerTypes'
      BY <2>1, <2>2, CountsSame, RunnerSame DEF turn, count, disk
    <2>6. QED
      BY <2>3, <2>4, <2>5, TypesTogether DEF Next
  <1>2. CASE Drop
    <2>1. /\ sock' = "broken" /\ wire' \subseteq wire
          /\ UNCHANGED <<server, stream, dialer, given, pc, turn, disk, crashes>>
      BY <1>2 DEF Drop
    <2>2. Grown /\ Ids' = Ids
      BY <2>1, SameLog DEF TypeInv, IInv, server
    <2>3. ServerTypes'
      BY <2>1 DEF TypeInv, ServerTypes, server
    <2>4. StreamTypes'
      BY <2>1, <2>2, StreamSame DEF stream, dialer, turn, TypeInv, StreamTypes
    <2>5. RunTypes' /\ RunnerTypes'
      BY <2>1, <2>2, CountsSame, RunnerSame DEF turn, server, disk
    <2>6. QED
      BY <2>3, <2>4, <2>5, TypesTogether DEF Next
  <1>3. QED
    BY <1>1, <1>2 DEF Environment

LEMMA NextEventTypes == TypeInv /\ NextEvent => TypeInv'
  <1> SUFFICES ASSUME TypeInv, NextEvent PROVE TypeInv'
    OBVIOUS
  <1>0. server' = server /\ crashes' = crashes
    BY DEF NextEvent, Absorb, Closed, Redial, Deliver, Ended, count
  <1>1. Grown /\ Ids' = Ids
    BY <1>0, SameLog DEF TypeInv, IInv, server
  <1>2. ServerTypes'
    BY <1>0 DEF TypeInv, ServerTypes, server
  <1>3. CASE Absorb
    <2>1. PICK S \in SUBSET wire : Push(S) /\ wire' = wire \ S
      BY <1>3 DEF Absorb
    <2>2. S \in SUBSET Ids
      BY DEF TypeInv, StreamTypes
    <2>3. cache' \subseteq Ids /\ mirror' \in Statuses /\ conv' = conv /\ ready' = ready
          /\ redial' = redial /\ cache \subseteq cache'
      BY <2>1, <2>2, PushTypes
    <2>4. UNCHANGED <<sock, dialer, given, pc, turn, disk>>
      BY <1>3 DEF Absorb
    <2>5. StreamTypes'
      BY <1>1, <2>1, <2>3, <2>4 DEF TypeInv, StreamTypes, dialer, turn
    <2>6. RunTypes' /\ RunnerTypes'
      BY <1>0, <1>1, <2>4, CountsSame, RunnerSame DEF turn, server
    <2>7. QED
      BY <1>2, <2>5, <2>6, TypesTogether DEF Next, NextEvent
  <1>4. CASE Closed \/ Redial
    <2>1. /\ UNCHANGED <<conv, cache, pend, mirror, given, pc, turn, disk>> /\ wire' = wire
          /\ sock' \in {"none", "up", "broken"} /\ redial' \in BOOLEAN
          /\ (ready' = NoReady \/ ready' = ready)
          /\ dial' \in {dial, "refresh"} /\ tries' \in {1, tries}
      BY <1>4 DEF Closed, Redial, Redialled, link, dialer, TypeInv, StreamTypes
    <2>2. tries' \in 0..MaxTries
      BY <2>1, HarnessAssumption DEF TypeInv, StreamTypes
    <2>3. StreamTypes'
      BY <1>1, <2>1, <2>2 DEF TypeInv, StreamTypes, turn
    <2>4. RunTypes' /\ RunnerTypes'
      BY <1>0, <1>1, <2>1, CountsSame, RunnerSame DEF turn, server
    <2>5. QED
      BY <1>2, <1>4, <2>3, <2>4, TypesTogether DEF Next, NextEvent
  <1>5. CASE Deliver
    <2>1. /\ UNCHANGED <<link, conv, ready, cache, redial, mirror, dialer>>
          /\ InStream
      BY <1>5 DEF Deliver, Polling
    <2>2. PICK e \in pend : Returned(e)
      BY <1>5 DEF Deliver
    <2>3. Proceeds /\ (pc' \in Early => pc \in Early) /\ told' \subseteq told \cup {e}
      BY <2>1, <2>2, ReturnedProceeds DEF Returned
    <2>4. e \in cache
      BY <2>2 DEF TypeInv, IInv, StreamDeliversOnce
    <2>5. StreamTypes'
      BY <1>1, <2>1, <2>3, <2>4 DEF TypeInv, StreamTypes, link, dialer
    <2>6. RunTypes' /\ RunnerTypes'
      BY <1>0, <1>1, <2>1, <2>3, CountsSame, ProceedsTypes DEF server, TypeInv, StreamTypes
    <2>7. QED
      BY <1>2, <2>5, <2>6, TypesTogether DEF Next, NextEvent
  <1>6. CASE Ended
    <2>1. /\ UNCHANGED <<link, stream, dialer>>
          /\ InStream /\ Broken("ended")
      BY <1>6 DEF Ended, Polling
    <2>2. Proceeds /\ (pc' \in Early => pc \in Early) /\ told' = told
      BY <2>1, BrokenProceeds
    <2>3. StreamTypes'
      BY <1>1, <2>1, <2>2 DEF TypeInv, StreamTypes, link, dialer, stream
    <2>4. RunTypes' /\ RunnerTypes'
      BY <1>0, <1>1, <2>1, <2>2, CountsSame, ProceedsTypes DEF server, TypeInv, StreamTypes, stream
    <2>5. QED
      BY <1>2, <2>3, <2>4, TypesTogether DEF Next, NextEvent
  <1>7. QED
    BY <1>3, <1>4, <1>5, <1>6 DEF NextEvent

LEMMA DialTypes == TypeInv /\ Dial => TypeInv'
  <1> SUFFICES ASSUME TypeInv, Dial PROVE TypeInv'
    OBVIOUS
  <1>0. server' = server /\ crashes' = crashes
    BY DEF Dial, Refreshed, Connected, Searched, DialFails, DialCut, count
  <1>1. Grown /\ Ids' = Ids
    BY <1>0, SameLog DEF TypeInv, IInv, server
  <1>2. ServerTypes'
    BY <1>0 DEF TypeInv, ServerTypes, server
  <1>3. ServerStatus \in Statuses
    BY StatusIs DEF TypeInv, IInv, ServerStatus
  <1>4. CASE Refreshed
    <2>1. conv' \in Statuses /\ Rebuilt(conv', cache, ready) \in Statuses
      BY <1>3, <1>4, RebuiltType DEF Refreshed, TypeInv, IInv, StreamTypes
    <2>2. StreamTypes'
      BY <1>1, <1>4, <2>1 DEF Refreshed, DialNext, TypeInv, StreamTypes, link, turn
    <2>3. RunTypes' /\ RunnerTypes'
      BY <1>0, <1>1, <1>4, CountsSame, RunnerSame DEF Refreshed, turn, server
    <2>4. QED
      BY <1>2, <1>4, <2>2, <2>3, TypesTogether DEF Next, Dial
  <1>5. CASE Connected
    <2>1. Len(log) \in Ids
      BY DEF TypeInv, IInv, ServerTypes, Ids
    <2>2. ready' \in [at : Ids, status : Statuses]
      BY <1>3, <1>5, <2>1 DEF Connected
    <2>3. StreamTypes'
      BY <1>1, <1>5, <2>2 DEF Connected, DialNext, TypeInv, StreamTypes, turn
    <2>4. RunTypes' /\ RunnerTypes'
      BY <1>0, <1>1, <1>5, CountsSame, RunnerSame DEF Connected, turn, server
    <2>5. QED
      BY <1>2, <1>5, <2>3, <2>4, TypesTogether DEF Next, Dial
  <1>6. CASE Searched
    <2>1. cache' \in SUBSET Ids /\ cache \subseteq cache'
      BY <1>6 DEF Searched, TypeInv, StreamTypes
    <2>2. Rebuilt(conv, cache', ready) \in Statuses
      BY <2>1, RebuiltType DEF TypeInv, IInv, StreamTypes
    <2>3. StreamTypes'
      BY <1>1, <1>6, <2>1, <2>2, HarnessAssumption
         DEF Searched, DialNext, TypeInv, StreamTypes, link, turn
    <2>4. RunTypes'
      BY <1>0, <1>6, CountsSame DEF Searched, server, Early
    <2>5. RunnerTypes'
      BY <1>1, <1>6 DEF Searched, turn, disk, TypeInv, RunnerTypes, Early, Grown
    <2>6. QED
      BY <1>2, <1>6, <2>3, <2>4, <2>5, TypesTogether DEF Next, Dial
  <1>7. CASE DialFails
    <2>1. UNCHANGED <<link, stream>>
      BY <1>7 DEF DialFails
    <2>2. CASE pc = "attach" /\ NoSession /\ dial' = "no" /\ UNCHANGED <<tries, told>>
      <3>1. Proceeds /\ pc' = "done"
        BY <2>2 DEF Proceeds, NoSession
      <3>2. StreamTypes'
        BY <1>1, <2>1, <2>2 DEF TypeInv, StreamTypes, link, stream
      <3>3. RunTypes' /\ RunnerTypes'
        BY <1>0, <1>1, <2>1, <3>1, CountsSame, ProceedsTypes
           DEF server, stream, TypeInv, StreamTypes, Early
      <3>4. QED
        BY <1>2, <1>7, <3>2, <3>3, TypesTogether DEF Next, Dial
    <2>3. CASE /\ tries < MaxTries /\ dial' = "refresh" /\ tries' = tries + 1
               /\ UNCHANGED <<pc, turn, disk>>
      <3>1. tries' \in 0..MaxTries
        BY <2>3, HarnessAssumption DEF TypeInv, StreamTypes
      <3>2. StreamTypes'
        BY <1>1, <2>1, <2>3, <3>1 DEF TypeInv, StreamTypes, link, stream, turn
      <3>3. RunTypes' /\ RunnerTypes'
        BY <1>0, <1>1, <2>3, CountsSame, RunnerSame DEF server, turn
      <3>4. QED
        BY <1>2, <1>7, <3>2, <3>3, TypesTogether DEF Next, Dial
    <2>4. CASE InStream /\ Broken("exhausted") /\ dial' = "no" /\ tries' = tries
      <3>1. Proceeds /\ (pc' \in Early => pc \in Early) /\ told' = told
        BY <2>4, BrokenProceeds
      <3>2. StreamTypes'
        BY <1>1, <2>1, <2>4, <3>1 DEF TypeInv, StreamTypes, link, stream
      <3>3. RunTypes' /\ RunnerTypes'
        BY <1>0, <1>1, <2>1, <3>1, CountsSame, ProceedsTypes
           DEF server, stream, TypeInv, StreamTypes
      <3>4. QED
        BY <1>2, <1>7, <3>2, <3>3, TypesTogether DEF Next, Dial
    <2>5. QED
      BY <1>7, <2>2, <2>3, <2>4 DEF DialFails
  <1>8. CASE DialCut
    <2>1. UNCHANGED <<link, stream, tries>> /\ dial' = "no" /\ told' = told
      BY <1>8 DEF DialCut
    <2>2. Proceeds /\ (pc' \in Early => pc \in Early)
      <3>1. pc # "done"
        BY <1>8 DEF DialCut, InStream, Waiting
      <3>2. CASE Waiting /\ WaitFailed
        BY <3>1, <3>2, WaitFailedProceeds
      <3>3. CASE ~(Waiting /\ WaitFailed)
        BY <1>8, <3>1, <3>3 DEF DialCut, Proceeds, Goto, Finalize, Early, Launched, Outcomes
      <3>4. QED
        BY <3>2, <3>3
    <2>3. StreamTypes'
      BY <1>1, <2>1, <2>2 DEF TypeInv, StreamTypes, link, stream
    <2>4. RunTypes' /\ RunnerTypes'
      BY <1>0, <1>1, <2>1, <2>2, CountsSame, ProceedsTypes DEF server, stream, TypeInv, StreamTypes
    <2>5. QED
      BY <1>2, <1>8, <2>3, <2>4, TypesTogether DEF Next, Dial
  <1>9. QED
    BY <1>4, <1>5, <1>6, <1>7, <1>8 DEF Dial

(* A step of the runner that leaves the stream and the server alone. *)
LEMMA QuietTypes ==
    ASSUME TypeInv, Next, Proceeds, pc' \in Early => pc \in Early,
           UNCHANGED <<server, sock, stream, dialer, told, crashes>>, wire' \subseteq wire
    PROVE  TypeInv'
  <1>1. Grown /\ Ids' = Ids
    BY SameLog DEF TypeInv, IInv, server
  <1>2. ServerTypes' /\ StreamTypes'
    BY <1>1 DEF TypeInv, ServerTypes, StreamTypes, server, stream, dialer
  <1>3. RunTypes' /\ RunnerTypes'
    BY <1>1, CountsSame, ProceedsTypes DEF server, stream, TypeInv, StreamTypes
  <1>4. QED
    BY <1>2, <1>3, TypesTogether

LEMMA DeadlineTypes == TypeInv /\ Deadline => TypeInv'
  <1> SUFFICES ASSUME TypeInv, Deadline PROVE TypeInv'
    OBVIOUS
  <1>1. Polling /\ pc # "done"
    BY DEF Deadline, Tick, ConfirmDeadline, Stall, WaitDeadline, FramesLost, Expired, Polling,
           InStream, Waiting
  <1>2. UNCHANGED <<server, sock, stream, dialer, told, crashes>> /\ wire' \subseteq wire
    BY DEF Deadline, Tick, ConfirmDeadline, Stall, WaitDeadline, FramesLost, Still, count, link
  <1>3. Proceeds /\ (pc' \in Early => pc \in Early)
    <2>1. CASE WaitDeadline
      BY <1>1, <2>1, WaitFailedProceeds DEF WaitDeadline
    <2>2. CASE Tick \/ FramesLost
      BY <1>1, <2>2 DEF Tick, FramesLost, Goto, Proceeds, Early, Launched
    <2>3. CASE ConfirmDeadline
      BY <1>1, <2>3 DEF ConfirmDeadline, Finalize, Proceeds, Early, Outcomes
    <2>4. CASE Stall
      BY <1>1, <2>4 DEF Stall, Proceeds, Early
    <2>5. QED
      BY <2>1, <2>2, <2>3, <2>4 DEF Deadline
  <1>4. QED
    BY <1>2, <1>3, QuietTypes DEF Next

LEMMA RunnerTypesKept == TypeInv /\ Runner => TypeInv'
  <1> SUFFICES ASSUME TypeInv, Runner PROVE TypeInv'
    OBVIOUS
  <1>0. cache \subseteq Ids
    BY DEF TypeInv, StreamTypes
  <1>1. CASE Attached
    <2>1. UNCHANGED <<server, link, stream, dialer, told, crashes>>
      BY <1>1 DEF Attached, count
    <2>2. Grown /\ Ids' = Ids
      BY <2>1, SameLog DEF TypeInv, IInv, server
    <2>3. ServerTypes' /\ StreamTypes'
      BY <2>1, <2>2 DEF TypeInv, ServerTypes, StreamTypes, server, link, stream, dialer
    <2>4. RunTypes'
      BY <1>1, <2>1, CountsSame DEF Attached, server, Early
    <2>5. RecoveryBaseline \subseteq cache
      BY DEF RecoveryBaseline
    <2>6. LastOf(cache) \in 0..Len(log)
      BY <1>0, LastOfIs DEF TypeInv, IInv
    <2>7. pc' \in Early \cup Launched /\ baseline' \subseteq Ids /\ waited' \in BOOLEAN
          /\ out' = NoOut
      BY <1>0, <1>1, <2>5 DEF Attached, Early, Launched, TypeInv, RunnerTypes
    <2>8. UNCHANGED <<rec, why, pending>> /\ marker' = LastOf(cache) /\ log' = log
      BY <1>1, <2>1 DEF Attached, server
    <2>9. RunnerTypes'
      BY <2>2, <2>6, <2>7, <2>8 DEF TypeInv, RunnerTypes, Early, Launched
    <2>10. QED
      BY <2>3, <2>4, <2>9, TypesTogether DEF Next
  <1>2. CASE Send
    <2>1. UNCHANGED <<sock, stream, dialer, told, crashes, runs>> /\ pc # "done"
      BY <1>2 DEF Send, count, Prompted, Unheard, server
    <2>2. UNCHANGED <<busy, announced>>
      BY <1>2 DEF Send, Prompted, Unheard, server
    <2>3. Grown /\ wire' \subseteq Ids' /\ sock' \in {"none", "up", "broken"} /\ Len(log') > 0
      <3>1. CASE Prompted
        BY <2>1, <3>1, PublishStep DEF Prompted, Kinds
      <3>2. CASE Unheard
        BY <2>1, <3>2, SameLog DEF Unheard, server, TypeInv, IInv, StreamTypes, ServerTypes
      <3>3. QED
        BY <1>2, <3>1, <3>2 DEF Send
    <2>4. ServerTypes' /\ StreamTypes'
      BY <2>1, <2>2, <2>3, StreamSame DEF TypeInv, ServerTypes, stream, dialer
    <2>5. CASE pc' = "trigger" /\ pending' = TRUE
               /\ UNCHANGED <<rec, baseline, waited, why, out, marker>>
      <3>1. RunTypes'
        BY <1>2, <2>1, <2>5, CountsSame DEF Send, Early
      <3>2. RunnerTypes'
        BY <2>1, <2>3, <2>5 DEF TypeInv, RunnerTypes, Early, Grown, Ids
      <3>3. QED
        BY <1>2, <2>4, <3>1, <3>2, TypesTogether DEF Next, Runner
    <2>6. CASE Finalize("Failed", "send")
      <3>1. Proceeds /\ pc' \notin Early
        BY <2>1, <2>6 DEF Proceeds, Outcomes, Finalize, Early
      <3>2. RunTypes' /\ RunnerTypes'
        BY <1>0, <2>1, <2>3, <3>1, CountsSame, ProceedsTypes DEF stream
      <3>3. QED
        BY <1>2, <2>4, <3>2, TypesTogether DEF Next, Runner
    <2>7. QED
      BY <1>2, <2>5, <2>6 DEF Send
  <1>3. CASE Trigger
    <2>1. UNCHANGED <<sock, stream, dialer, told, crashes>> /\ pc = "trigger"
      BY <1>3 DEF Trigger, count
    <2>2. Started \/ Unheard
      BY <1>3 DEF Trigger
    <2>3. Grown /\ wire' \subseteq Ids' /\ sock' \in {"none", "up", "broken"} /\ Len(log') > 0
      <3>1. CASE Publish("running", TRUE)
        BY <2>1, <3>1, PublishStep DEF Kinds, Statuses
      <3>2. CASE UNCHANGED <<log, wire>>
        BY <2>1, <3>2, SameLog DEF TypeInv, IInv, StreamTypes, ServerTypes
      <3>3. QED
        BY <2>2, <3>1, <3>2 DEF Started, Unheard, server
    <2>4. busy' \in {"no", "prior", "mine"} /\ announced' \in BOOLEAN
      BY <2>2 DEF Started, Unheard, server, TypeInv, ServerTypes
    <2>5. ServerTypes' /\ StreamTypes'
      BY <2>1, <2>3, <2>4, StreamSame DEF TypeInv, ServerTypes, stream, dialer
    <2>6. CASE Started
      <3>1. Proceeds /\ pc' \notin Early
        <4>1. CASE Goto("record")
          BY <2>1, <4>1 DEF Goto, Proceeds, Early, Launched
        <4>2. CASE TriggerFailed
          BY <2>1, <4>2 DEF TriggerFailed, Proceeds, NoSession, Finalize, Early, Outcomes
        <4>3. QED
          BY <1>3, <2>6, <4>1, <4>2 DEF Trigger, Started, Unheard, server
      <3>2. runs' = runs + 1
        BY <2>6 DEF Started
      <3>3. RunTypes'
        BY <2>1, <3>1, <3>2 DEF TypeInv, RunTypes, Early
      <3>4. RunnerTypes'
        BY <1>0, <2>1, <2>3, <3>1, ProceedsTypes DEF stream
      <3>5. QED
        BY <1>3, <2>5, <3>3, <3>4, TypesTogether DEF Next, Runner
    <2>7. CASE Unheard
      <3>1. runs' = runs
        BY <2>7 DEF Unheard, server
      <3>2. RunTypes'
        BY <2>1, <3>1, CountsSame DEF Early
      <3>3. CASE /\ pc' = "backlog" /\ waited' = TRUE
                 /\ UNCHANGED <<rec, baseline, why, out, disk>>
        <4>1. RunnerTypes'
          BY <2>1, <2>3, <3>3 DEF TypeInv, RunnerTypes, Early, Grown, Ids, disk
        <4>2. QED
          BY <1>3, <2>5, <3>2, <4>1, TypesTogether DEF Next, Runner
      <3>4. CASE NoSession \/ TriggerFailed
        <4>1. Proceeds
          BY <2>1, <3>4 DEF TriggerFailed, Proceeds, Outcomes
        <4>2. RunnerTypes'
          BY <1>0, <2>1, <2>3, <4>1, ProceedsTypes DEF stream
        <4>3. QED
          BY <1>3, <2>5, <3>2, <4>2, TypesTogether DEF Next, Runner
      <3>5. busy' = busy
        BY <2>7 DEF Unheard, server
      <3>6. ~Started
        BY <3>5 DEF Started
      <3>7. QED
        BY <1>3, <3>3, <3>4, <3>6 DEF Trigger
    <2>8. QED
      BY <2>2, <2>6, <2>7
  <1>4. CASE Backlog \/ Resync \/ Reconcile
    <2>1. UNCHANGED <<server, link, dialer, crashes>>
      BY <1>4 DEF Backlog, Resync, Reconcile, count
    <2>2. Grown /\ Ids' = Ids
      BY <2>1, SameLog DEF TypeInv, IInv, server
    <2>3. Push(Ids) \/ UNCHANGED stream
      BY <1>4 DEF Backlog, Resync, Reconcile, Refetched
    <2>4. cache' \subseteq Ids /\ mirror' \in Statuses /\ conv' = conv /\ ready' = ready
          /\ redial' = redial /\ cache \subseteq cache'
      BY <1>0, <2>3, PushTypes DEF stream, TypeInv, StreamTypes
    <2>5. told' = told \/ (Push(Ids) /\ told' \subseteq told \cup Ids)
      BY <1>4 DEF Backlog, Resync, Reconcile
    <2>6. told' \subseteq cache'
      BY <2>4, <2>5 DEF Push, TypeInv, StreamTypes
    <2>7. ServerTypes' /\ StreamTypes'
      BY <2>1, <2>2, <2>4, <2>6
         DEF TypeInv, ServerTypes, StreamTypes, server, link, dialer
    <2>8. Proceeds /\ (pc' \in Early => pc \in Early)
      <3>1. CASE Backlog
        BY <3>1 DEF Backlog, Proceeds, Early, Goto
      <3>2. CASE Resync
        BY <3>2 DEF Resync, Proceeds, Early, Launched, Goto
      <3>3. CASE Reconcile
        <4>1. CASE Goto("check")
          BY <3>3, <4>1 DEF Reconcile, Proceeds, Early, Launched, Goto
        <4>2. CASE GivenUp
          BY <3>3, <4>2 DEF Reconcile, GivenUp, Proceeds, Early, Outcomes, Finalize, TypeInv,
                            RunnerTypes
        <4>3. QED
          BY <3>3, <4>1, <4>2 DEF Reconcile
      <3>4. QED
        BY <1>4, <3>1, <3>2, <3>3
    <2>9. RunTypes' /\ RunnerTypes'
      BY <2>1, <2>2, <2>4, <2>8, CountsSame, ProceedsTypes DEF server
    <2>10. QED
      BY <1>4, <2>7, <2>9, TypesTogether DEF Next, Runner
  <1>5. CASE Record
    <2>1. UNCHANGED <<server, link, stream, dialer, told, crashes>>
      BY <1>5 DEF Record, count
    <2>2. Grown /\ Ids' = Ids
      BY <2>1, SameLog DEF TypeInv, IInv, server
    <2>3. ServerTypes' /\ StreamTypes'
      BY <2>1, <2>2 DEF TypeInv, ServerTypes, StreamTypes, server, link, stream, dialer
    <2>4. RunTypes'
      BY <1>5, <2>1, CountsSame DEF Record, server, Early
    <2>5. LastOf(cache) \in 0..Len(log) /\ log' = log
      BY <1>0, <2>1, LastOfIs DEF TypeInv, IInv, server
    <2>6. pc' \in Launched /\ marker' \in 0..Len(log) /\ pending' = FALSE /\ pc # "done"
          /\ UNCHANGED <<rec, baseline, waited, why, out>>
      BY <1>5, <2>5 DEF Record, Launched, TypeInv, RunnerTypes
    <2>7. RunnerTypes'
      BY <2>2, <2>5, <2>6 DEF TypeInv, RunnerTypes, Launched
    <2>8. QED
      BY <1>5, <2>3, <2>4, <2>7, TypesTogether DEF Next, Runner
  <1>6. CASE Check
    <2>1. UNCHANGED <<server, sock, stream, dialer, told, crashes>> /\ wire' = wire /\ pc = "check"
      BY <1>6 DEF Check, Still, count, link
    <2>2. Proceeds /\ pc' \notin Early
      BY <1>6, <2>1 DEF Check, Goto, Finalize, Proceeds, Early, Launched, Outcomes
    <2>3. QED
      BY <1>6, <2>1, <2>2, QuietTypes DEF Next, Runner
  <1>7. QED
    BY <1>1, <1>2, <1>3, <1>4, <1>5, <1>6 DEF Runner

LEMMA CrashTypes == TypeInv /\ Crash => TypeInv'
  <1> SUFFICES ASSUME TypeInv, Crash PROVE TypeInv'
    OBVIOUS
  <1>1. Ids' = Ids /\ log' = log /\ Len(log) \in Nat
    BY DEF Crash, server, Ids, TypeInv, IInv
  <1>2. ServerTypes'
    BY DEF Crash, server, TypeInv, ServerTypes
  <1>3. StreamTypes'
    <2>1. /\ sock' = "none" /\ wire' = {} /\ conv' = "idle" /\ mirror' = "idle" /\ ready' = NoReady
          /\ cache' = {} /\ redial' = FALSE /\ dial' = "refresh" /\ tries' = 1 /\ told' = {}
      BY DEF Crash
    <2>2. 1 \in 0..MaxTries
      BY HarnessAssumption
    <2>3. QED
      BY <2>1, <2>2 DEF StreamTypes, Statuses
  <1>4. RunTypes'
    BY HarnessAssumption DEF Crash, server, TypeInv, RunTypes
  <1>5. RunnerTypes'
    BY <1>1 DEF Crash, disk, TypeInv, RunnerTypes, Early
  <1>6. QED
    BY <1>2, <1>3, <1>4, <1>5, TypesTogether DEF Next

LEMMA InitTypes == Init => TypeInv
  <1> SUFFICES ASSUME Init PROVE TypeInv
    OBVIOUS
  <1>1. IInv
    BY InitInv
  <1>2. PICK h \in Histories : log = History(h) /\ announced = (h # "late")
                               /\ busy = IF h \in {"active", "late"} THEN "prior" ELSE "no"
    BY DEF Init
  <1>3. Len(log) > 0
    BY <1>2 DEF History
  <1>4. ServerTypes
    BY <1>2, <1>3 DEF ServerTypes
  <1>5. RunTypes
    BY HarnessAssumption DEF Init, RunTypes
  <1>6. StreamTypes
    <2>1. /\ sock = "none" /\ wire = {} /\ conv = "idle" /\ mirror = "idle" /\ ready = NoReady
          /\ cache = {} /\ redial = FALSE /\ dial = "refresh" /\ tries = 1 /\ told = {}
      BY DEF Init
    <2>2. 1 \in 0..MaxTries
      BY HarnessAssumption
    <2>3. QED
      BY <2>1, <2>2 DEF StreamTypes, Statuses
  <1>7. RunnerTypes
    <2>1. /\ pc = "attach" /\ rec = FALSE /\ baseline = {} /\ waited = FALSE /\ why = "none"
          /\ out = NoOut /\ pending = FALSE /\ marker = 0
      BY DEF Init
    <2>2. Len(log) \in Nat
      BY <1>1 DEF IInv
    <2>3. marker \in 0..Len(log)
      BY <2>1, <2>2
    <2>4. pc \in Early \cup Launched \cup {"done"} /\ baseline \subseteq Ids /\ pc # "done"
      BY <2>1 DEF Early
    <2>5. rec \in BOOLEAN /\ waited \in BOOLEAN /\ pending \in BOOLEAN
      BY <2>1
    <2>6. QED
      BY <2>1, <2>3, <2>4, <2>5 DEF RunnerTypes
  <1>8. QED
    BY <1>1, <1>4, <1>5, <1>6, <1>7 DEF TypeInv

LEMMA NextTypes == TypeInv /\ [Next]_vars => TypeInv'
  <1>1. TypeInv /\ UNCHANGED vars => TypeInv'
    <2> SUFFICES ASSUME TypeInv, UNCHANGED vars PROVE TypeInv'
      OBVIOUS
    <2>1. Grown /\ Ids' = Ids
      BY SameLog DEF TypeInv, IInv, vars, server
    <2>2. ServerTypes' /\ StreamTypes' /\ RunTypes' /\ RunnerTypes'
      BY <2>1, CountsSame, RunnerSame, StreamSame
         DEF TypeInv, ServerTypes, StreamTypes, vars, server, link, stream, dialer, turn, disk, count
    <2>3. QED
      BY <2>2, TypesTogether
  <1>2. QED
    BY <1>1, EnvironmentTypes, NextEventTypes, DialTypes, DeadlineTypes, RunnerTypesKept, CrashTypes
       DEF Next

(* The types and what belongs together in a state: the queue is a part of   *)
(* the cache, the cache of the log, at most one run request is accepted per *)
(* start of the daemon, and a runner has an outcome exactly when it is done.*)
THEOREM TypeCorrect == Spec => []TypeOK
  <1>1. Spec => []TypeInv
    BY InitTypes, NextTypes, PTL DEF Spec
  <1>2. QED
    BY <1>1, TypesCorrect, PTL

-----------------------------------------------------------------------------
(* What a step may make of the known status and of the outcome.             *)

(* The conversation and the barrier show the status of the log, the mirror  *)
(* what they and the cache amount to.                                       *)
StatusStep ==
    /\ conv' \in {conv, "idle", ServerStatus}
    /\ \/ ready' = ready \/ ready' = NoReady
       \/ ready' = [at |-> Len(log), status |-> ServerStatus]
    /\ mirror' \in {mirror, "idle", Rebuilt(conv', cache', ready)}
    /\ cache' \subseteq Ids

LEMMA StatusSteps == TypeInv /\ [Next]_vars => StatusStep
  <1> SUFFICES ASSUME [Next]_vars, TypeInv PROVE StatusStep
    OBVIOUS
  <1>0. cache \subseteq Ids /\ wire \subseteq Ids
    BY DEF TypeInv, StreamTypes
  <1>1. CASE UNCHANGED <<conv, ready, mirror, cache>>
    BY <1>0, <1>1 DEF StatusStep
  <1>2. \A S \in SUBSET Ids : Push(S) => StatusStep
    BY <1>0 DEF Push, StatusStep
  <1>3. CASE Environment
    BY <1>1, <1>3 DEF Environment, Announce, Work, Finish, FailLate, Drop, ServerStep, stream
  <1>4. CASE NextEvent
    <2>1. CASE Absorb
      <3>1. PICK S \in SUBSET wire : Push(S)
        BY <2>1 DEF Absorb
      <3>2. QED
        BY <1>0, <1>2, <3>1
    <2>2. CASE Closed \/ Redial
      BY <1>0, <2>2 DEF Closed, Redial, Redialled, StatusStep
    <2>3. CASE Deliver \/ Ended
      BY <1>1, <2>3 DEF Deliver, Ended, stream
    <2>4. QED
      BY <1>4, <2>1, <2>2, <2>3 DEF NextEvent
  <1>5. CASE Dial
    <2>1. CASE Refreshed
      BY <1>0, <2>1 DEF Refreshed, StatusStep
    <2>2. CASE Connected
      BY <1>0, <2>2 DEF Connected, StatusStep
    <2>3. CASE Searched
      BY <1>0, <2>3 DEF Searched, StatusStep
    <2>4. CASE DialFails \/ DialCut
      BY <1>1, <2>4 DEF DialFails, DialCut, stream
    <2>5. QED
      BY <1>5, <2>1, <2>2, <2>3, <2>4 DEF Dial
  <1>6. CASE Deadline
    BY <1>1, <1>6 DEF Deadline, Tick, ConfirmDeadline, Stall, WaitDeadline, FramesLost, Still, stream
  <1>7. CASE Runner
    BY <1>1, <1>2, <1>7 DEF Runner, Attached, Send, Trigger, Backlog, Record, Resync, Check,
                            Reconcile, Refetched, Still, stream
  <1>8. CASE Crash
    BY <1>8 DEF Crash, StatusStep
  <1>9. CASE UNCHANGED vars
    BY <1>1, <1>9 DEF vars, stream
  <1>10. QED
    BY <1>3, <1>4, <1>5, <1>6, <1>7, <1>8, <1>9 DEF Next

(* The runner confirms only what the mirror shows as finished, succeeds only *)
(* from there, and calls stopped only what the mirror shows as terminal.     *)
OutcomeStep ==
    /\ pc' = "confirm" => pc = "confirm" \/ (pc = "check" /\ mirror = "finished")
    /\ \/ out' = out
       \/ /\ out'.kind = "Succeeded" => pc = "confirm"
          /\ out'.stopped => Terminal(mirror')

LEMMA FinalizeStep ==
    ASSUME NEW k, NEW r, Finalize(k, r), k = "Succeeded" => pc = "confirm"
    PROVE  OutcomeStep
  <1>1. pc' = "done" /\ out'.kind = k /\ out'.stopped = Terminal(mirror')
    BY DEF Finalize
  <1>2. QED
    BY <1>1 DEF OutcomeStep

LEMMA NoSessionStep == NoSession => OutcomeStep
  BY DEF NoSession, OutcomeStep

LEMMA OtherStep ==
    out' = out /\ (pc' = "confirm" => pc = "confirm" \/ (pc = "check" /\ mirror = "finished"))
      => OutcomeStep
  BY DEF OutcomeStep

LEMMA WaitFailedStep == WaitFailed => OutcomeStep
  BY FinalizeStep, NoSessionStep DEF WaitFailed

LEMMA BrokenStep ==
    ASSUME NEW reason, Broken(reason)
    PROVE  OutcomeStep
  <1>1. CASE pc' = "reconcile" /\ out' = out
    BY <1>1, OtherStep
  <1>2. CASE pc = "confirm" /\ Finalize("Succeeded", "finished")
    BY <1>2, FinalizeStep
  <1>3. CASE AfterWait
    BY <1>3, OtherStep DEF AfterWait
  <1>4. CASE WaitFailed
    BY <1>4, WaitFailedStep
  <1>5. QED
    BY <1>1, <1>2, <1>3, <1>4 DEF Broken

LEMMA OutcomeSteps == TypeInv /\ [Next]_vars => OutcomeStep
  <1> SUFFICES ASSUME TypeInv, [Next]_vars PROVE OutcomeStep
    OBVIOUS
  <1>1. CASE UNCHANGED <<pc, out>>
    BY <1>1 DEF OutcomeStep
  <1>2. CASE Environment
    BY <1>1, <1>2 DEF Environment, Announce, Work, Finish, FailLate, Drop, ServerStep, turn
  <1>3. CASE Absorb \/ Closed \/ Redial \/ Refreshed \/ Connected
    BY <1>1, <1>3 DEF Absorb, Closed, Redial, Refreshed, Connected, turn
  <1>4. CASE Searched
    BY <1>4 DEF Searched, turn, OutcomeStep
  <1>5. CASE Deliver
    <2>1. PICK e \in pend : Returned(e)
      BY <1>5 DEF Deliver
    <2>2. CASE pc = "await" /\ Goto("check")
      BY <2>2, OtherStep DEF Goto
    <2>3. CASE pc = "confirm" /\ Goto(IF CurrentError \/ mirror # "finished" THEN "await" ELSE "confirm")
      BY <2>3, OtherStep DEF Goto
    <2>4. CASE AfterWait
      BY <2>4, OtherStep DEF AfterWait
    <2>5. CASE Goto(pc)
      BY <2>5 DEF Goto, OutcomeStep
    <2>6. QED
      BY <2>1, <2>2, <2>3, <2>4, <2>5 DEF Returned
  <1>6. CASE Ended
    BY <1>6, BrokenStep DEF Ended
  <1>7. CASE DialFails
    BY <1>1, <1>7, BrokenStep, NoSessionStep DEF DialFails, turn
  <1>8. CASE DialCut
    <2>1. CASE pc = "confirm" /\ Finalize("Succeeded", "finished")
      BY <2>1, FinalizeStep
    <2>2. CASE WaitFailed
      BY <2>2, WaitFailedStep
    <2>3. CASE Goto("check") \/ (pc' = "reconcile" /\ out' = out)
      BY <2>3, OtherStep DEF Goto
    <2>4. QED
      BY <1>8, <2>1, <2>2, <2>3 DEF DialCut
  <1>9. CASE Deadline
    <2>1. CASE ConfirmDeadline
      BY <2>1, FinalizeStep DEF ConfirmDeadline
    <2>2. CASE WaitDeadline
      BY <2>2, WaitFailedStep DEF WaitDeadline
    <2>3. CASE Tick \/ Stall \/ FramesLost
      BY <2>3, OtherStep DEF Tick, Stall, FramesLost, Goto
    <2>4. QED
      BY <1>9, <2>1, <2>2, <2>3 DEF Deadline
  <1>10. CASE Attached \/ Record
    BY <1>10, OtherStep DEF Attached, Record
  <1>11. CASE Send
    BY <1>11, OtherStep, FinalizeStep DEF Send
  <1>12. CASE Trigger
    BY <1>12, OtherStep, FinalizeStep, NoSessionStep DEF Trigger, TriggerFailed, Goto
  <1>13. CASE Backlog
    BY <1>13, OtherStep DEF Backlog, Goto, AfterWait
  <1>14. CASE Resync
    BY <1>14, OtherStep DEF Resync, Goto
  <1>15. CASE Check
    <2>1. CASE Finalize("Failed", "error") \/ Finalize("Failed", "failed")
      BY <2>1, FinalizeStep
    <2>2. CASE Goto("await") \/ (mirror = "finished" /\ Goto("confirm"))
      BY <1>15, <2>2, OtherStep DEF Goto, Check
    <2>3. QED
      BY <1>15, <2>1, <2>2 DEF Check
  <1>16. CASE Reconcile
    <2>1. CASE GivenUp
      BY <2>1, FinalizeStep DEF GivenUp
    <2>2. CASE Goto("check")
      BY <2>2, OtherStep DEF Goto
    <2>3. QED
      BY <1>16, <2>1, <2>2 DEF Reconcile
  <1>17. CASE Crash
    BY <1>17, OtherStep DEF Crash
  <1>18. CASE UNCHANGED vars
    BY <1>1, <1>18 DEF vars, turn
  <1>19. QED
    BY <1>2, <1>3, <1>4, <1>5, <1>6, <1>7, <1>8, <1>9, <1>10, <1>11, <1>12, <1>13, <1>14, <1>15,
       <1>16, <1>17, <1>18 DEF Next, NextEvent, Dial, Runner

-----------------------------------------------------------------------------
(* A conversation without earlier turns: whatever fails, the runner's       *)
(* reports are true.  A terminal status it knows of has been written by a   *)
(* turn of this prompt, and one turn writes one.                            *)

Fresh == Histories \subseteq {"fresh"}

Closing(l, S) == \E e \in S : Terminal(l[e].kind)

Seen(s) == s = "idle" \/ \E e \in Ids : log[e].kind = s

FreshServer ==
    /\ busy # "prior"
    /\ busy # "no" => runs > 0
    /\ \A e \in Ids : Terminal(log[e].kind) => log[e].mine
    /\ Closing(log, Ids) => runs > 0 /\ (runs = 1 => busy = "no")

FreshStatus ==
    /\ Seen(conv) /\ Seen(mirror)
    /\ ready # NoReady => Seen(ready.status)

FreshOutcome ==
    /\ pc = "confirm" \/ Succeeded => Own("finished")
    /\ out.stopped => Closing(log, Ids)

FreshInv == Fresh => FreshServer /\ FreshStatus /\ FreshOutcome

LEMMA InitFresh == Init => FreshInv
  <1> SUFFICES ASSUME Init, Fresh PROVE FreshServer /\ FreshStatus /\ FreshOutcome
    BY DEF FreshInv
  <1>1. log = <<Event("idle", FALSE)>> /\ busy = "no"
    BY DEF Init, Fresh, History
  <1>2. Ids = {1} /\ log[1].kind = "idle"
    BY <1>1 DEF Ids, Event
  <1>3. FreshServer
    BY <1>1, <1>2 DEF FreshServer, Closing, Terminal
  <1>4. FreshStatus
    BY DEF Init, FreshStatus, Seen
  <1>5. FreshOutcome
    BY DEF Init, FreshOutcome, Succeeded, NoOut
  <1>6. QED
    BY <1>3, <1>4, <1>5

LEMMA SeenStays == ASSUME NEW s, Seen(s), Grown PROVE s = "idle" \/ \E e \in Ids' : log'[e].kind = s
  BY DEF Seen, Grown

LEMMA StatusSeen ==
    ASSUME log \in Seq(Events), NEW S \in SUBSET Ids
    PROVE  Seen(StatusOf(S))
  BY StatusIs DEF Seen, Updates

LEMMA FreshStatusStep ==
    ASSUME TypeInv, [Next]_vars, FreshStatus
    PROVE  FreshStatus'
  <1>1. Grown /\ StatusStep /\ TypeInv'
    BY LogGrows, StatusSteps, NextTypes DEF TypeInv, IInv
  <1>2. Seen(ServerStatus) /\ Seen("idle")
    BY StatusSeen DEF ServerStatus, TypeInv, IInv, Seen
  <1>3. Seen(conv')
    BY <1>1, <1>2 DEF StatusStep, FreshStatus
  <1>4. ready' # NoReady => Seen(ready'.status)
    BY <1>1, <1>2 DEF StatusStep, FreshStatus
  <1>5. Seen(mirror')
    <2>1. CASE mirror' \in {mirror, "idle"}
      BY <1>2, <2>1 DEF FreshStatus
    <2>2. CASE mirror' = Rebuilt(conv', cache', ready)
      <3>1. Seen(StatusOf(cache'))
        BY <1>1, StatusSeen DEF StatusStep, TypeInv, IInv
      <3>2. QED
        BY <1>3, <2>2, <3>1, RebuiltIs DEF FreshStatus
    <2>3. QED
      BY <1>1, <2>1, <2>2 DEF StatusStep
  <1>6. QED
    BY <1>1, <1>3, <1>4, <1>5, SeenStays DEF FreshStatus, Seen

LEMMA FreshServerStep ==
    ASSUME TypeInv, [Next]_vars, FreshServer
    PROVE  FreshServer'
  <1>1. CASE UNCHANGED server
    BY <1>1 DEF FreshServer, Closing, server, Ids
  <1>2. \A k \in Kinds, m \in BOOLEAN : Publish(k, m) => Written(k, m)
    BY PublishWrites DEF TypeInv, IInv
  <1>3. ASSUME NEW k \in Kinds, NEW m \in BOOLEAN, Publish(k, m), ~Terminal(k),
               runs' = runs \/ (runs' = runs + 1 /\ ~Closing(log, Ids)), busy' \in {"no", "mine"},
               busy' # "no" => runs' > 0, Closing(log, Ids) => busy' = busy
        PROVE  FreshServer'
    <2>1. Written(k, m)
      BY <1>2, <1>3
    <2>2. log'[Len(log) + 1].kind = k
      BY <2>1 DEF Written, Event
    <2>3. Closing(log', Ids') => Closing(log, Ids)
      BY <1>3, <2>1, <2>2 DEF Closing, Written, Grown
    <2>4. \A e \in Ids' : Terminal(log'[e].kind) => log'[e].mine
      BY <1>3, <2>1, <2>2 DEF Written, Grown, FreshServer
    <2>5. QED
      BY <1>3, <2>3, <2>4 DEF FreshServer
  <1>4. CASE Announce \/ Work
    <2>1. busy = "mine" /\ busy' = busy /\ runs' = runs
      BY <1>4 DEF Announce, Work, ServerStep, FreshServer, TypeInv, ServerTypes
    <2>2. PICK k \in {"running", "other", "error"} : Publish(k, TRUE)
      BY <1>4, <2>1 DEF Announce, Work, ServerStep, Mine
    <2>3. QED
      BY <1>3, <2>1, <2>2 DEF FreshServer, Kinds, Statuses, Terminal
  <1>5. CASE FailLate
    <2>1. busy = "no" /\ busy' = busy /\ runs' = runs /\ Publish("error", TRUE)
      BY <1>5 DEF FailLate
    <2>2. QED
      BY <1>3, <2>1 DEF FreshServer, Kinds, Terminal
  <1>6. CASE Finish
    <2>1. busy = "mine" /\ busy' = "no" /\ runs' = runs /\ runs > 0
      BY <1>6 DEF Finish, ServerStep, FreshServer, TypeInv, ServerTypes
    <2>2. PICK k \in {"finished", "failed"} : Publish(k, TRUE)
      BY <1>6, <2>1 DEF Finish, ServerStep, Mine
    <2>3. Written(k, TRUE)
      BY <1>2, <2>2 DEF Kinds, Statuses
    <2>4. log'[Len(log) + 1].mine
      BY <2>3 DEF Written, Event
    <2>5. \A e \in Ids' : Terminal(log'[e].kind) => log'[e].mine
      BY <2>3, <2>4 DEF Written, Grown, FreshServer
    <2>6. QED
      BY <2>1, <2>5 DEF FreshServer
  <1>7. CASE Send
    <2>1. busy' = busy /\ runs' = runs /\ (Publish("other", TRUE) \/ log' = log)
      BY <1>7 DEF Send, Prompted, Unheard, server
    <2>2. CASE log' = log
      BY <2>1, <2>2 DEF FreshServer, Closing, Ids
    <2>3. CASE Publish("other", TRUE)
      BY <1>3, <2>1, <2>3 DEF FreshServer, Kinds, Terminal, TypeInv, ServerTypes
    <2>4. QED
      BY <2>1, <2>2, <2>3
  <1>8. CASE Trigger /\ Started
    <2>1. busy = "no" /\ busy' = "mine" /\ runs' = runs + 1 /\ runs \in Nat
      BY <1>8 DEF Started, TypeInv, RunTypes
    <2>2. Closing(log, Ids) => runs' > 1
      BY <2>1 DEF FreshServer
    <2>3. CASE Publish("running", TRUE)
      <3>1. Written("running", TRUE)
        BY <1>2, <2>3 DEF Kinds, Statuses
      <3>2. log'[Len(log) + 1].kind = "running"
        BY <3>1 DEF Written, Event
      <3>3. Closing(log', Ids') => Closing(log, Ids)
        BY <3>1, <3>2 DEF Closing, Written, Grown, Terminal
      <3>4. \A e \in Ids' : Terminal(log'[e].kind) => log'[e].mine
        BY <3>1, <3>2 DEF Written, Grown, FreshServer, Terminal
      <3>5. QED
        BY <2>1, <2>2, <3>3, <3>4 DEF FreshServer
    <2>4. CASE log' = log
      BY <2>1, <2>2, <2>4 DEF FreshServer, Closing, Ids
    <2>5. QED
      BY <1>8, <2>3, <2>4 DEF Started
  <1>9. CASE Trigger /\ ~Started
    BY <1>1, <1>9 DEF Trigger, Unheard
  <1>10. CASE Drop \/ NextEvent \/ Dial
    BY <1>1, <1>10 DEF Drop, NextEvent, Absorb, Closed, Redial, Deliver, Ended, Dial, Refreshed,
                       Connected, Searched, DialFails, DialCut
  <1>11. CASE Deadline \/ Attached \/ Backlog \/ Record \/ Resync \/ Check \/ Reconcile \/ Crash
    BY <1>1, <1>11 DEF Deadline, Tick, ConfirmDeadline, Stall, WaitDeadline, FramesLost, Still,
                       Attached, Backlog, Record, Resync, Check, Reconcile, Crash
  <1>12. CASE UNCHANGED vars
    BY <1>1, <1>12 DEF vars
  <1>13. QED
    BY <1>4, <1>5, <1>6, <1>7, <1>8, <1>9, <1>10, <1>11, <1>12 DEF Next, Environment, Runner

LEMMA OwnStays == ASSUME NEW k, Own(k), Grown PROVE Own(k)'
  BY DEF Own, Grown

LEMMA FreshOutcomeStep ==
    ASSUME TypeInv, [Next]_vars, FreshServer, FreshStatus, FreshOutcome
    PROVE  FreshOutcome'
  <1>1. Grown /\ OutcomeStep /\ FreshStatus'
    BY LogGrows, OutcomeSteps, FreshStatusStep DEF TypeInv, IInv
  <1>2. Closing(log, Ids) => Closing(log', Ids')
    BY <1>1 DEF Closing, Grown
  <1>3. mirror = "finished" => Own("finished")
    <2> SUFFICES ASSUME mirror = "finished" PROVE Own("finished")
      OBVIOUS
    <2>1. PICK e \in Ids : log[e].kind = "finished"
      BY DEF FreshStatus, Seen
    <2>2. log[e].mine /\ log[e] \in Events
      BY <2>1 DEF FreshServer, Terminal, TypeInv, IInv, Ids
    <2>3. log[e] = Event("finished", TRUE)
      BY <2>1, <2>2 DEF Events, Event
    <2>4. QED
      BY <2>3 DEF Own
  <1>4. Terminal(mirror') => Closing(log', Ids')
    BY <1>1 DEF FreshStatus, Seen, Terminal, Closing
  <1>5. pc' = "confirm" \/ Succeeded' => Own("finished")
    BY <1>1, <1>3 DEF OutcomeStep, FreshOutcome, Succeeded
  <1>6. out'.stopped => Closing(log', Ids')
    BY <1>1, <1>2, <1>4 DEF OutcomeStep, FreshOutcome
  <1>7. QED
    BY <1>1, <1>5, <1>6, OwnStays DEF FreshOutcome

LEMMA NextFresh == TypeInv /\ FreshInv /\ [Next]_vars => FreshInv'
  BY FreshServerStep, FreshStatusStep, FreshOutcomeStep DEF FreshInv, Fresh

LEMMA FreshImplies == TypeInv /\ FreshInv => (Fresh => FreshReportsAreTrue)
  <1> SUFFICES ASSUME TypeInv, FreshServer, FreshOutcome, runs <= 1
               PROVE  SuccessIsTrue /\ (out.stopped => busy # "mine")
    BY DEF FreshInv, FreshReportsAreTrue
  <1>1. Closing(log, Ids) => busy = "no"
    BY DEF FreshServer, TypeInv, RunTypes
  <1>2. Own("finished") => Closing(log, Ids)
    BY DEF Own, Closing, Event, Terminal
  <1>3. QED
    BY <1>1, <1>2 DEF FreshOutcome, SuccessIsTrue

(* On a conversation that this prompt begins, whatever fails and whenever   *)
(* the daemon crashes: a reported success is a turn that finished, and no   *)
(* harness that works on the turn is reported as stopped.                   *)
THEOREM FreshReports == Spec => [](Fresh => FreshReportsAreTrue)
  <1>1. Spec => []TypeInv
    BY InitTypes, NextTypes, PTL DEF Spec
  <1>2. Init => FreshInv
    BY InitFresh
  <1>3. Spec => []FreshInv
    BY <1>1, <1>2, NextFresh, PTL DEF Spec
  <1>4. QED
    BY <1>1, <1>3, FreshImplies, PTL

-----------------------------------------------------------------------------
(* The runner's reports when no request fails and no deadline cuts the      *)
(* stream short: sockets may close, turns may be announced late, and the    *)
(* daemon may crash.  The stream then holds a prefix of the log, and the    *)
(* mirror shows the newest update of that prefix.                           *)

Calm == Failing \subseteq {"Drop", "Late", "Crash"}

Latest(l, S, s) ==
    \E u \in S : /\ l[u].kind = s /\ s \in Statuses
                 /\ \A f \in S : f > u => l[f].kind \notin Statuses

LogOK ==
    /\ log[1].kind \in Statuses
    /\ \A e \in Ids : log[e].kind = "idle" => e = 1

LinkOK ==
    /\ pc = "attach" => dial # "no"
    /\ dial # "no" => pc = "attach" \/ InStream
    /\ dial \in {"refresh", "connect"} => sock = "none"
    /\ dial = "search" => sock # "none"
    /\ dial = "no" /\ sock = "none" => redial
    /\ redial => sock = "none" /\ dial = "no"
    /\ sock = "none" => wire = {}

PrefixOK ==
    /\ \A e \in cache : 1..e \subseteq cache
    /\ dial = "no" => \A e \in wire : 1..e \subseteq cache \cup wire
    /\ dial = "no" /\ sock = "up" => Ids \subseteq cache \cup wire

ReadyOK ==
    /\ pc # "attach" => 1 \in cache
    /\ ready # NoReady => /\ Latest(log, 1..ready.at, ready.status)
                          /\ dial = "no" => 1..ready.at \subseteq cache
    /\ Terminal(conv) => \E e \in Ids : Terminal(log[e].kind) /\ (dial = "no" => e \in cache)

MirrorOK == dial = "no" => Latest(log, cache, mirror)

HeldInv == LogOK /\ LinkOK /\ PrefixOK /\ ReadyOK /\ MirrorOK

LEMMA LatestStays ==
    ASSUME Grown, NEW S \in SUBSET Ids, NEW s, Latest(log, S, s)
    PROVE  Latest(log', S, s)
  BY DEF Latest, Grown

LEMMA LatestUnique ==
    ASSUME NEW l, NEW S \in SUBSET Nat, NEW s, NEW t, Latest(l, S, s), Latest(l, S, t)
    PROVE  s = t
  <1>1. PICK u \in S : /\ l[u].kind = s /\ s \in Statuses
                       /\ \A f \in S : f > u => l[f].kind \notin Statuses
    BY DEF Latest
  <1>2. PICK v \in S : /\ l[v].kind = t /\ t \in Statuses
                       /\ \A f \in S : f > v => l[f].kind \notin Statuses
    BY DEF Latest
  <1>3. ~(u > v) /\ ~(v > u)
    BY <1>1, <1>2
  <1>4. u = v
    BY <1>3
  <1>5. QED
    BY <1>1, <1>2, <1>4

LEMMA StatusLatest ==
    ASSUME log \in Seq(Events), NEW S \in SUBSET Ids, Updates(S) # {}
    PROVE  Latest(log, S, StatusOf(S))
  <1>1. PICK u \in Updates(S) : StatusOf(S) = log[u].kind /\ \A f \in Updates(S) : f <= u
    BY StatusIs
  <1>2. u \in S /\ log[u].kind \in Statuses
    BY DEF Updates
  <1>3. \A f \in S : f > u => log[f].kind \notin Statuses
    <2> SUFFICES ASSUME NEW f \in S, f > u, log[f].kind \in Statuses PROVE FALSE
      OBVIOUS
    <2>1. f \in Updates(S) /\ f \in Nat /\ u \in Nat
      BY <1>2 DEF Updates, Ids
    <2>2. QED
      BY <1>1, <2>1
  <1>4. QED
    BY <1>1, <1>2, <1>3 DEF Latest

LEMMA RebuiltLatest ==
    ASSUME log \in Seq(Events), LogOK, NEW S \in SUBSET Ids, 1 \in S, NEW cv, NEW rd,
           rd # NoReady => /\ rd \in [at : Ids, status : Statuses]
                           /\ Latest(log, 1..rd.at, rd.status) /\ 1..rd.at \subseteq S,
           Terminal(cv) => \E e \in S : Terminal(log[e].kind)
    PROVE  Latest(log, S, Rebuilt(cv, S, rd))
  <1> DEFINE base == StatusOf(S)
  <1>1. 1 \in Updates(S)
    BY DEF Updates, LogOK
  <1>2. Latest(log, S, base)
    BY <1>1, StatusLatest
  <1> HIDE DEF base
  <1>3. Fallback(cv, S, base) = base
    <2> SUFFICES ASSUME Terminal(cv), ~Terminal(base), ~InProgress(StatusOf(S)) PROVE FALSE
      BY <1>1 DEF Fallback
    <2>1. base = "idle"
      BY <1>2 DEF Latest, Statuses, Terminal, InProgress, base
    <2>2. PICK e \in S : Terminal(log[e].kind)
      OBVIOUS
    <2>3. PICK u \in S : log[u].kind = "idle" /\ \A f \in S : f > u => log[f].kind \notin Statuses
      BY <1>2, <2>1 DEF Latest
    <2>4. u = 1 /\ e # 1
      BY <2>2, <2>3 DEF LogOK, Terminal
    <2>5. e > u
      BY <2>4 DEF Ids
    <2>6. QED
      BY <2>2, <2>3, <2>5 DEF Terminal, Statuses
  <1>4. Rebuilt(cv, S, rd) = Barrier(rd, S, base)
    BY <1>1, <1>3 DEF Rebuilt, base
  <1>5. CASE Barrier(rd, S, base) = base
    BY <1>2, <1>4, <1>5
  <1>6. CASE rd # NoReady /\ (\A e \in Updates(S) : ~(e > rd.at)) /\ Barrier(rd, S, base) = rd.status
    <2>1. PICK u \in 1..rd.at : /\ log[u].kind = rd.status /\ rd.status \in Statuses
                                /\ \A f \in 1..rd.at : f > u => log[f].kind \notin Statuses
      BY <1>6 DEF Latest
    <2>2. u \in S /\ rd.at \in Nat
      BY <1>6, <2>1 DEF Ids
    <2>3. \A f \in S : f > u => log[f].kind \notin Statuses
      BY <1>6, <2>1, <2>2 DEF Updates, Ids
    <2>4. QED
      BY <1>4, <1>6, <2>1, <2>2, <2>3 DEF Latest
  <1>7. QED
    BY <1>5, <1>6 DEF Barrier

(* The runner moves on only while the stream is at rest. *)
PcStep == pc' = pc \/ (pc # "attach" /\ pc' # "attach" /\ dial' = "no")

LEMMA HeldSame ==
    ASSUME TypeInv, HeldInv, PcStep,
           UNCHANGED <<log, sock, wire, conv, ready, cache, redial, mirror, dial>>
    PROVE  HeldInv'
  <1>1. Ids' = Ids
    BY DEF Ids
  <1>2. LogOK' /\ PrefixOK'
    BY <1>1 DEF HeldInv, LogOK, PrefixOK
  <1>3. LinkOK'
    BY DEF HeldInv, LinkOK, PcStep, InStream, Waiting
  <1>4. ReadyOK' /\ MirrorOK'
    BY <1>1 DEF HeldInv, ReadyOK, MirrorOK, PcStep
  <1>5. QED
    BY <1>2, <1>3, <1>4 DEF HeldInv

LEMMA HeldPublish ==
    ASSUME TypeInv, HeldInv, PcStep, NEW k \in Kinds \ {"idle"}, NEW m \in BOOLEAN, Publish(k, m),
           UNCHANGED <<sock, conv, ready, cache, redial, mirror, dial>>
    PROVE  HeldInv'
  <1>1. Written(k, m)
    BY PublishWrites DEF TypeInv, IInv
  <1>2. Grown /\ Ids' = Ids \cup {Len(log) + 1} /\ log'[Len(log) + 1].kind = k
        /\ Len(log) \in Nat /\ Len(log) > 0
    BY <1>1 DEF Written, Event, Grown, TypeInv, ServerTypes
  <1>3. 1 \in Ids
    BY <1>2 DEF Ids
  <1>4. LogOK'
    BY <1>2, <1>3 DEF HeldInv, LogOK, Grown
  <1>5. LinkOK'
    BY DEF HeldInv, LinkOK, PcStep, InStream, Waiting, Publish
  <1>6. PrefixOK'
    <2>1. \A e \in cache' : 1..e \subseteq cache'
      BY DEF HeldInv, PrefixOK
    <2>2. CASE sock = "up"
      <3>1. wire' = wire \cup {Len(log) + 1}
        BY <2>2 DEF Publish
      <3>2. dial = "no" => Ids' \subseteq cache \cup wire'
        BY <1>2, <2>2, <3>1 DEF HeldInv, PrefixOK
      <3>3. dial = "no" => \A e \in wire' : 1..e \subseteq cache \cup wire'
        <4> SUFFICES ASSUME dial = "no", NEW e \in wire', NEW f \in 1..e
                     PROVE  f \in cache \cup wire'
          OBVIOUS
        <4>1. e \in Ids'
          BY <1>2, <3>1 DEF TypeInv, StreamTypes
        <4>2. f \in Ids'
          BY <1>2, <4>1 DEF Ids, Grown
        <4>3. QED
          BY <3>2, <4>2
      <3>4. QED
        BY <2>1, <3>2, <3>3 DEF PrefixOK
    <2>3. CASE sock # "up"
      BY <2>1, <2>3 DEF Publish, HeldInv, PrefixOK
    <2>4. QED
      BY <2>2, <2>3
  <1>7. ReadyOK'
    <2>1. pc' # "attach" => 1 \in cache'
      BY DEF HeldInv, ReadyOK, PcStep
    <2>2. ready # NoReady => Latest(log', 1..ready.at, ready.status)
      <3> SUFFICES ASSUME ready # NoReady PROVE Latest(log', 1..ready.at, ready.status)
        OBVIOUS
      <3>1. ready.at \in Ids
        BY DEF TypeInv, StreamTypes
      <3>2. 1..ready.at \in SUBSET Ids
        BY <1>2, <3>1 DEF Ids
      <3>3. QED
        BY <1>2, <3>2, LatestStays DEF HeldInv, ReadyOK
    <2>3. Terminal(conv) => \E e \in Ids' : Terminal(log'[e].kind) /\ (dial = "no" => e \in cache)
      BY <1>2 DEF HeldInv, ReadyOK, Grown
    <2>4. QED
      BY <2>1, <2>2, <2>3 DEF HeldInv, ReadyOK
  <1>8. MirrorOK'
    BY <1>2, LatestStays DEF HeldInv, MirrorOK, TypeInv, StreamTypes
  <1>9. QED
    BY <1>4, <1>5, <1>6, <1>7, <1>8 DEF HeldInv

(* What the mirror shows after events were taken in. *)
LEMMA MirrorPush ==
    ASSUME TypeInv, HeldInv, NEW S \in SUBSET Ids, Push(S), dial = "no"
    PROVE  Latest(log, cache', mirror')
  <1>1. cache' \in SUBSET Ids /\ cache \subseteq cache' /\ 1 \in cache /\ 1 \in cache'
    BY DEF Push, TypeInv, StreamTypes, HeldInv, ReadyOK, LinkOK
  <1>2. CASE Updates(S \ cache) = {}
    <2>1. mirror' = mirror /\ cache' = cache \cup S
      BY <1>2 DEF Push
    <2>2. PICK u \in cache : /\ log[u].kind = mirror /\ mirror \in Statuses
                             /\ \A f \in cache : f > u => log[f].kind \notin Statuses
      BY DEF HeldInv, MirrorOK, Latest
    <2>3. \A f \in cache' : f > u => log[f].kind \notin Statuses
      BY <1>2, <2>1, <2>2 DEF Updates
    <2>4. QED
      BY <1>1, <2>1, <2>2, <2>3 DEF Latest
  <1>3. CASE Updates(S \ cache) # {}
    <2>1. mirror' = Rebuilt(conv, cache', ready)
      BY <1>3 DEF Push
    <2>2. ready # NoReady => /\ ready \in [at : Ids, status : Statuses]
                             /\ Latest(log, 1..ready.at, ready.status) /\ 1..ready.at \subseteq cache'
      BY <1>1 DEF TypeInv, StreamTypes, HeldInv, ReadyOK
    <2>3. Terminal(conv) => \E e \in cache' : Terminal(log[e].kind)
      BY <1>1 DEF HeldInv, ReadyOK
    <2>4. QED
      BY <1>1, <2>1, <2>2, <2>3, RebuiltLatest DEF HeldInv, TypeInv, IInv
  <1>4. QED
    BY <1>2, <1>3

LEMMA HeldPush ==
    ASSUME TypeInv, HeldInv, PcStep, NEW S \in SUBSET Ids, Push(S), dial = "no",
           (S = Ids /\ wire' = wire) \/ (S = wire /\ wire' = {}),
           UNCHANGED <<log, sock, dial>>
    PROVE  HeldInv'
  <1>1. Ids' = Ids /\ cache' = cache \cup S /\ UNCHANGED <<conv, ready, redial>>
    BY DEF Ids, Push
  <1>2. LogOK' /\ LinkOK'
    BY <1>1 DEF HeldInv, LogOK, LinkOK, PcStep, InStream, Waiting
  <1>3. PrefixOK'
    <2>0. cache \subseteq Ids /\ wire \subseteq Ids /\ Len(log) \in Nat
      BY DEF TypeInv, StreamTypes, IInv
    <2>1. CASE S = Ids /\ wire' = wire
      <3>1. cache' = Ids
        BY <1>1, <2>0, <2>1
      <3>2. \A e \in Ids : 1..e \subseteq Ids
        BY <2>0 DEF Ids
      <3>3. QED
        BY <1>1, <2>0, <2>1, <3>1, <3>2 DEF PrefixOK
    <2>2. CASE S = wire /\ wire' = {}
      <3>1. \A e \in cache' : 1..e \subseteq cache'
        BY <1>1, <2>2 DEF HeldInv, PrefixOK
      <3>2. QED
        BY <1>1, <2>2, <3>1 DEF HeldInv, PrefixOK
    <2>3. QED
      BY <2>1, <2>2
  <1>4. ReadyOK'
    <2>1. pc # "attach" /\ 1 \in cache'
      BY <1>1 DEF HeldInv, LinkOK, ReadyOK
    <2>2. ready' # NoReady => /\ Latest(log, 1..ready'.at, ready'.status)
                              /\ 1..ready'.at \subseteq cache'
      BY <1>1 DEF HeldInv, ReadyOK
    <2>3. Terminal(conv') => \E e \in Ids : Terminal(log[e].kind) /\ e \in cache'
      BY <1>1 DEF HeldInv, ReadyOK
    <2>4. QED
      BY <1>1, <2>1, <2>2, <2>3 DEF ReadyOK
  <1>5. MirrorOK'
    BY MirrorPush DEF MirrorOK
  <1>6. QED
    BY <1>2, <1>3, <1>4, <1>5 DEF HeldInv

LEMMA InitHeld == Init => HeldInv
  <1> SUFFICES ASSUME Init PROVE HeldInv
    OBVIOUS
  <1>1. PICK h \in Histories : log = History(h)
    BY DEF Init
  <1>2. LogOK
    BY <1>1 DEF History, LogOK, Event, Statuses, Ids
  <1>3. /\ sock = "none" /\ wire = {} /\ conv = "idle" /\ ready = NoReady /\ cache = {}
        /\ redial = FALSE /\ dial = "refresh" /\ pc = "attach"
    BY DEF Init
  <1>4. QED
    BY <1>2, <1>3 DEF HeldInv, LinkOK, PrefixOK, ReadyOK, MirrorOK, Terminal

LEMMA AfterWaitStep == AfterWait => pc' # "attach"
  BY DEF AfterWait

LEMMA ReturnedStep == ASSUME NEW e, InStream, Returned(e) PROVE pc # "attach" /\ pc' # "attach"
  BY AfterWaitStep DEF Returned, InStream, Waiting, Goto

LEMMA HeldNextEvent == Calm /\ TypeInv /\ HeldInv /\ NextEvent => HeldInv'
  <1> SUFFICES ASSUME Calm, TypeInv, HeldInv, NextEvent PROVE HeldInv'
    OBVIOUS
  <1>0. "Tight" \notin Failing
    BY DEF Calm
  <1>1. dial = "no" /\ pc # "attach" /\ InStream
    BY DEF NextEvent, Absorb, Closed, Redial, Deliver, Ended, Polling, InStream, Waiting
  <1>2. CASE Absorb
    <2>1. Push(wire) /\ wire' = {}
      BY <1>0, <1>2 DEF Absorb
    <2>2. UNCHANGED <<log, sock, dial, pc>>
      BY <1>2 DEF Absorb, server, dialer
    <2>3. QED
      BY <1>1, <2>1, <2>2, HeldPush DEF PcStep, TypeInv, StreamTypes
  <1>3. CASE Closed \/ Redial
    <2>1. UNCHANGED <<log, wire, conv, cache, mirror, pc>> /\ wire = {} /\ sock' = "none"
      BY <1>3 DEF Closed, Redial, server, link, HeldInv, LinkOK
    <2>2. Ids' = Ids
      BY <2>1 DEF Ids
    <2>3. \/ dial' = "refresh" /\ ready' = NoReady /\ redial' = FALSE
          \/ redial' = TRUE /\ UNCHANGED <<dial, ready>>
      BY <1>3 DEF Closed, Redial, Redialled, dialer
    <2>4. LogOK' /\ LinkOK' /\ PrefixOK'
      BY <1>1, <2>1, <2>2, <2>3 DEF HeldInv, LogOK, LinkOK, PrefixOK, InStream, Waiting
    <2>5. ReadyOK' /\ MirrorOK'
      BY <1>1, <2>1, <2>2, <2>3 DEF HeldInv, ReadyOK, MirrorOK
    <2>6. QED
      BY <2>4, <2>5 DEF HeldInv
  <1>4. CASE Deliver
    <2>1. UNCHANGED <<log, sock, wire, conv, ready, cache, redial, mirror, dial>>
      BY <1>4 DEF Deliver, server, link, dialer
    <2>2. PcStep
      BY <1>1, <1>4, <2>1, ReturnedStep DEF Deliver, PcStep
    <2>3. QED
      BY <2>1, <2>2, HeldSame
  <1>5. CASE Ended
    BY <1>1, <1>5 DEF Ended, Over, HeldInv, LinkOK
  <1>6. QED
    BY <1>2, <1>3, <1>4, <1>5 DEF NextEvent

LEMMA CalmDials == Calm => ~DialFails /\ ~DialCut /\ ~FramesLost
  BY DEF Calm, DialFails, DialCut, FramesLost

LEMMA HeldDial == Calm /\ TypeInv /\ HeldInv /\ Dial => HeldInv'
  <1> SUFFICES ASSUME Calm, TypeInv, HeldInv, Dial PROVE HeldInv'
    OBVIOUS
  <1>0. Refreshed \/ Connected \/ Searched
    BY CalmDials DEF Dial
  <1>1. /\ Len(log) \in Nat /\ Len(log) > 0 /\ cache \subseteq Ids /\ wire \subseteq Ids
        /\ log \in Seq(Events)
    BY DEF TypeInv, IInv, ServerTypes, StreamTypes
  <1>2. 1 \in Updates(Ids) /\ Ids \in SUBSET Ids /\ 1 \in Ids
    BY <1>1 DEF Updates, Ids, HeldInv, LogOK
  <1>3. Latest(log, Ids, ServerStatus)
    BY <1>1, <1>2, StatusLatest DEF ServerStatus
  <1>4. CASE Refreshed
    <2>1. UNCHANGED <<log, sock, wire, ready, cache, redial, pc>> /\ dial = "refresh"
          /\ dial' = "connect" /\ conv' = ServerStatus
      BY <1>4 DEF Refreshed, server, link, DialNext
    <2>2. Ids' = Ids
      BY <2>1 DEF Ids
    <2>3. Terminal(conv') => \E e \in Ids : Terminal(log[e].kind)
      BY <1>3, <2>1 DEF Latest
    <2>4. LogOK' /\ LinkOK' /\ PrefixOK'
      BY <2>1, <2>2 DEF HeldInv, LogOK, LinkOK, PrefixOK, InStream, Waiting
    <2>5. ReadyOK' /\ MirrorOK'
      BY <2>1, <2>2, <2>3 DEF HeldInv, ReadyOK, MirrorOK
    <2>6. QED
      BY <2>4, <2>5 DEF HeldInv
  <1>5. CASE Connected
    <2>1. UNCHANGED <<log, conv, cache, redial, pc>> /\ dial = "connect" /\ dial' = "search"
          /\ sock' = "up" /\ wire' = {} /\ ready' = [at |-> Len(log), status |-> ServerStatus]
      BY <1>5 DEF Connected, server, DialNext
    <2>2. Ids' = Ids /\ 1..(ready'.at) = Ids
      BY <2>1 DEF Ids
    <2>3. Latest(log, 1..(ready'.at), ready'.status)
      BY <1>3, <2>1, <2>2
    <2>4. LogOK' /\ LinkOK' /\ PrefixOK'
      BY <2>1, <2>2 DEF HeldInv, LogOK, LinkOK, PrefixOK, InStream, Waiting
    <2>5. ReadyOK' /\ MirrorOK'
      BY <2>1, <2>2, <2>3 DEF HeldInv, ReadyOK, MirrorOK
    <2>6. QED
      BY <2>4, <2>5 DEF HeldInv
  <1>6. CASE Searched
    <2>1. UNCHANGED <<log, sock, wire, conv, ready, redial>> /\ dial = "search" /\ dial' = "no"
          /\ cache' = cache \cup Ids /\ pc' # "attach"
          /\ mirror' = Rebuilt(conv, cache', ready)
      BY <1>6 DEF Searched, server, link, DialNext
    <2>2. Ids' = Ids /\ cache' = Ids
      BY <1>1, <2>1 DEF Ids
    <2>3. ready # NoReady => /\ ready \in [at : Ids, status : Statuses]
                             /\ Latest(log, 1..ready.at, ready.status) /\ 1..ready.at \subseteq Ids
      BY <1>1 DEF HeldInv, ReadyOK, TypeInv, StreamTypes, Ids
    <2>4. Terminal(conv) => \E e \in Ids : Terminal(log[e].kind)
      BY DEF HeldInv, ReadyOK
    <2>5. MirrorOK'
      <3>1. Latest(log, Ids, Rebuilt(conv, Ids, ready))
        BY <1>1, <1>2, <2>3, <2>4, RebuiltLatest DEF HeldInv
      <3>2. QED
        BY <2>1, <2>2, <3>1 DEF MirrorOK
    <2>6. LogOK' /\ LinkOK'
      BY <2>1, <2>2 DEF HeldInv, LogOK, LinkOK
    <2>7. PrefixOK'
      <3>1. \A e \in Ids : 1..e \subseteq Ids
        BY <1>1 DEF Ids
      <3>2. QED
        BY <1>1, <2>1, <2>2, <3>1 DEF PrefixOK
    <2>8. ReadyOK'
      BY <1>2, <2>1, <2>2, <2>3, <2>4 DEF ReadyOK
    <2>9. QED
      BY <2>5, <2>6, <2>7, <2>8 DEF HeldInv
  <1>7. QED
    BY <1>0, <1>4, <1>5, <1>6

(* Every step of the runner and every deadline. *)
LEMMA HeldRunner == Calm /\ TypeInv /\ HeldInv /\ (Runner \/ Deadline) => HeldInv'
  <1> SUFFICES ASSUME Calm, TypeInv, HeldInv, Runner \/ Deadline PROVE HeldInv'
    OBVIOUS
  <1>1. CASE Deadline
    <2>1. UNCHANGED <<log, sock, wire, conv, ready, cache, redial, mirror, dial>>
      BY <1>1, CalmDials DEF Deadline, Tick, ConfirmDeadline, Stall, WaitDeadline, Still, server,
                             link, stream, dialer
    <2>2. Polling /\ pc # "attach"
      BY <1>1, CalmDials DEF Deadline, Tick, ConfirmDeadline, Stall, WaitDeadline, Expired, Polling,
                             InStream, Waiting
    <2>3. pc' # "attach"
      BY <1>1, CalmDials DEF Deadline, Tick, ConfirmDeadline, Stall, WaitDeadline, WaitFailed, Goto,
                             Finalize, NoSession
    <2>4. QED
      BY <2>1, <2>2, <2>3, HeldSame DEF PcStep, Polling
  <1>2. CASE Runner
    <2>1. dial = "no" /\ pc # "attach"
      BY <1>2 DEF Runner, Attached, Send, Trigger, Backlog, Record, Resync, Check, Reconcile,
                  HeldInv, LinkOK, InStream, Waiting, TypeInv, StreamTypes
    <2>2. dial' = "no" /\ sock' = sock
      BY <1>2, <2>1 DEF Runner, Attached, Send, Trigger, Backlog, Record, Resync, Check, Reconcile,
                        Still, dialer, link
    <2>3. pc' # "attach"
      BY <1>2, AfterWaitStep
         DEF Runner, Attached, Send, Trigger, Backlog, Record, Resync, Check, Reconcile,
             TriggerFailed, GivenUp, Goto, Finalize, NoSession
    <2>4. PcStep
      BY <2>1, <2>2, <2>3 DEF PcStep
    <2>5. CASE Send \/ Trigger
      <3>1. UNCHANGED <<conv, ready, cache, redial, mirror>>
        BY <2>5 DEF Send, Trigger, stream
      <3>2. (\E k \in Kinds \ {"idle"} : Publish(k, TRUE)) \/ UNCHANGED <<log, wire>>
        BY <2>5 DEF Send, Trigger, Prompted, Unheard, Started, server, Kinds, Statuses
      <3>3. QED
        BY <2>1, <2>2, <2>4, <3>1, <3>2, HeldPublish, HeldSame
    <2>6. CASE Attached \/ Record \/ Check
      <3>1. UNCHANGED <<log, wire, conv, ready, cache, redial, mirror>>
        BY <2>6 DEF Attached, Record, Check, Still, server, link, stream
      <3>2. QED
        BY <2>1, <2>2, <2>4, <3>1, HeldSame
    <2>7. CASE Backlog \/ Resync \/ Reconcile
      <3>1. UNCHANGED <<log, wire>> /\ (Push(Ids) \/ UNCHANGED stream)
        BY <2>7 DEF Backlog, Resync, Reconcile, Refetched, server, link
      <3>2. QED
        BY <2>1, <2>2, <2>4, <3>1, HeldPush, HeldSame DEF stream
    <2>8. QED
      BY <1>2, <2>5, <2>6, <2>7 DEF Runner
  <1>3. QED
    BY <1>1, <1>2

LEMMA HeldCrash == TypeInv /\ HeldInv /\ Crash => HeldInv'
  <1> SUFFICES ASSUME TypeInv, HeldInv, Crash PROVE HeldInv'
    OBVIOUS
  <1>1. /\ sock' = "none" /\ wire' = {} /\ conv' = "idle" /\ ready' = NoReady /\ cache' = {}
        /\ redial' = FALSE /\ dial' = "refresh" /\ pc' = "attach" /\ log' = log
    BY DEF Crash, server
  <1>2. LogOK'
    BY <1>1 DEF HeldInv, LogOK, Ids
  <1>3. QED
    BY <1>1, <1>2 DEF HeldInv, LinkOK, PrefixOK, ReadyOK, MirrorOK, Terminal

LEMMA HeldEnvironment == TypeInv /\ HeldInv /\ Environment => HeldInv'
  <1> SUFFICES ASSUME TypeInv, HeldInv, Environment PROVE HeldInv'
    OBVIOUS
  <1>1. CASE Announce \/ Work \/ Finish \/ FailLate
    <2>1. /\ \E k \in Kinds \ {"idle"}, m \in BOOLEAN : Publish(k, m)
          /\ UNCHANGED <<sock, conv, ready, cache, redial, mirror, dial, pc>>
      BY <1>1 DEF Announce, Work, Finish, FailLate, ServerStep, Mine, Kinds, Statuses, stream, dialer
    <2>2. QED
      BY <2>1, HeldPublish DEF PcStep
  <1>2. CASE Drop
    <2>1. /\ sock = "up" /\ sock' = "broken"
          /\ UNCHANGED <<log, conv, ready, cache, redial, mirror, dial, pc>>
      BY <1>2 DEF Drop, server, stream, dialer
    <2>2. PICK x \in wire \cup {0} : wire' = {f \in wire : f <= x}
      BY <1>2 DEF Drop
    <2>3. Ids' = Ids
      BY <2>1 DEF Ids
    <2>4. LogOK' /\ LinkOK'
      BY <2>1, <2>2, <2>3 DEF HeldInv, LogOK, LinkOK, InStream, Waiting
    <2>5. PrefixOK'
      <3>1. dial = "no" => \A e \in wire' : 1..e \subseteq cache \cup wire'
        <4> SUFFICES ASSUME dial = "no", NEW e \in wire', NEW f \in 1..e
                     PROVE  f \in cache \cup wire'
          OBVIOUS
        <4>1. e \in wire /\ e <= x /\ e \in Nat /\ x \in Nat /\ f \in Nat /\ f <= e
          BY <2>2 DEF TypeInv, StreamTypes, Ids
        <4>2. f \in cache \cup wire
          BY <4>1 DEF HeldInv, PrefixOK
        <4>3. QED
          BY <2>2, <4>1, <4>2
      <3>2. QED
        BY <2>1, <3>1 DEF HeldInv, PrefixOK
    <2>6. ReadyOK' /\ MirrorOK'
      BY <2>1, <2>3 DEF HeldInv, ReadyOK, MirrorOK
    <2>7. QED
      BY <2>4, <2>5, <2>6 DEF HeldInv
  <1>3. QED
    BY <1>1, <1>2 DEF Environment

LEMMA HeldNext == Calm /\ TypeInv /\ HeldInv /\ [Next]_vars => HeldInv'
  <1>1. TypeInv /\ HeldInv /\ UNCHANGED vars => HeldInv'
    BY HeldSame DEF vars, server, link, stream, dialer, PcStep
  <1>2. QED
    BY <1>1, HeldEnvironment, HeldNextEvent, HeldDial, HeldRunner, HeldCrash DEF Next

(* The server: an announced turn is the newest update of the log, a turn of *)
(* this prompt comes from an accepted request, and after the first one      *)
(* nothing is written but for this prompt.                                  *)
OwnErrors == {e \in Ids : log[e] = Event("error", TRUE)}

OwnLatest ==
    \E r \in Ids : /\ log[r].kind \in Statuses
                   /\ \A e \in Ids : e >= r /\ log[e].kind \in Statuses => log[e].mine

ServerInv ==
    /\ busy # "no" /\ announced => Latest(log, Ids, "running")
    /\ busy = "mine" => runs > 0 /\ (announced \/ "Late" \in Failing)
    /\ runs > 0 => busy # "prior"
    /\ runs > 0 /\ "Late" \notin Failing => OwnLatest
    /\ runs = 0 => OwnErrors = {}

LEMMA LatestUnlessStatus ==
    ASSUME NEW k, NEW m, Written(k, m), NEW s, Latest(log, Ids, s), k \notin Statuses
    PROVE  Latest(log', Ids', s)
  <1>1. log'[Len(log) + 1].kind = k
    BY DEF Written, Event
  <1>2. QED
    BY <1>1 DEF Latest, Written, Grown

LEMMA LatestWritten ==
    ASSUME NEW k \in Statuses, NEW m, Written(k, m)
    PROVE  Latest(log', Ids', k)
  <1>1. log'[Len(log) + 1].kind = k
    BY DEF Written, Event
  <1>2. \A f \in Ids' : ~(f > Len(log) + 1)
    BY DEF Written, Grown, Ids
  <1>3. QED
    BY <1>1, <1>2 DEF Latest, Written

LEMMA OwnLatestStays ==
    ASSUME NEW k, NEW m, Written(k, m), OwnLatest, m = TRUE \/ k \notin Statuses
    PROVE  OwnLatest'
  <1>1. log'[Len(log) + 1].kind = k /\ log'[Len(log) + 1].mine = m
    BY DEF Written, Event
  <1>2. PICK r \in Ids : /\ log[r].kind \in Statuses
                         /\ \A e \in Ids : e >= r /\ log[e].kind \in Statuses => log[e].mine
    BY DEF OwnLatest
  <1>3. r \in Ids' /\ log'[r].kind \in Statuses
    BY <1>2 DEF Written, Grown
  <1>4. \A e \in Ids' : e >= r /\ log'[e].kind \in Statuses => log'[e].mine
    BY <1>1, <1>2 DEF Written, Grown
  <1>5. QED
    BY <1>3, <1>4 DEF OwnLatest

LEMMA InitServer == Init => ServerInv
  <1> SUFFICES ASSUME Init PROVE ServerInv
    OBVIOUS
  <1>1. PICK h \in Histories : log = History(h) /\ announced = (h # "late")
                               /\ busy = IF h \in {"active", "late"} THEN "prior" ELSE "no"
    BY DEF Init
  <1>2. runs = 0 /\ busy # "mine"
    BY <1>1 DEF Init
  <1>3. OwnErrors = {}
    BY <1>1 DEF OwnErrors, History, Event, Ids
  <1>4. busy # "no" /\ announced => Latest(log, Ids, "running")
    <2> SUFFICES ASSUME busy # "no", announced PROVE Latest(log, Ids, "running")
      OBVIOUS
    <2>1. h = "active"
      BY <1>1
    <2>2. log = <<Event("running", FALSE)>>
      BY <1>1, <2>1 DEF History
    <2>3. Ids = {1} /\ log[1].kind = "running"
      BY <2>2 DEF Ids, Event
    <2>4. QED
      BY <2>3 DEF Latest, Statuses
  <1>5. QED
    BY <1>2, <1>3, <1>4 DEF ServerInv

LEMMA ServerNext == TypeInv /\ ServerInv /\ [Next]_vars => ServerInv'
  <1> SUFFICES ASSUME TypeInv, ServerInv, [Next]_vars PROVE ServerInv'
    OBVIOUS
  <1>0. runs \in Nat /\ busy \in {"no", "prior", "mine"} /\ announced \in BOOLEAN
    BY DEF TypeInv, RunTypes, ServerTypes
  <1>1. CASE UNCHANGED server
    BY <1>1 DEF ServerInv, OwnLatest, OwnErrors, server, Ids
  <1>2. \A k \in Kinds, m \in BOOLEAN : Publish(k, m) => Written(k, m)
    BY PublishWrites DEF TypeInv, IInv
  <1>3. ASSUME NEW k, NEW m, Written(k, m), runs = 0, k # "error" \/ m = FALSE
        PROVE  OwnErrors' = {}
    <2>1. log'[Len(log) + 1] # Event("error", TRUE)
      BY <1>3 DEF Written, Event
    <2>2. OwnErrors = {}
      BY <1>3 DEF ServerInv
    <2>3. QED
      BY <1>3, <2>1, <2>2 DEF OwnErrors, Written, Grown
  <1>4. CASE Announce
    <2>1. busy # "no" /\ busy' = busy /\ runs' = runs /\ announced' = TRUE
          /\ Publish("running", Mine)
      BY <1>4 DEF Announce, ServerStep
    <2>2. Written("running", Mine)
      BY <1>2, <2>1 DEF Kinds, Statuses, Mine
    <2>3. Latest(log', Ids', "running")
      BY <2>2, LatestWritten DEF Statuses
    <2>4. runs > 0 => Mine = TRUE
      BY <1>0, <2>1 DEF Mine, ServerInv
    <2>5. runs > 0 /\ "Late" \notin Failing => OwnLatest'
      BY <2>2, <2>4, OwnLatestStays DEF ServerInv
    <2>6. runs = 0 => OwnErrors' = {}
      BY <1>3, <2>2
    <2>7. QED
      BY <2>1, <2>3, <2>5, <2>6 DEF ServerInv
  <1>5. CASE Work
    <2>1. busy # "no" /\ announced /\ busy' = busy /\ runs' = runs /\ announced' = announced
      BY <1>5 DEF Work, ServerStep
    <2>2. PICK k \in {"other", "error"} : Publish(k, Mine)
      BY <1>5 DEF Work, ServerStep
    <2>3. Written(k, Mine)
      BY <1>2, <2>2 DEF Kinds, Statuses, Mine
    <2>4. Latest(log', Ids', "running")
      BY <2>1, <2>3, LatestUnlessStatus DEF Statuses, ServerInv
    <2>5. runs > 0 /\ "Late" \notin Failing => OwnLatest'
      BY <2>3, OwnLatestStays DEF ServerInv, Statuses
    <2>6. runs = 0 => Mine = FALSE
      BY <1>0 DEF ServerInv, Mine
    <2>7. runs = 0 => OwnErrors' = {}
      BY <1>3, <2>3, <2>6
    <2>8. QED
      BY <2>1, <2>4, <2>5, <2>7 DEF ServerInv
  <1>6. CASE Finish
    <2>1. busy # "no" /\ busy' = "no" /\ runs' = runs
      BY <1>6 DEF Finish, ServerStep
    <2>2. PICK k \in {"finished", "failed"} : Publish(k, Mine)
      BY <1>6 DEF Finish, ServerStep
    <2>3. Written(k, Mine)
      BY <1>2, <2>2 DEF Kinds, Statuses, Mine
    <2>4. runs > 0 => Mine = TRUE
      BY <1>0, <2>1 DEF Mine, ServerInv
    <2>5. runs > 0 /\ "Late" \notin Failing => OwnLatest'
      BY <2>3, <2>4, OwnLatestStays DEF ServerInv
    <2>6. runs = 0 => OwnErrors' = {}
      BY <1>3, <2>3
    <2>7. QED
      BY <2>1, <2>5, <2>6 DEF ServerInv
  <1>7. CASE FailLate
    <2>1. busy = "no" /\ busy' = "no" /\ runs > 0 /\ runs' = runs /\ Publish("error", TRUE)
      BY <1>7 DEF FailLate
    <2>2. Written("error", TRUE)
      BY <1>2, <2>1 DEF Kinds
    <2>3. "Late" \notin Failing => OwnLatest'
      BY <2>1, <2>2, OwnLatestStays DEF ServerInv
    <2>4. QED
      BY <1>0, <2>1, <2>3 DEF ServerInv
  <1>8. CASE Send
    <2>1. UNCHANGED <<busy, announced, runs>> /\ (Publish("other", TRUE) \/ UNCHANGED server)
      BY <1>8 DEF Send, Prompted, Unheard, server
    <2>2. CASE Publish("other", TRUE)
      <3>1. Written("other", TRUE)
        BY <1>2, <2>2 DEF Kinds
      <3>0. "other" \notin Statuses
        BY DEF Statuses
      <3>2. busy # "no" /\ announced => Latest(log', Ids', "running")
        BY <3>0, <3>1, LatestUnlessStatus DEF ServerInv
      <3>3. runs > 0 /\ "Late" \notin Failing => OwnLatest'
        BY <3>1, OwnLatestStays DEF ServerInv
      <3>4. runs = 0 => OwnErrors' = {}
        BY <1>3, <3>1
      <3>5. QED
        BY <2>1, <3>2, <3>3, <3>4 DEF ServerInv
    <2>3. QED
      BY <1>1, <2>1, <2>2
  <1>9. CASE Trigger /\ Started
    <2>1. busy' = "mine" /\ runs' = runs + 1 /\ runs' > 0
      BY <1>0, <1>9 DEF Started
    <2>2. CASE Publish("running", TRUE) /\ announced' = TRUE
      <3>1. Written("running", TRUE)
        BY <1>2, <2>2 DEF Kinds, Statuses
      <3>2. Latest(log', Ids', "running")
        BY <3>1, LatestWritten DEF Statuses
      <3>3. OwnLatest'
        <4>1. log'[Len(log) + 1].kind = "running" /\ log'[Len(log) + 1].mine = TRUE
          BY <3>1 DEF Written, Event
        <4>2. \A e \in Ids' : e >= Len(log) + 1 => e = Len(log) + 1
          BY <3>1 DEF Written, Grown, Ids
        <4>3. QED
          BY <3>1, <4>1, <4>2 DEF OwnLatest, Written, Statuses
      <3>4. QED
        BY <1>0, <2>1, <2>2, <3>2, <3>3 DEF ServerInv
    <2>3. CASE "Late" \in Failing /\ announced' = FALSE
      BY <1>0, <2>1, <2>3 DEF ServerInv
    <2>4. QED
      BY <1>9, <2>2, <2>3 DEF Started
  <1>10. CASE Trigger /\ ~Started
    BY <1>1, <1>10 DEF Trigger, Unheard
  <1>11. CASE Drop \/ NextEvent \/ Dial
    BY <1>1, <1>11 DEF Drop, NextEvent, Absorb, Closed, Redial, Deliver, Ended, Dial, Refreshed,
                       Connected, Searched, DialFails, DialCut
  <1>12. CASE Deadline \/ Attached \/ Backlog \/ Record \/ Resync \/ Check \/ Reconcile \/ Crash
    BY <1>1, <1>12 DEF Deadline, Tick, ConfirmDeadline, Stall, WaitDeadline, FramesLost, Still,
                       Attached, Backlog, Record, Resync, Check, Reconcile, Crash
  <1>13. CASE UNCHANGED vars
    BY <1>1, <1>13 DEF vars
  <1>14. QED
    BY <1>4, <1>5, <1>6, <1>7, <1>8, <1>9, <1>10, <1>11, <1>12, <1>13 DEF Next, Environment, Runner

(* The runner: a turn it waits for was started, and a recovered run without *)
(* a pending trigger was too.                                               *)
RunInv ==
    /\ pc \in Launched => runs > 0
    /\ rec /\ ~pending /\ pc # "done" => runs > 0
    /\ ~rec /\ pc \in Early => runs = 0
    /\ rec => pc \notin {"send", "waitPrior"}

(* A step within the part of the turn before, or after, its request. *)
Within ==
    /\ rec' = rec /\ (pending' = pending \/ pc' = "done")
    /\ pc' \in Launched => pc \in Launched
    /\ pc' \in Early => pc \in Early
    /\ pc' \in {"send", "waitPrior"} => pc \in {"send", "waitPrior"}

LEMMA RunKept ==
    ASSUME TypeInv, TypeInv', RunInv, Within, runs' = runs
    PROVE  RunInv'
  <1>1. pc' # "done" => pc # "done" /\ pending' = pending
    BY DEF TypeInv, RunnerTypes, Early, Launched, Within
  <1>2. QED
    BY <1>1 DEF RunInv, Within

LEMMA FinalizeWithin == ASSUME NEW k, NEW r, Finalize(k, r) PROVE Within
  BY DEF Finalize, Within, Early, Launched

LEMMA NoSessionWithin == NoSession => Within
  BY DEF NoSession, Within, Early, Launched, disk

LEMMA AfterWaitWithin == AfterWait /\ pc \in {"waitPrior", "waitConflict", "backlog"} => Within
  BY DEF AfterWait, Within, Early, Launched

LEMMA GotoWithin ==
    ASSUME NEW p, Goto(p), (p \in Launched /\ pc \in Launched) \/ p = pc
                           \/ (p = "waitConflict" /\ pc = "backlog")
    PROVE  Within
  BY DEF Goto, Within, Early, Launched, disk

LEMMA WaitFailedWithin == WaitFailed => Within
  BY FinalizeWithin, NoSessionWithin DEF WaitFailed

LEMMA BrokenWithin ==
    ASSUME NEW reason, Broken(reason), InStream
    PROVE  Within
  <1>1. CASE pc = "await" /\ pc' = "reconcile" /\ UNCHANGED <<rec, disk>>
    BY <1>1 DEF Within, Early, Launched, disk
  <1>2. CASE Finalize("Succeeded", "finished")
    BY <1>2, FinalizeWithin
  <1>3. CASE Waiting /\ AfterWait
    BY <1>3, AfterWaitWithin DEF Waiting
  <1>4. CASE WaitFailed
    BY <1>4, WaitFailedWithin
  <1>5. QED
    BY <1>1, <1>2, <1>3, <1>4 DEF Broken

LEMMA StepsWithin ==
    ASSUME TypeInv, Next
    PROVE  Within \/ Attached \/ Send \/ Trigger \/ Record \/ Crash
  <1>1. CASE UNCHANGED <<pc, rec, pending>>
    BY <1>1 DEF Within
  <1>2. CASE Environment
    BY <1>1, <1>2 DEF Environment, Announce, Work, Finish, FailLate, Drop, ServerStep, turn, disk
  <1>3. CASE Absorb \/ Closed \/ Redial \/ Refreshed \/ Connected
    BY <1>1, <1>3 DEF Absorb, Closed, Redial, Refreshed, Connected, turn, disk
  <1>4. CASE Searched
    BY <1>4 DEF Searched, turn, disk, Within, Early, Launched
  <1>5. CASE Deliver
    <2>1. PICK e \in pend : Returned(e)
      BY <1>5 DEF Deliver
    <2>2. CASE pc = "await" /\ Goto("check")
      BY <2>2, GotoWithin DEF Launched
    <2>3. CASE pc = "confirm" /\ Goto(IF CurrentError \/ mirror # "finished" THEN "await" ELSE "confirm")
      BY <2>3, GotoWithin DEF Launched
    <2>4. CASE Waiting /\ AfterWait
      BY <2>4, AfterWaitWithin DEF Waiting
    <2>5. CASE Goto(pc)
      BY <2>5, GotoWithin
    <2>6. QED
      BY <2>1, <2>2, <2>3, <2>4, <2>5 DEF Returned
  <1>6. CASE Ended
    BY <1>6, BrokenWithin DEF Ended, Polling
  <1>7. CASE DialFails
    BY <1>1, <1>7, BrokenWithin, NoSessionWithin DEF DialFails, turn, disk
  <1>8. CASE DialCut
    <2>1. CASE Finalize("Succeeded", "finished") \/ WaitFailed
      BY <2>1, FinalizeWithin, WaitFailedWithin
    <2>2. CASE pc = "await" /\ Goto("check")
      BY <2>2, GotoWithin DEF Launched
    <2>3. CASE pc = "await" /\ pc' = "reconcile" /\ UNCHANGED <<rec, disk>>
      BY <2>3 DEF Within, Early, Launched, disk
    <2>4. QED
      BY <1>8, <2>1, <2>2, <2>3 DEF DialCut
  <1>9. CASE Deadline
    <2>1. CASE ConfirmDeadline \/ WaitDeadline
      BY <2>1, FinalizeWithin, WaitFailedWithin DEF ConfirmDeadline, WaitDeadline
    <2>2. CASE Tick \/ FramesLost
      BY <2>2, GotoWithin DEF Tick, FramesLost, Launched
    <2>3. CASE Stall
      BY <2>3 DEF Stall, Within, Early, Launched, disk
    <2>4. QED
      BY <1>9, <2>1, <2>2, <2>3 DEF Deadline
  <1>10. CASE Backlog
    BY <1>10, GotoWithin, AfterWaitWithin DEF Backlog
  <1>11. CASE Resync
    BY <1>11, GotoWithin DEF Resync, Launched
  <1>12. CASE Check
    BY <1>12, GotoWithin, FinalizeWithin DEF Check, Launched
  <1>13. CASE Reconcile
    BY <1>13, GotoWithin, FinalizeWithin DEF Reconcile, GivenUp, Launched
  <1>14. QED
    BY <1>2, <1>3, <1>4, <1>5, <1>6, <1>7, <1>8, <1>9, <1>10, <1>11, <1>12, <1>13
       DEF Next, NextEvent, Dial, Runner

LEMMA RunsSame ==
    ASSUME TypeInv, Next
    PROVE  runs' = runs \/ (Trigger /\ Started)
  <1>1. CASE Environment
    BY <1>1 DEF Environment, Announce, Work, Finish, FailLate, Drop, ServerStep, server
  <1>2. CASE NextEvent
    BY <1>2 DEF NextEvent, Absorb, Closed, Redial, Deliver, Ended, server
  <1>3. CASE Dial
    BY <1>3 DEF Dial, Refreshed, Connected, Searched, DialFails, DialCut, server
  <1>4. CASE Deadline
    BY <1>4 DEF Deadline, Tick, ConfirmDeadline, Stall, WaitDeadline, FramesLost, Still, server
  <1>5. CASE Send \/ Trigger
    BY <1>5 DEF Send, Trigger, Prompted, Unheard, server
  <1>6. CASE Attached \/ Backlog \/ Record \/ Resync \/ Check \/ Reconcile \/ Crash
    BY <1>6 DEF Attached, Backlog, Record, Resync, Check, Reconcile, Crash, Still, server
  <1>7. QED
    BY <1>1, <1>2, <1>3, <1>4, <1>5, <1>6 DEF Next, Runner

LEMMA StartedLeaves == Trigger /\ Started => pc = "trigger" /\ pc' \notin Early
  <1> SUFFICES ASSUME Trigger, Started PROVE pc = "trigger" /\ pc' \notin Early
    OBVIOUS
  <1>1. busy = "no" /\ pc = "trigger"
    BY DEF Started, Trigger
  <1>2. Goto("record") \/ TriggerFailed
    BY <1>1 DEF Trigger
  <1>3. CASE Goto("record")
    BY <1>1, <1>3 DEF Goto, Early
  <1>4. CASE TriggerFailed
    BY <1>1, <1>4 DEF TriggerFailed, NoSession, Finalize, Early
  <1>5. QED
    BY <1>1, <1>2, <1>3, <1>4

LEMMA InitRun == Init => RunInv
  BY DEF Init, RunInv, Launched

LEMMA RunNext == TypeInv /\ RunInv /\ [Next]_vars => RunInv'
  <1> SUFFICES ASSUME TypeInv, RunInv, [Next]_vars PROVE RunInv'
    OBVIOUS
  <1>1. TypeInv' /\ runs \in Nat /\ runs' \in Nat
    BY NextTypes DEF TypeInv, RunTypes
  <1>2. CASE UNCHANGED vars
    BY <1>2 DEF vars, server, turn, disk, RunInv
  <1>3. CASE Next /\ Within
    <2>1. CASE runs' = runs
      BY <1>1, <1>3, <2>1, RunKept
    <2>2. CASE Trigger /\ Started
      <3>1. runs' > 0
        BY <1>1, <2>2 DEF Started
      <3>2. pc' \notin Early
        BY <2>2, StartedLeaves
      <3>3. QED
        BY <1>1, <3>1, <3>2 DEF RunInv, Early
    <2>3. QED
      BY <1>3, <2>1, <2>2, RunsSame
  <1>4. CASE Attached
    <2>1. runs' = runs /\ UNCHANGED <<rec, pending>> /\ pc = "attached"
      BY <1>4 DEF Attached, server
    <2>2. \/ ~rec /\ pc' \in {"waitPrior", "send"}
          \/ rec /\ pending /\ pc' = "trigger"
          \/ rec /\ ~pending /\ pc' = "check"
      BY <1>4 DEF Attached
    <2>3. QED
      BY <2>1, <2>2 DEF RunInv, Early, Launched
  <1>5. CASE Send
    <2>1. runs' = runs /\ rec' = rec /\ pc = "send"
      BY <1>5 DEF Send, Prompted, Unheard, server, Finalize
    <2>2. (pc' = "trigger" /\ pending' = TRUE) \/ pc' = "done"
      BY <1>5 DEF Send, Finalize
    <2>3. QED
      BY <2>1, <2>2 DEF RunInv, Early, Launched
  <1>6. CASE Trigger
    <2>1. CASE Started
      <3>1. runs' > 0 /\ rec' = rec
        <4>1. Goto("record") \/ TriggerFailed \/ NoSession
          BY <1>6, <2>1 DEF Started, Trigger
        <4>2. QED
          BY <1>1, <2>1, <4>1 DEF Started, Goto, NoSession, TriggerFailed, Finalize
      <3>2. pc' \notin Early
        BY <1>6, <2>1, StartedLeaves
      <3>3. QED
        BY <1>1, <3>1, <3>2 DEF RunInv, Early
    <2>2. CASE ~Started
      <3>1. runs' = runs /\ rec' = rec /\ pc = "trigger"
        BY <1>6, <2>2 DEF Trigger, Unheard, server, NoSession, TriggerFailed, Finalize
      <3>2. (pc' = "backlog" /\ pending' = pending) \/ pc' = "done"
        BY <1>6, <2>2 DEF Trigger, NoSession, TriggerFailed, Finalize, disk
      <3>3. QED
        BY <3>1, <3>2 DEF RunInv, Early, Launched
    <2>3. QED
      BY <2>1, <2>2
  <1>7. CASE Record
    BY <1>7 DEF Record, server, RunInv, Early, Launched
  <1>8. CASE Crash
    <2>1. rec' = TRUE /\ pc' = "attach" /\ runs' = runs /\ pending' = pending /\ (runs > 0 \/ pending)
      BY <1>8 DEF Crash, server, disk
    <2>2. QED
      BY <2>1 DEF RunInv, Early, Launched
  <1>9. QED
    BY <1>2, <1>3, <1>4, <1>5, <1>6, <1>7, <1>8, StepsWithin

(* The confirmation of a finished turn: a newer update or an error event    *)
(* that it has not seen is still queued.                                    *)
ConfirmInv ==
    pc = "confirm" =>
      /\ Latest(log, cache, "finished") \/ pend # {}
      /\ \A e \in cache \ baseline : log[e].kind = "error" => e \in pend

LEMMA ConfirmSame ==
    ASSUME TypeInv, ConfirmInv, Grown, pc' = pc, UNCHANGED <<cache, pend, baseline>>
    PROVE  ConfirmInv'
  <1> SUFFICES ASSUME pc = "confirm" PROVE ConfirmInv'
    BY DEF ConfirmInv
  <1>1. Latest(log, cache, "finished") => Latest(log', cache, "finished")
    BY LatestStays DEF TypeInv, StreamTypes
  <1>2. \A e \in cache : log'[e] = log[e]
    BY DEF TypeInv, StreamTypes, Grown
  <1>3. QED
    BY <1>1, <1>2 DEF ConfirmInv

LEMMA ConfirmMore ==
    ASSUME TypeInv, ConfirmInv, NEW S, log' = log, pc = "confirm", UNCHANGED baseline,
           cache' = cache \cup S, pend' = pend \cup (S \ cache)
    PROVE  ConfirmInv'
  <1>1. CASE S \ cache = {}
    <2>1. cache' = cache /\ pend' = pend
      BY <1>1
    <2>2. QED
      BY <2>1 DEF ConfirmInv
  <1>2. CASE S \ cache # {}
    BY <1>2 DEF ConfirmInv
  <1>3. QED
    BY <1>1, <1>2

LEMMA ConfirmNext == Calm /\ TypeInv /\ HeldInv /\ ConfirmInv /\ [Next]_vars => ConfirmInv'
  <1> SUFFICES ASSUME Calm, TypeInv, HeldInv, ConfirmInv, [Next]_vars, pc' = "confirm"
               PROVE  ConfirmInv'
    BY DEF ConfirmInv
  <1>1. Grown
    BY LogGrows DEF TypeInv, IInv
  <1>2. pc = "confirm" \/ pc = "check"
    BY OutcomeSteps DEF OutcomeStep
  <1>3. CASE UNCHANGED <<pc, cache, pend, baseline>>
    BY <1>1, <1>3, ConfirmSame
  <1>4. CASE UNCHANGED vars
    BY <1>3, <1>4 DEF vars, stream, turn
  <1>5. CASE Environment
    BY <1>3, <1>5 DEF Environment, Announce, Work, Finish, FailLate, Drop, ServerStep, stream, turn
  <1>6. CASE Absorb
    <2>1. PICK S : Push(S)
      BY <1>6 DEF Absorb
    <2>2. pc = "confirm" /\ baseline' = baseline /\ log' = log
      BY <1>6, <1>2 DEF Absorb, turn, server
    <2>3. QED
      BY <2>1, <2>2, ConfirmMore DEF Push
  <1>7. CASE Closed \/ Redial \/ Refreshed \/ Connected
    BY <1>3, <1>7 DEF Closed, Redial, Refreshed, Connected, turn
  <1>8. CASE Searched
    <2>1. pc = "confirm" /\ baseline' = baseline /\ log' = log
      BY <1>8 DEF Searched, turn, server
    <2>2. QED
      BY <1>8, <2>1, ConfirmMore DEF Searched
  <1>9. CASE Deliver
    <2>1. PICK e \in pend : Returned(e)
      BY <1>9 DEF Deliver
    <2>2. UNCHANGED <<log, cache>> /\ dial = "no"
      BY <1>9 DEF Deliver, server, Polling
    <2>3. pc = "confirm" /\ Goto(IF CurrentError \/ mirror # "finished" THEN "await" ELSE "confirm")
      BY <2>1, <1>2, <1>9 DEF Returned, Waiting, Goto
    <2>4. ~CurrentError /\ mirror = "finished" /\ baseline' = baseline
      BY <2>3 DEF Goto
    <2>5. Latest(log, cache, "finished")
      BY <2>2, <2>4 DEF HeldInv, MirrorOK
    <2>6. QED
      BY <2>2, <2>4, <2>5 DEF ConfirmInv, CurrentError, Current
  <1>10. CASE Check
    <2>1. UNCHANGED <<log, cache, baseline>> /\ ~CurrentError /\ mirror = "finished" /\ pc = "check"
      BY <1>10 DEF Check, Still, server, stream, Goto, Finalize
    <2>2. dial = "no"
      BY <2>1 DEF HeldInv, LinkOK, InStream, Waiting
    <2>3. Latest(log, cache, "finished")
      BY <2>1, <2>2 DEF HeldInv, MirrorOK
    <2>4. QED
      BY <2>1, <2>3 DEF ConfirmInv, CurrentError, Current
  <1>11. CASE Ended
    BY <1>11 DEF Ended, Over, Polling, HeldInv, LinkOK
  <1>12. CASE Deadline
    BY <1>2, <1>12, CalmDials
       DEF Deadline, Tick, ConfirmDeadline, Stall, WaitDeadline, WaitFailed, Waiting, Goto, Finalize
  <1>13. CASE Attached \/ Send \/ Trigger \/ Backlog \/ Record \/ Resync \/ Reconcile \/ Crash
    BY <1>2, <1>13 DEF Attached, Send, Trigger, Backlog, Record, Resync, Reconcile, Crash
  <1>14. QED
    BY <1>4, <1>5, <1>6, <1>7, <1>8, <1>9, <1>10, <1>11, <1>12, <1>13, CalmDials
       DEF Next, NextEvent, Dial, Runner

(* A success is decided when the stream is idle: everything has been seen.  *)
LEMMA SuccessStep ==
    ASSUME Calm, TypeInv, HeldInv, ConfirmInv, [Next]_vars, out' # out, out'.kind = "Succeeded"
    PROVE  /\ pc = "confirm" /\ UNCHANGED server /\ cache = Ids
           /\ Latest(log, Ids, "finished")
           /\ \A e \in Ids \ baseline : log[e].kind # "error"
  <1>1. pc = "confirm"
    BY OutcomeSteps DEF OutcomeStep
  <1>2. ConfirmDeadline
    <2>1. CASE Environment \/ UNCHANGED vars
      BY <2>1 DEF Environment, Announce, Work, Finish, FailLate, Drop, ServerStep, turn, vars
    <2>2. CASE Absorb \/ Closed \/ Redial \/ Refreshed \/ Connected \/ Searched
      BY <2>2 DEF Absorb, Closed, Redial, Refreshed, Connected, Searched, turn
    <2>3. CASE Deliver
      BY <1>1, <2>3 DEF Deliver, Returned, Waiting, Goto
    <2>4. CASE Ended
      BY <2>4 DEF Ended, Over, Polling, HeldInv, LinkOK
    <2>5. CASE Deadline
      BY <1>1, <2>5, CalmDials DEF Deadline, Tick, Stall, WaitDeadline, Waiting
    <2>6. CASE Runner \/ Crash
      BY <1>1, <2>6 DEF Runner, Attached, Send, Trigger, Backlog, Record, Resync, Check, Reconcile,
                        Crash
    <2>7. QED
      BY <2>1, <2>2, <2>3, <2>4, <2>5, <2>6, CalmDials DEF Next, NextEvent, Dial
  <1>3. Idle /\ dial = "no" /\ UNCHANGED server
    BY <1>2 DEF ConfirmDeadline, Expired, Polling, Calm, Still
  <1>4. cache = Ids
    BY <1>3 DEF Idle, HeldInv, PrefixOK, TypeInv, StreamTypes
  <1>5. Latest(log, cache, "finished") /\ \A e \in cache \ baseline : log[e].kind # "error"
    BY <1>1, <1>3 DEF ConfirmInv, Idle
  <1>6. QED
    BY <1>1, <1>3, <1>4, <1>5

LEMMA DoneStays == TypeInv /\ Succeeded /\ [Next]_vars => out' = out /\ (busy' = "mine" => busy = "mine")
  <1> SUFFICES ASSUME TypeInv, Succeeded, [Next]_vars
               PROVE  out' = out /\ (busy' = "mine" => busy = "mine")
    OBVIOUS
  <1>1. pc = "done" /\ out # NoOut
    BY DEF TypeInv, RunnerTypes, Succeeded, NoOut
  <1>2. CASE Environment \/ UNCHANGED vars
    BY <1>2 DEF Environment, Announce, Work, Finish, FailLate, Drop, ServerStep, turn, vars, server
  <1>3. CASE NextEvent \/ Dial \/ Deadline
    BY <1>1, <1>3 DEF NextEvent, Absorb, Closed, Redial, Deliver, Ended, Polling, InStream, Waiting,
                      Dial, Refreshed, Connected, Searched, DialFails, DialCut, Dialling,
                      Deadline, Tick, ConfirmDeadline, Stall, WaitDeadline, FramesLost, Expired
  <1>4. CASE Runner \/ Crash
    BY <1>1, <1>4 DEF Runner, Attached, Send, Trigger, Backlog, Record, Resync, Check, Reconcile,
                      Crash
  <1>5. QED
    BY <1>2, <1>3, <1>4 DEF Next

(* What the reports rest on. *)
CalmInv == Calm => HeldInv /\ ConfirmInv

SuccessInv == Calm /\ "Late" \notin Failing => SuccessIsTrue

LEMMA SuccessNext ==
    TypeInv /\ CalmInv /\ ServerInv /\ RunInv /\ SuccessInv /\ [Next]_vars => SuccessInv'
  <1> SUFFICES ASSUME TypeInv, Calm, HeldInv, ConfirmInv, ServerInv, RunInv, SuccessIsTrue,
                      "Late" \notin Failing, [Next]_vars, Succeeded'
               PROVE  Own("finished")' /\ busy' # "mine"
    BY DEF CalmInv, SuccessInv, SuccessIsTrue, Calm
  <1>1. Grown
    BY LogGrows DEF TypeInv, IInv
  <1>2. CASE out' = out
    <2>1. Succeeded
      BY <1>2 DEF Succeeded
    <2>2. QED
      BY <1>1, <2>1, DoneStays, OwnStays DEF SuccessIsTrue
  <1>3. CASE out' # out
    <2>1. pc = "confirm" /\ UNCHANGED server /\ Latest(log, Ids, "finished")
      BY <1>3, SuccessStep DEF Succeeded
    <2>2. runs > 0 /\ runs \in Nat
      BY <2>1 DEF RunInv, Launched, TypeInv, RunTypes
    <2>3. PICK r \in Ids : /\ log[r].kind \in Statuses
                           /\ \A e \in Ids : e >= r /\ log[e].kind \in Statuses => log[e].mine
      BY <2>2 DEF ServerInv, OwnLatest
    <2>4. PICK u \in Ids : /\ log[u].kind = "finished"
                           /\ \A f \in Ids : f > u => log[f].kind \notin Statuses
      BY <2>1 DEF Latest
    <2>5. u >= r /\ log[u].mine /\ log[u] \in Events
      BY <2>3, <2>4 DEF Ids, Statuses, TypeInv, IInv
    <2>6. Own("finished")
      BY <2>4, <2>5 DEF Own, Event, Events
    <2>7. busy # "mine"
      <3> SUFFICES ASSUME busy = "mine" PROVE FALSE
        OBVIOUS
      <3>1. Latest(log, Ids, "running")
        BY DEF ServerInv
      <3>2. QED
        BY <2>1, <3>1, LatestUnique DEF Ids
    <2>8. QED
      BY <1>1, <2>1, <2>6, <2>7, OwnStays DEF server
  <1>4. QED
    BY <1>2, <1>3

LEMMA InitCalm == Init => CalmInv /\ SuccessInv
  <1> SUFFICES ASSUME Init PROVE CalmInv /\ SuccessInv
    OBVIOUS
  <1>1. pc = "attach" /\ out = NoOut
    BY DEF Init
  <1>2. ConfirmInv /\ SuccessIsTrue
    BY <1>1 DEF ConfirmInv, SuccessIsTrue, Succeeded, NoOut
  <1>3. QED
    BY <1>2, InitHeld DEF CalmInv, SuccessInv

LEMMA CalmNext == TypeInv /\ CalmInv /\ [Next]_vars => CalmInv'
  BY HeldNext, ConfirmNext DEF CalmInv, Calm

LEMMA CalmSpec == Spec => [](TypeInv /\ CalmInv /\ ServerInv /\ RunInv)
  <1>1. Init => TypeInv /\ CalmInv /\ ServerInv /\ RunInv
    BY InitTypes, InitCalm, InitServer, InitRun
  <1>2. TypeInv /\ CalmInv /\ ServerInv /\ RunInv /\ [Next]_vars
          => (TypeInv /\ CalmInv /\ ServerInv /\ RunInv)'
    BY NextTypes, CalmNext, ServerNext, RunNext
  <1>3. QED
    BY <1>1, <1>2, PTL DEF Spec

(* Whatever turns the conversation has seen and however often sockets close *)
(* and the daemon crashes: a reported success is a turn of this prompt that *)
(* finished, and the server works on no other one of it.                    *)
THEOREM SuccessReports ==
    Spec => [](Failing \subseteq {"Drop", "Crash"} => SuccessIsTrue)
  <1>1. Spec => []SuccessInv
    BY CalmSpec, InitCalm, SuccessNext, PTL DEF Spec
  <1>2. SuccessInv => (Failing \subseteq {"Drop", "Crash"} => SuccessIsTrue)
    BY DEF SuccessInv, Calm
  <1>3. QED
    BY <1>1, <1>2, PTL

-----------------------------------------------------------------------------
(* A failure for an error event, after a wait for a turn of another prompt. *)
(* While that turn works, its `running` is the newest update of the log; an *)
(* update above it comes after all of its errors, so a runner that holds a  *)
(* prefix of the log and sees the turn's end holds its errors too.          *)

PriorErrors == {e \in Ids : log[e] = Event("error", FALSE)}

SettledBy(u) ==
    /\ busy = "prior" => announced
    /\ \A e \in Updates(Ids) : e > u => busy # "prior" /\ \A x \in PriorErrors : x < e

PriorInv ==
    \A u \in Ids : log[u].kind = "running" =>
        \/ SettledBy(u)
        \/ \E v \in Updates(Ids) : v > u /\ (pc # "attach" => v \in cache)

Watched == \E u \in cache : log[u].kind = "running" /\ SettledBy(u)

WaitInv == Waiting => Watched

HasPrompt == \E e \in Ids : log[e] = Event("other", TRUE)

PromptInv == pending \/ pc \in {"trigger", "backlog", "waitConflict"} => HasPrompt

(* What the server may do in a step. *)
Works(k) == \E m \in BOOLEAN : Written(k, m) /\ (m = FALSE <=> busy = "prior")

Serves ==
    \/ UNCHANGED <<log, busy, announced>>
    \/ busy # "no" /\ ~announced /\ Works("running") /\ busy' = busy /\ announced'
    \/ /\ busy # "no" /\ announced /\ UNCHANGED <<busy, announced>>
       /\ \E k \in {"other", "error"} : Works(k)
    \/ busy # "no" /\ busy' = "no" /\ \E k \in {"finished", "failed"} : Works(k)
    \/ busy = "no" /\ busy' = "no" /\ Written("error", TRUE)
    \/ Written("other", TRUE) /\ UNCHANGED <<busy, announced>>
    \/ busy = "no" /\ busy' = "mine" /\ (Written("running", TRUE) \/ log' = log)

LEMMA ServerServes == TypeInv /\ [Next]_vars => Serves
  <1> SUFFICES ASSUME TypeInv, [Next]_vars PROVE Serves
    OBVIOUS
  <1>1. CASE UNCHANGED <<log, busy, announced>>
    BY <1>1 DEF Serves
  <1>2. \A k \in Kinds, m \in BOOLEAN : Publish(k, m) => Written(k, m)
    BY PublishWrites DEF TypeInv, IInv
  <1>3. ASSUME NEW k \in Kinds, Publish(k, Mine), busy # "no" PROVE Works(k)
    <2>1. PICK m \in BOOLEAN : m = Mine
      BY DEF Mine
    <2>2. m = FALSE <=> busy = "prior"
      BY <1>3, <2>1 DEF Mine, TypeInv, ServerTypes
    <2>3. Publish(k, m)
      BY <1>3, <2>1
    <2>4. QED
      BY <1>2, <2>2, <2>3 DEF Works
  <1>0.  {"running", "other", "error", "finished", "failed"} \subseteq Kinds
    BY DEF Kinds, Statuses
  <1>4. CASE Announce
    BY <1>0, <1>3, <1>4 DEF Announce, ServerStep, Serves
  <1>5. CASE Work
    BY <1>0, <1>3, <1>5 DEF Work, ServerStep, Serves
  <1>6. CASE Finish
    BY <1>0, <1>3, <1>6 DEF Finish, ServerStep, Serves
  <1>7. CASE FailLate
    BY <1>0, <1>2, <1>7 DEF FailLate, Serves
  <1>8. CASE Send
    <2>1. (Publish("other", TRUE) /\ UNCHANGED <<busy, announced>>) \/ UNCHANGED server
      BY <1>8 DEF Send, Prompted, Unheard
    <2>2. QED
      BY <1>0, <1>1, <1>2, <2>1 DEF server, Serves
  <1>9. CASE Trigger
    <2>1. Started \/ UNCHANGED server
      BY <1>9 DEF Trigger, Unheard
    <2>2. CASE Started
      <3>1. busy = "no" /\ busy' = "mine" /\ (Publish("running", TRUE) \/ log' = log)
        BY <2>2 DEF Started
      <3>2. QED
        BY <1>0, <1>2, <3>1 DEF Serves
    <2>3. QED
      BY <1>1, <2>1, <2>2 DEF server
  <1>10. CASE Drop \/ NextEvent \/ Dial
    BY <1>1, <1>10 DEF Drop, NextEvent, Absorb, Closed, Redial, Deliver, Ended, Dial, Refreshed,
                       Connected, Searched, DialFails, DialCut, server
  <1>11. CASE Deadline \/ Attached \/ Backlog \/ Record \/ Resync \/ Check \/ Reconcile \/ Crash
    BY <1>1, <1>11 DEF Deadline, Tick, ConfirmDeadline, Stall, WaitDeadline, FramesLost, Still,
                       Attached, Backlog, Record, Resync, Check, Reconcile, Crash, server
  <1>12. CASE UNCHANGED vars
    BY <1>1, <1>12 DEF vars, server
  <1>13. QED
    BY <1>4, <1>5, <1>6, <1>7, <1>8, <1>9, <1>10, <1>11, <1>12 DEF Next, Environment, Runner

LEMMA WrittenLast ==
    ASSUME NEW k, NEW m, Written(k, m)
    PROVE  /\ Len(log) \in Nat
           /\ \A e \in Ids : e \in Nat /\ e < Len(log) + 1 /\ log'[e] = log[e] /\ e \in Ids'
           /\ \A e \in Ids' : e \in Nat /\ (e \in Ids \/ e = Len(log) + 1)
           /\ log'[Len(log) + 1].kind = k /\ log'[Len(log) + 1].mine = m
           /\ PriorErrors' = PriorErrors \/ (k = "error" /\ m = FALSE)
           /\ PriorErrors \subseteq PriorErrors' /\ PriorErrors' \subseteq PriorErrors \cup {Len(log) + 1}
           /\ Updates(Ids)' = IF k \in Statuses THEN Updates(Ids) \cup {Len(log) + 1} ELSE Updates(Ids)
  <1> DEFINE n == Len(log) + 1
  <1>1. Len(log) \in Nat /\ Ids' = Ids \cup {n} /\ log'[n] = Event(k, m) /\ n \in Nat
        /\ \A e \in Ids : log'[e] = log[e]
    BY DEF Written, Grown
  <1>2. \A e \in Ids : e \in Nat /\ e < n
    BY <1>1 DEF Ids
  <1>3. log'[n].kind = k /\ log'[n].mine = m
    BY <1>1 DEF Event
  <1> HIDE DEF n
  <1>4. Event(k, m) = Event("error", FALSE) => k = "error" /\ m = FALSE
    BY DEF Event
  <1>5. PriorErrors' = {e \in Ids \cup {n} : log'[e] = Event("error", FALSE)}
    BY <1>1 DEF PriorErrors
  <1>6. /\ PriorErrors' = PriorErrors \/ (k = "error" /\ m = FALSE)
        /\ PriorErrors \subseteq PriorErrors' /\ PriorErrors' \subseteq PriorErrors \cup {n}
    BY <1>1, <1>4, <1>5 DEF PriorErrors
  <1>7. Updates(Ids)' = {e \in Ids \cup {n} : log'[e].kind \in Statuses}
    BY <1>1 DEF Updates
  <1>8. Updates(Ids)' = IF k \in Statuses THEN Updates(Ids) \cup {n} ELSE Updates(Ids)
    BY <1>1, <1>3, <1>7 DEF Updates
  <1>9. QED
    BY <1>1, <1>2, <1>3, <1>6, <1>8 DEF n

LEMMA SettledStays ==
    ASSUME TypeInv, Serves, NEW u \in Ids, SettledBy(u)
    PROVE  SettledBy(u)'
  <1>0. busy \in {"no", "prior", "mine"} /\ announced \in BOOLEAN /\ PriorErrors \subseteq Ids
    BY DEF TypeInv, ServerTypes, PriorErrors
  <1>1. CASE log' = log /\ (UNCHANGED <<busy, announced>> \/ busy' = "mine")
    BY <1>1 DEF SettledBy, Updates, Ids, PriorErrors
  <1>2. ASSUME NEW k, NEW m, Written(k, m), busy' # "prior", PriorErrors' = PriorErrors
        PROVE  SettledBy(u)'
    <2> SUFFICES ASSUME NEW e \in Updates(Ids)', e > u, NEW x \in PriorErrors PROVE x < e
      BY <1>2 DEF SettledBy
    <2>1. e \in Updates(Ids) \/ e = Len(log) + 1
      BY <1>2, WrittenLast
    <2>2. x < Len(log) + 1
      BY <1>0, <1>2, WrittenLast
    <2>3. QED
      BY <2>1, <2>2 DEF SettledBy
  <1>3. ASSUME NEW k, NEW m, Written(k, m), k \notin Statuses, UNCHANGED <<busy, announced>>,
               PriorErrors' = PriorErrors \/ busy = "prior"
        PROVE  SettledBy(u)'
    <2>1. Updates(Ids)' = Updates(Ids)
      BY <1>3, WrittenLast
    <2>2. CASE PriorErrors' = PriorErrors
      BY <1>3, <2>1, <2>2 DEF SettledBy
    <2>3. CASE busy = "prior"
      BY <1>3, <2>1, <2>3 DEF SettledBy
    <2>4. QED
      BY <1>3, <2>2, <2>3
  <1>4. CASE busy # "no" /\ ~announced /\ Works("running") /\ busy' = busy /\ announced'
    <2>1. busy # "prior"
      BY <1>4 DEF SettledBy
    <2>2. PICK m \in BOOLEAN : Written("running", m)
      BY <1>4 DEF Works
    <2>3. PriorErrors' = PriorErrors
      <3>1. PriorErrors' = PriorErrors \/ ("running" = "error" /\ m = FALSE)
        BY <2>2, WrittenLast
      <3>2. QED
        BY <3>1
    <2>4. QED
      BY <1>2, <1>4, <2>1, <2>2, <2>3
  <1>5. ASSUME NEW k \in {"other", "error"}, Works(k), busy # "no", UNCHANGED <<busy, announced>>
        PROVE  SettledBy(u)'
    <2>1. k \notin Statuses
      BY DEF Statuses
    <2>2. PICK m \in BOOLEAN : Written(k, m) /\ (m = FALSE <=> busy = "prior")
      BY <1>5 DEF Works
    <2>3. PriorErrors' = PriorErrors \/ busy = "prior"
      BY <2>2, WrittenLast
    <2>4. QED
      BY <1>3, <1>5, <2>1, <2>2, <2>3
  <1>6. ASSUME NEW k \in {"finished", "failed"}, Works(k), busy' = "no"
        PROVE  SettledBy(u)'
    <2>1. PICK m \in BOOLEAN : Written(k, m)
      BY <1>6 DEF Works
    <2>2. PriorErrors' = PriorErrors
      BY <2>1, WrittenLast
    <2>3. QED
      BY <1>2, <1>6, <2>1, <2>2
  <1>7. CASE busy = "no" /\ busy' = "no" /\ Written("error", TRUE)
    <2>1. PriorErrors' = PriorErrors
      BY <1>7, WrittenLast
    <2>2. QED
      BY <1>2, <1>7, <2>1
  <1>8. CASE Written("other", TRUE) /\ UNCHANGED <<busy, announced>>
    <2>1. PriorErrors' = PriorErrors /\ "other" \notin Statuses
      BY <1>8, WrittenLast DEF Statuses
    <2>2. QED
      BY <1>3, <1>8, <2>1
  <1>9. CASE busy' = "mine" /\ Written("running", TRUE)
    <2>1. PriorErrors' = PriorErrors
      BY <1>9, WrittenLast
    <2>2. QED
      BY <1>2, <1>9, <2>1
  <1>10. QED
    BY <1>1, <1>4, <1>5, <1>6, <1>7, <1>8, <1>9 DEF Serves

(* A `running` that is being written settles what comes after it. *)
LEMMA SettledNew ==
    ASSUME TypeInv, Serves, NEW n \in Nat, n = Len(log) + 1, NEW m, Written("running", m)
    PROVE  SettledBy(n)'
  <1>1. busy' = "prior" => announced'
    <2>1. log' # log /\ log'[n].kind = "running"
      <3>1. log'[Len(log) + 1].kind = "running"
        BY WrittenLast
      <3>2. Len(log') = Len(log) + 1 /\ Len(log) \in Nat
        BY DEF Written, Grown
      <3>3. QED
        BY <3>1, <3>2
    <2>2. \A k, b : Written(k, b) => k = "running"
      <3> SUFFICES ASSUME NEW k, NEW b, Written(k, b) PROVE k = "running"
        OBVIOUS
      <3>1. log'[Len(log) + 1].kind = k
        BY WrittenLast
      <3>2. QED
        BY <2>1, <3>1
    <2>3. ~Written("other", TRUE) /\ \A k \in {"other", "error", "finished", "failed"} : ~Works(k)
      BY <2>2 DEF Works
    <2>4. QED
      BY <2>1, <2>3 DEF Serves
  <1>2. \A e \in Updates(Ids)' : ~(e > n)
    <2>1. \A e \in Ids' : ~(e > n)
      <3> SUFFICES ASSUME NEW e \in Ids' PROVE ~(e > n)
        OBVIOUS
      <3>1. e \in Nat /\ (e \in Ids \/ e = n)
        BY WrittenLast
      <3>2. e \in Ids => e < n
        BY WrittenLast
      <3>3. QED
        BY <3>1, <3>2
    <2>2. QED
      BY <2>1 DEF Updates
  <1>3. QED
    BY <1>1, <1>2 DEF SettledBy

(* What has been fetched stays at hand, and an attachment fetches everything. *)
Keeps == pc' = "attach" \/ (cache \subseteq cache' /\ (pc = "attach" => cache' = Ids))

LEMMA CacheKept == Calm /\ TypeInv /\ HeldInv /\ [Next]_vars => Keeps
  <1> SUFFICES ASSUME Calm, TypeInv, HeldInv, [Next]_vars PROVE Keeps
    OBVIOUS
  <1>1. CASE cache' = cache /\ pc' = pc
    BY <1>1 DEF Keeps
  <1>2. CASE pc # "attach" /\ cache \subseteq cache'
    BY <1>2 DEF Keeps
  <1>3. \A S : Push(S) => cache \subseteq cache'
    BY DEF Push
  <1>4. CASE Environment \/ UNCHANGED vars
    BY <1>1, <1>4 DEF Environment, Announce, Work, Finish, FailLate, Drop, ServerStep, stream, vars
  <1>5. CASE NextEvent
    <2>1. pc # "attach"
      BY <1>5 DEF NextEvent, Absorb, Closed, Redial, Deliver, Ended, Polling, InStream, Waiting
    <2>2. cache \subseteq cache'
      BY <1>3, <1>5 DEF NextEvent, Absorb, Closed, Redial, Deliver, Ended, stream
    <2>3. QED
      BY <1>2, <2>1, <2>2
  <1>6. CASE Refreshed \/ Connected
    BY <1>1, <1>6 DEF Refreshed, Connected
  <1>7. CASE Searched
    <2>1. cache' = cache \cup Ids /\ cache \subseteq Ids
      BY <1>7 DEF Searched, TypeInv, StreamTypes
    <2>2. QED
      BY <2>1 DEF Keeps
  <1>8. CASE Deadline
    BY <1>2, <1>8, CalmDials DEF Deadline, Tick, ConfirmDeadline, Stall, WaitDeadline, Expired,
                                 Polling, InStream, Waiting, Still, stream
  <1>9. CASE Runner
    <2>1. pc # "attach"
      BY <1>9 DEF Runner, Attached, Send, Trigger, Backlog, Record, Resync, Check, Reconcile
    <2>2. cache \subseteq cache'
      BY <1>3, <1>9 DEF Runner, Attached, Send, Trigger, Backlog, Record, Resync, Check, Reconcile,
                        Refetched, Still, stream
    <2>3. QED
      BY <1>2, <2>1, <2>2
  <1>10. CASE Crash
    BY <1>10 DEF Crash, Keeps
  <1>11. QED
    BY <1>4, <1>5, <1>6, <1>7, <1>8, <1>9, <1>10, CalmDials DEF Next, Dial

LEMMA InitPrior == Init => PriorInv
  <1> SUFFICES ASSUME Init, NEW u \in Ids, log[u].kind = "running"
               PROVE  SettledBy(u) \/ \E v \in Updates(Ids) : v > u /\ (pc # "attach" => v \in cache)
    BY DEF PriorInv
  <1>1. PICK h \in Histories : log = History(h) /\ announced = (h # "late")
                               /\ busy = IF h \in {"active", "late"} THEN "prior" ELSE "no"
    BY DEF Init
  <1>2. pc = "attach"
    BY DEF Init
  <1>3. CASE h = "fresh"
    <2>1. log = <<Event("idle", FALSE)>>
      BY <1>1, <1>3 DEF History
    <2>2. QED
      BY <2>1 DEF Ids, Event
  <1>4. CASE h = "active"
    <2>1. log = <<Event("running", FALSE)>>
      BY <1>1, <1>4 DEF History
    <2>2. Ids = {1} /\ u = 1
      BY <2>1 DEF Ids
    <2>0. announced
      BY <1>1, <1>4
    <2>3. QED
      BY <2>0, <2>2 DEF SettledBy, Updates
  <1>5. CASE h \notin {"fresh", "active"}
    <2>1. log = <<Event("running", FALSE), Event("finished", FALSE)>>
      BY <1>1, <1>5 DEF History
    <2>2. Len(log) = 2 /\ log[1] = Event("running", FALSE) /\ log[2] = Event("finished", FALSE)
      BY <2>1
    <2>3. Ids = {1, 2} /\ log[2].kind = "finished"
      BY <2>2 DEF Ids, Event
    <2>4. u = 1 /\ 2 \in Updates(Ids)
      BY <2>3 DEF Updates, Statuses
    <2>5. QED
      BY <1>2, <2>4
  <1>6. QED
    BY <1>3, <1>4, <1>5

LEMMA PriorNext == Calm /\ TypeInv /\ HeldInv /\ PriorInv /\ [Next]_vars => PriorInv'
  <1> SUFFICES ASSUME Calm, TypeInv, HeldInv, PriorInv, [Next]_vars,
                      NEW u \in Ids', log'[u].kind = "running"
               PROVE  \/ SettledBy(u)'
                      \/ \E v \in Updates(Ids)' : v > u /\ (pc' # "attach" => v \in cache')
    BY DEF PriorInv
  <1>1. Serves /\ Keeps /\ Grown
    BY ServerServes, CacheKept, LogGrows DEF TypeInv, IInv
  <1>2. log' = log \/ \E k, m : Written(k, m)
    BY LogStep, PublishWrites DEF TypeInv, IInv
  <1>3. CASE u \in Ids
    <2>1. log[u].kind = "running"
      BY <1>1, <1>3 DEF Grown
    <2>2. CASE SettledBy(u)
      BY <1>1, <1>3, <2>2, SettledStays
    <2>3. CASE \E v \in Updates(Ids) : v > u /\ (pc # "attach" => v \in cache)
      <3>1. PICK v \in Updates(Ids) : v > u /\ (pc # "attach" => v \in cache)
        BY <2>3
      <3>2. v \in Ids /\ v \in Updates(Ids)'
        BY <1>1 DEF Updates, Grown
      <3>3. pc' # "attach" => v \in cache'
        BY <1>1, <3>1, <3>2 DEF Keeps
      <3>4. QED
        BY <3>1, <3>2, <3>3
    <2>4. QED
      BY <1>3, <2>1, <2>2, <2>3 DEF PriorInv
  <1>4. CASE u \notin Ids
    <2>1. PICK k, m : Written(k, m)
      BY <1>2, <1>4 DEF Ids
    <2>2. u = Len(log) + 1 /\ u \in Nat /\ k = "running"
      BY <1>4, <2>1, WrittenLast
    <2>3. QED
      BY <1>1, <2>1, <2>2, SettledNew
  <1>5. QED
    BY <1>3, <1>4

(* A wait begins when the newest update at hand is a `running`. *)
LEMMA RunningSettles ==
    HeldInv /\ TypeInv /\ PriorInv /\ dial = "no" /\ pc # "attach" /\ mirror = "running"
      => Watched
  <1> SUFFICES ASSUME HeldInv, TypeInv, PriorInv, dial = "no", pc # "attach", mirror = "running"
               PROVE  Watched
    OBVIOUS
  <1>1. PICK u \in cache : /\ log[u].kind = "running"
                           /\ \A f \in cache : f > u => log[f].kind \notin Statuses
    BY DEF HeldInv, MirrorOK, Latest
  <1>2. u \in Ids
    BY DEF TypeInv, StreamTypes
  <1>3. ~\E v \in Updates(Ids) : v > u /\ (pc # "attach" => v \in cache)
    BY <1>1 DEF Updates
  <1>4. QED
    BY <1>1, <1>2, <1>3 DEF PriorInv, Watched

(* It ends when a newer update is at hand, and with it the turn's errors. *)
LEMMA WaitOver ==
    ASSUME TypeInv, HeldInv, WaitInv, Waiting, dial = "no", mirror # "running"
    PROVE  busy # "prior" /\ PriorErrors \subseteq cache
  <1>1. PICK u \in cache : log[u].kind = "running" /\ SettledBy(u)
    BY DEF WaitInv, Watched
  <1>2. PICK v \in cache : /\ log[v].kind = mirror /\ mirror \in Statuses
                           /\ \A f \in cache : f > v => log[f].kind \notin Statuses
    BY DEF HeldInv, MirrorOK, Latest
  <1>3. u \in Nat /\ v \in Nat /\ u # v /\ v \in Updates(Ids)
    BY <1>1, <1>2 DEF TypeInv, StreamTypes, Ids, Updates
  <1>4. ~(u > v)
    BY <1>1, <1>2 DEF Statuses
  <1>5. v > u
    BY <1>3, <1>4
  <1>6. busy # "prior" /\ \A x \in PriorErrors : x < v
    BY <1>1, <1>3, <1>5 DEF SettledBy
  <1>7. \A x \in PriorErrors : x \in 1..v
    <2> SUFFICES ASSUME NEW x \in PriorErrors PROVE x \in 1..v
      OBVIOUS
    <2>1. x \in Ids /\ x < v
      BY <1>6 DEF PriorErrors
    <2>2. QED
      BY <1>3, <2>1 DEF Ids
  <1>8. QED
    BY <1>2, <1>6, <1>7 DEF HeldInv, PrefixOK

LEMMA WaitNext ==
    Calm /\ TypeInv /\ HeldInv /\ PriorInv /\ WaitInv /\ [Next]_vars => WaitInv'
  <1> SUFFICES ASSUME Calm, TypeInv, HeldInv, PriorInv, WaitInv, [Next]_vars, Waiting'
               PROVE  Watched'
    BY DEF WaitInv
  <1>1. Serves /\ Keeps /\ Grown
    BY ServerServes, CacheKept, LogGrows DEF TypeInv, IInv
  <1>2. CASE Waiting
    <2>1. PICK u \in cache : log[u].kind = "running" /\ SettledBy(u)
      BY <1>2 DEF WaitInv, Watched
    <2>2. u \in Ids
      BY DEF TypeInv, StreamTypes
    <2>3. u \in cache' /\ log'[u].kind = "running" /\ SettledBy(u)'
      BY <1>1, <2>1, <2>2, SettledStays DEF Keeps, Waiting, Grown
    <2>4. QED
      BY <2>3 DEF Watched
  <1>3. CASE ~Waiting
    <2>1. Attached \/ Backlog
      <3>1. CASE pc' = pc
        BY <1>3, <3>1 DEF Waiting
      <3>2. CASE Environment \/ UNCHANGED vars
        BY <3>1, <3>2 DEF Environment, Announce, Work, Finish, FailLate, Drop, ServerStep, vars
      <3>3. CASE NextEvent
        BY <1>3, <3>3 DEF NextEvent, Absorb, Closed, Redial, Deliver, Ended, Returned, Goto, Waiting,
                          Broken, Finalize
      <3>4. CASE Refreshed \/ Connected \/ Searched
        BY <1>3, <3>4 DEF Refreshed, Connected, Searched, Waiting
      <3>5. CASE Deadline
        BY <1>3, <3>5, CalmDials DEF Deadline, Tick, ConfirmDeadline, Stall, WaitDeadline, Goto,
                                     Finalize, Waiting
      <3>6. CASE Send \/ Trigger
        BY <3>6 DEF Send, Trigger, Goto, Finalize, NoSession, TriggerFailed, Waiting
      <3>7. CASE Record \/ Resync \/ Check \/ Reconcile \/ Crash
        BY <3>7 DEF Record, Resync, Check, Reconcile, GivenUp, Crash, Goto, Finalize, Waiting
      <3>8. QED
        BY <3>2, <3>3, <3>4, <3>5, <3>6, <3>7, CalmDials DEF Next, Dial, Runner
    <2>2. dial' = dial /\ dial = "no" /\ mirror' = "running"
      <3>1. dial' = dial /\ dial = "no"
        BY <2>1 DEF Attached, Backlog, dialer, HeldInv, LinkOK, InStream, Waiting
      <3>2. CASE Attached
        <4>1. UNCHANGED stream /\ InProgress(mirror)
          BY <3>2 DEF Attached, Waiting
        <4>2. QED
          BY <3>1, <4>1 DEF stream, InProgress
      <3>3. CASE Backlog
        <4>1. pc = "backlog" /\ (InProgress(mirror') \/ AfterWait)
          BY <3>3 DEF Backlog
        <4>2. ~AfterWait
          BY <4>1 DEF AfterWait, Waiting
        <4>3. QED
          BY <3>1, <4>1, <4>2 DEF InProgress
      <3>4. QED
        BY <2>1, <3>1, <3>2, <3>3
    <2>3. HeldInv' /\ TypeInv' /\ PriorInv'
      BY HeldNext, NextTypes, PriorNext
    <2>4. (HeldInv /\ TypeInv /\ PriorInv /\ dial = "no" /\ pc # "attach" /\ mirror = "running")'
            => Watched'
      BY RunningSettles, PTL
    <2>5. QED
      BY <2>2, <2>3, <2>4 DEF Waiting
  <1>4. QED
    BY <1>2, <1>3

(* After a wait, the errors of the turn that was waited for are known not   *)
(* to belong to this one; a turn that is still to be announced will be late.*)
Resumed == {"send", "trigger"} \cup Launched

Heard ==
    \/ AnnouncedLate
    \/ /\ PriorErrors \subseteq baseline
       /\ busy = "prior" => ~announced /\ HasPrompt

HeardInv ==
    /\ pc \in {"attach", "attached"} => ~waited
    /\ waited /\ pc \in Resumed => Heard

LEMMA AnnouncedLateStays == Grown /\ AnnouncedLate => AnnouncedLate'
  BY DEF Grown, AnnouncedLate

LEMMA HasPromptStays == Grown /\ HasPrompt => HasPrompt'
  BY DEF Grown, HasPrompt

LEMMA HeardStays ==
    ASSUME TypeInv, Serves, Grown, Heard, baseline \subseteq baseline'
    PROVE  Heard'
  <1>0. busy \in {"no", "prior", "mine"} /\ announced \in BOOLEAN
    BY DEF TypeInv, ServerTypes
  <1>1. CASE AnnouncedLate
    BY <1>1, AnnouncedLateStays DEF Heard
  <1>2. CASE PriorErrors \subseteq baseline /\ (busy = "prior" => ~announced /\ HasPrompt)
    <2>1. CASE PriorErrors' = PriorErrors /\ (busy' = "prior" => busy = "prior" /\ announced' = announced)
      BY <1>2, <2>1, HasPromptStays DEF Heard
    <2>2. CASE log' = log /\ (UNCHANGED <<busy, announced>> \/ busy' = "mine")
      <3>1. PriorErrors' = PriorErrors
        BY <2>2 DEF PriorErrors, Ids
      <3>2. QED
        BY <2>1, <2>2, <3>1
    <2>3. CASE ~announced /\ Works("running") /\ busy' = busy
      <3>1. PICK m \in BOOLEAN : Written("running", m) /\ (m = FALSE <=> busy = "prior")
        BY <2>3 DEF Works
      <3>2. PriorErrors' = PriorErrors
        <4>1. PriorErrors' = PriorErrors \/ ("running" = "error" /\ m = FALSE)
          BY <3>1, WrittenLast
        <4>2. QED
          BY <4>1
      <3>3. CASE busy # "prior"
        BY <2>1, <2>3, <3>2, <3>3
      <3>4. CASE busy = "prior"
        <4>1. PICK p \in Ids : log[p] = Event("other", TRUE)
          BY <1>2, <3>4 DEF HasPrompt
        <4>2. p < Len(log) + 1 /\ p \in Ids' /\ log'[p] = Event("other", TRUE)
          BY <3>1, <4>1, WrittenLast
        <4>3. Len(log) + 1 \in Ids' /\ log'[Len(log) + 1] = Event("running", FALSE)
          BY <3>1, <3>4 DEF Written
        <4>4. AnnouncedLate'
          BY <4>2, <4>3 DEF AnnouncedLate
        <4>5. QED
          BY <4>4 DEF Heard
      <3>5. QED
        BY <3>3, <3>4
    <2>4. ASSUME NEW k \in {"other", "error"}, Works(k), announced, UNCHANGED <<busy, announced>>
          PROVE  Heard'
      <3>1. PICK m \in BOOLEAN : Written(k, m) /\ (m = FALSE <=> busy = "prior")
        BY <2>4 DEF Works
      <3>2. PriorErrors' = PriorErrors
        BY <1>2, <2>4, <3>1, WrittenLast
      <3>3. QED
        BY <2>1, <2>4, <3>2
    <2>5. ASSUME NEW k \in {"finished", "failed"}, Works(k), busy' = "no"
          PROVE  Heard'
      <3>1. PICK m \in BOOLEAN : Written(k, m)
        BY <2>5 DEF Works
      <3>2. PriorErrors' = PriorErrors
        BY <3>1, WrittenLast
      <3>3. QED
        BY <2>1, <2>5, <3>2
    <2>6. ASSUME NEW k \in {"error", "other", "running"}, Written(k, TRUE),
                 UNCHANGED <<busy, announced>> \/ busy' \in {"no", "mine"}
          PROVE  Heard'
      <3>1. PriorErrors' = PriorErrors
        BY <2>6, WrittenLast
      <3>2. QED
        BY <2>1, <2>6, <3>1
    <2>7. QED
      BY <2>2, <2>3, <2>4, <2>5, <2>6 DEF Serves
  <1>3. QED
    BY <1>1, <1>2 DEF Heard

(* A step that leaves alone what was waited for and what was prompted. *)
Steady ==
    /\ waited' = waited /\ baseline' = baseline
    /\ pending' => pending
    /\ pc' \in Resumed => pc \in Resumed
    /\ pc' \in {"attach", "attached"} => pc \in {"attach", "attached"}
    /\ pc' \in {"trigger", "backlog", "waitConflict"} => pc \in {"trigger", "backlog", "waitConflict"}
    /\ out' = out \/ out'.why # "error"

Passed == Deliver /\ Waiting /\ ~InProgress(mirror) /\ AfterWait

LEMMA FinalizeSteady == ASSUME NEW k, NEW r, Finalize(k, r), r # "error" PROVE Steady
  <1>1. out'.why = r /\ pc' = "done" /\ pending' = FALSE /\ UNCHANGED <<baseline, waited>>
    BY DEF Finalize
  <1>2. QED
    BY <1>1 DEF Steady, Resumed, Launched

LEMMA NoSessionSteady == NoSession => Steady
  BY DEF NoSession, Steady, Resumed, Launched, disk

LEMMA GotoSteady ==
    ASSUME NEW p, Goto(p), (p \in Launched /\ pc \in Launched) \/ p = pc
    PROVE  Steady
  BY DEF Goto, Steady, Resumed, Launched, disk

LEMMA StepsSteady ==
    ASSUME Calm, TypeInv, HeldInv, [Next]_vars
    PROVE  Steady \/ Attached \/ Send \/ Trigger \/ Backlog \/ Passed \/ Check \/ Crash
  <1>0. CASE UNCHANGED <<pc, turn, disk>>
    BY <1>0 DEF Steady, turn, disk
  <1>1. CASE Environment \/ UNCHANGED vars
    BY <1>0, <1>1 DEF Environment, Announce, Work, Finish, FailLate, Drop, ServerStep, vars
  <1>2. CASE Absorb \/ Closed \/ Redial \/ Refreshed \/ Connected
    BY <1>2, <1>0 DEF Absorb, Closed, Redial, Refreshed, Connected, turn
  <1>3. CASE Searched
    BY <1>3 DEF Searched, turn, disk, Steady, Resumed, Launched
  <1>4. CASE Deliver
    <2>1. PICK e \in pend : Returned(e)
      BY <1>4 DEF Deliver
    <2>2. CASE pc = "await" /\ Goto("check")
      BY <2>2, GotoSteady DEF Launched
    <2>3. CASE pc = "confirm" /\ Goto(IF CurrentError \/ mirror # "finished" THEN "await" ELSE "confirm")
      BY <2>3, GotoSteady DEF Launched
    <2>4. CASE Waiting /\ ~InProgress(mirror) /\ AfterWait
      BY <1>4, <2>4 DEF Passed
    <2>5. CASE Goto(pc)
      BY <2>5, GotoSteady
    <2>6. QED
      BY <2>1, <2>2, <2>3, <2>4, <2>5 DEF Returned
  <1>5. CASE Ended
    BY <1>5 DEF Ended, Over, Polling, HeldInv, LinkOK
  <1>6. CASE Deadline
    <2>1. CASE ConfirmDeadline \/ WaitDeadline
      BY <2>1, FinalizeSteady, NoSessionSteady DEF ConfirmDeadline, WaitDeadline, WaitFailed
    <2>2. CASE Tick
      BY <2>2, GotoSteady DEF Tick, Launched
    <2>3. CASE Stall
      BY <2>3 DEF Stall, Steady, Resumed, Launched, disk
    <2>4. QED
      BY <1>6, <2>1, <2>2, <2>3, CalmDials DEF Deadline
  <1>7. CASE Record
    BY <1>7 DEF Record, Steady, Resumed, Launched
  <1>8. CASE Resync
    BY <1>8, GotoSteady DEF Resync, Launched
  <1>9. CASE Reconcile
    <2>1. why # "error"
      BY DEF TypeInv, RunnerTypes
    <2>2. CASE GivenUp
      BY <2>1, <2>2, FinalizeSteady DEF GivenUp
    <2>3. CASE Goto("check")
      BY <1>9, <2>3, GotoSteady DEF Reconcile, Launched
    <2>4. QED
      BY <1>9, <2>2, <2>3 DEF Reconcile
  <1>10. QED
    BY <1>1, <1>2, <1>3, <1>4, <1>5, <1>6, <1>7, <1>8, <1>9, CalmDials
       DEF Next, NextEvent, Dial, Runner

LEMMA PromptNext ==
    Calm /\ TypeInv /\ HeldInv /\ PromptInv /\ [Next]_vars => PromptInv'
  <1> SUFFICES ASSUME Calm, TypeInv, HeldInv, PromptInv, [Next]_vars,
                      pending' \/ pc' \in {"trigger", "backlog", "waitConflict"}
               PROVE  HasPrompt'
    BY DEF PromptInv
  <1>1. Grown
    BY LogGrows DEF TypeInv, IInv
  <1>2. CASE HasPrompt
    BY <1>1, <1>2, HasPromptStays
  <1>3. CASE Steady
    BY <1>2, <1>3 DEF Steady, PromptInv
  <1>4. CASE Attached
    BY <1>2, <1>4 DEF Attached, PromptInv
  <1>5. CASE Send
    <2>1. Publish("other", TRUE)
      BY <1>5 DEF Send, Prompted, Calm
    <2>2. Written("other", TRUE)
      BY <2>1, PublishWrites DEF TypeInv, IInv, Kinds
    <2>3. QED
      BY <2>2 DEF Written, HasPrompt
  <1>6. CASE Trigger \/ Backlog
    BY <1>2, <1>6 DEF Trigger, Backlog, PromptInv
  <1>7. CASE Passed
    <2>1. pc = "waitConflict" \/ (pc' = "send" /\ pending' = pending)
      BY <1>7 DEF Passed, AfterWait, Waiting
    <2>2. QED
      BY <1>2, <2>1 DEF PromptInv
  <1>8. CASE Check
    BY <1>2, <1>8 DEF Check, Goto, Finalize, disk, PromptInv
  <1>9. CASE Crash
    BY <1>2, <1>9 DEF Crash, disk, PromptInv
  <1>10. QED
    BY <1>3, <1>4, <1>5, <1>6, <1>7, <1>8, <1>9, StepsSteady

(* What the end of a wait adds to the baseline. *)
LEMMA PassedHears == TypeInv /\ HeldInv /\ WaitInv /\ Passed => Heard'
  <1> SUFFICES ASSUME TypeInv, HeldInv, WaitInv, Passed PROVE Heard'
    OBVIOUS
  <1>1. dial = "no" /\ mirror # "running" /\ Waiting /\ UNCHANGED <<server, cache>>
    BY DEF Passed, Deliver, Polling, InProgress
  <1>2. busy # "prior" /\ PriorErrors \subseteq cache
    BY <1>1, WaitOver
  <1>3. cache' \subseteq baseline'
    BY DEF Passed, AfterWait
  <1>4. PriorErrors' = PriorErrors /\ busy' = busy
    BY <1>1 DEF server, PriorErrors, Ids
  <1>5. QED
    BY <1>1, <1>2, <1>3, <1>4 DEF Heard

LEMMA BacklogHears ==
    ASSUME Calm, TypeInv, HeldInv, HeldInv', ServerInv, PromptInv, Backlog, pc' \in Resumed
    PROVE  Heard'
  <1>1. pc = "backlog" /\ Push(Ids) /\ UNCHANGED server /\ dial' = dial
    BY DEF Backlog, Refetched, Calm, dialer
  <1>2. dial' = "no"
    BY <1>1 DEF HeldInv, LinkOK, InStream, Waiting
  <1>3. cache' = Ids /\ Ids' = Ids /\ log' = log
    BY <1>1 DEF Push, TypeInv, StreamTypes, server, Ids
  <1>4. AfterWait /\ ~InProgress(mirror')
    BY DEF Backlog, Goto, Resumed, Launched
  <1>5. Ids \subseteq baseline'
    BY <1>3, <1>4 DEF AfterWait
  <1>6. Latest(log, Ids, mirror')
    BY <1>2, <1>3 DEF HeldInv, MirrorOK
  <1>7. busy = "prior" => ~announced
    <2> SUFFICES ASSUME busy = "prior", announced PROVE FALSE
      OBVIOUS
    <2>1. Latest(log, Ids, "running") /\ Ids \in SUBSET Nat
      BY DEF ServerInv, Ids
    <2>2. mirror' = "running"
      BY <1>6, <2>1, LatestUnique
    <2>3. QED
      BY <1>4, <2>2 DEF InProgress
  <1>8. HasPrompt
    BY <1>1 DEF PromptInv
  <1>9. PriorErrors' \subseteq Ids /\ busy' = busy /\ announced' = announced /\ HasPrompt'
    BY <1>1, <1>3, <1>8 DEF PriorErrors, HasPrompt, server
  <1>10. QED
    BY <1>5, <1>7, <1>9 DEF Heard

LEMMA HeardNext ==
    Calm /\ TypeInv /\ HeldInv /\ ServerInv /\ PromptInv /\ WaitInv /\ HeardInv /\ [Next]_vars
      => HeardInv'
  <1> SUFFICES ASSUME Calm, TypeInv, HeldInv, ServerInv, PromptInv, WaitInv, HeardInv, [Next]_vars
               PROVE  HeardInv'
    OBVIOUS
  <1>1. Serves /\ Grown /\ HeldInv'
    BY ServerServes, LogGrows, HeldNext DEF TypeInv, IInv
  <1>2. ASSUME waited' = waited, baseline' = baseline, pc \in Resumed, pc' \notin {"attach", "attached"}
        PROVE  HeardInv'
    BY <1>1, <1>2, HeardStays DEF HeardInv
  <1>3. CASE Steady
    <2>1. CASE waited' = FALSE
      BY <2>1 DEF HeardInv
    <2>2. CASE waited' # FALSE /\ pc' \in Resumed
      <3>1. pc \in Resumed /\ pc' \notin {"attach", "attached"}
        BY <1>3, <2>2 DEF Steady, Resumed, Launched
      <3>2. QED
        BY <1>2, <1>3, <3>1 DEF Steady
    <2>3. CASE pc' \notin Resumed
      BY <1>3, <2>3 DEF Steady, HeardInv
    <2>4. QED
      BY <2>1, <2>2, <2>3
  <1>4. CASE Attached
    <2>1. ~waited /\ (waited' = waited \/ pc' = "waitPrior")
      BY <1>4 DEF Attached, HeardInv
    <2>2. QED
      BY <2>1 DEF HeardInv, Resumed, Launched
  <1>5. CASE Send \/ Check
    <2>1. UNCHANGED <<waited, baseline>> /\ pc \in Resumed /\ pc' \notin {"attach", "attached"}
      BY <1>5 DEF Send, Check, Goto, Finalize, Resumed, Launched
    <2>2. QED
      BY <1>2, <2>1
  <1>6. CASE Trigger
    <2>1. baseline' = baseline /\ pc \in Resumed /\ pc' \notin {"attach", "attached"}
          /\ (waited' = waited \/ pc' = "backlog")
      BY <1>6 DEF Trigger, Goto, NoSession, TriggerFailed, Finalize, Resumed
    <2>2. CASE pc' = "backlog"
      BY <2>2 DEF HeardInv, Resumed, Launched
    <2>3. QED
      BY <1>2, <2>1, <2>2
  <1>7. CASE Backlog
    <2>1. pc' \notin {"attach", "attached"}
      BY <1>7 DEF Backlog, Goto, AfterWait
    <2>2. pc' \in Resumed => Heard'
      BY <1>1, <1>7, BacklogHears
    <2>3. QED
      BY <2>1, <2>2 DEF HeardInv
  <1>8. CASE Passed
    <2>1. pc' \notin {"attach", "attached"}
      BY <1>8 DEF Passed, AfterWait
    <2>2. QED
      BY <1>8, <2>1, PassedHears DEF HeardInv
  <1>9. CASE Crash
    BY <1>9 DEF Crash, HeardInv
  <1>10. QED
    BY <1>3, <1>4, <1>5, <1>6, <1>7, <1>8, <1>9, StepsSteady

LEMMA FailureNext ==
    Calm /\ TypeInv /\ HeldInv /\ HeardInv /\ FailureIsOwn /\ [Next]_vars => FailureIsOwn'
  <1> SUFFICES ASSUME Calm, TypeInv, HeldInv, HeardInv, FailureIsOwn, [Next]_vars,
                      waited', out'.why = "error", ~AnnouncedLate'
               PROVE  Own("error")'
    BY DEF FailureIsOwn
  <1>1. Grown /\ ~AnnouncedLate
    BY LogGrows, AnnouncedLateStays DEF TypeInv, IInv
  <1>2. CASE out' = out
    <2>1. pc = "done"
      BY <1>2 DEF TypeInv, RunnerTypes, NoOut
    <2>2. Steady
      BY <2>1, StepsSteady DEF Attached, Send, Trigger, Backlog, Passed, Waiting, Check, Crash,
                               TypeInv, RunnerTypes, NoOut, Outcomes
    <2>3. waited
      BY <2>2 DEF Steady
    <2>4. QED
      BY <1>1, <1>2, <2>3, OwnStays DEF FailureIsOwn
  <1>3. CASE out' # out
    <2>1. Check
      <3>1. CASE Attached \/ Backlog \/ Passed \/ Crash
        BY <1>3, <3>1 DEF Attached, Backlog, Passed, AfterWait, Crash, Goto
      <3>2. CASE Send
        BY <1>3, <3>2 DEF Send, Calm
      <3>3. CASE Trigger
        <4>1. NoSession
          BY <1>3, <3>3 DEF Trigger, Calm, Goto
        <4>2. out'.why = "none"
          BY <4>1 DEF NoSession
        <4>3. QED
          BY <4>2
      <3>4. QED
        BY <1>3, <3>1, <3>2, <3>3, StepsSteady DEF Steady
    <2>2. CurrentError /\ pc = "check" /\ waited' = waited
      <3>1. pc = "check"
        BY <2>1 DEF Check
      <3>2. CurrentError \/ Finalize("Failed", "failed")
        BY <1>3, <2>1 DEF Check, Goto
      <3>3. ~Finalize("Failed", "failed")
        <4>1. Finalize("Failed", "failed") => out'.why = "failed"
          BY DEF Finalize
        <4>2. QED
          BY <4>1
      <3>4. Finalize("Failed", "error")
        BY <1>3, <2>1, <3>3 DEF Check, Goto
      <3>5. QED
        BY <3>1, <3>2, <3>3, <3>4 DEF Finalize
    <2>3. PriorErrors \subseteq baseline
      BY <1>1, <2>2 DEF HeardInv, Resumed, Launched, Heard
    <2>4. PICK e \in cache \ baseline : log[e].kind = "error"
      BY <2>2 DEF CurrentError, Current
    <2>5. e \in Ids /\ log[e] \in Events
      BY DEF TypeInv, StreamTypes, IInv, Ids
    <2>6. log[e] = Event("error", TRUE)
      <3>1. log[e].mine \in BOOLEAN /\ log[e] = [kind |-> "error", mine |-> log[e].mine]
        BY <2>4, <2>5 DEF Events
      <3>2. log[e] # Event("error", FALSE)
        BY <2>3, <2>4, <2>5 DEF PriorErrors
      <3>3. QED
        BY <3>1, <3>2 DEF Event
    <2>7. QED
      BY <1>1, <2>5, <2>6, OwnStays DEF Own
  <1>4. QED
    BY <1>2, <1>3

FailureInv == Calm => PriorInv /\ WaitInv /\ PromptInv /\ HeardInv /\ FailureIsOwn

LEMMA InitFailure == Init => FailureInv
  <1> SUFFICES ASSUME Init PROVE FailureInv
    OBVIOUS
  <1>1. pc = "attach" /\ waited = FALSE /\ pending = FALSE
    BY DEF Init
  <1>2. WaitInv /\ PromptInv /\ HeardInv /\ FailureIsOwn
    BY <1>1 DEF WaitInv, Waiting, PromptInv, HeardInv, FailureIsOwn
  <1>3. QED
    BY <1>2, InitPrior DEF FailureInv

LEMMA FailureStep ==
    TypeInv /\ CalmInv /\ ServerInv /\ FailureInv /\ [Next]_vars => FailureInv'
  BY PriorNext, WaitNext, PromptNext, HeardNext, FailureNext DEF CalmInv, FailureInv, Calm

(* Whatever turns the conversation has seen, and whenever they end: if it   *)
(* waited for one, the runner fails for an error event only if one belongs  *)
(* to this prompt, unless that turn was announced after the prompt.         *)
THEOREM FailureReports == Spec => [](Calm => FailureIsOwn)
  <1>1. Spec => []FailureInv
    BY CalmSpec, InitFailure, FailureStep, PTL DEF Spec
  <1>2. FailureInv => (Calm => FailureIsOwn)
    BY DEF FailureInv
  <1>3. QED
    BY <1>1, <1>2, PTL

-----------------------------------------------------------------------------
(* No error event of the turn is missed by a success, with at most one      *)
(* crash.  The baseline of a turn is fixed before the turn can write an     *)
(* error: by the cache before the run request or, in a recovery, by the     *)
(* marker that was saved with the accepted request.  A second recovery may  *)
(* take a later marker, which the first one saved.                          *)

SeenInv ==
    /\ rec => crashes > 0
    /\ ~rec /\ pc \in {"attach", "attached"} => ~pending
    /\ pc # "done" /\ (rec \/ pc \notin {"attach", "attached"}) => marker > 0
    /\ rec /\ pc = "attached" => marker \in cache
    /\ ~rec /\ pc = "record" => \A e \in cache, x \in OwnErrors : e < x
    /\ pc # "done" /\ (~rec \/ pc \in {"attach", "attached"}) => \A x \in OwnErrors : marker < x
    /\ pc \in Launched /\ runs <= 1 => baseline \cap OwnErrors = {}

LEMMA OwnErrorsStep ==
    ASSUME Grown
    PROVE  \A x \in OwnErrors' : x \in OwnErrors \/ \A e \in 0..Len(log) : e < x
  <1> SUFFICES ASSUME NEW x \in OwnErrors', x \notin OwnErrors, NEW e \in 0..Len(log) PROVE e < x
    OBVIOUS
  <1>0. x \in Ids' /\ log'[x] = Event("error", TRUE)
    BY DEF OwnErrors
  <1>1. x \in Ids' /\ log'[x] = Event("error", TRUE) /\ x \in Nat /\ x >= 1
    BY <1>0 DEF Ids
  <1>2. x \notin Ids
    BY <1>1 DEF OwnErrors, Grown
  <1>3. QED
    BY <1>1, <1>2 DEF Ids, Grown

(* A step that leaves alone the marker and the baseline, or ends the turn. *)
Carried ==
    /\ UNCHANGED <<rec, crashes, baseline>>
    /\ marker' = marker \/ pc' = "done"
    /\ pc = "done" => pc' = "done"
    /\ pc' \in Launched => pc \in Launched
    /\ pc' = "record" => pc = "record" /\ cache' = cache
    /\ pc' \in {"attach", "attached"} => pc \in {"attach", "attached"} /\ pending' = pending
    /\ pc \in {"attach", "attached"} => pc' \in {"attach", "attached", "done"}

LEMMA FinalizeCarried ==
    ASSUME NEW k, NEW r, Finalize(k, r), crashes' = crashes
    PROVE  Carried
  BY DEF Finalize, Carried, Launched

LEMMA NoSessionCarried == NoSession /\ crashes' = crashes => Carried
  BY DEF NoSession, Carried, Launched, disk

LEMMA GotoCarried ==
    ASSUME NEW p \in Launched \ {"record"}, Goto(p), pc \in Launched, crashes' = crashes
    PROVE  Carried
  BY DEF Goto, Carried, Launched, disk

LEMMA StepsCarried ==
    ASSUME Calm, TypeInv, HeldInv, [Next]_vars
    PROVE  Carried \/ Attached \/ Trigger \/ Backlog \/ Passed \/ Record \/ Crash
  <1>0. CASE UNCHANGED <<pc, turn, disk, crashes>> /\ (pc = "record" => cache' = cache)
    <2>1. UNCHANGED <<pc, rec, crashes, baseline, marker, pending>>
      BY <1>0 DEF turn, disk
    <2>2. QED
      BY <1>0, <2>1 DEF Carried
  <1>1. CASE Environment \/ UNCHANGED vars
    BY <1>0, <1>1 DEF Environment, Announce, Work, Finish, FailLate, Drop, ServerStep, vars, stream,
                      count
  <1>2. CASE Absorb \/ Closed \/ Redial \/ Refreshed \/ Connected
    <2>1. UNCHANGED <<pc, turn, disk, crashes>>
      BY <1>2 DEF Absorb, Closed, Redial, Refreshed, Connected, count
    <2>2. pc # "record"
      BY <1>2 DEF Absorb, Closed, Redial, Refreshed, Connected, Polling, Dialling, InStream, Waiting
    <2>3. QED
      BY <1>0, <2>1, <2>2
  <1>3. CASE Searched
    BY <1>3 DEF Searched, Dialling, InStream, Waiting, turn, disk, count, Carried, Launched
  <1>4. CASE Deliver
    <2>1. PICK e \in pend : Returned(e)
      BY <1>4 DEF Deliver
    <2>0. crashes' = crashes
      BY <1>4 DEF Deliver, count
    <2>2. CASE pc = "await" /\ Goto("check")
      BY <2>0, <2>2, GotoCarried DEF Launched
    <2>3. CASE pc = "confirm" /\ Goto(IF CurrentError \/ mirror # "finished" THEN "await" ELSE "confirm")
      BY <2>0, <2>3, GotoCarried DEF Launched
    <2>4. CASE Waiting /\ ~InProgress(mirror) /\ AfterWait
      BY <1>4, <2>4 DEF Passed
    <2>5. CASE Waiting /\ Goto(pc)
      BY <2>0, <2>5 DEF Goto, Waiting, Carried, Launched, disk
    <2>6. QED
      BY <2>1, <2>2, <2>3, <2>4, <2>5 DEF Returned
  <1>5. CASE Ended
    BY <1>5 DEF Ended, Over, Polling, HeldInv, LinkOK
  <1>6. CASE Deadline
    <2>0. crashes' = crashes
      BY <1>6, CalmDials DEF Deadline, Tick, ConfirmDeadline, Stall, WaitDeadline, Still, count
    <2>1. CASE ConfirmDeadline \/ WaitDeadline
      BY <2>0, <2>1, FinalizeCarried, NoSessionCarried DEF ConfirmDeadline, WaitDeadline, WaitFailed
    <2>2. CASE Tick
      BY <2>0, <2>2, GotoCarried DEF Tick, Launched
    <2>3. CASE Stall
      BY <2>0, <2>3 DEF Stall, Carried, Launched, disk
    <2>4. QED
      BY <1>6, <2>1, <2>2, <2>3, CalmDials DEF Deadline
  <1>7. CASE Send
    BY <1>7 DEF Send, Calm, Carried, Launched, count
  <1>8. CASE Resync \/ Check \/ Reconcile
    <2>1. crashes' = crashes
      BY <1>8 DEF Resync, Check, Reconcile, Still, count
    <2>2. CASE Resync
      BY <2>1, <2>2, GotoCarried DEF Resync, Launched
    <2>3. CASE Check
      BY <2>1, <2>3, GotoCarried, FinalizeCarried DEF Check, Launched
    <2>4. CASE Reconcile
      BY <2>1, <2>4, GotoCarried, FinalizeCarried DEF Reconcile, GivenUp, Launched
    <2>5. QED
      BY <1>8, <2>2, <2>3, <2>4
  <1>9. QED
    BY <1>1, <1>2, <1>3, <1>4, <1>5, <1>6, <1>7, <1>8, CalmDials
       DEF Next, NextEvent, Dial, Runner

LEMMA SeenCarried ==
    ASSUME Calm, TypeInv, HeldInv, SeenInv, [Next]_vars, Carried, runs' = runs
    PROVE  SeenInv'
  <1>1. Grown /\ Keeps
    BY LogGrows, CacheKept DEF TypeInv, IInv
  <1>2. /\ cache \subseteq Ids /\ baseline \subseteq Ids /\ marker \in 0..Len(log) /\ Len(log) \in Nat
        /\ rec \in BOOLEAN /\ pending \in BOOLEAN
    BY <1>1 DEF TypeInv, StreamTypes, RunnerTypes, Grown
  <1>3. \A x \in OwnErrors' : x \in OwnErrors \/ \A e \in 0..Len(log) : e < x
    BY <1>1, OwnErrorsStep
  <1>4. Ids \subseteq 0..Len(log)
    BY <1>2 DEF Ids
  <1>5. UNCHANGED <<rec, crashes, baseline>> /\ (pc' # "done" => marker' = marker /\ pc # "done")
    BY DEF Carried
  <1>6. rec' => crashes' > 0
    BY <1>5 DEF SeenInv
  <1>7. ~rec' /\ pc' \in {"attach", "attached"} => ~pending'
    BY <1>5 DEF SeenInv, Carried
  <1>8. pc' # "done" /\ (rec' \/ pc' \notin {"attach", "attached"}) => marker' > 0
    BY <1>5 DEF SeenInv, Carried
  <1>9. rec' /\ pc' = "attached" => marker' \in cache'
    <2> SUFFICES ASSUME rec', pc' = "attached" PROVE marker' \in cache'
      OBVIOUS
    <2>1. marker' = marker /\ rec /\ marker > 0 /\ pc \in {"attach", "attached"}
      BY <1>5 DEF SeenInv, Carried
    <2>2. marker \in Ids
      BY <1>2, <2>1 DEF Ids
    <2>3. QED
      BY <1>1, <2>1, <2>2 DEF Keeps, SeenInv
  <1>10. ~rec' /\ pc' = "record" => \A e \in cache', x \in OwnErrors' : e < x
    <2> SUFFICES ASSUME ~rec', pc' = "record", NEW e \in cache', NEW x \in OwnErrors' PROVE e < x
      OBVIOUS
    <2>1. ~rec /\ pc = "record" /\ e \in cache
      BY <1>5 DEF Carried
    <2>2. e \in 0..Len(log)
      BY <1>2, <1>4, <2>1
    <2>3. QED
      BY <1>3, <2>1, <2>2 DEF SeenInv
  <1>11. pc' # "done" /\ (~rec' \/ pc' \in {"attach", "attached"}) => \A x \in OwnErrors' : marker' < x
    <2> SUFFICES ASSUME pc' # "done", ~rec' \/ pc' \in {"attach", "attached"}, NEW x \in OwnErrors'
                 PROVE  marker' < x
      OBVIOUS
    <2>1. marker' = marker /\ pc # "done" /\ (~rec \/ pc \in {"attach", "attached"})
      BY <1>5 DEF Carried
    <2>2. QED
      BY <1>2, <1>3, <2>1 DEF SeenInv
  <1>12. pc' \in Launched /\ runs' <= 1 => baseline' \cap OwnErrors' = {}
    <2> SUFFICES ASSUME pc' \in Launched, runs' <= 1, NEW x \in OwnErrors', x \in baseline' PROVE FALSE
      OBVIOUS
    <2>1. pc \in Launched /\ runs <= 1 /\ x \in baseline
      BY <1>5 DEF Carried
    <2>2. x \notin OwnErrors
      BY <2>1 DEF SeenInv
    <2>3. x \in 0..Len(log) /\ x < x
      BY <1>2, <1>3, <1>4, <2>1, <2>2
    <2>4. QED
      BY <2>3
  <1>13. QED
    BY <1>6, <1>7, <1>8, <1>9, <1>10, <1>11, <1>12 DEF SeenInv

LEMMA LastOfCache ==
    ASSUME TypeInv, HeldInv, pc # "attach"
    PROVE  LastOf(cache) \in cache /\ LastOf(cache) > 0
  <1>1. 1 \in cache /\ cache \in SUBSET Ids /\ log \in Seq(Events)
    BY DEF TypeInv, StreamTypes, IInv, HeldInv, ReadyOK
  <1>2. LastOf(cache) \in cache
    BY <1>1, LastOfIs
  <1>3. \A e \in Ids : e > 0
    BY DEF Ids
  <1>4. QED
    BY <1>1, <1>2, <1>3

(* The baseline of a recovery ends at the marker, before the turn's errors. *)
LEMMA SeenAttached ==
    ASSUME TypeInv, HeldInv, ServerInv, RunInv, SeenInv, Attached
    PROVE  SeenInv'
  <1>1. pc = "attached" /\ marker' = LastOf(cache)
        /\ UNCHANGED <<log, runs, cache, rec, pending, crashes>>
    BY DEF Attached, server, stream, count
  <1>2. OwnErrors' = OwnErrors /\ marker' > 0
    BY <1>1, LastOfCache DEF OwnErrors, Ids
  <1>3. \/ ~rec /\ pc' \in {"waitPrior", "send"}
        \/ rec /\ pending /\ pc' = "trigger"
        \/ rec /\ ~pending /\ pc' = "check" /\ baseline' = RecoveryBaseline
    BY DEF Attached
  <1>4. ~rec => OwnErrors = {}
    BY <1>1 DEF RunInv, ServerInv, Early
  <1>5. rec => RecoveryBaseline \cap OwnErrors = {}
    <2> SUFFICES ASSUME rec, NEW x \in OwnErrors, x \in RecoveryBaseline PROVE FALSE
      OBVIOUS
    <2>1. marker \in cache /\ marker < x
      BY <1>1 DEF SeenInv
    <2>2. x <= marker
      BY <2>1 DEF RecoveryBaseline
    <2>3. x \in Nat /\ marker \in Nat
      BY DEF OwnErrors, Ids, TypeInv, RunnerTypes
    <2>4. QED
      BY <2>1, <2>2, <2>3
  <1>6. CASE ~rec
    <2>1. ~rec' /\ pc' \in {"waitPrior", "send"}
      BY <1>1, <1>3, <1>6
    <2>2. QED
      BY <1>2, <1>4, <1>6, <2>1 DEF SeenInv, Launched
  <1>7. CASE rec
    <2>1. rec' /\ pc' \in {"trigger", "check"} /\ crashes' > 0
          /\ (pc' = "check" => baseline' = RecoveryBaseline)
      BY <1>1, <1>3, <1>7 DEF SeenInv
    <2>2. QED
      BY <1>2, <1>5, <1>7, <2>1 DEF SeenInv, Launched
  <1>8. QED
    BY <1>6, <1>7

LEMMA SeenTrigger ==
    ASSUME Calm, TypeInv, ServerInv, RunInv, SeenInv, Trigger, Grown
    PROVE  SeenInv'
  <1>1. pc = "trigger" /\ UNCHANGED <<cache, crashes>>
    BY DEF Trigger, stream, count
  <1>2. /\ cache \subseteq Ids /\ baseline \subseteq Ids /\ marker \in 0..Len(log) /\ Len(log) \in Nat
        /\ runs \in Nat /\ marker > 0
    BY <1>1 DEF TypeInv, StreamTypes, RunnerTypes, RunTypes, Grown, SeenInv
  <1>3. \A x \in OwnErrors' : x \in OwnErrors \/ \A e \in 0..Len(log) : e < x
    BY OwnErrorsStep
  <1>4. Ids \subseteq 0..Len(log)
    BY <1>2 DEF Ids
  <1>5. CASE Started
    <2>1. Goto("record") /\ runs' = runs + 1
      BY <1>5 DEF Trigger, Started, Calm
    <2>2. UNCHANGED <<rec, baseline, marker>> /\ pc' = "record"
      BY <2>1 DEF Goto, disk
    <2>3. runs = 0 => \A x \in OwnErrors', e \in 0..Len(log) : e < x
      BY <1>3 DEF ServerInv
    <2>4. ~rec => runs = 0
      BY <1>1 DEF RunInv, Early
    <2>5. runs' <= 1 => runs = 0
      BY <1>2, <2>1
    <2>6. ~rec' => \A e \in cache', x \in OwnErrors' : e < x
      BY <1>1, <1>2, <1>4, <2>2, <2>3, <2>4
    <2>7. ~rec' => \A x \in OwnErrors' : marker' < x
      BY <1>2, <2>2, <2>3, <2>4
    <2>8. runs' <= 1 => baseline' \cap OwnErrors' = {}
      <3> SUFFICES ASSUME runs' <= 1, NEW x \in OwnErrors', x \in baseline PROVE FALSE
        BY <2>2
      <3>1. x \in 0..Len(log) /\ x < x
        BY <1>2, <1>4, <2>3, <2>5
      <3>2. QED
        BY <3>1
    <2>9. rec' => crashes' > 0
      BY <1>1, <2>2 DEF SeenInv
    <2>10. QED
      BY <1>2, <2>2, <2>6, <2>7, <2>8, <2>9 DEF SeenInv
  <1>6. CASE ~Started
    <2>1. UNCHANGED <<rec, marker>> /\ pc' \in {"backlog", "done"} /\ log' = log
      BY <1>6 DEF Trigger, Calm, Unheard, server, NoSession, disk
    <2>2. OwnErrors' = OwnErrors
      BY <2>1 DEF OwnErrors, Ids
    <2>3. rec' => crashes' > 0
      BY <1>1, <2>1 DEF SeenInv
    <2>4. ~rec => \A x \in OwnErrors : marker < x
      BY <1>1 DEF SeenInv
    <2>5. QED
      BY <1>2, <2>1, <2>2, <2>3, <2>4 DEF SeenInv, Launched
  <1>7. QED
    BY <1>5, <1>6

LEMMA SeenNext ==
    MaxCrashes <= 1 /\ Calm /\ TypeInv /\ HeldInv /\ ServerInv /\ RunInv /\ SeenInv /\ [Next]_vars
      => SeenInv'
  <1> SUFFICES ASSUME MaxCrashes <= 1, Calm, TypeInv, HeldInv, ServerInv, RunInv, SeenInv, [Next]_vars
               PROVE  SeenInv'
    OBVIOUS
  <1>1. Grown /\ rec \in BOOLEAN /\ pending \in BOOLEAN /\ crashes \in Nat
    BY LogGrows, HarnessAssumption DEF TypeInv, IInv, RunnerTypes, RunTypes
  <1>2. CASE Trigger
    BY <1>1, <1>2, SeenTrigger
  <1>3. CASE ~Trigger /\ Carried
    <2>1. runs' = runs
      BY <1>3, RunsSame DEF vars, server
    <2>2. QED
      BY <1>3, <2>1, SeenCarried
  <1>4. CASE Attached
    BY <1>4, SeenAttached
  <1>5. CASE Backlog \/ Passed
    <2>1. /\ UNCHANGED <<log, rec, crashes, pending>> /\ pc' \in {"waitConflict", "trigger", "send"}
          /\ (marker' = marker \/ (pc = "waitPrior" /\ marker' = LastOf(cache) /\ cache' = cache))
          /\ pc \in {"backlog", "waitPrior", "waitConflict"}
      BY <1>5 DEF Backlog, Passed, Deliver, Waiting, AfterWait, Goto, disk, server, count
    <2>2. OwnErrors' = OwnErrors
      BY <2>1 DEF OwnErrors, Ids
    <2>3. marker' > 0
      BY <2>1, LastOfCache DEF SeenInv
    <2>4. ~rec => OwnErrors = {}
      BY <2>1 DEF RunInv, ServerInv, Early
    <2>5. QED
      BY <2>1, <2>2, <2>3, <2>4 DEF SeenInv, Launched
  <1>6. CASE Record
    <2>1. /\ UNCHANGED <<log, cache, rec, crashes, baseline, runs>> /\ pc = "record"
          /\ pc' \in {"resync", "check"} /\ marker' = IF rec THEN marker ELSE LastOf(cache)
      BY <1>6 DEF Record, server, stream, count
    <2>2. OwnErrors' = OwnErrors
      BY <2>1 DEF OwnErrors, Ids
    <2>3. LastOf(cache) \in cache /\ LastOf(cache) > 0
      BY <2>1, LastOfCache
    <2>4. marker' > 0
      BY <2>1, <2>3 DEF SeenInv
    <2>5. ~rec => \A x \in OwnErrors : marker' < x
      BY <2>1, <2>3 DEF SeenInv
    <2>6. runs <= 1 => baseline \cap OwnErrors = {}
      BY <2>1 DEF SeenInv, Launched
    <2>7. QED
      BY <2>1, <2>2, <2>4, <2>5, <2>6 DEF SeenInv
  <1>7. CASE Crash
    <2>1. /\ UNCHANGED <<log, marker>> /\ rec' = TRUE /\ pc' = "attach" /\ crashes' = crashes + 1
          /\ crashes < MaxCrashes /\ out = NoOut /\ (runs > 0 \/ pending)
      BY <1>7 DEF Crash, server, disk
    <2>2. ~rec /\ pc # "done"
      BY <1>1, <2>1, HarnessAssumption DEF SeenInv, TypeInv, RunnerTypes, NoOut, Outcomes
    <2>3. pc \notin {"attach", "attached"}
      BY <2>1, <2>2 DEF SeenInv, RunInv, Early
    <2>4. OwnErrors' = OwnErrors
      BY <2>1 DEF OwnErrors, Ids
    <2>5. marker' > 0 /\ \A x \in OwnErrors' : marker' < x
      BY <2>1, <2>2, <2>3, <2>4 DEF SeenInv
    <2>6. crashes' > 0
      BY <1>1, <2>1
    <2>7. QED
      BY <2>1, <2>5, <2>6 DEF SeenInv, Launched
  <1>8. QED
    BY <1>2, <1>3, <1>4, <1>5, <1>6, <1>7, StepsCarried

LEMMA InitSeen == Init => SeenInv
  <1> SUFFICES ASSUME Init PROVE SeenInv
    OBVIOUS
  <1>1. pc = "attach" /\ rec = FALSE /\ pending = FALSE
    BY DEF Init
  <1>2. OwnErrors = {}
    BY InitServer DEF ServerInv, Init
  <1>3. QED
    BY <1>1, <1>2 DEF SeenInv, Launched

OnceSeen == Calm /\ MaxCrashes <= 1 => SeenInv

(* With at most one crash, and whatever sockets close meanwhile, a success  *)
(* is decided only when the server has written no error event of the turn.  *)
THEOREM SuccessSeesErrors == ASSUME Calm, MaxCrashes <= 1 PROVE Spec => ErrorIsSeen
  <1> DEFINE Sees == Decided /\ out'.kind = "Succeeded" /\ runs = 1 => ~Own("error")
  <1>1. Init => OnceSeen
    BY InitSeen DEF OnceSeen
  <1>2. TypeInv /\ CalmInv /\ ServerInv /\ RunInv /\ OnceSeen /\ [Next]_vars => OnceSeen'
    BY SeenNext DEF CalmInv, OnceSeen, Calm
  <1>3. TypeInv /\ CalmInv /\ OnceSeen /\ [Next]_vars => [Sees]_vars
    <2> SUFFICES ASSUME TypeInv, HeldInv, ConfirmInv, SeenInv, [Next]_vars, Decided,
                        out'.kind = "Succeeded", runs = 1, NEW e \in Ids, log[e] = Event("error", TRUE)
                 PROVE  FALSE
      BY DEF CalmInv, OnceSeen, Own
    <2>1. pc = "confirm" /\ \A f \in Ids \ baseline : log[f].kind # "error"
      BY SuccessStep DEF Decided
    <2>2. e \notin baseline
      <3>1. baseline \cap OwnErrors = {}
        BY <2>1 DEF SeenInv, Launched
      <3>2. e \in OwnErrors
        BY DEF OwnErrors
      <3>3. QED
        BY <3>1, <3>2
    <2>3. QED
      BY <2>1, <2>2 DEF Event
  <1>4. ErrorIsSeen <=> [][Sees]_vars
    BY DEF ErrorIsSeen
  <1> HIDE DEF Sees
  <1>5. QED
    BY <1>1, <1>2, <1>3, <1>4, CalmSpec, PTL DEF Spec

=============================================================================
