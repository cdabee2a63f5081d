------------------------ MODULE ParentAttemptsProofs ------------------------
(***************************************************************************)
(* Theorems about ParentAttempts, for every number of attempts, targets    *)
(* and faults.                                                             *)
(***************************************************************************)
EXTENDS ParentAttempts, TLAPS

Harnesses == [Attempts -> {"none", "live", "gone"}]

(* No attempt of the controller is running. *)
Idle(c) == \A b \in Attempts : ~IsRunning(c, b)

(* A harness that was started stays started, and one that is gone stays gone. *)
Onward(h, g) ==
    \A a \in Attempts : (h[a] = "gone" => g[a] = "gone") /\ (h[a] # "none" => g[a] # "none")

-----------------------------------------------------------------------------
(* What the operations of the controller return. *)

\* attempt_mut replaces one receipt and nothing else.
LEMMA SetAttemptResult ==
    ASSUME NEW c \in Controller, NEW a \in Attempts, NEW at \in Attempt,
           NEW d, d = SetAttempt(c, a, at)
    PROVE  /\ d \in Controller
           /\ d.state = c.state /\ d.target = c.target /\ d.sequence = c.sequence
           /\ d.baseline = c.baseline /\ d.evidence = c.evidence
           /\ d.attempts[a] = at
           /\ \A b \in Attempts \ {a} : d.attempts[b] = c.attempts[b]
<1> DEFINE f == [c.attempts EXCEPT ![a] = at]
<1>1. c.attempts \in [Attempts -> Attempt]
  BY DEF Controller
<1>2. f \in [Attempts -> Attempt] /\ f[a] = at
      /\ \A b \in Attempts \ {a} : f[b] = c.attempts[b]
  BY <1>1
<1>3. d = [c EXCEPT !.attempts = f]
  BY DEF SetAttempt
<1> HIDE DEF f
<1>. QED  BY <1>2, <1>3 DEF Controller

\* A change of the controller's state leaves everything else alone.
LEMMA SetStateResult ==
    ASSUME NEW c \in Controller, NEW s \in States,
           NEW d, d = [c EXCEPT !.state = s]
    PROVE  /\ d \in Controller
           /\ d.state = s /\ d.target = c.target /\ d.sequence = c.sequence
           /\ d.baseline = c.baseline /\ d.evidence = c.evidence
           /\ d.attempts = c.attempts
BY DEF Controller

\* The receipt of a command leaves the status, the conversation, the input and
\* the stop of its attempt alone (observe_command_started and _finished).
LEMMA CommandResult ==
    ASSUME NEW at \in Attempt, NEW code \in {0, 1},
           NEW r, r = CommandStarted(at) \/ r = CommandFinished(at, code)
    PROVE  /\ r \in Attempt
           /\ r.status = at.status /\ r.conversation = at.conversation
           /\ r.input = at.input /\ r.stopped = at.stopped
<1>1. CASE r = CommandStarted(at)
  BY <1>1 DEF CommandStarted, Attempt
<1>2. CASE r = CommandFinished(at, code)
  <2>1. at.exits \union {code} \in SUBSET {0, 1}
    BY DEF Attempt
  <2>. QED  BY <1>2, <2>1 DEF CommandFinished, Attempt
<1>. QED  BY <1>1, <1>2

\* The stop of the harness closes the foreground process and cleans up.
LEMMA StoppedResult ==
    ASSUME NEW at \in Attempt, NEW r, r = HarnessStopped(at)
    PROVE  /\ r \in Attempt
           /\ r.status = at.status /\ r.conversation = at.conversation
           /\ r.input = at.input /\ r.exit = at.exit /\ r.verified = at.verified
           /\ r.stopped /\ ~r.open /\ r.cleanup = "Succeeded"
BY DEF HarnessStopped, Attempt

\* Evidence changes nothing but the receipt it names.
LEMMA EvidenceResult ==
    ASSUME NEW at \in Attempt, NEW code \in {0, 1}, NEW t \in Targets,
           NEW r, r = WithEvidence(at, code, t)
    PROVE  /\ r \in Attempt
           /\ r.status = at.status /\ r.conversation = at.conversation
           /\ r.input = at.input /\ r.stopped = at.stopped
           /\ r.open = at.open /\ r.cleanup = at.cleanup
           /\ r.exit = code /\ r.verified = t
BY DEF WithEvidence, Attempt

\* Outcomes are records of known kinds.
LEMMA OutcomeType ==
    ASSUME NEW o \in Outcomes
    PROVE  /\ o.kind \in {"Succeeded", "Failed", "TimedOut", "Cancelled", "Detached"}
           /\ o.stop \in {"seen", "acknowledged", "unknown"}
           /\ o.code \in {None, 0, 1}
           /\ o.category \in Categories
BY DEF Outcomes

\* The attempt with the weighed evidence (record_parent_worker_outcome).
LEMMA WeighedResult ==
    ASSUME mem \in Controller, NEW at \in Attempt, NEW o \in Outcomes,
           NEW w, w = Weighed(at, o)
    PROVE  /\ w \in Attempt
           /\ w.conversation = at.conversation /\ w.input = at.input
           /\ w.stopped = (at.stopped \/ o.stop = "acknowledged")
           /\ o.code # None => w.exit = o.code /\ w.verified = mem.target
<1>1. mem.target \in Targets
  BY DEF Controller
<1>2. o.code \in {None, 0, 1} /\ o.stop \in {"seen", "acknowledged", "unknown"}
  BY OutcomeType
<1> DEFINE confirmed == IF o.stop = "acknowledged" THEN HarnessStopped(at) ELSE at
<1>3. /\ confirmed \in Attempt
      /\ confirmed.conversation = at.conversation /\ confirmed.input = at.input
      /\ confirmed.stopped = (at.stopped \/ o.stop = "acknowledged")
  <2>1. CASE o.stop = "acknowledged"
    <3>1. confirmed = HarnessStopped(at)
      BY <2>1
    <3> HIDE DEF confirmed
    <3>. QED  BY <2>1, <3>1, StoppedResult
  <2>2. CASE o.stop # "acknowledged"
    <3>1. confirmed = at /\ at.stopped \in BOOLEAN
      BY <2>2 DEF Attempt
    <3> HIDE DEF confirmed
    <3>. QED  BY <2>2, <3>1
  <2>. QED  BY <2>1, <2>2
<1>4. w = IF o.code # None THEN WithEvidence(confirmed, o.code, mem.target) ELSE confirmed
  BY DEF Weighed
<1> HIDE DEF confirmed
<1>5. CASE o.code = None
  BY <1>3, <1>4, <1>5
<1>6. CASE o.code # None
  <2>1. o.code \in {0, 1} /\ w = WithEvidence(confirmed, o.code, mem.target)
    BY <1>2, <1>4, <1>6
  <2>. QED  BY <1>1, <1>3, <2>1, EvidenceResult
<1>. QED  BY <1>5, <1>6

\* The finished attempt. One that passed reported success with evidence of a
\* clean command on the present targets, and its stop is known unless no
\* conversation was attached (finish_attempt, enforce_parent_outcome_trust).
LEMMA FinishedResult ==
    ASSUME mem \in Controller, NEW at \in Attempt, NEW o \in Outcomes,
           NEW f, f = Finished(at, o)
    PROVE  /\ f \in Attempt
           /\ f.status \in Statuses \ {"none", "Running"}
           /\ f.conversation = at.conversation /\ f.input = at.input
           /\ o.stop = "unknown" => f.stopped = at.stopped
           /\ at.conversation /\ ~at.stopped /\ o.stop = "unknown" =>
                 f.status = "Indeterminate"
           /\ f.status = "Passed" =>
                 /\ o.kind = "Succeeded"
                 /\ f.exit = 0 /\ f.cleanup = "Succeeded" /\ f.verified = mem.target
<1> DEFINE w == Weighed(at, o)
           e == IF o.stop = "seen" THEN HarnessStopped(w) ELSE w
           s == StatusAfter(at, o)
           k == IF e.cleanup # "none" THEN e.cleanup
                ELSE IF at.conversation THEN "Pending" ELSE "Succeeded"
<1>1. /\ w \in Attempt
      /\ w.conversation = at.conversation /\ w.input = at.input
      /\ w.stopped = (at.stopped \/ o.stop = "acknowledged")
      /\ o.code # None => w.exit = o.code /\ w.verified = mem.target
  BY WeighedResult
<1>2. /\ o.kind \in {"Succeeded", "Failed", "TimedOut", "Cancelled", "Detached"}
      /\ o.stop \in {"seen", "acknowledged", "unknown"}
  BY OutcomeType
<1>3. /\ s \in Statuses \ {"none", "Running"}
      /\ at.conversation /\ ~at.stopped /\ o.stop = "unknown" => s = "Indeterminate"
      /\ s = "Passed" => o.kind = "Succeeded" /\ Passes(at, o)
  <2>1. TrustedKind(at, o) \in {"Succeeded", "Failed", "TimedOut", "Cancelled", "Detached"}
    BY <1>2 DEF TrustedKind
  <2>2. TrustedKind(at, o) = "Succeeded" => o.kind = "Succeeded" /\ Passes(at, o)
    BY <1>2 DEF TrustedKind
  <2> DEFINE tk == TrustedKind(at, o)
  <2>3. s = IF at.conversation /\ ~at.stopped /\ o.stop = "unknown" THEN "Indeterminate"
            ELSE StatusOf[tk]
    BY DEF StatusAfter
  <2> HIDE DEF tk, s
  <2>. QED  BY <2>1, <2>2, <2>3 DEF tk, StatusOf, Statuses
<1>4. Passes(at, o) => o.code # None /\ o.code = 0 /\ w.cleanup = "Succeeded"
  BY DEF Passes, EvidencePasses, Clean
<1>5. f = [e EXCEPT !.status = s, !.cleanup = k]
  BY DEF Finished
<1> HIDE DEF w, s
<1>6. /\ e \in Attempt
      /\ e.conversation = at.conversation /\ e.input = at.input
      /\ e.exit = w.exit /\ e.verified = w.verified
      /\ o.stop = "unknown" => e.stopped = at.stopped
      /\ w.cleanup = "Succeeded" => e.cleanup = "Succeeded"
  <2>1. CASE o.stop = "seen"
    <3>1. e = HarnessStopped(w)
      BY <2>1
    <3> HIDE DEF e
    <3>. QED  BY <1>1, <2>1, <3>1, StoppedResult
  <2>2. CASE o.stop # "seen"
    <3>1. e = w /\ at.stopped \in BOOLEAN
      BY <2>2 DEF Attempt
    <3> HIDE DEF e
    <3>. QED  BY <1>1, <2>2, <3>1
  <2>. QED  BY <2>1, <2>2
<1> HIDE DEF e
<1>7. k \in {"none", "Pending", "Succeeded"} /\ (e.cleanup = "Succeeded" => k = "Succeeded")
  BY <1>6 DEF Attempt
<1> HIDE DEF k
<1>8. /\ f \in Attempt /\ f.status = s /\ f.cleanup = k
      /\ f.conversation = e.conversation /\ f.input = e.input /\ f.stopped = e.stopped
      /\ f.exit = e.exit /\ f.verified = e.verified
  BY <1>3, <1>5, <1>6, <1>7 DEF Attempt
<1>. QED  BY <1>1, <1>3, <1>4, <1>6, <1>7, <1>8

-----------------------------------------------------------------------------
(* What keeps a controller sound. *)

\* Attempts are numbered as they are started.
LEMMA StartedAttempts ==
    ASSUME NEW c \in Controller
    PROVE  Started(c) \subseteq Attempts
BY BoundsAssumption DEF Started, Controller, Attempts

\* Harnesses that start or end make nothing that was written wrong.
LEMMA SoundOnward ==
    ASSUME NEW c \in Controller, NEW h \in Harnesses, NEW g \in Harnesses,
           Sound(c, h), Onward(h, g)
    PROVE  Sound(c, g)
<1>1. \A a \in Attempts : c.attempts[a].conversation => a \in Started(c) /\ g[a] # "none"
  BY DEF Sound, Onward
<1>2. ASSUME NEW a \in Attempts, g[a] = "live", c.attempts[a].conversation
      PROVE  h[a] = "live"
  BY <1>2 DEF Sound, Onward, Harnesses
<1>3. \A a \in Started(c) : c.attempts[a].status = "Passed" => g[a] = "gone"
  BY StartedAttempts DEF Sound, Onward
<1>. QED  BY <1>1, <1>2, <1>3, Zenon DEF Sound

\* The receipt of the running attempt may change as its harness allows.
LEMMA SoundReplaced ==
    ASSUME NEW c \in Controller, NEW h \in Harnesses, NEW a \in Attempts,
           NEW at \in Attempt, NEW d, d = SetAttempt(c, a, at),
           Sound(c, h), IsRunning(c, a),
           at.input = c.attempts[a].input,
           at.conversation => h[a] # "none",
           h[a] = "live" /\ at.conversation =>
              /\ ~at.stopped
              /\ at.status \in {"Running", "Failed", "TimedOut", "Indeterminate"},
           at.status = "Running" => ~at.stopped,
           at.status = "Passed" => h[a] = "gone"
    PROVE  Sound(d, h)
<1>1. /\ d \in Controller
      /\ d.state = c.state /\ d.target = c.target /\ d.sequence = c.sequence
      /\ d.evidence = c.evidence
      /\ d.attempts[a] = at
      /\ \A b \in Attempts \ {a} : d.attempts[b] = c.attempts[b]
  BY SetAttemptResult
<1>2. Started(d) = Started(c) /\ Started(c) \subseteq Attempts /\ a \in Started(c)
  BY <1>1, StartedAttempts DEF Started, IsRunning
<1>3. a = c.sequence /\ c.state \in {"Integrating", "Fixing"}
  BY DEF Sound
<1>4. \A b \in Attempts : IsRunning(d, b) =>
          b = d.sequence /\ d.state \in {"Integrating", "Fixing"}
          /\ d.attempts[b].input = d.target /\ ~d.attempts[b].stopped
  BY <1>1, <1>2 DEF Sound, IsRunning
<1>5. \A b \in Attempts : d.attempts[b].conversation => b \in Started(d) /\ h[b] # "none"
  BY <1>1, <1>2 DEF Sound
<1>6. \A b \in Attempts : h[b] = "live" /\ d.attempts[b].conversation =>
          /\ ~d.attempts[b].stopped
          /\ d.attempts[b].status \in {"Running", "Failed", "TimedOut", "Indeterminate"}
  BY <1>1 DEF Sound
<1>7. \A b \in Started(d) : d.attempts[b].status = "Passed" => h[b] = "gone"
  BY <1>1, <1>2 DEF Sound
<1>8. d.state # "Completed"
  BY <1>1, <1>3
<1>. QED  BY <1>4, <1>5, <1>6, <1>7, <1>8, Zenon DEF Sound

\* With no attempt running, the state and the targets are free, and a completed
\* controller needs the evidence of an attempt that passed on its targets.
LEMMA SoundIdle ==
    ASSUME NEW c \in Controller, NEW h \in Harnesses, NEW d \in Controller,
           Sound(c, h), Idle(c),
           d.attempts = c.attempts, d.sequence = c.sequence,
           d.state = "Completed" =>
              /\ d.evidence = d.target
              /\ \E a \in Started(d) :
                    d.attempts[a].status = "Passed" /\ d.attempts[a].verified = d.target
    PROVE  Sound(d, h) /\ Idle(d)
<1>1. Started(d) = Started(c)
  BY DEF Started
<1>2. Idle(d)
  BY <1>1 DEF Idle, IsRunning
<1>. QED  BY <1>1, <1>2 DEF Sound, Idle

\* A clean controller runs nothing, and neither does one without a current attempt.
LEMMA CleanIsIdle ==
    ASSUME NEW c \in Controller, CleanupComplete(c) \/ Current(c) = {}
    PROVE  Idle(c)
BY DEF CleanupComplete, Current, Idle, IsRunning

\* start_attempt_intent.
LEMMA IntentResult ==
    ASSUME NEW c \in Controller, c.sequence < MaxAttempts, NEW d, d = WithIntent(c)
    PROVE  /\ c.sequence + 1 \in Attempts
           /\ d \in Controller
           /\ d.state = c.state /\ d.target = c.target /\ d.evidence = c.evidence
           /\ d.sequence = c.sequence + 1
           /\ d.attempts[c.sequence + 1].status = "Running"
           /\ ~d.attempts[c.sequence + 1].conversation /\ ~d.attempts[c.sequence + 1].stopped
           /\ d.attempts[c.sequence + 1].input = c.target
           /\ \A b \in Attempts \ {c.sequence + 1} : d.attempts[b] = c.attempts[b]
           /\ Started(d) = Started(c) \union {c.sequence + 1}
           /\ c.sequence + 1 \notin Started(c)
<1> DEFINE n == c.sequence + 1
           e == [c EXCEPT !.sequence = n]
           at == [NotStarted EXCEPT !.status = "Running", !.input = c.target]
<1>1. n \in Attempts /\ n \in 0..MaxAttempts /\ c.sequence \in Nat
  BY BoundsAssumption DEF Controller, Attempts
<1>2. /\ e \in Controller
      /\ e.state = c.state /\ e.target = c.target /\ e.evidence = c.evidence
      /\ e.sequence = n /\ e.attempts = c.attempts
  BY <1>1 DEF Controller
<1>3. /\ at \in Attempt /\ at.status = "Running" /\ ~at.conversation /\ ~at.stopped
      /\ at.input = c.target
  <2>1. c.target \in Targets /\ 1 \in Targets
    BY BoundsAssumption DEF Controller, Targets
  <2>. QED  BY <2>1 DEF Attempt, NotStarted, Statuses
<1>4. d = SetAttempt(e, n, at)
  BY DEF WithIntent
<1> HIDE DEF e, at
<1>5. /\ d \in Controller
      /\ d.state = e.state /\ d.target = e.target /\ d.sequence = e.sequence
      /\ d.evidence = e.evidence
      /\ d.attempts[n] = at
      /\ \A b \in Attempts \ {n} : d.attempts[b] = e.attempts[b]
  BY <1>1, <1>2, <1>3, <1>4, SetAttemptResult
<1>6. Started(d) = Started(c) \union {n} /\ n \notin Started(c)
  BY <1>1, <1>2, <1>5 DEF Started
<1>. QED  BY <1>1, <1>2, <1>3, <1>5, <1>6

\* A new intent is sound: nothing else was running.
LEMMA SoundIntent ==
    ASSUME NEW c \in Controller, NEW h \in Harnesses, c.sequence < MaxAttempts,
           Sound(c, h), CanStartAttempt(c), NEW d, d = WithIntent(c)
    PROVE  Sound(d, h) /\ \A b \in Attempts : IsRunning(d, b) => b = c.sequence + 1
<1> DEFINE n == c.sequence + 1
<1>1. /\ n \in Attempts
      /\ d \in Controller
      /\ d.state = c.state /\ d.target = c.target /\ d.evidence = c.evidence
      /\ d.sequence = n
      /\ d.attempts[n].status = "Running" /\ ~d.attempts[n].conversation /\ ~d.attempts[n].stopped
      /\ d.attempts[n].input = c.target
      /\ \A b \in Attempts \ {n} : d.attempts[b] = c.attempts[b]
      /\ Started(d) = Started(c) \union {n} /\ n \notin Started(c)
  BY IntentResult
<1>2. Idle(c) /\ c.state \in {"Integrating", "Fixing"} /\ Started(c) \subseteq Attempts
  BY CleanIsIdle, StartedAttempts DEF CanStartAttempt
<1> HIDE DEF n
<1>3. \A b \in Attempts : IsRunning(d, b) => b = n
  BY <1>1, <1>2 DEF Idle, IsRunning
<1>4. \A b \in Attempts : IsRunning(d, b) =>
          b = d.sequence /\ d.state \in {"Integrating", "Fixing"}
          /\ d.attempts[b].input = d.target /\ ~d.attempts[b].stopped
  BY <1>1, <1>2, <1>3
<1>5. \A b \in Attempts : d.attempts[b].conversation => b \in Started(d) /\ h[b] # "none"
  BY <1>1 DEF Sound
<1>6. \A b \in Attempts : h[b] = "live" /\ d.attempts[b].conversation =>
          /\ ~d.attempts[b].stopped
          /\ d.attempts[b].status \in {"Running", "Failed", "TimedOut", "Indeterminate"}
  BY <1>1 DEF Sound
<1>7. \A b \in Started(d) : d.attempts[b].status = "Passed" => h[b] = "gone"
  BY <1>1, <1>2 DEF Sound
<1>8. d.state # "Completed"
  BY <1>1, <1>2
<1>9. Sound(d, h)
  BY <1>4, <1>5, <1>6, <1>7, <1>8, Zenon DEF Sound
<1>. QED  BY <1>3, <1>9 DEF n

\* reconcile_restart: a harness that may be live leaves no proof of its stop, so
\* what a restart gives up stays unreconciled as long as it may run.
LEMMA InterruptedResult ==
    ASSUME NEW at \in Attempt, NEW m \in {"running", "terminal", "none"},
           NEW r, r = Interrupted(at, m)
    PROVE  /\ r \in Attempt
           /\ r.status = "Indeterminate"
           /\ r.conversation = at.conversation /\ r.input = at.input
           /\ r.verified = at.verified
           /\ m # "terminal" => r.stopped = at.stopped
<1>1. "Indeterminate" \in Statuses
  BY DEF Statuses
<1>2. CASE m = "terminal"
  <2> DEFINE cleanup == IF at.open THEN "Pending" ELSE "Succeeded"
  <2>1. r = [at EXCEPT !.status = "Indeterminate", !.stopped = TRUE, !.cleanup = cleanup]
    BY <1>2 DEF Interrupted
  <2>2. cleanup \in {"none", "Pending", "Succeeded"}
    OBVIOUS
  <2> HIDE DEF cleanup
  <2>. QED  BY <1>1, <1>2, <2>1, <2>2 DEF Attempt
<1>3. CASE m # "terminal"
  <2>1. PICK cleanup \in {"Pending", "Succeeded"} :
            r = [at EXCEPT !.status = "Indeterminate", !.cleanup = cleanup]
    BY <1>3 DEF Interrupted
  <2>. QED  BY <1>1, <2>1 DEF Attempt
<1>. QED  BY <1>2, <1>3

\* A restart keeps the attempts it can reattach, all of them or none, and gives
\* the others up (reconcile_restart).
LEMMA RestartedResult ==
    ASSUME NEW c \in Controller, NEW m \in {"running", "terminal", "none"},
           NEW d, d = Restarted(c, m)
    PROVE  /\ d \in Controller
           /\ d.state = c.state \/ (c.state = "Integrating" /\ d.state = "Refreshing")
           /\ d.target = c.target /\ d.sequence = c.sequence /\ d.evidence = c.evidence
           /\ \A b \in Attempts : IsRunning(d, b) => d = c /\ m = "running"
           /\ \A b \in Attempts : IsRunning(c, b) =>
                 d.attempts[b] = c.attempts[b] \/ d.attempts[b] = Interrupted(c.attempts[b], m)
           /\ \A b \in Attempts : ~IsRunning(c, b) => d.attempts[b] = c.attempts[b]
<1> DEFINE kept == \A a \in Current(c) : Keeps(c.attempts[a], m)
           f == [a \in Attempts |-> IF a \in Current(c) THEN Interrupted(c.attempts[a], m)
                                                        ELSE c.attempts[a]]
           s == IF c.state = "Integrating" THEN "Refreshing" ELSE c.state
<1>1. d = IF kept THEN c ELSE [c EXCEPT !.attempts = f, !.state = s]
  BY DEF Restarted
<1>2. c.attempts \in [Attempts -> Attempt] /\ c.state \in States
  BY DEF Controller
<1>3. CASE kept
  <2>1. d = c
    BY <1>1, <1>3
  <2>2. ASSUME NEW b \in Attempts, IsRunning(d, b)
        PROVE  m = "running"
    BY <1>3, <2>1, <2>2 DEF Current, Keeps
  <2>. QED  BY <2>1, <2>2
<1>4. CASE ~kept
  <2>1. d = [c EXCEPT !.attempts = f, !.state = s]
    BY <1>1, <1>4
  <2>2. f \in [Attempts -> Attempt]
    <3>1. \A a \in Attempts : Interrupted(c.attempts[a], m) \in Attempt
      BY <1>2, InterruptedResult
    <3>. QED  BY <1>2, <3>1
  <2>3. s \in States
    BY <1>2 DEF States
  <2>4. /\ \A b \in Attempts : b \in Current(c) => f[b] = Interrupted(c.attempts[b], m)
        /\ \A b \in Attempts : b \notin Current(c) => f[b] = c.attempts[b]
    OBVIOUS
  <2>5. s = c.state \/ (c.state = "Integrating" /\ s = "Refreshing")
    OBVIOUS
  <2> HIDE DEF f, s, kept
  <2>6. /\ d \in Controller /\ d.attempts = f /\ d.state = s
        /\ d.target = c.target /\ d.sequence = c.sequence /\ d.evidence = c.evidence
    BY <2>1, <2>2, <2>3 DEF Controller
  <2>7. \A b \in Attempts : Interrupted(c.attempts[b], m).status = "Indeterminate"
    BY <1>2, InterruptedResult
  <2>8. \A b \in Attempts : ~IsRunning(d, b)
    BY <2>4, <2>6, <2>7 DEF IsRunning, Started, Current
  <2>. QED  BY <2>4, <2>5, <2>6, <2>8 DEF Current
<1>. QED  BY <1>3, <1>4

\* What comes back from a restart is sound.
LEMMA SoundRestarted ==
    ASSUME NEW c \in Controller, NEW h \in Harnesses,
           NEW m \in {"running", "terminal", "none"},
           m = "terminal" => \A a \in Current(c) : h[a] # "live",
           Sound(c, h), NEW d, d = Restarted(c, m)
    PROVE  Sound(d, h)
<1>1. /\ d \in Controller
      /\ d.state = c.state \/ (c.state = "Integrating" /\ d.state = "Refreshing")
      /\ d.target = c.target /\ d.sequence = c.sequence /\ d.evidence = c.evidence
      /\ \A b \in Attempts : IsRunning(d, b) => d = c
      /\ \A b \in Attempts : ~IsRunning(c, b) => d.attempts[b] = c.attempts[b]
  BY RestartedResult
<1>2. \A b \in Attempts : IsRunning(c, b) =>
          \/ d.attempts[b] = c.attempts[b]
          \/ d.attempts[b] = Interrupted(c.attempts[b], m)
  BY RestartedResult
<1>3. \A b \in Attempts :
          /\ Interrupted(c.attempts[b], m).status = "Indeterminate"
          /\ Interrupted(c.attempts[b], m).conversation = c.attempts[b].conversation
          /\ m # "terminal" =>
                Interrupted(c.attempts[b], m).stopped = c.attempts[b].stopped
  <2>1. \A b \in Attempts : c.attempts[b] \in Attempt
    BY DEF Controller
  <2>. QED  BY <2>1, InterruptedResult
<1>4. Started(d) = Started(c) /\ Started(c) \subseteq Attempts
  BY <1>1, StartedAttempts DEF Started
<1>5. \A b \in Attempts : IsRunning(d, b) =>
          b = d.sequence /\ d.state \in {"Integrating", "Fixing"}
          /\ d.attempts[b].input = d.target /\ ~d.attempts[b].stopped
  BY <1>1 DEF Sound
<1>6. \A b \in Attempts : d.attempts[b].conversation => b \in Started(d) /\ h[b] # "none"
  BY <1>1, <1>2, <1>3, <1>4 DEF Sound
<1>7. ASSUME NEW b \in Attempts, h[b] = "live", d.attempts[b].conversation
      PROVE  /\ ~d.attempts[b].stopped
             /\ d.attempts[b].status \in {"Running", "Failed", "TimedOut", "Indeterminate"}
  <2>1. CASE d.attempts[b] = c.attempts[b]
    BY <1>7, <2>1 DEF Sound
  <2>2. CASE d.attempts[b] = Interrupted(c.attempts[b], m) /\ IsRunning(c, b)
    <3>1. m # "terminal"
      BY <1>7, <2>2 DEF Current
    <3>. QED  BY <1>3, <1>7, <2>2, <3>1 DEF Sound
  <2>. QED  BY <1>1, <1>2, <2>1, <2>2
<1>8. \A b \in Started(d) :
          d.attempts[b].status = "Passed" => d.attempts[b] = c.attempts[b]
  BY <1>1, <1>2, <1>3, <1>4
<1>9. \A b \in Started(d) : d.attempts[b].status = "Passed" => h[b] = "gone"
  BY <1>4, <1>8 DEF Sound
<1>10. ASSUME d.state = "Completed"
       PROVE  /\ d.evidence = d.target
              /\ \E a \in Started(d) :
                    d.attempts[a].status = "Passed" /\ d.attempts[a].verified = d.target
  <2>1. c.state = "Completed"
    BY <1>1, <1>10
  <2>2. PICK a \in Started(c) :
            c.attempts[a].status = "Passed" /\ c.attempts[a].verified = c.target
    BY <2>1 DEF Sound
  <2>3. d.attempts[a] = c.attempts[a]
    BY <1>1, <1>4, <2>2 DEF IsRunning
  <2>. QED  BY <1>1, <1>4, <2>1, <2>2, <2>3 DEF Sound
<1>11. QED
  BY <1>5, <1>6, <1>7, <1>9, <1>10, Zenon DEF Sound

-----------------------------------------------------------------------------
(* The outcome of a turn. *)

\* The finished attempt leaves a sound controller that runs nothing.
LEMMA FinishedSound ==
    ASSUME IInv, NEW a \in Attempts, IsRunning(mem, a),
           harness[a] = "none" \/ mem.attempts[a].conversation,
           NEW o \in Outcomes, CanReport(o, a),
           NEW h, h = HarnessAfter(a, o), NEW d, d = WithFinished(a, o)
    PROVE  /\ h \in Harnesses /\ Onward(harness, h)
           /\ d \in Controller /\ Sound(d, h) /\ Idle(d)
           /\ d.state = mem.state /\ d.target = mem.target
           /\ d.sequence = mem.sequence /\ d.evidence = mem.evidence
           /\ \A b \in Attempts \ {a} : d.attempts[b] = mem.attempts[b]
           /\ d.state \in {"Integrating", "Fixing"} /\ a \in Started(d)
           /\ mem.attempts[a].status # "Passed"
           /\ d.attempts[a].status = "Passed" =>
                 /\ d.attempts[a].input = d.target /\ d.attempts[a].exit = 0
                 /\ d.attempts[a].cleanup = "Succeeded"
                 /\ d.attempts[a].verified = d.target
<1> DEFINE at == mem.attempts[a]
           f == Finished(at, o)
<1>1. /\ mem \in Controller /\ harness \in Harnesses /\ Sound(mem, harness)
      /\ at \in Attempt /\ at.status = "Running"
  BY DEF IInv, TypeOK, Harnesses, Controller, IsRunning
<1>2. /\ f \in Attempt
      /\ f.status \in Statuses \ {"none", "Running"}
      /\ f.conversation = at.conversation /\ f.input = at.input
      /\ o.stop = "unknown" => f.stopped = at.stopped
      /\ at.conversation /\ ~at.stopped /\ o.stop = "unknown" => f.status = "Indeterminate"
      /\ f.status = "Passed" =>
            /\ o.kind = "Succeeded"
            /\ f.exit = 0 /\ f.cleanup = "Succeeded" /\ f.verified = mem.target
  BY <1>1, FinishedResult
<1>3. /\ a = mem.sequence /\ mem.state \in {"Integrating", "Fixing"} /\ at.input = mem.target
      /\ at.conversation => harness[a] # "none"
      /\ harness[a] = "live" /\ at.conversation => ~at.stopped
  BY <1>1 DEF Sound
<1>4. d = SetAttempt(mem, a, f)
  BY DEF WithFinished
<1> HIDE DEF f
<1>5. /\ h \in Harnesses /\ Onward(harness, h)
      /\ h[a] # "none" => (harness[a] # "none" \/ o.stop # "unknown")
      /\ o.stop # "unknown" => h[a] = "gone"
      /\ o.stop = "unknown" => h = harness
  BY <1>1 DEF HarnessAfter, Harnesses, Onward
<1>6. harness[a] = "none" => o.kind = "Failed" /\ o.stop = "unknown"
  BY DEF CanReport
<1>7. Sound(mem, h)
  BY <1>1, <1>5, SoundOnward
<1>8. f.conversation => h[a] # "none"
  BY <1>2, <1>3, <1>5 DEF Onward
<1>9. h[a] = "live" /\ f.conversation => ~f.stopped /\ f.status = "Indeterminate"
  BY <1>2, <1>3, <1>5
<1>10. f.status = "Passed" => h[a] = "gone"
  <2>1. CASE o.stop # "unknown"
    BY <1>5, <2>1
  <2>2. CASE o.stop = "unknown" /\ f.status = "Passed"
    <3>1. harness[a] # "none" /\ at.conversation
      BY <1>2, <1>6, <2>2
    <3>2. harness[a] # "live"
      BY <1>2, <1>3, <2>2, <3>1
    <3>. QED  BY <1>1, <1>5, <2>2, <3>1, <3>2 DEF Harnesses
  <2>. QED  BY <2>1, <2>2
<1>11. Sound(d, h)
  BY <1>1, <1>2, <1>4, <1>5, <1>7, <1>8, <1>9, <1>10, SoundReplaced
<1>12. /\ d \in Controller
       /\ d.state = mem.state /\ d.target = mem.target /\ d.sequence = mem.sequence
       /\ d.evidence = mem.evidence
       /\ d.attempts[a] = f
       /\ \A b \in Attempts \ {a} : d.attempts[b] = mem.attempts[b]
  BY <1>1, <1>2, <1>4, SetAttemptResult
<1>13. Started(d) = Started(mem) /\ a \in Started(d)
  BY <1>12 DEF Started, IsRunning
<1>14. Idle(d)
  <2>1. \A b \in Attempts \ {a} : ~IsRunning(mem, b)
    BY <1>1, <1>3 DEF Sound
  <2>. QED  BY <1>2, <1>12, <1>13, <2>1 DEF Idle, IsRunning
<1>. QED  BY <1>1, <1>2, <1>3, <1>5, <1>11, <1>12, <1>13, <1>14

\* What record_parent_worker_outcome makes of it: a change of state only, and a
\* completion only when the attempt passed on the targets of the controller. The
\* controller never refuses the completion of an attempt that passed.
LEMMA DecidedResult ==
    ASSUME IInv, NEW a \in Attempts, IsRunning(mem, a),
           harness[a] = "none" \/ mem.attempts[a].conversation,
           NEW o \in Outcomes, CanReport(o, a), NEW d, d = WithFinished(a, o)
    PROVE  /\ d.attempts[a].status = "Passed" => Decided(a, o) # {}
           /\ \A c \in Decided(a, o) :
                 /\ c \in Controller
                 /\ c.attempts = d.attempts /\ c.sequence = d.sequence /\ c.target = d.target
                 /\ c.state = "Completed" =>
                       d.attempts[a].status = "Passed" /\ c.evidence = d.target
<1>1. /\ d \in Controller
      /\ d.state \in {"Integrating", "Fixing"} /\ a \in Started(d)
      /\ d.attempts[a].status = "Passed" =>
            /\ d.attempts[a].input = d.target /\ d.attempts[a].exit = 0
            /\ d.attempts[a].cleanup = "Succeeded"
            /\ d.attempts[a].verified = d.target
  BY FinishedSound
<1> DEFINE status == d.attempts[a].status
           fixing == d.state = "Fixing"
           retry == IF CanPrepareRetry(d) THEN {PrepareRetry(d)} ELSE {}
<1>2. Decided(a, o) =
        IF fixing /\ o.category # "Active" THEN {Cancel(d)}
        ELSE IF status = "Passed" /\ fixing THEN {[d EXCEPT !.state = "Publishing"]}
        ELSE IF status = "Passed" /\ o.category # "Terminal" THEN {d}
        ELSE IF status = "Passed" THEN IF CanComplete(d, a) THEN {Complete(d)} ELSE {}
        ELSE IF o.why = "merging" \/ status = "Indeterminate" THEN retry
        ELSE IF status = "Canceled" /\ (o.category # "Active" \/ o.why = "operator")
             THEN {Cancel(d)}
        ELSE IF fixing THEN {d}
        ELSE IF status = "Failed" /\ o.why = "repair" THEN {[d EXCEPT !.state = "Fixing"]}
        ELSE retry
  BY DEF Decided
<1>3. status = "Passed" /\ ~fixing => CanComplete(d, a)
  BY <1>1 DEF CanComplete
<1>4. \A s \in States \ {"Completed"} : \A c \in {[d EXCEPT !.state = s]} :
          /\ c \in Controller /\ c.state = s
          /\ c.attempts = d.attempts /\ c.sequence = d.sequence /\ c.target = d.target
  BY <1>1, SetStateResult
<1>5. \A c \in {Complete(d)} :
          /\ c \in Controller /\ c.state = "Completed" /\ c.evidence = d.target
          /\ c.attempts = d.attempts /\ c.sequence = d.sequence /\ c.target = d.target
  BY <1>1 DEF Complete, Controller, States
<1>6. {"Canceled", "Publishing", "Fixing", "Refreshing"} \subseteq States \ {"Completed"}
  BY DEF States
<1>7. /\ Cancel(d) = [d EXCEPT !.state = "Canceled"]
      /\ PrepareRetry(d) = [d EXCEPT !.state = "Refreshing"]
  BY DEF Cancel, PrepareRetry
<1> HIDE DEF status, fixing
<1>8. \A c \in Decided(a, o) :
          \/ c = d
          \/ \E s \in {"Canceled", "Publishing", "Fixing", "Refreshing"} :
                c \in {[d EXCEPT !.state = s]}
          \/ status = "Passed" /\ c \in {Complete(d)}
  BY <1>2, <1>7
<1>9. status = "Passed" => Decided(a, o) # {}
  BY <1>2, <1>3
<1>10. ASSUME NEW c \in Decided(a, o)
       PROVE  /\ c \in Controller
              /\ c.attempts = d.attempts /\ c.sequence = d.sequence /\ c.target = d.target
              /\ c.state = "Completed" => status = "Passed" /\ c.evidence = d.target
  <2>1. CASE c = d
    BY <1>1, <2>1
  <2>2. CASE \E s \in {"Canceled", "Publishing", "Fixing", "Refreshing"} :
                c \in {[d EXCEPT !.state = s]}
    <3>1. PICK s \in States \ {"Completed"} : c \in {[d EXCEPT !.state = s]}
      BY <1>6, <2>2
    <3>. QED  BY <1>4, <3>1
  <2>3. CASE status = "Passed" /\ c \in {Complete(d)}
    BY <1>5, <2>3
  <2>. QED  BY <1>8, <2>1, <2>2, <2>3
<1>. QED  BY <1>9, <1>10 DEF status

-----------------------------------------------------------------------------
(* Every step keeps the inductive invariant. *)

\* Two copies of one sound controller agree.
LEMMA BothKeep ==
    ASSUME NEW c \in Controller, mem' = c, disk' = c, Sound(c, harness'),
           harness' \in Harnesses, faults' \in 0..MaxFaults,
           run' \in 0..MaxAttempts, \A b \in Attempts : IsRunning(mem', b) => run' = b
    PROVE  IInv'
<1>1. Sound(mem', harness') /\ Sound(disk', harness') /\ SameDecisions(mem', disk')
  BY DEF SameDecisions
<1>2. TypeOK'
  BY DEF TypeOK, Harnesses
<1>. QED  BY <1>1, <1>2 DEF IInv, Sound, SameDecisions, IsRunning, Started

\* A write takes both copies to the same sound controller, or leaves them.
LEMMA WriteKeeps ==
    ASSUME IInv, NEW c \in Controller, Write(c), Sound(c, harness'),
           harness' \in Harnesses, Onward(harness, harness'),
           run' \in 0..MaxAttempts, \A b \in Attempts : IsRunning(mem', b) => run' = b
    PROVE  IInv'
<1>1. faults' \in 0..MaxFaults
  BY BoundsAssumption DEF IInv, TypeOK, Write
<1>2. CASE mem' = c /\ disk' = c
  BY <1>1, <1>2, BothKeep
<1>3. CASE UNCHANGED <<mem, disk>>
  <2>1. Sound(mem, harness') /\ Sound(disk, harness')
    BY SoundOnward DEF IInv, TypeOK, Harnesses
  <2>2. TypeOK'
    BY <1>1, <1>3 DEF IInv, TypeOK, Harnesses
  <2>. QED  BY <1>3, <2>1, <2>2 DEF IInv, Sound, SameDecisions, IsRunning, Started
<1>. QED  BY <1>2, <1>3 DEF Write

\* A change that is not written yet may be lost, so it decides nothing.
LEMMA NoteKeeps ==
    ASSUME IInv, NEW c \in Controller, mem' = c, disk' \in {disk, c},
           faults' \in 0..MaxFaults, Sound(c, harness'), SameDecisions(c, disk),
           harness' \in Harnesses, Onward(harness, harness'),
           run' \in 0..MaxAttempts, \A b \in Attempts : IsRunning(mem', b) => run' = b
    PROVE  IInv'
<1>1. Sound(disk, harness')
  BY SoundOnward DEF IInv, TypeOK, Harnesses
<1>2. Sound(mem', harness') /\ Sound(disk', harness') /\ SameDecisions(mem', disk')
  BY <1>1 DEF SameDecisions
<1>3. TypeOK'
  BY DEF IInv, TypeOK, Harnesses
<1>. QED  BY <1>2, <1>3 DEF IInv, Sound, SameDecisions, IsRunning, Started

\* A receipt that neither takes nor gives a pass leaves the decisions alone.
LEMMA SameReplaced ==
    ASSUME NEW c \in Controller, NEW e \in Controller, NEW d \in Controller,
           SameDecisions(c, e), NEW a \in Attempts,
           d.state = c.state, d.target = c.target, d.sequence = c.sequence,
           \A b \in Attempts \ {a} : d.attempts[b] = c.attempts[b],
           c.attempts[a].status # "Passed", d.attempts[a].status # "Passed"
    PROVE  SameDecisions(d, e)
BY DEF SameDecisions

\* PrepareWorkspace gives an idle controller another baseline.
LEMMA BaselineResult ==
    ASSUME NEW c \in Controller, NEW t \in Targets, NEW d, d = WithBaseline(c, t)
    PROVE  /\ d \in Controller
           /\ d.state = "Integrating" /\ d.target = t
           /\ d.attempts = c.attempts /\ d.sequence = c.sequence
BY DEF WithBaseline, Controller, States

\* A baseline is taken while no attempt runs (record_baseline_verified).
LEMMA PrepareWorkspaceKeeps == IInv /\ PrepareWorkspace => IInv'
<1> SUFFICES ASSUME IInv, PrepareWorkspace PROVE IInv'
  OBVIOUS
<1>1. PICK t \in Targets : CanTakeBaseline(mem, t) /\ Write(WithBaseline(mem, t))
  BY DEF PrepareWorkspace
<1> DEFINE c == WithBaseline(mem, t)
<1>2. /\ mem \in Controller /\ harness \in Harnesses /\ Sound(mem, harness)
      /\ harness' = harness /\ run' = 0 /\ run' \in 0..MaxAttempts
  BY BoundsAssumption DEF IInv, TypeOK, Harnesses, PrepareWorkspace
<1>3. Idle(mem)
  BY <1>1, <1>2, CleanIsIdle DEF CanTakeBaseline
<1>4. /\ c \in Controller /\ c.state = "Integrating"
      /\ c.attempts = mem.attempts /\ c.sequence = mem.sequence
  BY <1>2, BaselineResult
<1> HIDE DEF c
<1>5. Sound(c, harness) /\ Idle(c)
  BY <1>2, <1>3, <1>4, SoundIdle
<1>6. \A b \in Attempts : ~IsRunning(mem', b)
  BY <1>1, <1>3, <1>5 DEF Write, Idle, c
<1>7. Onward(harness, harness')
  BY <1>2 DEF Onward
<1>. QED  BY <1>1, <1>2, <1>4, <1>5, <1>6, <1>7, WriteKeeps DEF c

\* The intent of a turn is the only attempt that runs (start_attempt_intent).
LEMMA AnnounceAttemptKeeps == IInv /\ AnnounceAttempt => IInv'
<1> SUFFICES ASSUME IInv, AnnounceAttempt PROVE IInv'
  OBVIOUS
<1> DEFINE c == WithIntent(mem)
<1>1. /\ mem \in Controller /\ harness \in Harnesses /\ Sound(mem, harness)
      /\ harness' = harness /\ Onward(harness, harness')
      /\ mem.sequence < MaxAttempts /\ CanStartAttempt(mem) /\ Write(c)
      /\ mem.sequence \in Nat
      /\ run' = IF mem'.sequence = mem.sequence THEN 0 ELSE mem'.sequence
  BY BoundsAssumption DEF IInv, TypeOK, Harnesses, AnnounceAttempt, Onward, Controller
<1>2. c \in Controller /\ c.sequence = mem.sequence + 1 /\ mem.sequence + 1 \in Attempts
  BY <1>1, IntentResult
<1>3. Sound(c, harness) /\ \A b \in Attempts : IsRunning(c, b) => b = mem.sequence + 1
  BY <1>1, SoundIntent
<1>4. Idle(mem)
  BY <1>1, CleanIsIdle DEF CanStartAttempt
<1> HIDE DEF c
<1>5. CASE mem' = c
  <2>1. run' = mem.sequence + 1
    BY <1>1, <1>2, <1>5
  <2>2. run' \in 0..MaxAttempts /\ \A b \in Attempts : IsRunning(mem', b) => run' = b
    BY <1>1, <1>2, <1>3, <1>5, <2>1 DEF Attempts
  <2>. QED  BY <1>1, <1>2, <1>3, <2>2, WriteKeeps
<1>6. CASE mem' = mem
  <2>1. run' \in 0..MaxAttempts /\ \A b \in Attempts : IsRunning(mem', b) => run' = b
    BY <1>1, <1>4, <1>6, BoundsAssumption DEF Idle
  <2>. QED  BY <1>1, <1>2, <1>3, <2>1, WriteKeeps
<1>. QED  BY <1>1, <1>5, <1>6 DEF Write

\* Starting the harness of the announced attempt (start_workers).
LEMMA StartHarnessKeeps ==
    ASSUME NEW a \in Attempts PROVE IInv /\ StartHarness(a) => IInv'
<1> SUFFICES ASSUME IInv, StartHarness(a) PROVE IInv'
  OBVIOUS
<1>1. /\ mem \in Controller /\ Sound(mem, harness) /\ SameDecisions(mem, disk)
      /\ harness' \in Harnesses /\ harness \in Harnesses /\ Onward(harness, harness')
      /\ mem' = mem /\ disk' = disk /\ run' = run /\ faults' \in 0..MaxFaults
      /\ run' \in 0..MaxAttempts
      /\ \A b \in Attempts : IsRunning(mem, b) => run' = b
  BY DEF IInv, TypeOK, Harnesses, StartHarness, Onward
<1>2. Sound(mem, harness')
  BY <1>1, SoundOnward
<1>3. \A b \in Attempts : IsRunning(mem', b) => run' = b
  BY <1>1
<1>. QED  BY <1>1, <1>2, <1>3, NoteKeeps

\* A harness may end by itself.
LEMMA HarnessEndsKeeps ==
    ASSUME NEW a \in Attempts PROVE IInv /\ HarnessEnds(a) => IInv'
<1> SUFFICES ASSUME IInv, HarnessEnds(a) PROVE IInv'
  OBVIOUS
<1>1. /\ mem \in Controller /\ Sound(mem, harness) /\ SameDecisions(mem, disk)
      /\ harness' \in Harnesses /\ harness \in Harnesses /\ Onward(harness, harness')
      /\ mem' = mem /\ disk' = disk /\ run' = run /\ faults' \in 0..MaxFaults
      /\ run' \in 0..MaxAttempts
      /\ \A b \in Attempts : IsRunning(mem, b) => run' = b
  BY DEF IInv, TypeOK, Harnesses, HarnessEnds, Onward
<1>2. Sound(mem, harness')
  BY <1>1, SoundOnward
<1>3. \A b \in Attempts : IsRunning(mem', b) => run' = b
  BY <1>1
<1>. QED  BY <1>1, <1>2, <1>3, NoteKeeps

\* A receipt of the running attempt: its status does not change, and neither
\* does what the scheduler knows of the harness's stop.
LEMMA ReceiptKeeps ==
    ASSUME IInv, NEW a \in Attempts, IsRunning(mem, a), harness[a] # "none",
           NEW at \in Attempt, at.status = "Running",
           at.input = mem.attempts[a].input, at.stopped = mem.attempts[a].stopped,
           NEW d, d = SetAttempt(mem, a, at), mem' = d, disk' \in {disk, d},
           UNCHANGED <<run, harness>>, faults' \in 0..MaxFaults
    PROVE  IInv'
<1>1. /\ mem \in Controller /\ disk \in Controller /\ SameDecisions(mem, disk)
      /\ Sound(mem, harness)
      /\ harness \in Harnesses /\ harness' = harness /\ Onward(harness, harness')
      /\ run' \in 0..MaxAttempts /\ run' = run
      /\ \A b \in Attempts : IsRunning(mem, b) => run = b
      /\ mem.attempts[a].status = "Running" /\ ~mem.attempts[a].stopped
  BY DEF IInv, TypeOK, Harnesses, Onward, IsRunning, Sound
<1>2. Sound(d, harness)
  BY <1>1, SoundReplaced
<1>3. /\ d \in Controller
      /\ d.state = mem.state /\ d.target = mem.target /\ d.sequence = mem.sequence
      /\ d.attempts[a] = at
      /\ \A b \in Attempts \ {a} : d.attempts[b] = mem.attempts[b]
  BY <1>1, SetAttemptResult
<1>4. SameDecisions(d, disk)
  BY <1>1, <1>3, SameReplaced
<1>5. \A b \in Attempts : IsRunning(mem', b) => run' = b
  BY <1>1, <1>3 DEF IsRunning, Started
<1>. QED  BY <1>1, <1>2, <1>3, <1>4, <1>5, NoteKeeps

\* The attached conversation belongs to a harness that was started
\* (attach_attempt_conversation).
LEMMA AttachConversationKeeps ==
    ASSUME NEW a \in Attempts PROVE IInv /\ AttachConversation(a) => IInv'
<1> SUFFICES ASSUME IInv, AttachConversation(a) PROVE IInv'
  OBVIOUS
<1> DEFINE at == [mem.attempts[a] EXCEPT !.conversation = TRUE]
<1>1. mem.attempts[a] \in Attempt /\ IsRunning(mem, a) /\ harness[a] # "none"
  BY DEF IInv, TypeOK, Controller, AttachConversation
<1>2. /\ at \in Attempt /\ at.status = "Running"
      /\ at.input = mem.attempts[a].input /\ at.stopped = mem.attempts[a].stopped
  BY <1>1 DEF Attempt, IsRunning
<1>3. /\ mem' = SetAttempt(mem, a, at) /\ disk' \in {disk, SetAttempt(mem, a, at)}
      /\ UNCHANGED <<run, harness>>
  BY DEF AttachConversation
<1>4. faults' \in 0..MaxFaults
  BY BoundsAssumption DEF AttachConversation, IInv, TypeOK
<1> HIDE DEF at
<1>. QED  BY <1>1, <1>2, <1>3, <1>4, ReceiptKeeps

\* An observed command changes only the receipt of the running attempt
\* (observe_parent_command_event).
LEMMA ObserveCommandKeeps ==
    ASSUME NEW a \in Attempts PROVE IInv /\ ObserveCommand(a) => IInv'
<1> SUFFICES ASSUME IInv, ObserveCommand(a) PROVE IInv'
  OBVIOUS
<1>1. mem.attempts[a] \in Attempt /\ mem.attempts[a].status = "Running"
      /\ IsRunning(mem, a) /\ harness[a] # "none"
  BY DEF IInv, TypeOK, Controller, ObserveCommand, Sound, IsRunning
<1>2. PICK code \in {0, 1} :
          \E at \in {CommandStarted(mem.attempts[a]), CommandFinished(mem.attempts[a], code)} :
             Note(SetAttempt(mem, a, at))
  <2>1. CASE Note(SetAttempt(mem, a, CommandStarted(mem.attempts[a])))
    BY <2>1
  <2>2. CASE \E code \in {0, 1} :
                Note(SetAttempt(mem, a, CommandFinished(mem.attempts[a], code)))
    BY <2>2
  <2>. QED  BY <2>1, <2>2 DEF ObserveCommand
<1>. PICK at \in {CommandStarted(mem.attempts[a]), CommandFinished(mem.attempts[a], code)} :
          Note(SetAttempt(mem, a, at))
  BY <1>2
<1>3. /\ at \in Attempt /\ at.status = "Running"
      /\ at.input = mem.attempts[a].input /\ at.stopped = mem.attempts[a].stopped
  BY <1>1, CommandResult
<1>4. /\ mem' = SetAttempt(mem, a, at) /\ disk' = disk
      /\ UNCHANGED <<run, harness>> /\ faults' \in 0..MaxFaults
  BY <1>2 DEF ObserveCommand, Note, IInv, TypeOK
<1>. QED  BY <1>1, <1>3, <1>4, ReceiptKeeps

\* The write at the end of a tick makes the two copies one.
LEMMA FlushKeeps == IInv /\ Flush => IInv'
<1> SUFFICES ASSUME IInv, Flush PROVE IInv'
  OBVIOUS
<1>1. SameDecisions(mem, mem)
  BY DEF SameDecisions
<1>. QED  BY <1>1 DEF IInv, TypeOK, Flush, Sound, SameDecisions, IsRunning, Started

\* A run without an attempt ends and leaves the controller alone
\* (resolve_finished_execution).
LEMMA FinishWithoutAttemptKeeps ==
    ASSUME NEW a \in Attempts PROVE IInv /\ FinishWithoutAttempt(a) => IInv'
<1> SUFFICES ASSUME IInv, FinishWithoutAttempt(a) PROVE IInv'
  OBVIOUS
<1>1. /\ mem \in Controller /\ Sound(mem, harness) /\ SameDecisions(mem, disk)
      /\ harness' \in Harnesses /\ harness \in Harnesses /\ Onward(harness, harness')
      /\ mem' = mem /\ disk' = disk /\ run' = 0 /\ faults' \in 0..MaxFaults
      /\ \A b \in Attempts : ~IsRunning(mem, b)
  BY DEF IInv, TypeOK, Harnesses, FinishWithoutAttempt, Onward
<1>2. Sound(mem, harness')
  BY <1>1, SoundOnward
<1>3. run' \in 0..MaxAttempts /\ \A b \in Attempts : IsRunning(mem', b) => run' = b
  BY <1>1, BoundsAssumption
<1>. QED  BY <1>1, <1>2, <1>3, NoteKeeps

\* The two steps of a repair happen while nothing runs.
LEMMA PublishedKeeps ==
    ASSUME IInv, run = 0, UNCHANGED <<run, harness>>, NEW c \in Controller, Write(c),
           c.attempts = mem.attempts, c.sequence = mem.sequence, c.state # "Completed"
    PROVE  IInv'
<1>1. /\ mem \in Controller /\ harness \in Harnesses /\ Sound(mem, harness)
      /\ harness' = harness /\ Onward(harness, harness') /\ run' \in 0..MaxAttempts
  BY DEF IInv, TypeOK, Harnesses, Onward
<1>2. Idle(mem)
  BY DEF IInv, Idle, Attempts
<1>3. Sound(c, harness) /\ Idle(c)
  BY <1>1, <1>2, SoundIdle
<1>4. \A b \in Attempts : ~IsRunning(mem', b)
  BY <1>2, <1>3 DEF Write, Idle
<1>. QED  BY <1>1, <1>3, <1>4, WriteKeeps

\* A merged repair sends the controller back to refresh (refresh_parent_repair).
LEMMA RepairMergedKeeps == IInv /\ RepairMerged => IInv'
<1> SUFFICES ASSUME IInv, RepairMerged PROVE IInv'
  OBVIOUS
<1>1. PICK t \in Targets : Write([mem EXCEPT !.state = "Refreshing", !.target = t])
  BY DEF RepairMerged
<1> DEFINE c == [mem EXCEPT !.state = "Refreshing", !.target = t]
<1>2. /\ c \in Controller /\ c.state = "Refreshing"
      /\ c.attempts = mem.attempts /\ c.sequence = mem.sequence
  BY DEF IInv, TypeOK, Controller, States
<1> HIDE DEF c
<1>. QED  BY <1>1, <1>2, PublishedKeeps DEF RepairMerged, c

\* A repair under review asks for another turn (queue_parent_repair_retry).
LEMMA RepairReturnedKeeps == IInv /\ RepairReturned => IInv'
<1> SUFFICES ASSUME IInv, RepairReturned PROVE IInv'
  OBVIOUS
<1> DEFINE c == [mem EXCEPT !.state = "Fixing"]
<1>1. /\ c \in Controller /\ c.state = "Fixing"
      /\ c.attempts = mem.attempts /\ c.sequence = mem.sequence
  BY DEF IInv, TypeOK, Controller, States
<1>2. Write(c)
  BY DEF RepairReturned
<1> HIDE DEF c
<1>. QED  BY <1>1, <1>2, PublishedKeeps DEF RepairReturned

\* An outcome finishes its attempt, whether or not the controller takes the
\* transition it asks for and whether or not it can be written
\* (record_parent_worker_outcome).
LEMMA RecordOutcomeKeeps ==
    ASSUME NEW a \in Attempts PROVE IInv /\ RecordOutcome(a) => IInv'
<1> SUFFICES ASSUME IInv, RecordOutcome(a) PROVE IInv'
  OBVIOUS
<1>1. PICK o \in Outcomes :
          /\ CanReport(o, a)
          /\ harness' = HarnessAfter(a, o)
          /\ \/ /\ Decided(a, o) = {}
                /\ Note(WithFinished(a, o))
                /\ run' = run
             \/ /\ \E c \in Decided(a, o) : Write(c)
                /\ run' = IF a \in Current(mem') THEN run ELSE 0
             \/ /\ \E c \in Decided(a, o) : c.state = "Fixing" /\ mem.state # "Fixing"
                /\ faults < MaxFaults
                /\ faults' = faults + 1
                /\ mem' = WithFinished(a, o)
                /\ disk' = mem'
                /\ run' = 0
  BY Zenon DEF RecordOutcome
<1> DEFINE d == WithFinished(a, o)
<1>2. /\ mem \in Controller /\ disk \in Controller /\ Sound(mem, harness)
      /\ SameDecisions(mem, disk)
      /\ run \in 0..MaxAttempts /\ run = a /\ faults \in 0..MaxFaults /\ 0 \in 0..MaxAttempts
      /\ IsRunning(mem, a) /\ (harness[a] = "none" \/ mem.attempts[a].conversation)
  BY BoundsAssumption DEF IInv, TypeOK, RecordOutcome
<1>3. /\ harness' \in Harnesses /\ Onward(harness, harness')
      /\ d \in Controller /\ Sound(d, harness') /\ Idle(d)
      /\ d.state = mem.state /\ d.target = mem.target /\ d.sequence = mem.sequence
      /\ \A b \in Attempts \ {a} : d.attempts[b] = mem.attempts[b]
      /\ a \in Started(d)
      /\ mem.attempts[a].status # "Passed"
      /\ d.attempts[a].status = "Passed" => d.attempts[a].verified = d.target
  BY <1>1, <1>2, FinishedSound
<1>4. /\ d.attempts[a].status = "Passed" => Decided(a, o) # {}
      /\ \A c \in Decided(a, o) :
            /\ c \in Controller
            /\ c.attempts = d.attempts /\ c.sequence = d.sequence /\ c.target = d.target
            /\ c.state = "Completed" => d.attempts[a].status = "Passed" /\ c.evidence = d.target
  BY <1>1, <1>2, DecidedResult
<1> HIDE DEF d
<1>5. CASE Decided(a, o) = {} /\ Note(d) /\ run' = run
  <2>1. SameDecisions(d, disk)
    BY <1>2, <1>3, <1>4, <1>5, SameReplaced
  <2>2. mem' = d /\ disk' = disk /\ faults' = faults
    BY <1>5 DEF Note
  <2>3. \A b \in Attempts : IsRunning(mem', b) => run' = b
    BY <1>3, <2>2 DEF Idle
  <2>. QED  BY <1>2, <1>3, <1>5, <2>1, <2>2, <2>3, NoteKeeps
<1>6. CASE /\ \E c \in Decided(a, o) : Write(c)
           /\ run' = IF a \in Current(mem') THEN run ELSE 0
  <2>1. PICK c \in Decided(a, o) : Write(c)
    BY <1>6
  <2>2. Sound(c, harness') /\ Idle(c)
    <3>1. Started(c) = Started(d)
      BY <1>4 DEF Started
    <3>. QED  BY <1>3, <1>4, <3>1, SoundIdle
  <2>3. \A b \in Attempts : IsRunning(mem', b) => run' = b
    <3>1. CASE mem' = c
      BY <2>2, <3>1 DEF Idle
    <3>2. CASE mem' = mem
      <4>1. a \in Current(mem)
        BY <1>2 DEF Current
      <4>2. \A b \in Attempts : IsRunning(mem, b) => b = a
        BY <1>2 DEF Sound
      <4>. QED  BY <1>2, <1>6, <3>2, <4>1, <4>2
    <3>. QED  BY <2>1, <3>1, <3>2 DEF Write
  <2>. QED  BY <1>2, <1>3, <1>4, <1>6, <2>1, <2>2, <2>3, WriteKeeps
<1>7. CASE faults < MaxFaults /\ faults' = faults + 1 /\ mem' = d /\ disk' = mem' /\ run' = 0
  <2>1. \A b \in Attempts : IsRunning(mem', b) => run' = b
    BY <1>3, <1>7 DEF Idle
  <2>2. faults' \in 0..MaxFaults
    BY <1>2, <1>7, BoundsAssumption
  <2>. QED  BY <1>2, <1>3, <1>7, <2>1, <2>2, BothKeep
<1>. QED  BY <1>1, <1>5, <1>6, <1>7 DEF d

\* The bootstrap takes its state from disk and the manifests (bootstrap_recovery).
LEMMA RestartKeeps == IInv /\ Restart => IInv'
<1> SUFFICES ASSUME IInv, Restart PROVE IInv'
  OBVIOUS
<1>1. PICK m \in Manifests(disk) :
          /\ mem' = Restarted(disk, m) /\ disk' = mem'
          /\ run' = IF m = "running" /\ disk.sequence > 0 THEN disk.sequence ELSE 0
  BY DEF Restart
<1>2. /\ disk \in Controller /\ harness \in Harnesses /\ harness' = harness
      /\ Sound(disk, harness) /\ disk.sequence \in 0..MaxAttempts /\ 0 \in 0..MaxAttempts
      /\ faults' \in 0..MaxFaults
  BY BoundsAssumption DEF IInv, TypeOK, Harnesses, Controller, Restart
<1>3. /\ m \in {"running", "terminal", "none"}
      /\ m = "terminal" => \A a \in Current(disk) : harness[a] # "live"
  BY <1>1 DEF Manifests
<1> DEFINE c == Restarted(disk, m)
<1>4. c \in Controller /\ \A b \in Attempts : IsRunning(c, b) => c = disk /\ m = "running"
  BY <1>2, <1>3, RestartedResult
<1>5. Sound(c, harness)
  BY <1>2, <1>3, SoundRestarted
<1> HIDE DEF c
<1>6. \A b \in Attempts : IsRunning(c, b) => run' = b
  <2>1. ASSUME NEW b \in Attempts, IsRunning(c, b)
        PROVE  run' = b
    <3>1. IsRunning(disk, b) /\ m = "running"
      BY <1>4, <2>1
    <3>2. b = disk.sequence /\ b > 0
      BY <1>2, <3>1 DEF Sound, Attempts
    <3>. QED  BY <1>1, <3>1, <3>2
  <2>. QED  BY <2>1
<1>7. mem' = c /\ disk' = c /\ run' \in 0..MaxAttempts
  BY <1>1, <1>2 DEF c
<1>. QED  BY <1>2, <1>4, <1>5, <1>6, <1>7, BothKeep

\* release_issue ends the controller: what ran is canceled with its harness
\* stopped, and it is completed only on a pass of its targets.
LEMMA ReleasedResult ==
    ASSUME NEW c \in Controller, NEW category,
           \A a \in Attempts : IsRunning(c, a) => c.state \in {"Integrating", "Fixing"}
    PROVE  /\ Current(c) # {} => Released(c, category) # {}
           /\ \A d \in Released(c, category) :
                 /\ d \in Controller
                 /\ ~Terminal(c)
                 /\ d.sequence = c.sequence /\ d.target = c.target
                 /\ \A b \in Attempts \ Current(c) : d.attempts[b] = c.attempts[b]
                 /\ \A b \in Current(c) :
                       /\ d.attempts[b].status = "Canceled"
                       /\ d.attempts[b].conversation = c.attempts[b].conversation
                 /\ \/ d.state = "Canceled"
                    \/ /\ d.state = "Completed" /\ d.evidence = d.target
                       /\ \E a \in Started(c) :
                             c.attempts[a].status = "Passed" /\ c.attempts[a].verified = c.target
<1> DEFINE f == [a \in Attempts |->
                     IF a \in Current(c)
                     THEN [HarnessStopped(c.attempts[a]) EXCEPT !.status = "Canceled"]
                     ELSE c.attempts[a]]
           e == [c EXCEPT !.attempts = f]
           completable == {b \in Attempts : LastPassed(c, b) /\ CanComplete(c, b)}
           passed == /\ c.state = "Integrating" /\ category = "Terminal" /\ Current(c) = {}
                     /\ \E a \in Attempts : LastPassed(c, a)
<1>1. Released(c, category) =
        IF passed THEN {Complete(c) : a \in completable}
        ELSE IF Terminal(c) THEN {}
        ELSE IF Current(c) = {}
        THEN IF CanCancelWithoutHarness(c) THEN {Cancel(c)} ELSE {}
        ELSE {Cancel(e)}
  BY DEF Released
<1>2. Current(c) # {} => ~Terminal(c) /\ Current(c) \subseteq Attempts
  BY DEF Current, Terminal
<1>3. c.attempts \in [Attempts -> Attempt]
  BY DEF Controller
<1>4. \A a \in Attempts :
          /\ [HarnessStopped(c.attempts[a]) EXCEPT !.status = "Canceled"] \in Attempt
          /\ [HarnessStopped(c.attempts[a]) EXCEPT !.status = "Canceled"].status = "Canceled"
          /\ [HarnessStopped(c.attempts[a]) EXCEPT !.status = "Canceled"].conversation
                = c.attempts[a].conversation
  <2>1. ASSUME NEW x \in Attempt, NEW y, y = [x EXCEPT !.status = "Canceled"]
        PROVE  y \in Attempt /\ y.status = "Canceled" /\ y.conversation = x.conversation
    BY <2>1 DEF Attempt, Statuses
  <2>2. \A a \in Attempts : /\ HarnessStopped(c.attempts[a]) \in Attempt
                            /\ HarnessStopped(c.attempts[a]).conversation
                                  = c.attempts[a].conversation
    BY <1>3, StoppedResult
  <2>. QED  BY <2>1, <2>2
<1>5. /\ f \in [Attempts -> Attempt]
      /\ \A b \in Attempts \ Current(c) : f[b] = c.attempts[b]
      /\ \A b \in Attempts : b \in Current(c) =>
            f[b].status = "Canceled" /\ f[b].conversation = c.attempts[b].conversation
  BY <1>3, <1>4
<1> HIDE DEF f
<1>6. /\ e \in Controller /\ e.attempts = f /\ e.state = c.state
      /\ e.sequence = c.sequence /\ e.target = c.target
  BY <1>5 DEF Controller
<1> HIDE DEF e, passed
<1>7. ASSUME NEW x \in Controller, NEW y, y = Cancel(x)
      PROVE  /\ y \in Controller /\ y.state = "Canceled" /\ y.attempts = x.attempts
             /\ y.sequence = x.sequence /\ y.target = x.target
  BY <1>7 DEF Cancel, Controller, States
<1>8. ASSUME NEW d, d = Complete(c)
      PROVE  /\ d \in Controller /\ d.state = "Completed" /\ d.attempts = c.attempts
             /\ d.sequence = c.sequence /\ d.target = c.target /\ d.evidence = d.target
  BY <1>8 DEF Complete, Controller, States
<1>9. ASSUME passed, NEW a \in completable
      PROVE  /\ ~Terminal(c) /\ Current(c) = {} /\ a \in Started(c)
             /\ c.attempts[a].status = "Passed" /\ c.attempts[a].verified = c.target
  BY <1>9 DEF LastPassed, CanComplete, passed, Terminal
<1>10. Current(c) # {} => Released(c, category) # {}
  BY <1>1, <1>2 DEF passed
<1>11. ASSUME NEW d \in Released(c, category)
       PROVE  /\ d \in Controller
              /\ ~Terminal(c)
              /\ d.sequence = c.sequence /\ d.target = c.target
              /\ \A b \in Attempts \ Current(c) : d.attempts[b] = c.attempts[b]
              /\ \A b \in Current(c) :
                    /\ d.attempts[b].status = "Canceled"
                    /\ d.attempts[b].conversation = c.attempts[b].conversation
              /\ \/ d.state = "Canceled"
                 \/ /\ d.state = "Completed" /\ d.evidence = d.target
                    /\ \E a \in Started(c) :
                          c.attempts[a].status = "Passed" /\ c.attempts[a].verified = c.target
  <2>1. CASE passed /\ \E a \in completable : d = Complete(c)
    BY <1>8, <1>9, <2>1
  <2>2. CASE ~Terminal(c) /\ Current(c) = {} /\ d = Cancel(c)
    BY <1>7, <2>2
  <2>3. CASE ~Terminal(c) /\ Current(c) # {} /\ d = Cancel(e)
    <3>1. /\ d \in Controller /\ d.state = "Canceled" /\ d.attempts = f
          /\ d.sequence = c.sequence /\ d.target = c.target
      BY <1>6, <1>7, <2>3
    <3>. QED  BY <1>2, <1>5, <2>3, <3>1
  <2>. QED  BY <1>1, <1>11, <2>1, <2>2, <2>3
<1>. QED  BY <1>10, <1>11

\* A released issue ends its controller (release_issue).
LEMMA ReleaseIssueKeeps == IInv /\ ReleaseIssue => IInv'
<1> SUFFICES ASSUME IInv, ReleaseIssue PROVE IInv'
  OBVIOUS
<1>1. /\ mem \in Controller /\ Sound(mem, harness) /\ SameDecisions(mem, disk)
      /\ run \in 0..MaxAttempts /\ 0 \in 0..MaxAttempts /\ faults \in 0..MaxFaults
      /\ \A b \in Attempts : IsRunning(mem, b) => run = b
      /\ harness \in Harnesses
  BY BoundsAssumption DEF IInv, TypeOK, Harnesses
<1>2. /\ harness' \in Harnesses /\ Onward(harness, harness')
      /\ \A b \in Attempts : b = run => harness'[b] = "gone"
      /\ \A b \in Attempts : harness'[b] = "live" => b # run
  BY <1>1 DEF ReleaseIssue, Harnesses, Onward
<1>3. Sound(mem, harness')
  BY <1>1, <1>2, SoundOnward
<1>4. PICK category \in Categories \ {"Active"} :
          \/ Released(mem, category) = {} /\ Note(mem) /\ run' = 0
          \/ \E c \in Released(mem, category) : Write(c) /\ run' = IF mem' = c THEN 0 ELSE run
  BY Zenon DEF ReleaseIssue
<1>5. \A a \in Attempts : IsRunning(mem, a) => mem.state \in {"Integrating", "Fixing"}
  BY <1>1 DEF Sound
<1>6. CASE Released(mem, category) = {} /\ Note(mem) /\ run' = 0
  <2>1. Idle(mem)
    BY <1>1, <1>5, <1>6, ReleasedResult, CleanIsIdle
  <2>2. mem' = mem /\ disk' = disk /\ faults' = faults
    BY <1>6 DEF Note
  <2>3. \A b \in Attempts : IsRunning(mem', b) => run' = b
    BY <2>1, <2>2 DEF Idle
  <2>. QED  BY <1>1, <1>2, <1>3, <1>6, <2>2, <2>3, NoteKeeps
<1>7. ASSUME NEW c \in Released(mem, category), Write(c),
             run' = IF mem' = c THEN 0 ELSE run
      PROVE  IInv'
  <2>1. /\ c \in Controller
        /\ c.sequence = mem.sequence /\ c.target = mem.target
        /\ \A b \in Attempts \ Current(mem) : c.attempts[b] = mem.attempts[b]
        /\ \A b \in Current(mem) :
              /\ c.attempts[b].status = "Canceled"
              /\ c.attempts[b].conversation = mem.attempts[b].conversation
        /\ \/ c.state = "Canceled"
           \/ /\ c.state = "Completed" /\ c.evidence = c.target
              /\ \E a \in Started(mem) :
                    mem.attempts[a].status = "Passed" /\ mem.attempts[a].verified = mem.target
    BY <1>1, <1>5, ReleasedResult
  <2>2. Started(c) = Started(mem) /\ Started(c) \subseteq Attempts
    BY <1>1, <2>1, StartedAttempts DEF Started
  <2>3. Idle(c)
    BY <2>1, <2>2 DEF Idle, IsRunning, Current
  <2>4. \A b \in Current(mem) : b \in Attempts /\ b = run /\ harness'[b] = "gone"
    BY <1>1, <1>2 DEF Current
  <2>5. \A b \in Attempts : c.attempts[b].conversation => b \in Started(c) /\ harness'[b] # "none"
    BY <1>3, <2>1, <2>2 DEF Sound
  <2>6. \A b \in Attempts : harness'[b] = "live" /\ c.attempts[b].conversation =>
            /\ ~c.attempts[b].stopped
            /\ c.attempts[b].status \in {"Running", "Failed", "TimedOut", "Indeterminate"}
    BY <1>3, <2>1, <2>4 DEF Sound
  <2>7. \A b \in Started(c) : c.attempts[b].status = "Passed" => harness'[b] = "gone"
    BY <1>3, <2>1, <2>2 DEF Sound
  <2>8. ASSUME c.state = "Completed"
        PROVE  /\ c.evidence = c.target
               /\ \E a \in Started(c) :
                     c.attempts[a].status = "Passed" /\ c.attempts[a].verified = c.target
    <3>1. PICK a \in Started(mem) :
              mem.attempts[a].status = "Passed" /\ mem.attempts[a].verified = mem.target
      BY <2>1, <2>8
    <3>2. a \notin Current(mem)
      BY <3>1 DEF Current, IsRunning
    <3>. QED  BY <2>1, <2>2, <2>8, <3>1, <3>2
  <2>9. Sound(c, harness')
    BY <2>3, <2>5, <2>6, <2>7, <2>8, Zenon DEF Sound, Idle
  <2>10. \A b \in Attempts : IsRunning(mem', b) => run' = b
    <3>1. CASE mem' = c
      BY <2>3, <3>1 DEF Idle
    <3>2. CASE mem' = mem /\ mem' # c
      BY <1>1, <1>7, <3>2
    <3>. QED  BY <1>7, <3>1, <3>2 DEF Write
  <2>11. run' \in 0..MaxAttempts
    BY <1>1, <1>7
  <2>. QED  BY <1>2, <1>7, <2>1, <2>9, <2>10, <2>11, WriteKeeps
<1>. QED  BY <1>4, <1>6, <1>7

-----------------------------------------------------------------------------
(* The theorems. *)

\* The initial controller is sound.
LEMMA InitKeeps == Init => IInv
<1> SUFFICES ASSUME Init PROVE IInv
  OBVIOUS
<1>1. 1 \in Targets /\ 0 \in 0..MaxAttempts /\ 0 \in 0..MaxFaults
  BY BoundsAssumption DEF Targets
<1>2. NotStarted \in Attempt
  BY <1>1 DEF NotStarted, Attempt, Statuses
<1>3. mem = [state |-> "Preparing", target |-> 1, attempts |-> [a \in Attempts |-> NotStarted],
             sequence |-> 0, baseline |-> None, evidence |-> None]
  BY DEF Init
<1>4. /\ mem \in Controller /\ mem.sequence = 0 /\ mem.state = "Preparing"
      /\ \A a \in Attempts : mem.attempts[a] = NotStarted
  BY <1>1, <1>2, <1>3 DEF Controller, States
<1>5. ~NotStarted.conversation
  BY DEF NotStarted
<1>6. Started(mem) = {}
  BY <1>4 DEF Started
<1>7. Sound(mem, harness)
  BY <1>4, <1>5, <1>6 DEF Sound, IsRunning
<1>. QED  BY <1>1, <1>4, <1>6, <1>7 DEF IInv, TypeOK, SameDecisions, IsRunning, Init

\* The inductive invariant holds in every reachable state: what the memory and
\* the written state say of the attempts is sound for the harnesses that really
\* run, and the two agree on every decision, through failed writes and crashes.
THEOREM AttemptsInvariant == Spec => []IInv
<1>1. IInv /\ [Next]_vars => IInv'
  <2> SUFFICES ASSUME IInv, [Next]_vars PROVE IInv'
    OBVIOUS
  <2>1. CASE PrepareWorkspace
    BY <2>1, PrepareWorkspaceKeeps
  <2>2. CASE AnnounceAttempt
    BY <2>2, AnnounceAttemptKeeps
  <2>3. ASSUME NEW a \in Attempts, StartHarness(a) PROVE IInv'
    BY <2>3, StartHarnessKeeps
  <2>4. ASSUME NEW a \in Attempts, AttachConversation(a) PROVE IInv'
    BY <2>4, AttachConversationKeeps
  <2>5. ASSUME NEW a \in Attempts, ObserveCommand(a) PROVE IInv'
    BY <2>5, ObserveCommandKeeps
  <2>6. CASE Flush
    BY <2>6, FlushKeeps
  <2>7. ASSUME NEW a \in Attempts, RecordOutcome(a) PROVE IInv'
    BY <2>7, RecordOutcomeKeeps
  <2>8. ASSUME NEW a \in Attempts, FinishWithoutAttempt(a) PROVE IInv'
    BY <2>8, FinishWithoutAttemptKeeps
  <2>9. CASE RepairMerged
    BY <2>9, RepairMergedKeeps
  <2>10. CASE RepairReturned
    BY <2>10, RepairReturnedKeeps
  <2>11. CASE ReleaseIssue
    BY <2>11, ReleaseIssueKeeps
  <2>12. CASE Restart
    BY <2>12, RestartKeeps
  <2>13. ASSUME NEW a \in Attempts, HarnessEnds(a) PROVE IInv'
    BY <2>13, HarnessEndsKeeps
  <2>14. CASE UNCHANGED vars
    BY <2>14 DEF vars, IInv, TypeOK, Sound, SameDecisions, IsRunning, Started
  <2>. QED
    BY <2>1, <2>2, <2>3, <2>4, <2>5, <2>6, <2>7, <2>8, <2>9, <2>10, <2>11, <2>12, <2>13,
       <2>14 DEF Next
<1>. QED  BY InitKeeps, <1>1, PTL DEF Spec

\* Every variable keeps its type.
THEOREM TypeCorrect == Spec => []TypeOK
BY AttemptsInvariant, PTL DEF IInv

\* A completed parent has the evidence of an attempt that passed on the targets
\* it holds, with its harness stopped, whatever failed or crashed on the way.
THEOREM CompletedVerified == Spec => []CompletedOnVerifiedTargets
<1>1. IInv => CompletedOnVerifiedTargets
  BY DEF IInv, Sound, CompletedOnVerifiedTargets
<1>. QED  BY AttemptsInvariant, <1>1, PTL

-----------------------------------------------------------------------------
(* The controller implements VerifiedParent. *)

PhaseOf(c) ==
    IF c.state = "Completed" THEN "completed"
    ELSE IF c.state = "Canceled" THEN "canceled" ELSE "open"

PassedIn(c) == {b \in Started(c) : c.attempts[b].status = "Passed"}
VerifiedBy(c) == {c.attempts[a].verified : a \in PassedIn(c)}

(* One step of the promise, or none. *)
PromisedStep == [Promise!Next]_(Promise!vars)

(* d decides no more than c. *)
Alike(c, d) == PhaseOf(c) = PhaseOf(d) /\ c.target = d.target /\ VerifiedBy(c) = VerifiedBy(d)

\* The refinement mapping in terms of the controller.
LEMMA PromisedBy ==
    /\ Phase = PhaseOf(mem) /\ VerifiedTargets = VerifiedBy(mem)
    /\ Phase' = PhaseOf(mem') /\ VerifiedTargets' = VerifiedBy(mem')
BY DEF Phase, PhaseOf, VerifiedTargets, VerifiedBy, PassedIn, Started

\* A controller that decides nothing new takes no step of the promise.
LEMMA AlikeStep == Alike(mem, mem') => PromisedStep
BY PromisedBy DEF Alike, PromisedStep, Promise!vars

\* The same passes on the same targets verify the same.
LEMMA AlikeResult ==
    ASSUME NEW c, NEW d, PhaseOf(c) = PhaseOf(d), c.target = d.target,
           PassedIn(c) = PassedIn(d),
           \A b \in PassedIn(c) : c.attempts[b].verified = d.attempts[b].verified
    PROVE  Alike(c, d)
BY DEF Alike, VerifiedBy

\* A write that keeps the attempts and moves the targets is a Retarget.
LEMMA RetargetStep ==
    ASSUME NEW c \in Controller, Write(c), PhaseOf(mem) = "open", PhaseOf(c) = "open",
           c.attempts = mem.attempts, c.sequence = mem.sequence
    PROVE  PromisedStep /\ mem'.sequence = mem.sequence
<1>1. CASE mem' = mem
  BY <1>1, AlikeStep DEF Alike
<1>2. CASE mem' = c
  <2>1. VerifiedBy(mem') = VerifiedBy(mem) /\ mem'.sequence = mem.sequence
    BY <1>2 DEF VerifiedBy, PassedIn, Started
  <2>2. mem'.target \in Targets
    BY <1>2 DEF Controller
  <2>3. Promise!Retarget
    BY <1>2, <2>1, <2>2, PromisedBy DEF Promise!Retarget
  <2>. QED  BY <2>1, <2>3 DEF PromisedStep, Promise!Next
<1>. QED  BY <1>1, <1>2 DEF Write

\* A baseline moves the targets of an open parent.
LEMMA PrepareWorkspacePromised ==
    IInv /\ PrepareWorkspace => PromisedStep /\ mem'.sequence = mem.sequence
<1> SUFFICES ASSUME IInv, PrepareWorkspace
             PROVE  PromisedStep /\ mem'.sequence = mem.sequence
  OBVIOUS
<1>1. PICK t \in Targets : CanTakeBaseline(mem, t) /\ Write(WithBaseline(mem, t))
  BY DEF PrepareWorkspace
<1> DEFINE c == WithBaseline(mem, t)
<1>2. /\ c \in Controller /\ c.state = "Integrating"
      /\ c.attempts = mem.attempts /\ c.sequence = mem.sequence
  BY BaselineResult DEF IInv, TypeOK
<1> HIDE DEF c
<1>3. PhaseOf(mem) = "open" /\ PhaseOf(c) = "open"
  BY <1>1, <1>2 DEF PhaseOf, CanTakeBaseline
<1>. QED  BY <1>1, <1>2, <1>3, RetargetStep DEF c

\* A merged repair moves the targets of an open parent.
LEMMA RepairMergedPromised ==
    IInv /\ RepairMerged => PromisedStep /\ mem'.sequence = mem.sequence
<1> SUFFICES ASSUME IInv, RepairMerged
             PROVE  PromisedStep /\ mem'.sequence = mem.sequence
  OBVIOUS
<1>1. PICK t \in Targets : Write([mem EXCEPT !.state = "Refreshing", !.target = t])
  BY DEF RepairMerged
<1> DEFINE c == [mem EXCEPT !.state = "Refreshing", !.target = t]
<1>2. /\ c \in Controller /\ c.state = "Refreshing"
      /\ c.attempts = mem.attempts /\ c.sequence = mem.sequence
  BY DEF IInv, TypeOK, Controller, States
<1> HIDE DEF c
<1>3. PhaseOf(mem) = "open" /\ PhaseOf(c) = "open"
  BY <1>2 DEF PhaseOf, RepairMerged
<1>. QED  BY <1>1, <1>2, <1>3, RetargetStep DEF c

\* Another turn of a repair decides nothing.
LEMMA RepairReturnedPromised ==
    IInv /\ RepairReturned => PromisedStep /\ mem'.sequence = mem.sequence
<1> SUFFICES ASSUME IInv, RepairReturned
             PROVE  PromisedStep /\ mem'.sequence = mem.sequence
  OBVIOUS
<1> DEFINE c == [mem EXCEPT !.state = "Fixing"]
<1>1. /\ c \in Controller /\ c.state = "Fixing"
      /\ c.attempts = mem.attempts /\ c.sequence = mem.sequence
  BY DEF IInv, TypeOK, Controller, States
<1>2. Write(c)
  BY DEF RepairReturned
<1> HIDE DEF c
<1>3. PhaseOf(mem) = "open" /\ PhaseOf(c) = "open"
  BY <1>1 DEF PhaseOf, RepairReturned
<1>. QED  BY <1>1, <1>2, <1>3, RetargetStep

\* A new attempt has verified nothing.
LEMMA AnnounceAttemptPromised == IInv /\ AnnounceAttempt => PromisedStep
<1> SUFFICES ASSUME IInv, AnnounceAttempt PROVE PromisedStep
  OBVIOUS
<1> DEFINE c == WithIntent(mem)
           n == mem.sequence + 1
<1>1. mem \in Controller /\ mem.sequence < MaxAttempts /\ Write(c)
  BY DEF IInv, TypeOK, AnnounceAttempt
<1>2. /\ n \in Attempts /\ c.state = mem.state /\ c.target = mem.target
      /\ c.attempts[n].status = "Running"
      /\ \A b \in Attempts \ {n} : c.attempts[b] = mem.attempts[b]
      /\ Started(c) = Started(mem) \union {n} /\ n \notin Started(mem)
      /\ Started(mem) \subseteq Attempts
  BY <1>1, IntentResult, StartedAttempts
<1> HIDE DEF c, n
<1>3. /\ PassedIn(c) = PassedIn(mem)
      /\ \A b \in PassedIn(mem) : c.attempts[b] = mem.attempts[b]
  BY <1>2 DEF PassedIn
<1>4. Alike(mem, c)
  BY <1>2, <1>3, AlikeResult DEF PhaseOf
<1>5. Alike(mem, mem')
  BY <1>1, <1>4 DEF Write, Alike
<1>. QED  BY <1>5, AlikeStep

\* A receipt of a running attempt verifies nothing.
LEMMA ReceiptPromised ==
    ASSUME IInv, NEW a \in Attempts, IsRunning(mem, a),
           NEW at \in Attempt, at.status = "Running", mem' = SetAttempt(mem, a, at)
    PROVE  PromisedStep /\ mem'.sequence = mem.sequence
<1>1. /\ mem'.state = mem.state /\ mem'.target = mem.target
      /\ mem'.sequence = mem.sequence /\ mem'.attempts[a] = at
      /\ \A b \in Attempts \ {a} : mem'.attempts[b] = mem.attempts[b]
      /\ Started(mem) \subseteq Attempts /\ mem.attempts[a].status = "Running"
  BY SetAttemptResult, StartedAttempts DEF IInv, TypeOK, IsRunning
<1>2. /\ PassedIn(mem') = PassedIn(mem)
      /\ \A b \in PassedIn(mem) : mem'.attempts[b] = mem.attempts[b]
  BY <1>1 DEF PassedIn, Started
<1>3. Alike(mem, mem')
  BY <1>1, <1>2, AlikeResult DEF PhaseOf
<1>. QED  BY <1>1, <1>3, AlikeStep

\* An attached conversation decides nothing.
LEMMA AttachConversationPromised ==
    ASSUME NEW a \in Attempts
    PROVE  IInv /\ AttachConversation(a) => PromisedStep /\ mem'.sequence = mem.sequence
<1> SUFFICES ASSUME IInv, AttachConversation(a)
             PROVE  PromisedStep /\ mem'.sequence = mem.sequence
  OBVIOUS
<1> DEFINE at == [mem.attempts[a] EXCEPT !.conversation = TRUE]
<1>1. mem.attempts[a] \in Attempt /\ IsRunning(mem, a)
  BY DEF IInv, TypeOK, Controller, AttachConversation
<1>2. at \in Attempt /\ at.status = "Running"
  BY <1>1 DEF Attempt, IsRunning
<1>3. mem' = SetAttempt(mem, a, at)
  BY DEF AttachConversation
<1> HIDE DEF at
<1>. QED  BY <1>1, <1>2, <1>3, ReceiptPromised

\* An observed command decides nothing.
LEMMA ObserveCommandPromised ==
    ASSUME NEW a \in Attempts
    PROVE  IInv /\ ObserveCommand(a) => PromisedStep /\ mem'.sequence = mem.sequence
<1> SUFFICES ASSUME IInv, ObserveCommand(a)
             PROVE  PromisedStep /\ mem'.sequence = mem.sequence
  OBVIOUS
<1>1. mem.attempts[a] \in Attempt /\ mem.attempts[a].status = "Running" /\ IsRunning(mem, a)
  BY DEF IInv, TypeOK, Controller, ObserveCommand, IsRunning
<1>2. CASE Note(SetAttempt(mem, a, CommandStarted(mem.attempts[a])))
  <2>1. CommandStarted(mem.attempts[a]) \in Attempt
        /\ CommandStarted(mem.attempts[a]).status = "Running"
    BY <1>1, CommandResult
  <2>. QED  BY <1>1, <1>2, <2>1, ReceiptPromised DEF Note
<1>3. ASSUME NEW code \in {0, 1}, Note(SetAttempt(mem, a, CommandFinished(mem.attempts[a], code)))
      PROVE  PromisedStep /\ mem'.sequence = mem.sequence
  <2>1. CommandFinished(mem.attempts[a], code) \in Attempt
        /\ CommandFinished(mem.attempts[a], code).status = "Running"
    BY <1>1, CommandResult
  <2>. QED  BY <1>1, <1>3, <2>1, ReceiptPromised DEF Note
<1>. QED  BY <1>2, <1>3 DEF ObserveCommand

\* An open parent may verify its target, and is completed only once it has.
LEMMA DecisionStep ==
    ASSUME PhaseOf(mem) = "open", mem'.target = mem.target,
           VerifiedBy(mem') \in {VerifiedBy(mem), VerifiedBy(mem) \union {mem.target}},
           PhaseOf(mem') = "completed" => mem.target \in VerifiedBy(mem')
    PROVE  PromisedStep
<1>1. PhaseOf(mem') \in {"open", "completed", "canceled"}
  BY DEF PhaseOf
<1>2. CASE PhaseOf(mem') = "completed"
  <2>1. Promise!Complete
    BY <1>2, PromisedBy DEF Promise!Complete
  <2>. QED  BY <2>1 DEF PromisedStep, Promise!Next
<1>3. CASE PhaseOf(mem') = "canceled"
  <2>1. Promise!Cancel
    BY <1>3, PromisedBy DEF Promise!Cancel
  <2>. QED  BY <2>1 DEF PromisedStep, Promise!Next
<1>4. CASE PhaseOf(mem') = "open" /\ VerifiedBy(mem') = VerifiedBy(mem) \union {mem.target}
  <2>1. Promise!Verify
    BY <1>4, PromisedBy DEF Promise!Verify
  <2>. QED  BY <2>1 DEF PromisedStep, Promise!Next
<1>5. CASE PhaseOf(mem') = "open" /\ VerifiedBy(mem') = VerifiedBy(mem)
  BY <1>5, AlikeStep DEF Alike
<1>. QED  BY <1>1, <1>2, <1>3, <1>4, <1>5

\* An outcome verifies the present targets or nothing, and completes the parent
\* only when it verified them (record_parent_worker_outcome).
LEMMA RecordOutcomePromised ==
    ASSUME NEW a \in Attempts
    PROVE  IInv /\ RecordOutcome(a) => PromisedStep /\ mem'.sequence = mem.sequence
<1> SUFFICES ASSUME IInv, RecordOutcome(a)
             PROVE  PromisedStep /\ mem'.sequence = mem.sequence
  OBVIOUS
<1>1. PICK o \in Outcomes :
          /\ CanReport(o, a)
          /\ \/ mem' = WithFinished(a, o)
             \/ \E c \in Decided(a, o) : Write(c)
  BY Zenon DEF RecordOutcome, Note
<1> DEFINE d == WithFinished(a, o)
<1>2. /\ mem \in Controller
      /\ IsRunning(mem, a) /\ (harness[a] = "none" \/ mem.attempts[a].conversation)
  BY DEF IInv, TypeOK, RecordOutcome
<1>3. /\ d \in Controller /\ d.state \in {"Integrating", "Fixing"} /\ d.state = mem.state
      /\ d.target = mem.target /\ d.sequence = mem.sequence
      /\ \A b \in Attempts \ {a} : d.attempts[b] = mem.attempts[b]
      /\ a \in Started(d)
      /\ mem.attempts[a].status # "Passed"
      /\ d.attempts[a].status = "Passed" => d.attempts[a].verified = d.target
  BY <1>1, <1>2, FinishedSound
<1>4. \A c \in Decided(a, o) :
          /\ c.attempts = d.attempts /\ c.sequence = d.sequence /\ c.target = d.target
          /\ c.state = "Completed" => d.attempts[a].status = "Passed"
  BY <1>1, <1>2, DecidedResult
<1> HIDE DEF d
<1>5. /\ VerifiedBy(d) \in {VerifiedBy(mem), VerifiedBy(mem) \union {mem.target}}
      /\ d.attempts[a].status = "Passed" => mem.target \in VerifiedBy(d)
  <2>1. Started(d) = Started(mem) /\ Started(mem) \subseteq Attempts
    BY <1>2, <1>3, StartedAttempts DEF Started
  <2>2. /\ a \notin PassedIn(mem)
        /\ \A b \in PassedIn(mem) : mem.attempts[b] = d.attempts[b]
    BY <1>3, <2>1 DEF PassedIn
  <2>3. CASE d.attempts[a].status = "Passed"
    <3>1. PassedIn(d) = PassedIn(mem) \union {a}
      BY <1>3, <2>1, <2>3 DEF PassedIn
    <3>2. VerifiedBy(d) = VerifiedBy(mem) \union {d.attempts[a].verified}
      BY <2>2, <3>1 DEF VerifiedBy
    <3>. QED  BY <1>3, <2>3, <3>2
  <2>4. CASE d.attempts[a].status # "Passed"
    <3>1. PassedIn(d) = PassedIn(mem)
      BY <1>3, <2>1, <2>4 DEF PassedIn
    <3>2. VerifiedBy(d) = VerifiedBy(mem)
      BY <2>2, <3>1 DEF VerifiedBy
    <3>. QED  BY <2>4, <3>2
  <2>. QED  BY <2>3, <2>4
<1>6. PhaseOf(mem) = "open"
  BY <1>3 DEF PhaseOf
<1>7. CASE mem' = d
  <2>1. PhaseOf(mem') = "open"
    BY <1>3, <1>7 DEF PhaseOf
  <2>2. PromisedStep
    BY <1>3, <1>5, <1>6, <1>7, <2>1, DecisionStep
  <2>. QED  BY <1>3, <1>7, <2>2
<1>8. ASSUME NEW c \in Decided(a, o), Write(c)
      PROVE  PromisedStep /\ mem'.sequence = mem.sequence
  <2>1. VerifiedBy(c) = VerifiedBy(d)
    BY <1>4 DEF VerifiedBy, PassedIn, Started
  <2>2. CASE mem' = c
    <3>1. PhaseOf(mem') = "completed" => mem.target \in VerifiedBy(mem')
      BY <1>4, <1>5, <2>1, <2>2 DEF PhaseOf
    <3>2. PromisedStep
      BY <1>3, <1>4, <1>5, <1>6, <2>1, <2>2, <3>1, DecisionStep
    <3>. QED  BY <1>3, <1>4, <2>2, <3>2
  <2>3. CASE mem' = mem
    BY <2>3, AlikeStep DEF Alike
  <2>. QED  BY <1>8, <2>2, <2>3 DEF Write
<1>. QED  BY <1>1, <1>7, <1>8 DEF d

\* A release completes the parent on an earlier pass of its targets or cancels it.
LEMMA ReleaseIssuePromised ==
    IInv /\ ReleaseIssue => PromisedStep /\ mem'.sequence = mem.sequence
<1> SUFFICES ASSUME IInv, ReleaseIssue
             PROVE  PromisedStep /\ mem'.sequence = mem.sequence
  OBVIOUS
<1>1. PICK category \in Categories \ {"Active"} :
          mem' = mem \/ \E c \in Released(mem, category) : Write(c)
  BY Zenon DEF ReleaseIssue, Note
<1>2. /\ mem \in Controller
      /\ \A b \in Attempts : IsRunning(mem, b) => mem.state \in {"Integrating", "Fixing"}
  BY DEF IInv, TypeOK, Sound
<1>3. CASE mem' = mem
  BY <1>3, AlikeStep DEF Alike
<1>4. ASSUME NEW c \in Released(mem, category), mem' = c
      PROVE  PromisedStep /\ mem'.sequence = mem.sequence
  <2>1. /\ ~Terminal(mem)
        /\ c.sequence = mem.sequence /\ c.target = mem.target
        /\ \A b \in Attempts \ Current(mem) : c.attempts[b] = mem.attempts[b]
        /\ \A b \in Current(mem) : c.attempts[b].status = "Canceled"
        /\ \/ c.state = "Canceled"
           \/ /\ c.state = "Completed"
              /\ \E a \in Started(mem) :
                    mem.attempts[a].status = "Passed" /\ mem.attempts[a].verified = mem.target
    BY <1>2, ReleasedResult
  <2>2. Started(c) = Started(mem) /\ Started(mem) \subseteq Attempts
    BY <1>2, <2>1, StartedAttempts DEF Started
  <2>3. /\ PassedIn(c) = PassedIn(mem)
        /\ \A b \in PassedIn(mem) : c.attempts[b] = mem.attempts[b]
    BY <2>1, <2>2 DEF PassedIn, Current, IsRunning
  <2>4. VerifiedBy(c) = VerifiedBy(mem)
    BY <2>3 DEF VerifiedBy
  <2>5. PhaseOf(mem) = "open"
    BY <2>1 DEF PhaseOf, Terminal
  <2>6. PhaseOf(c) = "completed" => mem.target \in VerifiedBy(c)
    BY <2>1, <2>4 DEF PhaseOf, VerifiedBy, PassedIn
  <2>7. PromisedStep
    BY <1>4, <2>1, <2>4, <2>5, <2>6, DecisionStep
  <2>. QED  BY <1>4, <2>1, <2>7
<1>. QED  BY <1>1, <1>3, <1>4 DEF Write

\* A restart decides nothing: what was written agrees with what was known.
LEMMA RestartPromised == IInv /\ Restart => PromisedStep /\ mem'.sequence = mem.sequence
<1> SUFFICES ASSUME IInv, Restart
             PROVE  PromisedStep /\ mem'.sequence = mem.sequence
  OBVIOUS
<1>1. PICK m \in {"running", "terminal", "none"} : mem' = Restarted(disk, m)
  BY DEF Restart, Manifests
<1>2. disk \in Controller /\ mem \in Controller /\ SameDecisions(mem, disk)
  BY DEF IInv, TypeOK
<1> DEFINE d == Restarted(disk, m)
<1>3. /\ d.state = disk.state \/ (disk.state = "Integrating" /\ d.state = "Refreshing")
      /\ d.target = disk.target /\ d.sequence = disk.sequence
      /\ \A b \in Attempts : IsRunning(disk, b) =>
            \/ d.attempts[b] = disk.attempts[b]
            \/ d.attempts[b] = Interrupted(disk.attempts[b], m)
      /\ \A b \in Attempts : ~IsRunning(disk, b) => d.attempts[b] = disk.attempts[b]
  BY <1>2, RestartedResult
<1>4. \A b \in Attempts : Interrupted(disk.attempts[b], m).status = "Indeterminate"
  BY <1>2, InterruptedResult DEF Controller
<1> HIDE DEF d
<1>5. /\ Started(d) = Started(disk) /\ Started(disk) \subseteq Attempts
      /\ Started(mem) = Started(disk)
  BY <1>2, <1>3, StartedAttempts DEF Started, SameDecisions
<1>6. /\ PassedIn(d) = PassedIn(disk)
      /\ \A b \in PassedIn(disk) : d.attempts[b] = disk.attempts[b]
  BY <1>3, <1>4, <1>5 DEF PassedIn, IsRunning
<1>7. /\ PassedIn(mem) = PassedIn(disk)
      /\ \A b \in PassedIn(mem) : mem.attempts[b].verified = disk.attempts[b].verified
  BY <1>2, <1>5 DEF PassedIn, SameDecisions
<1>8. Alike(mem, d)
  BY <1>2, <1>3, <1>6, <1>7, AlikeResult DEF PhaseOf, SameDecisions
<1>9. mem' = d
  BY <1>1 DEF d
<1>10. PromisedStep
  BY <1>8, <1>9, AlikeStep
<1>. QED  BY <1>2, <1>3, <1>9, <1>10 DEF SameDecisions

\* What the remaining actions do is invisible.
LEMMA QuietPromised ==
    mem' = mem => PromisedStep /\ mem'.sequence = mem.sequence
BY AlikeStep DEF Alike

\* Every step is a step of the promise, and only AnnounceAttempt counts a turn.
LEMMA StepPromised ==
    ASSUME IInv, [Next]_vars
    PROVE  PromisedStep /\ (mem'.sequence = mem.sequence \/ AnnounceAttempt)
<1>1. CASE PrepareWorkspace
  BY <1>1, PrepareWorkspacePromised
<1>2. CASE AnnounceAttempt
  BY <1>2, AnnounceAttemptPromised
<1>3. CASE \E a \in Attempts : AttachConversation(a)
  BY <1>3, AttachConversationPromised
<1>4. CASE \E a \in Attempts : ObserveCommand(a)
  BY <1>4, ObserveCommandPromised
<1>5. CASE \E a \in Attempts : RecordOutcome(a)
  BY <1>5, RecordOutcomePromised
<1>6. CASE RepairMerged
  BY <1>6, RepairMergedPromised
<1>7. CASE RepairReturned
  BY <1>7, RepairReturnedPromised
<1>8. CASE ReleaseIssue
  BY <1>8, ReleaseIssuePromised
<1>9. CASE Restart
  BY <1>9, RestartPromised
<1>10. CASE \/ \E a \in Attempts : StartHarness(a)
            \/ Flush
            \/ \E a \in Attempts : FinishWithoutAttempt(a)
            \/ \E a \in Attempts : HarnessEnds(a)
            \/ UNCHANGED vars
  BY <1>10, QuietPromised DEF StartHarness, Flush, FinishWithoutAttempt, HarnessEnds, vars
<1>. QED
  BY <1>1, <1>2, <1>3, <1>4, <1>5, <1>6, <1>7, <1>8, <1>9, <1>10 DEF Next

\* The controller implements VerifiedParent: it completes only on targets one of
\* its attempts has verified, and a crash never takes a decision back.
THEOREM Implements == Spec => KeepsPromise
<1>1. Init => Promise!Init
  <2> SUFFICES ASSUME Init PROVE Promise!Init
    OBVIOUS
  <2>1. 1 \in Targets /\ mem.target = 1 /\ mem.state = "Preparing" /\ mem.sequence = 0
    BY BoundsAssumption DEF Init, Targets
  <2>2. VerifiedTargets = {}
    BY <2>1 DEF VerifiedTargets, Started
  <2>. QED  BY <2>1, <2>2 DEF Promise!Init, Phase
<1>2. IInv /\ [Next]_vars => [Promise!Next]_(Promise!vars)
  BY StepPromised DEF PromisedStep
<1>. QED  BY AttemptsInvariant, <1>1, <1>2, PTL DEF Spec, KeepsPromise, Promise!Spec

\* A verification turn starts only when no attached harness can be running.
THEOREM VerificationAlone == Spec => VerificationStartsAlone
<1>1. ASSUME IInv, [Next]_vars, mem'.sequence > mem.sequence, mem.state = "Integrating",
             NEW a \in Attempts, harness[a] = "live"
      PROVE  ~mem.attempts[a].conversation
  <2>1. mem.sequence \in Nat
    BY <1>1 DEF IInv, TypeOK, Controller
  <2>2. AnnounceAttempt
    BY <1>1, <2>1, StepPromised
  <2>3. ~HasUnreconciledHarness(mem)
    BY <1>1, <2>2 DEF AnnounceAttempt
  <2>. QED  BY <1>1, <2>3 DEF HasUnreconciledHarness, IInv, Sound
<1>2. IInv /\ [Next]_vars =>
        [mem'.sequence > mem.sequence /\ mem.state = "Integrating" =>
            \A a \in Attempts : harness[a] = "live" => ~mem.attempts[a].conversation]_vars
  BY <1>1
<1>. QED  BY AttemptsInvariant, <1>2, PTL DEF Spec, VerificationStartsAlone

=============================================================================
