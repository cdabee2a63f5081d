-------------------------- MODULE AcpSessionProofs --------------------------
(***************************************************************************)
(* Theorems about AcpSession, for every number of runs, claims and grants  *)
(* and for every choice of the failures.                                   *)
(***************************************************************************)
EXTENDS AcpSession, TLAPS

Steps == {"idle", "starting", "rotating", "retiring", "archiving", "recording", "opening",
          "opened", "ready", "prompting", "observing", "concluding"}
Early == {"starting", "rotating", "retiring", "archiving", "recording", "opening"}
Late  == {"ready", "prompting", "observing", "concluding"}

Results == {None, "Err", "end_turn", "refusal", "cancelled", "cancelled_before_prompt"}
Statuses == {"Ready", "Submitted", "Finished", "Uncertain"}
Processes == {"LaunchPending", "Running", "Stopped"}
StopReasons == Results \ {"Err"}

Workers ==
    [pc: Steps, run: Runs \cup {None}, grant: Grants \cup {None}, recovered: BOOLEAN,
     full: BOOLEAN, owner: Owners \cup {None}, session: Owners \cup {None},
     started: BOOLEAN, cancelled: BOOLEAN, res: Results]

\* The owner has not yet set up the session.
Starting == {"claimed", "spawned", "setup"}
Serves   == {"serving", "preparing", "submitted", "prompting"}

Sent(r) == sent[r] > 0

-----------------------------------------------------------------------------
(* The inductive invariant, in parts. *)

(* What a worker holds once it has got somewhere, and whose numbers were given out. *)
WorkerOK ==
    /\ w \in Workers
    /\ w.pc # "idle" => w.run \in 1..runs /\ w.grant \in Grants
    /\ w.pc \in {"opened", "ready", "prompting", "observing"} => w.owner \in Owners
    /\ w.pc = "rotating" => disk # None
    /\ claims \in 0..MaxClaims /\ runs \in 0..MaxRuns
    /\ pc # "none" => mem.owner \in 1..claims
    /\ pc \in {"serving", "preparing", "submitted", "prompting"} => mem.session \in Owners
    /\ file.run # None => file.run \in 1..runs
    /\ disk # None \/ pc # "none" => file.run # None
    /\ pend # None => pend.run \in 1..runs
    /\ stop # None => stop.run \in 1..runs
    /\ boot => w.pc = "idle" /\ pc = "none" /\ stop = None

(* An agent that may be alive is the present owner's, and known to the record as one  *)
(* that has not stopped.                                                              *)
AgentInv ==
    /\ pc # "none" => \A o \in up : o = mem.owner /\ mem.process # "Stopped"
    /\ pc = "claimed" => up = {} /\ disk = mem /\ mem.process = "LaunchPending"
    /\ \A o \in up : disk # None /\ disk.owner = o /\ disk.process # "Stopped"
    /\ pc = "closing" /\ clean => up = {}
    /\ w.pc = "archiving" => pc = "none" /\ up = {}

(* Only the runs that were started have sent their prompt, and that once; a run that   *)
(* may still send its prompt has not sent it.                                         *)
RunInv ==
    /\ \A r \in Runs : sent[r] <= 1 /\ (Sent(r) => r <= runs)
    /\ \A r \in answered : Sent(r)
    /\ w.pc \in Early => IF w.recovered THEN w.run = file.run ELSE sent[w.run] = 0
    /\ w.pc \in Early /\ w.recovered /\ Sent(w.run) => disk # None
    /\ w.pc \in {"opening", "opened", "ready"} => w.run = file.run
    /\ w.pc \in {"rotating", "retiring", "archiving", "opened", "ready"} => sent[w.run] = 0
    /\ w.pc = "archiving" => Unsettled = {}
    /\ pend # None /\ w.pc \in Early \cup {"opened", "ready"} => pend.run # w.run

(* The owner's prompt is the present run's, or that of an earlier one while the present *)
(* run has sent none; it is on record before it is sent.                              *)
PendInv ==
    /\ pend # None => pend.run = file.run \/ (file.run # None /\ sent[file.run] = 0)
    /\ pc \in {"preparing", "submitted"} => sent[pend.run] = 0
    /\ pc = "prompting" => Sent(pend.run)
    /\ pc \in {"submitted", "prompting"} =>
         disk = mem /\ mem.run = pend.run /\ mem.status = "Submitted"
    /\ pc \in Starting \cup {"serving", "preparing"} => ~Fenced(mem)
    /\ pc \in Starting => file.run # None /\ sent[file.run] = 0

(* A run that has sent its prompt stays on record until another run is recorded, and a *)
(* prompt that is not answered fences the record.                                     *)
FenceInv ==
    /\ file.run # None /\ Sent(file.run) =>
         /\ disk # None => disk.run = file.run /\ disk.status # "Ready"
         /\ pc # "none" => mem.run = file.run /\ mem.status # "Ready"
    /\ \A r \in Unsettled :
         /\ disk # None /\ disk.run = r /\ Fenced(disk)
         /\ pc # "none" => mem.run = r /\ Fenced(mem)

(* A record that counts as seeded names a session that was given the full prompt, and *)
(* what goes out without it was decided upon such a record.                           *)
ContextInv ==
    /\ disk # None /\ disk.seeded => disk.session \in ctx
    /\ pc # "none" /\ mem.seeded => mem.session \in ctx
    /\ pend # None /\ ~pend.full => mem.seeded
    /\ w.pc = "ready" /\ Mine /\ ~w.full => mem.seeded
    /\ w.pc = "ready" => pc \notin Starting
    /\ pc = "prompting" => mem.session \in ctx

(* What a parent is, or may yet be, bound to is on record and held by the owner.      *)
ParentInv ==
    /\ parent /\ bound # None =>
         disk # None /\ disk.session = bound /\ (pc # "none" => mem.session = bound)
    /\ pc \in Serves => disk # None /\ disk.session = mem.session
    /\ w.pc \in Early \cup {"opened"} => w.session = None
    /\ parent /\ w.pc \in Late /\ w.session # None =>
         /\ disk # None /\ disk.session = w.session
         /\ pc # "none" => mem.session = w.session /\ pc \notin Starting

(* What an agent works on was sent and is not answered.                               *)
TaskInv ==
    /\ \A o \in up : task[o] # None => task[o] \in Unsettled
    /\ \A o \in Owners : o > claims => task[o] = None
    /\ pc = "claimed" => task[mem.owner] = None

(* A run reported as stopped has no prompt out, nor will its prompt go out: it was     *)
(* cancelled before the owner sent it.                                                *)
QuietInv ==
    /\ \A r \in quiet : r \in 1..runs /\ r \notin Unsettled
    /\ pc \in {"preparing", "submitted"} /\ ~pend.cancelled =>
         /\ pend.run \notin quiet
         /\ stop # None => stop.run # pend.run
         /\ w.run = pend.run => w.pc \notin {"observing", "concluding"}
         /\ w.run = pend.run /\ w.pc = "prompting" => ~w.cancelled
    /\ w.pc \in Early \cup {"opened"} => w.run \notin quiet /\ ~w.cancelled
    /\ w.pc = "ready" /\ w.run \in quiet => w.cancelled
    /\ stop # None /\ w.pc # "idle" /\ w.run = stop.run => w.cancelled

(* What the worker has heard, or finds on record, of the outcome is true.             *)
OutcomeInv ==
    /\ won \subseteq answered
    /\ w.pc \in {"observing", "concluding"} /\ w.res = "end_turn" => w.run \in answered
    /\ w.pc \in {"observing", "concluding"} /\ w.res # "Err" => w.run \notin Unsettled
    /\ disk # None /\ disk.status = "Finished" /\ disk.stop # "cancelled_before_prompt" =>
         disk.run \in answered
    /\ pc # "none" /\ mem.status = "Finished" /\ mem.stop # "cancelled_before_prompt" =>
         mem.run \in answered

\* All of it.
IInv ==
    /\ TypeOK /\ WorkerOK /\ AgentInv /\ RunInv /\ PendInv /\ FenceInv
    /\ ContextInv /\ ParentInv /\ TaskInv /\ QuietInv /\ OutcomeInv

-----------------------------------------------------------------------------
(* What a step leaves alone, and where it takes the worker. *)

SameRecord == disk' = disk /\ file' = file /\ bound' = bound /\ parent' = parent
SameRest   == file' = file /\ bound' = bound /\ parent' = parent
SameOwner  == pc' = pc /\ mem' = mem /\ pend' = pend /\ watched' = watched /\ clean' = clean
SameAgent  == up' = up /\ task' = task /\ ctx' = ctx /\ sent' = sent /\ answered' = answered
SameReport == won' = won /\ quiet' = quiet
SameCount  == claims' = claims /\ runs' = runs
SameAside  == stop' = stop /\ boot' = boot

Goes(p, o, r) ==
    /\ w' \in Workers
    /\ w'.pc = p /\ w'.owner = o /\ w'.res = r
    /\ w'.run = w.run /\ w'.grant = w.grant /\ w'.recovered = w.recovered
    /\ w'.full = w.full /\ w'.session = w.session /\ w'.started = w.started
    /\ w'.cancelled = w.cancelled

\* Only the worker moves.
OnlyWorker == SameRecord /\ SameOwner /\ SameAside /\ SameAgent /\ SameReport /\ SameCount
Aside      == SameAside /\ SameAgent /\ SameReport /\ SameCount

\* The worker hears of the end of its prompt, if it is its prompt.
Hears(r) ==
    \/ w' = w
    \/ w.pc = "prompting" /\ w.run = pend.run /\ Goes("observing", w.owner, r)

\* What the record says of the session.
Keeps(m, n) == n.session = m.session /\ n.seeded = m.seeded /\ n.stop = m.stop

\* The prompt is cancelled if it is the run's.
Cancels(r) ==
    \/ pend' = pend /\ (pend # None => pend.run # r)
    \/ /\ pend # None /\ pend.run = r /\ pend' \in Prompts
       /\ pend'.run = r /\ pend'.full = pend.full /\ pend'.cancelled

\* The record with another run, status and process.
Becomes(m, n, r, s, p) ==
    /\ n \in Records
    /\ n.run = r /\ n.status = s /\ n.process = p
    /\ n.owner = m.owner /\ n.grant = m.grant

\* What becomes of the claim of the record.
Refused == disk' = disk /\ SameOwner /\ claims' = claims /\ Goes("concluding", w.owner, "Err")

Takes(m, c) ==
    /\ m = (IF disk = None THEN NewRecord(w.grant) ELSE disk)
    /\ ClaimOk(m, w.run, w.grant) /\ c = Claimed(m, w.run, w.grant, claims + 1)
    /\ claims' = claims + 1 /\ pend' = None /\ clean' = TRUE /\ watched' = FALSE
    /\ \/ mem' = c /\ disk' = c /\ pc' = "claimed" /\ Goes("opened", claims + 1, w.res)
       \/ /\ disk' \in {disk, c} /\ mem' = None /\ pc' = "none"
          /\ Goes("concluding", w.owner, "Err")

\* Setting the position, result or owner of a worker changes nothing else of it.
LEMMA WorkerMoves ==
    ASSUME w \in Workers, NEW p \in Steps, NEW o \in Owners \cup {None}, NEW r \in Results
    PROVE  /\ w' = [w EXCEPT !.pc = p] => Goes(p, w.owner, w.res)
           /\ w' = [w EXCEPT !.pc = p, !.res = r] => Goes(p, w.owner, r)
           /\ w' = [w EXCEPT !.pc = p, !.owner = o] => Goes(p, o, w.res)
<1>1. ASSUME w' = [w EXCEPT !.pc = p] PROVE Goes(p, w.owner, w.res)
  BY <1>1 DEF Workers, Goes
<1>2. ASSUME w' = [w EXCEPT !.pc = p, !.res = r] PROVE Goes(p, w.owner, r)
  BY <1>2 DEF Workers, Goes
<1>3. ASSUME w' = [w EXCEPT !.pc = p, !.owner = o] PROVE Goes(p, o, w.res)
  BY <1>3 DEF Workers, Goes
<1>. QED  BY <1>1, <1>2, <1>3

\* The worker that is not there (no run_issue task) holds nothing.
LEMMA NoWorkerIs ==
    /\ NoWorker \in Workers
    /\ NoWorker.pc = "idle" /\ NoWorker.run = None /\ NoWorker.owner = None
    /\ NoWorker.session = None /\ ~NoWorker.cancelled /\ NoWorker.res = None
BY DEF NoWorker, Workers, Steps, Results

\* A claim keeps the session and, for the same run, the status and the stop reason
\* (Durability::claim); it never changes a fenced record.
LEMMA ClaimedIs ==
    ASSUME NEW m \in Records, NEW r \in Runs, NEW g \in Grants, NEW o \in Owners
    PROVE  LET c == Claimed(m, r, g, o) IN
           /\ c \in Records /\ c.run = r /\ c.owner = o /\ c.grant = g
           /\ c.process = "LaunchPending" /\ c.session = m.session /\ c.seeded = m.seeded
           /\ IF m.run = r THEN c.status = m.status /\ c.stop = m.stop
                           ELSE c.status = "Ready" /\ c.stop = None
<1>1. CASE m.run = r
  BY <1>1 DEF Claimed, Records
<1>2. CASE m.run # r
  BY <1>2 DEF Claimed, Records
<1>. QED  BY <1>1, <1>2

\* A record that was never claimed names no run, owner or session.
LEMMA NewRecordIs ==
    ASSUME NEW g \in Grants
    PROVE  LET m == NewRecord(g) IN
           /\ m \in Records /\ m.run = None /\ m.status = "Ready" /\ m.process = "Stopped"
           /\ m.session = None /\ ~m.seeded /\ m.owner = None
BY DEF NewRecord, Records

\* What the record says once the session is created or restored.
LEMMA ReadyIs ==
    ASSUME NEW m \in Records, NEW s \in Owners \cup {None}, NEW fresh \in BOOLEAN
    PROVE  LET n == Ready(m, s, fresh) IN
           /\ Becomes(m, n, m.run, "Ready", m.process)
           /\ n.session = s /\ n.seeded = (m.seeded /\ ~fresh) /\ n.stop = None
BY DEF Ready, Records, Becomes

\* The submitted marker names the run of the prompt and forgets the last stop reason.
LEMMA SubmittedIs ==
    ASSUME NEW m \in Records, NEW r \in Runs
    PROVE  LET n == Submitted(m, r) IN
           /\ Becomes(m, n, r, "Submitted", m.process)
           /\ n.session = m.session /\ n.seeded = m.seeded /\ n.stop = None
BY DEF Submitted, Records, Becomes

\* A response is recorded with its stop reason; only a prompt that went out seeds.
LEMMA FinishedIs ==
    ASSUME NEW m \in Records, NEW reason \in StopReasons
    PROVE  LET n == Finished(m, reason) IN
           /\ Becomes(m, n, m.run, "Finished", m.process)
           /\ n.session = m.session /\ n.stop = reason
           /\ n.seeded = (m.seeded \/ reason # "cancelled_before_prompt")
BY DEF Finished, Records, Becomes, StopReasons, Results

\* A prompt whose outcome is unknown changes nothing but the status.
LEMMA UncertainIs ==
    ASSUME NEW m \in Records
    PROVE  LET n == Uncertain(m) IN
           /\ Becomes(m, n, m.run, "Uncertain", m.process)
           /\ n.session = m.session /\ n.seeded = m.seeded /\ n.stop = m.stop
BY DEF Uncertain, Records, Becomes

\* Recording the process changes nothing else.
LEMMA ProcessIs ==
    ASSUME NEW m \in Records, NEW p \in Processes
    PROVE  LET n == [m EXCEPT !.process = p] IN
           /\ Becomes(m, n, m.run, m.status, p)
           /\ n.session = m.session /\ n.seeded = m.seeded /\ n.stop = m.stop
BY DEF Records, Becomes, Processes

\* The reply to a prompt reaches the worker that waits for it and no other.
LEMMA RepliedIs ==
    ASSUME w \in Workers, NEW r \in Results, Replied(r)
    PROVE  Hears(r)
<1>1. \/ w' = w
      \/ w.pc = "prompting" /\ w.run = pend.run /\ w' = [w EXCEPT !.pc = "observing", !.res = r]
  BY DEF Replied
<1>2. w.owner \in Owners \cup {None} /\ "observing" \in Steps
  BY DEF Workers, Steps
<1>3. CASE w' = w
  BY <1>3 DEF Hears
<1>4. CASE /\ w.pc = "prompting" /\ w.run = pend.run
           /\ w' = [w EXCEPT !.pc = "observing", !.res = r]
  <2>1. Goes("observing", w.owner, r)
    BY <1>2, <1>4, WorkerMoves
  <2>. QED  BY <1>4, <2>1 DEF Hears
<1>. QED  BY <1>1, <1>3, <1>4

\* Cancelling marks the prompt of the run and no other.
LEMMA CancelPendIs ==
    ASSUME pend \in {None} \cup Prompts, NEW r \in Runs, pend' = CancelPend(r)
    PROVE  Cancels(r)
BY DEF CancelPend, Cancels, Prompts

-----------------------------------------------------------------------------
(* What each action does, field by field. *)

\* A new run takes the next number; a restart may go on with the recorded one.
LEMMA StartAttemptDoes ==
    ASSUME TypeOK, WorkerOK, StartAttempt
    PROVE  /\ w.pc = "idle" /\ SameRecord /\ SameOwner /\ SameAgent
           /\ stop' = stop /\ boot' = FALSE /\ won' = won /\ claims' = claims
           /\ w' \in Workers /\ w'.pc = "starting" /\ ~w'.cancelled
           /\ w'.owner = None /\ w'.session = None /\ w'.res = None /\ w'.grant \in Grants
           /\ \/ /\ w'.recovered /\ boot /\ disk # None
                 /\ w'.run = file.run /\ runs' = runs
              \/ /\ ~w'.recovered /\ w'.run = runs + 1 /\ runs' = runs + 1
                 /\ runs < MaxRuns
           /\ quiet' = quiet \ {w'.run}
<1>1. PICK g \in Grants, recovered \in BOOLEAN :
        /\ IF recovered THEN boot /\ Attachable ELSE runs < MaxRuns
        /\ w' = [NoWorker EXCEPT !.pc = "starting", !.grant = g, !.recovered = recovered,
                                 !.run = IF recovered THEN file.run ELSE runs + 1]
        /\ runs' = IF recovered THEN runs ELSE runs + 1
        /\ quiet' = quiet \ {w'.run}
  BY DEF StartAttempt
<1>2. (IF recovered THEN file.run ELSE runs + 1) \in Runs \cup {None}
  BY <1>1, AcpAssumption DEF TypeOK, WorkerOK, Runs
<1>3. /\ w' \in Workers /\ w'.pc = "starting" /\ ~w'.cancelled
      /\ w'.owner = None /\ w'.session = None /\ w'.res = None /\ w'.grant = g
      /\ w'.recovered = recovered /\ w'.run = IF recovered THEN file.run ELSE runs + 1
  BY <1>1, <1>2 DEF NoWorker, Workers, Steps, Results
<1>4. /\ w.pc = "idle" /\ SameRecord /\ SameOwner /\ SameAgent
      /\ stop' = stop /\ boot' = FALSE /\ won' = won /\ claims' = claims
  BY DEF StartAttempt, SameRecord, SameOwner, SameAgent, record, owner, agent
<1>. QED  BY <1>1, <1>3, <1>4 DEF Attachable

\* A changed identity leads to a rotation, unless the record settles the run.
LEMMA PrepareDoes ==
    ASSUME TypeOK, WorkerOK, Prepare
    PROVE  /\ OnlyWorker /\ w.pc = "starting"
           /\ \/ w' = NoWorker
              \/ Goes("recording", w.owner, w.res)
              \/ Goes("rotating", w.owner, w.res) /\ disk # None /\ ~Reconciles
<1>1. OnlyWorker /\ w.pc = "starting"
  BY DEF Prepare, OnlyWorker, SameRecord, SameOwner, SameAside, SameAgent, SameReport,
         SameCount, record, owner, agent, report, count
<1>2. \/ w' = NoWorker
      \/ w' = [w EXCEPT !.pc = "recording"]
      \/ w' = [w EXCEPT !.pc = "rotating"] /\ disk # None /\ ~Reconciles
  BY Zenon DEF Prepare, LaunchFails
<1>3. w \in Workers /\ w.owner \in Owners \cup {None} /\ w.res \in Results
      /\ "recording" \in Steps /\ "rotating" \in Steps
  BY DEF WorkerOK, Workers, Steps
<1>. QED  BY <1>1, <1>2, <1>3, WorkerMoves

\* Only an idle, unwatched owner is asked to stop.
LEMMA RetireLiveDoes ==
    ASSUME TypeOK, WorkerOK, RetireLive
    PROVE  /\ w.pc = "rotating" /\ pc # "none" /\ SameRecord /\ Aside
           /\ mem' = mem /\ pend' = pend /\ watched' = watched /\ clean' = clean
           /\ \/ pc = "serving" /\ pc' = "ending" /\ Goes("retiring", mem.owner, w.res)
              \/ pc' = pc /\ w' = NoWorker
<1>1. /\ w.pc = "rotating" /\ pc # "none" /\ SameRecord /\ Aside
      /\ mem' = mem /\ pend' = pend /\ watched' = watched /\ clean' = clean
  BY DEF RetireLive, Aside, SameRecord, SameAside, SameAgent, SameReport, SameCount,
         record, agent, report, count
<1>2. \/ pc = "serving" /\ pc' = "ending" /\ w' = [w EXCEPT !.pc = "retiring", !.owner = mem.owner]
      \/ pc' = pc /\ w' = NoWorker
  BY DEF RetireLive, LaunchFails
<1>3. w \in Workers /\ mem.owner \in Owners \cup {None} /\ w.res \in Results /\ "retiring" \in Steps
  BY <1>1 DEF TypeOK, WorkerOK, Workers, Steps, Records
<1>. QED  BY <1>1, <1>2, <1>3, WorkerMoves

\* Only a settled record without a process is retired.
LEMMA RetirePersistedDoes ==
    ASSUME TypeOK, WorkerOK, RetirePersisted
    PROVE  /\ w.pc = "rotating" /\ pc = "none" /\ SameRest /\ SameOwner /\ Aside
           /\ disk \in Records
           /\ \/ disk' = disk /\ w' = NoWorker
              \/ /\ ~Fenced(disk) /\ ProcessAbsent(disk)
                 /\ Becomes(disk, disk', disk.run, disk.status, "Stopped") /\ Keeps(disk, disk')
                 /\ w' = NoWorker \/ Goes("archiving", w.owner, w.res)
<1>1. w.pc = "rotating" /\ pc = "none" /\ SameRest /\ SameOwner /\ Aside
  BY DEF RetirePersisted, Aside, SameRest, SameOwner, SameAside, SameAgent, SameReport,
         SameCount, owner, agent, report, count
<1>2. disk \in Records
  BY <1>1 DEF TypeOK, WorkerOK
<1> DEFINE m == [disk EXCEPT !.process = "Stopped"]
<1>3. Becomes(disk, m, disk.run, disk.status, "Stopped") /\ Keeps(disk, m)
  BY <1>2, ProcessIs DEF Processes, Keeps
<1>4. \/ disk' = disk /\ w' = NoWorker
      \/ /\ ~Fenced(disk) /\ ProcessAbsent(disk) /\ disk' = m
         /\ w' = NoWorker \/ w' = [w EXCEPT !.pc = "archiving"]
  BY DEF RetirePersisted, LaunchFails
<1>5. w \in Workers /\ w.owner \in Owners \cup {None} /\ w.res \in Results /\ "archiving" \in Steps
  BY DEF WorkerOK, Workers, Steps
<1> HIDE DEF m
<1>. QED  BY <1>1, <1>2, <1>3, <1>4, <1>5, WorkerMoves

\* Only a parent keeps its record.
LEMMA ArchiveDoes ==
    ASSUME TypeOK, WorkerOK, Archive
    PROVE  /\ w.pc = "archiving" /\ SameRest /\ SameOwner /\ Aside
           /\ disk' = IF parent THEN disk ELSE None
           /\ Goes("recording", None, w.res)
<1>1. /\ w.pc = "archiving" /\ SameRest /\ SameOwner /\ Aside
      /\ disk' = IF parent THEN disk ELSE None
      /\ w' = [w EXCEPT !.pc = "recording", !.owner = None]
  BY DEF Archive, Aside, SameRest, SameOwner, SameAside, SameAgent, SameReport,
         SameCount, owner, agent, report, count
<1>2. w \in Workers /\ w.res \in Results /\ "recording" \in Steps
  BY DEF WorkerOK, Workers, Steps
<1>. QED  BY <1>1, <1>2, WorkerMoves

\* run.json names the new run.
LEMMA StartRunDoes ==
    ASSUME TypeOK, WorkerOK, StartRun
    PROVE  /\ w.pc = "recording" /\ disk' = disk /\ bound' = bound /\ parent' = parent
           /\ SameOwner /\ Aside
           /\ IF w.recovered THEN file' = file
              ELSE file' \in [run: Runs \cup {None}, live: BOOLEAN] /\ file'.run = w.run
           /\ \/ Goes("opening", w.owner, w.res)
              \/ w' = NoWorker /\ ~w.recovered
<1>1. /\ w.pc = "recording" /\ disk' = disk /\ bound' = bound /\ parent' = parent
      /\ SameOwner /\ Aside
  BY DEF StartRun, Aside, SameOwner, SameAside, SameAgent, SameReport, SameCount, owner,
         agent, report, count
<1>2. \/ /\ file' = IF w.recovered THEN file ELSE [run |-> w.run, live |-> TRUE]
         /\ w' = [w EXCEPT !.pc = "opening"]
      \/ /\ ~w.recovered /\ file' = [run |-> w.run, live |-> FALSE]
         /\ w' = NoWorker
  BY Zenon DEF StartRun, LaunchFails
<1>3. w.run \in Runs \cup {None}
  BY DEF WorkerOK, Workers
<1>4. IF w.recovered THEN file' = file
      ELSE file' \in [run: Runs \cup {None}, live: BOOLEAN] /\ file'.run = w.run
  <2>1. CASE w.recovered
    BY <1>2, <2>1
  <2>2. CASE ~w.recovered
    <3>1. PICK b \in BOOLEAN : file' = [run |-> w.run, live |-> b]
      BY <1>2, <2>2
    <3>2. file' \in [run: Runs \cup {None}, live: BOOLEAN] /\ file'.run = w.run
      BY <1>3, <3>1
    <3>. QED  BY <2>2, <3>2
  <2>. QED  BY <2>1, <2>2
<1>5. w \in Workers /\ w.owner \in Owners \cup {None} /\ w.res \in Results /\ "opening" \in Steps
  BY DEF WorkerOK, Workers, Steps
<1>6. w' = [w EXCEPT !.pc = "opening"] => Goes("opening", w.owner, w.res)
  BY <1>5, WorkerMoves
<1>. QED  BY <1>1, <1>2, <1>4, <1>6

\* A recovered run is settled from the record.
LEMMA SettleDoes ==
    ASSUME TypeOK, WorkerOK, Settle
    PROVE  /\ OnlyWorker /\ w.pc = "opening" /\ w.recovered /\ disk # None
           /\ \/ Goes("concluding", w.owner, "Err")
              \/ /\ disk.run = w.run /\ disk.status = "Finished"
                 /\ Goes("concluding", w.owner, disk.stop)
<1>1. OnlyWorker /\ w.pc = "opening" /\ w.recovered /\ disk # None
  BY DEF Settle, OnlyWorker, SameRecord, SameOwner, SameAside, SameAgent, SameReport,
         SameCount, record, owner, agent, report, count
<1>2. \/ w' = [w EXCEPT !.pc = "concluding", !.res = "Err"]
      \/ /\ disk.run = w.run /\ disk.status = "Finished"
         /\ w' = [w EXCEPT !.pc = "concluding", !.res = disk.stop]
  BY DEF Settle, Fails, Reconciles
<1>3. w \in Workers /\ w.owner \in Owners \cup {None} /\ disk.stop \in Results
      /\ "Err" \in Results /\ "concluding" \in Steps
  BY <1>1 DEF TypeOK, WorkerOK, Workers, Steps, Records, Results
<1>. QED  BY <1>1, <1>2, <1>3, WorkerMoves

\* The live owner is borrowed once its session is set up.
LEMMA BorrowDoes ==
    ASSUME TypeOK, WorkerOK, Borrow
    PROVE  /\ OnlyWorker /\ Opens /\ pc # "none"
           /\ \/ Goes("concluding", w.owner, "Err")
              \/ Goes("opened", mem.owner, w.res) /\ pc \notin Starting
<1>1. OnlyWorker /\ Opens /\ pc # "none"
  BY DEF Borrow, OnlyWorker, SameRecord, SameOwner, SameAside, SameAgent, SameReport,
         SameCount, record, owner, agent, report, count
<1>2. \/ w' = [w EXCEPT !.pc = "concluding", !.res = "Err"]
      \/ w' = [w EXCEPT !.pc = "opened", !.owner = mem.owner] /\ pc \notin Starting
  BY DEF Borrow, Fails, Starting
<1>3. /\ w \in Workers /\ w.owner \in Owners \cup {None} /\ mem.owner \in Owners \cup {None}
      /\ "Err" \in Results /\ w.res \in Results /\ "concluding" \in Steps /\ "opened" \in Steps
  BY <1>1 DEF TypeOK, WorkerOK, Workers, Steps, Records, Results
<1>. QED  BY <1>1, <1>2, <1>3, WorkerMoves

\* The record is claimed, or left as it is.
LEMMA ClaimDoes ==
    ASSUME TypeOK, WorkerOK, Claim
    PROVE  /\ Opens /\ pc = "none" /\ claims < MaxClaims
           /\ SameRest /\ SameAside /\ SameAgent /\ SameReport /\ runs' = runs
           /\ Refused \/ \E m, c \in Records : Takes(m, c)
<1>1. /\ Opens /\ pc = "none" /\ claims < MaxClaims
      /\ SameRest /\ SameAside /\ SameAgent /\ SameReport /\ runs' = runs
  BY DEF Claim, SameRest, SameAside, SameAgent, SameReport, agent, report
<1> DEFINE m == IF disk = None THEN NewRecord(w.grant) ELSE disk
           c == Claimed(m, w.run, w.grant, claims + 1)
<1>2. w.pc = "opening"
  BY <1>1 DEF Opens
<1>3. w.run \in Runs /\ w.grant \in Grants /\ claims + 1 \in Owners
  BY <1>1, <1>2, AcpAssumption DEF WorkerOK, Runs, Owners
<1>4. m \in Records
  BY <1>3, NewRecordIs DEF TypeOK
<1>5. c \in Records
  BY <1>3, <1>4, ClaimedIs
<1>6. \/ /\ disk' = disk /\ UNCHANGED owner /\ claims' = claims
         /\ w' = [w EXCEPT !.pc = "concluding", !.res = "Err"]
      \/ /\ ClaimOk(m, w.run, w.grant)
         /\ claims' = claims + 1 /\ pend' = None /\ clean' = TRUE /\ watched' = FALSE
         /\ \/ /\ mem' = c /\ disk' = c /\ pc' = "claimed"
               /\ w' = [w EXCEPT !.pc = "opened", !.owner = claims + 1]
            \/ /\ disk' \in {disk, c} /\ mem' = None /\ pc' = "none"
               /\ w' = [w EXCEPT !.pc = "concluding", !.res = "Err"]
  BY DEF Claim, Fails, Persisted
<1>7. /\ w \in Workers /\ w.owner \in Owners \cup {None} /\ w.res \in Results
      /\ "Err" \in Results /\ "concluding" \in Steps /\ "opened" \in Steps
  BY DEF WorkerOK, Workers, Steps, Results
<1>8. UNCHANGED owner => SameOwner
  BY DEF owner, SameOwner
<1> HIDE DEF m, c
<1>9. /\ w' = [w EXCEPT !.pc = "opened", !.owner = claims + 1] => Goes("opened", claims + 1, w.res)
      /\ w' = [w EXCEPT !.pc = "concluding", !.res = "Err"] => Goes("concluding", w.owner, "Err")
  BY <1>3, <1>7, WorkerMoves
<1>10. /\ m = (IF disk = None THEN NewRecord(w.grant) ELSE disk)
       /\ c = Claimed(m, w.run, w.grant, claims + 1)
  BY DEF m, c
<1>11. Refused \/ Takes(m, c)
  BY <1>6, <1>8, <1>9, <1>10 DEF Refused, Takes
<1>. QED  BY <1>1, <1>4, <1>5, <1>11

\* The snapshot of the handle says which prompt the session needs.
LEMMA InspectDoes ==
    ASSUME TypeOK, WorkerOK, Inspect
    PROVE  /\ OnlyWorker /\ w.pc = "opened"
           /\ \/ Goes("concluding", w.owner, "Err")
              \/ /\ Mine /\ w' \in Workers /\ w'.pc = "ready"
                 /\ w'.run = w.run /\ w'.grant = w.grant /\ w'.recovered = w.recovered
                 /\ w'.owner = w.owner /\ w'.cancelled = w.cancelled /\ w'.res = w.res
                 /\ w'.full = (~mem.seeded) /\ w'.session = mem.session
<1>1. OnlyWorker /\ w.pc = "opened"
  BY DEF Inspect, OnlyWorker, SameRecord, SameOwner, SameAside, SameAgent, SameReport,
         SameCount, record, owner, agent, report, count
<1>2. CASE w' = [w EXCEPT !.pc = "concluding", !.res = "Err"]
  <2>1. /\ w \in Workers /\ w.owner \in Owners \cup {None}
        /\ "Err" \in Results /\ "concluding" \in Steps
    BY DEF WorkerOK, Workers, Steps, Results
  <2>. QED  BY <1>1, <1>2, <2>1, WorkerMoves
<1>3. CASE /\ Mine
           /\ w' = [w EXCEPT !.pc = "ready", !.full = ~mem.seeded, !.session = mem.session,
                             !.started = TRUE]
  <2>1. mem.seeded \in BOOLEAN /\ mem.session \in Owners \cup {None}
    BY <1>3 DEF TypeOK, Mine, Serving, Records
  <2>2. /\ w' \in Workers /\ w'.pc = "ready"
        /\ w'.run = w.run /\ w'.grant = w.grant /\ w'.recovered = w.recovered
        /\ w'.owner = w.owner /\ w'.cancelled = w.cancelled /\ w'.res = w.res
        /\ w'.full = (~mem.seeded) /\ w'.session = mem.session
    <3> DEFINE full == ~mem.seeded
               session == mem.session
    <3>1. /\ w \in Workers /\ "ready" \in Steps
          /\ full \in BOOLEAN /\ session \in Owners \cup {None}
          /\ w' = [w EXCEPT !.pc = "ready", !.full = full, !.session = session, !.started = TRUE]
      BY <1>3, <2>1 DEF WorkerOK, Steps
    <3> HIDE DEF full, session
    <3>2. w' \in Workers
      BY <3>1 DEF Workers
    <3>3. /\ w'.pc = "ready" /\ w'.full = full /\ w'.session = session
          /\ w'.run = w.run /\ w'.grant = w.grant /\ w'.recovered = w.recovered
          /\ w'.owner = w.owner /\ w'.cancelled = w.cancelled /\ w'.res = w.res
      BY <3>1 DEF Workers
    <3>. QED  BY <3>2, <3>3 DEF full, session
  <2>. QED  BY <1>1, <1>3, <2>2
<1>. QED  BY <1>2, <1>3 DEF Inspect, Fails

\* The reported session is attached to the attempt of the parent.
LEMMA AttachConversationDoes ==
    ASSUME AttachConversation
    PROVE  /\ disk' = disk /\ file' = file /\ parent' = parent /\ SameOwner /\ Aside /\ w' = w
           /\ parent /\ bound = None /\ w.pc \in Late /\ w.session # None /\ bound' = w.session
BY DEF AttachConversation, Late, SameOwner, Aside, SameAside, SameAgent, SameReport,
       SameCount, owner, worker, agent, report, count

\* The owner takes one prompt at a time, and none of a cancelled worker.
LEMMA SendPromptDoes ==
    ASSUME TypeOK, WorkerOK, SendPrompt
    PROVE  /\ w.pc = "ready" /\ SameRecord /\ Aside
           /\ mem' = mem /\ watched' = watched /\ clean' = clean
           /\ \/ /\ Mine /\ pend = None /\ ~w.cancelled /\ pc' = "preparing"
                 /\ pend' \in Prompts /\ pend'.run = w.run /\ pend'.full = w.full
                 /\ ~pend'.cancelled /\ Goes("prompting", w.owner, w.res)
              \/ pc' = pc /\ pend' = pend /\ Goes("observing", w.owner, "Err")
<1>1. /\ w.pc = "ready" /\ SameRecord /\ Aside
      /\ mem' = mem /\ watched' = watched /\ clean' = clean
  BY DEF SendPrompt, SameRecord, Aside, SameAside, SameAgent, SameReport, SameCount, record,
         agent, report, count
<1>2. \/ /\ Mine /\ pend = None /\ ~w.cancelled
         /\ pc' = "preparing" /\ w' = [w EXCEPT !.pc = "prompting"]
         /\ pend' = [run |-> w.run, full |-> w.full, cancelled |-> FALSE]
      \/ /\ w' = [w EXCEPT !.pc = "observing", !.res = "Err"]
         /\ pc' = pc /\ pend' = pend
  BY DEF SendPrompt
<1>3. /\ w \in Workers /\ w.owner \in Owners \cup {None} /\ w.res \in Results
      /\ "Err" \in Results /\ "prompting" \in Steps /\ "observing" \in Steps
  BY DEF WorkerOK, Workers, Steps, Results
<1>4. w.run \in Runs /\ w.full \in BOOLEAN
  BY <1>1, AcpAssumption DEF WorkerOK, Workers, Runs
<1>5. /\ w' = [w EXCEPT !.pc = "prompting"] => Goes("prompting", w.owner, w.res)
      /\ w' = [w EXCEPT !.pc = "observing", !.res = "Err"] => Goes("observing", w.owner, "Err")
  BY <1>3, WorkerMoves
<1>6. ASSUME pend' = [run |-> w.run, full |-> w.full, cancelled |-> FALSE]
      PROVE  /\ pend' \in Prompts /\ pend'.run = w.run /\ pend'.full = w.full
             /\ ~pend'.cancelled
  BY <1>4, <1>6 DEF Prompts
<1>. QED  BY <1>1, <1>2, <1>5, <1>6

\* An observer concludes only what the owner or its record shows.
LEMMA ObserveDoes ==
    ASSUME TypeOK, WorkerOK, Observe
    PROVE  /\ OnlyWorker /\ w.pc = "observing"
           /\ \/ Goes("concluding", w.owner, w.res)
              \/ /\ w.res = "Err" /\ SeenStopped(w.owner, w.run, TRUE)
                 /\ Goes("concluding", w.owner, "cancelled")
<1>1. OnlyWorker /\ w.pc = "observing"
  BY DEF Observe, OnlyWorker, SameRecord, SameOwner, SameAside, SameAgent, SameReport,
         SameCount, record, owner, agent, report, count
<1>2. \/ w' = [w EXCEPT !.pc = "concluding"]
      \/ /\ w.res = "Err" /\ SeenStopped(w.owner, w.run, TRUE)
         /\ w' = [w EXCEPT !.pc = "concluding", !.res = "cancelled"]
  BY DEF Observe
<1>3. /\ w \in Workers /\ w.owner \in Owners \cup {None} /\ w.res \in Results
      /\ "cancelled" \in Results /\ "concluding" \in Steps
  BY DEF WorkerOK, Workers, Steps, Results
<1>. QED  BY <1>1, <1>2, <1>3, WorkerMoves

\* The worker gives up and cancels its own prompt.
LEMMA StreamLostDoes ==
    ASSUME TypeOK, WorkerOK, StreamLost
    PROVE  /\ w.pc = "prompting" /\ SameRecord /\ Aside /\ Cancels(w.run)
           /\ pc' = pc /\ mem' = mem /\ watched' = watched /\ clean' = clean
           /\ Goes("concluding", w.owner, "Err")
<1>1. /\ w.pc = "prompting" /\ SameRecord /\ Aside
      /\ pc' = pc /\ mem' = mem /\ watched' = watched /\ clean' = clean
      /\ pend' = CancelPend(w.run) /\ w' = [w EXCEPT !.pc = "concluding", !.res = "Err"]
  BY DEF StreamLost, Fails, SameRecord, Aside, SameAside, SameAgent, SameReport, SameCount,
         record, agent, report, count
<1>2. /\ w \in Workers /\ w.owner \in Owners \cup {None} /\ w.run \in Runs
      /\ "Err" \in Results /\ "concluding" \in Steps
  BY <1>1, AcpAssumption DEF WorkerOK, Workers, Steps, Results, Runs
<1>3. pend \in {None} \cup Prompts
  BY DEF TypeOK
<1>. QED  BY <1>1, <1>2, <1>3, WorkerMoves, CancelPendIs

\* The run is cancelled and its stop observed beside it.
LEMMA CancelDoes ==
    ASSUME TypeOK, WorkerOK, Cancel
    PROVE  /\ w.pc \in {"ready", "prompting", "observing"} /\ SameRecord /\ Cancels(w.run)
           /\ pc' = pc /\ mem' = mem /\ watched' = watched /\ clean' = clean
           /\ boot' = boot /\ SameAgent /\ SameReport /\ SameCount
           /\ stop' \in Stops /\ stop'.run = w.run
           /\ w' \in Workers /\ w'.pc = w.pc /\ w'.run = w.run /\ w'.grant = w.grant
           /\ w'.recovered = w.recovered /\ w'.full = w.full /\ w'.owner = w.owner
           /\ w'.session = w.session /\ w'.res = w.res /\ w'.cancelled
<1>1. /\ w.pc \in {"ready", "prompting", "observing"} /\ SameRecord
      /\ pc' = pc /\ mem' = mem /\ watched' = watched /\ clean' = clean
      /\ boot' = boot /\ SameAgent /\ SameReport /\ SameCount
      /\ pend' = CancelPend(w.run) /\ stop' = [run |-> w.run, owner |-> w.owner]
      /\ w' = [w EXCEPT !.cancelled = TRUE]
  BY DEF Cancel, SameRecord, SameAgent, SameReport, SameCount, record, agent, report, count
<1>2. w \in Workers /\ w.owner \in Owners /\ w.run \in Runs
  BY <1>1, AcpAssumption DEF WorkerOK, Runs
<1>3. /\ w' \in Workers /\ w'.pc = w.pc /\ w'.run = w.run /\ w'.grant = w.grant
      /\ w'.recovered = w.recovered /\ w'.full = w.full /\ w'.owner = w.owner
      /\ w'.session = w.session /\ w'.res = w.res /\ w'.cancelled
  BY <1>1, <1>2 DEF Workers
<1>4. stop' \in Stops /\ stop'.run = w.run
  BY <1>1, <1>2 DEF Stops
<1>5. Cancels(w.run)
  BY <1>1, <1>2, CancelPendIs DEF TypeOK
<1>. QED  BY <1>1, <1>3, <1>4, <1>5

\* A stop is acknowledged once it was seen.
LEMMA AcknowledgeStopDoes ==
    ASSUME AcknowledgeStop
    PROVE  /\ SameRecord /\ SameOwner /\ SameAgent /\ SameCount /\ w' = w /\ boot' = boot
           /\ stop # None /\ stop' = None /\ won' = won /\ quiet' = quiet \cup {stop.run}
           /\ SeenStopped(stop.owner, stop.run,
                          w.run # stop.run \/ w.pc \in {"observing", "concluding"})
BY DEF AcknowledgeStop, SameRecord, SameOwner, SameAgent, SameCount, record, owner, agent, count

\* An observation may end without a verdict.
LEMMA InterruptTimesOutDoes ==
    ASSUME InterruptTimesOut
    PROVE  /\ SameRecord /\ SameOwner /\ SameAgent /\ SameReport /\ SameCount
           /\ w' = w /\ boot' = boot /\ stop # None /\ stop' = None
BY DEF InterruptTimesOut, SameRecord, SameOwner, SameAgent, SameReport, SameCount, record,
       owner, agent, report, count

\* A worker that has not used the session is dropped.
LEMMA AbortWorkerDoes ==
    ASSUME AbortWorker
    PROVE  /\ OnlyWorker /\ w.pc \notin {"idle", "prompting", "observing", "concluding"}
           /\ w' = NoWorker
BY DEF AbortWorker, OnlyWorker, SameRecord, SameOwner, SameAside, SameAgent, SameReport,
       SameCount, record, owner, agent, report, count

\* The run is reported and run.json no longer has it in flight.
LEMMA ConcludeDoes ==
    ASSUME TypeOK, Conclude
    PROVE  /\ w.pc = "concluding" /\ w' = NoWorker
           /\ disk' = disk /\ bound' = bound /\ parent' = parent
           /\ file' \in [run: Runs \cup {None}, live: BOOLEAN] /\ file'.run = file.run
           /\ SameOwner /\ SameAside /\ SameAgent /\ SameCount
           /\ won' = (IF w.res = "end_turn" THEN won \cup {w.run} ELSE won)
           /\ quiet' = (IF w.res # "Err" \/ StoppedOnRecord THEN quiet \cup {w.run} ELSE quiet)
<1>1. /\ w.pc = "concluding" /\ w' = NoWorker
      /\ disk' = disk /\ bound' = bound /\ parent' = parent
      /\ file' = [file EXCEPT !.live = FALSE]
      /\ SameOwner /\ SameAside /\ SameAgent /\ SameCount
      /\ won' = (IF w.res = "end_turn" THEN won \cup {w.run} ELSE won)
      /\ quiet' = (IF w.res # "Err" \/ StoppedOnRecord THEN quiet \cup {w.run} ELSE quiet)
  BY DEF Conclude, SameOwner, SameAside, SameAgent, SameCount, owner, agent, count
<1>2. file' \in [run: Runs \cup {None}, live: BOOLEAN] /\ file'.run = file.run
  BY <1>1 DEF TypeOK
<1>. QED  BY <1>1, <1>2

\* The process of a claim is started, or the owner ends.
LEMMA SpawnDoes ==
    ASSUME TypeOK, Spawn
    PROVE  /\ pc = "claimed" /\ SameRecord /\ mem' = mem /\ pend' = pend /\ watched' = watched
           /\ w' = w /\ SameAside /\ SameReport /\ SameCount
           /\ task' = task /\ ctx' = ctx /\ sent' = sent /\ answered' = answered
           /\ clean' \in BOOLEAN
           /\ \/ pc' = "spawned" /\ up' = up \cup {mem.owner}
              \/ pc' = "ending" /\ up' = up
BY DEF TypeOK, Spawn, SameRecord, SameAside, SameReport, SameCount, record, worker, report, count

\* The process is recorded as running, or killed.
LEMMA RecordLaunchDoes ==
    ASSUME TypeOK, WorkerOK, RecordLaunch
    PROVE  /\ pc = "spawned" /\ SameRest /\ pend' = pend /\ watched' = watched
           /\ w' = w /\ SameAside /\ SameReport /\ SameCount
           /\ task' = task /\ ctx' = ctx /\ sent' = sent /\ answered' = answered
           /\ Becomes(mem, mem', mem.run, mem.status, "Running") /\ Keeps(mem, mem')
           /\ \/ disk' = mem' /\ pc' = "setup" /\ clean' = clean /\ up' = up
              \/ /\ disk' \in {disk, mem'} /\ pc' = "closing" /\ clean' = FALSE
                 /\ up' = up \ {mem'.owner}
<1> DEFINE m == [mem EXCEPT !.process = "Running"]
<1>1. /\ pc = "spawned" /\ SameRest /\ pend' = pend /\ watched' = watched
      /\ w' = w /\ SameAside /\ SameReport /\ SameCount
      /\ task' = task /\ ctx' = ctx /\ sent' = sent /\ answered' = answered
      /\ mem' = m
      /\ \/ disk' = m /\ pc' = "setup" /\ clean' = clean /\ up' = up
         \/ /\ disk' \in {disk, m} /\ pc' = "closing" /\ clean' = FALSE
            /\ up' = up \ {m.owner}
  BY DEF RecordLaunch, Persisted, NotPersisted, ownerRest, SameRest, SameAside, SameReport,
         SameCount, worker, report, count
<1>2. mem \in Records
  BY <1>1 DEF TypeOK
<1>3. Becomes(mem, m, mem.run, mem.status, "Running") /\ Keeps(mem, m)
  BY <1>2, ProcessIs DEF Processes, Keeps
<1> HIDE DEF m
<1>. QED  BY <1>1, <1>3

\* The session is restored or created, or the owner ends.
LEMMA SetUpDoes ==
    ASSUME TypeOK, WorkerOK, SetUp
    PROVE  /\ pc = "setup" /\ SameRest /\ pend' = pend /\ watched' = watched
           /\ w' = w /\ SameAside /\ SameAgent /\ SameReport /\ SameCount
           /\ clean' \in BOOLEAN
           /\ \/ pc' = "ending" /\ mem' = mem /\ disk' = disk
              \/ /\ Becomes(mem, mem', mem.run, "Ready", mem.process) /\ mem'.stop = None
                 /\ \/ /\ mem'.session = mem.session /\ mem.session # None
                       /\ mem'.seeded = mem.seeded
                    \/ mem'.session = mem.owner /\ ~mem'.seeded /\ (parent => mem.session = None)
                 /\ \/ disk' = mem' /\ pc' = "serving"
                    \/ disk' \in {disk, mem'} /\ pc' = "ending"
<1>1. /\ pc = "setup" /\ SameRest /\ pend' = pend /\ watched' = watched
      /\ w' = w /\ SameAside /\ SameAgent /\ SameReport /\ SameCount
  BY DEF SetUp, ownerRest, SameRest, SameAside, SameAgent, SameReport, SameCount, worker,
         agent, report, count
<1>2. mem \in Records /\ mem.owner \in Owners \cup {None} /\ mem.session \in Owners \cup {None}
  BY <1>1 DEF TypeOK, Records
<1>3. clean' \in BOOLEAN
  BY DEF SetUp, TypeOK
<1>4. CASE pc' = "ending" /\ mem' = mem /\ disk' = disk
  BY <1>1, <1>3, <1>4
<1>5. ASSUME NEW able \in BOOLEAN, NEW restored \in BOOLEAN,
             restored => able /\ mem.session # None, Restores(restored, able),
             mem' = Ready(mem, IF restored THEN mem.session ELSE mem.owner, ~restored),
             \/ disk' = mem' /\ pc' = "serving"
             \/ disk' \in {disk, mem'} /\ pc' = "ending"
      PROVE  /\ Becomes(mem, mem', mem.run, "Ready", mem.process) /\ mem'.stop = None
             /\ \/ /\ mem'.session = mem.session /\ mem.session # None
                   /\ mem'.seeded = mem.seeded
                \/ mem'.session = mem.owner /\ ~mem'.seeded /\ (parent => mem.session = None)
  <2>1. mem.seeded \in BOOLEAN
    BY <1>2 DEF Records
  <2>2. CASE restored
    <3>1. mem' = Ready(mem, mem.session, FALSE)
      BY <1>5, <2>2
    <3>2. Becomes(mem, mem', mem.run, "Ready", mem.process) /\ mem'.stop = None
          /\ mem'.session = mem.session /\ mem'.seeded = (mem.seeded /\ ~FALSE)
      BY <1>2, <3>1, ReadyIs
    <3>. QED  BY <1>5, <2>1, <2>2, <3>2
  <2>3. CASE ~restored
    <3>1. mem' = Ready(mem, mem.owner, TRUE)
      BY <1>5, <2>3
    <3>2. parent => mem.session = None
      BY <1>5, <2>3 DEF Restores
    <3>3. Becomes(mem, mem', mem.run, "Ready", mem.process) /\ mem'.stop = None
          /\ mem'.session = mem.owner /\ mem'.seeded = (mem.seeded /\ ~TRUE)
      BY <1>2, <3>1, ReadyIs
    <3>. QED  BY <2>1, <3>2, <3>3
  <2>. QED  BY <2>2, <2>3
<1>6. CASE \E able, restored \in BOOLEAN :
             /\ restored => able /\ mem.session # None
             /\ Restores(restored, able)
             /\ mem' = Ready(mem, IF restored THEN mem.session ELSE mem.owner, ~restored)
             /\ \/ disk' = mem' /\ pc' = "serving"
                \/ disk' \in {disk, mem'} /\ pc' = "ending"
  BY <1>1, <1>3, <1>5, <1>6
<1>. QED  BY <1>4, <1>6 DEF SetUp, Persisted, NotPersisted

\* The marker is written before the prompt may go out.
LEMMA SubmitDoes ==
    ASSUME TypeOK, WorkerOK, Submit
    PROVE  /\ pc = "preparing" /\ SameRest /\ watched' = watched
           /\ SameAside /\ SameAgent /\ SameReport /\ SameCount
           /\ \/ /\ ~pend.cancelled /\ pc' = "submitted" /\ pend' = pend /\ clean' = clean
                 /\ w' = w /\ disk' = mem'
                 /\ Becomes(mem, mem', pend.run, "Submitted", mem.process)
                 /\ mem'.session = mem.session /\ mem'.seeded = mem.seeded
              \/ /\ Breaks /\ Hears("Err") /\ mem' = mem /\ disk' = disk
              \/ /\ Breaks /\ Hears("Err") /\ disk' \in {disk, mem'}
                 /\ Becomes(mem, mem', pend.run, "Submitted", mem.process)
                 /\ mem'.session = mem.session /\ mem'.seeded = mem.seeded
<1> DEFINE m == Submitted(mem, pend.run)
<1>1. /\ pc = "preparing" /\ SameRest /\ watched' = watched
      /\ SameAside /\ SameAgent /\ SameReport /\ SameCount
  BY DEF Submit, ownerRest, SameRest, SameAside, SameAgent, SameReport, SameCount, agent,
         report, count
<1>2. mem \in Records /\ pend.run \in Runs
  BY <1>1 DEF TypeOK, Prompts
<1>3. \/ /\ ~pend.cancelled /\ pc' = "submitted" /\ pend' = pend /\ clean' = clean
         /\ w' = w /\ mem' = m /\ disk' = mem'
      \/ /\ Breaks /\ Replied("Err") /\ mem' = mem /\ disk' = disk
      \/ /\ Breaks /\ Replied("Err") /\ mem' = m /\ disk' \in {disk, mem'}
  BY DEF Submit, Persisted, NotPersisted
<1>4. /\ Becomes(mem, m, pend.run, "Submitted", mem.process)
      /\ m.session = mem.session /\ m.seeded = mem.seeded
  BY <1>2, SubmittedIs
<1>5. Replied("Err") => Hears("Err")
  BY RepliedIs DEF WorkerOK, Results
<1> HIDE DEF m
<1>. QED  BY <1>1, <1>3, <1>4, <1>5

\* A prompt cancelled by then is recorded as not sent.
LEMMA WithdrawPromptDoes ==
    ASSUME TypeOK, WorkerOK, WithdrawPrompt
    PROVE  /\ pc = "submitted" /\ SameRest /\ watched' = watched
           /\ SameAside /\ SameAgent /\ SameReport /\ SameCount
           /\ Breaks /\ Hears("Err") /\ disk' \in {disk, mem'}
           /\ Becomes(mem, mem', mem.run, "Finished", mem.process)
           /\ mem'.session = mem.session /\ mem'.seeded = mem.seeded
           /\ mem'.stop = "cancelled_before_prompt"
<1> DEFINE m == Finished(mem, "cancelled_before_prompt")
<1>1. /\ pc = "submitted" /\ SameRest /\ watched' = watched
      /\ SameAside /\ SameAgent /\ SameReport /\ SameCount
      /\ Breaks /\ Replied("Err") /\ mem' = m /\ disk' \in {disk, mem'}
  BY DEF WithdrawPrompt, Persisted, NotPersisted, ownerRest, SameRest, SameAside, SameAgent,
         SameReport, SameCount, agent, report, count
<1>2. mem \in Records /\ mem.seeded \in BOOLEAN
  BY <1>1 DEF TypeOK, Records
<1>3. "cancelled_before_prompt" \in StopReasons
  BY DEF StopReasons, Results
<1>4. /\ Becomes(mem, m, mem.run, "Finished", mem.process)
      /\ m.session = mem.session /\ m.stop = "cancelled_before_prompt"
      /\ m.seeded = (mem.seeded \/ "cancelled_before_prompt" # "cancelled_before_prompt")
  BY <1>2, <1>3, FinishedIs
<1>5. m.seeded = mem.seeded
  BY <1>2, <1>4
<1>6. Hears("Err")
  BY <1>1, RepliedIs DEF WorkerOK, Results
<1> HIDE DEF m
<1>. QED  BY <1>1, <1>4, <1>5, <1>6

\* The prompt goes out.
LEMMA TransmitDoes ==
    ASSUME Transmit
    PROVE  /\ pc = "submitted" /\ pc' = "prompting" /\ ~pend.cancelled
           /\ SameRecord /\ mem' = mem /\ pend' = pend /\ watched' = watched /\ clean' = clean
           /\ w' = w /\ SameAside /\ SameReport /\ SameCount
           /\ up' = up /\ answered' = answered
           /\ task' = [task EXCEPT ![mem.owner] = pend.run]
           /\ sent' = [sent EXCEPT ![pend.run] = @ + 1]
           /\ ctx' = IF pend.full THEN ctx \cup {mem.session} ELSE ctx
BY DEF Transmit, CancelledBeforePrompt, SameRecord, SameAside, SameReport, SameCount, record,
       worker, report, count

\* The response is recorded and passed on.
LEMMA RespondDoes ==
    ASSUME TypeOK, WorkerOK, Respond
    PROVE  /\ pc = "prompting" /\ mem.owner \in up /\ SameRest /\ watched' = watched
           /\ SameAside /\ SameReport /\ SameCount
           /\ up' = up /\ ctx' = ctx /\ sent' = sent
           /\ task' = [task EXCEPT ![mem.owner] = None]
           /\ answered' = answered \cup {pend.run}
           /\ Becomes(mem, mem', mem.run, "Finished", mem.process)
           /\ mem'.session = mem.session /\ mem'.seeded
           /\ \E reason \in Results \ {"Err", "cancelled_before_prompt"} :
                /\ mem'.stop = reason
                /\ \/ /\ disk' = mem' /\ pc' = "serving" /\ pend' = None /\ clean' = clean
                      /\ Hears(reason)
                   \/ disk' \in {disk, mem'} /\ Breaks /\ Hears("Err")
<1>1. /\ pc = "prompting" /\ mem.owner \in up /\ SameRest /\ watched' = watched
      /\ SameAside /\ SameReport /\ SameCount
      /\ up' = up /\ ctx' = ctx /\ sent' = sent
      /\ task' = [task EXCEPT ![mem.owner] = None]
      /\ answered' = answered \cup {pend.run}
  BY DEF Respond, ownerRest, SameRest, SameAside, SameReport, SameCount, report, count
<1>2. PICK reason \in {"end_turn", "refusal"} \cup (IF pend.cancelled THEN {"cancelled"} ELSE {}) :
        /\ mem' = Finished(mem, reason)
        /\ \/ /\ disk' = mem' /\ pc' = "serving" /\ pend' = None /\ clean' = clean
              /\ Replied(reason)
           \/ disk' \in {disk, mem'} /\ Breaks /\ Replied("Err")
  BY DEF Respond, Persisted, NotPersisted
<1>3. reason \in {"end_turn", "refusal", "cancelled"}
  BY <1>2
<1>4. reason \in StopReasons /\ reason \in Results \ {"Err", "cancelled_before_prompt"}
  BY <1>3 DEF StopReasons, Results
<1>5. mem \in Records
  BY <1>1 DEF TypeOK
<1>6. /\ Becomes(mem, mem', mem.run, "Finished", mem.process)
      /\ mem'.session = mem.session /\ mem'.stop = reason
      /\ mem'.seeded = (mem.seeded \/ reason # "cancelled_before_prompt")
  BY <1>2, <1>4, <1>5, FinishedIs
<1>7. mem'.seeded
  BY <1>3, <1>6
<1>8. /\ Replied(reason) => Hears(reason)
      /\ Replied("Err") => Hears("Err")
  BY <1>4, RepliedIs DEF WorkerOK, Results
<1>. QED  BY <1>1, <1>2, <1>4, <1>6, <1>7, <1>8

\* The outcome of the prompt is recorded as unknown.
LEMMA PromptFailsDoes ==
    ASSUME TypeOK, WorkerOK, PromptFails
    PROVE  /\ pc = "prompting" /\ SameRest /\ watched' = watched
           /\ SameAside /\ SameAgent /\ SameReport /\ SameCount
           /\ Breaks /\ Hears("Err") /\ disk' \in {disk, mem'}
           /\ Becomes(mem, mem', mem.run, "Uncertain", mem.process) /\ Keeps(mem, mem')
<1>1. /\ pc = "prompting" /\ SameRest /\ watched' = watched
      /\ SameAside /\ SameAgent /\ SameReport /\ SameCount
      /\ Breaks /\ Replied("Err") /\ mem' = Uncertain(mem) /\ disk' \in {disk, mem'}
  BY DEF PromptFails, Persisted, NotPersisted, ownerRest, SameRest, SameAside, SameAgent,
         SameReport, SameCount, agent, report, count
<1>2. mem \in Records
  BY <1>1 DEF TypeOK
<1>3. Becomes(mem, mem', mem.run, "Uncertain", mem.process) /\ Keeps(mem, mem')
  BY <1>1, <1>2, UncertainIs DEF Keeps
<1>4. Hears("Err")
  BY <1>1, RepliedIs DEF WorkerOK, Results
<1>. QED  BY <1>1, <1>3, <1>4

\* The connection ends and the record stays as it is.
LEMMA ConnectionLostDoes ==
    ASSUME TypeOK, WorkerOK, ConnectionLost
    PROVE  /\ pc \in {"setup", "serving", "preparing", "submitted", "prompting"}
           /\ SameRecord /\ mem' = mem /\ watched' = watched
           /\ SameAside /\ SameAgent /\ SameReport /\ SameCount
           /\ Breaks /\ Hears("Err")
<1>1. /\ pc \in {"setup", "serving", "preparing", "submitted", "prompting"}
      /\ SameRecord /\ mem' = mem /\ watched' = watched
      /\ SameAside /\ SameAgent /\ SameReport /\ SameCount
      /\ Breaks /\ Replied("Err")
  BY DEF ConnectionLost, SameRecord, SameAside, SameAgent, SameReport, SameCount, record, agent,
         report, count
<1>2. Hears("Err")
  BY <1>1, RepliedIs DEF WorkerOK, Results
<1>. QED  BY <1>1, <1>2

\* An idle owner ends.
LEMMA IdleExpiresDoes ==
    ASSUME IdleExpires
    PROVE  /\ pc = "serving" /\ pc' = "ending" /\ SameRecord
           /\ mem' = mem /\ pend' = pend /\ watched' = watched /\ clean' = clean
           /\ w' = w /\ Aside
BY DEF IdleExpires, SameRecord, Aside, SameAside, SameAgent, SameReport, SameCount, record,
       worker, agent, report, count

\* An observation lease comes or goes.
LEMMA WatchDoes ==
    ASSUME Watch
    PROVE  /\ SameRecord /\ pc' = pc /\ mem' = mem /\ pend' = pend /\ clean' = clean
           /\ watched' \in BOOLEAN /\ w' = w /\ Aside
BY DEF Watch, SameRecord, Aside, SameAside, SameAgent, SameReport, SameCount, record, worker,
       agent, report, count

\* The process is reaped and recorded as stopped, or the owner is not clean.
LEMMA TeardownDoes ==
    ASSUME TypeOK, WorkerOK, Teardown
    PROVE  /\ pc = "ending" /\ pc' = "closing" /\ SameRest
           /\ pend' = pend /\ watched' = watched /\ w' = w /\ SameAside
           /\ task' = task /\ ctx' = ctx /\ sent' = sent /\ answered' = answered
           /\ SameReport /\ SameCount
           /\ \/ /\ up' = up \ {mem.owner}
                 /\ Becomes(mem, mem', mem.run, mem.status, "Stopped") /\ Keeps(mem, mem')
                 /\ \/ disk' = mem' /\ clean' = clean
                    \/ disk' \in {disk, mem'} /\ clean' = FALSE
              \/ up' = up /\ mem' = mem /\ disk' = disk /\ clean' = FALSE
<1> DEFINE m == [mem EXCEPT !.process = "Stopped"]
<1>1. /\ pc = "ending" /\ pc' = "closing" /\ SameRest
      /\ pend' = pend /\ watched' = watched /\ w' = w /\ SameAside
      /\ task' = task /\ ctx' = ctx /\ sent' = sent /\ answered' = answered
      /\ SameReport /\ SameCount
  BY DEF Teardown, ownerRest, SameRest, SameAside, SameReport, SameCount, worker, report, count
<1>2. \/ /\ up' = up \ {mem.owner} /\ mem' = m
         /\ \/ disk' = m /\ clean' = clean
            \/ disk' \in {disk, m} /\ clean' = FALSE
      \/ up' = up /\ mem' = mem /\ disk' = disk /\ clean' = FALSE
  BY DEF Teardown, Persisted, NotPersisted
<1>3. mem \in Records
  BY <1>1 DEF TypeOK
<1>4. Becomes(mem, m, mem.run, mem.status, "Stopped") /\ Keeps(mem, m)
  BY <1>3, ProcessIs DEF Processes, Keeps
<1> HIDE DEF m
<1>. QED  BY <1>1, <1>2, <1>4

\* The lock goes; a prompt without an outcome stays fenced.
LEMMA CloseDoes ==
    ASSUME TypeOK, WorkerOK, Close
    PROVE  /\ pc = "closing" /\ pc' = "none" /\ mem' = None /\ pend' = None
           /\ SameRest /\ watched' = watched /\ clean' = clean
           /\ SameAside /\ SameAgent /\ SameReport /\ SameCount
           /\ \/ disk' = disk
              \/ /\ mem.status = "Submitted" /\ Keeps(mem, disk')
                 /\ Becomes(mem, disk', mem.run, "Uncertain", mem.process)
           /\ \/ w' = w
              \/ w.pc = "retiring" /\ w' = NoWorker
              \/ w.pc = "retiring" /\ clean /\ ~Fenced(mem) /\ Goes("archiving", w.owner, w.res)
<1>1. /\ pc = "closing" /\ pc' = "none" /\ mem' = None /\ pend' = None
      /\ SameRest /\ watched' = watched /\ clean' = clean
      /\ SameAside /\ SameAgent /\ SameReport /\ SameCount
  BY DEF Close, ownerRest, SameRest, SameAside, SameAgent, SameReport, SameCount, agent, report,
         count
<1>2. \/ disk' = disk
      \/ mem.status = "Submitted" /\ disk' = Uncertain(mem)
  BY DEF Close
<1>3. \/ w' = w
      \/ w.pc = "retiring" /\ w' = NoWorker
      \/ w.pc = "retiring" /\ clean /\ ~Fenced(mem) /\ w' = [w EXCEPT !.pc = "archiving"]
  BY Zenon DEF Close
<1>4. mem \in Records
  BY <1>1 DEF TypeOK
<1>5. /\ Becomes(mem, Uncertain(mem), mem.run, "Uncertain", mem.process)
      /\ Keeps(mem, Uncertain(mem))
  BY <1>4, UncertainIs DEF Keeps
<1>6. w \in Workers /\ w.owner \in Owners \cup {None} /\ w.res \in Results /\ "archiving" \in Steps
  BY DEF WorkerOK, Workers, Steps
<1>7. w' = [w EXCEPT !.pc = "archiving"] => Goes("archiving", w.owner, w.res)
  BY <1>6, WorkerMoves
<1>8. \/ disk' = disk
      \/ /\ mem.status = "Submitted" /\ Keeps(mem, disk')
         /\ Becomes(mem, disk', mem.run, "Uncertain", mem.process)
  BY <1>2, <1>5
<1>. QED  BY <1>1, <1>3, <1>7, <1>8

\* An agent may end by itself.
LEMMA AgentExitsDoes ==
    ASSUME AgentExits
    PROVE  /\ SameRecord /\ SameOwner /\ w' = w /\ SameAside /\ SameReport /\ SameCount
           /\ task' = task /\ ctx' = ctx /\ sent' = sent /\ answered' = answered
           /\ \E o \in up : up' = up \ {o}
BY DEF AgentExits, SameRecord, SameOwner, SameAside, SameReport, SameCount, record, owner,
       worker, report, count

\* An agent nobody listens to ends its turn.
LEMMA OrphanEndsTurnDoes ==
    ASSUME OrphanEndsTurn
    PROVE  /\ SameRecord /\ SameOwner /\ w' = w /\ SameAside /\ SameReport /\ SameCount
           /\ up' = up /\ ctx' = ctx /\ sent' = sent /\ answered' = answered
           /\ \E o \in up : task' = [task EXCEPT ![o] = None]
BY DEF OrphanEndsTurn, SameRecord, SameOwner, SameAside, SameReport, SameCount, record, owner,
       worker, report, count

\* The daemon forgets everything but what is on disk and what it left running.
LEMMA CrashDoes ==
    ASSUME Crash
    PROVE  /\ SameRecord /\ SameAgent /\ SameReport /\ SameCount
           /\ pc' = "none" /\ mem' = None /\ pend' = None /\ watched' = FALSE /\ clean' = TRUE
           /\ w' = NoWorker /\ stop' = None /\ boot' = TRUE
BY DEF Crash, SameRecord, SameAgent, SameReport, SameCount, record, agent, report, count

\* An owner holds a record with a claim that was given out.
LEMMA HeldRecord ==
    ASSUME TypeOK, WorkerOK, pc # "none"
    PROVE  /\ mem \in Records /\ mem.owner \in Owners /\ mem.session \in Owners \cup {None}
           /\ mem.run \in Runs \cup {None} /\ mem.status \in Statuses /\ mem.process \in Processes
<1>1. mem \in Records
  BY DEF TypeOK
<1>2. mem.owner \in Owners
  BY AcpAssumption DEF WorkerOK, Owners
<1>. QED  BY <1>1, <1>2 DEF Records, Statuses, Processes

\* The owner may go on, fail or end without unsettling what the worker holds.
LEMMA OwnerKeeps ==
    ASSUME WorkerOK, pc # "none", SameAside, SameCount, file' = file, disk' \in {disk, mem'},
           mem' \in Records, mem'.owner = mem.owner,
           pc' \in {"serving", "preparing", "submitted", "prompting"} => mem'.session \in Owners,
           pend' # None => pend'.run \in 1..runs,
           w' = w \/ (w.pc = "prompting" /\ \E r \in Results : Goes("observing", w.owner, r))
    PROVE  WorkerOK'
<1>1. w' = w \/ /\ w' \in Workers /\ w'.pc = "observing" /\ w.pc = "prompting"
                /\ w'.run = w.run /\ w'.grant = w.grant /\ w'.owner = w.owner
  BY DEF Goes
<1>2. ~boot /\ file.run # None
  BY DEF WorkerOK
<1>3. disk' # None \/ disk' = disk
  BY NoneAssumption
<1>. QED  BY <1>1, <1>2, <1>3 DEF WorkerOK, SameAside, SameCount

-----------------------------------------------------------------------------
(* Type correctness. *)

\* The types do not depend on where the worker stands.
LEMMA OnlyWorkerTyped ==
    ASSUME TypeOK, OnlyWorker
    PROVE  TypeOK'
BY DEF TypeOK, OnlyWorker, SameRecord, SameOwner, SameAside, SameAgent, SameReport

LEMMA NewReportTyped ==
    ASSUME TypeOK, SameRecord, SameOwner, SameAgent,
           stop' = stop, boot' \in BOOLEAN, won' = won, quiet' \subseteq Runs
    PROVE  TypeOK'
<1>1. /\ disk' \in Records \cup {None} /\ file' \in [run: Runs \cup {None}, live: BOOLEAN]
      /\ bound' \in Owners \cup {None} /\ parent' \in BOOLEAN
  BY DEF TypeOK, SameRecord
<1>2. SameOwner /\ SameAgent
  OBVIOUS
<1>. QED  BY <1>1, <1>2 DEF TypeOK, SameOwner, SameAgent

\* Every step keeps the types, and what a worker holds where it stands.
LEMMA TypesKept ==
    ASSUME TypeOK, WorkerOK, [Next]_vars
    PROVE  TypeOK' /\ WorkerOK'
<1>1. CASE StartAttempt
  <2>1. TypeOK'
    <3>1. /\ SameRecord /\ SameOwner /\ SameAgent /\ stop' = stop /\ boot' \in BOOLEAN
          /\ won' = won
      BY <1>1, StartAttemptDoes
    <3>2. quiet' \subseteq Runs
      BY <1>1, StartAttemptDoes DEF TypeOK
    <3>. QED  BY <3>1, <3>2, NewReportTyped
  <2>2. WorkerOK'
    <3>1. /\ w' \in Workers /\ w'.grant \in Grants /\ w'.pc = "starting"
          /\ SameRecord /\ SameOwner /\ stop' = stop /\ ~boot' /\ claims' = claims
      BY <1>1, StartAttemptDoes
    <3>2. /\ runs' \in 0..MaxRuns /\ w'.run \in 1..runs'
          /\ \A x \in 1..runs : x \in 1..runs'
      <4>1. /\ runs \in 0..MaxRuns /\ MaxRuns \in Nat
            /\ disk # None => file.run \in 1..runs
        BY AcpAssumption DEF WorkerOK
      <4>2. CASE w'.run = file.run /\ runs' = runs /\ disk # None
        BY <4>1, <4>2
      <4>3. CASE w'.run = runs + 1 /\ runs' = runs + 1 /\ runs < MaxRuns
        BY <4>1, <4>3
      <4>. QED  BY <1>1, <4>2, <4>3, StartAttemptDoes
    <3>. QED  BY <3>1, <3>2 DEF WorkerOK, SameRecord, SameOwner
  <2>. QED  BY <2>1, <2>2
<1>2. CASE Prepare
  <2>1. TypeOK'
    BY <1>2, PrepareDoes, OnlyWorkerTyped
  <2>2. WorkerOK'
    BY <1>2, PrepareDoes, NoneAssumption, NoWorkerIs
       DEF TypeOK, WorkerOK, OnlyWorker, Goes, SameRecord, SameOwner, SameAside, SameAgent,
           SameReport, SameCount
  <2>. QED  BY <2>1, <2>2
<1>3. CASE RetireLive
  <2>1. TypeOK'
    BY <1>3, RetireLiveDoes, NoneAssumption
       DEF TypeOK, WorkerOK, Aside, SameRecord, Goes, SameAside, SameAgent, SameReport,
           SameCount
  <2>2. WorkerOK'
    BY <1>3, RetireLiveDoes, NoneAssumption, NoWorkerIs
       DEF TypeOK, WorkerOK, Aside, SameRecord, Goes, SameAside, SameAgent, SameReport,
           SameCount
  <2>. QED  BY <2>1, <2>2
<1>4. CASE RetirePersisted
  <2>1. TypeOK'
    BY <1>4, RetirePersistedDoes, NoneAssumption
       DEF TypeOK, WorkerOK, Aside, SameRest, SameOwner, Goes, Becomes, SameAside, SameAgent,
           SameReport, SameCount
  <2>2. WorkerOK'
    BY <1>4, RetirePersistedDoes, NoneAssumption, NoWorkerIs
       DEF TypeOK, WorkerOK, Aside, SameRest, SameOwner, Goes, Becomes, SameAside, SameAgent,
           SameReport, SameCount
  <2>. QED  BY <2>1, <2>2
<1>5. CASE Archive
  <2>1. TypeOK'
    BY <1>5, ArchiveDoes, NoneAssumption
       DEF TypeOK, WorkerOK, Aside, SameRest, SameOwner, Goes, SameAside, SameAgent,
           SameReport, SameCount
  <2>2. WorkerOK'
    BY <1>5, ArchiveDoes, NoneAssumption
       DEF TypeOK, WorkerOK, Aside, SameRest, SameOwner, Goes, SameAside, SameAgent,
           SameReport, SameCount
  <2>. QED  BY <2>1, <2>2
<1>6. CASE StartRun
  <2>1. TypeOK'
    BY <1>6, StartRunDoes, NoneAssumption
       DEF TypeOK, WorkerOK, Aside, SameOwner, Goes, SameAside, SameAgent, SameReport,
           SameCount
  <2>2. WorkerOK'
    BY <1>6, StartRunDoes, NoneAssumption, NoWorkerIs, AcpAssumption
       DEF TypeOK, WorkerOK, Aside, SameOwner, Goes, SameAside, SameAgent, SameReport,
           SameCount
  <2>. QED  BY <2>1, <2>2
<1>7. CASE Settle
  <2>1. TypeOK'
    BY <1>7, SettleDoes, OnlyWorkerTyped
  <2>2. WorkerOK'
    <3>1. OnlyWorker /\ w.pc = "opening" /\ w' \in Workers /\ w'.pc = "concluding"
          /\ w'.run = w.run /\ w'.grant = w.grant
      BY <1>7, SettleDoes DEF Goes
    <3>. QED  BY <3>1 DEF WorkerOK, OnlyWorker, SameRecord, SameOwner, SameAside, SameCount
  <2>. QED  BY <2>1, <2>2
<1>8. CASE Borrow
  <2>1. TypeOK'
    BY <1>8, BorrowDoes, OnlyWorkerTyped
  <2>2. WorkerOK'
    <3>1. /\ OnlyWorker /\ w.pc # "idle" /\ w' \in Workers
          /\ w'.pc \in {"concluding", "opened"} /\ (w'.pc = "opened" => w'.owner = mem.owner)
          /\ w'.run = w.run /\ w'.grant = w.grant /\ pc # "none"
      BY <1>8, BorrowDoes DEF Goes, Opens
    <3>2. mem.owner \in Owners
      BY <3>1, AcpAssumption DEF WorkerOK, Owners
    <3>. QED  BY <3>1, <3>2 DEF WorkerOK, OnlyWorker, SameRecord, SameOwner, SameAside, SameCount
  <2>. QED  BY <2>1, <2>2
<1>9. CASE Claim
  <2>1. TypeOK'
    <3>1. CASE Refused
      BY <1>9, <3>1, ClaimDoes
         DEF Refused, TypeOK, SameRest, SameAside, SameOwner, SameAgent, SameReport
    <3>2. ASSUME NEW m \in Records, NEW c \in Records, Takes(m, c) PROVE TypeOK'
      <4>1. /\ disk' \in {disk, c} /\ pend' = None /\ clean' = TRUE /\ watched' = FALSE
            /\ \/ mem' = c /\ pc' = "claimed"
               \/ mem' = None /\ pc' = "none"
        BY <3>2 DEF Takes
      <4>. QED  BY <1>9, <4>1, ClaimDoes, NoneAssumption
                DEF TypeOK, SameRest, SameAside, SameAgent, SameReport
    <3>. QED  BY <1>9, <3>1, <3>2, ClaimDoes
  <2>2. WorkerOK'
    <3>0. /\ runs' = runs /\ stop' = stop /\ boot' = boot /\ file' = file
          /\ claims < MaxClaims /\ w.pc = "opening" /\ pc = "none"
      BY <1>9, ClaimDoes DEF SameRest, SameAside, Opens
    <3>1. CASE Refused
      BY <3>0, <3>1 DEF WorkerOK, Refused, SameOwner, Goes
    <3>2. ASSUME NEW m \in Records, NEW c \in Records, Takes(m, c) PROVE WorkerOK'
      <4>1. /\ claims' = claims + 1 /\ pend' = None
            /\ ClaimOk(m, w.run, w.grant) /\ c = Claimed(m, w.run, w.grant, claims + 1)
            /\ \/ mem' = c /\ pc' = "claimed" /\ Goes("opened", claims + 1, w.res)
               \/ mem' = None /\ pc' = "none" /\ Goes("concluding", w.owner, "Err")
        BY <3>2 DEF Takes
      <4>2. /\ w.run \in Runs /\ w.grant \in Grants /\ claims + 1 \in Owners
            /\ claims + 1 \in 0..MaxClaims /\ claims + 1 \in 1..(claims + 1) /\ w.run \in 1..runs
        BY <3>0, AcpAssumption DEF WorkerOK, Runs, Owners
      <4>3. c.owner = claims + 1
        BY <4>1, <4>2, ClaimedIs
      <4>4. file.run # None
        BY <4>1, <4>2, AcpAssumption DEF ClaimOk, Runs
      <4>. QED  BY <3>0, <4>1, <4>2, <4>3, <4>4 DEF WorkerOK, Goes
    <3>. QED  BY <1>9, <3>1, <3>2, ClaimDoes
  <2>. QED  BY <2>1, <2>2
<1>10. CASE Inspect
  <2>1. TypeOK'
    BY <1>10, InspectDoes, OnlyWorkerTyped
  <2>2. WorkerOK'
    BY <1>10, InspectDoes, NoneAssumption
       DEF TypeOK, WorkerOK, OnlyWorker, Goes, SameRecord, SameOwner, SameAside, SameAgent,
           SameReport, SameCount
  <2>. QED  BY <2>1, <2>2
<1>11. CASE AttachConversation
  <2>1. TypeOK'
    BY <1>11, AttachConversationDoes, NoneAssumption
       DEF TypeOK, WorkerOK, Aside, SameOwner, SameAside, SameAgent, SameReport, SameCount,
           Workers
  <2>2. WorkerOK'
    BY <1>11, AttachConversationDoes, NoneAssumption
       DEF TypeOK, WorkerOK, Aside, SameOwner, SameAside, SameAgent, SameReport, SameCount
  <2>. QED  BY <2>1, <2>2
<1>12. CASE SendPrompt
  <2>1. TypeOK'
    BY <1>12, SendPromptDoes, NoneAssumption
       DEF TypeOK, WorkerOK, Aside, SameRecord, Goes, SameAside, SameAgent, SameReport,
           SameCount, Mine, Serving
  <2>2. WorkerOK'
    <3>1. /\ w.pc = "ready" /\ SameRecord /\ SameAside /\ SameCount /\ mem' = mem
          /\ w' \in Workers /\ w'.pc \in {"prompting", "observing"}
          /\ w'.run = w.run /\ w'.grant = w.grant /\ w'.owner = w.owner
      BY <1>12, SendPromptDoes DEF Aside, Goes
    <3>2. w.run \in 1..runs /\ w.grant \in Grants /\ w.owner \in Owners
      BY <3>1 DEF WorkerOK
    <3>3. \/ Serving /\ pc' = "preparing" /\ pend' # None /\ pend'.run = w.run
          \/ pc' = pc /\ pend' = pend
      BY <1>12, SendPromptDoes, NoneAssumption DEF Mine
    <3>4. /\ pc' # "none" => pc # "none"
          /\ pc' \in {"serving", "preparing", "submitted", "prompting"} => Serving
      BY <3>3 DEF Serving
    <3>5. pend' # None => pend'.run \in 1..runs
      BY <3>2, <3>3 DEF WorkerOK
    <3>. QED  BY <3>1, <3>2, <3>4, <3>5 DEF WorkerOK, Serving, SameRecord, SameAside, SameCount
  <2>. QED  BY <2>1, <2>2
<1>13. CASE Observe
  <2>1. TypeOK'
    BY <1>13, ObserveDoes, OnlyWorkerTyped
  <2>2. WorkerOK'
    <3>1. OnlyWorker /\ w.pc = "observing" /\ \E r \in Results : Goes("concluding", w.owner, r)
      BY <1>13, ObserveDoes DEF WorkerOK, Workers, Results
    <3>. QED  BY <3>1 DEF WorkerOK, OnlyWorker, SameRecord, SameOwner, SameAside, SameCount, Goes
  <2>. QED  BY <2>1, <2>2
<1>14. CASE StreamLost
  <2>1. TypeOK'
    BY <1>14, StreamLostDoes, NoneAssumption
       DEF TypeOK, WorkerOK, Aside, SameRecord, Goes, Cancels, SameAside, SameAgent,
           SameReport, SameCount
  <2>2. WorkerOK'
    BY <1>14, StreamLostDoes, NoneAssumption
       DEF TypeOK, WorkerOK, Aside, SameRecord, Goes, Cancels, SameAside, SameAgent,
           SameReport, SameCount
  <2>. QED  BY <2>1, <2>2
<1>15. CASE Cancel
  <2>1. TypeOK'
    BY <1>15, CancelDoes, NoneAssumption
       DEF TypeOK, WorkerOK, SameRecord, SameAgent, SameReport, SameCount, Cancels
  <2>2. WorkerOK'
    BY <1>15, CancelDoes, NoneAssumption
       DEF TypeOK, WorkerOK, SameRecord, SameAgent, SameReport, SameCount, Cancels
  <2>. QED  BY <2>1, <2>2
<1>16. CASE AcknowledgeStop
  <2>1. TypeOK'
    BY <1>16, AcknowledgeStopDoes, NoneAssumption
       DEF TypeOK, WorkerOK, SameRecord, SameOwner, SameAgent, SameCount, Stops
  <2>2. WorkerOK'
    BY <1>16, AcknowledgeStopDoes, NoneAssumption
       DEF TypeOK, WorkerOK, SameRecord, SameOwner, SameAgent, SameCount
  <2>. QED  BY <2>1, <2>2
<1>17. CASE InterruptTimesOut
  <2>1. TypeOK'
    BY <1>17, InterruptTimesOutDoes, NoneAssumption
       DEF TypeOK, WorkerOK, SameRecord, SameOwner, SameAgent, SameReport, SameCount
  <2>2. WorkerOK'
    BY <1>17, InterruptTimesOutDoes, NoneAssumption
       DEF TypeOK, WorkerOK, SameRecord, SameOwner, SameAgent, SameReport, SameCount
  <2>. QED  BY <2>1, <2>2
<1>18. CASE AbortWorker
  <2>1. TypeOK'
    BY <1>18, AbortWorkerDoes, OnlyWorkerTyped
  <2>2. WorkerOK'
    BY <1>18, AbortWorkerDoes, NoneAssumption, NoWorkerIs
       DEF TypeOK, WorkerOK, OnlyWorker, SameRecord, SameOwner, SameAside, SameAgent,
           SameReport, SameCount
  <2>. QED  BY <2>1, <2>2
<1>19. CASE Conclude
  <2>1. TypeOK'
    <3>1. w.run \in Runs
      BY <1>19, ConcludeDoes, AcpAssumption DEF WorkerOK, Runs
    <3>. QED  BY <1>19, <3>1, ConcludeDoes
              DEF TypeOK, SameOwner, SameAgent, SameCount, SameAside
  <2>2. WorkerOK'
    BY <1>19, ConcludeDoes, NoneAssumption, NoWorkerIs
       DEF TypeOK, WorkerOK, SameOwner, SameAgent, SameCount, SameAside
  <2>. QED  BY <2>1, <2>2
<1>20. CASE Spawn
  <2>1. TypeOK'
    <3>1. mem.owner \in Owners
      BY <1>20, SpawnDoes, AcpAssumption DEF WorkerOK, Owners
    <3>. QED  BY <1>20, <3>1, SpawnDoes DEF TypeOK, SameRecord, SameReport, SameAside
  <2>2. WorkerOK'
    BY <1>20, SpawnDoes, NoneAssumption
       DEF TypeOK, WorkerOK, SameRecord, SameReport, SameCount, SameAside
  <2>. QED  BY <2>1, <2>2
<1>21. CASE RecordLaunch
  <2>1. TypeOK'
    BY <1>21, RecordLaunchDoes, NoneAssumption
       DEF TypeOK, WorkerOK, SameRest, SameReport, SameCount, SameAside, Becomes
  <2>2. WorkerOK'
    BY <1>21, RecordLaunchDoes, OwnerKeeps, HeldRecord
       DEF WorkerOK, SameRest, Becomes
  <2>. QED  BY <2>1, <2>2
<1>22. CASE SetUp
  <2>1. TypeOK'
    BY <1>22, SetUpDoes, NoneAssumption
       DEF TypeOK, WorkerOK, SameRest, SameAgent, SameReport, SameCount, SameAside, Becomes
  <2>2. WorkerOK'
    BY <1>22, SetUpDoes, OwnerKeeps, HeldRecord
       DEF WorkerOK, SameRest, Becomes
  <2>. QED  BY <2>1, <2>2
<1>23. CASE Submit
  <2>1. TypeOK'
    BY <1>23, SubmitDoes, NoneAssumption
       DEF TypeOK, WorkerOK, SameRest, SameAgent, SameReport, SameCount, SameAside, Becomes,
           Hears, Breaks, Goes
  <2>2. WorkerOK'
    BY <1>23, SubmitDoes, OwnerKeeps, HeldRecord
       DEF WorkerOK, SameRest, Becomes, Hears, Breaks, Results
  <2>. QED  BY <2>1, <2>2
<1>24. CASE WithdrawPrompt
  <2>1. TypeOK'
    BY <1>24, WithdrawPromptDoes, NoneAssumption
       DEF TypeOK, WorkerOK, SameRest, SameAgent, SameReport, SameCount, SameAside, Becomes,
           Hears, Breaks, Goes
  <2>2. WorkerOK'
    BY <1>24, WithdrawPromptDoes, OwnerKeeps, HeldRecord
       DEF WorkerOK, SameRest, Becomes, Hears, Breaks, Results
  <2>. QED  BY <2>1, <2>2
<1>25. CASE Transmit
  <2>1. TypeOK'
    <3>1. mem.owner \in Owners /\ mem.session \in Owners /\ pend.run \in Runs
      BY <1>25, TransmitDoes, AcpAssumption DEF TypeOK, WorkerOK, Owners, Prompts, Records
    <3>2. task' \in [Owners -> Runs \cup {None}] /\ sent' \in [Runs -> Nat]
      BY <1>25, <3>1, TransmitDoes DEF TypeOK
    <3>3. ctx' \subseteq Owners
      BY <1>25, <3>1, TransmitDoes DEF TypeOK
    <3>. QED  BY <1>25, <3>2, <3>3, TransmitDoes DEF TypeOK, SameRecord, SameReport, SameAside
  <2>2. WorkerOK'
    <3>1. /\ pc = "submitted" /\ pc' = "prompting" /\ SameRecord /\ SameAside /\ SameCount
          /\ mem' = mem /\ pend' = pend /\ w' = w
      BY <1>25, TransmitDoes
    <3>. QED  BY <3>1 DEF WorkerOK, SameRecord, SameCount, SameAside
  <2>. QED  BY <2>1, <2>2
<1>26. CASE Respond
  <2>1. TypeOK'
    <3>1. mem.owner \in Owners /\ pend.run \in Runs
      BY <1>26, RespondDoes, AcpAssumption DEF TypeOK, WorkerOK, Owners, Prompts
    <3>2. /\ task' \in [Owners -> Runs \cup {None}] /\ answered' \subseteq Runs
          /\ up' \subseteq Owners /\ ctx' \subseteq Owners /\ sent' \in [Runs -> Nat]
      BY <1>26, <3>1, RespondDoes DEF TypeOK
    <3>3. /\ SameRest /\ SameAside /\ SameReport /\ watched' = watched /\ mem' \in Records
      BY <1>26, RespondDoes DEF Becomes
    <3>4. /\ disk' \in Records \cup {None} /\ pend' = None /\ clean' \in BOOLEAN
          /\ pc' \in {"serving", "ending", "closing"}
      BY <1>26, <3>3, RespondDoes DEF TypeOK, Breaks
    <3>5. mem' # None
      BY <3>3, NoneAssumption
    <3>. QED  BY <3>2, <3>3, <3>4, <3>5 DEF TypeOK, SameRest, SameAside, SameReport
  <2>2. WorkerOK'
    BY <1>26, RespondDoes, OwnerKeeps, HeldRecord
       DEF WorkerOK, SameRest, Becomes, Hears, Breaks, Results
  <2>. QED  BY <2>1, <2>2
<1>27. CASE PromptFails
  <2>1. TypeOK'
    BY <1>27, PromptFailsDoes, NoneAssumption
       DEF TypeOK, WorkerOK, SameRest, SameAgent, SameReport, SameCount, SameAside, Becomes,
           Hears, Breaks, Goes
  <2>2. WorkerOK'
    BY <1>27, PromptFailsDoes, OwnerKeeps, HeldRecord
       DEF WorkerOK, SameRest, Becomes, Hears, Breaks, Results
  <2>. QED  BY <2>1, <2>2
<1>28. CASE ConnectionLost
  <2>1. TypeOK'
    BY <1>28, ConnectionLostDoes, NoneAssumption
       DEF TypeOK, WorkerOK, SameRecord, SameAgent, SameReport, SameCount, SameAside, Hears,
           Breaks, Goes
  <2>2. WorkerOK'
    BY <1>28, ConnectionLostDoes, OwnerKeeps, HeldRecord
       DEF WorkerOK, SameRecord, Hears, Breaks, Results
  <2>. QED  BY <2>1, <2>2
<1>29. CASE IdleExpires
  <2>1. TypeOK'
    BY <1>29, IdleExpiresDoes, NoneAssumption
       DEF TypeOK, WorkerOK, Aside, SameRecord, SameAside, SameAgent, SameReport, SameCount
  <2>2. WorkerOK'
    BY <1>29, IdleExpiresDoes, NoneAssumption
       DEF TypeOK, WorkerOK, Aside, SameRecord, SameAside, SameAgent, SameReport, SameCount
  <2>. QED  BY <2>1, <2>2
<1>30. CASE Watch
  <2>1. TypeOK'
    BY <1>30, WatchDoes, NoneAssumption
       DEF TypeOK, WorkerOK, Aside, SameRecord, SameAside, SameAgent, SameReport, SameCount
  <2>2. WorkerOK'
    BY <1>30, WatchDoes, NoneAssumption
       DEF TypeOK, WorkerOK, Aside, SameRecord, SameAside, SameAgent, SameReport, SameCount
  <2>. QED  BY <2>1, <2>2
<1>31. CASE Teardown
  <2>1. TypeOK'
    BY <1>31, TeardownDoes, NoneAssumption
       DEF TypeOK, WorkerOK, SameRest, SameReport, SameCount, SameAside, Becomes
  <2>2. WorkerOK'
    BY <1>31, TeardownDoes, OwnerKeeps, HeldRecord
       DEF WorkerOK, SameRest, Becomes
  <2>. QED  BY <2>1, <2>2
<1>32. CASE Close
  <2>1. TypeOK'
    BY <1>32, CloseDoes, NoneAssumption
       DEF TypeOK, WorkerOK, SameRest, SameAgent, SameReport, SameCount, SameAside, Goes,
           Becomes
  <2>2. WorkerOK'
    BY <1>32, CloseDoes, NoneAssumption, NoWorkerIs
       DEF TypeOK, WorkerOK, SameRest, SameAgent, SameReport, SameCount, SameAside, Goes,
           Becomes
  <2>. QED  BY <2>1, <2>2
<1>33. CASE AgentExits
  <2>1. TypeOK'
    BY <1>33, AgentExitsDoes, NoneAssumption
       DEF TypeOK, WorkerOK, SameRecord, SameOwner, SameReport, SameCount, SameAside
  <2>2. WorkerOK'
    BY <1>33, AgentExitsDoes, NoneAssumption
       DEF TypeOK, WorkerOK, SameRecord, SameOwner, SameReport, SameCount, SameAside
  <2>. QED  BY <2>1, <2>2
<1>34. CASE OrphanEndsTurn
  <2>1. TypeOK'
    BY <1>34, OrphanEndsTurnDoes, NoneAssumption
       DEF TypeOK, WorkerOK, SameRecord, SameOwner, SameReport, SameCount, SameAside
  <2>2. WorkerOK'
    BY <1>34, OrphanEndsTurnDoes, NoneAssumption
       DEF TypeOK, WorkerOK, SameRecord, SameOwner, SameReport, SameCount, SameAside
  <2>. QED  BY <2>1, <2>2
<1>35. CASE Crash
  <2>1. TypeOK'
    BY <1>35, CrashDoes, NoneAssumption
       DEF TypeOK, WorkerOK, SameRecord, SameAgent, SameReport, SameCount
  <2>2. WorkerOK'
    BY <1>35, CrashDoes, NoneAssumption, NoWorkerIs
       DEF TypeOK, WorkerOK, SameRecord, SameAgent, SameReport, SameCount
  <2>. QED  BY <2>1, <2>2
<1>36. CASE UNCHANGED vars
  BY <1>36 DEF vars, record, owner, worker, agent, report, count, TypeOK, WorkerOK
<1>. QED  BY <1>1, <1>2, <1>3, <1>4, <1>5, <1>6, <1>7, <1>8, <1>9, <1>10, <1>11, <1>12, <1>13,
             <1>14, <1>15, <1>16, <1>17, <1>18, <1>19, <1>20, <1>21, <1>22, <1>23, <1>24,
             <1>25, <1>26, <1>27, <1>28, <1>29, <1>30, <1>31, <1>32, <1>33, <1>34, <1>35, <1>36
          DEF Next, WorkerStep, OwnerStep
-----------------------------------------------------------------------------
(* No second agent. *)

\* While the owner goes on, its agent stays the one on record until it is reaped.
LEMMA AgentLeft ==
    ASSUME AgentInv, pc # "none", pc' # "claimed", up' \subseteq up, disk' \in {disk, mem'},
           mem' \in Records, mem'.owner = mem.owner,
           mem.process # "Stopped" => mem'.process # "Stopped" \/ up' = {},
           pc' = "closing" /\ clean' => up' = {}, w' = w \/ w'.pc = "observing"
    PROVE  AgentInv'
<1>1. w'.pc # "archiving"
  BY DEF AgentInv
<1>2. \A o \in up' : o = mem'.owner /\ mem'.process # "Stopped"
  BY DEF AgentInv
<1>3. \A o \in up' : disk' # None /\ disk'.owner = o /\ disk'.process # "Stopped"
  BY <1>2, NoneAssumption DEF AgentInv
<1>. QED  BY <1>1, <1>2, <1>3 DEF AgentInv

\* Every step keeps the agent that may be alive on record as the present owner's:
\* a claim needs proof that the last process is gone (verify_prior_process).
LEMMA AgentKept ==
    ASSUME TypeOK, WorkerOK, AgentInv, [Next]_vars
    PROVE  AgentInv'
<1>1. CASE StartAttempt
  BY <1>1, StartAttemptDoes
     DEF AgentInv, SameRecord, SameOwner, SameAgent
<1>2. CASE Prepare
  BY <1>2, PrepareDoes, NoWorkerIs
     DEF AgentInv, OnlyWorker, Goes, SameRecord, SameOwner, SameAside, SameAgent
<1>3. CASE RetireLive
  BY <1>3, RetireLiveDoes, NoWorkerIs
     DEF AgentInv, Aside, SameRecord, Goes, SameAside, SameAgent
<1>4. CASE RetirePersisted
  BY <1>4, RetirePersistedDoes, NoWorkerIs
     DEF AgentInv, Aside, SameRest, SameOwner, Goes, Becomes, SameAside, SameAgent,
         ProcessAbsent
<1>5. CASE Archive
  BY <1>5, ArchiveDoes
     DEF AgentInv, Aside, SameRest, SameOwner, Goes, SameAside, SameAgent
<1>6. CASE StartRun
  BY <1>6, StartRunDoes, NoWorkerIs
     DEF AgentInv, Aside, SameOwner, Goes, SameAside, SameAgent
<1>7. CASE Settle
  BY <1>7, SettleDoes
     DEF AgentInv, OnlyWorker, Goes, SameRecord, SameOwner, SameAside, SameAgent
<1>8. CASE Borrow
  BY <1>8, BorrowDoes
     DEF AgentInv, OnlyWorker, Goes, SameRecord, SameOwner, SameAside, SameAgent
<1>9. CASE Claim
  <2>1. pc = "none" /\ w.pc = "opening" /\ up' = up
    BY <1>9, ClaimDoes DEF Opens, SameAgent
  <2>2. CASE Refused
    BY <2>1, <2>2 DEF AgentInv, Refused, SameOwner, Goes
  <2>3. ASSUME NEW m \in Records, NEW c \in Records, Takes(m, c) PROVE AgentInv'
    <3>1. up = {}
      <4>1. CASE disk = None
        BY <4>1 DEF AgentInv
      <4>2. CASE disk # None
        BY <2>3, <4>2 DEF Takes, ClaimOk, ProcessAbsent, AgentInv
      <4>. QED  BY <4>1, <4>2
    <3>2. w.run \in Runs /\ w.grant \in Grants /\ claims + 1 \in Owners
      BY <2>1, <1>9, ClaimDoes, AcpAssumption DEF WorkerOK, Runs, Owners
    <3>3. c.process = "LaunchPending"
      BY <2>3, <3>2, ClaimedIs DEF Takes
    <3>4. /\ w'.pc # "archiving" /\ pc' # "closing"
          /\ pc' = "claimed" => mem' = c /\ disk' = c
      BY <2>3 DEF Takes, Goes
    <3>. QED  BY <2>1, <3>1, <3>3, <3>4 DEF AgentInv
  <2>. QED  BY <1>9, <2>2, <2>3, ClaimDoes
<1>10. CASE Inspect
  BY <1>10, InspectDoes
     DEF AgentInv, OnlyWorker, Goes, SameRecord, SameOwner, SameAside, SameAgent
<1>11. CASE AttachConversation
  BY <1>11, AttachConversationDoes
     DEF AgentInv, Aside, SameOwner, SameAside, SameAgent
<1>12. CASE SendPrompt
  BY <1>12, SendPromptDoes
     DEF AgentInv, Aside, SameRecord, Goes, SameAside, SameAgent, Mine, Serving
<1>13. CASE Observe
  <2>1. OnlyWorker /\ w.pc = "observing" /\ w'.pc = "concluding"
    BY <1>13, ObserveDoes DEF Goes
  <2>. QED  BY <2>1 DEF AgentInv, OnlyWorker, SameRecord, SameOwner, SameAgent
<1>14. CASE StreamLost
  BY <1>14, StreamLostDoes
     DEF AgentInv, Aside, SameRecord, Goes, Cancels, SameAside, SameAgent
<1>15. CASE Cancel
  BY <1>15, CancelDoes
     DEF AgentInv, SameRecord, SameAgent, Cancels
<1>16. CASE AcknowledgeStop
  BY <1>16, AcknowledgeStopDoes
     DEF AgentInv, SameRecord, SameOwner, SameAgent
<1>17. CASE InterruptTimesOut
  BY <1>17, InterruptTimesOutDoes
     DEF AgentInv, SameRecord, SameOwner, SameAgent
<1>18. CASE AbortWorker
  BY <1>18, AbortWorkerDoes, NoWorkerIs
     DEF AgentInv, OnlyWorker, SameRecord, SameOwner, SameAside, SameAgent
<1>19. CASE Conclude
  BY <1>19, ConcludeDoes, NoWorkerIs
     DEF AgentInv, SameOwner, SameAgent, SameAside
<1>20. CASE Spawn
  <2>1. /\ pc = "claimed" /\ disk' = mem /\ mem' = mem /\ w' = w /\ pc' \in {"spawned", "ending"}
        /\ up' \subseteq {mem.owner}
    BY <1>20, SpawnDoes DEF AgentInv, SameRecord
  <2>2. mem # None /\ mem.process # "Stopped" /\ w'.pc # "archiving"
    BY <2>1, HeldRecord, NoneAssumption DEF AgentInv
  <2>. QED  BY <2>1, <2>2 DEF AgentInv
<1>21. CASE RecordLaunch
  BY <1>21, RecordLaunchDoes, AgentLeft, HeldRecord
     DEF AgentInv, Becomes
<1>22. CASE SetUp
  BY <1>22, SetUpDoes, AgentLeft, HeldRecord
     DEF SameAgent, Becomes
<1>23. CASE Submit
  BY <1>23, SubmitDoes, AgentLeft, HeldRecord
     DEF SameAgent, Becomes, Hears, Breaks, Goes
<1>24. CASE WithdrawPrompt
  BY <1>24, WithdrawPromptDoes, AgentLeft, HeldRecord
     DEF SameAgent, Becomes, Hears, Breaks, Goes
<1>25. CASE Transmit
  BY <1>25, TransmitDoes
     DEF AgentInv, SameRecord, SameAside
<1>26. CASE Respond
  BY <1>26, RespondDoes, AgentLeft, HeldRecord
     DEF Becomes, Hears, Breaks, Goes
<1>27. CASE PromptFails
  BY <1>27, PromptFailsDoes, AgentLeft, HeldRecord
     DEF SameAgent, Becomes, Hears, Breaks, Goes
<1>28. CASE ConnectionLost
  BY <1>28, ConnectionLostDoes
     DEF AgentInv, SameRecord, SameAgent, SameAside, Hears, Breaks, Goes
<1>29. CASE IdleExpires
  BY <1>29, IdleExpiresDoes
     DEF AgentInv, Aside, SameRecord, SameAside, SameAgent
<1>30. CASE Watch
  BY <1>30, WatchDoes
     DEF AgentInv, Aside, SameRecord, SameAside, SameAgent
<1>31. CASE Teardown
  BY <1>31, TeardownDoes, AgentLeft, HeldRecord
     DEF AgentInv, Becomes
<1>32. CASE Close
  <2>1. /\ pc = "closing" /\ pc' = "none" /\ up' = up
        /\ disk' = disk \/ (disk' \in Records /\ disk'.owner = mem.owner /\ disk'.process = mem.process)
        /\ w'.pc = "archiving" => clean \/ w' = w
    BY <1>32, CloseDoes, NoWorkerIs DEF SameAgent, Becomes, Goes
  <2>2. \A o \in up : o = mem.owner /\ mem.process # "Stopped"
    BY <2>1 DEF AgentInv
  <2>3. \A o \in up : disk' # None /\ disk'.owner = o /\ disk'.process # "Stopped"
    BY <2>1, <2>2, NoneAssumption DEF AgentInv
  <2>4. w'.pc = "archiving" => up = {}
    BY <2>1 DEF AgentInv
  <2>. QED  BY <2>1, <2>3, <2>4 DEF AgentInv
<1>33. CASE AgentExits
  BY <1>33, AgentExitsDoes
     DEF AgentInv, SameRecord, SameOwner, SameAside
<1>34. CASE OrphanEndsTurn
  BY <1>34, OrphanEndsTurnDoes
     DEF AgentInv, SameRecord, SameOwner, SameAside
<1>35. CASE Crash
  BY <1>35, CrashDoes, NoWorkerIs
     DEF AgentInv, SameRecord, SameAgent
<1>36. CASE UNCHANGED vars
  BY <1>36 DEF vars, record, owner, worker, agent, AgentInv
<1>. QED  BY <1>1, <1>2, <1>3, <1>4, <1>5, <1>6, <1>7, <1>8, <1>9, <1>10, <1>11, <1>12, <1>13,
             <1>14, <1>15, <1>16, <1>17, <1>18, <1>19, <1>20, <1>21, <1>22, <1>23, <1>24,
             <1>25, <1>26, <1>27, <1>28, <1>29, <1>30, <1>31, <1>32, <1>33, <1>34, <1>35, <1>36
          DEF Next, WorkerStep, OwnerStep

-----------------------------------------------------------------------------
(* No prompt is sent twice. *)

\* A worker that opens a session has not sent its prompt: a recovered run that has is
\* settled from the record (try_run).
LEMMA OpensUnsent ==
    ASSUME TypeOK, WorkerOK, RunInv, FenceInv, Opens
    PROVE  w.pc = "opening" /\ w.run = file.run /\ w.run \in Runs /\ sent[w.run] = 0
<1>1. w.pc = "opening" /\ w.run = file.run /\ w.run \in Runs /\ w.run # None
  BY AcpAssumption DEF Opens, RunInv, WorkerOK, Runs
<1>2. CASE ~w.recovered
  BY <1>1, <1>2 DEF RunInv, Early
<1>3. CASE w.recovered /\ Sent(w.run)
  <2>1. disk # None
    BY <1>1, <1>3 DEF RunInv, Early
  <2>2. disk.run = w.run /\ disk.status # "Ready"
    BY <1>1, <1>3, <2>1 DEF FenceInv
  <2>. QED  BY <1>1, <1>3, <2>1, <2>2 DEF Opens, Reconciles
<1>4. sent[w.run] \in Nat
  BY <1>1 DEF TypeOK
<1>. QED  BY <1>1, <1>2, <1>3, <1>4 DEF Sent

\* An owner that goes on without sending or answering leaves the runs as they are.
LEMMA OwnerKeepsRuns ==
    ASSUME RunInv, pc # "none", AgentInv, sent' = sent, answered' = answered, file' = file,
           runs' = runs, disk' \in {disk, mem'}, mem' \in Records, pend' \in {pend, None},
           w' = w \/ w'.pc = "observing"
    PROVE  RunInv'
<1>1. disk' = disk \/ disk' # None
  BY NoneAssumption
<1>2. Unsettled' = Unsettled
  BY DEF Unsettled
<1>. QED  BY <1>1, <1>2 DEF RunInv, Sent, Early

\* Every step keeps the runs: a prompt goes out once, for a run that was started.
LEMMA RunKept ==
    ASSUME TypeOK, WorkerOK, AgentInv, RunInv, PendInv, FenceInv, [Next]_vars
    PROVE  RunInv'
<1>1. CASE StartAttempt
  <2>1. /\ sent' = sent /\ answered' = answered /\ pend' = pend /\ file' = file /\ disk' = disk
        /\ w'.pc = "starting"
    BY <1>1, StartAttemptDoes DEF SameAgent, SameOwner, SameRecord
  <2>2. CASE w'.recovered /\ boot /\ disk # None /\ w'.run = file.run /\ runs' = runs
    <3>1. pend = None
      BY <2>2 DEF WorkerOK, TypeOK
    <3>. QED  BY <2>1, <2>2, <3>1 DEF RunInv, Sent, Unsettled
  <2>3. CASE ~w'.recovered /\ w'.run = runs + 1 /\ runs' = runs + 1 /\ runs < MaxRuns
    <3>1. runs \in Nat /\ runs + 1 \in Runs /\ (pend # None => pend.run \in 1..runs)
      BY <2>3, AcpAssumption DEF WorkerOK, Runs
    <3>2. sent[runs + 1] \in Nat
      BY <3>1 DEF TypeOK
    <3>3. sent[runs + 1] = 0
      BY <3>1, <3>2 DEF RunInv, Sent
    <3>4. \A r \in Runs : r \in Nat /\ (r <= runs => r <= runs')
      BY <2>3, <3>1 DEF Runs
    <3>5. \A r \in Runs : sent'[r] <= 1 /\ (Sent(r)' => r <= runs')
      BY <2>1, <3>4 DEF RunInv, Sent
    <3>6. pend' # None => pend'.run # w'.run
      BY <2>1, <2>3, <3>1
    <3>. QED  BY <2>1, <2>3, <3>3, <3>5, <3>6 DEF RunInv, Sent, Early, Unsettled
  <2>. QED  BY <1>1, <2>2, <2>3, StartAttemptDoes
<1>2. CASE Prepare
  <2>1. /\ sent' = sent /\ answered' = answered /\ pend' = pend /\ file' = file /\ disk' = disk
        /\ runs' = runs /\ w.pc = "starting" /\ Unsettled' = Unsettled
    BY <1>2, PrepareDoes DEF OnlyWorker, SameAgent, SameOwner, SameRecord, SameCount, Unsettled
  <2>2. CASE w' = NoWorker
    BY <2>1, <2>2, NoWorkerIs DEF RunInv, Sent, Early
  <2>3. CASE Goes("recording", w.owner, w.res)
    BY <2>1, <2>3 DEF RunInv, Sent, Early, Goes
  <2>4. CASE Goes("rotating", w.owner, w.res) /\ disk # None /\ ~Reconciles
    <3>1. w.run \in Runs /\ sent[w.run] \in Nat /\ w.run # None
      BY <2>1, AcpAssumption DEF WorkerOK, TypeOK, Runs
    <3>2. sent[w.run] = 0
      BY <2>1, <2>4, <3>1 DEF RunInv, Early, FenceInv, Sent, Reconciles
    <3>. QED  BY <2>1, <2>4, <3>2 DEF RunInv, Sent, Early, Goes
  <2>. QED  BY <1>2, <2>2, <2>3, <2>4, PrepareDoes
<1>3. CASE RetireLive
  BY <1>3, RetireLiveDoes, NoWorkerIs
     DEF RunInv, Sent, Unsettled, Early, Aside, SameRecord, Goes, SameAside, SameAgent,
         SameCount
<1>4. CASE RetirePersisted
  BY <1>4, RetirePersistedDoes, NoWorkerIs
     DEF RunInv, Sent, Unsettled, Early, Aside, SameRest, SameOwner, Goes, Becomes, SameAside,
         SameAgent, SameCount, FenceInv
<1>5. CASE Archive
  BY <1>5, ArchiveDoes
     DEF RunInv, Sent, Unsettled, Early, Aside, SameRest, SameOwner, Goes, SameAside,
         SameAgent, SameCount
<1>6. CASE StartRun
  BY <1>6, StartRunDoes, NoWorkerIs
     DEF RunInv, Sent, Unsettled, Early, Aside, SameOwner, Goes, SameAside, SameAgent,
         SameCount
<1>7. CASE Settle
  BY <1>7, SettleDoes
     DEF RunInv, Sent, Unsettled, Early, OnlyWorker, Goes, SameRecord, SameOwner, SameAside,
         SameAgent, SameCount
<1>8. CASE Borrow
  <2>1. /\ sent' = sent /\ answered' = answered /\ pend' = pend /\ file' = file /\ disk' = disk
        /\ runs' = runs /\ w'.run = w.run /\ w'.pc \in {"concluding", "opened"} /\ Opens
    BY <1>8, BorrowDoes
       DEF OnlyWorker, SameAgent, SameOwner, SameRecord, SameCount, Goes
  <2>2. sent[w.run] = 0 /\ w.pc = "opening"
    BY <2>1, OpensUnsent
  <2>. QED  BY <2>1, <2>2 DEF RunInv, Sent, Early, Unsettled
<1>9. CASE Claim
  <2>1. /\ sent' = sent /\ answered' = answered /\ file' = file /\ runs' = runs /\ Opens
    BY <1>9, ClaimDoes DEF SameAgent, SameRest
  <2>2. sent[w.run] = 0 /\ w.pc = "opening" /\ w.run = file.run
    BY <2>1, OpensUnsent
  <2>3. CASE Refused
    BY <2>1, <2>2, <2>3 DEF RunInv, Sent, Early, Unsettled, Refused, SameOwner, Goes
  <2>4. CASE \E m, c \in Records : Takes(m, c)
    <3>1. pend' = None /\ w'.run = w.run /\ w'.pc \in {"concluding", "opened"}
      BY <2>4 DEF Takes, Goes
    <3>. QED  BY <2>1, <2>2, <3>1 DEF RunInv, Sent, Early, Unsettled
  <2>. QED  BY <1>9, <2>3, <2>4, ClaimDoes
<1>10. CASE Inspect
  BY <1>10, InspectDoes
     DEF RunInv, Sent, Unsettled, Early, OnlyWorker, Goes, SameRecord, SameOwner, SameAside,
         SameAgent, SameCount
<1>11. CASE AttachConversation
  BY <1>11, AttachConversationDoes
     DEF RunInv, Sent, Unsettled, Early, Aside, SameOwner, SameAside, SameAgent, SameCount
<1>12. CASE SendPrompt
  BY <1>12, SendPromptDoes
     DEF RunInv, Sent, Unsettled, Early, Aside, SameRecord, Goes, SameAside, SameAgent,
         SameCount
<1>13. CASE Observe
  BY <1>13, ObserveDoes
     DEF RunInv, Sent, Unsettled, Early, OnlyWorker, Goes, SameRecord, SameOwner, SameAside,
         SameAgent, SameCount
<1>14. CASE StreamLost
  BY <1>14, StreamLostDoes
     DEF RunInv, Sent, Unsettled, Early, Aside, SameRecord, Goes, Cancels, SameAside,
         SameAgent, SameCount
<1>15. CASE Cancel
  BY <1>15, CancelDoes
     DEF RunInv, Sent, Unsettled, Early, SameRecord, SameAgent, SameCount, Cancels
<1>16. CASE AcknowledgeStop
  BY <1>16, AcknowledgeStopDoes
     DEF RunInv, Sent, Unsettled, Early, SameRecord, SameOwner, SameAgent, SameCount
<1>17. CASE InterruptTimesOut
  BY <1>17, InterruptTimesOutDoes
     DEF RunInv, Sent, Unsettled, Early, SameRecord, SameOwner, SameAgent, SameCount
<1>18. CASE AbortWorker
  BY <1>18, AbortWorkerDoes, NoWorkerIs
     DEF RunInv, Sent, Unsettled, Early, OnlyWorker, SameRecord, SameOwner, SameAside,
         SameAgent, SameCount
<1>19. CASE Conclude
  BY <1>19, ConcludeDoes, NoWorkerIs
     DEF RunInv, Sent, Unsettled, Early, SameOwner, SameAgent, SameCount, SameAside
<1>20. CASE Spawn
  BY <1>20, SpawnDoes
     DEF RunInv, Sent, Unsettled, Early, SameRecord, SameCount, SameAside
<1>21. CASE RecordLaunch
  BY <1>21, RecordLaunchDoes, OwnerKeepsRuns, HeldRecord
     DEF SameRest, SameCount, Becomes
<1>22. CASE SetUp
  BY <1>22, SetUpDoes, OwnerKeepsRuns, HeldRecord
     DEF SameRest, SameAgent, SameCount, Becomes
<1>23. CASE Submit
  BY <1>23, SubmitDoes, OwnerKeepsRuns, HeldRecord
     DEF SameRest, SameAgent, SameCount, Becomes, Hears, Breaks, Goes
<1>24. CASE WithdrawPrompt
  BY <1>24, WithdrawPromptDoes, OwnerKeepsRuns, HeldRecord
     DEF SameRest, SameAgent, SameCount, Becomes, Hears, Breaks, Goes
<1>25. CASE Transmit
  <2>1. /\ pc = "submitted" /\ pc' = "prompting" /\ file' = file /\ disk' = disk /\ mem' = mem
        /\ pend' = pend /\ w' = w /\ answered' = answered /\ runs' = runs /\ up' = up
    BY <1>25, TransmitDoes DEF SameRecord, SameCount
  <2>2. sent[pend.run] = 0 /\ pend # None /\ pend.run \in Runs /\ pend.run \in 1..runs
    BY <2>1 DEF PendInv, TypeOK, Prompts, WorkerOK
  <2>3. sent'[pend.run] = 1 /\ \A r \in Runs : r # pend.run => sent'[r] = sent[r]
    BY <1>25, <2>2, TransmitDoes DEF TypeOK
  <2>4. disk = mem /\ mem.run = pend.run /\ mem.status = "Submitted"
    BY <2>1 DEF PendInv
  <2>5. Unsettled = {}
    BY <2>1, <2>2, <2>4 DEF FenceInv, Unsettled
  <2>6. w.pc \notin {"archiving"}
    BY <2>1 DEF AgentInv
  <2>7. w.pc \in Early \cup {"opened", "ready"} => w.run \in Runs /\ sent'[w.run] = sent[w.run]
    <3>. HAVE w.pc \in Early \cup {"opened", "ready"}
    <3>1. w.run \in Runs
      BY AcpAssumption DEF WorkerOK, Runs, Early
    <3>. QED  BY <2>2, <2>3, <3>1 DEF RunInv
  <2>8. \A r \in Runs : sent'[r] <= 1 /\ (Sent(r)' => r <= runs')
    <3>. TAKE r \in Runs
    <3>1. CASE r = pend.run
      BY <2>1, <2>2, <2>3, <3>1 DEF WorkerOK
    <3>2. CASE r # pend.run
      BY <2>1, <2>3, <3>2 DEF RunInv, Sent
    <3>. QED  BY <3>1, <3>2
  <2>9. \A r \in answered' : Sent(r)'
    BY <2>1, <2>2, <2>3 DEF RunInv, Sent, TypeOK
  <2>10. /\ w.pc \in Early => IF w.recovered THEN w.run = file.run ELSE sent'[w.run] = 0
         /\ w.pc \in Early /\ w.recovered /\ sent'[w.run] > 0 => disk # None
         /\ w.pc \in {"rotating", "retiring", "archiving", "opened", "ready"} => sent'[w.run] = 0
    BY <2>7 DEF RunInv, Sent, Early
  <2>. QED  BY <2>1, <2>6, <2>8, <2>9, <2>10 DEF RunInv, Sent
<1>26. CASE Respond
  <2>1. /\ pc = "prompting" /\ sent' = sent /\ answered' = answered \cup {pend.run}
        /\ file' = file /\ runs' = runs /\ pend' = None /\ disk' \in {disk, mem'}
        /\ mem' \in Records /\ (w' = w \/ w'.pc = "observing")
    BY <1>26, RespondDoes DEF SameRest, SameCount, Becomes, Breaks, Hears, Goes
  <2>2. w.pc # "archiving" /\ Sent(pend.run)
    BY <2>1 DEF AgentInv, PendInv
  <2>3. disk' = disk \/ disk' # None
    BY <2>1, NoneAssumption
  <2>. QED  BY <2>1, <2>2, <2>3 DEF RunInv, Sent, Early
<1>27. CASE PromptFails
  BY <1>27, PromptFailsDoes, OwnerKeepsRuns, HeldRecord
     DEF SameRest, SameAgent, SameCount, Becomes, Hears, Breaks, Goes
<1>28. CASE ConnectionLost
  BY <1>28, ConnectionLostDoes
     DEF RunInv, Sent, Unsettled, Early, SameRecord, SameAgent, SameCount, SameAside, Hears,
         Breaks, Goes
<1>29. CASE IdleExpires
  BY <1>29, IdleExpiresDoes
     DEF RunInv, Sent, Unsettled, Early, Aside, SameRecord, SameAside, SameAgent, SameCount
<1>30. CASE Watch
  BY <1>30, WatchDoes
     DEF RunInv, Sent, Unsettled, Early, Aside, SameRecord, SameAside, SameAgent, SameCount
<1>31. CASE Teardown
  BY <1>31, TeardownDoes, OwnerKeepsRuns, HeldRecord
     DEF SameRest, SameCount, Becomes
<1>32. CASE Close
  <2>1. /\ pc = "closing" /\ sent' = sent /\ Unsettled' = Unsettled /\ answered' = answered
        /\ file' = file /\ runs' = runs /\ pend' = None /\ (disk' = disk \/ disk' # None)
    BY <1>32, CloseDoes, NoneAssumption DEF SameAgent, SameRest, SameCount, Becomes, Unsettled
  <2>2. \/ w' = w \/ w'.pc = "idle"
        \/ w.pc = "retiring" /\ ~Fenced(mem) /\ Goes("archiving", w.owner, w.res)
    BY <1>32, CloseDoes, NoWorkerIs
  <2>3. ~Fenced(mem) => Unsettled = {}
    BY <2>1 DEF FenceInv
  <2>. QED  BY <2>1, <2>2, <2>3 DEF RunInv, Sent, Early, Goes
<1>33. CASE AgentExits
  BY <1>33, AgentExitsDoes
     DEF RunInv, Sent, Unsettled, Early, SameRecord, SameOwner, SameCount, SameAside
<1>34. CASE OrphanEndsTurn
  BY <1>34, OrphanEndsTurnDoes
     DEF RunInv, Sent, Unsettled, Early, SameRecord, SameOwner, SameCount, SameAside
<1>35. CASE Crash
  BY <1>35, CrashDoes, NoWorkerIs
     DEF RunInv, Sent, Unsettled, Early, SameRecord, SameAgent, SameCount
<1>36. CASE UNCHANGED vars
  BY <1>36 DEF vars, record, owner, worker, agent, report, count, RunInv, Sent, Unsettled, Early
<1>. QED  BY <1>1, <1>2, <1>3, <1>4, <1>5, <1>6, <1>7, <1>8, <1>9, <1>10, <1>11, <1>12, <1>13,
             <1>14, <1>15, <1>16, <1>17, <1>18, <1>19, <1>20, <1>21, <1>22, <1>23, <1>24,
             <1>25, <1>26, <1>27, <1>28, <1>29, <1>30, <1>31, <1>32, <1>33, <1>34, <1>35, <1>36
          DEF Next, WorkerStep, OwnerStep

-----------------------------------------------------------------------------
(* The owner's prompt. *)

\* Every step keeps the prompt of the owner, which is on record before it is sent.
LEMMA PendKept ==
    ASSUME TypeOK, WorkerOK, AgentInv, RunInv, PendInv, FenceInv, [Next]_vars
    PROVE  PendInv'
<1>1. CASE StartAttempt
  BY <1>1, StartAttemptDoes
     DEF PendInv, Sent, Fenced, Starting, SameRecord, SameOwner, SameAgent
<1>2. CASE Prepare
  BY <1>2, PrepareDoes
     DEF PendInv, Sent, Fenced, Starting, OnlyWorker, Goes, SameRecord, SameOwner, SameAside,
         SameAgent
<1>3. CASE RetireLive
  BY <1>3, RetireLiveDoes
     DEF PendInv, Sent, Fenced, Starting, Aside, SameRecord, Goes, SameAside, SameAgent
<1>4. CASE RetirePersisted
  BY <1>4, RetirePersistedDoes
     DEF PendInv, Sent, Fenced, Starting, Aside, SameRest, SameOwner, Goes, Becomes, SameAside,
         SameAgent
<1>5. CASE Archive
  BY <1>5, ArchiveDoes
     DEF PendInv, Sent, Fenced, Starting, Aside, SameRest, SameOwner, Goes, SameAside,
         SameAgent, AgentInv
<1>6. CASE StartRun
  <2>1. /\ sent' = sent /\ pc' = pc /\ mem' = mem /\ pend' = pend /\ disk' = disk
        /\ w.pc = "recording"
    BY <1>6, StartRunDoes DEF Aside, SameAgent, SameOwner
  <2>2. file' = file \/ (file'.run = w.run /\ ~w.recovered)
    BY <1>6, StartRunDoes
  <2>3. ~w.recovered => w.run # None /\ sent[w.run] = 0
    BY <2>1, AcpAssumption DEF RunInv, Early, WorkerOK
  <2>. QED  BY <2>1, <2>2, <2>3 DEF PendInv, Sent
<1>7. CASE Settle
  BY <1>7, SettleDoes
     DEF PendInv, Sent, Fenced, Starting, OnlyWorker, Goes, SameRecord, SameOwner, SameAside,
         SameAgent
<1>8. CASE Borrow
  BY <1>8, BorrowDoes
     DEF PendInv, Sent, Fenced, Starting, OnlyWorker, Goes, SameRecord, SameOwner, SameAside,
         SameAgent
<1>9. CASE Claim
  <2>1. pc = "none" /\ sent' = sent /\ answered' = answered /\ file' = file /\ Opens
    BY <1>9, ClaimDoes DEF SameAgent, SameRest
  <2>2. sent[w.run] = 0 /\ w.run = file.run /\ w.run \in Runs /\ w.run # None
    BY <2>1, OpensUnsent, AcpAssumption DEF Runs
  <2>3. w.grant \in Grants /\ claims + 1 \in Owners
    BY <1>9, ClaimDoes, AcpAssumption DEF Opens, WorkerOK, Owners
  <2>4. CASE Refused
    BY <2>1, <2>4 DEF PendInv, Sent, Refused, SameOwner
  <2>5. ASSUME NEW m \in Records, NEW c \in Records, Takes(m, c) PROVE PendInv'
    <3>1. /\ pend' = None /\ pc' \in {"claimed", "none"}
          /\ pc' = "claimed" => mem' = c
      BY <2>5 DEF Takes
    <3>2. ~Fenced(c)
      BY <2>2, <2>3, <2>5, ClaimedIs DEF Takes, ClaimOk, Fenced
    <3>. QED  BY <2>1, <2>2, <3>1, <3>2 DEF PendInv, Sent, Starting
  <2>. QED  BY <1>9, <2>4, <2>5, ClaimDoes
<1>10. CASE Inspect
  BY <1>10, InspectDoes
     DEF PendInv, Sent, Fenced, Starting, OnlyWorker, Goes, SameRecord, SameOwner, SameAside,
         SameAgent
<1>11. CASE AttachConversation
  BY <1>11, AttachConversationDoes
     DEF PendInv, Sent, Fenced, Starting, Aside, SameOwner, SameAside, SameAgent
<1>12. CASE SendPrompt
  BY <1>12, SendPromptDoes
     DEF PendInv, Sent, Fenced, Starting, Aside, SameRecord, Goes, SameAside, SameAgent,
         RunInv, Mine, Serving, TypeOK
<1>13. CASE Observe
  BY <1>13, ObserveDoes
     DEF PendInv, Sent, Fenced, Starting, OnlyWorker, Goes, SameRecord, SameOwner, SameAside,
         SameAgent
<1>14. CASE StreamLost
  BY <1>14, StreamLostDoes
     DEF PendInv, Sent, Fenced, Starting, Aside, SameRecord, Goes, Cancels, SameAside,
         SameAgent
<1>15. CASE Cancel
  BY <1>15, CancelDoes
     DEF PendInv, Sent, Fenced, Starting, SameRecord, SameAgent, Cancels
<1>16. CASE AcknowledgeStop
  BY <1>16, AcknowledgeStopDoes
     DEF PendInv, Sent, Fenced, Starting, SameRecord, SameOwner, SameAgent
<1>17. CASE InterruptTimesOut
  BY <1>17, InterruptTimesOutDoes
     DEF PendInv, Sent, Fenced, Starting, SameRecord, SameOwner, SameAgent
<1>18. CASE AbortWorker
  BY <1>18, AbortWorkerDoes
     DEF PendInv, Sent, Fenced, Starting, OnlyWorker, SameRecord, SameOwner, SameAside,
         SameAgent
<1>19. CASE Conclude
  BY <1>19, ConcludeDoes
     DEF PendInv, Sent, Fenced, Starting, SameOwner, SameAgent, SameAside
<1>20. CASE Spawn
  BY <1>20, SpawnDoes
     DEF PendInv, Sent, Fenced, Starting, SameRecord, SameAside
<1>21. CASE RecordLaunch
  BY <1>21, RecordLaunchDoes
     DEF PendInv, Sent, Fenced, Starting, SameRest, SameAside, Becomes
<1>22. CASE SetUp
  BY <1>22, SetUpDoes
     DEF PendInv, Sent, Fenced, Starting, SameRest, SameAgent, SameAside, Becomes
<1>23. CASE Submit
  BY <1>23, SubmitDoes
     DEF PendInv, Sent, Fenced, Starting, SameRest, SameAgent, SameAside, Becomes, Hears,
         Breaks, Goes
<1>24. CASE WithdrawPrompt
  BY <1>24, WithdrawPromptDoes
     DEF PendInv, Sent, Fenced, Starting, SameRest, SameAgent, SameAside, Becomes, Hears,
         Breaks, Goes
<1>25. CASE Transmit
  <2>1. /\ pc = "submitted" /\ pc' = "prompting" /\ file' = file /\ disk' = disk /\ mem' = mem
        /\ pend' = pend /\ w' = w /\ answered' = answered /\ runs' = runs /\ up' = up
    BY <1>25, TransmitDoes DEF SameRecord, SameCount
  <2>2. sent[pend.run] = 0 /\ pend # None /\ pend.run \in Runs /\ pend.run \in 1..runs
    BY <2>1 DEF PendInv, TypeOK, Prompts, WorkerOK
  <2>3. sent'[pend.run] = 1 /\ \A r \in Runs : r # pend.run => sent'[r] = sent[r]
    BY <1>25, <2>2, TransmitDoes DEF TypeOK
  <2>4. disk = mem /\ mem.run = pend.run /\ mem.status = "Submitted"
    BY <2>1 DEF PendInv
  <2>5. Unsettled = {}
    BY <2>1, <2>2, <2>4 DEF FenceInv, Unsettled
  <2>6. pend.run = file.run \/ (file.run # None /\ sent'[file.run] = 0)
    <3>1. CASE pend.run = file.run
      BY <3>1
    <3>2. CASE pend.run # file.run
      <4>1. file.run # None /\ sent[file.run] = 0
        BY <2>1, <2>2, <3>2 DEF PendInv
      <4>2. file.run \in Runs
        BY <4>1, AcpAssumption DEF WorkerOK, Runs
      <4>. QED  BY <2>3, <3>2, <4>1, <4>2
    <3>. QED  BY <3>1, <3>2
  <2>. QED  BY <2>1, <2>3, <2>4, <2>6 DEF PendInv, Sent, Starting
<1>26. CASE Respond
  BY <1>26, RespondDoes
     DEF PendInv, Sent, Fenced, Starting, SameRest, SameAside, Becomes, Hears, Breaks, Goes
<1>27. CASE PromptFails
  BY <1>27, PromptFailsDoes
     DEF PendInv, Sent, Fenced, Starting, SameRest, SameAgent, SameAside, Becomes, Hears,
         Breaks, Goes
<1>28. CASE ConnectionLost
  BY <1>28, ConnectionLostDoes
     DEF PendInv, Sent, Fenced, Starting, SameRecord, SameAgent, SameAside, Hears, Breaks, Goes
<1>29. CASE IdleExpires
  BY <1>29, IdleExpiresDoes
     DEF PendInv, Sent, Fenced, Starting, Aside, SameRecord, SameAside, SameAgent
<1>30. CASE Watch
  BY <1>30, WatchDoes
     DEF PendInv, Sent, Fenced, Starting, Aside, SameRecord, SameAside, SameAgent
<1>31. CASE Teardown
  BY <1>31, TeardownDoes
     DEF PendInv, Sent, Fenced, Starting, SameRest, SameAside, Becomes
<1>32. CASE Close
  BY <1>32, CloseDoes
     DEF PendInv, Sent, Fenced, Starting, SameRest, SameAgent, SameAside, Goes, Becomes
<1>33. CASE AgentExits
  BY <1>33, AgentExitsDoes
     DEF PendInv, Sent, Fenced, Starting, SameRecord, SameOwner, SameAside
<1>34. CASE OrphanEndsTurn
  BY <1>34, OrphanEndsTurnDoes
     DEF PendInv, Sent, Fenced, Starting, SameRecord, SameOwner, SameAside
<1>35. CASE Crash
  BY <1>35, CrashDoes
     DEF PendInv, Sent, Fenced, Starting, SameRecord, SameAgent
<1>36. CASE UNCHANGED vars
  BY <1>36 DEF vars, record, owner, worker, agent, report, count, PendInv, Sent, Fenced, Starting
<1>. QED  BY <1>1, <1>2, <1>3, <1>4, <1>5, <1>6, <1>7, <1>8, <1>9, <1>10, <1>11, <1>12, <1>13,
             <1>14, <1>15, <1>16, <1>17, <1>18, <1>19, <1>20, <1>21, <1>22, <1>23, <1>24,
             <1>25, <1>26, <1>27, <1>28, <1>29, <1>30, <1>31, <1>32, <1>33, <1>34, <1>35, <1>36
          DEF Next, WorkerStep, OwnerStep

-----------------------------------------------------------------------------
(* The fence. *)

\* Every step keeps the fence of a prompt without an answer, in memory and on disk,
\* also when the write of its outcome fails or the daemon dies.
LEMMA FenceKept ==
    ASSUME TypeOK, WorkerOK, AgentInv, RunInv, PendInv, FenceInv, [Next]_vars
    PROVE  FenceInv'
<1>1. CASE StartAttempt
  BY <1>1, StartAttemptDoes
     DEF FenceInv, Sent, Fenced, Unsettled, SameRecord, SameOwner, SameAgent
<1>2. CASE Prepare
  BY <1>2, PrepareDoes
     DEF FenceInv, Sent, Fenced, Unsettled, OnlyWorker, Goes, SameRecord, SameOwner, SameAside,
         SameAgent
<1>3. CASE RetireLive
  BY <1>3, RetireLiveDoes
     DEF FenceInv, Sent, Fenced, Unsettled, Aside, SameRecord, Goes, SameAside, SameAgent
<1>4. CASE RetirePersisted
  BY <1>4, RetirePersistedDoes, NoneAssumption
     DEF FenceInv, Sent, Fenced, Unsettled, Aside, SameRest, SameOwner, Goes, Becomes,
         SameAside, SameAgent
<1>5. CASE Archive
  BY <1>5, ArchiveDoes
     DEF FenceInv, Sent, Fenced, Unsettled, Aside, SameRest, SameOwner, Goes, SameAside,
         SameAgent, RunInv
<1>6. CASE StartRun
  BY <1>6, StartRunDoes
     DEF FenceInv, Sent, Fenced, Unsettled, Aside, SameOwner, Goes, SameAside, SameAgent,
         RunInv, Early
<1>7. CASE Settle
  BY <1>7, SettleDoes
     DEF FenceInv, Sent, Fenced, Unsettled, OnlyWorker, Goes, SameRecord, SameOwner, SameAside,
         SameAgent
<1>8. CASE Borrow
  BY <1>8, BorrowDoes
     DEF FenceInv, Sent, Fenced, Unsettled, OnlyWorker, Goes, SameRecord, SameOwner, SameAside,
         SameAgent
<1>9. CASE Claim
  <2>1. pc = "none" /\ sent' = sent /\ answered' = answered /\ file' = file /\ Opens
    BY <1>9, ClaimDoes DEF SameAgent, SameRest
  <2>2. sent[w.run] = 0 /\ w.run = file.run /\ w.run \in Runs /\ w.run # None
    BY <2>1, OpensUnsent, AcpAssumption DEF Runs
  <2>3. w.grant \in Grants /\ claims + 1 \in Owners
    BY <1>9, ClaimDoes, AcpAssumption DEF Opens, WorkerOK, Owners
  <2>4. CASE Refused
    BY <2>1, <2>4 DEF FenceInv, Sent, Unsettled, Refused, SameOwner
  <2>5. ASSUME NEW m \in Records, NEW c \in Records, Takes(m, c) PROVE FenceInv'
    <3>1. disk # None => ~Fenced(disk)
      BY <2>5 DEF Takes, ClaimOk
    <3>2. Unsettled = {}
      BY <3>1 DEF FenceInv
    <3>3. Unsettled' = {}
      BY <2>1, <3>2 DEF Unsettled
    <3>. QED  BY <2>1, <2>2, <3>3 DEF FenceInv, Sent
  <2>. QED  BY <1>9, <2>4, <2>5, ClaimDoes
<1>10. CASE Inspect
  BY <1>10, InspectDoes
     DEF FenceInv, Sent, Fenced, Unsettled, OnlyWorker, Goes, SameRecord, SameOwner, SameAside,
         SameAgent
<1>11. CASE AttachConversation
  BY <1>11, AttachConversationDoes
     DEF FenceInv, Sent, Fenced, Unsettled, Aside, SameOwner, SameAside, SameAgent
<1>12. CASE SendPrompt
  BY <1>12, SendPromptDoes
     DEF FenceInv, Sent, Fenced, Unsettled, Aside, SameRecord, Goes, SameAside, SameAgent,
         Mine, Serving
<1>13. CASE Observe
  BY <1>13, ObserveDoes
     DEF FenceInv, Sent, Fenced, Unsettled, OnlyWorker, Goes, SameRecord, SameOwner, SameAside,
         SameAgent
<1>14. CASE StreamLost
  BY <1>14, StreamLostDoes
     DEF FenceInv, Sent, Fenced, Unsettled, Aside, SameRecord, Goes, Cancels, SameAside,
         SameAgent
<1>15. CASE Cancel
  BY <1>15, CancelDoes
     DEF FenceInv, Sent, Fenced, Unsettled, SameRecord, SameAgent, Cancels
<1>16. CASE AcknowledgeStop
  BY <1>16, AcknowledgeStopDoes
     DEF FenceInv, Sent, Fenced, Unsettled, SameRecord, SameOwner, SameAgent
<1>17. CASE InterruptTimesOut
  BY <1>17, InterruptTimesOutDoes
     DEF FenceInv, Sent, Fenced, Unsettled, SameRecord, SameOwner, SameAgent
<1>18. CASE AbortWorker
  BY <1>18, AbortWorkerDoes
     DEF FenceInv, Sent, Fenced, Unsettled, OnlyWorker, SameRecord, SameOwner, SameAside,
         SameAgent
<1>19. CASE Conclude
  BY <1>19, ConcludeDoes
     DEF FenceInv, Sent, Fenced, Unsettled, SameOwner, SameAgent, SameAside
<1>20. CASE Spawn
  BY <1>20, SpawnDoes
     DEF FenceInv, Sent, Fenced, Unsettled, SameRecord, SameAside
<1>21. CASE RecordLaunch
  BY <1>21, RecordLaunchDoes, HeldRecord
     DEF FenceInv, Sent, Fenced, Unsettled, SameRest, SameAside, Becomes, PendInv, Starting
<1>22. CASE SetUp
  BY <1>22, SetUpDoes, HeldRecord
     DEF FenceInv, Sent, Fenced, Unsettled, SameRest, SameAgent, SameAside, Becomes, PendInv,
         Starting
<1>23. CASE Submit
  <2>1. /\ pc = "preparing" /\ sent' = sent /\ answered' = answered /\ file' = file
        /\ \/ mem' = mem /\ disk' = disk
           \/ /\ disk' \in {disk, mem'} /\ mem'.run = pend.run /\ mem'.status = "Submitted"
    BY <1>23, SubmitDoes DEF SameAgent, SameRest, Becomes
  <2>2. Unsettled = {} /\ Unsettled' = {}
    BY <2>1 DEF FenceInv, PendInv, Unsettled
  <2>3. file.run # None => sent[file.run] = 0
    BY <2>1 DEF PendInv, TypeOK
  <2>. QED  BY <2>1, <2>2, <2>3 DEF FenceInv, Sent
<1>24. CASE WithdrawPrompt
  BY <1>24, WithdrawPromptDoes, HeldRecord
     DEF FenceInv, Sent, Fenced, Unsettled, SameRest, SameAgent, SameAside, Becomes, Hears,
         Breaks, Goes, PendInv, Starting
<1>25. CASE Transmit
  <2>1. /\ pc = "submitted" /\ pc' = "prompting" /\ file' = file /\ disk' = disk /\ mem' = mem
        /\ pend' = pend /\ w' = w /\ answered' = answered /\ runs' = runs /\ up' = up
    BY <1>25, TransmitDoes DEF SameRecord, SameCount
  <2>2. sent[pend.run] = 0 /\ pend # None /\ pend.run \in Runs /\ pend.run \in 1..runs
    BY <2>1 DEF PendInv, TypeOK, Prompts, WorkerOK
  <2>3. sent'[pend.run] = 1 /\ \A r \in Runs : r # pend.run => sent'[r] = sent[r]
    BY <1>25, <2>2, TransmitDoes DEF TypeOK
  <2>4. disk = mem /\ mem.run = pend.run /\ mem.status = "Submitted"
    BY <2>1 DEF PendInv
  <2>5. Unsettled = {}
    BY <2>1, <2>2, <2>4 DEF FenceInv, Unsettled
  <2>6. file.run # None /\ sent'[file.run] > 0 => file.run = pend.run
    <3>1. file.run # None => file.run \in Runs
      BY AcpAssumption DEF WorkerOK, Runs
    <3>2. pend.run = file.run \/ (file.run # None /\ sent[file.run] = 0)
      BY <2>2 DEF PendInv
    <3>. QED  BY <2>3, <3>1, <3>2
  <2>7. \A r \in Unsettled' : r = pend.run
    BY <2>1, <2>3, <2>5 DEF Unsettled
  <2>8. disk # None
    BY <2>1, <2>4 DEF TypeOK
  <2>. QED  BY <2>1, <2>4, <2>6, <2>7, <2>8 DEF FenceInv, Sent, Fenced
<1>26. CASE Respond
  <2>1. /\ pc = "prompting" /\ sent' = sent /\ answered' = answered \cup {pend.run}
        /\ file' = file /\ disk' \in {disk, mem'} /\ mem' \in Records
        /\ mem'.run = mem.run /\ mem'.status = "Finished"
    BY <1>26, RespondDoes DEF SameRest, Becomes
  <2>2. disk = mem /\ mem.run = pend.run
    BY <2>1 DEF PendInv
  <2>3. Unsettled' = {}
    BY <2>1, <2>2 DEF FenceInv, Unsettled
  <2>. QED  BY <2>1, <2>2, <2>3 DEF FenceInv, Sent
<1>27. CASE PromptFails
  BY <1>27, PromptFailsDoes, HeldRecord, NoneAssumption
     DEF FenceInv, Sent, Fenced, Unsettled, SameRest, SameAgent, SameAside, Becomes, Hears,
         Breaks, Goes
<1>28. CASE ConnectionLost
  BY <1>28, ConnectionLostDoes
     DEF FenceInv, Sent, Fenced, Unsettled, SameRecord, SameAgent, SameAside, Hears, Breaks,
         Goes
<1>29. CASE IdleExpires
  BY <1>29, IdleExpiresDoes
     DEF FenceInv, Sent, Fenced, Unsettled, Aside, SameRecord, SameAside, SameAgent
<1>30. CASE Watch
  BY <1>30, WatchDoes
     DEF FenceInv, Sent, Fenced, Unsettled, Aside, SameRecord, SameAside, SameAgent
<1>31. CASE Teardown
  BY <1>31, TeardownDoes, HeldRecord, NoneAssumption
     DEF FenceInv, Sent, Fenced, Unsettled, SameRest, SameAside, Becomes
<1>32. CASE Close
  BY <1>32, CloseDoes, HeldRecord, NoneAssumption
     DEF FenceInv, Sent, Fenced, Unsettled, SameRest, SameAgent, SameAside, Goes, Becomes
<1>33. CASE AgentExits
  BY <1>33, AgentExitsDoes
     DEF FenceInv, Sent, Fenced, Unsettled, SameRecord, SameOwner, SameAside
<1>34. CASE OrphanEndsTurn
  BY <1>34, OrphanEndsTurnDoes
     DEF FenceInv, Sent, Fenced, Unsettled, SameRecord, SameOwner, SameAside
<1>35. CASE Crash
  BY <1>35, CrashDoes
     DEF FenceInv, Sent, Fenced, Unsettled, SameRecord, SameAgent
<1>36. CASE UNCHANGED vars
  BY <1>36 DEF vars, record, owner, worker, agent, report, count, FenceInv, Sent, Fenced,
     Unsettled
<1>. QED  BY <1>1, <1>2, <1>3, <1>4, <1>5, <1>6, <1>7, <1>8, <1>9, <1>10, <1>11, <1>12, <1>13,
             <1>14, <1>15, <1>16, <1>17, <1>18, <1>19, <1>20, <1>21, <1>22, <1>23, <1>24,
             <1>25, <1>26, <1>27, <1>28, <1>29, <1>30, <1>31, <1>32, <1>33, <1>34, <1>35, <1>36
          DEF Next, WorkerStep, OwnerStep

-----------------------------------------------------------------------------
(* The context of a session. *)

\* Every step keeps the promise of a seeded record.
LEMMA ContextKept ==
    ASSUME TypeOK, WorkerOK, AgentInv, RunInv, PendInv, FenceInv,
           ContextInv, ParentInv, TaskInv, QuietInv, OutcomeInv, [Next]_vars
    PROVE  ContextInv'
<1>1. CASE StartAttempt
  BY <1>1, StartAttemptDoes
     DEF ContextInv, Mine, Serving, Starting, SameRecord, SameOwner, SameAgent
<1>2. CASE Prepare
  BY <1>2, PrepareDoes, NoWorkerIs
     DEF ContextInv, Mine, Serving, Starting, OnlyWorker, Goes, SameRecord, SameOwner,
         SameAgent
<1>3. CASE RetireLive
  BY <1>3, RetireLiveDoes, NoWorkerIs
     DEF ContextInv, Mine, Serving, Starting, Aside, SameRecord, Goes, SameAgent
<1>4. CASE RetirePersisted
  BY <1>4, RetirePersistedDoes, NoWorkerIs, NoneAssumption
     DEF ContextInv, Mine, Serving, Starting, Aside, SameRest, SameOwner, Goes, Becomes,
         SameAgent, Keeps
<1>5. CASE Archive
  BY <1>5, ArchiveDoes
     DEF ContextInv, Mine, Serving, Starting, Aside, SameRest, SameOwner, Goes, SameAgent
<1>6. CASE StartRun
  BY <1>6, StartRunDoes, NoWorkerIs
     DEF ContextInv, Mine, Serving, Starting, Aside, SameOwner, Goes, SameAgent
<1>7. CASE Settle
  BY <1>7, SettleDoes
     DEF ContextInv, Mine, Serving, Starting, OnlyWorker, Goes, SameRecord, SameOwner,
         SameAgent
<1>8. CASE Borrow
  BY <1>8, BorrowDoes
     DEF ContextInv, Mine, Serving, Starting, OnlyWorker, Goes, SameRecord, SameOwner,
         SameAgent
<1>9. CASE Claim
  <2>1. pc = "none" /\ w.pc = "opening" /\ ctx' = ctx /\ file' = file /\ bound' = bound /\ parent' = parent
    BY <1>9, ClaimDoes DEF SameAgent, SameRest, Opens
  <2>2. w.run \in Runs /\ w.grant \in Grants /\ claims + 1 \in Owners
    BY <1>9, <2>1, ClaimDoes, AcpAssumption DEF WorkerOK, Runs, Owners
  <2>3. CASE Refused
    BY <2>1, <2>3 DEF ContextInv, Refused, SameOwner, Goes, Mine
  <2>4. ASSUME NEW m \in Records, NEW c \in Records, Takes(m, c) PROVE ContextInv'
    <3>1. c.seeded = m.seeded /\ c.session = m.session
      BY <2>2, <2>4, ClaimedIs DEF Takes
    <3>2. m.seeded => disk # None /\ m = disk
      BY <2>2, <2>4, NewRecordIs DEF Takes
    <3>3. /\ pend' = None /\ w'.pc # "ready" /\ pc' \in {"none", "claimed"}
          /\ disk' \in {disk, c} /\ (pc' # "none" => mem' = c)
      BY <2>4 DEF Takes, Goes
    <3>4. c.seeded => c.session \in ctx
      BY <3>1, <3>2 DEF ContextInv
    <3>. QED  BY <2>1, <3>3, <3>4 DEF ContextInv
  <2>. QED  BY <1>9, <2>3, <2>4, ClaimDoes
<1>10. CASE Inspect
  BY <1>10, InspectDoes
     DEF ContextInv, Mine, Serving, Starting, OnlyWorker, Goes, SameRecord, SameOwner,
         SameAgent
<1>11. CASE AttachConversation
  BY <1>11, AttachConversationDoes
     DEF ContextInv, Mine, Serving, Starting, Aside, SameOwner, SameAgent
<1>12. CASE SendPrompt
  BY <1>12, SendPromptDoes
     DEF ContextInv, Mine, Serving, Starting, Aside, SameRecord, Goes, SameAgent
<1>13. CASE Observe
  BY <1>13, ObserveDoes
     DEF ContextInv, Mine, Serving, Starting, OnlyWorker, Goes, SameRecord, SameOwner,
         SameAgent
<1>14. CASE StreamLost
  BY <1>14, StreamLostDoes
     DEF ContextInv, Mine, Serving, Starting, Aside, SameRecord, Goes, Cancels, SameAgent
<1>15. CASE Cancel
  BY <1>15, CancelDoes
     DEF ContextInv, Mine, Serving, Starting, SameRecord, SameAgent, Cancels
<1>16. CASE AcknowledgeStop
  BY <1>16, AcknowledgeStopDoes
     DEF ContextInv, Mine, Serving, Starting, SameRecord, SameOwner, SameAgent
<1>17. CASE InterruptTimesOut
  BY <1>17, InterruptTimesOutDoes
     DEF ContextInv, Mine, Serving, Starting, SameRecord, SameOwner, SameAgent
<1>18. CASE AbortWorker
  BY <1>18, AbortWorkerDoes, NoWorkerIs
     DEF ContextInv, Mine, Serving, Starting, OnlyWorker, SameRecord, SameOwner, SameAgent
<1>19. CASE Conclude
  BY <1>19, ConcludeDoes, NoWorkerIs
     DEF ContextInv, Mine, Serving, Starting, SameOwner, SameAgent
<1>20. CASE Spawn
  BY <1>20, SpawnDoes
     DEF ContextInv, Mine, Serving, Starting, SameRecord
<1>21. CASE RecordLaunch
  BY <1>21, RecordLaunchDoes, HeldRecord, NoneAssumption
     DEF ContextInv, Mine, Serving, Starting, SameRest, Becomes, Keeps
<1>22. CASE SetUp
  BY <1>22, SetUpDoes, HeldRecord, NoneAssumption
     DEF ContextInv, Mine, Serving, Starting, SameRest, SameAgent, Becomes, TypeOK
<1>23. CASE Submit
  BY <1>23, SubmitDoes, HeldRecord, NoneAssumption
     DEF ContextInv, Mine, Serving, Starting, SameRest, SameAgent, Becomes, Hears, Breaks, Goes
<1>24. CASE WithdrawPrompt
  BY <1>24, WithdrawPromptDoes, HeldRecord, NoneAssumption
     DEF ContextInv, Mine, Serving, Starting, SameRest, SameAgent, Becomes, Hears, Breaks, Goes
<1>25. CASE Transmit
  <2>1. /\ pc = "submitted" /\ pc' = "prompting" /\ disk' = disk /\ mem' = mem /\ pend' = pend
        /\ w' = w /\ ctx' = IF pend.full THEN ctx \cup {mem.session} ELSE ctx
    BY <1>25, TransmitDoes DEF SameRecord
  <2>2. ctx \subseteq ctx'
    BY <2>1
  <2>3. mem.session \in ctx'
    BY <2>1 DEF ContextInv, TypeOK
  <2>. QED  BY <2>1, <2>2, <2>3 DEF ContextInv, Mine, Serving, Starting
<1>26. CASE Respond
  BY <1>26, RespondDoes, HeldRecord, NoneAssumption
     DEF ContextInv, Mine, Serving, Starting, SameRest, Becomes, Hears, Breaks, Goes
<1>27. CASE PromptFails
  BY <1>27, PromptFailsDoes, HeldRecord, NoneAssumption
     DEF ContextInv, Mine, Serving, Starting, SameRest, SameAgent, Becomes, Hears, Breaks,
         Goes, Keeps
<1>28. CASE ConnectionLost
  BY <1>28, ConnectionLostDoes
     DEF ContextInv, Mine, Serving, Starting, SameRecord, SameAgent, Hears, Breaks, Goes
<1>29. CASE IdleExpires
  BY <1>29, IdleExpiresDoes
     DEF ContextInv, Mine, Serving, Starting, Aside, SameRecord, SameAgent
<1>30. CASE Watch
  BY <1>30, WatchDoes
     DEF ContextInv, Mine, Serving, Starting, Aside, SameRecord, SameAgent
<1>31. CASE Teardown
  BY <1>31, TeardownDoes, HeldRecord, NoneAssumption
     DEF ContextInv, Mine, Serving, Starting, SameRest, Becomes, Keeps
<1>32. CASE Close
  BY <1>32, CloseDoes, NoWorkerIs, HeldRecord
     DEF ContextInv, Mine, Serving, Starting, SameRest, SameAgent, Goes, Becomes, Keeps
<1>33. CASE AgentExits
  BY <1>33, AgentExitsDoes
     DEF ContextInv, Mine, Serving, Starting, SameRecord, SameOwner
<1>34. CASE OrphanEndsTurn
  BY <1>34, OrphanEndsTurnDoes
     DEF ContextInv, Mine, Serving, Starting, SameRecord, SameOwner
<1>35. CASE Crash
  BY <1>35, CrashDoes, NoWorkerIs
     DEF ContextInv, Mine, Serving, Starting, SameRecord, SameAgent
<1>36. CASE UNCHANGED vars
  BY <1>36 DEF vars, record, owner, worker, agent, report, count, ContextInv, Mine, Serving,
     Starting
<1>. QED  BY <1>1, <1>2, <1>3, <1>4, <1>5, <1>6, <1>7, <1>8, <1>9, <1>10, <1>11, <1>12, <1>13,
             <1>14, <1>15, <1>16, <1>17, <1>18, <1>19, <1>20, <1>21, <1>22, <1>23, <1>24,
             <1>25, <1>26, <1>27, <1>28, <1>29, <1>30, <1>31, <1>32, <1>33, <1>34, <1>35, <1>36
          DEF Next, WorkerStep, OwnerStep

-----------------------------------------------------------------------------
(* The session of a parent. *)

\* Every step keeps the session of a parent (require_persistence).
LEMMA ParentKept ==
    ASSUME TypeOK, WorkerOK, AgentInv, RunInv, PendInv, FenceInv,
           ContextInv, ParentInv, TaskInv, QuietInv, OutcomeInv, [Next]_vars
    PROVE  ParentInv'
<1>1. CASE StartAttempt
  BY <1>1, StartAttemptDoes
     DEF ParentInv, Early, Late, Serves, Starting, SameRecord, SameOwner, SameAgent
<1>2. CASE Prepare
  BY <1>2, PrepareDoes, NoWorkerIs
     DEF ParentInv, Early, Late, Serves, Starting, OnlyWorker, Goes, SameRecord, SameOwner,
         SameAgent
<1>3. CASE RetireLive
  BY <1>3, RetireLiveDoes, NoWorkerIs
     DEF ParentInv, Early, Late, Serves, Starting, Aside, SameRecord, Goes, SameAgent
<1>4. CASE RetirePersisted
  BY <1>4, RetirePersistedDoes, NoWorkerIs, NoneAssumption
     DEF ParentInv, Early, Late, Serves, Starting, Aside, SameRest, SameOwner, Goes, Becomes,
         SameAgent, Keeps
<1>5. CASE Archive
  BY <1>5, ArchiveDoes
     DEF ParentInv, Early, Late, Serves, Starting, Aside, SameRest, SameOwner, Goes, SameAgent,
         AgentInv
<1>6. CASE StartRun
  BY <1>6, StartRunDoes, NoWorkerIs
     DEF ParentInv, Early, Late, Serves, Starting, Aside, SameOwner, Goes, SameAgent
<1>7. CASE Settle
  BY <1>7, SettleDoes
     DEF ParentInv, Early, Late, Serves, Starting, OnlyWorker, Goes, SameRecord, SameOwner,
         SameAgent
<1>8. CASE Borrow
  BY <1>8, BorrowDoes
     DEF ParentInv, Early, Late, Serves, Starting, OnlyWorker, Goes, SameRecord, SameOwner,
         SameAgent, Opens
<1>9. CASE Claim
  <2>1. pc = "none" /\ w.pc = "opening" /\ ctx' = ctx /\ file' = file /\ bound' = bound /\ parent' = parent
    BY <1>9, ClaimDoes DEF SameAgent, SameRest, Opens
  <2>2. w.run \in Runs /\ w.grant \in Grants /\ claims + 1 \in Owners
    BY <1>9, <2>1, ClaimDoes, AcpAssumption DEF WorkerOK, Runs, Owners
  <2>3. CASE Refused
    BY <2>1, <2>3 DEF ParentInv, Refused, SameOwner, Goes, Early, Late, Serves
  <2>4. ASSUME NEW m \in Records, NEW c \in Records, Takes(m, c) PROVE ParentInv'
    <3>1. c.session = m.session
      BY <2>2, <2>4, ClaimedIs DEF Takes
    <3>2. /\ disk' \in {disk, c} /\ (pc' # "none" => mem' = c) /\ pc' \in {"none", "claimed"}
          /\ w'.pc \in {"opened", "concluding"} /\ w'.session = w.session
          /\ disk # None => m = disk
      BY <2>4 DEF Takes, Goes
    <3>3. w.session = None
      BY <2>1 DEF ParentInv, Early
    <3>4. c # None
      BY NoneAssumption
    <3>. QED  BY <2>1, <3>1, <3>2, <3>3, <3>4 DEF ParentInv, Late, Serves
  <2>. QED  BY <1>9, <2>3, <2>4, ClaimDoes
<1>10. CASE Inspect
  BY <1>10, InspectDoes
     DEF ParentInv, Early, Late, Serves, Starting, OnlyWorker, Goes, SameRecord, SameOwner,
         SameAgent, Mine, Serving
<1>11. CASE AttachConversation
  BY <1>11, AttachConversationDoes
     DEF ParentInv, Early, Late, Serves, Starting, Aside, SameOwner, SameAgent
<1>12. CASE SendPrompt
  BY <1>12, SendPromptDoes
     DEF ParentInv, Early, Late, Serves, Starting, Aside, SameRecord, Goes, SameAgent, Mine,
         Serving
<1>13. CASE Observe
  <2>1. OnlyWorker /\ w.pc = "observing" /\ w'.pc = "concluding" /\ w'.session = w.session
    BY <1>13, ObserveDoes DEF Goes
  <2>. QED  BY <2>1 DEF ParentInv, Early, Late, OnlyWorker, SameRecord, SameOwner
<1>14. CASE StreamLost
  BY <1>14, StreamLostDoes
     DEF ParentInv, Early, Late, Serves, Starting, Aside, SameRecord, Goes, Cancels, SameAgent
<1>15. CASE Cancel
  BY <1>15, CancelDoes
     DEF ParentInv, Early, Late, Serves, Starting, SameRecord, SameAgent, Cancels
<1>16. CASE AcknowledgeStop
  BY <1>16, AcknowledgeStopDoes
     DEF ParentInv, Early, Late, Serves, Starting, SameRecord, SameOwner, SameAgent
<1>17. CASE InterruptTimesOut
  BY <1>17, InterruptTimesOutDoes
     DEF ParentInv, Early, Late, Serves, Starting, SameRecord, SameOwner, SameAgent
<1>18. CASE AbortWorker
  BY <1>18, AbortWorkerDoes, NoWorkerIs
     DEF ParentInv, Early, Late, Serves, Starting, OnlyWorker, SameRecord, SameOwner, SameAgent
<1>19. CASE Conclude
  BY <1>19, ConcludeDoes, NoWorkerIs
     DEF ParentInv, Early, Late, Serves, Starting, SameOwner, SameAgent
<1>20. CASE Spawn
  BY <1>20, SpawnDoes
     DEF ParentInv, Early, Late, Serves, Starting, SameRecord
<1>21. CASE RecordLaunch
  <2>1. /\ pc = "spawned" /\ pc' \in {"setup", "closing"} /\ bound' = bound /\ parent' = parent /\ w' = w
        /\ mem'.session = mem.session /\ disk' \in {disk, mem'} /\ mem' # None
    BY <1>21, RecordLaunchDoes, HeldRecord, NoneAssumption DEF SameRest, Becomes, Keeps
  <2>2. /\ parent /\ bound # None => disk' # None /\ disk'.session = bound /\ mem'.session = bound
        /\ parent /\ w.pc \in Late /\ w.session # None =>
             disk' # None /\ disk'.session = w.session /\ mem'.session = w.session /\ pc \notin Starting
    BY <2>1 DEF ParentInv
  <2>. QED  BY <2>1, <2>2 DEF ParentInv, Serves, Starting
<1>22. CASE SetUp
  BY <1>22, SetUpDoes, HeldRecord, NoneAssumption
     DEF ParentInv, Early, Late, Serves, Starting, SameRest, SameAgent, Becomes
<1>23. CASE Submit
  <2>1. /\ pc = "preparing" /\ pc' \in {"submitted", "ending"}
        /\ bound' = bound /\ parent' = parent /\ mem'.session = mem.session
        /\ disk' = mem' \/ (disk' \in {disk, mem'} /\ pc' = "ending")
        /\ w' = w \/ (w.pc = "prompting" /\ w'.pc = "observing" /\ w'.session = w.session)
        /\ mem' \in Records
    BY <1>23, SubmitDoes, HeldRecord DEF SameRest, Becomes, Breaks, Hears, Goes
  <2>2. disk # None /\ disk.session = mem.session /\ mem' # None
    BY <2>1, NoneAssumption DEF ParentInv, Serves
  <2>. QED  BY <2>1, <2>2 DEF ParentInv, Early, Late, Serves, Starting
<1>24. CASE WithdrawPrompt
  BY <1>24, WithdrawPromptDoes, HeldRecord, NoneAssumption
     DEF ParentInv, Early, Late, Serves, Starting, SameRest, SameAgent, Becomes, Hears, Breaks,
         Goes
<1>25. CASE Transmit
  BY <1>25, TransmitDoes
     DEF ParentInv, Early, Late, Serves, Starting, SameRecord
<1>26. CASE Respond
  <2>1. /\ pc = "prompting" /\ pc' \in {"serving", "ending"}
        /\ bound' = bound /\ parent' = parent /\ mem'.session = mem.session
        /\ disk' = mem' \/ (disk' \in {disk, mem'} /\ pc' = "ending")
        /\ w' = w \/ (w.pc = "prompting" /\ w'.pc = "observing" /\ w'.session = w.session)
        /\ mem' \in Records
    BY <1>26, RespondDoes, HeldRecord DEF SameRest, Becomes, Breaks, Hears, Goes
  <2>2. disk # None /\ disk.session = mem.session /\ mem' # None
    BY <2>1, NoneAssumption DEF ParentInv, Serves
  <2>. QED  BY <2>1, <2>2 DEF ParentInv, Early, Late, Serves, Starting
<1>27. CASE PromptFails
  BY <1>27, PromptFailsDoes, HeldRecord, NoneAssumption
     DEF ParentInv, Early, Late, Serves, Starting, SameRest, SameAgent, Becomes, Hears, Breaks,
         Goes, Keeps
<1>28. CASE ConnectionLost
  BY <1>28, ConnectionLostDoes
     DEF ParentInv, Early, Late, Serves, Starting, SameRecord, SameAgent, Hears, Breaks, Goes
<1>29. CASE IdleExpires
  BY <1>29, IdleExpiresDoes
     DEF ParentInv, Early, Late, Serves, Starting, Aside, SameRecord, SameAgent
<1>30. CASE Watch
  BY <1>30, WatchDoes
     DEF ParentInv, Early, Late, Serves, Starting, Aside, SameRecord, SameAgent
<1>31. CASE Teardown
  <2>1. /\ pc = "ending" /\ pc' \in {"closing"} /\ bound' = bound /\ parent' = parent /\ w' = w
        /\ mem'.session = mem.session /\ disk' \in {disk, mem'} /\ mem' # None
    BY <1>31, TeardownDoes, HeldRecord, NoneAssumption DEF SameRest, Becomes, Keeps
  <2>2. /\ parent /\ bound # None => disk' # None /\ disk'.session = bound /\ mem'.session = bound
        /\ parent /\ w.pc \in Late /\ w.session # None =>
             disk' # None /\ disk'.session = w.session /\ mem'.session = w.session /\ pc \notin Starting
    BY <2>1 DEF ParentInv
  <2>. QED  BY <2>1, <2>2 DEF ParentInv, Serves, Starting
<1>32. CASE Close
  BY <1>32, CloseDoes, NoWorkerIs, NoneAssumption
     DEF ParentInv, Early, Late, Serves, Starting, SameRest, SameAgent, Goes, Becomes, Keeps
<1>33. CASE AgentExits
  BY <1>33, AgentExitsDoes
     DEF ParentInv, Early, Late, Serves, Starting, SameRecord, SameOwner
<1>34. CASE OrphanEndsTurn
  BY <1>34, OrphanEndsTurnDoes
     DEF ParentInv, Early, Late, Serves, Starting, SameRecord, SameOwner
<1>35. CASE Crash
  BY <1>35, CrashDoes, NoWorkerIs
     DEF ParentInv, Early, Late, Serves, Starting, SameRecord, SameAgent
<1>36. CASE UNCHANGED vars
  BY <1>36 DEF vars, record, owner, worker, agent, report, count, ParentInv, Early, Late,
     Serves, Starting
<1>. QED  BY <1>1, <1>2, <1>3, <1>4, <1>5, <1>6, <1>7, <1>8, <1>9, <1>10, <1>11, <1>12, <1>13,
             <1>14, <1>15, <1>16, <1>17, <1>18, <1>19, <1>20, <1>21, <1>22, <1>23, <1>24,
             <1>25, <1>26, <1>27, <1>28, <1>29, <1>30, <1>31, <1>32, <1>33, <1>34, <1>35, <1>36
          DEF Next, WorkerStep, OwnerStep

-----------------------------------------------------------------------------
(* What the agents work on. *)

\* Every step keeps the agents at prompts that were sent and not answered.
LEMMA TaskKept ==
    ASSUME TypeOK, WorkerOK, AgentInv, RunInv, PendInv, FenceInv,
           ContextInv, ParentInv, TaskInv, QuietInv, OutcomeInv, [Next]_vars
    PROVE  TaskInv'
<1>1. CASE StartAttempt
  BY <1>1, StartAttemptDoes
     DEF TaskInv, Unsettled, SameRecord, SameOwner, SameAgent
<1>2. CASE Prepare
  BY <1>2, PrepareDoes
     DEF TaskInv, Unsettled, OnlyWorker, Goes, SameRecord, SameOwner, SameAgent, SameCount
<1>3. CASE RetireLive
  BY <1>3, RetireLiveDoes
     DEF TaskInv, Unsettled, Aside, SameRecord, Goes, SameAgent, SameCount
<1>4. CASE RetirePersisted
  BY <1>4, RetirePersistedDoes
     DEF TaskInv, Unsettled, Aside, SameRest, SameOwner, Goes, Becomes, SameAgent, SameCount,
         Keeps
<1>5. CASE Archive
  BY <1>5, ArchiveDoes
     DEF TaskInv, Unsettled, Aside, SameRest, SameOwner, Goes, SameAgent, SameCount
<1>6. CASE StartRun
  BY <1>6, StartRunDoes
     DEF TaskInv, Unsettled, Aside, SameOwner, Goes, SameAgent, SameCount
<1>7. CASE Settle
  BY <1>7, SettleDoes
     DEF TaskInv, Unsettled, OnlyWorker, Goes, SameRecord, SameOwner, SameAgent, SameCount
<1>8. CASE Borrow
  BY <1>8, BorrowDoes
     DEF TaskInv, Unsettled, OnlyWorker, Goes, SameRecord, SameOwner, SameAgent, SameCount
<1>9. CASE Claim
  <2>1. pc = "none" /\ up' = up /\ task' = task /\ sent' = sent /\ answered' = answered
    BY <1>9, ClaimDoes DEF SameAgent
  <2>2. claims \in Nat /\ claims + 1 \in Owners
    BY <1>9, ClaimDoes, AcpAssumption DEF WorkerOK, Owners
  <2>3. CASE Refused
    BY <2>1, <2>3 DEF TaskInv, Unsettled, Refused, SameOwner
  <2>4. ASSUME NEW m \in Records, NEW c \in Records, Takes(m, c) PROVE TaskInv'
    <3>1. w.run \in Runs /\ w.grant \in Grants
      BY <1>9, ClaimDoes, AcpAssumption DEF Opens, WorkerOK, Runs
    <3>2. c.owner = claims + 1 /\ claims' = claims + 1 /\ (pc' = "claimed" => mem' = c)
      BY <2>2, <2>4, <3>1, ClaimedIs DEF Takes
    <3>3. \A o \in Owners : o > claims + 1 => o > claims
      BY <2>2 DEF Owners
    <3>4. task[claims + 1] = None
      BY <2>2 DEF TaskInv
    <3>. QED  BY <2>1, <3>2, <3>3, <3>4 DEF TaskInv, Unsettled
  <2>. QED  BY <1>9, <2>3, <2>4, ClaimDoes
<1>10. CASE Inspect
  BY <1>10, InspectDoes
     DEF TaskInv, Unsettled, OnlyWorker, Goes, SameRecord, SameOwner, SameAgent, SameCount
<1>11. CASE AttachConversation
  BY <1>11, AttachConversationDoes
     DEF TaskInv, Unsettled, Aside, SameOwner, SameAgent, SameCount
<1>12. CASE SendPrompt
  BY <1>12, SendPromptDoes
     DEF TaskInv, Unsettled, Aside, SameRecord, Goes, SameAgent, SameCount
<1>13. CASE Observe
  BY <1>13, ObserveDoes
     DEF TaskInv, Unsettled, OnlyWorker, Goes, SameRecord, SameOwner, SameAgent, SameCount
<1>14. CASE StreamLost
  BY <1>14, StreamLostDoes
     DEF TaskInv, Unsettled, Aside, SameRecord, Goes, Cancels, SameAgent, SameCount
<1>15. CASE Cancel
  BY <1>15, CancelDoes
     DEF TaskInv, Unsettled, SameRecord, SameAgent, SameCount, Cancels
<1>16. CASE AcknowledgeStop
  BY <1>16, AcknowledgeStopDoes
     DEF TaskInv, Unsettled, SameRecord, SameOwner, SameAgent, SameCount
<1>17. CASE InterruptTimesOut
  BY <1>17, InterruptTimesOutDoes
     DEF TaskInv, Unsettled, SameRecord, SameOwner, SameAgent, SameCount
<1>18. CASE AbortWorker
  BY <1>18, AbortWorkerDoes
     DEF TaskInv, Unsettled, OnlyWorker, SameRecord, SameOwner, SameAgent, SameCount
<1>19. CASE Conclude
  BY <1>19, ConcludeDoes
     DEF TaskInv, Unsettled, SameOwner, SameAgent, SameCount
<1>20. CASE Spawn
  BY <1>20, SpawnDoes
     DEF TaskInv, Unsettled, SameRecord, SameCount
<1>21. CASE RecordLaunch
  BY <1>21, RecordLaunchDoes
     DEF TaskInv, Unsettled, SameRest, SameCount, Becomes, Keeps
<1>22. CASE SetUp
  BY <1>22, SetUpDoes
     DEF TaskInv, Unsettled, SameRest, SameAgent, SameCount, Becomes
<1>23. CASE Submit
  BY <1>23, SubmitDoes
     DEF TaskInv, Unsettled, SameRest, SameAgent, SameCount, Becomes, Hears, Breaks, Goes
<1>24. CASE WithdrawPrompt
  BY <1>24, WithdrawPromptDoes
     DEF TaskInv, Unsettled, SameRest, SameAgent, SameCount, Becomes, Hears, Breaks, Goes
<1>25. CASE Transmit
  <2>1. /\ pc = "submitted" /\ pc' = "prompting" /\ disk' = disk /\ mem' = mem /\ pend' = pend
        /\ w' = w /\ up' = up /\ answered' = answered /\ claims' = claims /\ runs' = runs
        /\ quiet' = quiet /\ won' = won /\ stop' = stop /\ ~pend.cancelled
    BY <1>25, TransmitDoes DEF SameRecord, SameCount, SameReport, SameAside
  <2>2. pend.run \in Runs /\ sent[pend.run] = 0 /\ mem.run = pend.run
    BY <2>1 DEF TypeOK, Prompts, PendInv
  <2>3. sent' = [sent EXCEPT ![pend.run] = 1]
    BY <1>25, <2>2, TransmitDoes
  <2>4. Unsettled' = {pend.run}
    <3>1. Unsettled = {} /\ pend.run \notin answered
      BY <2>1, <2>2 DEF FenceInv, PendInv, RunInv, Unsettled, Sent
    <3>. QED  BY <2>1, <2>2, <2>3, <3>1 DEF Unsettled, TypeOK
  <2>5. mem.owner \in Owners /\ mem.owner <= claims /\ task' = [task EXCEPT ![mem.owner] = pend.run]
    BY <1>25, <2>1, TransmitDoes, AcpAssumption DEF WorkerOK, Owners
  <2>6. \A o \in up : o = mem.owner
    BY <2>1 DEF AgentInv
  <2>7. \A o \in Owners : o > claims => o # mem.owner
    BY <2>5 DEF WorkerOK, Owners
  <2>. QED  BY <2>1, <2>4, <2>5, <2>6, <2>7 DEF TaskInv, TypeOK
<1>26. CASE Respond
  <2>1. /\ pc = "prompting" /\ pc' \in {"serving", "ending"} /\ up' = up /\ claims' = claims
        /\ task' = [task EXCEPT ![mem.owner] = None]
    BY <1>26, RespondDoes DEF SameCount, Breaks
  <2>2. \A o \in up : o = mem.owner /\ task'[o] = None
    BY <2>1 DEF AgentInv, TypeOK
  <2>3. \A o \in Owners : o > claims => task'[o] = None
    BY <2>1 DEF TaskInv, TypeOK
  <2>. QED  BY <2>1, <2>2, <2>3 DEF TaskInv
<1>27. CASE PromptFails
  BY <1>27, PromptFailsDoes
     DEF TaskInv, Unsettled, SameRest, SameAgent, SameCount, Becomes, Hears, Breaks, Goes,
         Keeps
<1>28. CASE ConnectionLost
  BY <1>28, ConnectionLostDoes
     DEF TaskInv, Unsettled, SameRecord, SameAgent, SameCount, Hears, Breaks, Goes
<1>29. CASE IdleExpires
  BY <1>29, IdleExpiresDoes
     DEF TaskInv, Unsettled, Aside, SameRecord, SameAgent, SameCount
<1>30. CASE Watch
  BY <1>30, WatchDoes
     DEF TaskInv, Unsettled, Aside, SameRecord, SameAgent, SameCount
<1>31. CASE Teardown
  BY <1>31, TeardownDoes
     DEF TaskInv, Unsettled, SameRest, SameCount, Becomes, Keeps
<1>32. CASE Close
  BY <1>32, CloseDoes
     DEF TaskInv, Unsettled, SameRest, SameAgent, SameCount, Goes, Becomes, Keeps
<1>33. CASE AgentExits
  BY <1>33, AgentExitsDoes
     DEF TaskInv, Unsettled, SameRecord, SameOwner, SameCount
<1>34. CASE OrphanEndsTurn
  <2>1. /\ pc' = pc /\ mem' = mem /\ up' = up /\ claims' = claims /\ sent' = sent /\ answered' = answered
        /\ \A o \in Owners : task'[o] \in {task[o], None}
    BY <1>34, OrphanEndsTurnDoes DEF SameOwner, SameCount, TypeOK
  <2>2. pc = "claimed" => mem.owner \in Owners
    BY HeldRecord
  <2>. QED  BY <2>1, <2>2 DEF TaskInv, Unsettled, TypeOK
<1>35. CASE Crash
  BY <1>35, CrashDoes
     DEF TaskInv, Unsettled, SameRecord, SameAgent, SameCount
<1>36. CASE UNCHANGED vars
  BY <1>36 DEF vars, record, owner, worker, agent, report, count, TaskInv, Unsettled
<1>. QED  BY <1>1, <1>2, <1>3, <1>4, <1>5, <1>6, <1>7, <1>8, <1>9, <1>10, <1>11, <1>12, <1>13,
             <1>14, <1>15, <1>16, <1>17, <1>18, <1>19, <1>20, <1>21, <1>22, <1>23, <1>24,
             <1>25, <1>26, <1>27, <1>28, <1>29, <1>30, <1>31, <1>32, <1>33, <1>34, <1>35, <1>36
          DEF Next, WorkerStep, OwnerStep

-----------------------------------------------------------------------------
(* Runs that have stopped. *)

\* What observe_stop takes for a stop leaves no prompt of the run out.
LEMMA SeenIsSettled ==
    ASSUME TypeOK, FenceInv, NEW o, NEW r, NEW over, SeenStopped(o, r, over)
    PROVE  r \notin Unsettled
<1>1. CASE Serving /\ mem.owner = o
  <2>1. pc # "none" /\ (~Fenced(mem) \/ (mem.status = "Finished" /\ mem.run = r))
    BY <1>1 DEF SeenStopped, Serving
  <2>. QED  BY <2>1 DEF FenceInv, Fenced
<1>2. CASE ~(Serving /\ mem.owner = o)
  BY <1>2 DEF SeenStopped, FenceInv
<1>. QED  BY <1>1, <1>2

\* A run that has yet to send its prompt is not the one the owner prepares.
LEMMA OthersPrompt ==
    ASSUME TypeOK, RunInv, w.pc \in Early \cup {"opened", "ready"}, pc \in {"preparing", "submitted"}
    PROVE  pend.run # w.run
BY DEF TypeOK, RunInv

\* Every step keeps a run that was reported as stopped from sending its prompt, in
\* whatever order the interrupt, the worker and the owner see it.
LEMMA QuietKept ==
    ASSUME TypeOK, WorkerOK, AgentInv, RunInv, PendInv, FenceInv,
           ContextInv, ParentInv, TaskInv, QuietInv, OutcomeInv, [Next]_vars
    PROVE  QuietInv'
<1>1. CASE StartAttempt
  <2>1. /\ sent' = sent /\ answered' = answered /\ pend' = pend /\ pc' = pc /\ stop' = stop
        /\ w'.pc = "starting" /\ ~w'.cancelled /\ quiet' = quiet \ {w'.run}
    BY <1>1, StartAttemptDoes DEF SameAgent, SameOwner
  <2>2. Unsettled' = Unsettled
    BY <2>1 DEF Unsettled
  <2>3. /\ runs \in Nat /\ runs' \in {runs, runs + 1}
        /\ boot \/ w'.run = runs + 1
    <3>1. runs \in Nat
      BY AcpAssumption DEF WorkerOK
    <3>. QED  BY <1>1, <3>1, StartAttemptDoes
  <2>4. \A r \in quiet' : r \in 1..runs'
    BY <2>1, <2>3 DEF QuietInv
  <2>5. stop # None => ~boot /\ stop.run \in 1..runs
    BY DEF WorkerOK
  <2>6. stop # None => stop.run # w'.run
    BY <2>3, <2>5
  <2>. QED  BY <2>1, <2>2, <2>4, <2>6 DEF QuietInv, Early
<1>2. CASE Prepare
  BY <1>2, PrepareDoes, NoWorkerIs
     DEF QuietInv, Unsettled, Early, OnlyWorker, Goes, SameRecord, SameOwner, SameAside,
         SameAgent, SameReport, SameCount
<1>3. CASE RetireLive
  BY <1>3, RetireLiveDoes, NoWorkerIs
     DEF QuietInv, Unsettled, Early, Aside, SameRecord, Goes, SameAside, SameAgent, SameReport,
         SameCount
<1>4. CASE RetirePersisted
  BY <1>4, RetirePersistedDoes, NoWorkerIs
     DEF QuietInv, Unsettled, Early, Aside, SameRest, SameOwner, Goes, Becomes, SameAside,
         SameAgent, SameReport, SameCount, Keeps
<1>5. CASE Archive
  BY <1>5, ArchiveDoes
     DEF QuietInv, Unsettled, Early, Aside, SameRest, SameOwner, Goes, SameAside, SameAgent,
         SameReport, SameCount
<1>6. CASE StartRun
  BY <1>6, StartRunDoes, NoWorkerIs
     DEF QuietInv, Unsettled, Early, Aside, SameOwner, Goes, SameAside, SameAgent, SameReport,
         SameCount
<1>7. CASE Settle
  <2>1. OnlyWorker /\ w.pc = "opening" /\ w'.pc = "concluding" /\ w'.run = w.run /\ w'.cancelled = w.cancelled
    BY <1>7, SettleDoes DEF Goes
  <2>2. pc \in {"preparing", "submitted"} => pend.run # w.run
    BY <2>1, OthersPrompt DEF Early
  <2>. QED  BY <2>1, <2>2 DEF QuietInv, Unsettled, Early, OnlyWorker, SameOwner, SameAside,
               SameAgent,
            SameReport, SameCount
<1>8. CASE Borrow
  <2>1. /\ OnlyWorker /\ w.pc = "opening" /\ w'.pc \in {"concluding", "opened"} /\ w'.run = w.run
        /\ w'.cancelled = w.cancelled
    BY <1>8, BorrowDoes DEF Goes, Opens
  <2>2. pc \in {"preparing", "submitted"} => pend.run # w.run
    BY <2>1, OthersPrompt DEF Early
  <2>. QED  BY <2>1, <2>2 DEF QuietInv, Unsettled, Early, OnlyWorker, SameOwner, SameAside,
               SameAgent,
            SameReport, SameCount
<1>9. CASE Claim
  <2>1. /\ pc = "none" /\ w.pc = "opening" /\ Unsettled' = Unsettled /\ stop' = stop
        /\ quiet' = quiet /\ runs' = runs
    BY <1>9, ClaimDoes DEF SameAgent, SameAside, SameReport, Opens, Unsettled
  <2>2. /\ pc' \in {"none", "claimed"} /\ w'.pc \in {"opened", "concluding"} /\ w'.run = w.run
        /\ w'.cancelled = w.cancelled
    BY <1>9, <2>1, ClaimDoes DEF Refused, SameOwner, Takes, Goes
  <2>. QED  BY <2>1, <2>2 DEF QuietInv, Early
<1>10. CASE Inspect
  <2>1. /\ OnlyWorker /\ w.pc = "opened" /\ w'.pc \in {"concluding", "ready"} /\ w'.run = w.run
        /\ w'.cancelled = w.cancelled
    BY <1>10, InspectDoes DEF Goes
  <2>2. pc \in {"preparing", "submitted"} => pend.run # w.run
    BY <2>1, OthersPrompt DEF Early
  <2>. QED  BY <2>1, <2>2 DEF QuietInv, Unsettled, Early, OnlyWorker, SameOwner, SameAside,
               SameAgent,
            SameReport, SameCount
<1>11. CASE AttachConversation
  BY <1>11, AttachConversationDoes
     DEF QuietInv, Unsettled, Early, Aside, SameOwner, SameAside, SameAgent, SameReport,
         SameCount
<1>12. CASE SendPrompt
  <2>1. /\ w.pc = "ready" /\ Unsettled' = Unsettled /\ stop' = stop /\ quiet' = quiet /\ runs' = runs
        /\ w'.run = w.run /\ w'.cancelled = w.cancelled
    BY <1>12, SendPromptDoes DEF Aside, SameAgent, SameAside, SameReport, SameCount, Goes,
       Unsettled
  <2>2. CASE /\ ~w.cancelled /\ pc' = "preparing" /\ pend'.run = w.run /\ w'.pc = "prompting"
    BY <2>1, <2>2 DEF QuietInv, Early
  <2>3. CASE pc' = pc /\ pend' = pend /\ w'.pc = "observing"
    <3>1. pc \in {"preparing", "submitted"} => pend.run # w.run
      BY <2>1, OthersPrompt
    <3>. QED  BY <2>1, <2>3, <3>1 DEF QuietInv, Early
  <2>. QED  BY <1>12, <2>2, <2>3, SendPromptDoes DEF Goes
<1>13. CASE Observe
  BY <1>13, ObserveDoes
     DEF QuietInv, Unsettled, Early, OnlyWorker, Goes, SameRecord, SameOwner, SameAside,
         SameAgent, SameReport, SameCount
<1>14. CASE StreamLost
  <2>1. /\ w.pc = "prompting" /\ Unsettled' = Unsettled /\ stop' = stop /\ quiet' = quiet
        /\ runs' = runs /\ pc' = pc /\ w'.pc = "concluding" /\ w'.run = w.run
        /\ w'.cancelled = w.cancelled
    BY <1>14, StreamLostDoes DEF Aside, SameAgent, SameAside, SameReport, SameCount, Goes,
       Unsettled
  <2>2. pc \in {"preparing", "submitted"} => pend # None
    BY DEF TypeOK
  <2>3. \/ pend' = pend /\ (pend # None => pend.run # w.run)
        \/ pend'.run = pend.run /\ pend'.cancelled
    BY <1>14, StreamLostDoes DEF Cancels
  <2>. QED  BY <2>1, <2>2, <2>3 DEF QuietInv, Early
<1>15. CASE Cancel
  <2>1. /\ w.pc \in {"ready", "prompting", "observing"} /\ Unsettled' = Unsettled /\ quiet' = quiet
        /\ runs' = runs /\ pc' = pc /\ w'.pc = w.pc /\ w'.run = w.run /\ w'.cancelled
        /\ stop'.run = w.run
    BY <1>15, CancelDoes DEF SameAgent, SameReport, SameCount, Unsettled
  <2>2. pc \in {"preparing", "submitted"} => pend # None
    BY DEF TypeOK
  <2>3. \/ pend' = pend /\ (pend # None => pend.run # w.run)
        \/ pend'.run = pend.run /\ pend'.cancelled
    BY <1>15, CancelDoes DEF Cancels
  <2>. QED  BY <2>1, <2>2, <2>3 DEF QuietInv, Early
<1>16. CASE AcknowledgeStop
  <2>1. /\ Unsettled' = Unsettled /\ pc' = pc /\ pend' = pend /\ w' = w /\ runs' = runs
        /\ stop # None /\ stop' = None /\ quiet' = quiet \cup {stop.run}
    BY <1>16, AcknowledgeStopDoes DEF SameOwner, SameAgent, SameCount, Unsettled
  <2>2. stop.run \notin Unsettled
    BY <1>16, AcknowledgeStopDoes, SeenIsSettled
  <2>3. stop.run \in 1..runs
    BY <2>1 DEF WorkerOK
  <2>. QED  BY <2>1, <2>2, <2>3 DEF QuietInv, Early
<1>17. CASE InterruptTimesOut
  BY <1>17, InterruptTimesOutDoes
     DEF QuietInv, Unsettled, Early, SameRecord, SameOwner, SameAgent, SameReport, SameCount
<1>18. CASE AbortWorker
  BY <1>18, AbortWorkerDoes, NoWorkerIs
     DEF QuietInv, Unsettled, Early, OnlyWorker, SameRecord, SameOwner, SameAside, SameAgent,
         SameReport, SameCount
<1>19. CASE Conclude
  <2>1. /\ w.pc = "concluding" /\ w'.pc = "idle" /\ w'.run = None /\ Unsettled' = Unsettled
        /\ pc' = pc /\ pend' = pend /\ stop' = stop /\ runs' = runs
        /\ quiet' = (IF w.res # "Err" \/ StoppedOnRecord THEN quiet \cup {w.run} ELSE quiet)
    BY <1>19, ConcludeDoes, NoWorkerIs DEF SameOwner, SameAside, SameAgent, SameCount, Unsettled
  <2>2. w.res # "Err" \/ StoppedOnRecord => w.run \notin Unsettled
    BY <2>1 DEF OutcomeInv, StoppedOnRecord, FenceInv
  <2>3. /\ w.run \in 1..runs
        /\ pc \in {"preparing", "submitted"} /\ ~pend.cancelled => w.run # pend.run
    BY <2>1 DEF WorkerOK, QuietInv
  <2>4. \A r \in quiet' : r \in 1..runs /\ r \notin Unsettled
    BY <2>1, <2>2, <2>3 DEF QuietInv
  <2>5. pend'.run \in {pend.run} /\ (pend.run # w.run => (pend.run \in quiet' => pend.run \in quiet))
    BY <2>1
  <2>6. pc \in {"preparing", "submitted"} => pend.run \in 1..runs
    BY DEF WorkerOK, TypeOK
  <2>. QED  BY <2>1, <2>3, <2>4, <2>5, <2>6 DEF QuietInv, Early
<1>20. CASE Spawn
  BY <1>20, SpawnDoes
     DEF QuietInv, Unsettled, Early, SameRecord, SameReport, SameCount, SameAside
<1>21. CASE RecordLaunch
  BY <1>21, RecordLaunchDoes
     DEF QuietInv, Unsettled, Early, SameRest, SameReport, SameCount, SameAside, Becomes, Keeps
<1>22. CASE SetUp
  BY <1>22, SetUpDoes
     DEF QuietInv, Unsettled, Early, SameRest, SameAgent, SameReport, SameCount, SameAside,
         Becomes
<1>23. CASE Submit
  BY <1>23, SubmitDoes
     DEF QuietInv, Unsettled, Early, SameRest, SameAgent, SameReport, SameCount, SameAside,
         Becomes, Hears, Breaks, Goes
<1>24. CASE WithdrawPrompt
  BY <1>24, WithdrawPromptDoes
     DEF QuietInv, Unsettled, Early, SameRest, SameAgent, SameReport, SameCount, SameAside,
         Becomes, Hears, Breaks, Goes
<1>25. CASE Transmit
  <2>1. /\ pc = "submitted" /\ pc' = "prompting" /\ disk' = disk /\ mem' = mem /\ pend' = pend
        /\ w' = w /\ up' = up /\ answered' = answered /\ claims' = claims /\ runs' = runs
        /\ quiet' = quiet /\ won' = won /\ stop' = stop /\ ~pend.cancelled
    BY <1>25, TransmitDoes DEF SameRecord, SameCount, SameReport, SameAside
  <2>2. pend.run \in Runs /\ sent[pend.run] = 0 /\ mem.run = pend.run
    BY <2>1 DEF TypeOK, Prompts, PendInv
  <2>3. sent' = [sent EXCEPT ![pend.run] = 1]
    BY <1>25, <2>2, TransmitDoes
  <2>4. Unsettled' = {pend.run}
    <3>1. Unsettled = {} /\ pend.run \notin answered
      BY <2>1, <2>2 DEF FenceInv, PendInv, RunInv, Unsettled, Sent
    <3>. QED  BY <2>1, <2>2, <2>3, <3>1 DEF Unsettled, TypeOK
  <2>. QED  BY <2>1, <2>4 DEF QuietInv
<1>26. CASE Respond
  BY <1>26, RespondDoes
     DEF QuietInv, Unsettled, Early, SameRest, SameReport, SameCount, SameAside, Becomes,
         Hears, Breaks, Goes
<1>27. CASE PromptFails
  BY <1>27, PromptFailsDoes
     DEF QuietInv, Unsettled, Early, SameRest, SameAgent, SameReport, SameCount, SameAside,
         Becomes, Hears, Breaks, Goes, Keeps
<1>28. CASE ConnectionLost
  BY <1>28, ConnectionLostDoes
     DEF QuietInv, Unsettled, Early, SameRecord, SameAgent, SameReport, SameCount, SameAside,
         Hears, Breaks, Goes
<1>29. CASE IdleExpires
  BY <1>29, IdleExpiresDoes
     DEF QuietInv, Unsettled, Early, Aside, SameRecord, SameAside, SameAgent, SameReport,
         SameCount
<1>30. CASE Watch
  BY <1>30, WatchDoes
     DEF QuietInv, Unsettled, Early, Aside, SameRecord, SameAside, SameAgent, SameReport,
         SameCount
<1>31. CASE Teardown
  BY <1>31, TeardownDoes
     DEF QuietInv, Unsettled, Early, SameRest, SameReport, SameCount, SameAside, Becomes, Keeps
<1>32. CASE Close
  BY <1>32, CloseDoes, NoWorkerIs
     DEF QuietInv, Unsettled, Early, SameRest, SameAgent, SameReport, SameCount, SameAside,
         Goes, Becomes, Keeps
<1>33. CASE AgentExits
  BY <1>33, AgentExitsDoes
     DEF QuietInv, Unsettled, Early, SameRecord, SameOwner, SameReport, SameCount, SameAside
<1>34. CASE OrphanEndsTurn
  BY <1>34, OrphanEndsTurnDoes
     DEF QuietInv, Unsettled, Early, SameRecord, SameOwner, SameReport, SameCount, SameAside
<1>35. CASE Crash
  BY <1>35, CrashDoes, NoWorkerIs
     DEF QuietInv, Unsettled, Early, SameRecord, SameAgent, SameReport, SameCount
<1>36. CASE UNCHANGED vars
  BY <1>36 DEF vars, record, owner, worker, agent, report, count, QuietInv, Unsettled, Early
<1>. QED  BY <1>1, <1>2, <1>3, <1>4, <1>5, <1>6, <1>7, <1>8, <1>9, <1>10, <1>11, <1>12, <1>13,
             <1>14, <1>15, <1>16, <1>17, <1>18, <1>19, <1>20, <1>21, <1>22, <1>23, <1>24,
             <1>25, <1>26, <1>27, <1>28, <1>29, <1>30, <1>31, <1>32, <1>33, <1>34, <1>35, <1>36
          DEF Next, WorkerStep, OwnerStep

-----------------------------------------------------------------------------
(* What a run came to. *)

\* Every step keeps what was heard and recorded of the outcomes true.
LEMMA OutcomeKept ==
    ASSUME TypeOK, WorkerOK, AgentInv, RunInv, PendInv, FenceInv,
           ContextInv, ParentInv, TaskInv, QuietInv, OutcomeInv, [Next]_vars
    PROVE  OutcomeInv'
<1>1. CASE StartAttempt
  BY <1>1, StartAttemptDoes
     DEF OutcomeInv, Unsettled, SameRecord, SameOwner, SameAgent
<1>2. CASE Prepare
  BY <1>2, PrepareDoes, NoWorkerIs
     DEF OutcomeInv, Unsettled, OnlyWorker, Goes, SameRecord, SameOwner, SameAgent, SameReport
<1>3. CASE RetireLive
  BY <1>3, RetireLiveDoes, NoWorkerIs
     DEF OutcomeInv, Unsettled, Aside, SameRecord, Goes, SameAgent, SameReport
<1>4. CASE RetirePersisted
  BY <1>4, RetirePersistedDoes, NoWorkerIs, NoneAssumption
     DEF OutcomeInv, Unsettled, Aside, SameRest, SameOwner, Goes, Becomes, SameAgent,
         SameReport, Keeps
<1>5. CASE Archive
  BY <1>5, ArchiveDoes
     DEF OutcomeInv, Unsettled, Aside, SameRest, SameOwner, Goes, SameAgent, SameReport
<1>6. CASE StartRun
  BY <1>6, StartRunDoes, NoWorkerIs
     DEF OutcomeInv, Unsettled, Aside, SameOwner, Goes, SameAgent, SameReport
<1>7. CASE Settle
  <2>1. OnlyWorker /\ w.pc = "opening" /\ w'.pc = "concluding" /\ w'.run = w.run /\ disk # None
    BY <1>7, SettleDoes DEF Goes
  <2>2. \/ w'.res = "Err"
        \/ disk.run = w.run /\ disk.status = "Finished" /\ w'.res = disk.stop
    BY <1>7, SettleDoes DEF Goes
  <2>3. disk.status = "Finished" => Unsettled = {}
    BY <2>1 DEF FenceInv, Fenced
  <2>4. /\ w'.res = "end_turn" => w'.run \in answered
        /\ w'.res # "Err" => w'.run \notin Unsettled
    BY <2>1, <2>2, <2>3 DEF OutcomeInv
  <2>. QED  BY <2>1, <2>4 DEF OutcomeInv, OnlyWorker, SameRecord, SameOwner, SameAgent,
               SameReport,
            Unsettled
<1>8. CASE Borrow
  BY <1>8, BorrowDoes
     DEF OutcomeInv, Unsettled, OnlyWorker, Goes, SameRecord, SameOwner, SameAgent, SameReport
<1>9. CASE Claim
  <2>1. /\ pc = "none" /\ w.pc = "opening" /\ Unsettled' = Unsettled /\ answered' = answered
        /\ won' = won
    BY <1>9, ClaimDoes DEF SameAgent, SameReport, Opens, Unsettled
  <2>2. w.run \in Runs /\ w.grant \in Grants /\ claims + 1 \in Owners
    BY <1>9, <2>1, ClaimDoes, AcpAssumption DEF WorkerOK, Runs, Owners
  <2>3. CASE Refused
    BY <2>1, <2>3 DEF OutcomeInv, Refused, SameOwner, Goes
  <2>4. ASSUME NEW m \in Records, NEW c \in Records, Takes(m, c) PROVE OutcomeInv'
    <3>1. /\ disk' \in {disk, c} /\ (pc' # "none" => mem' = c)
          /\ w'.pc = "opened" \/ (w'.pc = "concluding" /\ w'.res = "Err")
      BY <2>4 DEF Takes, Goes
    <3>2. c.status = "Finished" =>
            m.run = w.run /\ c.run = w.run /\ m.status = "Finished" /\ c.stop = m.stop
      BY <2>2, <2>4, ClaimedIs DEF Takes
    <3>3. m.status = "Finished" => disk # None /\ m = disk
      BY <2>2, <2>4, NewRecordIs DEF Takes
    <3>4. c.status = "Finished" /\ c.stop # "cancelled_before_prompt" => c.run \in answered
      BY <3>2, <3>3 DEF OutcomeInv
    <3>. QED  BY <2>1, <3>1, <3>4 DEF OutcomeInv
  <2>. QED  BY <1>9, <2>3, <2>4, ClaimDoes
<1>10. CASE Inspect
  BY <1>10, InspectDoes
     DEF OutcomeInv, Unsettled, OnlyWorker, Goes, SameRecord, SameOwner, SameAgent, SameReport
<1>11. CASE AttachConversation
  BY <1>11, AttachConversationDoes
     DEF OutcomeInv, Unsettled, Aside, SameOwner, SameAgent, SameReport
<1>12. CASE SendPrompt
  <2>1. /\ SameRecord /\ mem' = mem /\ Unsettled' = Unsettled /\ answered' = answered /\ won' = won
    BY <1>12, SendPromptDoes DEF Aside, SameAgent, SameReport, Unsettled
  <2>2. /\ w'.pc = "prompting" \/ (w'.pc = "observing" /\ w'.res = "Err")
        /\ pc' # "none" => pc # "none"
    BY <1>12, SendPromptDoes DEF Goes, Mine, Serving
  <2>. QED  BY <2>1, <2>2 DEF OutcomeInv, SameRecord
<1>13. CASE Observe
  <2>1. OnlyWorker /\ w.pc = "observing" /\ w'.pc = "concluding" /\ w'.run = w.run
    BY <1>13, ObserveDoes DEF Goes
  <2>2. w'.res = w.res \/ (w'.res = "cancelled" /\ w.run \notin Unsettled)
    BY <1>13, ObserveDoes, SeenIsSettled DEF Goes
  <2>. QED  BY <2>1, <2>2 DEF OutcomeInv, OnlyWorker, SameRecord, SameOwner, SameAgent,
               SameReport,
            Unsettled
<1>14. CASE StreamLost
  BY <1>14, StreamLostDoes
     DEF OutcomeInv, Unsettled, Aside, SameRecord, Goes, Cancels, SameAgent, SameReport
<1>15. CASE Cancel
  BY <1>15, CancelDoes
     DEF OutcomeInv, Unsettled, SameRecord, SameAgent, SameReport, Cancels
<1>16. CASE AcknowledgeStop
  BY <1>16, AcknowledgeStopDoes
     DEF OutcomeInv, Unsettled, SameRecord, SameOwner, SameAgent
<1>17. CASE InterruptTimesOut
  BY <1>17, InterruptTimesOutDoes
     DEF OutcomeInv, Unsettled, SameRecord, SameOwner, SameAgent, SameReport
<1>18. CASE AbortWorker
  BY <1>18, AbortWorkerDoes, NoWorkerIs
     DEF OutcomeInv, Unsettled, OnlyWorker, SameRecord, SameOwner, SameAgent, SameReport
<1>19. CASE Conclude
  BY <1>19, ConcludeDoes, NoWorkerIs
     DEF OutcomeInv, Unsettled, SameOwner, SameAgent
<1>20. CASE Spawn
  BY <1>20, SpawnDoes
     DEF OutcomeInv, Unsettled, SameRecord, SameReport
<1>21. CASE RecordLaunch
  BY <1>21, RecordLaunchDoes, HeldRecord, NoneAssumption
     DEF OutcomeInv, Unsettled, SameRest, SameReport, Becomes, Keeps
<1>22. CASE SetUp
  BY <1>22, SetUpDoes
     DEF OutcomeInv, Unsettled, SameRest, SameAgent, SameReport, Becomes
<1>23. CASE Submit
  BY <1>23, SubmitDoes
     DEF OutcomeInv, Unsettled, SameRest, SameAgent, SameReport, Becomes, Hears, Breaks, Goes
<1>24. CASE WithdrawPrompt
  BY <1>24, WithdrawPromptDoes
     DEF OutcomeInv, Unsettled, SameRest, SameAgent, SameReport, Becomes, Hears, Breaks, Goes
<1>25. CASE Transmit
  <2>1. /\ pc = "submitted" /\ pc' = "prompting" /\ disk' = disk /\ mem' = mem /\ pend' = pend
        /\ w' = w /\ up' = up /\ answered' = answered /\ claims' = claims /\ runs' = runs
        /\ quiet' = quiet /\ won' = won /\ stop' = stop /\ ~pend.cancelled
    BY <1>25, TransmitDoes DEF SameRecord, SameCount, SameReport, SameAside
  <2>2. pend.run \in Runs /\ sent[pend.run] = 0 /\ mem.run = pend.run
    BY <2>1 DEF TypeOK, Prompts, PendInv
  <2>3. sent' = [sent EXCEPT ![pend.run] = 1]
    BY <1>25, <2>2, TransmitDoes
  <2>4. Unsettled' = {pend.run}
    <3>1. Unsettled = {} /\ pend.run \notin answered
      BY <2>1, <2>2 DEF FenceInv, PendInv, RunInv, Unsettled, Sent
    <3>. QED  BY <2>1, <2>2, <2>3, <3>1 DEF Unsettled, TypeOK
  <2>5. w.pc \in {"observing", "concluding"} => w.run # pend.run
    BY <2>1 DEF QuietInv
  <2>. QED  BY <2>1, <2>4, <2>5 DEF OutcomeInv
<1>26. CASE Respond
  <2>1. /\ pc = "prompting" /\ sent' = sent /\ answered' = answered \cup {pend.run} /\ won' = won
        /\ disk' \in {disk, mem'} /\ mem'.run = mem.run
    BY <1>26, RespondDoes DEF SameReport, Becomes
  <2>2. disk = mem /\ mem.run = pend.run
    BY <2>1 DEF PendInv
  <2>3. Unsettled' = {}
    BY <2>1, <2>2 DEF FenceInv, Unsettled
  <2>4. w' = w \/ (w.run = pend.run /\ w'.run = w.run)
    BY <1>26, RespondDoes DEF Hears, Goes
  <2>. QED  BY <2>1, <2>2, <2>3, <2>4 DEF OutcomeInv
<1>27. CASE PromptFails
  BY <1>27, PromptFailsDoes
     DEF OutcomeInv, Unsettled, SameRest, SameAgent, SameReport, Becomes, Hears, Breaks, Goes,
         Keeps
<1>28. CASE ConnectionLost
  BY <1>28, ConnectionLostDoes
     DEF OutcomeInv, Unsettled, SameRecord, SameAgent, SameReport, Hears, Breaks, Goes
<1>29. CASE IdleExpires
  BY <1>29, IdleExpiresDoes
     DEF OutcomeInv, Unsettled, Aside, SameRecord, SameAgent, SameReport
<1>30. CASE Watch
  BY <1>30, WatchDoes
     DEF OutcomeInv, Unsettled, Aside, SameRecord, SameAgent, SameReport
<1>31. CASE Teardown
  BY <1>31, TeardownDoes, HeldRecord, NoneAssumption
     DEF OutcomeInv, Unsettled, SameRest, SameReport, Becomes, Keeps
<1>32. CASE Close
  BY <1>32, CloseDoes, NoWorkerIs
     DEF OutcomeInv, Unsettled, SameRest, SameAgent, SameReport, Goes, Becomes, Keeps
<1>33. CASE AgentExits
  BY <1>33, AgentExitsDoes
     DEF OutcomeInv, Unsettled, SameRecord, SameOwner, SameReport
<1>34. CASE OrphanEndsTurn
  BY <1>34, OrphanEndsTurnDoes
     DEF OutcomeInv, Unsettled, SameRecord, SameOwner, SameReport
<1>35. CASE Crash
  BY <1>35, CrashDoes, NoWorkerIs
     DEF OutcomeInv, Unsettled, SameRecord, SameAgent, SameReport
<1>36. CASE UNCHANGED vars
  BY <1>36 DEF vars, record, owner, worker, agent, report, count, OutcomeInv, Unsettled
<1>. QED  BY <1>1, <1>2, <1>3, <1>4, <1>5, <1>6, <1>7, <1>8, <1>9, <1>10, <1>11, <1>12, <1>13,
             <1>14, <1>15, <1>16, <1>17, <1>18, <1>19, <1>20, <1>21, <1>22, <1>23, <1>24,
             <1>25, <1>26, <1>27, <1>28, <1>29, <1>30, <1>31, <1>32, <1>33, <1>34, <1>35, <1>36
          DEF Next, WorkerStep, OwnerStep

-----------------------------------------------------------------------------
(* The theorems. *)

\* The daemon starts with an empty record and nothing running.
LEMMA InitIInv == Init => IInv
<1>. SUFFICES ASSUME Init PROVE IInv
  OBVIOUS
<1>1. /\ disk = None /\ file = [run |-> None, live |-> FALSE] /\ bound = None
      /\ parent \in BOOLEAN /\ pc = "none" /\ mem = None /\ pend = None /\ ~watched
      /\ clean /\ w = NoWorker /\ stop = None /\ boot /\ up = {}
      /\ ctx = {} /\ answered = {} /\ won = {} /\ quiet = {} /\ claims = 0 /\ runs = 0
  BY DEF Init
<1>2. file.run = None /\ file \in [run: Runs \cup {None}, live: BOOLEAN]
  BY <1>1
<1>3. sent \in [Runs -> Nat] /\ task \in [Owners -> Runs \cup {None}] /\ \A r \in Runs : sent[r] = 0
  BY DEF Init
<1>4. watched \in BOOLEAN /\ clean \in BOOLEAN /\ boot \in BOOLEAN
  BY DEF Init
<1>5. TypeOK
  BY <1>1, <1>2, <1>3, <1>4 DEF TypeOK
<1>6. WorkerOK
  BY <1>1, <1>2, NoWorkerIs, AcpAssumption DEF WorkerOK
<1>7. AgentInv
  BY <1>1, NoWorkerIs DEF AgentInv
<1>8. RunInv
  BY <1>1, <1>2, <1>3, NoWorkerIs DEF RunInv, Sent, Early, Unsettled
<1>9. PendInv
  BY <1>1 DEF PendInv, Starting
<1>10. FenceInv
  BY <1>1, <1>2, <1>3 DEF FenceInv, Unsettled
<1>11. ContextInv
  BY <1>1, NoWorkerIs DEF ContextInv
<1>12. ParentInv
  BY <1>1, NoWorkerIs DEF ParentInv, Early, Late, Serves
<1>13. TaskInv
  BY <1>1 DEF TaskInv, Init
<1>14. QuietInv
  BY <1>1, NoWorkerIs DEF QuietInv, Early
<1>15. OutcomeInv
  BY <1>1, NoWorkerIs DEF OutcomeInv
<1>. QED  BY <1>5, <1>6, <1>7, <1>8, <1>9, <1>10, <1>11, <1>12, <1>13, <1>14, <1>15 DEF IInv

\* The inductive invariant survives every step, a crash included.
LEMMA NextKeepsIInv == IInv /\ [Next]_vars => IInv'
BY TypesKept, AgentKept, RunKept, PendKept, FenceKept, ContextKept, ParentKept, TaskKept,
   QuietKept, OutcomeKept
   DEF IInv

\* What the record, the owner, the worker and the agents agree on, however often the
\* daemon dies, a write fails or a process is not reaped.
THEOREM AcpInvariant == Spec => []IInv
<1>1. Init => IInv
  BY InitIInv
<1>2. IInv /\ [Next]_vars => IInv'
  BY NextKeepsIInv
<1>. QED  BY <1>1, <1>2, PTL DEF Spec

\* The records of session, owner and worker stay well formed (host.rs, durable.rs).
THEOREM AcpTypes == Spec => []TypeOK
<1>1. IInv => TypeOK
  BY DEF IInv
<1>. QED  BY <1>1, AcpInvariant, PTL

\* However often the daemon dies, at most one agent of the issue is alive: a claim needs
\* proof that the last process is gone (verify_prior_process).
THEOREM OnlyOneAgent == Spec => []OneAgent
<1>1. IInv => OneAgent
  <2>. SUFFICES ASSUME IInv, NEW o \in up, NEW p \in up PROVE o = p
    BY DEF OneAgent
  <2>. QED  BY DEF IInv, AgentInv
<1>. QED  BY <1>1, AcpInvariant, PTL

\* A prompt is sent at most once and never while another may still be worked on: the
\* submitted marker fences the record through restarts and failed writes.
THEOREM OnlyOneUnsettledPrompt == Spec => []OneUnsettledPrompt
<1>1. IInv => OneUnsettledPrompt
  BY DEF IInv, RunInv, FenceInv, OneUnsettledPrompt
<1>. QED  BY <1>1, AcpInvariant, PTL

\* A run reported as succeeded was answered, and no live agent works on the prompt of
\* one that was reported as stopped (run_issue, observe_stop).
THEOREM ReportedOutcomeIsTrue == Spec => []OutcomeIsTrue
<1>1. IInv => OutcomeIsTrue
  BY NoneAssumption, AcpAssumption DEF IInv, TypeOK, TaskInv, QuietInv, OutcomeInv, OutcomeIsTrue
<1>. QED  BY <1>1, AcpInvariant, PTL

\* The session a parent's attempts are bound to stays the one on record through
\* rotations, restarts and agents that lost it (require_persistence).
THEOREM ParentKeepsItsSession == Spec => []ParentKeepsSession
<1>1. IInv => ParentKeepsSession
  BY DEF IInv, ParentInv, ParentKeepsSession
<1>. QED  BY <1>1, AcpInvariant, PTL

\* Only Transmit sends, and by then the session was given the full prompt.
LEMMA SentOnlyWithContext ==
    ASSUME IInv, Next
    PROVE  \A r \in Runs : sent'[r] > sent[r] => mem.session \in ctx'
<1>1. CASE Transmit
  <2>1. ctx' = (IF pend.full THEN ctx \cup {mem.session} ELSE ctx) /\ pc = "submitted"
    BY <1>1, TransmitDoes
  <2>. QED  BY <2>1 DEF IInv, ContextInv, TypeOK
<1>2. ASSUME sent' = sent PROVE \A r \in Runs : sent'[r] > sent[r] => mem.session \in ctx'
  <2>. TAKE r \in Runs
  <2>1. sent[r] \in Nat
    BY DEF IInv, TypeOK
  <2>. QED  BY <1>2, <2>1
<1>3. TypeOK /\ WorkerOK
  BY DEF IInv
<1>4. WorkerStep => sent' = sent
  BY <1>3, StartAttemptDoes, PrepareDoes, RetireLiveDoes, RetirePersistedDoes, ArchiveDoes,
     StartRunDoes, SettleDoes, BorrowDoes, ClaimDoes, InspectDoes, AttachConversationDoes,
     SendPromptDoes, ObserveDoes, StreamLostDoes, CancelDoes, AcknowledgeStopDoes,
     InterruptTimesOutDoes, AbortWorkerDoes, ConcludeDoes
     DEF WorkerStep, OnlyWorker, Aside, SameAgent
<1>5. OwnerStep => sent' = sent \/ Transmit
  BY <1>3, SpawnDoes, RecordLaunchDoes, SetUpDoes, SubmitDoes, WithdrawPromptDoes, RespondDoes,
     PromptFailsDoes, ConnectionLostDoes, IdleExpiresDoes, WatchDoes, TeardownDoes, CloseDoes
     DEF OwnerStep, Aside, SameAgent
<1>6. AgentExits \/ OrphanEndsTurn \/ Crash => sent' = sent
  BY AgentExitsDoes, OrphanEndsTurnDoes, CrashDoes DEF SameAgent
<1>. QED  BY <1>1, <1>2, <1>4, <1>5, <1>6 DEF Next

\* A prompt without the workflow's text goes only to a session that was given it
\* (workflow_prompt_seeded).
THEOREM EveryPromptHasContext == Spec => ContinuationHasContext
<1>1. IInv /\ [Next]_vars => [\A r \in Runs : sent'[r] > sent[r] => mem.session \in ctx']_vars
  BY SentOnlyWithContext
<1>. QED  BY <1>1, AcpInvariant, PTL DEF Spec, ContinuationHasContext

=============================================================================
