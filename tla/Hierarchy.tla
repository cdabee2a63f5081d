------------------------------- MODULE Hierarchy -------------------------------
(***************************************************************************)
(* Parents, their children and the leases on the children's checkouts:     *)
(* `hierarchy.rs` and the parent half of `scheduler.rs`.                   *)
(*                                                                         *)
(* A parent is integrated by a run of its own once every required child is *)
(* finished and merged.  The checkouts of its descendant leaves are kept   *)
(* by leases until then: a leaf lease first, then a lease of each ancestor *)
(* that admitted the checkout.  A parent freezes its scope when it is      *)
(* admitted, and a scope that changes afterwards blocks it until an        *)
(* operator replans it.  While a parent's run may still be alive, no       *)
(* descendant may start.                                                   *)
(*                                                                         *)
(* The state that survives a crash is one record, written as a whole:      *)
(* `mem` is the copy of the daemon, `disk` the one last written.           *)
(*                                                                         *)
(* Left out: the tracker's rate limit, retry exhaustion, failed-workspace  *)
(* retention, per-state limits, and a worker that reports a run as over    *)
(* while it goes on (module Scheduler has them); provider pages and        *)
(* commits (a merge is the number of the run it came from); the checkout   *)
(* generation in a lease resource (one checkout per leaf).                 *)
(***************************************************************************)
EXTENDS Naturals, FiniteSets, SequencesExt

CONSTANTS
    Parents,        \* issues with children
    Leaves,         \* issues with a repository and a checkout of their own
    IssueOrder,     \* every issue once, in the order the tracker lists them
    InitialScope,   \* the required children of each parent at the start
    MaxGeneration,  \* bound on the scope generations of a parent
    MaxRuns,        \* bound on the runs of one issue
    MaxEvents,      \* bound on the tracker's scope changes and reopenings
    MaxFaults       \* bound on refused stops, failed writes, failed launches, crashes

Issues == Parents \cup Leaves

ASSUME HierarchyAssumption ==
    /\ Parents \cap Leaves = {}
    /\ InitialScope \in [Parents -> SUBSET Issues]
    /\ IssueOrder \in Seq(Issues) /\ ToSet(IssueOrder) = Issues
    /\ MaxRuns \in Nat

VARIABLES
    scope,     \* tracker: the required children of each parent
    open,      \* tracker: the issues in an active state
    merged,    \* provider: the latest run of each leaf whose work is merged, 0 if none
    runs,      \* run manifests: the number of runs started for each issue
    live,      \* harness: how many runs of each issue are alive, of those whose
               \* worker has not reported
    checkout,  \* workspace: the leaves whose checkout exists
    exec,      \* scheduler memory: the execution of each issue
    mem,       \* scheduler memory: the durable orchestrator state
    disk,      \* its last written copy
    dirty,     \* a write of it is owed
    phase,     \* where the daemon is: down, idle, or inside a tick
    view,      \* the full tracker snapshot the tick works from
    queue,     \* issues still to be settled against that snapshot
    pending,   \* issues prepared for launch in this dispatch pass
    events,
    faults

tracker  == <<scope, open, merged>>
world    == <<tracker, runs, live, checkout>>
vars     == <<world, exec, mem, disk, dirty, phase, view, queue, pending, events, faults>>

-----------------------------------------------------------------------------
(* Records. *)

NoInput == [l \in Leaves |-> 0]

NoSnapshot == [known |-> FALSE, gen |-> 0, scope |-> {}, frozen |-> FALSE,
               blocked |-> FALSE, dispatched |-> 0, intent |-> 0, inFlight |-> 0]

NewSnapshot(children) == [NoSnapshot EXCEPT !.known = TRUE, !.gen = 1, !.scope = children]

\* `input` is the merges the controller was admitted with
NewController(g) == [gen |-> g, st |-> "waiting", input |-> NoInput,
                     cleanup |-> "none", targets |-> {}]

\* kind, checkout, owning issue, the child it was taken for, scope generation
Lease(k, r, o, v, g) == [kind |-> k, res |-> r, owner |-> o, via |-> v, gen |-> g]

LeaseKeys(l) == <<l.kind, l.res, l.owner, l.via>>

Acquire(leases, new) ==
    {l \in leases : \A n \in new : LeaseKeys(l) # LeaseKeys(n)} \cup new

EmptyState == [snap     |-> [p \in Parents |-> NoSnapshot],
               leases   |-> {},
               stamp    |-> [i \in Issues |-> 0],
               receipts |-> {},
               ctl      |-> [p \in Parents |-> NewController(0)]]

-----------------------------------------------------------------------------
(* The shape of the tree, as the orchestrator knows it. *)

Known(s) == {p \in Parents : s.snap[p].known}

\* The required edges the orchestrator knows.
Scopes(s) == [p \in Parents |-> IF s.snap[p].known THEN s.snap[p].scope ELSE {}]

\* The issues reached from `roots` through the edges of `children`, `roots` included.
Reached(children, roots) ==
    LET reach[n \in 0 .. Cardinality(Parents)] ==
            IF n = 0 THEN roots
            ELSE reach[n - 1] \cup UNION {children[p] : p \in reach[n - 1] \cap Parents}
    IN  reach[Cardinality(Parents)]

Subtree(s, roots) == Reached(Scopes(s), roots)

\* Wrong on purpose, like every operator said to be so below: each shows that a
\* property notices the bug.  This one knows the direct parents only.
DirectParents(s, i) == {p \in Known(s) : i \in s.snap[p].scope}

AncestorsOf(s, i) == {p \in Known(s) : i \in Subtree(s, s.snap[p].scope)}

\* Roots of `sub` some other parent still requires, and all below them.
Retained(s, p, sub, edges) ==
    LET known == {e \in Parents \X Issues : e[1] \in Known(s) /\ e[2] \in s.snap[e[1]].scope}
        other == {e \in known \cup edges : e[1] # p}
        keep[n \in 0 .. Cardinality(Issues)] ==
            IF n = 0 THEN {c \in sub : \E e \in other : e[2] = c /\ e[1] \notin sub}
            ELSE keep[n - 1] \cup {c \in sub : \E e \in other : e[2] = c /\ e[1] \in keep[n - 1]}
    IN  keep[Cardinality(Issues)]

HasFence(sn) == sn.dispatched = sn.gen \/ sn.inFlight # 0

\* A run of `i` must not start: an ancestor's run may be alive and holds checkouts.
Fenced(s, i) ==
    \E p \in AncestorsOf(s, i) :
        /\ HasFence(s.snap[p])
        /\ \E l \in s.leases : l.kind = "ancestor" /\ l.owner = p

Held(s, r) == \E l \in s.leases : l.res = r

-----------------------------------------------------------------------------
(* Releasing leases. *)

DropLeases(s, gone) == [s EXCEPT !.leases = @ \ gone]

ReleaseRemoved(s, p, removed, edges) ==
    LET sub  == Subtree(s, removed)
        lost == sub \ Retained(s, p, sub, edges)
        Gone(l) == CASE l.kind = "leaf"     -> l.res \in lost
                     [] l.kind = "ancestor" -> l.owner \in lost
                     [] l.kind = "review"   -> (l.owner = p /\ l.via \in removed)
                                               \/ l.owner \in lost \cap Known(s)
    IN  DropLeases(s, {l \in s.leases : Gone(l)})

ReleaseUndispatched(s, p, edges) ==
    LET sub  == Subtree(s, s.snap[p].scope)
        lost == sub \ Retained(s, p, sub, edges)
        Gone(l) == IF l.kind = "leaf" THEN l.res \in lost ELSE l.owner \in {p} \cup lost
    IN  DropLeases(s, {l \in s.leases : Gone(l)})

ReleaseLeafLeasesFor(s, p) ==
    LET own == {l.res : l \in {k \in s.leases : k.kind = "ancestor" /\ k.owner = p}}
        Gone(l) == l.kind = "leaf" /\ l.res \in own
    IN  DropLeases(s, {l \in s.leases : Gone(l)})

ReleaseAncestorLeasesOf(s, children) ==
    LET Gone(l) == l.kind = "ancestor" /\ l.owner \in children
    IN  DropLeases(s, {l \in s.leases : Gone(l)})

\* Wrong on purpose: the leases of every parent on the resources go.
ReleaseResourcesOfAll(s, p, resources) ==
    LET Gone(l) == l.res \in resources /\ l.kind \in {"ancestor", "review"}
    IN  DropLeases(s, {l \in s.leases : Gone(l)})

ReleaseParentResources(s, p, resources) ==
    LET Gone(l) == l.res \in resources /\ l.kind \in {"ancestor", "review"} /\ l.owner = p
    IN  DropLeases(s, {l \in s.leases : Gone(l)})

Rebind(s, k, who, g) ==
    [s EXCEPT !.leases = {IF l.kind = k /\ l.owner \in who THEN [l EXCEPT !.gen = g] ELSE l :
                          l \in @}]

-----------------------------------------------------------------------------
(* One snapshot. *)

\* Wrong on purpose: a new scope forgets the run launched for the old one.
ReconcileScopeUnfenced(sn, children) ==
    IF children = sn.scope THEN sn
    ELSE [sn EXCEPT !.gen = @ + 1, !.scope = children, !.dispatched = 0, !.intent = 0,
                    !.blocked = sn.frozen]

\* Wrong on purpose: the marks of the old generation stay.
ReconcileScopeMarked(sn, children) ==
    IF children = sn.scope THEN sn
    ELSE [sn EXCEPT !.gen = @ + 1, !.scope = children, !.blocked = sn.frozen]

ReconcileScope(sn, children) ==
    IF children = sn.scope THEN sn
    ELSE [sn EXCEPT !.gen = @ + 1, !.scope = children, !.dispatched = 0, !.intent = 0,
                    !.blocked = sn.frozen,
                    !.inFlight = IF sn.frozen /\ sn.dispatched = sn.gen /\ @ = 0
                                 THEN sn.gen ELSE @]

Replanned(sn) == [sn EXCEPT !.frozen = FALSE, !.blocked = FALSE, !.dispatched = 0,
                            !.intent = 0, !.inFlight = 0]

MarkDispatched(sn) == [sn EXCEPT !.dispatched = sn.gen, !.intent = 0, !.inFlight = 0]

RestoreFence(sn) ==
    [sn EXCEPT !.inFlight = IF sn.intent # 0 THEN sn.intent
                            ELSE IF sn.dispatched # 0 THEN sn.dispatched ELSE @]

Dispatched(s, p) ==
    LET s1 == [s EXCEPT !.snap[p] = MarkDispatched(@)]
    IN  ReleaseAncestorLeasesOf(ReleaseLeafLeasesFor(s1, p), s.snap[p].scope \cap Known(s))

Finalized(s, i) ==
    i \in Parents =>
        /\ s.ctl[i].st = "completed"
        /\ s.snap[i].gen = s.ctl[i].gen /\ ~s.snap[i].blocked

-----------------------------------------------------------------------------
(* Reconciling the orchestrator's tree with a full tracker snapshot. *)

\* The tracker's required edges, whatever the orchestrator knows.
Edges == {e \in Parents \X Issues : e[2] \in scope[e[1]]}

IsRoot(p) == \A q \in Parents : p \notin scope[q]

\* A parent that ran is active again without a run: its scope can be run again.
Reactivated(s, p, ex) ==
    LET sn == s.snap[p] IN
    /\ s.ctl[p].st # "passed"
    /\ sn.dispatched = sn.gen /\ sn.inFlight = 0
    /\ p \in open /\ ex[p] # "running"
    /\ ~(IsRoot(p) /\ \E l \in s.leases : l.kind # "leaf" /\ l.owner = p)

ForgetParent(s, p) ==
    LET s1 == [s EXCEPT !.snap[p] = NoSnapshot, !.stamp[p] = 0, !.ctl[p] = NewController(0)]
    IN  ReleaseRemoved(s1, p, s.snap[p].scope, Edges)

RescopeParent(s, p, ex) ==
    LET old   == IF Reactivated(s, p, ex) THEN Replanned(s.snap[p]) ELSE s.snap[p]
        new   == ReconcileScope(old, scope[p])
        quiet == {c \in new.scope : ex[c] # "running"}
        s1    == [s EXCEPT !.snap[p] = new, !.receipts = @ \ {p}]
        s2    == ReleaseRemoved(Rebind(s1, "leaf", quiet, new.gen), p,
                                old.scope \ new.scope, Edges)
        s3    == [s2 EXCEPT !.stamp = [i \in Issues |-> IF i \in quiet THEN new.gen ELSE @[i]]]
    IN  IF new.blocked THEN s3 ELSE [s3 EXCEPT !.ctl[p] = NewController(new.gen)]

ReconcileParent(s, p, ex) ==
    LET sn     == s.snap[p]
        retain == scope[p] \cup sn.scope # {} \/ sn.frozen \/ sn.blocked
        undone == p \notin open /\ ~HasFence(sn)
        s1     == IF undone THEN ReleaseUndispatched(s, p, Edges) ELSE s
    IN  IF s.ctl[p].cleanup = "pending" THEN s
        ELSE IF ~retain THEN (IF sn.known THEN ForgetParent(s, p) ELSE s)
        ELSE IF ~sn.known
             THEN LET s0 == [s EXCEPT !.snap[p] = NewSnapshot(scope[p]), !.ctl[p] = NewController(1)]
                  IN  IF p \in open THEN s0 ELSE ReleaseUndispatched(s0, p, Edges)
        ELSE IF scope[p] # sn.scope THEN RescopeParent(s1, p, ex)
        ELSE IF Reactivated(s1, p, ex)
             THEN [s1 EXCEPT !.snap[p] = Replanned(@), !.ctl[p] = NewController(sn.gen)]
        ELSE s1

\* `Op` applied to the parents in `S`, one after the other as the tracker lists them.
EachParent(Op(_, _), s, S) ==
    LET upto[n \in 0 .. Len(IssueOrder)] ==
            IF n = 0 THEN s
            ELSE IF IssueOrder[n] \in Parents \cap S THEN Op(upto[n - 1], IssueOrder[n])
            ELSE upto[n - 1]
    IN  upto[Len(IssueOrder)]

\* reconcile_hierarchy_snapshots, then reconcile_terminal_hierarchy_snapshots
Reconciled(s, S, ex) == EachParent(LAMBDA t, p : ReconcileParent(t, p, ex), s, S)
ReconcileActive(s, ex)   == Reconciled(s, open, ex)
ReconcileTerminal(s, ex) == Reconciled(s, Known(s) \ open, ex)

\* reopen_completed_parent_for_new_controller: the run may be claimed again.
Reopened(before, after, ex) ==
    [i \in Issues |->
        IF /\ i \in Parents /\ ex[i] = "done" /\ i \in open
           /\ after.ctl[i].st = "waiting" /\ before.ctl[i] # after.ctl[i]
        THEN "unclaimed" ELSE ex[i]]

-----------------------------------------------------------------------------
NoView   == [scope |-> [p \in Parents |-> {}], open |-> {}]
EndTick  == phase' = "idle" /\ queue' = <<>> /\ view' = NoView /\ pending' = {}
MayFault == faults < MaxFaults
\* A write of the durable state, undone in memory when it fails ...
SavedOrUndone(ok, s) ==
    IF ok THEN mem' = s /\ disk' = s /\ dirty' = FALSE /\ UNCHANGED faults
    ELSE MayFault /\ faults' = faults + 1 /\ UNCHANGED <<mem, disk, dirty>>
\* ... or kept there, and owed to the disk.
SavedOrOwed(ok, s) ==
    IF ok THEN mem' = s /\ disk' = s /\ dirty' = FALSE /\ UNCHANGED faults
    ELSE MayFault /\ faults' = faults + 1 /\ mem' = s /\ dirty' = TRUE /\ UNCHANGED disk
NotSaved == UNCHANGED <<mem, disk, dirty, faults>>

Init ==
    /\ scope = InitialScope
    /\ open = Issues
    /\ merged = [l \in Leaves |-> 0]
    /\ runs = [i \in Issues |-> 0]
    /\ live = [i \in Issues |-> 0]
    /\ checkout = {}
    /\ exec = [i \in Issues |-> "absent"]
    /\ mem = EmptyState /\ disk = EmptyState /\ dirty = FALSE
    /\ phase = "idle" /\ view = NoView /\ queue = <<>> /\ pending = {}
    /\ events = 0 /\ faults = 0

-----------------------------------------------------------------------------
(* The world: tracker, provider, harness. *)

scheduler == <<exec, mem, disk, dirty, phase, view, queue, pending, faults>>

\* Children are added to a parent, moved under it, removed or canceled.
TrackerRescopes(p, children) ==
    /\ events < MaxEvents /\ events' = events + 1
    /\ mem.snap[p].gen < MaxGeneration
    /\ children # scope[p] /\ children \cap Parents = scope[p] \cap Parents
    /\ scope' = [q \in Parents |-> IF q = p THEN children ELSE scope[q] \ children]
    /\ UNCHANGED <<open, merged, runs, live, checkout, scheduler>>

\* Agents and people close an issue once it was worked on.
TrackerCloses(i) ==
    /\ i \in open /\ runs[i] > 0
    /\ i \in Parents => scope[i] \cap open = {}
    /\ open' = open \ {i}
    /\ UNCHANGED <<scope, merged, runs, live, checkout, scheduler, events>>

TrackerReopens(i) ==
    /\ events < MaxEvents /\ events' = events + 1
    /\ i \notin open /\ open' = open \cup {i}
    /\ UNCHANGED <<scope, merged, runs, live, checkout, scheduler>>

ProviderMerges(l) ==
    /\ merged[l] < runs[l] /\ merged' = [merged EXCEPT ![l] = runs[l]]
    /\ UNCHANGED <<scope, open, runs, live, checkout, scheduler, events>>

WorkerEnds(i) ==
    /\ live[i] > 0 /\ live' = [live EXCEPT ![i] = @ - 1]
    /\ UNCHANGED <<tracker, runs, checkout, scheduler, events>>

-----------------------------------------------------------------------------
(* A tick, first half: refresh, then settle every issue. *)

\* The snapshot is reconciled and written before anything else; what the
\* reconciliation of closed parents changed is not owed when the write fails.
Refresh(ok) ==
    LET s1 == ReconcileActive(mem, exec)
        s2 == ReconcileTerminal(s1, exec)
        changed == s2 # mem \/ dirty
    IN  /\ phase = "idle"
        /\ exec' = Reopened(mem, s2, exec)
        /\ IF ok
           THEN /\ IF changed THEN SavedOrUndone(TRUE, s2) ELSE NotSaved
                /\ phase' = "settle" /\ queue' = IssueOrder
                /\ view' = [scope |-> scope, open |-> open]
           ELSE /\ changed /\ MayFault /\ faults' = faults + 1
                /\ mem' = s2 /\ dirty' = (dirty \/ s1 # mem)
                /\ UNCHANGED <<disk, phase, queue, view>>
        /\ UNCHANGED <<world, pending, events>>

\* The generation a finished run of `i` is bound to.
Above(s, i)   == {p \in Known(s) : i \in s.snap[p].scope}
ScopeGen(s, i) == s.snap[CHOOSE p \in Above(s, i) : TRUE].gen
StampOf(s, i) == IF s.stamp[i] # 0 THEN s.stamp[i]
                 ELSE IF Above(s, i) = {} THEN 1 ELSE ScopeGen(s, i)

\* A finished child's checkout is kept for the parents that will integrate it.
RetainTerminalChildLease(s, i) ==
    LET undone == {p \in Known(s) \ open : i \in scope[p] /\ ~HasFence(s.snap[p])}
        mine   == {l \in s.leases : l.res = i}
    IN  IF i \notin Leaves \cap checkout \/ Above(s, i) = {} \/ Fenced(s, i) THEN s
        ELSE IF undone # {} THEN ReleaseUndispatched(s, CHOOSE p \in undone : TRUE, {})
        ELSE IF \E l \in mine : l.kind # "leaf" THEN s
        ELSE [s EXCEPT !.leases = (@ \ mine) \cup {Lease("leaf", i, i, i, StampOf(s, i))}]

\* What is left of the checkouts once nothing holds that of a released leaf.
CheckoutsAfter(s, i) ==
    IF i \in Leaves /\ ~Held(s, i) THEN checkout \ {i} ELSE checkout

Settling(i) == phase = "settle" /\ queue # <<>> /\ i = Head(queue)
Blocked(i)  == i \in Parents /\ mem.snap[i].blocked
Settled     == IF Len(queue) = 1 THEN phase' = "dispatch" /\ queue' = IssueOrder
               ELSE queue' = Tail(queue) /\ UNCHANGED phase

\* Wrong on purpose: a run the harness would not stop counts as stopped.
StopRefusedForgotten(i) ==
    /\ Settling(i) /\ exec[i] = "running" /\ live[i] > 0
    /\ i \notin view.open \/ Blocked(i)
    /\ MayFault /\ faults' = faults + 1
    /\ exec' = [exec EXCEPT ![i] = "parked"]
    /\ Settled
    /\ UNCHANGED <<world, mem, disk, dirty, view, pending, events>>

\* The harness refuses to stop a run that must not go on: it is kept.
StopRefused(i) ==
    /\ Settling(i) /\ exec[i] = "running" /\ live[i] > 0
    /\ i \notin view.open \/ Blocked(i)
    /\ MayFault /\ faults' = faults + 1
    /\ Settled
    /\ UNCHANGED <<world, exec, mem, disk, dirty, view, pending, events>>

ReleasedController(c, closed) ==
    IF c.st = "passed" /\ closed THEN [c EXCEPT !.st = "completed"]
    ELSE IF c.st \in {"completed", "canceled", "passed"} THEN c
    ELSE [c EXCEPT !.st = "canceled"]

\* A run that must not go on is stopped; what the tracker closed is released.
Release(i, ok) ==
    LET stops  == exec[i] = "running"
        closed == i \notin view.open
        s1 == IF i \in Parents
              THEN [mem EXCEPT !.snap[i].inFlight = IF stops /\ Blocked(i) THEN 0 ELSE @,
                               !.ctl[i] = ReleasedController(@, closed)]
              ELSE mem
        s2 == IF closed /\ Finalized(s1, i)
              THEN RetainTerminalChildLease(
                       [s1 EXCEPT !.receipts = IF exec[i] = "done" THEN @ \cup {i} ELSE @], i)
              ELSE s1
    IN  /\ Settling(i)
        /\ \/ closed /\ exec[i] # "absent"
           \/ Blocked(i) /\ exec[i] = "running"
        /\ live' = [live EXCEPT ![i] = IF stops THEN 0 ELSE @]
        /\ IF ok
           THEN /\ exec' = [exec EXCEPT ![i] = IF closed THEN "terminal" ELSE "parked"]
                /\ checkout' = IF closed THEN CheckoutsAfter(s2, i) ELSE checkout
                /\ IF s2 # mem THEN SavedOrUndone(TRUE, s2) ELSE NotSaved
                /\ Settled /\ UNCHANGED <<view, pending>>
           ELSE /\ s2 # mem /\ SavedOrUndone(FALSE, s2)
                /\ UNCHANGED <<exec, checkout>> /\ EndTick
        /\ UNCHANGED <<tracker, runs, events>>

\* upsert_active_execution, and every issue this tick leaves as it is.
Upsert(i) ==
    /\ Settling(i)
    /\ i \in view.open \/ exec[i] = "absent"
    /\ ~(Blocked(i) /\ exec[i] = "running")
    /\ IF i \in view.open /\ exec[i] \in {"absent", "parked", "terminal"}
       THEN /\ exec' = [exec EXCEPT ![i] = "unclaimed"]
            /\ mem' = [mem EXCEPT !.receipts = @ \ {i}]
            /\ dirty' = (dirty \/ i \in mem.receipts)
       ELSE UNCHANGED <<exec, mem, dirty>>
    /\ Settled
    /\ UNCHANGED <<world, disk, view, pending, events, faults>>

-----------------------------------------------------------------------------
(* A tick, second half: prepare every launch, start them together, record them. *)

Dispatching(i) == phase = "dispatch" /\ queue # <<>> /\ i = Head(queue)
Next1          == queue' = Tail(queue) /\ UNCHANGED phase

Ready(i) ==
    /\ i \in view.open /\ exec[i] \in {"unclaimed", "retry"}
    /\ i \in Parents => view.scope[i] # {} /\ view.scope[i] \cap view.open = {}
    /\ ~Fenced(mem, i)

\* What the child `c` of `p` contributes: the checkouts `p` will hold.
Contributed(s, p, c) ==
    LET owned(o, g, sub) == {l.res : l \in {k \in s.leases : k.kind = "ancestor" /\ k.owner = o
                                                      /\ k.gen = g /\ k.res \in sub}}
        fromChild == IF c \in Known(s)
                     THEN owned(c, s.snap[c].gen, Subtree(s, s.snap[c].scope)) ELSE {}
        again == owned(p, s.snap[p].gen, Subtree(s, {c}))
        leaf  == {l.res : l \in {k \in s.leases : k.kind = "leaf" /\ k.res = c
                                                  /\ k.gen = s.snap[p].gen}}
    IN  IF fromChild # {} THEN fromChild ELSE again \cup leaf

\* The lease the checkout `r` must be under while `p` takes its own on it.
Retains(s, p, c, r) ==
    \E l \in s.leases :
        /\ l.res = r
        /\ \/ l.kind = "ancestor" /\ l.owner = p /\ l.gen = s.snap[p].gen
           \/ c \in Known(s) /\ l.kind = "ancestor" /\ l.owner = c
           \/ c \notin Known(s) /\ l.kind = "leaf" /\ l.gen = s.snap[p].gen

ChildTerminal(s, c) ==
    IF exec[c] = "absent" THEN c \in s.receipts
    ELSE exec[c] \in {"terminal", "done"} /\ Finalized(s, c)

\* The tracker's issues below `c`, as the provider evidence walks them.
Below(c) == Reached(scope, IF c \in Parents THEN scope[c] ELSE {})

\* A parent without a leaf below has no merge to prove and no checkout to keep.
MergeRequired(c) == c \in Leaves \/ Below(c) \cap Leaves # {}

\* Wrong on purpose: a merge of an earlier run is good enough.
MergedOnce(c) ==
    /\ Below(c) \cap open = {}
    /\ \A l \in (Below(c) \cup {c}) \cap Leaves : merged[l] # 0

\* Every issue below `c` is closed, every merge as recent as the leaf's last run.
MergeFresh(c) ==
    /\ Below(c) \cap open = {}
    /\ \A l \in (Below(c) \cup {c}) \cap Leaves : merged[l] # 0 /\ merged[l] >= runs[l]

Input(s, p) ==
    [l \in Leaves |-> IF \E c \in s.snap[p].scope : l \in Below(c) \cup {c} THEN merged[l] ELSE 0]

\* parent_dispatch_is_eligible looks at the evidence; `retry`: the last run failed.
Examines(s, p, retry) ==
    /\ s.snap[p].known /\ ~s.snap[p].blocked
    /\ retry \/ (s.snap[p].dispatched # s.snap[p].gen /\ s.snap[p].intent # s.snap[p].gen)

\* ... and lets go of what children without a merge to prove still hold.
Examined(s, p) ==
    LET void == {c \in s.snap[p].scope : ~MergeRequired(c) /\ ChildTerminal(s, c)}
    IN  EachParent(LAMBDA t, c : ReleaseUndispatched(t, c, Edges), s, void)

Eligible(s, p, retry) ==
    LET sn == s.snap[p]
        t  == Examined(s, p)
    IN  /\ Examines(s, p, retry)
        /\ \A c \in sn.scope : ChildTerminal(s, c)
        /\ \A c \in {d \in sn.scope : MergeRequired(d)} :
               /\ MergeFresh(c)
               /\ Contributed(t, p, c) # {}
               /\ \A r \in Contributed(t, p, c) : Retains(t, p, c, r)

\* The controller takes a second admission only with the same merges.
AdmissionConflict(s, p) ==
    s.ctl[p].gen = s.snap[p].gen /\ s.ctl[p].st # "waiting" /\ s.ctl[p].input # Input(s, p)

\* A finished or canceled controller starts no further attempt.
Startable(s, p) ==
    s.ctl[p].gen = s.snap[p].gen => s.ctl[p].st \in {"waiting", "admitted", "retry"}

\* Wrong on purpose: the launch is not announced in the durable state.
AdmittedUnannounced(s, p) ==
    LET sn  == s.snap[p]
        t   == Examined(s, p)
        new == UNION {UNION {{Lease("ancestor", r, p, p, sn.gen), Lease("review", r, p, c, sn.gen)} :
                             r \in Contributed(t, p, c)} :
                      c \in {d \in sn.scope : MergeRequired(d)}}
    IN  [t EXCEPT !.snap[p].frozen = TRUE, !.leases = Acquire(@, new),
                  !.ctl[p] = [NewController(sn.gen) EXCEPT !.st = "admitted", !.input = Input(s, p)]]

Admitted(s, p) ==
    LET sn  == s.snap[p]
        t   == Examined(s, p)
        new == UNION {UNION {{Lease("ancestor", r, p, p, sn.gen), Lease("review", r, p, c, sn.gen)} :
                             r \in Contributed(t, p, c)} :
                      c \in {d \in sn.scope : MergeRequired(d)}}
        ctl == IF s.ctl[p].gen = sn.gen THEN s.ctl[p] ELSE NewController(sn.gen)
    IN  [t EXCEPT !.snap[p] = [@ EXCEPT !.frozen = TRUE, !.intent = sn.gen],
                  !.leases = Acquire(t.leases, new),
                  !.ctl[p] = IF ctl.st = "waiting"
                             THEN [ctl EXCEPT !.st = "admitted", !.input = Input(s, p)] ELSE ctl]

\* run_hierarchy_generations: the generation the run will belong to
Stamped(s, i) == IF Above(s, i) = {} THEN s ELSE [s EXCEPT !.stamp[i] = ScopeGen(s, i)]

Claimed(i) == exec' = [exec EXCEPT ![i] = "claimed"] /\ pending' = pending \cup {i}

Skip(i) ==
    /\ Dispatching(i)
    /\ \/ ~Ready(i)
       \/ runs[i] = MaxRuns
       \/ i \in Parents /\ ~Eligible(mem, i, exec[i] = "retry")
    /\ IF i \in Parents /\ Ready(i) /\ Examines(mem, i, exec[i] = "retry")
                        /\ Examined(mem, i) # mem
       THEN SavedOrUndone(TRUE, Examined(mem, i)) ELSE NotSaved
    /\ Next1 /\ UNCHANGED <<world, exec, view, pending, events>>

PrepareLeaf(i) ==
    /\ Dispatching(i) /\ i \in Leaves /\ Ready(i) /\ runs[i] < MaxRuns
    /\ checkout' = checkout \cup {i}
    /\ Claimed(i) /\ Next1
    /\ IF Stamped(mem, i) # mem THEN SavedOrUndone(TRUE, Stamped(mem, i)) ELSE NotSaved
    /\ UNCHANGED <<tracker, runs, live, view, events>>

PrepareParent(p) ==
    /\ Dispatching(p) /\ p \in Parents /\ Ready(p) /\ runs[p] < MaxRuns
    /\ Eligible(mem, p, exec[p] = "retry") /\ ~AdmissionConflict(mem, p)
    /\ Startable(mem, p)
    /\ LET s1 == Stamped(Admitted(mem, p), p)
       IN  SavedOrUndone(TRUE, [s1 EXCEPT !.ctl[p].st = "integrating"])
    /\ Claimed(p) /\ Next1
    /\ UNCHANGED <<world, view, events>>

\* A workspace, a target, a retry count or a write of the preparation fails, or
\* the controller takes no attempt: the issue is left for a later pass, and a
\* parent's intent is taken back.
PreparationFails(i) ==
    /\ Dispatching(i) /\ Ready(i) /\ runs[i] < MaxRuns
    /\ IF i \in Parents /\ ~Startable(mem, i) THEN UNCHANGED faults
       ELSE MayFault /\ faults' = faults + 1
    /\ IF i \in Leaves THEN UNCHANGED <<mem, disk, dirty>>
       ELSE /\ Eligible(mem, i, exec[i] = "retry") /\ ~AdmissionConflict(mem, i)
            /\ mem' = [Admitted(mem, i) EXCEPT !.snap[i].intent = 0]
            /\ disk' = mem' /\ dirty' = FALSE
    /\ Next1 /\ UNCHANGED <<world, exec, view, pending, events>>

\* The pass ends with an error and drops the launches it had prepared.
Abandoned ==
    /\ EndTick
    /\ exec' = [i \in Issues |-> IF i \in pending THEN "absent" ELSE exec[i]]
    /\ UNCHANGED <<world, events>>

\* parent_dispatch_is_eligible returns an error: its write failed.
EligibilityWriteFails(p) ==
    /\ Dispatching(p) /\ p \in Parents /\ Ready(p) /\ runs[p] < MaxRuns
    /\ Eligible(mem, p, exec[p] = "retry") /\ ~AdmissionConflict(mem, p)
    /\ SavedOrUndone(FALSE, mem)
    /\ Abandoned

\* parent_dispatch_is_eligible returns an error: other merges were admitted.
AdmissionRefused(p) ==
    /\ Dispatching(p) /\ p \in Parents /\ Ready(p) /\ runs[p] < MaxRuns
    /\ Eligible(mem, p, exec[p] = "retry") /\ AdmissionConflict(mem, p)
    /\ NotSaved
    /\ Abandoned

\* All prepared launches are started together; some may fail.
StartWorkers(failed) ==
    /\ phase = "dispatch" /\ queue = <<>>
    /\ failed \subseteq pending /\ faults + Cardinality(failed) <= MaxFaults
    /\ faults' = faults + Cardinality(failed)
    /\ LET up == pending \ failed IN
           /\ live' = [i \in Issues |-> live[i] + (IF i \in up THEN 1 ELSE 0)]
           /\ runs' = [i \in Issues |-> runs[i] + (IF i \in up THEN 1 ELSE 0)]
           /\ pending' = up
    /\ phase' = "record"
    /\ UNCHANGED <<tracker, checkout, exec, mem, disk, dirty, view, queue, events>>

\* What a started run changes: it is past its receipt, its parent is dispatched.
Launched(s, i) ==
    LET s1 == [s EXCEPT !.receipts = @ \ {i}]
    IN  IF i \in Parents THEN Dispatched(s1, i) ELSE s1

\* The first of the started launches that is not recorded yet.
Recording(i) ==
    /\ phase = "record"
    /\ \E n \in DOMAIN IssueOrder :
           /\ i = IssueOrder[n] /\ exec[i] = "claimed"
           /\ \A m \in 1 .. n - 1 : exec[IssueOrder[m]] # "claimed"

RecordLaunch(i, ok) ==
    /\ Recording(i) /\ i \in pending
    /\ exec' = [exec EXCEPT ![i] = "running"]
    /\ SavedOrOwed(ok, Launched(mem, i))
    /\ UNCHANGED <<world, phase, view, queue, pending, events>>

RecordLaunchFailure(i) ==
    /\ Recording(i) /\ i \notin pending
    /\ exec' = [exec EXCEPT ![i] = "retry"]
    /\ IF i \in Parents
       THEN SavedOrUndone(TRUE, [mem EXCEPT !.snap[i].intent = 0, !.ctl[i].st = "retry"])
       ELSE NotSaved
    /\ UNCHANGED <<world, phase, view, queue, pending, events>>

TickDone ==
    /\ phase = "record" /\ (\A i \in Issues : exec[i] # "claimed") /\ EndTick
    /\ UNCHANGED <<world, exec, mem, disk, dirty, events, faults>>

-----------------------------------------------------------------------------
(* Between ticks: outcomes of runs, the operator, cleanup, restart. *)

\* rebind_finished_child_hierarchy_generation
Rebound(s, i) ==
    IF Above(s, i) = {} \/ s.stamp[i] \in {0, ScopeGen(s, i)} THEN s
    ELSE Rebind([s EXCEPT !.stamp[i] = ScopeGen(s, i)], "leaf", {i}, ScopeGen(s, i))

FinishLeaf(i, ok) ==
    LET closed == i \notin open
        kept   == [RetainTerminalChildLease(mem, i) EXCEPT !.receipts = @ \cup {i}]
        s1     == Rebound(IF closed THEN kept ELSE mem, i)
    IN  /\ phase = "idle" /\ i \in Leaves /\ exec[i] = "running" /\ live[i] = 0
        /\ IF ok THEN /\ exec' = [exec EXCEPT ![i] = IF closed THEN "terminal" ELSE "retry"]
                      /\ checkout' = IF closed THEN CheckoutsAfter(s1, i) ELSE checkout
                      /\ IF s1 # mem THEN SavedOrUndone(TRUE, s1) ELSE NotSaved
           ELSE s1 # mem /\ SavedOrUndone(FALSE, s1) /\ UNCHANGED <<exec, checkout>>
        /\ UNCHANGED <<tracker, runs, live, phase, view, queue, pending, events>>

\* The parent's run verified its inputs, asks for a repair, or failed.
FinishParent(p, outcome, ok) ==
    LET closed == p \notin open
        st == CASE outcome = "pass"   -> IF closed THEN "completed" ELSE "passed"
                [] outcome = "repair" -> "fixing"
                [] outcome = "fail"   -> "retry"
        s1 == [mem EXCEPT !.ctl[p].st = st]
        s2 == IF closed /\ Finalized(s1, p) THEN [s1 EXCEPT !.receipts = @ \cup {p}] ELSE s1
        s3 == Rebound(s2, p)
    IN  /\ phase = "idle" /\ p \in Parents /\ exec[p] = "running" /\ live[p] = 0
        /\ outcome = "repair" => ~closed
        /\ IF ok THEN /\ exec' = [exec EXCEPT ![p] = IF closed THEN "terminal"
                                                     ELSE IF st = "retry" THEN "retry" ELSE "done"]
                      /\ SavedOrUndone(TRUE, s3)
           ELSE SavedOrUndone(FALSE, s3) /\ UNCHANGED exec
        /\ UNCHANGED <<world, phase, view, queue, pending, events>>

\* The provider merged the parent's repair: its inputs are verified again.
RepairMerged(p) ==
    /\ phase = "idle" /\ exec[p] = "done" /\ mem.ctl[p].st = "fixing"
    /\ mem.ctl[p].gen = mem.snap[p].gen /\ ~mem.snap[p].blocked
    /\ exec' = [exec EXCEPT ![p] = "retry"]
    /\ SavedOrUndone(TRUE, [mem EXCEPT !.ctl[p].st = "retry"])
    /\ UNCHANGED <<world, phase, view, queue, pending, events>>

\* replan_parent: the operator accepts the changed scope.
Replan(p, ok) ==
    LET sn == mem.snap[p]
        s1 == Rebind([mem EXCEPT !.snap[p] = Replanned(@)], "ancestor", {p}, sn.gen)
        s2 == IF mem.ctl[p].gen = sn.gen THEN s1 ELSE [s1 EXCEPT !.ctl[p] = NewController(sn.gen)]
    IN  /\ phase = "idle" /\ sn.known /\ sn.blocked
        /\ mem.ctl[p].cleanup # "pending" /\ exec[p] # "running"
        /\ SavedOrUndone(ok, s2)
        /\ exec' = IF ok THEN Reopened(mem, s2, exec) ELSE exec
        /\ UNCHANGED <<world, phase, view, queue, pending, events>>

\* acknowledge_terminal_capture: the parent's conversation is captured.
Capture(p, ok) ==
    LET c == mem.ctl[p]
        held == {l.res : l \in {k \in mem.leases : k.kind = "ancestor" /\ k.owner = p
                                                   /\ k.gen = c.gen}}
    IN  /\ phase = "idle" /\ exec[p] = "terminal"
        /\ c.cleanup = "none" /\ c.st \in {"completed", "canceled"}
        /\ held \subseteq checkout
        /\ SavedOrUndone(ok, [mem EXCEPT !.ctl[p] = [@ EXCEPT !.cleanup = "pending", !.targets = held]])
        /\ UNCHANGED <<world, exec, phase, view, queue, pending, events>>

\* reconcile_parent_subtree_cleanup: leases first, then what nothing holds.
CleanUp(p, ok) ==
    LET s1   == ReleaseParentResources(mem, p, mem.ctl[p].targets)
        busy == {r \in mem.ctl[p].targets :
                    Held(s1, r) \/ r \in open \/ exec[r] \in {"running", "retry"}}
        s2   == [s1 EXCEPT !.ctl[p] = [@ EXCEPT !.targets = busy,
                                                !.cleanup = IF busy = {} THEN "done" ELSE "pending"]]
    IN  /\ phase = "idle" /\ mem.ctl[p].cleanup = "pending"
        /\ IF ok THEN s2 # mem /\ checkout' = checkout \ (mem.ctl[p].targets \ busy)
                 ELSE UNCHANGED checkout
        /\ SavedOrUndone(ok, s2)
        /\ UNCHANGED <<tracker, runs, live, exec, phase, view, queue, pending, events>>

\* Executions, the copy in memory and the tick are lost; runs go on.
Crash ==
    /\ phase # "down" /\ MayFault /\ faults' = faults + 1
    /\ exec' = [i \in Issues |-> IF live[i] > 0 \/ exec[i] = "running" THEN "recovering" ELSE "absent"]
    /\ mem' = disk /\ dirty' = FALSE
    /\ phase' = "down" /\ queue' = <<>> /\ view' = NoView /\ pending' = {}
    /\ UNCHANGED <<world, disk, events>>

\* A launch that was announced and not recorded: it took place if its run is back.
Resumed(s, p, back) ==
    IF s.snap[p].intent = 0 \/ s.snap[p].intent # s.snap[p].gen THEN s
    ELSE IF p \notin back THEN [s EXCEPT !.snap[p].intent = 0]
    ELSE IF p \in open THEN Dispatched(s, p)
    ELSE [s EXCEPT !.snap[p] = MarkDispatched(@)]

\* bootstrap_recovery: fences first, then the tree, the controllers and the
\* launches that were under way, then the executions.  The runs of closed issues
\* are stopped; one whose stop the harness refuses is kept.
Recover(refused) ==
    LET back == {i \in Issues : exec[i] = "recovering"}
        kept == (back \cap open) \cup refused
        none == [i \in Issues |-> "absent"]
        s1 == [disk EXCEPT !.snap = [p \in Parents |-> IF p \in back /\ @[p].known
                                                       THEN RestoreFence(@[p]) ELSE @[p]]]
        s2 == ReconcileTerminal(ReconcileActive(s1, none), none)
        s3 == [s2 EXCEPT !.ctl = [p \in Parents |->
                   IF p \notin back /\ @[p].st = "integrating" THEN [@[p] EXCEPT !.st = "retry"]
                   ELSE @[p]]]
        s4 == EachParent(LAMBDA t, p : Resumed(t, p, back), s3, Known(s3))
        NewExec(i) ==
            IF i \in back THEN (IF i \in kept THEN "running" ELSE "terminal")
            ELSE IF i \notin open THEN "absent"
            ELSE IF runs[i] = 0 THEN "unclaimed"
            ELSE IF i \in Leaves \/ s4.ctl[i].st \notin {"passed", "fixing", "completed"} THEN "retry"
            ELSE "done"
    IN  /\ phase = "down"
        /\ refused \subseteq {i \in back \ open : live[i] > 0}
        /\ faults + Cardinality(refused) <= MaxFaults
        /\ faults' = faults + Cardinality(refused)
        /\ live' = [i \in Issues |-> IF i \in back \ kept THEN 0 ELSE live[i]]
        /\ exec' = [i \in Issues |-> NewExec(i)]
        /\ mem' = s4 /\ disk' = s4 /\ dirty' = FALSE
        /\ phase' = "settle" /\ queue' = IssueOrder
        /\ view' = [scope |-> scope, open |-> open]
        /\ UNCHANGED <<tracker, runs, checkout, pending, events>>

-----------------------------------------------------------------------------
World ==
    \/ \E p \in Parents, S \in SUBSET Leaves :
           TrackerRescopes(p, S \cup (scope[p] \cap Parents))
    \/ \E i \in Issues : TrackerCloses(i) \/ TrackerReopens(i) \/ WorkerEnds(i)
    \/ \E l \in Leaves : ProviderMerges(l)

Tick ==
    \/ \E ok \in BOOLEAN : Refresh(ok)
    \/ \E i \in Issues, ok \in BOOLEAN : Release(i, ok) \/ RecordLaunch(i, ok)
    \/ \E i \in Issues :
           \/ StopRefused(i) \/ Upsert(i)
           \/ Skip(i) \/ PreparationFails(i) \/ RecordLaunchFailure(i)
    \/ \E l \in Leaves : PrepareLeaf(l)
    \/ \E p \in Parents :
           PrepareParent(p) \/ EligibilityWriteFails(p) \/ AdmissionRefused(p)
    \/ \E F \in SUBSET Issues : StartWorkers(F)
    \/ TickDone

Between ==
    \/ \E l \in Leaves, ok \in BOOLEAN : FinishLeaf(l, ok)
    \/ \E p \in Parents, ok \in BOOLEAN :
           \/ \E outcome \in {"pass", "repair", "fail"} : FinishParent(p, outcome, ok)
           \/ Replan(p, ok) \/ Capture(p, ok) \/ CleanUp(p, ok)
    \/ \E p \in Parents : RepairMerged(p)
    \/ Crash \/ \E R \in SUBSET Issues : Recover(R)

Next == World \/ Tick \/ Between

Spec == Init /\ [][Next]_vars

-----------------------------------------------------------------------------
(* What the leases and the fences are for. *)

SnapshotOK(sn) ==
    /\ {sn.dispatched, sn.intent} \subseteq {0, sn.gen} /\ sn.inFlight \in 0 .. sn.gen
    /\ ~sn.known => sn = NoSnapshot

LeaseOK(l) == l.kind \in {"leaf", "ancestor", "review"} /\ l.res \in Leaves
              /\ l.owner \in (IF l.kind = "leaf" THEN Leaves ELSE Parents)

\* The dispatch marks of a snapshot are of its own generation: a run launched for
\* another scope never counts as the launch of this one (hierarchy.rs reconcile).
TypeOK ==
    /\ scope \in [Parents -> SUBSET Issues] /\ open \subseteq Issues
    /\ merged \in [Leaves -> 0 .. MaxRuns] /\ runs \in [Issues -> 0 .. MaxRuns]
    /\ live \in [Issues -> 0 .. 1] /\ checkout \subseteq Leaves
    /\ exec \in [Issues -> {"absent", "unclaimed", "claimed", "running", "recovering", "retry",
                            "done", "terminal", "parked"}]
    /\ dirty \in BOOLEAN /\ phase \in {"down", "idle", "settle", "dispatch", "record"}
    /\ \A s \in {mem, disk} :
          /\ \A p \in Parents : SnapshotOK(s.snap[p]) /\ s.ctl[p].gen <= s.snap[p].gen
          /\ \A l \in s.leases : LeaseOK(l)
    /\ pending \subseteq Issues

Holds(s, p, r) == \E l \in s.leases : l.kind = "ancestor" /\ l.owner = p /\ l.res = r

\* A run starts only while no parent above the issue whose run is alive, or taken to
\* be, holds a checkout, although has_active_dispatched_ancestor was asked earlier in
\* the pass and other launches were prepared, and leases released, since.
NoStartBelowRun ==
    [][\A i \in Issues, p \in Known(mem) :
           /\ live'[i] > live[i] /\ i \in Subtree(mem, mem.snap[p].scope)
           /\ live[p] > 0 \/ exec[p] = "running"
           => \A l \in mem.leases : l.kind = "ancestor" => l.owner # p]_vars

\* While the orchestrator's tree is the tracker's, a running parent keeps its hold on a
\* checkout: cleaning up, launching, reopening or closing another parent, or closing the
\* parent itself, takes it away only when a parent above the running one was closed
\* without having been launched, or has no leaf below it.
RunningParentKeepsItsCheckouts ==
    [][\A p \in Parents, l \in Leaves :
           /\ exec[p] = "running" /\ exec'[p] = "running"
           /\ Holds(mem, p, l) /\ ~Holds(mem', p, l)
           /\ \A q \in Parents : scope[q] = mem.snap[q].scope
           => \E q \in Known(mem) :
                 /\ p \in Subtree(mem, mem.snap[q].scope)
                 /\ \/ q \notin open /\ ~HasFence(mem.snap[q])
                    \/ Subtree(mem, mem.snap[q].scope) \cap Leaves = {}]_vars

\* The checkout an active lease names exists: releasing, cleaning up and launching
\* remove one only when nothing holds it.
LeasedCheckoutExists == \A l \in mem.leases : l.res \in checkout

\* A parent's run starts only when the last run of every leaf it requires is merged,
\* is what it was admitted with, and has stopped, although eligibility was established
\* earlier in the pass and the tracker changes what is open meanwhile.
FreshWhenStarted ==
    [][\A p \in Parents : live'[p] > live[p] =>
           \A l \in mem.snap[p].scope \cap Leaves :
               /\ mem.ctl[p].input[l] # 0 /\ runs'[l] = mem.ctl[p].input[l]
               /\ live'[l] = 0]_vars

\* Whatever the tracker does to a running parent's scope, replans and restarts
\* included, the parent keeps a dispatch fence over its descendants: as long as the
\* daemon takes it for running, and, outside the launch itself, as long as its run is
\* alive, also when a stop was refused ("Keep this fence until the scheduler observes
\* the old execution stopped", hierarchy.rs).
FenceCoversRun ==
    phase # "down" => \A p \in Parents :
        (exec[p] = "running" \/ (live[p] > 0 /\ phase # "record")) => HasFence(mem.snap[p])

\* A crash at any moment finds on disk what the fence is restored from, although
\* the launch is recorded after the run started and that write may fail.
FenceSurvivesCrash ==
    \A p \in Parents : exec[p] \in {"claimed", "running"} =>
        disk.snap[p].intent # 0 \/ HasFence(disk.snap[p])

-----------------------------------------------------------------------------
(* What the documents say and the code does not do. *)

\* "Higher-ancestor leases survive intermediate parent completion": a checkout is
\* removed only when no open ancestor is left to integrate it.
AncestorsKeepCheckouts ==
    [][\A l \in checkout \ checkout' : AncestorsOf(mem, l) \cap open = {}]_vars
=============================================================================
