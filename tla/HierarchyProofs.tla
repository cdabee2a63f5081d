--------------------------- MODULE HierarchyProofs ---------------------------
(***************************************************************************)
(* Theorems about Hierarchy: the types, the dispatch fence of a parent's   *)
(* run through rescoping, replanning, crash and recovery, what a parent    *)
(* starts from, what may start below a running parent and what such a      *)
(* parent holds, for every tree and every bound.                           *)
(***************************************************************************)
EXTENDS Hierarchy, TLAPS, FiniteSetTheorems, WellFoundedInduction

-----------------------------------------------------------------------------
(* The durable state: what every copy of it looks like. *)

Snapshots == [known : BOOLEAN, gen : Nat, scope : SUBSET Issues, frozen : BOOLEAN,
              blocked : BOOLEAN, dispatched : Nat, intent : Nat, inFlight : Nat]

GoodSnap(sn) == sn \in Snapshots /\ SnapshotOK(sn) /\ (sn.known => sn.gen # 0)

Controllers ==
    [gen : Nat, st : {"waiting", "admitted", "integrating", "passed", "completed", "canceled",
                      "fixing", "retry"},
     input : [Leaves -> Nat], cleanup : {"none", "pending", "done"}, targets : SUBSET Leaves]

Leases == {l \in [kind : {"leaf", "ancestor", "review"}, res : Leaves, owner : Issues,
                  via : Issues, gen : Nat] : LeaseOK(l)}

Records == [snap : [Parents -> Snapshots], leases : SUBSET Leases, stamp : [Issues -> Nat],
            receipts : SUBSET Issues, ctl : [Parents -> Controllers]]

States == {s \in Records :
              \A p \in Parents : GoodSnap(s.snap[p]) /\ s.ctl[p].gen <= s.snap[p].gen}

\* The snapshot of a parent whose run may be alive, and one that says so itself.
Bound(sn)  == sn.known /\ sn.frozen /\ HasFence(sn)
Flying(sn) == sn.known /\ sn.frozen /\ sn.inFlight # 0

-----------------------------------------------------------------------------
(* One snapshot. *)

LEMMA SnapshotEq ==
    ASSUME NEW a \in Snapshots, NEW b \in Snapshots,
           a.known = b.known, a.gen = b.gen, a.scope = b.scope, a.frozen = b.frozen,
           a.blocked = b.blocked, a.dispatched = b.dispatched, a.intent = b.intent,
           a.inFlight = b.inFlight
    PROVE  a = b
  BY DEF Snapshots

LEMMA NoSnapshotFields ==
    /\ NoSnapshot \in Snapshots
    /\ NoSnapshot.known = FALSE /\ NoSnapshot.gen = 0 /\ NoSnapshot.scope = {}
    /\ NoSnapshot.frozen = FALSE /\ NoSnapshot.blocked = FALSE
    /\ NoSnapshot.dispatched = 0 /\ NoSnapshot.intent = 0 /\ NoSnapshot.inFlight = 0
  <1>1. NoSnapshot \in Snapshots
    BY DEF NoSnapshot, Snapshots
  <1>2. /\ NoSnapshot.known = FALSE /\ NoSnapshot.gen = 0 /\ NoSnapshot.scope = {}
        /\ NoSnapshot.frozen = FALSE /\ NoSnapshot.blocked = FALSE
        /\ NoSnapshot.dispatched = 0 /\ NoSnapshot.intent = 0 /\ NoSnapshot.inFlight = 0
    BY DEF NoSnapshot
  <1>3. QED
    BY <1>1, <1>2

LEMMA KnownGood ==
    ASSUME NEW r \in Snapshots, r.known, r.gen # 0, r.dispatched \in {0, r.gen},
           r.intent \in {0, r.gen}, r.inFlight \in 0 .. r.gen
    PROVE  GoodSnap(r)
  BY DEF GoodSnap, SnapshotOK

LEMMA NoSnapshotGood == GoodSnap(NoSnapshot)
  BY NoSnapshotFields DEF GoodSnap, SnapshotOK

\* What each operation on a snapshot (hierarchy.rs) keeps of it.
LEMMA NewSnapshotGood ==
    ASSUME NEW C \in SUBSET Issues
    PROVE  GoodSnap(NewSnapshot(C)) /\ NewSnapshot(C).gen = 1
  <1> DEFINE r == NewSnapshot(C)
  <1>1. /\ r \in Snapshots /\ r.gen = 1 /\ r.known = TRUE /\ r.dispatched = 0
        /\ r.intent = 0 /\ r.inFlight = 0
    BY NoSnapshotFields DEF NewSnapshot, Snapshots
  <1> HIDE DEF r
  <1>2. GoodSnap(r)
    BY <1>1, KnownGood
  <1>3. QED
    BY <1>1, <1>2 DEF r

LEMMA ReconcileScopeGood ==
    ASSUME NEW sn, GoodSnap(sn), sn.known, NEW C \in SUBSET Issues
    PROVE  LET r == ReconcileScope(sn, C)
           IN  /\ GoodSnap(r) /\ sn.gen <= r.gen
               /\ Flying(sn) => Flying(r)
               /\ Bound(sn) => Bound(r)
  <1> DEFINE r == ReconcileScope(sn, C)
  <1>1. CASE C = sn.scope
    <2>1. r = sn
      BY <1>1 DEF ReconcileScope
    <2>2. sn.gen \in Nat
      BY DEF GoodSnap, Snapshots
    <2>3. QED
      BY <2>1, <2>2
  <1>2. CASE C # sn.scope
    <2>1. sn \in Snapshots /\ sn.gen # 0 /\ sn.dispatched \in {0, sn.gen} /\ sn.inFlight \in 0 .. sn.gen
      BY DEF GoodSnap, SnapshotOK
    <2>2. r \in Snapshots
      <3>1. /\ sn.gen + 1 \in Nat /\ C \in SUBSET Issues /\ sn.frozen \in BOOLEAN
            /\ (IF sn.frozen /\ sn.dispatched = sn.gen /\ sn.inFlight = 0
                THEN sn.gen ELSE sn.inFlight) \in Nat
        BY <2>1 DEF Snapshots
      <3>2. r = [known |-> sn.known, gen |-> sn.gen + 1, scope |-> C, frozen |-> sn.frozen,
                 blocked |-> sn.frozen, dispatched |-> 0, intent |-> 0,
                 inFlight |-> IF sn.frozen /\ sn.dispatched = sn.gen /\ sn.inFlight = 0
                              THEN sn.gen ELSE sn.inFlight]
        BY <1>2, <2>1 DEF ReconcileScope, Snapshots
      <3>3. QED
        BY <2>1, <3>1, <3>2 DEF Snapshots
    <2>3. r.gen = sn.gen + 1 /\ r.dispatched = 0 /\ r.intent = 0
      BY <1>2, <2>1 DEF ReconcileScope, Snapshots
    <2>4. r.known = sn.known /\ r.frozen = sn.frozen
      BY <1>2, <2>1 DEF ReconcileScope, Snapshots
    <2>5. r.inFlight = IF sn.frozen /\ sn.dispatched = sn.gen /\ sn.inFlight = 0
                       THEN sn.gen ELSE sn.inFlight
      BY <1>2, <2>1 DEF ReconcileScope, Snapshots
    <2>6. sn.gen \in Nat
      BY <2>1 DEF Snapshots
    <2> HIDE DEF r
    <2>7. GoodSnap(r)
      <3>1. r.gen # 0 /\ r.dispatched \in {0, r.gen} /\ r.intent \in {0, r.gen}
        BY <2>3, <2>6
      <3>2. r.inFlight \in 0 .. r.gen
        BY <2>1, <2>3, <2>5, <2>6
      <3>3. r.known
        BY <2>4
      <3>4. QED
        BY <2>2, <3>1, <3>2, <3>3, KnownGood
    <2>8. sn.gen <= r.gen
      BY <2>3, <2>6
    <2>9. Flying(sn) => Flying(r)
      BY <2>1, <2>4, <2>5 DEF Flying
    <2>10. Bound(sn) => Bound(r)
      BY <2>1, <2>4, <2>5 DEF Bound, HasFence
    <2>11. QED
      BY <2>7, <2>8, <2>9, <2>10 DEF r
  <1>3. QED
    BY <1>1, <1>2

LEMMA ReplannedGood ==
    ASSUME NEW sn, GoodSnap(sn), sn.known
    PROVE  LET r == Replanned(sn)
           IN  GoodSnap(r) /\ r.gen = sn.gen /\ r.scope = sn.scope /\ r.known
  <1> DEFINE r == Replanned(sn)
  <1>1. sn \in Snapshots /\ sn.gen # 0
    BY DEF GoodSnap
  <1>2. r \in Snapshots
    BY <1>1 DEF Replanned, Snapshots
  <1>3. r.gen = sn.gen /\ r.scope = sn.scope /\ r.dispatched = 0 /\ r.intent = 0 /\ r.inFlight = 0
    BY <1>1 DEF Replanned, Snapshots
  <1>4. r.known = sn.known
    BY <1>1 DEF Replanned, Snapshots
  <1>5. sn.gen \in Nat
    BY <1>1 DEF Snapshots
  <1> HIDE DEF r
  <1>6. GoodSnap(r)
    <2>1. r.gen # 0 /\ r.dispatched \in {0, r.gen} /\ r.intent \in {0, r.gen}
      BY <1>1, <1>3
    <2>2. r.inFlight \in 0 .. r.gen
      BY <1>1, <1>3, <1>5
    <2>3. r.known
      BY <1>4
    <2>4. QED
      BY <1>2, <2>1, <2>2, <2>3, KnownGood
  <1>7. QED
    BY <1>3, <1>4, <1>6 DEF r

LEMMA MarkDispatchedGood ==
    ASSUME NEW sn, GoodSnap(sn), sn.known
    PROVE  LET r == MarkDispatched(sn)
           IN  GoodSnap(r) /\ r.gen = sn.gen /\ (sn.frozen => Bound(r))
  <1> DEFINE r == MarkDispatched(sn)
  <1>1. sn \in Snapshots /\ sn.gen # 0
    BY DEF GoodSnap
  <1>2. r \in Snapshots
    BY <1>1 DEF MarkDispatched, Snapshots
  <1>3. r.gen = sn.gen /\ r.dispatched = sn.gen /\ r.intent = 0 /\ r.inFlight = 0
    BY <1>1 DEF MarkDispatched, Snapshots
  <1>4. r.known = sn.known /\ r.frozen = sn.frozen
    BY <1>1 DEF MarkDispatched, Snapshots
  <1>5. sn.gen \in Nat
    BY <1>1 DEF Snapshots
  <1> HIDE DEF r
  <1>6. GoodSnap(r)
    <2>1. r.gen # 0 /\ r.dispatched \in {0, r.gen} /\ r.intent \in {0, r.gen}
      BY <1>1, <1>3
    <2>2. r.inFlight \in 0 .. r.gen
      BY <1>1, <1>3, <1>5
    <2>3. r.known
      BY <1>4
    <2>4. QED
      BY <1>2, <2>1, <2>2, <2>3, KnownGood
  <1>7. sn.frozen => Bound(r)
    BY <1>3, <1>4 DEF Bound, HasFence
  <1>8. QED
    BY <1>3, <1>6, <1>7 DEF r

LEMMA RestoreFenceGood ==
    ASSUME NEW sn, GoodSnap(sn), sn.known
    PROVE  LET r == RestoreFence(sn)
           IN  /\ GoodSnap(r) /\ r.gen = sn.gen
               /\ sn.frozen /\ (sn.intent # 0 \/ HasFence(sn)) => Flying(r)
  <1> DEFINE r == RestoreFence(sn)
  <1>1. /\ sn \in Snapshots /\ sn.gen # 0 /\ sn.dispatched \in {0, sn.gen}
        /\ sn.intent \in {0, sn.gen} /\ sn.inFlight \in 0 .. sn.gen
    BY DEF GoodSnap, SnapshotOK
  <1>2. r \in Snapshots
    BY <1>1 DEF RestoreFence, Snapshots
  <1>3. r.gen = sn.gen /\ r.dispatched = sn.dispatched /\ r.intent = sn.intent
    BY <1>1 DEF RestoreFence, Snapshots
  <1>4. r.known = sn.known /\ r.frozen = sn.frozen
    BY <1>1 DEF RestoreFence, Snapshots
  <1>5. r.inFlight = IF sn.intent # 0 THEN sn.intent
                     ELSE IF sn.dispatched # 0 THEN sn.dispatched ELSE sn.inFlight
    BY <1>1 DEF RestoreFence, Snapshots
  <1>6. sn.gen \in Nat
    BY <1>1 DEF Snapshots
  <1> HIDE DEF r
  <1>7. GoodSnap(r)
    <2>1. r.gen # 0 /\ r.dispatched \in {0, r.gen} /\ r.intent \in {0, r.gen}
      BY <1>1, <1>3
    <2>2. r.inFlight \in 0 .. r.gen
      BY <1>1, <1>3, <1>5, <1>6
    <2>3. r.known
      BY <1>4
    <2>4. QED
      BY <1>2, <2>1, <2>2, <2>3, KnownGood
  <1>8. sn.frozen /\ (sn.intent # 0 \/ HasFence(sn)) => Flying(r)
    BY <1>1, <1>4, <1>5 DEF Flying, HasFence
  <1>9. QED
    BY <1>3, <1>7, <1>8 DEF r

\* The intent of a launch that did not take place is taken back.
LEMMA ClearIntentGood ==
    ASSUME NEW sn, GoodSnap(sn), sn.known
    PROVE  LET r == [sn EXCEPT !.intent = 0]
           IN  GoodSnap(r) /\ r.gen = sn.gen /\ (Bound(sn) => Bound(r)) /\ (Flying(sn) => Flying(r))
  <1> DEFINE r == [sn EXCEPT !.intent = 0]
  <1>1. sn \in Snapshots /\ sn.gen # 0 /\ sn.dispatched \in {0, sn.gen} /\ sn.inFlight \in 0 .. sn.gen
    BY DEF GoodSnap, SnapshotOK
  <1>2. r \in Snapshots
    BY <1>1 DEF Snapshots
  <1>3. r.gen = sn.gen /\ r.dispatched = sn.dispatched /\ r.intent = 0 /\ r.inFlight = sn.inFlight
    BY <1>1 DEF Snapshots
  <1>4. r.known = sn.known /\ r.frozen = sn.frozen
    BY <1>1 DEF Snapshots
  <1>5. sn.gen \in Nat
    BY <1>1 DEF Snapshots
  <1> HIDE DEF r
  <1>6. GoodSnap(r)
    <2>1. r.gen # 0 /\ r.dispatched \in {0, r.gen} /\ r.intent \in {0, r.gen}
      BY <1>1, <1>3
    <2>2. r.inFlight \in 0 .. r.gen
      BY <1>1, <1>3, <1>5
    <2>3. r.known
      BY <1>4
    <2>4. QED
      BY <1>2, <2>1, <2>2, <2>3, KnownGood
  <1>7. (Bound(sn) => Bound(r)) /\ (Flying(sn) => Flying(r))
    BY <1>3, <1>4 DEF Bound, Flying, HasFence
  <1>8. QED
    BY <1>3, <1>6, <1>7 DEF r

\* The fence of a run that was stopped is lifted, or the snapshot stays as it is.
LEMMA ClearFlightGood ==
    ASSUME NEW sn, GoodSnap(sn), NEW x \in {0, sn.inFlight}
    PROVE  LET r == [sn EXCEPT !.inFlight = x]
           IN  GoodSnap(r) /\ r.gen = sn.gen
  <1> DEFINE r == [sn EXCEPT !.inFlight = x]
  <1>1. /\ sn \in Snapshots /\ sn.dispatched \in {0, sn.gen} /\ sn.intent \in {0, sn.gen}
        /\ sn.inFlight \in 0 .. sn.gen
    BY DEF GoodSnap, SnapshotOK
  <1>2. r \in Snapshots
    BY <1>1 DEF Snapshots
  <1>3. /\ r.gen = sn.gen /\ r.dispatched = sn.dispatched /\ r.intent = sn.intent /\ r.inFlight = x
        /\ r.scope = sn.scope
    BY <1>1 DEF Snapshots
  <1>4. r.known = sn.known /\ r.frozen = sn.frozen /\ r.blocked = sn.blocked
    BY <1>1 DEF Snapshots
  <1>5. sn.gen \in Nat
    BY <1>1 DEF Snapshots
  <1> HIDE DEF r
  <1>6. CASE sn.known
    <2>1. sn.gen # 0 /\ r.known
      BY <1>4, <1>6 DEF GoodSnap
    <2>2. GoodSnap(r)
      BY <1>1, <1>2, <1>3, <1>5, <2>1, KnownGood
    <2>3. QED
      BY <1>3, <2>2 DEF r
  <1>7. CASE ~sn.known
    <2>1. sn = NoSnapshot
      BY <1>7 DEF GoodSnap, SnapshotOK
    <2>2. r.inFlight = sn.inFlight
      BY <1>3, <2>1, NoSnapshotFields
    <2>3. r = sn
      BY <1>1, <1>2, <1>3, <1>4, <2>2, SnapshotEq
    <2>4. QED
      BY <2>3 DEF r
  <1>8. QED
    BY <1>6, <1>7

-----------------------------------------------------------------------------
(* One copy of the durable state. *)

\* `r` differs from `s` in the snapshot and the controller of `p` at most.
Edit(s, r, p, sn, c) ==
    /\ r \in Records
    /\ r.snap = [s.snap EXCEPT ![p] = sn]
    /\ r.ctl = [s.ctl EXCEPT ![p] = c]

\* `r` differs from `s` in leases, stamps and receipts at most.
SameTree(s, r) == r \in States /\ r.snap = s.snap /\ r.ctl = s.ctl

\* Reading and editing one parent of a state.
LEMMA StateFields ==
    ASSUME NEW s \in States, NEW p \in Parents
    PROVE  /\ s \in Records /\ s.snap[p] \in Snapshots /\ GoodSnap(s.snap[p])
           /\ s.ctl[p] \in Controllers /\ s.ctl[p].gen <= s.snap[p].gen
           /\ s.ctl[p].gen \in Nat /\ s.snap[p].gen \in Nat
  BY DEF States, Records, Controllers, Snapshots

LEMMA Edited ==
    ASSUME NEW s \in States, NEW r, NEW p \in Parents, NEW sn, NEW c, Edit(s, r, p, sn, c),
           GoodSnap(sn), c \in Controllers, c.gen <= sn.gen
    PROVE  /\ r \in States /\ r.snap[p] = sn /\ r.ctl[p] = c
           /\ \A q \in Parents : q # p => r.snap[q] = s.snap[q] /\ r.ctl[q] = s.ctl[q]
  <1>1. s.snap \in [Parents -> Snapshots] /\ s.ctl \in [Parents -> Controllers]
    BY DEF States, Records
  <1>2. /\ r.snap[p] = sn /\ r.ctl[p] = c
        /\ \A q \in Parents : q # p => r.snap[q] = s.snap[q] /\ r.ctl[q] = s.ctl[q]
    BY <1>1 DEF Edit
  <1>3. ASSUME NEW q \in Parents PROVE GoodSnap(r.snap[q]) /\ r.ctl[q].gen <= r.snap[q].gen
    BY <1>2, StateFields
  <1>4. QED
    BY <1>2, <1>3 DEF States, Edit

LEMMA SameTreeTrans ==
    ASSUME NEW s, NEW r, NEW t, SameTree(s, r), SameTree(r, t)
    PROVE  SameTree(s, t)
  BY DEF SameTree

LEMMA SameTreeRefl ==
    ASSUME NEW s \in States
    PROVE  SameTree(s, s)
  BY DEF SameTree

\* The operations on leases, stamps and receipts leave the tree alone.
LEMMA DropLeasesKeeps ==
    ASSUME NEW s \in States, NEW gone
    PROVE  SameTree(s, DropLeases(s, gone))
  BY DEF DropLeases, States, Records, SameTree

LEMMA RebindKeeps ==
    ASSUME NEW s \in States, NEW k, NEW who, NEW g \in Nat
    PROVE  SameTree(s, Rebind(s, k, who, g))
  <1> DEFINE M(l) == IF l.kind = k /\ l.owner \in who THEN [l EXCEPT !.gen = g] ELSE l
  <1>1. \A l \in Leases : M(l) \in Leases
    BY DEF Leases, LeaseOK
  <1>2. {M(l) : l \in s.leases} \in SUBSET Leases
    BY <1>1 DEF States, Records
  <1>3. QED
    BY <1>2 DEF Rebind, States, Records, SameTree

LEMMA StampKeeps ==
    ASSUME NEW s \in States, NEW f \in [Issues -> Nat]
    PROVE  SameTree(s, [s EXCEPT !.stamp = f])
  BY DEF States, Records, SameTree

LEMMA ReceiptsKeep ==
    ASSUME NEW s \in States, NEW R \in SUBSET Issues
    PROVE  SameTree(s, [s EXCEPT !.receipts = R])
  BY DEF States, Records, SameTree

LEMMA LeasesKeep ==
    ASSUME NEW s \in States, NEW L \in SUBSET Leases
    PROVE  SameTree(s, [s EXCEPT !.leases = L])
  BY DEF States, Records, SameTree

LEMMA ReleasesKeep ==
    ASSUME NEW s \in States, NEW p, NEW S, NEW edges
    PROVE  /\ SameTree(s, ReleaseRemoved(s, p, S, edges))
           /\ SameTree(s, ReleaseUndispatched(s, p, edges))
           /\ SameTree(s, ReleaseLeafLeasesFor(s, p))
           /\ SameTree(s, ReleaseAncestorLeasesOf(s, S))
           /\ SameTree(s, ReleaseParentResources(s, p, S))
  BY DropLeasesKeeps
     DEF ReleaseRemoved, ReleaseUndispatched, ReleaseLeafLeasesFor, ReleaseAncestorLeasesOf,
         ReleaseParentResources

LEMMA NewControllerTyped ==
    ASSUME NEW g \in Nat
    PROVE  NewController(g) \in Controllers /\ NewController(g).gen = g
           /\ NewController(g).st = "waiting"
  BY DEF NewController, Controllers, NoInput

\* A snapshot, or a controller, of one parent is replaced.
LEMMA SnapEdit ==
    ASSUME NEW s \in States, NEW p \in Parents, NEW sn \in Snapshots
    PROVE  Edit(s, [s EXCEPT !.snap[p] = sn], p, sn, s.ctl[p])
  <1>1. s.ctl = [s.ctl EXCEPT ![p] = s.ctl[p]]
    BY DEF States, Records
  <1>2. QED
    BY <1>1 DEF Edit, States, Records

LEMMA CtlEdit ==
    ASSUME NEW s \in States, NEW p \in Parents, NEW c \in Controllers
    PROVE  Edit(s, [s EXCEPT !.ctl[p] = c], p, s.snap[p], c)
  <1>1. s.snap = [s.snap EXCEPT ![p] = s.snap[p]]
    BY DEF States, Records
  <1>2. QED
    BY <1>1 DEF Edit, States, Records

LEMMA BothEdit ==
    ASSUME NEW s \in States, NEW p \in Parents, NEW sn \in Snapshots, NEW c \in Controllers
    PROVE  Edit(s, [s EXCEPT !.snap[p] = sn, !.ctl[p] = c], p, sn, c)
  BY DEF Edit, States, Records

-----------------------------------------------------------------------------
(* What a reconciliation may do to the tree. *)

\* The fence of a run that may be alive stays, whatever happens to the scope.
Keeps(s, r, ex) ==
    \A q \in Parents :
        /\ Flying(s.snap[q]) => Flying(r.snap[q])
        /\ Bound(s.snap[q]) /\ ex[q] = "running" => Bound(r.snap[q])

LEMMA KeepsTrans ==
    ASSUME NEW s, NEW r, NEW t, NEW ex, Keeps(s, r, ex), Keeps(r, t, ex)
    PROVE  Keeps(s, t, ex)
  BY DEF Keeps

LEMMA SameTreeSame ==
    ASSUME NEW s, NEW r, SameTree(s, r), NEW ex
    PROVE  r \in States /\ Keeps(s, r, ex)
  BY DEF SameTree, Keeps

\* The three ways reconcile_hierarchy_snapshots may treat a parent.
LEMMA EditKeeps ==
    ASSUME NEW s \in States, NEW r, NEW p \in Parents, NEW sn, NEW c, Edit(s, r, p, sn, c), NEW ex,
           GoodSnap(sn), c \in Controllers, c.gen <= sn.gen,
           Flying(s.snap[p]) => Flying(sn),
           Bound(s.snap[p]) /\ ex[p] = "running" => Bound(sn)
    PROVE  r \in States /\ Keeps(s, r, ex) /\ r.snap[p] = sn
  <1>1. /\ r \in States /\ r.snap[p] = sn
        /\ \A q \in Parents : q # p => r.snap[q] = s.snap[q]
    BY Edited
  <1>2. ASSUME NEW q \in Parents
        PROVE  /\ Flying(s.snap[q]) => Flying(r.snap[q])
               /\ Bound(s.snap[q]) /\ ex[q] = "running" => Bound(r.snap[q])
    <2>1. CASE q = p
      BY <1>1, <2>1
    <2>2. CASE q # p
      BY <1>1, <2>2
    <2>3. QED
      BY <2>1, <2>2
  <1>3. QED
    BY <1>1, <1>2 DEF Keeps

LEMMA ForgetParentKeeps ==
    ASSUME NEW s \in States, NEW p \in Parents, NEW ex, ~s.snap[p].frozen
    PROVE  ForgetParent(s, p) \in States /\ Keeps(s, ForgetParent(s, p), ex)
  <1> DEFINE s1 == [s EXCEPT !.snap[p] = NoSnapshot, !.stamp[p] = 0, !.ctl[p] = NewController(0)]
  <1>1. NoSnapshot \in Snapshots /\ GoodSnap(NoSnapshot) /\ NoSnapshot.gen = 0
    BY NoSnapshotFields, NoSnapshotGood
  <1>2. NewController(0) \in Controllers /\ NewController(0).gen = 0
    BY NewControllerTyped
  <1>3. Edit(s, s1, p, NoSnapshot, NewController(0))
    <2> HIDE DEF NoSnapshot, NewController
    <2> QED BY <1>1, <1>2 DEF Edit, States, Records, Issues
  <1>4. s1 \in States /\ Keeps(s, s1, ex)
    <2>1. ~Flying(s.snap[p]) /\ ~Bound(s.snap[p])
      BY DEF Flying, Bound
    <2> HIDE DEF s1
    <2>2. QED
      BY <1>1, <1>2, <1>3, <2>1, EditKeeps
  <1>5. ForgetParent(s, p) = ReleaseRemoved(s1, p, s.snap[p].scope, Edges)
    BY DEF ForgetParent
  <1> HIDE DEF s1
  <1>6. QED
    BY <1>4, <1>5, ReleasesKeep, SameTreeSame, KeepsTrans

LEMMA RescopeParentKeeps ==
    ASSUME NEW s \in States, NEW p \in Parents, NEW ex, s.snap[p].known,
           scope \in [Parents -> SUBSET Issues]
    PROVE  RescopeParent(s, p, ex) \in States /\ Keeps(s, RescopeParent(s, p, ex), ex)
  <1> DEFINE old   == IF Reactivated(s, p, ex) THEN Replanned(s.snap[p]) ELSE s.snap[p]
             new   == ReconcileScope(old, scope[p])
             quiet == {c \in new.scope : ex[c] # "running"}
             s1    == [s EXCEPT !.snap[p] = new, !.receipts = @ \ {p}]
             sb    == Rebind(s1, "leaf", quiet, new.gen)
             s2    == ReleaseRemoved(sb, p, old.scope \ new.scope, Edges)
             s3    == [s2 EXCEPT !.stamp = [i \in Issues |-> IF i \in quiet THEN new.gen ELSE @[i]]]
  <1>1. GoodSnap(s.snap[p]) /\ s.ctl[p] \in Controllers /\ s.ctl[p].gen <= s.snap[p].gen
        /\ s.ctl[p].gen \in Nat /\ s.snap[p].gen \in Nat
    BY StateFields
  <1>2. /\ GoodSnap(old) /\ old.known /\ old.gen = s.snap[p].gen
        /\ Flying(s.snap[p]) => Flying(old)
        /\ Bound(s.snap[p]) /\ ex[p] = "running" => Bound(old)
    <2>1. CASE Reactivated(s, p, ex)
      BY <1>1, <2>1, ReplannedGood DEF Reactivated, Flying, Bound
    <2>2. CASE ~Reactivated(s, p, ex)
      BY <1>1, <2>2
    <2>3. QED
      BY <2>1, <2>2
  <1>3. /\ GoodSnap(new) /\ old.gen <= new.gen
        /\ Flying(old) => Flying(new)
        /\ Bound(old) => Bound(new)
    BY <1>2, ReconcileScopeGood
  <1>4. new \in Snapshots /\ new.gen \in Nat
    BY <1>3 DEF GoodSnap, Snapshots
  <1>5. RescopeParent(s, p, ex) = IF new.blocked THEN s3 ELSE [s3 EXCEPT !.ctl[p] = NewController(new.gen)]
    BY DEF RescopeParent
  <1> HIDE DEF new, old
  <1>6. s1 \in States /\ Keeps(s, s1, ex) /\ s1.snap[p] = new
    <2>1. Edit(s, s1, p, new, s.ctl[p])
      <3>1. s.ctl = [s.ctl EXCEPT ![p] = s.ctl[p]]
        BY DEF States, Records
      <3>2. QED
        BY <1>4, <3>1 DEF Edit, States, Records
    <2>2. s.ctl[p].gen <= new.gen
      BY <1>1, <1>2, <1>3, <1>4
    <2>3. /\ Flying(s.snap[p]) => Flying(new)
          /\ Bound(s.snap[p]) /\ ex[p] = "running" => Bound(new)
      BY <1>2, <1>3
    <2> HIDE DEF s1
    <2>4. QED
      BY <1>1, <1>3, <2>1, <2>2, <2>3, EditKeeps
  <1> HIDE DEF s1
  <1>7. SameTree(s1, sb)
    BY <1>4, <1>6, RebindKeeps
  <1> HIDE DEF sb
  <1>8. SameTree(s1, s2)
    <2>1. SameTree(sb, s2)
      BY <1>7, ReleasesKeep DEF SameTree
    <2>2. QED
      BY <1>7, <2>1, SameTreeTrans
  <1> HIDE DEF s2
  <1>9. SameTree(s1, s3)
    <2>1. s2 \in States /\ s2.stamp \in [Issues -> Nat]
      BY <1>8 DEF SameTree, States, Records
    <2>2. [i \in Issues |-> IF i \in quiet THEN new.gen ELSE s2.stamp[i]] \in [Issues -> Nat]
      BY <1>4, <2>1
    <2>3. SameTree(s2, s3)
      <3> DEFINE f == [i \in Issues |-> IF i \in quiet THEN new.gen ELSE s2.stamp[i]]
      <3>1. f \in [Issues -> Nat] /\ s3 = [s2 EXCEPT !.stamp = f]
        BY <2>2
      <3> HIDE DEF f, s3
      <3>2. QED
        BY <2>1, <3>1, StampKeeps
    <2>4. QED
      BY <1>8, <2>3, SameTreeTrans
  <1> HIDE DEF s3
  <1>10. s3 \in States /\ Keeps(s, s3, ex) /\ s3.snap[p] = new
    BY <1>6, <1>9, SameTreeSame, KeepsTrans DEF SameTree
  <1>11. CASE new.blocked
    BY <1>5, <1>10, <1>11
  <1>12. CASE ~new.blocked
    <2> DEFINE r == [s3 EXCEPT !.ctl[p] = NewController(new.gen)]
    <2>1. NewController(new.gen) \in Controllers /\ NewController(new.gen).gen = new.gen
      BY <1>4, NewControllerTyped
    <2>2. Edit(s3, r, p, new, NewController(new.gen))
      BY <1>10, <2>1, CtlEdit
    <2>3. NewController(new.gen).gen <= new.gen
      BY <1>4, <2>1
    <2> HIDE DEF r
    <2>4. r \in States /\ Keeps(s3, r, ex)
      <3>1. s3 \in States /\ GoodSnap(new) /\ s3.snap[p] = new
        BY <1>3, <1>10
      <3>2. (Flying(s3.snap[p]) => Flying(new)) /\ (Bound(s3.snap[p]) /\ ex[p] = "running" => Bound(new))
        BY <3>1
      <3> HIDE DEF Keeps
      <3>3. QED
        BY <2>1, <2>2, <2>3, <3>1, <3>2, EditKeeps
    <2>5. r \in States /\ Keeps(s, r, ex)
      BY <1>10, <2>4, KeepsTrans
    <2>6. QED
      BY <1>5, <1>12, <2>5 DEF r
  <1>13. QED
    BY <1>11, <1>12

LEMMA ReconcileParentKeeps ==
    ASSUME NEW s \in States, NEW p \in Parents, NEW ex, scope \in [Parents -> SUBSET Issues]
    PROVE  ReconcileParent(s, p, ex) \in States /\ Keeps(s, ReconcileParent(s, p, ex), ex)
  <1> DEFINE sn     == s.snap[p]
             retain == scope[p] \cup sn.scope # {} \/ sn.frozen \/ sn.blocked
             undone == p \notin open /\ ~HasFence(sn)
             s1     == IF undone THEN ReleaseUndispatched(s, p, Edges) ELSE s
             s0     == [s EXCEPT !.snap[p] = NewSnapshot(scope[p]), !.ctl[p] = NewController(1)]
             r      == [s1 EXCEPT !.snap[p] = Replanned(@), !.ctl[p] = NewController(sn.gen)]
  <1>0. s \in States /\ Keeps(s, s, ex) /\ GoodSnap(sn) /\ sn \in Snapshots /\ sn.gen \in Nat
    BY StateFields DEF Keeps
  <1>1. SameTree(s, s1) /\ s1 \in States /\ Keeps(s, s1, ex) /\ s1.snap[p] = sn
    BY SameTreeRefl, ReleasesKeep, SameTreeSame DEF SameTree
  <1>2. CASE s.ctl[p].cleanup = "pending" \/ (~retain /\ ~sn.known)
    BY <1>0, <1>2 DEF ReconcileParent
  <1>3. CASE s.ctl[p].cleanup # "pending" /\ ~retain /\ sn.known
    <2>1. ReconcileParent(s, p, ex) = ForgetParent(s, p)
      BY <1>3 DEF ReconcileParent
    <2>2. QED
      BY <1>3, <2>1, ForgetParentKeeps
  <1>4. CASE s.ctl[p].cleanup # "pending" /\ retain /\ ~sn.known
    <2>1. ReconcileParent(s, p, ex) = IF p \in open THEN s0 ELSE ReleaseUndispatched(s0, p, Edges)
      BY <1>4 DEF ReconcileParent
    <2>2. GoodSnap(NewSnapshot(scope[p])) /\ NewSnapshot(scope[p]).gen = 1
      BY NewSnapshotGood
    <2>3. NewController(1) \in Controllers /\ NewController(1).gen = 1
      BY NewControllerTyped
    <2>4. NewSnapshot(scope[p]) \in Snapshots
      BY <2>2 DEF GoodSnap
    <2>5. Edit(s, s0, p, NewSnapshot(scope[p]), NewController(1))
      BY <2>3, <2>4, BothEdit
    <2>6. ~Flying(sn) /\ ~Bound(sn)
      BY <1>4 DEF Flying, Bound
    <2> HIDE DEF s0
    <2>7. NewController(1).gen <= NewSnapshot(scope[p]).gen
      BY <2>2, <2>3
    <2> HIDE DEF sn
    <2>8. s0 \in States /\ Keeps(s, s0, ex)
      <3>1. ~Flying(s.snap[p]) /\ ~Bound(s.snap[p])
        BY <2>6 DEF sn
      <3>2. QED
        BY <2>2, <2>3, <2>5, <2>7, <3>1, EditKeeps
    <2>9. QED
      BY <2>1, <2>8, ReleasesKeep, SameTreeSame, KeepsTrans
  <1>5. CASE s.ctl[p].cleanup # "pending" /\ retain /\ sn.known /\ scope[p] # sn.scope
    <2>1. ReconcileParent(s, p, ex) = RescopeParent(s1, p, ex)
      BY <1>5 DEF ReconcileParent
    <2> HIDE DEF s1, sn
    <2>2. RescopeParent(s1, p, ex) \in States /\ Keeps(s1, RescopeParent(s1, p, ex), ex)
      BY <1>1, <1>5, RescopeParentKeeps
    <2>3. QED
      BY <1>1, <2>1, <2>2, KeepsTrans
  <1>6. CASE s.ctl[p].cleanup # "pending" /\ retain /\ sn.known /\ scope[p] = sn.scope
             /\ Reactivated(s1, p, ex)
    <2>1. ReconcileParent(s, p, ex) = r
      BY <1>6 DEF ReconcileParent
    <2>2. GoodSnap(Replanned(sn)) /\ Replanned(sn).gen = sn.gen
      BY <1>0, <1>6, ReplannedGood
    <2>3. NewController(sn.gen) \in Controllers /\ NewController(sn.gen).gen = sn.gen
      BY <1>0, NewControllerTyped
    <2>4. ~Flying(s1.snap[p]) /\ ex[p] # "running"
      BY <1>1, <1>6 DEF Reactivated, Flying
    <2>5. Replanned(s1.snap[p]) = Replanned(sn)
      BY <1>1
    <2> HIDE DEF s1
    <2>6. Edit(s1, r, p, Replanned(sn), NewController(sn.gen))
      <3>1. Replanned(sn) \in Snapshots
        BY <2>2 DEF GoodSnap
      <3>2. r = [s1 EXCEPT !.snap[p] = Replanned(sn), !.ctl[p] = NewController(sn.gen)]
        BY <1>1, <2>5
      <3>3. QED
        BY <1>1, <2>3, <3>1, <3>2, BothEdit
    <2>7. NewController(sn.gen).gen <= Replanned(sn).gen
      BY <1>0, <2>2, <2>3
    <2> HIDE DEF r, sn
    <2>8. r \in States /\ Keeps(s1, r, ex)
      BY <1>1, <2>2, <2>3, <2>4, <2>6, <2>7, EditKeeps
    <2>9. QED
      BY <1>1, <2>1, <2>8, KeepsTrans
  <1>7. CASE s.ctl[p].cleanup # "pending" /\ retain /\ sn.known /\ scope[p] = sn.scope
             /\ ~Reactivated(s1, p, ex)
    <2>1. ReconcileParent(s, p, ex) = s1
      BY <1>7 DEF ReconcileParent
    <2>2. QED
      BY <1>1, <2>1
  <1>8. QED
    BY <1>2, <1>3, <1>4, <1>5, <1>6, <1>7

-----------------------------------------------------------------------------
(* One parent after the other. *)

LEMMA Least ==
    ASSUME NEW T, T \subseteq Nat, T # {}
    PROVE  \E m \in T : \A n \in T : m <= n
  <1> DEFINE R == OpToRel(<, Nat)
  <1>1. IsWellFoundedOn(R, Nat)
    BY NatLessThanWellFounded
  <1>2. \A x, y \in Nat : x < y => <<x, y>> \in R
    BY DEF OpToRel
  <1> HIDE DEF R
  <1>3. PICK m \in T : \A n \in T : ~ (<<n, m>> \in R)
    BY <1>1, WFMin, Zenon
  <1>4. \A n \in T : ~(n < m)
    <2> TAKE n \in T
    <2>1. n \in Nat /\ m \in Nat /\ ~ (<<n, m>> \in R)
      BY <1>3
    <2>2. QED
      BY <1>2, <2>1, Zenon
  <1>5. QED
    BY <1>4

\* F[n] is the n-th step, in D.
StepsIn(F, N, D) == F \in [1..N -> [D -> D]]

\* g is the states such steps lead through from b.
IsRun(g, F, N, D, b) ==
    g \in [0..N -> D] /\ g[0] = b /\ \A n \in 1..N : g[n] = F[n][g[n-1]]

\* A step function iterated N times from b stays in a set the steps stay in.
LEMMA Iterates ==
    ASSUME NEW N \in Nat, NEW D, NEW b \in D, NEW F, StepsIn(F, N, D)
    PROVE  \E g : IsRun(g, F, N, D, b)
  <1> USE DEF StepsIn, IsRun
  <1> DEFINE Good(k, g) == g[0] = b /\ \A n \in 1..k : g[n] = F[n][g[n-1]]
  <1> DEFINE Bad == {k \in 0..N : \A g \in [0..N -> D] : ~Good(k, g)}
  <1>1. CASE Bad = {}
    <2>1. N \in 0..N
      OBVIOUS
    <2>2. PICK g \in [0..N -> D] : Good(N, g)
      BY <1>1, <2>1
    <2>3. QED
      BY <2>2
  <1>2. CASE Bad # {}
    <2>1. PICK m \in Bad : \A n \in Bad : m <= n
      <3>1. Bad \subseteq Nat
        OBVIOUS
      <3>2. QED
        BY <1>2, <3>1, Least
    <2>2. m \in 0..N /\ m \in Nat
      BY <2>1
    <2>3. m # 0
      <3> DEFINE g0 == [n \in 0..N |-> b]
      <3>1. g0 \in [0..N -> D] /\ Good(0, g0)
        OBVIOUS
      <3>2. QED
        BY <2>1, <3>1
    <2>4. m - 1 \in 0..N /\ m - 1 \notin Bad /\ m \in 1..N
      <3> HIDE DEF Bad
      <3>1. m - 1 \in 0..N /\ m \in 1..N /\ ~(m <= m - 1)
        BY <2>2, <2>3
      <3>2. QED
        BY <2>1, <3>1
    <2>5. PICK g \in [0..N -> D] : Good(m - 1, g)
      BY <2>4
    <2> DEFINE h == [n \in 0..N |-> IF n = m THEN F[m][g[m - 1]] ELSE g[n]]
    <2>6. h \in [0..N -> D]
      <3>1. F[m] \in [D -> D] /\ g[m - 1] \in D
        BY <2>4, <2>5
      <3>2. QED
        BY <3>1
    <2>7. Good(m, h)
      <3>1. h[0] = b
        BY <2>2, <2>3, <2>5
      <3>2. ASSUME NEW n \in 1..m PROVE h[n] = F[n][h[n - 1]]
        <4>1. n \in 0..N /\ n - 1 \in 0..N /\ n - 1 # m
          BY <2>2
        <4>2. CASE n = m
          BY <4>1, <4>2, <2>4
        <4>3. CASE n # m
          <5>1. n \in 1..(m - 1)
            BY <4>3, <2>2
          <5>2. g[n] = F[n][g[n - 1]]
            BY <5>1, <2>5
          <5>3. QED
            BY <4>1, <4>3, <5>2
        <4>4. QED
          BY <4>2, <4>3
      <3>3. QED
        BY <3>1, <3>2
    <2>8. QED
      BY <2>1, <2>6, <2>7
  <1>3. QED
    BY <1>1, <1>2

\* ... and so does what is computed by following the steps.
LEMMA RunEnds ==
    ASSUME NEW N \in Nat, NEW D, NEW F, StepsIn(F, N, D), NEW u, u[0] \in D,
           \A n \in 1..N : u[n-1] \in D => u[n] = F[n][u[n-1]]
    PROVE  u[N] \in D
  <1> DEFINE Bad == {n \in 0..N : u[n] \notin D}
  <1>1. Bad = {}
    <2> SUFFICES ASSUME Bad # {} PROVE FALSE
      OBVIOUS
    <2>1. PICK m \in Bad : \A n \in Bad : m <= n
      <3>1. Bad \subseteq Nat
        OBVIOUS
      <3>2. QED
        BY <3>1, Least
    <2>2. m \in 0..N /\ m # 0
      BY <2>1
    <2>3. m \in 1..N /\ m - 1 \in 0..N /\ m - 1 \notin Bad
      <3> HIDE DEF Bad
      <3>1. m - 1 \in 0..N /\ m \in 1..N /\ ~(m <= m - 1)
        BY <2>2
      <3>2. QED
        BY <2>1, <3>1
    <2>4. u[m - 1] \in D
      BY <2>3
    <2>5. F[m] \in [D -> D] /\ u[m] = F[m][u[m - 1]]
      BY <2>3, <2>4 DEF StepsIn
    <2>6. u[m] \in D
      BY <2>4, <2>5
    <2>7. QED
      BY <2>1, <2>6
  <1>2. QED
    BY <1>1

\* Whatever each step keeps, a pass over the parents keeps.
LEMMA ReconciledIn ==
    ASSUME NEW D, NEW S, NEW ex, NEW s \in D,
           \A t \in D, p \in Parents \cap S : ReconcileParent(t, p, ex) \in D
    PROVE  Reconciled(s, S, ex) \in D
  <1> DEFINE N == Len(IssueOrder)
  <1> DEFINE St(t, n) == IF IssueOrder[n] \in Parents \cap S THEN ReconcileParent(t, IssueOrder[n], ex) ELSE t
  <1> DEFINE F == [n \in 1..N |-> [t \in D |-> St(t, n)]]
  <1> DEFINE Body(h) == [n \in 0..N |-> IF n = 0 THEN s
                                       ELSE IF IssueOrder[n] \in Parents \cap S THEN ReconcileParent(h[n - 1], IssueOrder[n], ex)
                                       ELSE h[n - 1]]
  <1> DEFINE upto == CHOOSE h : h = Body(h)
  <1>0. N \in Nat
    BY HierarchyAssumption
  <1>1. \A t \in D, n \in 1..N : St(t, n) \in D
    OBVIOUS
  <1>2. F \in [1..N -> [D -> D]]
    BY <1>1
  <1>3. StepsIn(F, N, D)
    <2> HIDE DEF N, F
    <2> QED BY <1>2 DEF StepsIn
  <1>4. PICK g : IsRun(g, F, N, D, s)
    <2> HIDE DEF N, F
    <2> QED BY <1>0, <1>3, Iterates
  <1>5. g \in [0..N -> D] /\ g[0] = s /\ \A n \in 1..N : g[n] = F[n][g[n-1]]
    BY <1>4 DEF IsRun
  <1>6. g = Body(g)
    <2>1. \A n \in 1..N : g[n-1] \in D
      BY <1>0, <1>5
    <2>2. \A n \in 1..N : F[n][g[n-1]] = St(g[n-1], n)
      BY <2>1
    <2>3. ASSUME NEW n \in 0..N PROVE g[n] = Body(g)[n]
      <3> HIDE DEF N, F
      <3>1. CASE n = 0
        BY <1>5, <3>1
      <3>2. CASE n # 0
        <4>1. n \in 1..N
          BY <1>0, <3>2
        <4>2. g[n] = St(g[n-1], n)
          BY <1>5, <2>2, <4>1
        <4>3. QED
          BY <3>2, <4>2
      <3>3. QED
        BY <3>1, <3>2
    <2>4. QED
      BY <1>5, <2>3
  <1>7. upto = Body(upto)
    <2> HIDE DEF Body
    <2> QED BY <1>6
  <1>8. Reconciled(s, S, ex) = upto[N]
    BY DEF Reconciled, EachParent
  <1>9. upto[0] = s /\ \A n \in 1..N : upto[n] = St(upto[n-1], n)
    <2> HIDE DEF upto
    <2>1. \A n \in 0..N : upto[n] = Body(upto)[n]
      BY <1>7
    <2> QED BY <1>0, <2>1
  <1>10. \A n \in 1..N : upto[n-1] \in D => upto[n] = F[n][upto[n-1]]
    <2> HIDE DEF upto
    <2> QED BY <1>9
  <1> HIDE DEF upto, F, N
  <1>11. upto[N] \in D
    BY <1>0, <1>3, <1>9, <1>10, RunEnds
  <1>12. QED
    BY <1>8, <1>11

LEMMA ReleasedIn ==
    ASSUME NEW D, NEW S, NEW s \in D,
           \A t \in D, c \in Parents \cap S : ReleaseUndispatched(t, c, Edges) \in D
    PROVE  EachParent(LAMBDA t, c : ReleaseUndispatched(t, c, Edges), s, S) \in D
  <1> DEFINE N == Len(IssueOrder)
  <1> DEFINE St(t, n) == IF IssueOrder[n] \in Parents \cap S THEN ReleaseUndispatched(t, IssueOrder[n], Edges) ELSE t
  <1> DEFINE F == [n \in 1..N |-> [t \in D |-> St(t, n)]]
  <1> DEFINE Body(h) == [n \in 0..N |-> IF n = 0 THEN s
                                       ELSE IF IssueOrder[n] \in Parents \cap S THEN ReleaseUndispatched(h[n - 1], IssueOrder[n], Edges)
                                       ELSE h[n - 1]]
  <1> DEFINE upto == CHOOSE h : h = Body(h)
  <1>0. N \in Nat
    BY HierarchyAssumption
  <1>1. \A t \in D, n \in 1..N : St(t, n) \in D
    OBVIOUS
  <1>2. F \in [1..N -> [D -> D]]
    BY <1>1
  <1>3. StepsIn(F, N, D)
    <2> HIDE DEF N, F
    <2> QED BY <1>2 DEF StepsIn
  <1>4. PICK g : IsRun(g, F, N, D, s)
    <2> HIDE DEF N, F
    <2> QED BY <1>0, <1>3, Iterates
  <1>5. g \in [0..N -> D] /\ g[0] = s /\ \A n \in 1..N : g[n] = F[n][g[n-1]]
    BY <1>4 DEF IsRun
  <1>6. g = Body(g)
    <2>1. \A n \in 1..N : g[n-1] \in D
      BY <1>0, <1>5
    <2>2. \A n \in 1..N : F[n][g[n-1]] = St(g[n-1], n)
      BY <2>1
    <2>3. ASSUME NEW n \in 0..N PROVE g[n] = Body(g)[n]
      <3> HIDE DEF N, F
      <3>1. CASE n = 0
        BY <1>5, <3>1
      <3>2. CASE n # 0
        <4>1. n \in 1..N
          BY <1>0, <3>2
        <4>2. g[n] = St(g[n-1], n)
          BY <1>5, <2>2, <4>1
        <4>3. QED
          BY <3>2, <4>2
      <3>3. QED
        BY <3>1, <3>2
    <2>4. QED
      BY <1>5, <2>3
  <1>7. upto = Body(upto)
    <2> HIDE DEF Body
    <2> QED BY <1>6
  <1>8. EachParent(LAMBDA t, c : ReleaseUndispatched(t, c, Edges), s, S) = upto[N]
    BY DEF EachParent
  <1>9. upto[0] = s /\ \A n \in 1..N : upto[n] = St(upto[n-1], n)
    <2> HIDE DEF upto
    <2>1. \A n \in 0..N : upto[n] = Body(upto)[n]
      BY <1>7
    <2> QED BY <1>0, <2>1
  <1>10. \A n \in 1..N : upto[n-1] \in D => upto[n] = F[n][upto[n-1]]
    <2> HIDE DEF upto
    <2> QED BY <1>9
  <1> HIDE DEF upto, F, N
  <1>11. upto[N] \in D
    BY <1>0, <1>3, <1>9, <1>10, RunEnds
  <1>12. QED
    BY <1>8, <1>11

\* Whatever each release keeps, an examination keeps.
LEMMA ExaminedIn ==
    ASSUME NEW D, NEW s \in D, NEW i,
           \A t \in D, c \in Parents :
               c \in s.snap[i].scope /\ ~MergeRequired(c) /\ ChildTerminal(s, c)
               => ReleaseUndispatched(t, c, Edges) \in D
    PROVE  Examined(s, i) \in D
  <1> DEFINE void == {c \in s.snap[i].scope : ~MergeRequired(c) /\ ChildTerminal(s, c)}
  <1>1. ASSUME NEW t \in D, NEW c \in Parents \cap void PROVE ReleaseUndispatched(t, c, Edges) \in D
    OBVIOUS
  <1>2. Examined(s, i) = EachParent(LAMBDA t, c : ReleaseUndispatched(t, c, Edges), s, void)
    BY DEF Examined
  <1> HIDE DEF void
  <1>3. EachParent(LAMBDA t, c : ReleaseUndispatched(t, c, Edges), s, void) \in D
    BY <1>1, ReleasedIn, Zenon
  <1>4. QED
    BY <1>2, <1>3, Zenon

\* The last step of a recovery before the executions.
AllResumed(s, S, back) == EachParent(LAMBDA t, p : Resumed(t, p, back), s, S)

LEMMA ResumedIn ==
    ASSUME NEW D, NEW S, NEW back, NEW s \in D,
           \A t \in D, p \in Parents \cap S : Resumed(t, p, back) \in D
    PROVE  AllResumed(s, S, back) \in D
  <1> DEFINE N == Len(IssueOrder)
  <1> DEFINE St(t, n) == IF IssueOrder[n] \in Parents \cap S THEN Resumed(t, IssueOrder[n], back) ELSE t
  <1> DEFINE F == [n \in 1..N |-> [t \in D |-> St(t, n)]]
  <1> DEFINE Body(h) == [n \in 0..N |-> IF n = 0 THEN s
                                       ELSE IF IssueOrder[n] \in Parents \cap S THEN Resumed(h[n - 1], IssueOrder[n], back)
                                       ELSE h[n - 1]]
  <1> DEFINE upto == CHOOSE h : h = Body(h)
  <1>0. N \in Nat
    BY HierarchyAssumption
  <1>1. \A t \in D, n \in 1..N : St(t, n) \in D
    OBVIOUS
  <1>2. F \in [1..N -> [D -> D]]
    BY <1>1
  <1>3. StepsIn(F, N, D)
    <2> HIDE DEF N, F
    <2> QED BY <1>2 DEF StepsIn
  <1>4. PICK g : IsRun(g, F, N, D, s)
    <2> HIDE DEF N, F
    <2> QED BY <1>0, <1>3, Iterates
  <1>5. g \in [0..N -> D] /\ g[0] = s /\ \A n \in 1..N : g[n] = F[n][g[n-1]]
    BY <1>4 DEF IsRun
  <1>6. g = Body(g)
    <2>1. \A n \in 1..N : g[n-1] \in D
      BY <1>0, <1>5
    <2>2. \A n \in 1..N : F[n][g[n-1]] = St(g[n-1], n)
      BY <2>1
    <2>3. ASSUME NEW n \in 0..N PROVE g[n] = Body(g)[n]
      <3> HIDE DEF N, F
      <3>1. CASE n = 0
        BY <1>5, <3>1
      <3>2. CASE n # 0
        <4>1. n \in 1..N
          BY <1>0, <3>2
        <4>2. g[n] = St(g[n-1], n)
          BY <1>5, <2>2, <4>1
        <4>3. QED
          BY <3>2, <4>2
      <3>3. QED
        BY <3>1, <3>2
    <2>4. QED
      BY <1>5, <2>3
  <1>7. upto = Body(upto)
    <2> HIDE DEF Body
    <2> QED BY <1>6
  <1>8. AllResumed(s, S, back) = upto[N]
    BY DEF AllResumed, EachParent
  <1>9. upto[0] = s /\ \A n \in 1..N : upto[n] = St(upto[n-1], n)
    <2> HIDE DEF upto
    <2>1. \A n \in 0..N : upto[n] = Body(upto)[n]
      BY <1>7
    <2> QED BY <1>0, <2>1
  <1>10. \A n \in 1..N : upto[n-1] \in D => upto[n] = F[n][upto[n-1]]
    <2> HIDE DEF upto
    <2> QED BY <1>9
  <1> HIDE DEF upto, F, N
  <1>11. upto[N] \in D
    BY <1>0, <1>3, <1>9, <1>10, RunEnds
  <1>12. QED
    BY <1>8, <1>11

-----------------------------------------------------------------------------
(* What the operations of the daemon do to the tree. *)

\* A reconciliation never takes the fence of a supervised run away.
LEMMA ReconciledKeeps ==
    ASSUME NEW s \in States, NEW S, NEW ex, scope \in [Parents -> SUBSET Issues]
    PROVE  Reconciled(s, S, ex) \in States /\ Keeps(s, Reconciled(s, S, ex), ex)
  <1> DEFINE D == {t \in States : Keeps(s, t, ex)}
  <1>1. s \in D
    BY DEF Keeps
  <1>2. ASSUME NEW t \in D, NEW p \in Parents \cap S
        PROVE  ReconcileParent(t, p, ex) \in D
    BY ReconcileParentKeeps, KeepsTrans
  <1> HIDE DEF D
  <1>3. Reconciled(s, S, ex) \in D
    BY <1>1, <1>2, ReconciledIn
  <1>4. QED
    BY <1>3 DEF D

LEMMA ExaminedKeeps ==
    ASSUME NEW s \in States, NEW p
    PROVE  SameTree(s, Examined(s, p))
  <1> DEFINE D == {t \in States : SameTree(s, t)}
             void == {c \in s.snap[p].scope : ~MergeRequired(c) /\ ChildTerminal(s, c)}
  <1>1. s \in D
    BY SameTreeRefl
  <1>2. ASSUME NEW t \in D, NEW c \in Parents \cap void
        PROVE  ReleaseUndispatched(t, c, Edges) \in D
    <2> DEFINE u == ReleaseUndispatched(t, c, Edges)
    <2>1. t \in States /\ SameTree(s, t)
      OBVIOUS
    <2>2. SameTree(t, u)
      BY <2>1, ReleasesKeep, Zenon
    <2> HIDE DEF u
    <2>3. SameTree(s, u)
      BY <2>1, <2>2, SameTreeTrans, Zenon
    <2>4. u \in D
      BY <2>3 DEF SameTree
    <2>5. QED
      BY <2>4 DEF u
  <1>3. \A t \in D, c \in Parents :
            c \in s.snap[p].scope /\ ~MergeRequired(c) /\ ChildTerminal(s, c)
            => ReleaseUndispatched(t, c, Edges) \in D
    <2> HIDE DEF D
    <2> QED BY <1>2
  <1> HIDE DEF D, void
  <1>4. Examined(s, p) \in D
    BY <1>1, <1>3, ExaminedIn
  <1>5. QED
    BY <1>4 DEF D

LEMMA DispatchedResult ==
    ASSUME NEW s \in States, NEW p \in Parents, s.snap[p].known
    PROVE  LET r == Dispatched(s, p)
           IN  /\ r \in States /\ r.ctl = s.ctl
               /\ s.snap[p].frozen => Bound(r.snap[p])
               /\ \A q \in Parents : q # p => r.snap[q] = s.snap[q]
  <1> DEFINE sn == s.snap[p]
             s1 == [s EXCEPT !.snap[p] = MarkDispatched(@)]
             s2 == ReleaseLeafLeasesFor(s1, p)
             r  == Dispatched(s, p)
  <1>1. r = ReleaseAncestorLeasesOf(s2, s.snap[p].scope \cap Known(s))
    BY DEF Dispatched
  <1>2. GoodSnap(sn) /\ s.ctl[p] \in Controllers /\ s.ctl[p].gen <= sn.gen
    BY StateFields
  <1>3. GoodSnap(MarkDispatched(sn)) /\ MarkDispatched(sn).gen = sn.gen
        /\ (sn.frozen => Bound(MarkDispatched(sn)))
    BY <1>2, MarkDispatchedGood
  <1>4. Edit(s, s1, p, MarkDispatched(sn), s.ctl[p]) /\ s1.ctl = s.ctl
    <2>1. MarkDispatched(sn) \in Snapshots
      BY <1>3 DEF GoodSnap
    <2>2. s1.ctl = s.ctl
      BY DEF States, Records
    <2>3. QED
      BY <2>1, <2>2, SnapEdit
  <1> HIDE DEF s1, r, sn
  <1>5. /\ s1 \in States /\ s1.snap[p] = MarkDispatched(sn)
        /\ \A q \in Parents : q # p => s1.snap[q] = s.snap[q]
    BY <1>2, <1>3, <1>4, Edited
  <1>6. SameTree(s1, s2) /\ s2 \in States
    BY <1>5, ReleasesKeep DEF SameTree
  <1>7. SameTree(s2, r)
    BY <1>1, <1>6, ReleasesKeep
  <1>8. SameTree(s1, r)
    BY <1>6, <1>7, SameTreeTrans
  <1>9. r \in States /\ r.snap = s1.snap /\ r.ctl = s1.ctl
    BY <1>8 DEF SameTree
  <1>10. QED
    BY <1>3, <1>4, <1>5, <1>9 DEF r, sn

LEMMA LaunchedResult ==
    ASSUME NEW s \in States, NEW i \in Issues, i \in Parents => s.snap[i].known
    PROVE  LET r == Launched(s, i)
           IN  /\ r \in States /\ r.ctl = s.ctl
               /\ i \in Parents /\ s.snap[i].frozen => Bound(r.snap[i])
               /\ \A q \in Parents : q # i => r.snap[q] = s.snap[q]
  <1> DEFINE s1 == [s EXCEPT !.receipts = @ \ {i}]
             r  == Launched(s, i)
  <1>1. SameTree(s, s1)
    <2>1. s.receipts \ {i} \in SUBSET Issues
      BY DEF States, Records
    <2>2. QED
      BY <2>1, ReceiptsKeep
  <1>2. s1 \in States /\ s1.snap = s.snap /\ s1.ctl = s.ctl
    BY <1>1 DEF SameTree
  <1>3. r = IF i \in Parents THEN Dispatched(s1, i) ELSE s1
    BY DEF Launched
  <1> HIDE DEF s1, r
  <1>4. CASE i \in Parents
    <2>1. r = Dispatched(s1, i) /\ s1.snap[i].known
      BY <1>2, <1>3, <1>4
    <2>2. /\ r \in States /\ r.ctl = s1.ctl
          /\ s1.snap[i].frozen => Bound(r.snap[i])
          /\ \A q \in Parents : q # i => r.snap[q] = s1.snap[q]
      BY <1>2, <1>4, <2>1, DispatchedResult
    <2>3. QED
      BY <1>2, <1>4, <2>2 DEF r
  <1>5. CASE i \notin Parents
    BY <1>2, <1>3, <1>5 DEF r
  <1>6. QED
    BY <1>4, <1>5

LEMMA ClearIntentResult ==
    ASSUME NEW s \in States, NEW p \in Parents, s.snap[p].known
    PROVE  LET r == [s EXCEPT !.snap[p].intent = 0]
           IN  /\ r \in States /\ r.ctl = s.ctl
               /\ r.snap[p] = [s.snap[p] EXCEPT !.intent = 0]
               /\ \A q \in Parents : q # p => r.snap[q] = s.snap[q]
  <1> DEFINE sn == s.snap[p]
             c  == [sn EXCEPT !.intent = 0]
             r  == [s EXCEPT !.snap[p] = c]
  <1>1. GoodSnap(sn) /\ s.ctl[p] \in Controllers /\ s.ctl[p].gen <= sn.gen
    BY StateFields
  <1>2. GoodSnap(c) /\ c.gen = sn.gen
    BY <1>1, ClearIntentGood
  <1>3. r.ctl = s.ctl
    BY DEF States, Records
  <1> HIDE DEF c
  <1>4. Edit(s, r, p, c, s.ctl[p])
    BY <1>2, SnapEdit DEF GoodSnap
  <1> HIDE DEF r, sn
  <1>5. /\ r \in States /\ r.snap[p] = c
        /\ \A q \in Parents : q # p => r.snap[q] = s.snap[q]
    BY <1>1, <1>2, <1>4, Edited
  <1>6. QED
    BY <1>3, <1>5 DEF r, c, sn

LEMMA ResumedResult ==
    ASSUME NEW s \in States, NEW p \in Parents, NEW back
    PROVE  LET r == Resumed(s, p, back)
           IN  /\ r \in States
               /\ p \in back /\ Bound(s.snap[p]) => Bound(r.snap[p])
               /\ \A q \in Parents : q # p => r.snap[q] = s.snap[q]
  <1> DEFINE sn == s.snap[p]
             r  == Resumed(s, p, back)
  <1>1. CASE sn.intent = 0 \/ sn.intent # sn.gen
    BY <1>1 DEF Resumed
  <1>2. CASE ~(sn.intent = 0 \/ sn.intent # sn.gen)
    <2>1. GoodSnap(sn) /\ s.ctl[p] \in Controllers /\ s.ctl[p].gen <= sn.gen
      BY StateFields
    <2>2. sn.known
      <3> SUFFICES ASSUME ~sn.known PROVE FALSE
        OBVIOUS
      <3>1. sn = NoSnapshot
        BY <2>1 DEF GoodSnap, SnapshotOK
      <3>2. QED
        BY <1>2, <3>1, NoSnapshotFields
    <2>3. CASE p \notin back
      <3>1. r = [s EXCEPT !.snap[p].intent = 0]
        BY <1>2, <2>3 DEF Resumed
      <3>2. QED
        BY <2>2, <2>3, <3>1, ClearIntentResult
    <2>4. CASE p \in back /\ p \in open
      <3>1. r = Dispatched(s, p)
        BY <1>2, <2>4 DEF Resumed
      <3>2. QED
        BY <2>2, <2>4, <3>1, DispatchedResult DEF Bound
    <2>5. CASE p \in back /\ p \notin open
      <3>1. r = [s EXCEPT !.snap[p] = MarkDispatched(sn)]
        BY <1>2, <2>5 DEF Resumed
      <3>2. GoodSnap(MarkDispatched(sn)) /\ MarkDispatched(sn).gen = sn.gen
            /\ (sn.frozen => Bound(MarkDispatched(sn)))
        BY <2>1, <2>2, MarkDispatchedGood
      <3>3. Edit(s, r, p, MarkDispatched(sn), s.ctl[p])
        BY <3>1, <3>2, SnapEdit DEF GoodSnap
      <3> HIDE DEF r, sn
      <3>4. /\ r \in States /\ r.snap[p] = MarkDispatched(sn)
            /\ \A q \in Parents : q # p => r.snap[q] = s.snap[q]
        BY <2>1, <3>2, <3>3, Edited
      <3>5. QED
        BY <3>2, <3>4 DEF r, sn, Bound
    <2>6. QED
      BY <2>3, <2>4, <2>5
  <1>3. QED
    BY <1>1, <1>2

LEMMA AllResumedBound ==
    ASSUME NEW s \in States, NEW S, NEW back,
           \A p \in Parents \cap back : Bound(s.snap[p])
    PROVE  /\ AllResumed(s, S, back) \in States
           /\ \A p \in Parents \cap back : Bound(AllResumed(s, S, back).snap[p])
  <1> DEFINE D == {t \in States : \A p \in Parents \cap back : Bound(t.snap[p])}
  <1>1. s \in D
    OBVIOUS
  <1>2. ASSUME NEW t \in D, NEW p \in Parents \cap S
        PROVE  Resumed(t, p, back) \in D
    <2>1. t \in States /\ \A q \in Parents \cap back : Bound(t.snap[q])
      OBVIOUS
    <2>2. /\ Resumed(t, p, back) \in States
          /\ p \in back => Bound(Resumed(t, p, back).snap[p])
          /\ \A q \in Parents : q # p => Resumed(t, p, back).snap[q] = t.snap[q]
      BY <2>1, ResumedResult
    <2>3. \A q \in Parents \cap back : Bound(Resumed(t, p, back).snap[q])
      BY <2>1, <2>2
    <2>4. QED
      BY <2>2, <2>3
  <1> HIDE DEF D
  <1>3. AllResumed(s, S, back) \in D
    BY <1>1, <1>2, ResumedIn
  <1>4. QED
    BY <1>3 DEF D

LEMMA AboveGenerations ==
    ASSUME NEW s \in States, NEW i
    PROVE  Above(s, i) # {} => ScopeGen(s, i) \in Nat
  <1> SUFFICES ASSUME Above(s, i) # {} PROVE ScopeGen(s, i) \in Nat
    OBVIOUS
  <1>1. (CHOOSE p \in Above(s, i) : TRUE) \in Parents
    BY DEF Above, Known
  <1>2. QED
    BY <1>1, StateFields DEF ScopeGen

\* Stamping, rebinding and retaining leases leave the tree alone.
LEMMA StampedKeeps ==
    ASSUME NEW s \in States, NEW i \in Issues
    PROVE  SameTree(s, Stamped(s, i))
  <1>1. CASE Above(s, i) = {}
    BY <1>1, SameTreeRefl DEF Stamped
  <1>2. CASE Above(s, i) # {}
    <2>1. Stamped(s, i) = [s EXCEPT !.stamp = [s.stamp EXCEPT ![i] = ScopeGen(s, i)]]
      BY <1>2 DEF Stamped
    <2>2. [s.stamp EXCEPT ![i] = ScopeGen(s, i)] \in [Issues -> Nat]
      BY <1>2, AboveGenerations DEF States, Records
    <2>3. QED
      BY <2>1, <2>2, StampKeeps
  <1>3. QED
    BY <1>1, <1>2

LEMMA ReboundKeeps ==
    ASSUME NEW s \in States, NEW i \in Issues
    PROVE  SameTree(s, Rebound(s, i))
  <1>1. CASE Above(s, i) = {} \/ s.stamp[i] \in {0, ScopeGen(s, i)}
    BY <1>1, SameTreeRefl DEF Rebound
  <1>2. CASE ~(Above(s, i) = {} \/ s.stamp[i] \in {0, ScopeGen(s, i)})
    <2> DEFINE s1 == [s EXCEPT !.stamp = [s.stamp EXCEPT ![i] = ScopeGen(s, i)]]
    <2>1. Rebound(s, i) = Rebind(s1, "leaf", {i}, ScopeGen(s, i))
      BY <1>2 DEF Rebound
    <2>2. ScopeGen(s, i) \in Nat
      BY <1>2, AboveGenerations
    <2>3. [s.stamp EXCEPT ![i] = ScopeGen(s, i)] \in [Issues -> Nat]
      BY <2>2 DEF States, Records
    <2>4. SameTree(s, s1)
      BY <2>3, StampKeeps
    <2> HIDE DEF s1
    <2>5. SameTree(s1, Rebind(s1, "leaf", {i}, ScopeGen(s, i)))
      BY <2>2, <2>4, RebindKeeps DEF SameTree
    <2>6. QED
      BY <2>1, <2>4, <2>5, SameTreeTrans
  <1>3. QED
    BY <1>1, <1>2

LEMMA RetainKeeps ==
    ASSUME NEW s \in States, NEW i \in Issues
    PROVE  SameTree(s, RetainTerminalChildLease(s, i))
  <1> DEFINE undone == {p \in Known(s) \ open : i \in scope[p] /\ ~HasFence(s.snap[p])}
             mine   == {l \in s.leases : l.res = i}
             kept   == Lease("leaf", i, i, i, StampOf(s, i))
  <1>1. CASE i \notin Leaves \cap checkout \/ Above(s, i) = {} \/ Fenced(s, i)
    BY <1>1, SameTreeRefl DEF RetainTerminalChildLease
  <1>2. CASE ~(i \notin Leaves \cap checkout \/ Above(s, i) = {} \/ Fenced(s, i)) /\ undone # {}
    <2>1. RetainTerminalChildLease(s, i) = ReleaseUndispatched(s, CHOOSE p \in undone : TRUE, {})
      BY <1>2 DEF RetainTerminalChildLease
    <2>2. QED
      BY <2>1, ReleasesKeep
  <1>3. CASE /\ ~(i \notin Leaves \cap checkout \/ Above(s, i) = {} \/ Fenced(s, i)) /\ undone = {}
             /\ \E l \in mine : l.kind # "leaf"
    BY <1>3, SameTreeRefl DEF RetainTerminalChildLease
  <1>4. CASE /\ ~(i \notin Leaves \cap checkout \/ Above(s, i) = {} \/ Fenced(s, i)) /\ undone = {}
             /\ ~(\E l \in mine : l.kind # "leaf")
    <2>1. RetainTerminalChildLease(s, i) = [s EXCEPT !.leases = (s.leases \ mine) \cup {kept}]
      BY <1>4 DEF RetainTerminalChildLease
    <2>2. StampOf(s, i) \in Nat
      <3>1. s.stamp[i] \in Nat
        BY DEF States, Records
      <3>2. QED
        BY <3>1, AboveGenerations DEF StampOf
    <2>3. kept \in Leases
      BY <1>4, <2>2 DEF Lease, Leases, LeaseOK
    <2>4. (s.leases \ mine) \cup {kept} \in SUBSET Leases
      BY <2>3 DEF States, Records
    <2>5. QED
      BY <2>1, <2>4, LeasesKeep
  <1>5. QED
    BY <1>1, <1>2, <1>3, <1>4

\* What a child contributes, and what a controller is admitted with, are of their types.
LEMMA ContributedTyped ==
    ASSUME NEW s \in States, NEW p, NEW c
    PROVE  Contributed(s, p, c) \subseteq Leaves
  <1> DEFINE owned(o, g, sub) == {l.res : l \in {k \in s.leases : k.kind = "ancestor" /\ k.owner = o
                                                      /\ k.gen = g /\ k.res \in sub}}
             fromChild == IF c \in Known(s)
                          THEN owned(c, s.snap[c].gen, Subtree(s, s.snap[c].scope)) ELSE {}
             again == owned(p, s.snap[p].gen, Subtree(s, {c}))
             leaf  == {l.res : l \in {k \in s.leases : k.kind = "leaf" /\ k.res = c
                                                       /\ k.gen = s.snap[p].gen}}
  <1>1. \A l \in s.leases : l.res \in Leaves
    BY DEF States, Records, Leases
  <1>2. \A o, g, sub : owned(o, g, sub) \subseteq Leaves
    BY <1>1
  <1>3. leaf \subseteq Leaves
    BY <1>1
  <1>4. Contributed(s, p, c) = IF fromChild # {} THEN fromChild ELSE again \cup leaf
    BY DEF Contributed
  <1> HIDE DEF owned, leaf
  <1>5. fromChild \subseteq Leaves /\ again \subseteq Leaves
    BY <1>2
  <1> HIDE DEF fromChild, again
  <1>6. QED
    BY <1>3, <1>4, <1>5

LEMMA InputTyped ==
    ASSUME NEW s, NEW p, merged \in [Leaves -> 0 .. MaxRuns]
    PROVE  Input(s, p) \in [Leaves -> Nat]
  <1>1. \A l \in Leaves : merged[l] \in Nat
    BY HierarchyAssumption
  <1>2. QED
    BY <1>1 DEF Input

\* What a launch is announced with: the snapshot is frozen, bears the intent, and
\* the controller has the merges of the moment.
LEMMA AdmittedResult ==
    ASSUME NEW s \in States, NEW p \in Parents, s.snap[p].known,
           merged \in [Leaves -> 0 .. MaxRuns]
    PROVE  LET r == Admitted(s, p)
           IN  /\ r \in States
               /\ r.snap[p].known /\ r.snap[p].frozen /\ r.snap[p].intent # 0
               /\ r.snap[p].scope = s.snap[p].scope
               /\ ~AdmissionConflict(s, p) => r.ctl[p].input = Input(s, p)
               /\ \A q \in Parents : q # p => r.snap[q] = s.snap[q] /\ r.ctl[q] = s.ctl[q]
  <1> DEFINE sn  == s.snap[p]
             t   == Examined(s, p)
             new == UNION {UNION {{Lease("ancestor", x, p, p, sn.gen), Lease("review", x, p, c, sn.gen)} :
                                  x \in Contributed(t, p, c)} :
                           c \in {d \in sn.scope : MergeRequired(d)}}
             old == IF s.ctl[p].gen = sn.gen THEN s.ctl[p] ELSE NewController(sn.gen)
             ctl == IF old.st = "waiting"
                    THEN [old EXCEPT !.st = "admitted", !.input = Input(s, p)] ELSE old
             nsn == [sn EXCEPT !.frozen = TRUE, !.intent = sn.gen]
             L   == Acquire(t.leases, new)
             r   == Admitted(s, p)
  <1>1. SameTree(s, t)
    BY ExaminedKeeps
  <1>2. t \in States /\ t.snap = s.snap /\ t.ctl = s.ctl
    BY <1>1 DEF SameTree
  <1>3. /\ GoodSnap(sn) /\ s.ctl[p] \in Controllers /\ s.ctl[p].gen <= sn.gen
        /\ sn \in Snapshots /\ sn.gen \in Nat /\ sn.gen # 0
    BY StateFields DEF GoodSnap
  <1>4. /\ nsn \in Snapshots /\ GoodSnap(nsn) /\ nsn.gen = sn.gen /\ nsn.known
        /\ nsn.frozen /\ nsn.intent # 0 /\ nsn.scope = sn.scope
    <2>1. sn.dispatched \in {0, sn.gen} /\ sn.inFlight \in 0 .. sn.gen
      BY <1>3 DEF GoodSnap, SnapshotOK
    <2>2. nsn \in Snapshots
      BY <1>3 DEF Snapshots
    <2>3. /\ nsn.gen = sn.gen /\ nsn.dispatched = sn.dispatched /\ nsn.intent = sn.gen
          /\ nsn.inFlight = sn.inFlight /\ nsn.scope = sn.scope
      BY <1>3 DEF Snapshots
    <2>4. nsn.known = sn.known /\ nsn.frozen = TRUE
      BY <1>3 DEF Snapshots
    <2> HIDE DEF nsn
    <2>5. nsn.known /\ nsn.gen # 0 /\ nsn.dispatched \in {0, nsn.gen}
          /\ nsn.intent \in {0, nsn.gen} /\ nsn.inFlight \in 0 .. nsn.gen
      BY <1>3, <2>1, <2>3, <2>4
    <2>6. GoodSnap(nsn)
      BY <2>2, <2>5, KnownGood
    <2>7. QED
      BY <1>3, <2>2, <2>3, <2>4, <2>5, <2>6
  <1>5. old \in Controllers /\ old.gen = sn.gen
    BY <1>3, NewControllerTyped
  <1>6. /\ ctl \in Controllers /\ ctl.gen <= sn.gen
        /\ ~AdmissionConflict(s, p) => ctl.input = Input(s, p)
    <2>1. Input(s, p) \in [Leaves -> Nat]
      BY InputTyped
    <2>2. CASE old.st = "waiting"
      <3>1. ctl = [old EXCEPT !.st = "admitted", !.input = Input(s, p)]
        BY <2>2
      <3> HIDE DEF old, ctl
      <3>2. ctl \in Controllers /\ ctl.gen = old.gen /\ ctl.input = Input(s, p)
        BY <1>5, <2>1, <3>1 DEF Controllers
      <3>3. QED
        BY <1>3, <1>5, <3>2
    <2>3. CASE old.st # "waiting"
      <3>1. ctl = old
        BY <2>3
      <3>2. s.ctl[p].gen = sn.gen
        BY <1>3, <2>3, NewControllerTyped
      <3>3. old = s.ctl[p]
        BY <3>2
      <3>4. ~AdmissionConflict(s, p) => ctl.input = Input(s, p)
        BY <2>3, <3>1, <3>2, <3>3 DEF AdmissionConflict
      <3> HIDE DEF old, ctl
      <3>5. ctl.gen <= sn.gen
        BY <1>3, <1>5, <3>1
      <3>6. QED
        BY <1>5, <3>1, <3>4, <3>5
    <2>4. QED
      BY <2>2, <2>3
  <1>7. L \in SUBSET Leases
    <2>1. sn.scope \subseteq Issues
      BY <1>3 DEF Snapshots
    <2>2. ASSUME NEW c \in sn.scope, NEW x \in Contributed(t, p, c)
          PROVE  /\ Lease("ancestor", x, p, p, sn.gen) \in Leases
                 /\ Lease("review", x, p, c, sn.gen) \in Leases
      <3>1. x \in Leaves
        BY <1>2, <2>2, ContributedTyped
      <3>2. QED
        BY <1>3, <2>1, <3>1 DEF Lease, Leases, LeaseOK, Issues
    <2>3. new \subseteq Leases
      BY <2>2
    <2>4. t.leases \subseteq Leases
      BY <1>2 DEF States, Records
    <2> HIDE DEF new
    <2>5. QED
      BY <2>3, <2>4 DEF Acquire
  <1>8. Edit(s, r, p, nsn, ctl)
    <2>1. r = [t EXCEPT !.snap[p] = [[t.snap[p] EXCEPT !.frozen = TRUE] EXCEPT !.intent = sn.gen],
                        !.leases = L, !.ctl[p] = ctl]
      BY <1>2 DEF Admitted
    <2>2. [[t.snap[p] EXCEPT !.frozen = TRUE] EXCEPT !.intent = sn.gen] = nsn
      BY <1>2
    <2> HIDE DEF r, nsn, ctl, L
    <2>3. r = [t EXCEPT !.snap = [s.snap EXCEPT ![p] = nsn], !.leases = L,
                        !.ctl = [s.ctl EXCEPT ![p] = ctl]]
      BY <1>2, <2>1, <2>2
    <2>4. QED
      BY <1>2, <1>4, <1>6, <1>7, <2>3 DEF Edit, States, Records
  <1> HIDE DEF r, nsn, ctl, sn
  <1>9. /\ r \in States /\ r.snap[p] = nsn /\ r.ctl[p] = ctl
        /\ \A q \in Parents : q # p => r.snap[q] = s.snap[q] /\ r.ctl[q] = s.ctl[q]
    <2>1. ctl.gen <= nsn.gen
      BY <1>4, <1>6
    <2>2. QED
      BY <1>4, <1>6, <1>8, <2>1, Edited
  <1>10. QED
    BY <1>4, <1>6, <1>9 DEF r, sn

-----------------------------------------------------------------------------
(* The inductive invariant. *)

ExecStates == {"absent", "unclaimed", "claimed", "running", "recovering", "retry",
               "done", "terminal", "parked"}

Typed ==
    /\ scope \in [Parents -> SUBSET Issues] /\ open \subseteq Issues
    /\ merged \in [Leaves -> 0 .. MaxRuns] /\ runs \in [Issues -> 0 .. MaxRuns]
    /\ live \in [Issues -> 0 .. 1] /\ checkout \subseteq Leaves
    /\ exec \in [Issues -> ExecStates]
    /\ dirty \in BOOLEAN /\ phase \in {"down", "idle", "settle", "dispatch", "record"}
    /\ mem \in States /\ disk \in States
    /\ pending \subseteq Issues

\* A run that is alive is known to be: it is supervised, about to be recorded,
\* or, after a crash, to be recovered.
RunKnown(i) ==
    live[i] # 0 => \/ phase # "down" /\ exec[i] = "running"
                   \/ phase = "record" /\ exec[i] = "claimed" /\ i \in pending
                   \/ phase = "down" /\ exec[i] = "recovering"

\* Claims are made by a dispatch pass and do not outlive it.
ClaimKnown(i) ==
    /\ exec[i] = "claimed" => phase = "record" \/ (phase = "dispatch" /\ i \in pending)
    /\ i \in pending => \/ phase = "record"
                        \/ phase = "dispatch" /\ exec[i] = "claimed" /\ runs[i] < MaxRuns

MergeKnown(l) == merged[l] <= runs[l]

\* A launch under way says so in the snapshot, and so does what is on the disk.
Announced(sn) == sn.known /\ sn.frozen /\ sn.intent # 0
Backed(sn)    == sn.known /\ sn.frozen /\ (sn.intent # 0 \/ HasFence(sn))

FenceKnown(p) ==
    /\ exec[p] = "running" => Bound(mem.snap[p])
    /\ exec[p] = "claimed" => Announced(mem.snap[p])
    /\ exec[p] \in {"claimed", "running"} => Backed(disk.snap[p])
    /\ phase = "down" /\ exec[p] = "recovering" => Backed(disk.snap[p])

\* What an announced parent was admitted with stays true until it starts.
LeafFresh(p, l) ==
    /\ mem.ctl[p].input[l] # 0 /\ mem.ctl[p].input[l] = runs[l]
    /\ exec[l] \notin {"unclaimed", "retry", "claimed", "running"}

FreshKnown(p) ==
    phase = "dispatch" /\ p \in pending =>
        \A l \in mem.snap[p].scope \cap Leaves : LeafFresh(p, l)

IInv ==
    /\ Typed
    /\ \A i \in Issues : RunKnown(i) /\ ClaimKnown(i)
    /\ \A l \in Leaves : MergeKnown(l)
    /\ \A p \in Parents : FenceKnown(p) /\ FreshKnown(p)

\* What the invariant says, and where it starts.
LEMMA StatesAreOK ==
    ASSUME NEW s \in States
    PROVE  /\ \A p \in Parents : SnapshotOK(s.snap[p]) /\ s.ctl[p].gen <= s.snap[p].gen
           /\ \A l \in s.leases : LeaseOK(l)
  BY DEF States, Records, Leases, GoodSnap

LEMMA IInvTypeOK == IInv => TypeOK
  <1> SUFFICES ASSUME Typed PROVE TypeOK
    BY DEF IInv
  <1>1. \A s \in {mem, disk} :
          /\ \A p \in Parents : SnapshotOK(s.snap[p]) /\ s.ctl[p].gen <= s.snap[p].gen
          /\ \A l \in s.leases : LeaseOK(l)
    BY StatesAreOK DEF Typed
  <1>2. QED
    BY <1>1 DEF Typed, TypeOK, ExecStates

LEMMA EmptyStateTyped == EmptyState \in States
  <1>1. NoSnapshot \in Snapshots /\ GoodSnap(NoSnapshot) /\ NoSnapshot.gen = 0
    BY NoSnapshotFields, NoSnapshotGood
  <1>2. NewController(0) \in Controllers /\ NewController(0).gen = 0
    BY NewControllerTyped
  <1> HIDE DEF NoSnapshot, NewController
  <1>3. EmptyState \in Records
    BY <1>1, <1>2 DEF EmptyState, Records
  <1>4. \A p \in Parents : EmptyState.snap[p] = NoSnapshot /\ EmptyState.ctl[p] = NewController(0)
    BY DEF EmptyState
  <1>5. QED
    BY <1>1, <1>2, <1>3, <1>4 DEF States

LEMMA InitIInv == Init => IInv
  <1> SUFFICES ASSUME Init PROVE IInv
    OBVIOUS
  <1>1. Typed
    <2>1. mem \in States /\ disk \in States
      BY EmptyStateTyped DEF Init
    <2>2. /\ merged \in [Leaves -> 0 .. MaxRuns] /\ runs \in [Issues -> 0 .. MaxRuns]
          /\ live \in [Issues -> 0 .. 1] /\ exec \in [Issues -> ExecStates]
      BY HierarchyAssumption DEF Init, ExecStates
    <2>3. /\ open \subseteq Issues /\ checkout \subseteq Leaves /\ pending \subseteq Issues
          /\ dirty \in BOOLEAN /\ phase = "idle"
      BY DEF Init
    <2>4. scope \in [Parents -> SUBSET Issues]
      BY HierarchyAssumption DEF Init
    <2>5. QED
      BY <2>1, <2>2, <2>3, <2>4 DEF Typed
  <1>2. \A i \in Issues : live[i] = 0 /\ exec[i] = "absent" /\ i \notin pending
    BY DEF Init
  <1>3. \A l \in Leaves : merged[l] = 0 /\ runs[l] = 0
    BY DEF Init, Issues
  <1>4. QED
    BY <1>1, <1>2, <1>3
       DEF IInv, RunKnown, ClaimKnown, MergeKnown, FenceKnown, FreshKnown, Issues

LEMMA BoundIsBacked ==
    ASSUME NEW sn
    PROVE  (Bound(sn) => Backed(sn)) /\ (Announced(sn) => Backed(sn)) /\ (Flying(sn) => Bound(sn))
  BY DEF Bound, Backed, Announced, Flying, HasFence

-----------------------------------------------------------------------------
(* Steps taken while no launch is prepared. *)

LEMMA QuietStep ==
    ASSUME IInv, phase \in {"idle", "settle"}, phase' \in {"idle", "settle", "dispatch"},
           pending' = pending, UNCHANGED <<tracker, runs>>,
           checkout' \subseteq Leaves, dirty' \in BOOLEAN,
           live' \in [Issues -> 0 .. 1], exec' \in [Issues -> ExecStates],
           \A i \in Issues : /\ live'[i] # 0 => live[i] # 0 /\ (exec[i] = "running" => exec'[i] = "running")
                             /\ exec'[i] # "claimed"
                             /\ exec'[i] = "running" => exec[i] = "running",
           mem' \in States, disk' \in {disk, mem'},
           \A p \in Parents : exec'[p] = "running" /\ Bound(mem.snap[p]) => Bound(mem'.snap[p])
    PROVE  IInv'
  <1>1. Typed'
    BY DEF IInv, Typed, tracker
  <1>2. ASSUME NEW i \in Issues
        PROVE  i \notin pending' /\ RunKnown(i)' /\ ClaimKnown(i)'
    <2>1. RunKnown(i) /\ ClaimKnown(i)
      BY DEF IInv
    <2>2. i \notin pending
      BY <2>1 DEF ClaimKnown
    <2>3. QED
      BY <2>1, <2>2 DEF RunKnown, ClaimKnown
  <1>3. ASSUME NEW l \in Leaves PROVE MergeKnown(l)'
    BY DEF IInv, MergeKnown, tracker
  <1>4. ASSUME NEW p \in Parents PROVE FenceKnown(p)' /\ FreshKnown(p)'
    <2>1. FenceKnown(p) /\ p \in Issues
      BY DEF IInv, Issues
    <2>2. exec'[p] # "claimed"
      BY <2>1
    <2>3. CASE exec'[p] = "running"
      <3>1. Bound(mem'.snap[p]) /\ Backed(disk.snap[p])
        BY <2>1, <2>3 DEF FenceKnown
      <3>2. Backed(disk'.snap[p])
        BY <3>1, BoundIsBacked
      <3>3. FenceKnown(p)'
        BY <2>2, <2>3, <3>1, <3>2 DEF FenceKnown
      <3>4. QED
        BY <1>2, <2>1, <3>3 DEF FreshKnown
    <2>4. CASE exec'[p] # "running"
      BY <1>2, <2>1, <2>2, <2>4 DEF FenceKnown, FreshKnown
    <2>5. QED
      BY <2>3, <2>4
  <1>5. QED
    BY <1>1, <1>2, <1>3, <1>4 DEF IInv

CtlStates == {"waiting", "admitted", "integrating", "passed", "completed", "canceled",
              "fixing", "retry"}

\* Changing a controller only.
LEMMA CtlOnly ==
    ASSUME NEW s \in States, NEW p \in Parents, NEW c \in Controllers, c.gen <= s.snap[p].gen
    PROVE  LET r == [s EXCEPT !.ctl[p] = c]
           IN  /\ r \in States /\ r.snap = s.snap /\ r.ctl[p] = c
               /\ \A q \in Parents : q # p => r.ctl[q] = s.ctl[q]
  <1> DEFINE r == [s EXCEPT !.ctl[p] = c]
  <1>1. Edit(s, r, p, s.snap[p], c)
    BY CtlEdit
  <1>2. r.snap = s.snap
    BY DEF States, Records
  <1>3. GoodSnap(s.snap[p])
    BY StateFields
  <1> HIDE DEF r
  <1>4. r \in States /\ r.ctl[p] = c
    BY <1>1, <1>3, Edited
  <1>5. \A q \in Parents : q # p => r.ctl[q] = s.ctl[q]
    BY DEF r, States, Records
  <1>6. QED
    BY <1>2, <1>4, <1>5 DEF r

LEMMA CtlState ==
    ASSUME NEW s \in States, NEW p \in Parents, NEW x \in CtlStates
    PROVE  LET r == [s EXCEPT !.ctl[p].st = x]
           IN  /\ r \in States /\ r.snap = s.snap /\ r.ctl[p].input = s.ctl[p].input
               /\ \A q \in Parents : q # p => r.ctl[q] = s.ctl[q]
  <1> DEFINE c == [s.ctl[p] EXCEPT !.st = x]
             r == [s EXCEPT !.ctl[p] = c]
  <1>1. s.ctl[p] \in Controllers /\ s.ctl[p].gen <= s.snap[p].gen
    BY StateFields
  <1>2. c \in Controllers /\ c.gen = s.ctl[p].gen /\ c.input = s.ctl[p].input
    BY <1>1 DEF Controllers, CtlStates
  <1> HIDE DEF c
  <1>3. /\ r \in States /\ r.snap = s.snap /\ r.ctl[p] = c
        /\ \A q \in Parents : q # p => r.ctl[q] = s.ctl[q]
    BY <1>1, <1>2, CtlOnly
  <1>4. r.ctl[p].input = s.ctl[p].input
    BY <1>2, <1>3
  <1>5. QED
    BY <1>3, <1>4 DEF c

LEMMA SettledPhase ==
    ASSUME Settled, phase = "settle"
    PROVE  phase' \in {"settle", "dispatch"}
  BY DEF Settled

LEMMA ReopenedExec ==
    ASSUME NEW before, NEW after, exec \in [Issues -> ExecStates]
    PROVE  /\ Reopened(before, after, exec) \in [Issues -> ExecStates]
           /\ \A i \in Issues : \/ Reopened(before, after, exec)[i] = exec[i]
                                \/ exec[i] = "done" /\ Reopened(before, after, exec)[i] = "unclaimed"
  BY DEF Reopened, ExecStates

\* Outside a dispatch pass nothing is claimed.
LEMMA NoClaims ==
    ASSUME IInv, phase \in {"idle", "settle", "down"}
    PROVE  pending = {} /\ \A i \in Issues : exec[i] # "claimed"
  <1>1. \A i \in Issues : ClaimKnown(i)
    BY DEF IInv
  <1>2. pending \subseteq Issues
    BY DEF IInv, Typed
  <1>3. QED
    BY <1>1, <1>2 DEF ClaimKnown

\* The first half of a tick.
LEMMA RefreshStep ==
    ASSUME IInv, NEW ok \in BOOLEAN, Refresh(ok)
    PROVE  IInv'
  <1> DEFINE s1 == ReconcileActive(mem, exec)
             s2 == ReconcileTerminal(s1, exec)
             x2 == Reopened(mem, s2, exec)
  <1>1. Typed
    BY DEF IInv
  <1>2. s1 \in States /\ Keeps(mem, s1, exec)
    BY <1>1, ReconciledKeeps DEF Typed, ReconcileActive
  <1> HIDE DEF s1
  <1>3. s2 \in States /\ Keeps(s1, s2, exec)
    BY <1>1, <1>2, ReconciledKeeps DEF Typed, ReconcileTerminal
  <1> HIDE DEF s2
  <1>4. Keeps(mem, s2, exec)
    BY <1>2, <1>3, KeepsTrans
  <1>5. /\ x2 \in [Issues -> ExecStates]
        /\ \A i \in Issues : x2[i] = exec[i] \/ (exec[i] = "done" /\ x2[i] = "unclaimed")
    BY <1>1, ReopenedExec DEF Typed
  <1> HIDE DEF x2
  <1>6. /\ phase = "idle" /\ phase' \in {"idle", "settle"} /\ exec' = x2
        /\ pending' = pending /\ UNCHANGED <<tracker, runs, live, checkout>>
        /\ mem' \in {mem, s2} /\ disk' \in {disk, mem'} /\ dirty' \in {TRUE, FALSE, dirty, dirty \/ s1 # mem}
    BY DEF Refresh, s1, s2, x2, SavedOrUndone, NotSaved, world
  <1>7. dirty' \in BOOLEAN
    BY <1>1, <1>6 DEF Typed
  <1>8. mem' \in States
    BY <1>1, <1>3, <1>6 DEF Typed
  <1>9. \A p \in Parents : exec'[p] = "running" /\ Bound(mem.snap[p]) => Bound(mem'.snap[p])
    <2>1. \A p \in Parents : exec'[p] = "running" => exec[p] = "running"
      BY <1>5, <1>6 DEF Issues
    <2>2. QED
      BY <1>4, <1>6, <2>1 DEF Keeps
  <1>10. \A i \in Issues : /\ live'[i] # 0 => live[i] # 0 /\ (exec[i] = "running" => exec'[i] = "running")
                           /\ exec'[i] # "claimed"
                           /\ exec'[i] = "running" => exec[i] = "running"
    <2>1. \A i \in Issues : exec[i] # "claimed"
      BY <1>6, NoClaims
    <2>2. QED
      BY <1>5, <1>6, <2>1
  <1>11. live' \in [Issues -> 0 .. 1] /\ checkout' \subseteq Leaves /\ exec' \in [Issues -> ExecStates]
    BY <1>1, <1>5, <1>6 DEF Typed
  <1>12. QED
    BY <1>6, <1>7, <1>8, <1>9, <1>10, <1>11, QuietStep

LEMMA StopRefusedStep ==
    ASSUME IInv, NEW i \in Issues, StopRefused(i)
    PROVE  IInv'
  <1>1. Typed
    BY DEF IInv
  <1>2. phase = "settle" /\ phase' \in {"settle", "dispatch"}
    BY SettledPhase DEF StopRefused, Settling
  <1>3. UNCHANGED <<tracker, runs, live, checkout, exec, mem, disk, dirty, pending>>
    BY DEF StopRefused, world
  <1>4. \A j \in Issues : exec[j] # "claimed"
    BY <1>2, NoClaims
  <1>5. /\ live' \in [Issues -> 0 .. 1] /\ checkout' \subseteq Leaves
        /\ exec' \in [Issues -> ExecStates] /\ dirty' \in BOOLEAN /\ mem' \in States
    BY <1>1, <1>3 DEF Typed
  <1>6. QED
    BY <1>2, <1>3, <1>4, <1>5, QuietStep

LEMMA UpsertStep ==
    ASSUME IInv, NEW i \in Issues, Upsert(i)
    PROVE  IInv'
  <1>1. Typed
    BY DEF IInv
  <1>2. phase = "settle" /\ phase' \in {"settle", "dispatch"}
    BY SettledPhase DEF Upsert, Settling
  <1>3. UNCHANGED <<tracker, runs, live, checkout, disk, pending>>
    BY DEF Upsert, world
  <1>4. \A j \in Issues : exec[j] # "claimed"
    BY <1>2, NoClaims
  <1>5. CASE UNCHANGED <<exec, mem, dirty>>
    <2>1. /\ live' \in [Issues -> 0 .. 1] /\ checkout' \subseteq Leaves
          /\ exec' \in [Issues -> ExecStates] /\ dirty' \in BOOLEAN /\ mem' \in States
      BY <1>1, <1>3, <1>5 DEF Typed
    <2>2. QED
      BY <1>2, <1>3, <1>4, <1>5, <2>1, QuietStep
  <1>6. CASE ~UNCHANGED <<exec, mem, dirty>>
    <2>1. /\ exec[i] \in {"absent", "parked", "terminal"}
          /\ exec' = [exec EXCEPT ![i] = "unclaimed"]
          /\ mem' = [mem EXCEPT !.receipts = mem.receipts \ {i}]
          /\ dirty' = (dirty \/ i \in mem.receipts)
      BY <1>6 DEF Upsert
    <2>2. SameTree(mem, mem')
      <3>1. mem.receipts \ {i} \in SUBSET Issues
        BY <1>1 DEF Typed, States, Records
      <3>2. QED
        BY <1>1, <2>1, <3>1, ReceiptsKeep DEF Typed
    <2>3. mem' \in States /\ mem'.snap = mem.snap
      BY <2>2 DEF SameTree
    <2>4. /\ live' \in [Issues -> 0 .. 1] /\ checkout' \subseteq Leaves
          /\ exec' \in [Issues -> ExecStates] /\ dirty' \in BOOLEAN
      BY <1>1, <1>3, <2>1 DEF Typed, ExecStates
    <2>5. \A j \in Issues : /\ live'[j] # 0 => live[j] # 0 /\ (exec[j] = "running" => exec'[j] = "running")
                            /\ exec'[j] # "claimed"
                            /\ exec'[j] = "running" => exec[j] = "running"
      BY <1>1, <1>3, <1>4, <2>1 DEF Typed
    <2>6. QED
      BY <1>2, <1>3, <2>3, <2>4, <2>5, QuietStep
  <1>7. QED
    BY <1>5, <1>6

LEMMA ReleasedControllerTyped ==
    ASSUME NEW c \in Controllers, NEW closed
    PROVE  ReleasedController(c, closed) \in Controllers /\ ReleasedController(c, closed).gen = c.gen
  BY DEF ReleasedController, Controllers

\* What a release makes of the tree: no other parent's snapshot changes.
Lifted(s, p, x, c) == [s EXCEPT !.snap[p].inFlight = x, !.ctl[p] = c]

LEMMA ReleasedParent ==
    ASSUME NEW s \in States, NEW p \in Parents, NEW x, x \in {0, s.snap[p].inFlight},
           NEW c \in Controllers, c.gen = s.ctl[p].gen
    PROVE  LET r == Lifted(s, p, x, c)
           IN  /\ r \in States
               /\ x = s.snap[p].inFlight => r.snap = s.snap
               /\ \A q \in Parents : q # p => r.snap[q] = s.snap[q]
  <1> DEFINE sn  == s.snap[p]
             nsn == [sn EXCEPT !.inFlight = x]
             r   == [s EXCEPT !.snap[p] = nsn, !.ctl[p] = c]
  <1>1. GoodSnap(sn) /\ s.ctl[p] \in Controllers /\ s.ctl[p].gen <= sn.gen /\ sn \in Snapshots
    BY StateFields
  <1>2. GoodSnap(nsn) /\ nsn.gen = sn.gen /\ nsn \in Snapshots
    <2>1. GoodSnap(nsn) /\ nsn.gen = sn.gen
      BY <1>1, ClearFlightGood
    <2>2. QED
      BY <2>1 DEF GoodSnap
  <1>3. c \in Controllers /\ c.gen = s.ctl[p].gen
    OBVIOUS
  <1>4. x = sn.inFlight => nsn = sn
    BY <1>1 DEF Snapshots
  <1> HIDE DEF nsn, sn
  <1>5. Edit(s, r, p, nsn, c)
    BY <1>2, <1>3, BothEdit
  <1>6. c.gen <= nsn.gen
    BY <1>1, <1>2, <1>3 DEF sn
  <1>7. r.snap = [s.snap EXCEPT ![p] = nsn]
    BY <1>5 DEF Edit
  <1> HIDE DEF r
  <1>8. /\ r \in States
        /\ \A q \in Parents : q # p => r.snap[q] = s.snap[q]
    <2>1. GoodSnap(nsn) /\ c \in Controllers /\ c.gen <= nsn.gen
      BY <1>2, <1>3, <1>6
    <2>2. r \in States
      BY <1>5, <2>1, Edited
    <2>3. r.snap[p] = nsn
      BY <1>5, <2>1, Edited
    <2>4. \A q \in Parents : q # p => r.snap[q] = s.snap[q]
      BY <1>5, <2>1, Edited
    <2>5. QED
      BY <2>2, <2>4
  <1>9. nsn = sn => r.snap = s.snap
    BY <1>7 DEF sn, States, Records
  <1>10. QED
    BY <1>4, <1>8, <1>9 DEF Lifted, r, nsn, sn

\* Releasing: the fence of another parent is not touched.
LEMMA ReleaseStep ==
    ASSUME IInv, NEW i \in Issues, NEW ok \in BOOLEAN, Release(i, ok)
    PROVE  IInv'
  <1> DEFINE stops  == exec[i] = "running"
             closed == i \notin view.open
             x  == IF stops /\ Blocked(i) THEN 0 ELSE mem.snap[i].inFlight
             s1 == IF i \in Parents
                   THEN [mem EXCEPT !.snap[i].inFlight = x, !.ctl[i] = ReleasedController(@, closed)]
                   ELSE mem
             sr == [s1 EXCEPT !.receipts = IF exec[i] = "done" THEN @ \cup {i} ELSE @]
             s2 == IF closed /\ Finalized(s1, i) THEN RetainTerminalChildLease(sr, i) ELSE s1
  <1>1. Typed /\ mem \in States /\ disk \in States
    BY DEF IInv, Typed
  <1>2. phase = "settle" /\ phase' \in {"idle", "settle", "dispatch"}
    BY SettledPhase DEF Release, Settling, EndTick
  <1>3. pending = {} /\ \A j \in Issues : exec[j] # "claimed"
    BY <1>2, NoClaims
  <1>4. s1 \in States /\ \A q \in Parents : q # i => s1.snap[q] = mem.snap[q]
    <2>1. x \in {0, mem.snap[i].inFlight}
      OBVIOUS
    <2> HIDE DEF x, closed
    <2>2. CASE i \in Parents
      <3> DEFINE c == ReleasedController(mem.ctl[i], closed)
                 r == Lifted(mem, i, x, c)
      <3>1. c \in Controllers /\ c.gen = mem.ctl[i].gen
        BY <1>1, <2>2, StateFields, ReleasedControllerTyped
      <3>2. s1 = r
        BY <2>2 DEF Lifted
      <3> HIDE DEF c, s1
      <3>3. r \in States /\ \A q \in Parents : q # i => r.snap[q] = mem.snap[q]
        BY <1>1, <2>1, <2>2, <3>1, ReleasedParent
      <3> HIDE DEF r
      <3>4. QED
        BY <3>2, <3>3
    <2>3. CASE i \notin Parents
      BY <1>1, <2>3
    <2>4. QED
      BY <2>2, <2>3
  <1>5. /\ mem' \in {mem, s2} /\ disk' \in {disk, mem'} /\ dirty' \in {FALSE, dirty}
        /\ live' = [live EXCEPT ![i] = IF stops THEN 0 ELSE @]
        /\ UNCHANGED <<tracker, runs>> /\ pending' \in {{}, pending}
        /\ IF ok THEN exec' = [exec EXCEPT ![i] = IF closed THEN "terminal" ELSE "parked"]
                      /\ checkout' \in {checkout, CheckoutsAfter(s2, i)}
                 ELSE UNCHANGED <<exec, checkout>> /\ mem' = mem
    BY DEF Release, SavedOrUndone, NotSaved, EndTick
  <1> HIDE DEF s1
  <1>6. SameTree(s1, sr)
    <2>1. (IF exec[i] = "done" THEN s1.receipts \cup {i} ELSE s1.receipts) \in SUBSET Issues
      BY <1>4 DEF States, Records
    <2>2. QED
      BY <1>4, <2>1, ReceiptsKeep
  <1> HIDE DEF sr
  <1>7. SameTree(s1, s2)
    <2>1. SameTree(sr, RetainTerminalChildLease(sr, i))
      BY <1>6, RetainKeeps DEF SameTree
    <2>2. QED
      BY <1>4, <1>6, <2>1, SameTreeTrans, SameTreeRefl
  <1> HIDE DEF s2
  <1>8. s2 \in States /\ \A q \in Parents : q # i => s2.snap[q] = mem.snap[q]
    BY <1>4, <1>7 DEF SameTree
  <1>9. /\ live' \in [Issues -> 0 .. 1] /\ exec' \in [Issues -> ExecStates]
        /\ dirty' \in BOOLEAN /\ mem' \in States
    <2>1. live' \in [Issues -> 0 .. 1]
      BY <1>1, <1>5 DEF Typed
    <2>2. exec' \in [Issues -> ExecStates]
      BY <1>1, <1>5 DEF Typed, ExecStates
    <2>3. dirty' \in BOOLEAN /\ mem' \in States
      BY <1>1, <1>5, <1>8 DEF Typed
    <2>4. QED
      BY <2>1, <2>2, <2>3
  <1>10. checkout' \subseteq Leaves
    BY <1>1, <1>5 DEF Typed, CheckoutsAfter
  <1>11. pending' = pending
    BY <1>3, <1>5
  <1>12. \A j \in Issues : /\ live'[j] # 0 => live[j] # 0 /\ (exec[j] = "running" => exec'[j] = "running")
                           /\ exec'[j] # "claimed"
                           /\ exec'[j] = "running" => exec[j] = "running"
    BY <1>1, <1>3, <1>5 DEF Typed
  <1>13. ASSUME NEW p \in Parents, exec'[p] = "running", Bound(mem.snap[p])
         PROVE  Bound(mem'.snap[p])
    <2>1. CASE p = i /\ ok
      BY <1>1, <1>5, <1>13, <2>1 DEF Typed, Issues
    <2>2. CASE ~(p = i /\ ok)
      BY <1>5, <1>8, <1>13, <2>2
    <2>3. QED
      BY <2>1, <2>2
  <1>14. QED
    BY <1>2, <1>5, <1>9, <1>10, <1>11, <1>12, <1>13, QuietStep

\* Outcomes of runs.
LEMMA FinishLeafStep ==
    ASSUME IInv, NEW i \in Leaves, NEW ok \in BOOLEAN, FinishLeaf(i, ok)
    PROVE  IInv'
  <1> DEFINE closed == i \notin open
             kept   == [RetainTerminalChildLease(mem, i) EXCEPT !.receipts = @ \cup {i}]
             s1     == Rebound(IF closed THEN kept ELSE mem, i)
  <1>1. Typed /\ mem \in States /\ i \in Issues
    BY DEF IInv, Typed, Issues
  <1>2. /\ phase = "idle" /\ phase' = phase /\ live[i] = 0
        /\ mem' \in {mem, s1} /\ disk' \in {disk, mem'} /\ dirty' \in {FALSE, dirty}
        /\ UNCHANGED <<tracker, runs, live, pending>>
        /\ checkout' \in {checkout, CheckoutsAfter(s1, i)}
        /\ \/ exec' = exec
           \/ exec' = [exec EXCEPT ![i] = IF closed THEN "terminal" ELSE "retry"]
    BY DEF FinishLeaf, SavedOrUndone, NotSaved
  <1>3. pending = {} /\ \A j \in Issues : exec[j] # "claimed"
    BY <1>2, NoClaims
  <1>4. SameTree(mem, kept)
    <2>1. SameTree(mem, RetainTerminalChildLease(mem, i))
      BY <1>1, RetainKeeps
    <2>2. RetainTerminalChildLease(mem, i) \in States
      BY <2>1 DEF SameTree
    <2>3. RetainTerminalChildLease(mem, i).receipts \cup {i} \in SUBSET Issues
      BY <1>1, <2>2 DEF States, Records
    <2>4. SameTree(RetainTerminalChildLease(mem, i), kept)
      BY <2>2, <2>3, ReceiptsKeep
    <2>5. QED
      BY <2>1, <2>4, SameTreeTrans
  <1> HIDE DEF kept
  <1>5. SameTree(mem, s1)
    <2>1. SameTree(mem, IF closed THEN kept ELSE mem)
      BY <1>1, <1>4, SameTreeRefl
    <2>2. SameTree(IF closed THEN kept ELSE mem, s1)
      BY <1>1, <2>1, ReboundKeeps DEF SameTree
    <2>3. QED
      BY <2>1, <2>2, SameTreeTrans
  <1> HIDE DEF s1
  <1>6. mem' \in States /\ mem'.snap = mem.snap
    BY <1>1, <1>2, <1>5 DEF SameTree
  <1>7. checkout' \subseteq Leaves
    BY <1>1, <1>2 DEF Typed, CheckoutsAfter
  <1>8. live' \in [Issues -> 0 .. 1] /\ exec' \in [Issues -> ExecStates] /\ dirty' \in BOOLEAN
    BY <1>1, <1>2 DEF Typed, ExecStates
  <1>9. \A j \in Issues : /\ live'[j] # 0 => live[j] # 0 /\ (exec[j] = "running" => exec'[j] = "running")
                          /\ exec'[j] # "claimed"
                          /\ exec'[j] = "running" => exec[j] = "running"
    BY <1>1, <1>2, <1>3 DEF Typed
  <1>10. QED
    BY <1>2, <1>6, <1>7, <1>8, <1>9, QuietStep

LEMMA FinishParentStep ==
    ASSUME IInv, NEW p \in Parents, NEW outcome \in {"pass", "repair", "fail"}, NEW ok \in BOOLEAN,
           FinishParent(p, outcome, ok)
    PROVE  IInv'
  <1> DEFINE closed == p \notin open
             st == CASE outcome = "pass"   -> IF closed THEN "completed" ELSE "passed"
                     [] outcome = "repair" -> "fixing"
                     [] outcome = "fail"   -> "retry"
             s1 == [mem EXCEPT !.ctl[p].st = st]
             s2 == IF closed /\ Finalized(s1, p) THEN [s1 EXCEPT !.receipts = @ \cup {p}] ELSE s1
             s3 == Rebound(s2, p)
  <1>1. Typed /\ mem \in States /\ p \in Issues
    BY DEF IInv, Typed, Issues
  <1>2. /\ phase = "idle" /\ phase' = phase /\ live[p] = 0
        /\ mem' \in {mem, s3} /\ disk' \in {disk, mem'} /\ dirty' \in {FALSE, dirty}
        /\ UNCHANGED <<tracker, runs, live, checkout, pending>>
        /\ \/ exec' = exec
           \/ exec' = [exec EXCEPT ![p] = IF closed THEN "terminal"
                                          ELSE IF st = "retry" THEN "retry" ELSE "done"]
    BY DEF FinishParent, SavedOrUndone, world
  <1>3. pending = {} /\ \A j \in Issues : exec[j] # "claimed"
    BY <1>2, NoClaims
  <1>4. st \in CtlStates
    BY DEF CtlStates
  <1> HIDE DEF st
  <1>5. s1 \in States /\ s1.snap = mem.snap
    BY <1>1, <1>4, CtlState
  <1> HIDE DEF s1
  <1>6. SameTree(s1, s2)
    <2>1. s1.receipts \cup {p} \in SUBSET Issues
      BY <1>1, <1>5 DEF States, Records
    <2>2. SameTree(s1, [s1 EXCEPT !.receipts = s1.receipts \cup {p}])
      BY <1>5, <2>1, ReceiptsKeep
    <2>3. QED
      BY <1>5, <2>2, SameTreeRefl
  <1> HIDE DEF s2
  <1>7. SameTree(s2, s3)
    BY <1>1, <1>6, ReboundKeeps DEF SameTree
  <1> HIDE DEF s3
  <1>8. mem' \in States /\ mem'.snap = mem.snap
    BY <1>1, <1>2, <1>5, <1>6, <1>7 DEF SameTree
  <1>9. /\ live' \in [Issues -> 0 .. 1] /\ exec' \in [Issues -> ExecStates] /\ dirty' \in BOOLEAN
        /\ checkout' \subseteq Leaves
    BY <1>1, <1>2 DEF Typed, ExecStates
  <1>10. \A j \in Issues : /\ live'[j] # 0 => live[j] # 0 /\ (exec[j] = "running" => exec'[j] = "running")
                           /\ exec'[j] # "claimed"
                           /\ exec'[j] = "running" => exec[j] = "running"
    BY <1>1, <1>2, <1>3 DEF Typed
  <1>11. QED
    BY <1>2, <1>8, <1>9, <1>10, QuietStep

LEMMA RepairMergedStep ==
    ASSUME IInv, NEW p \in Parents, RepairMerged(p)
    PROVE  IInv'
  <1>1. Typed /\ mem \in States /\ p \in Issues
    BY DEF IInv, Typed, Issues
  <1>2. /\ phase = "idle" /\ phase' = phase /\ exec[p] = "done"
        /\ exec' = [exec EXCEPT ![p] = "retry"]
        /\ mem' = [mem EXCEPT !.ctl[p].st = "retry"] /\ disk' = mem' /\ dirty' = FALSE
        /\ UNCHANGED <<tracker, runs, live, checkout, pending>>
    BY DEF RepairMerged, SavedOrUndone, world
  <1>3. pending = {} /\ \A j \in Issues : exec[j] # "claimed"
    BY <1>2, NoClaims
  <1>4. mem' \in States /\ mem'.snap = mem.snap
    <2>1. "retry" \in CtlStates
      BY DEF CtlStates
    <2>2. QED
      BY <1>1, <1>2, <2>1, CtlState
  <1>5. /\ live' \in [Issues -> 0 .. 1] /\ exec' \in [Issues -> ExecStates] /\ dirty' \in BOOLEAN
        /\ checkout' \subseteq Leaves
    BY <1>1, <1>2 DEF Typed, ExecStates
  <1>6. \A j \in Issues : /\ live'[j] # 0 => live[j] # 0 /\ (exec[j] = "running" => exec'[j] = "running")
                          /\ exec'[j] # "claimed"
                          /\ exec'[j] = "running" => exec[j] = "running"
    BY <1>1, <1>2, <1>3 DEF Typed
  <1>7. QED
    BY <1>2, <1>4, <1>5, <1>6, QuietStep

\* The operator and the cleanup.
LEMMA ReplanStep ==
    ASSUME IInv, NEW p \in Parents, NEW ok \in BOOLEAN, Replan(p, ok)
    PROVE  IInv'
  <1> DEFINE sn == mem.snap[p]
             s0 == [mem EXCEPT !.snap[p] = Replanned(@)]
             s1 == Rebind(s0, "ancestor", {p}, sn.gen)
             s2 == IF mem.ctl[p].gen = sn.gen THEN s1 ELSE [s1 EXCEPT !.ctl[p] = NewController(sn.gen)]
             x2 == Reopened(mem, s2, exec)
  <1>1. Typed /\ mem \in States /\ p \in Issues
    BY DEF IInv, Typed, Issues
  <1>2. /\ phase = "idle" /\ phase' = phase /\ exec[p] # "running" /\ sn.known
        /\ mem' \in {mem, s2} /\ disk' \in {disk, mem'} /\ dirty' \in {FALSE, dirty}
        /\ UNCHANGED <<tracker, runs, live, checkout, pending>>
        /\ exec' \in {exec, x2}
    BY DEF Replan, SavedOrUndone, world
  <1>3. pending = {} /\ \A j \in Issues : exec[j] # "claimed"
    BY <1>2, NoClaims
  <1>4. GoodSnap(sn) /\ mem.ctl[p] \in Controllers /\ mem.ctl[p].gen <= sn.gen /\ sn.gen \in Nat
    BY <1>1, StateFields
  <1>5. GoodSnap(Replanned(sn)) /\ Replanned(sn).gen = sn.gen /\ Replanned(sn) \in Snapshots
    <2>1. GoodSnap(Replanned(sn)) /\ Replanned(sn).gen = sn.gen
      BY <1>2, <1>4, ReplannedGood
    <2>2. QED
      BY <2>1 DEF GoodSnap
  <1>6. Edit(mem, s0, p, Replanned(sn), mem.ctl[p])
    BY <1>1, <1>5, SnapEdit
  <1> HIDE DEF s0
  <1>7. /\ s0 \in States /\ s0.snap[p] = Replanned(sn)
        /\ \A q \in Parents : q # p => s0.snap[q] = mem.snap[q]
    BY <1>1, <1>4, <1>5, <1>6, Edited
  <1>8. SameTree(s0, s1)
    BY <1>4, <1>7, RebindKeeps
  <1> HIDE DEF s1
  <1>9. s1 \in States /\ s1.snap = s0.snap
    BY <1>8 DEF SameTree
  <1>10. s2 \in States /\ s2.snap = s0.snap
    <2>1. NewController(sn.gen) \in Controllers /\ NewController(sn.gen).gen = sn.gen
      BY <1>4, NewControllerTyped
    <2>2. NewController(sn.gen).gen <= s1.snap[p].gen
      BY <1>4, <1>5, <1>7, <1>9, <2>1
    <2>3. LET r == [s1 EXCEPT !.ctl[p] = NewController(sn.gen)] IN r \in States /\ r.snap = s1.snap
      BY <1>9, <2>1, <2>2, CtlOnly
    <2>4. QED
      BY <1>9, <2>3
  <1> HIDE DEF s2
  <1>11. mem' \in States
    BY <1>1, <1>2, <1>10
  <1>12. /\ x2 \in [Issues -> ExecStates]
         /\ \A i \in Issues : x2[i] = exec[i] \/ (exec[i] = "done" /\ x2[i] = "unclaimed")
    BY <1>1, ReopenedExec DEF Typed
  <1> HIDE DEF x2
  <1>13. /\ live' \in [Issues -> 0 .. 1] /\ exec' \in [Issues -> ExecStates] /\ dirty' \in BOOLEAN
         /\ checkout' \subseteq Leaves
    BY <1>1, <1>2, <1>12 DEF Typed
  <1>14. \A j \in Issues : /\ live'[j] # 0 => live[j] # 0 /\ (exec[j] = "running" => exec'[j] = "running")
                           /\ exec'[j] # "claimed"
                           /\ exec'[j] = "running" => exec[j] = "running"
    BY <1>2, <1>3, <1>12
  <1>15. ASSUME NEW q \in Parents, exec'[q] = "running", Bound(mem.snap[q])
         PROVE  Bound(mem'.snap[q])
    <2>1. q # p
      BY <1>1, <1>2, <1>14, <1>15 DEF Issues
    <2>2. QED
      BY <1>2, <1>7, <1>10, <1>15, <2>1
  <1>16. QED
    BY <1>2, <1>11, <1>13, <1>14, <1>15, QuietStep

LEMMA CaptureStep ==
    ASSUME IInv, NEW p \in Parents, NEW ok \in BOOLEAN, Capture(p, ok)
    PROVE  IInv'
  <1> DEFINE held == {l.res : l \in {k \in mem.leases : k.kind = "ancestor" /\ k.owner = p
                                                        /\ k.gen = mem.ctl[p].gen}}
             c == [mem.ctl[p] EXCEPT !.cleanup = "pending", !.targets = held]
             s == [mem EXCEPT !.ctl[p] = c]
  <1>1. Typed /\ mem \in States
    BY DEF IInv, Typed
  <1>2. /\ phase = "idle" /\ phase' = phase
        /\ mem' \in {mem, s} /\ disk' \in {disk, mem'} /\ dirty' \in {FALSE, dirty}
        /\ UNCHANGED <<tracker, runs, live, checkout, exec, pending>>
    BY DEF Capture, SavedOrUndone, world
  <1>3. pending = {} /\ \A j \in Issues : exec[j] # "claimed"
    BY <1>2, NoClaims
  <1>4. held \subseteq Leaves
    BY <1>1 DEF States, Records, Leases
  <1>5. mem.ctl[p] \in Controllers /\ mem.ctl[p].gen <= mem.snap[p].gen
    BY <1>1, StateFields
  <1> HIDE DEF held
  <1>6. c \in Controllers /\ c.gen = mem.ctl[p].gen
    BY <1>4, <1>5 DEF Controllers
  <1> HIDE DEF c
  <1>7. s \in States /\ s.snap = mem.snap
    BY <1>1, <1>5, <1>6, CtlOnly
  <1> HIDE DEF s
  <1>8. mem' \in States /\ mem'.snap = mem.snap
    BY <1>1, <1>2, <1>7
  <1>9. /\ live' \in [Issues -> 0 .. 1] /\ exec' \in [Issues -> ExecStates] /\ dirty' \in BOOLEAN
        /\ checkout' \subseteq Leaves
    BY <1>1, <1>2 DEF Typed
  <1>10. QED
    BY <1>2, <1>3, <1>8, <1>9, QuietStep

LEMMA CleanUpStep ==
    ASSUME IInv, NEW p \in Parents, NEW ok \in BOOLEAN, CleanUp(p, ok)
    PROVE  IInv'
  <1> DEFINE s1   == ReleaseParentResources(mem, p, mem.ctl[p].targets)
             busy == {r \in mem.ctl[p].targets :
                         Held(s1, r) \/ r \in open \/ exec[r] \in {"running", "retry"}}
             c    == [s1.ctl[p] EXCEPT !.targets = busy,
                                       !.cleanup = IF busy = {} THEN "done" ELSE "pending"]
             s2   == [s1 EXCEPT !.ctl[p] = c]
  <1>1. Typed /\ mem \in States
    BY DEF IInv, Typed
  <1>2. /\ phase = "idle" /\ phase' = phase
        /\ mem' \in {mem, s2} /\ disk' \in {disk, mem'} /\ dirty' \in {FALSE, dirty}
        /\ UNCHANGED <<tracker, runs, live, exec, pending>>
        /\ checkout' \in {checkout, checkout \ (mem.ctl[p].targets \ busy)}
    BY DEF CleanUp, SavedOrUndone
  <1>3. pending = {} /\ \A j \in Issues : exec[j] # "claimed"
    BY <1>2, NoClaims
  <1>4. SameTree(mem, s1)
    BY <1>1, ReleasesKeep
  <1>5. s1 \in States /\ s1.snap = mem.snap /\ s1.ctl = mem.ctl
    BY <1>4 DEF SameTree
  <1>6. mem.ctl[p] \in Controllers /\ mem.ctl[p].gen <= mem.snap[p].gen
    BY <1>1, StateFields
  <1> HIDE DEF s1
  <1>7. c \in Controllers /\ c.gen = mem.ctl[p].gen
    <2>1. busy \subseteq Leaves
      BY <1>6 DEF Controllers
    <2> HIDE DEF busy
    <2>2. QED
      BY <1>5, <1>6, <2>1 DEF Controllers
  <1>8. checkout' \subseteq Leaves
    BY <1>1, <1>2 DEF Typed
  <1> HIDE DEF c
  <1>9. s2 \in States /\ s2.snap = mem.snap
    BY <1>5, <1>6, <1>7, CtlOnly
  <1> HIDE DEF s2
  <1>10. mem' \in States /\ mem'.snap = mem.snap
    BY <1>1, <1>2, <1>9
  <1>11. live' \in [Issues -> 0 .. 1] /\ exec' \in [Issues -> ExecStates] /\ dirty' \in BOOLEAN
    BY <1>1, <1>2 DEF Typed
  <1>12. QED
    BY <1>2, <1>3, <1>8, <1>10, <1>11, QuietStep

-----------------------------------------------------------------------------
(* The dispatch pass. *)

\* `C` is claimed, what is announced or running stays as it is.
LEMMA DispatchStep ==
    ASSUME IInv, phase = "dispatch", phase' = phase, UNCHANGED <<tracker, runs, live>>,
           checkout' \subseteq Leaves, dirty' \in BOOLEAN, exec' \in [Issues -> ExecStates],
           mem' \in States, disk' \in {disk, mem'},
           \A q \in Parents : exec[q] \in {"claimed", "running"} =>
               mem'.snap[q] = mem.snap[q] /\ mem'.ctl[q] = mem.ctl[q],
           NEW C \in SUBSET Issues, pending' = pending \cup C,
           \A j \in Issues :
               IF j \in C THEN /\ exec[j] \in {"unclaimed", "retry"} /\ exec'[j] = "claimed"
                               /\ runs[j] < MaxRuns
               ELSE exec'[j] = exec[j],
           \A q \in Parents \cap C :
               /\ Announced(mem'.snap[q]) /\ disk' = mem'
               /\ \A l \in mem'.snap[q].scope \cap Leaves :
                      /\ mem'.ctl[q].input[l] # 0 /\ mem'.ctl[q].input[l] = runs[l]
                      /\ exec[l] \notin {"unclaimed", "retry", "claimed", "running"}
    PROVE  IInv'
  <1>0. Typed
    BY DEF IInv
  <1>1. Typed'
    BY <1>0 DEF Typed, tracker
  <1>2. ASSUME NEW i \in Issues PROVE RunKnown(i)' /\ ClaimKnown(i)'
    <2>1. RunKnown(i) /\ ClaimKnown(i)
      BY DEF IInv
    <2>2. CASE i \in C
      BY <2>1, <2>2 DEF RunKnown, ClaimKnown
    <2>3. CASE i \notin C
      BY <2>1, <2>3 DEF RunKnown, ClaimKnown
    <2>4. QED
      BY <2>2, <2>3
  <1>3. ASSUME NEW l \in Leaves PROVE MergeKnown(l)'
    BY DEF IInv, MergeKnown, tracker
  <1>4. ASSUME NEW p \in Parents PROVE FenceKnown(p)' /\ FreshKnown(p)'
    <2>1. FenceKnown(p) /\ FreshKnown(p) /\ ClaimKnown(p) /\ p \in Issues
      BY DEF IInv, Issues
    <2>2. CASE p \in C
      <3>1. exec'[p] = "claimed" /\ Announced(mem'.snap[p]) /\ disk' = mem'
        BY <2>1, <2>2
      <3>2. Backed(disk'.snap[p])
        BY <3>1, BoundIsBacked
      <3>3. FenceKnown(p)'
        BY <3>1, <3>2 DEF FenceKnown
      <3>4. ASSUME NEW l \in mem'.snap[p].scope \cap Leaves PROVE LeafFresh(p, l)'
        <4>1. /\ mem'.ctl[p].input[l] # 0 /\ mem'.ctl[p].input[l] = runs[l]
              /\ exec[l] \notin {"unclaimed", "retry", "claimed", "running"}
          BY <2>2, <3>4
        <4>2. l \in Issues /\ l \notin C
          BY <4>1 DEF Issues
        <4>3. exec'[l] = exec[l] /\ runs' = runs
          BY <4>2
        <4>4. QED
          BY <4>1, <4>3 DEF LeafFresh
      <3>5. QED
        BY <3>3, <3>4 DEF FreshKnown
    <2>3. CASE p \notin C
      <3>1. exec'[p] = exec[p]
        BY <2>1, <2>3
      <3>2. exec[p] \in {"claimed", "running"} => Backed(disk'.snap[p])
        BY <2>1, BoundIsBacked DEF FenceKnown
      <3>3. FenceKnown(p)'
        BY <2>1, <3>1, <3>2 DEF FenceKnown
      <3>4. CASE p \in pending
        <4>1. exec[p] = "claimed"
          BY <2>1, <3>4 DEF ClaimKnown
        <4>2. mem'.snap[p] = mem.snap[p] /\ mem'.ctl[p] = mem.ctl[p]
          BY <4>1
        <4>3. ASSUME NEW l \in mem'.snap[p].scope \cap Leaves PROVE LeafFresh(p, l)'
          <5>1. LeafFresh(p, l)
            BY <2>1, <3>4, <4>2, <4>3 DEF FreshKnown
          <5>2. l \in Issues /\ l \notin C
            BY <5>1 DEF LeafFresh, Issues
          <5>3. exec'[l] = exec[l] /\ runs' = runs
            BY <5>2
          <5>4. QED
            BY <4>2, <5>1, <5>3 DEF LeafFresh
        <4>4. QED
          BY <3>3, <4>3 DEF FreshKnown
      <3>5. CASE p \notin pending
        BY <2>3, <3>3, <3>5 DEF FreshKnown
      <3>6. QED
        BY <3>4, <3>5
    <2>4. QED
      BY <2>2, <2>3
  <1>5. QED
    BY <1>1, <1>2, <1>3, <1>4 DEF IInv

LEMMA NoClaimStep ==
    ASSUME IInv, phase = "dispatch", phase' = phase, UNCHANGED <<tracker, runs, live, exec, pending>>,
           checkout' \subseteq Leaves, dirty' \in BOOLEAN, mem' \in States, disk' \in {disk, mem'},
           \A q \in Parents : exec[q] \in {"claimed", "running"} =>
               mem'.snap[q] = mem.snap[q] /\ mem'.ctl[q] = mem.ctl[q]
    PROVE  IInv'
  <1> DEFINE C == {}
  <1>1. C \in SUBSET Issues /\ pending' = pending \cup C
    OBVIOUS
  <1>2. (\A q \in Parents : q \notin C) /\ (\A j \in Issues : j \notin C)
    OBVIOUS
  <1>3. exec' = exec /\ exec' \in [Issues -> ExecStates]
    BY DEF IInv, Typed
  <1> HIDE DEF C
  <1>4. QED
    BY <1>1, <1>2, <1>3, DispatchStep

\* What a parent is admitted with: the last run of each of its leaves, over and merged.
LEMMA EligibleIsFresh ==
    ASSUME IInv, NEW p \in Parents, NEW retry, Eligible(mem, p, retry),
           NEW l \in mem.snap[p].scope \cap Leaves
    PROVE  /\ Input(mem, p)[l] # 0 /\ Input(mem, p)[l] = runs[l]
           /\ exec[l] \notin {"unclaimed", "retry", "claimed", "running"}
  <1>1. l \in mem.snap[p].scope /\ l \in Leaves /\ MergeRequired(l)
    BY DEF MergeRequired
  <1>2. ChildTerminal(mem, l) /\ MergeFresh(l)
    BY <1>1 DEF Eligible
  <1>3. merged[l] # 0 /\ merged[l] >= runs[l]
    BY <1>1, <1>2 DEF MergeFresh
  <1>4. Input(mem, p)[l] = merged[l]
    <2>1. \E c \in mem.snap[p].scope : l \in Below(c) \cup {c}
      BY <1>1
    <2>2. QED
      BY <1>1, <2>1 DEF Input
  <1>5. merged[l] <= runs[l] /\ merged[l] \in Nat /\ runs[l] \in Nat
    BY <1>1, HierarchyAssumption DEF IInv, Typed, MergeKnown, Issues
  <1>6. exec[l] \notin {"unclaimed", "retry", "claimed", "running"}
    BY <1>2 DEF ChildTerminal
  <1>7. QED
    BY <1>3, <1>4, <1>5, <1>6

LEMMA SkipStep ==
    ASSUME IInv, NEW i \in Issues, Skip(i)
    PROVE  IInv'
  <1>1. Typed /\ mem \in States
    BY DEF IInv, Typed
  <1>2. /\ phase = "dispatch" /\ phase' = phase /\ UNCHANGED <<tracker, runs, live, checkout, exec, pending>>
        /\ mem' \in {mem, Examined(mem, i)} /\ disk' \in {disk, mem'} /\ dirty' \in {FALSE, dirty}
    BY DEF Skip, Dispatching, Next1, SavedOrUndone, NotSaved, world
  <1>3. SameTree(mem, mem')
    BY <1>1, <1>2, SameTreeRefl, ExaminedKeeps
  <1>4. mem' \in States /\ mem'.snap = mem.snap /\ mem'.ctl = mem.ctl
    BY <1>3 DEF SameTree
  <1>5. checkout' \subseteq Leaves /\ dirty' \in BOOLEAN
    BY <1>1, <1>2 DEF Typed
  <1>6. QED
    BY <1>2, <1>4, <1>5, NoClaimStep

LEMMA PrepareLeafStep ==
    ASSUME IInv, NEW i \in Leaves, PrepareLeaf(i)
    PROVE  IInv'
  <1>1. Typed /\ mem \in States /\ i \in Issues /\ i \notin Parents
    BY HierarchyAssumption DEF IInv, Typed, Issues
  <1>2. /\ phase = "dispatch" /\ phase' = phase /\ UNCHANGED <<tracker, runs, live>>
        /\ mem' \in {mem, Stamped(mem, i)} /\ disk' \in {disk, mem'} /\ dirty' \in {FALSE, dirty}
        /\ exec[i] \in {"unclaimed", "retry"} /\ runs[i] < MaxRuns
        /\ exec' = [exec EXCEPT ![i] = "claimed"] /\ pending' = pending \cup {i}
        /\ checkout' = checkout \cup {i}
    BY DEF PrepareLeaf, Dispatching, Ready, Claimed, Next1, SavedOrUndone, NotSaved
  <1>3. SameTree(mem, mem')
    BY <1>1, <1>2, SameTreeRefl, StampedKeeps
  <1>4. mem' \in States /\ mem'.snap = mem.snap /\ mem'.ctl = mem.ctl
    BY <1>3 DEF SameTree
  <1>5. checkout' \subseteq Leaves /\ dirty' \in BOOLEAN
    BY <1>1, <1>2 DEF Typed
  <1>6. exec' \in [Issues -> ExecStates]
    BY <1>1, <1>2 DEF Typed, ExecStates
  <1>7. \A j \in Issues :
               IF j \in {i} THEN /\ exec[j] \in {"unclaimed", "retry"} /\ exec'[j] = "claimed"
                                 /\ runs[j] < MaxRuns
               ELSE exec'[j] = exec[j]
    BY <1>1, <1>2 DEF Typed
  <1>8. {i} \in SUBSET Issues /\ \A q \in Parents : q \notin {i}
    BY <1>1
  <1>9. QED
    BY <1>2, <1>4, <1>5, <1>6, <1>7, <1>8, DispatchStep

\* Preparing a parent announces it, durably, with the merges it was found eligible on.
LEMMA PrepareParentStep ==
    ASSUME IInv, NEW p \in Parents, PrepareParent(p)
    PROVE  IInv'
  <1> DEFINE a  == Admitted(mem, p)
             s1 == Stamped(a, p)
             s2 == [s1 EXCEPT !.ctl[p].st = "integrating"]
  <1>1. Typed /\ mem \in States /\ p \in Issues
    BY DEF IInv, Typed, Issues
  <1>2. /\ phase = "dispatch" /\ phase' = phase /\ UNCHANGED <<tracker, runs, live, checkout>>
        /\ mem' = s2 /\ disk' = mem' /\ dirty' = FALSE
        /\ exec[p] \in {"unclaimed", "retry"} /\ runs[p] < MaxRuns
        /\ exec' = [exec EXCEPT ![p] = "claimed"] /\ pending' = pending \cup {p}
        /\ Eligible(mem, p, exec[p] = "retry") /\ ~AdmissionConflict(mem, p)
    BY DEF PrepareParent, Dispatching, Ready, Claimed, Next1, SavedOrUndone, world
  <1>3. mem.snap[p].known
    BY <1>2 DEF Eligible, Examines
  <1>4. /\ a \in States
        /\ a.snap[p].known /\ a.snap[p].frozen /\ a.snap[p].intent # 0
        /\ a.snap[p].scope = mem.snap[p].scope
        /\ a.ctl[p].input = Input(mem, p)
        /\ \A q \in Parents : q # p => a.snap[q] = mem.snap[q] /\ a.ctl[q] = mem.ctl[q]
    BY <1>1, <1>2, <1>3, AdmittedResult DEF Typed
  <1> HIDE DEF a
  <1>5. SameTree(a, s1)
    BY <1>1, <1>4, StampedKeeps
  <1>6. s1 \in States /\ s1.snap = a.snap /\ s1.ctl = a.ctl
    BY <1>5 DEF SameTree
  <1> HIDE DEF s1
  <1>7. /\ s2 \in States /\ s2.snap = s1.snap /\ s2.ctl[p].input = s1.ctl[p].input
        /\ \A q \in Parents : q # p => s2.ctl[q] = s1.ctl[q]
    <2>1. "integrating" \in CtlStates
      BY DEF CtlStates
    <2>2. QED
      BY <1>6, <2>1, CtlState
  <1> HIDE DEF s2
  <1>8. /\ mem' \in States /\ disk' = mem' /\ Announced(mem'.snap[p])
        /\ mem'.snap[p].scope = mem.snap[p].scope /\ mem'.ctl[p].input = Input(mem, p)
        /\ \A q \in Parents : q # p => mem'.snap[q] = mem.snap[q] /\ mem'.ctl[q] = mem.ctl[q]
    BY <1>2, <1>4, <1>6, <1>7 DEF Announced
  <1>9. \A l \in mem'.snap[p].scope \cap Leaves :
            /\ mem'.ctl[p].input[l] # 0 /\ mem'.ctl[p].input[l] = runs[l]
            /\ exec[l] \notin {"unclaimed", "retry", "claimed", "running"}
    BY <1>2, <1>8, EligibleIsFresh
  <1>10. checkout' \subseteq Leaves /\ dirty' \in BOOLEAN
    BY <1>1, <1>2 DEF Typed
  <1>11. exec' \in [Issues -> ExecStates]
    BY <1>1, <1>2 DEF Typed, ExecStates
  <1>12. \A j \in Issues :
               IF j \in {p} THEN /\ exec[j] \in {"unclaimed", "retry"} /\ exec'[j] = "claimed"
                                 /\ runs[j] < MaxRuns
               ELSE exec'[j] = exec[j]
    BY <1>1, <1>2 DEF Typed
  <1>13. \A q \in Parents : exec[q] \in {"claimed", "running"} =>
               mem'.snap[q] = mem.snap[q] /\ mem'.ctl[q] = mem.ctl[q]
    BY <1>2, <1>8
  <1>14. \A q \in Parents \cap {p} :
               /\ Announced(mem'.snap[q]) /\ disk' = mem'
               /\ \A l \in mem'.snap[q].scope \cap Leaves :
                      /\ mem'.ctl[q].input[l] # 0 /\ mem'.ctl[q].input[l] = runs[l]
                      /\ exec[l] \notin {"unclaimed", "retry", "claimed", "running"}
    BY <1>8, <1>9
  <1>15. {p} \in SUBSET Issues
    BY <1>1
  <1>16. QED
    BY <1>2, <1>8, <1>10, <1>11, <1>12, <1>13, <1>14, <1>15, DispatchStep

\* A failed preparation takes the announcement back.
LEMMA PreparationFailsStep ==
    ASSUME IInv, NEW i \in Issues, PreparationFails(i)
    PROVE  IInv'
  <1>1. Typed /\ mem \in States
    BY DEF IInv, Typed
  <1>2. /\ phase = "dispatch" /\ phase' = phase
        /\ UNCHANGED <<tracker, runs, live, checkout, exec, pending>>
        /\ exec[i] \in {"unclaimed", "retry"}
    BY DEF PreparationFails, Dispatching, Ready, Next1, world
  <1>3. checkout' \subseteq Leaves
    BY <1>1, <1>2 DEF Typed
  <1>4. CASE i \in Leaves
    <2>1. UNCHANGED <<mem, disk, dirty>>
      BY <1>4 DEF PreparationFails
    <2>2. mem' \in States /\ dirty' \in BOOLEAN
      BY <1>1, <2>1 DEF Typed
    <2>3. disk' \in {disk, mem'} /\ UNCHANGED <<tracker, runs, live, exec, pending>>
          /\ \A q \in Parents : mem'.snap[q] = mem.snap[q] /\ mem'.ctl[q] = mem.ctl[q]
      BY <1>2, <2>1
    <2>4. QED
      BY <1>2, <1>3, <2>2, <2>3, NoClaimStep
  <1>5. CASE i \notin Leaves
    <2> DEFINE a == Admitted(mem, i)
    <2>1. /\ mem' = [a EXCEPT !.snap[i].intent = 0] /\ disk' = mem' /\ dirty' = FALSE
          /\ Eligible(mem, i, exec[i] = "retry")
      BY <1>5 DEF PreparationFails
    <2>2. mem.snap[i].known /\ i \in Parents
      BY <1>5, <2>1 DEF Eligible, Examines, Issues
    <2>3. /\ a \in States /\ a.snap[i].known
          /\ \A q \in Parents : q # i => a.snap[q] = mem.snap[q] /\ a.ctl[q] = mem.ctl[q]
      BY <1>1, <2>2, AdmittedResult DEF Typed
    <2> HIDE DEF a
    <2>4. /\ mem' \in States /\ mem'.ctl = a.ctl
          /\ \A q \in Parents : q # i => mem'.snap[q] = a.snap[q]
      BY <2>1, <2>2, <2>3, ClearIntentResult
    <2>5. \A q \in Parents : exec[q] \in {"claimed", "running"} =>
               mem'.snap[q] = mem.snap[q] /\ mem'.ctl[q] = mem.ctl[q]
      BY <1>2, <2>3, <2>4
    <2>6. QED
      BY <1>2, <1>3, <2>1, <2>4, <2>5, NoClaimStep
  <1>6. QED
    BY <1>4, <1>5

\* The invariant is about the state the daemon and its runs have, not the tracker's.
LEMMA TrackerStep ==
    ASSUME IInv, UNCHANGED <<merged, runs, live, checkout, scheduler>>,
           scope' \in [Parents -> SUBSET Issues], open' \subseteq Issues
    PROVE  IInv'
  <1>1. UNCHANGED <<merged, runs, live, checkout, exec, mem, disk, dirty, phase, pending>>
    BY DEF scheduler
  <1>2. Typed'
    BY <1>1 DEF IInv, Typed
  <1>3. ASSUME NEW i \in Issues PROVE RunKnown(i)' /\ ClaimKnown(i)'
    BY <1>1 DEF IInv, RunKnown, ClaimKnown
  <1>4. ASSUME NEW l \in Leaves PROVE MergeKnown(l)'
    BY <1>1 DEF IInv, MergeKnown
  <1>5. ASSUME NEW p \in Parents PROVE FenceKnown(p)' /\ FreshKnown(p)'
    BY <1>1 DEF IInv, FenceKnown, FreshKnown, LeafFresh
  <1>6. QED
    BY <1>2, <1>3, <1>4, <1>5 DEF IInv

\* The tracker, the provider and the ends of runs.
LEMMA WorldStep ==
    ASSUME IInv, World
    PROVE  IInv'
  <1>0. Typed
    BY DEF IInv
  <1>1. ASSUME NEW p \in Parents, NEW S \in SUBSET Leaves,
               TrackerRescopes(p, S \cup (scope[p] \cap Parents))
        PROVE  IInv'
    <2>1. UNCHANGED <<merged, runs, live, checkout, scheduler>> /\ open' = open
          /\ scope' = [q \in Parents |-> IF q = p THEN S \cup (scope[p] \cap Parents)
                                         ELSE scope[q] \ (S \cup (scope[p] \cap Parents))]
      BY <1>1 DEF TrackerRescopes
    <2>2. scope \in [Parents -> SUBSET Issues] /\ open \subseteq Issues
      BY <1>0 DEF Typed
    <2>3. scope' \in [Parents -> SUBSET Issues]
      BY <2>1, <2>2 DEF Issues
    <2>4. QED
      BY <2>1, <2>2, <2>3, TrackerStep
  <1>2. ASSUME NEW i \in Issues, TrackerCloses(i) \/ TrackerReopens(i)
        PROVE  IInv'
    <2>1. UNCHANGED <<merged, runs, live, checkout, scheduler>> /\ scope' = scope
          /\ open' \in {open \ {i}, open \cup {i}}
      BY <1>2 DEF TrackerCloses, TrackerReopens
    <2>2. scope \in [Parents -> SUBSET Issues] /\ open \subseteq Issues
      BY <1>0 DEF Typed
    <2>3. scope' \in [Parents -> SUBSET Issues] /\ open' \subseteq Issues
      BY <2>1, <2>2
    <2>4. QED
      BY <2>1, <2>3, TrackerStep
  <1>3. ASSUME NEW i \in Issues, WorkerEnds(i)
        PROVE  IInv'
    <2>1. /\ live[i] > 0 /\ live' = [live EXCEPT ![i] = @ - 1]
          /\ UNCHANGED <<scope, open, merged, runs, checkout, exec, mem, disk, dirty, phase, pending>>
      BY <1>3 DEF WorkerEnds, scheduler, tracker
    <2>2. live' \in [Issues -> 0 .. 1] /\ \A j \in Issues : live'[j] # 0 => live[j] # 0
      BY <1>0, <2>1 DEF Typed
    <2>3. Typed'
      BY <1>0, <2>1, <2>2 DEF Typed
    <2>4. ASSUME NEW j \in Issues PROVE RunKnown(j)' /\ ClaimKnown(j)'
      BY <2>1, <2>2 DEF IInv, RunKnown, ClaimKnown
    <2>5. ASSUME NEW l \in Leaves PROVE MergeKnown(l)'
      BY <2>1 DEF IInv, MergeKnown
    <2>6. ASSUME NEW p \in Parents PROVE FenceKnown(p)' /\ FreshKnown(p)'
      BY <2>1 DEF IInv, FenceKnown, FreshKnown, LeafFresh
    <2>7. QED
      BY <2>3, <2>4, <2>5, <2>6 DEF IInv
  <1>4. ASSUME NEW l \in Leaves, ProviderMerges(l)
        PROVE  IInv'
    <2>1. /\ merged' = [merged EXCEPT ![l] = runs[l]]
          /\ UNCHANGED <<scope, open, live, runs, checkout, exec, mem, disk, dirty, phase, pending>>
      BY <1>4 DEF ProviderMerges, scheduler
    <2>2. merged' \in [Leaves -> 0 .. MaxRuns] /\ \A k \in Leaves : merged'[k] \in {merged[k], runs[k]}
      BY <1>0, <2>1 DEF Typed, Issues
    <2>3. Typed'
      BY <1>0, <2>1, <2>2 DEF Typed
    <2>4. ASSUME NEW j \in Issues PROVE RunKnown(j)' /\ ClaimKnown(j)'
      BY <2>1 DEF IInv, RunKnown, ClaimKnown
    <2>5. ASSUME NEW k \in Leaves PROVE MergeKnown(k)'
      <3>1. merged[k] <= runs[k] /\ runs[k] \in Nat
        BY <1>0, HierarchyAssumption DEF IInv, MergeKnown, Typed, Issues
      <3>2. QED
        BY <2>1, <2>2, <3>1 DEF MergeKnown
    <2>6. ASSUME NEW p \in Parents PROVE FenceKnown(p)' /\ FreshKnown(p)'
      BY <2>1 DEF IInv, FenceKnown, FreshKnown, LeafFresh
    <2>7. QED
      BY <2>3, <2>4, <2>5, <2>6 DEF IInv
  <1>5. QED
    BY <1>1, <1>2, <1>3, <1>4 DEF World

\* A pass that ends early drops what it claimed.
LEMMA AbandonedStep ==
    ASSUME IInv, phase = "dispatch", Abandoned, UNCHANGED <<mem, disk, dirty>>
    PROVE  IInv'
  <1>0. Typed
    BY DEF IInv
  <1>1. /\ phase' = "idle" /\ pending' = {}
        /\ exec' = [i \in Issues |-> IF i \in pending THEN "absent" ELSE exec[i]]
        /\ UNCHANGED <<scope, open, merged, runs, live, checkout, mem, disk, dirty>>
    BY DEF Abandoned, EndTick, world, tracker
  <1>2. exec' \in [Issues -> ExecStates]
    BY <1>0, <1>1 DEF Typed, ExecStates
  <1>3. Typed'
    BY <1>0, <1>1, <1>2 DEF Typed
  <1>4. ASSUME NEW i \in Issues
        PROVE  /\ exec'[i] # "claimed" /\ RunKnown(i)' /\ ClaimKnown(i)'
               /\ exec'[i] = "running" => exec[i] = "running"
    <2>1. RunKnown(i) /\ ClaimKnown(i)
      BY DEF IInv
    <2>2. QED
      BY <1>1, <2>1 DEF RunKnown, ClaimKnown
  <1>5. ASSUME NEW l \in Leaves PROVE MergeKnown(l)'
    BY <1>1 DEF IInv, MergeKnown
  <1>6. ASSUME NEW p \in Parents PROVE FenceKnown(p)' /\ FreshKnown(p)'
    <2>1. FenceKnown(p) /\ p \in Issues
      BY DEF IInv, Issues
    <2>2. QED
      BY <1>1, <1>4, <2>1 DEF FenceKnown, FreshKnown
  <1>7. QED
    BY <1>3, <1>4, <1>5, <1>6 DEF IInv

LEMMA RefusedPassStep ==
    ASSUME IInv, NEW p \in Parents, EligibilityWriteFails(p) \/ AdmissionRefused(p)
    PROVE  IInv'
  <1>1. phase = "dispatch" /\ Abandoned /\ UNCHANGED <<mem, disk, dirty>>
    BY DEF EligibilityWriteFails, AdmissionRefused, Dispatching, SavedOrUndone, NotSaved
  <1>2. QED
    BY <1>1, AbandonedStep

\* The prepared launches start: their claims become runs nobody has recorded yet.
LEMMA StartWorkersStep ==
    ASSUME IInv, NEW failed \in SUBSET Issues, StartWorkers(failed)
    PROVE  IInv'
  <1> DEFINE up == pending \ failed
  <1>0. Typed /\ MaxRuns \in Nat
    BY HierarchyAssumption DEF IInv
  <1>1. /\ phase = "dispatch" /\ phase' = "record" /\ pending' = up
        /\ live' = [i \in Issues |-> live[i] + (IF i \in up THEN 1 ELSE 0)]
        /\ runs' = [i \in Issues |-> runs[i] + (IF i \in up THEN 1 ELSE 0)]
        /\ UNCHANGED <<scope, open, merged, checkout, exec, mem, disk, dirty>>
    BY DEF StartWorkers, tracker
  <1>2. ASSUME NEW i \in Issues
        PROVE  /\ live'[i] \in 0 .. 1 /\ runs'[i] \in 0 .. MaxRuns /\ runs[i] <= runs'[i]
               /\ RunKnown(i)' /\ ClaimKnown(i)'
    <2>1. RunKnown(i) /\ ClaimKnown(i) /\ live[i] \in 0 .. 1 /\ runs[i] \in 0 .. MaxRuns
      BY <1>0 DEF IInv, Typed
    <2>2. CASE i \in up
      <3>1. exec[i] = "claimed" /\ runs[i] < MaxRuns /\ live[i] = 0
        BY <1>1, <2>1, <2>2 DEF RunKnown, ClaimKnown
      <3>2. live'[i] = 1 /\ runs'[i] = runs[i] + 1
        BY <1>0, <1>1, <2>1, <2>2, <3>1
      <3>3. QED
        BY <1>0, <1>1, <2>1, <2>2, <3>1, <3>2 DEF RunKnown, ClaimKnown
    <2>3. CASE i \notin up
      <3>1. live'[i] = live[i] /\ runs'[i] = runs[i]
        BY <1>0, <1>1, <2>1, <2>3
      <3>2. QED
        BY <1>0, <1>1, <2>1, <2>3, <3>1 DEF RunKnown, ClaimKnown
    <2>4. QED
      BY <2>2, <2>3
  <1>3. Typed'
    <2>1. live' \in [Issues -> 0 .. 1] /\ runs' \in [Issues -> 0 .. MaxRuns]
      BY <1>1, <1>2
    <2>2. QED
      BY <1>0, <1>1, <2>1 DEF Typed
  <1>4. ASSUME NEW l \in Leaves PROVE MergeKnown(l)'
    <2>1. merged[l] <= runs[l] /\ runs[l] <= runs'[l] /\ merged[l] \in Nat
          /\ runs[l] \in Nat /\ runs'[l] \in Nat
      BY <1>0, <1>2 DEF IInv, MergeKnown, Typed, Issues
    <2>2. QED
      BY <1>1, <2>1 DEF MergeKnown
  <1>5. ASSUME NEW p \in Parents PROVE FenceKnown(p)' /\ FreshKnown(p)'
    <2>1. FenceKnown(p)
      BY DEF IInv
    <2>2. QED
      BY <1>1, <2>1 DEF FenceKnown, FreshKnown
  <1>6. QED
    BY <1>2, <1>3, <1>4, <1>5 DEF IInv

\* Recording one launch, whether or not it succeeded.
LEMMA RecordStep ==
    ASSUME IInv, phase = "record", phase' = phase, UNCHANGED <<world, pending>>,
           NEW i \in Issues, NEW x \in {"running", "retry"}, exec[i] = "claimed",
           exec' = [exec EXCEPT ![i] = x],
           x = "retry" => i \notin pending,
           dirty' \in BOOLEAN, mem' \in States, disk' \in {disk, mem'},
           \A q \in Parents : q # i => mem'.snap[q] = mem.snap[q],
           i \in Parents /\ x = "running" => Bound(mem'.snap[i])
    PROVE  IInv'
  <1>0. Typed
    BY DEF IInv
  <1>1. UNCHANGED <<scope, open, merged, runs, live, checkout, pending>>
    BY DEF world, tracker
  <1>2. exec' \in [Issues -> ExecStates] /\ exec'[i] = x /\ \A j \in Issues : j # i => exec'[j] = exec[j]
    BY <1>0 DEF Typed, ExecStates
  <1>3. Typed'
    BY <1>0, <1>1, <1>2 DEF Typed
  <1>4. ASSUME NEW j \in Issues PROVE RunKnown(j)' /\ ClaimKnown(j)'
    <2>1. RunKnown(j) /\ ClaimKnown(j)
      BY DEF IInv
    <2>2. CASE j = i
      BY <1>1, <1>2, <2>1, <2>2 DEF RunKnown, ClaimKnown
    <2>3. CASE j # i
      BY <1>1, <1>2, <2>1, <2>3 DEF RunKnown, ClaimKnown
    <2>4. QED
      BY <2>2, <2>3
  <1>5. ASSUME NEW l \in Leaves PROVE MergeKnown(l)'
    BY <1>1 DEF IInv, MergeKnown
  <1>6. ASSUME NEW p \in Parents PROVE FenceKnown(p)' /\ FreshKnown(p)'
    <2>1. FenceKnown(p) /\ p \in Issues
      BY DEF IInv, Issues
    <2>2. FreshKnown(p)'
      BY DEF FreshKnown
    <2>3. CASE p = i
      <3>1. exec'[p] = x /\ Backed(disk.snap[p])
        BY <1>2, <2>1, <2>3 DEF FenceKnown
      <3>2. CASE x = "running"
        <4>1. Bound(mem'.snap[p]) /\ Backed(mem'.snap[p])
          BY <2>3, <3>2, BoundIsBacked
        <4>2. Backed(disk'.snap[p])
          BY <3>1, <4>1
        <4>3. QED
          BY <2>2, <3>1, <3>2, <4>1, <4>2 DEF FenceKnown
      <3>3. CASE x = "retry"
        BY <2>2, <3>1, <3>3 DEF FenceKnown
      <3>4. QED
        BY <3>2, <3>3
    <2>4. CASE p # i
      <3>1. exec'[p] = exec[p] /\ mem'.snap[p] = mem.snap[p]
        BY <1>2, <2>1, <2>4
      <3>2. exec[p] \in {"claimed", "running"} => Backed(disk'.snap[p])
        BY <2>1, <3>1, BoundIsBacked DEF FenceKnown
      <3>3. QED
        BY <2>1, <2>2, <3>1, <3>2 DEF FenceKnown
    <2>5. QED
      BY <2>3, <2>4
  <1>7. QED
    BY <1>3, <1>4, <1>5, <1>6 DEF IInv

LEMMA RecordLaunchStep ==
    ASSUME IInv, NEW i \in Issues, NEW ok \in BOOLEAN, RecordLaunch(i, ok)
    PROVE  IInv'
  <1>1. Typed /\ mem \in States
    BY DEF IInv, Typed
  <1>2. /\ phase = "record" /\ phase' = phase /\ UNCHANGED <<world, pending>>
        /\ exec[i] = "claimed" /\ exec' = [exec EXCEPT ![i] = "running"]
        /\ mem' = Launched(mem, i) /\ disk' \in {disk, mem'} /\ dirty' \in {TRUE, FALSE}
    BY DEF RecordLaunch, Recording, SavedOrOwed
  <1>3. i \in Parents => mem.snap[i].known /\ mem.snap[i].frozen
    BY <1>2 DEF IInv, FenceKnown, Announced
  <1>4. /\ mem' \in States
        /\ i \in Parents => Bound(mem'.snap[i])
        /\ \A q \in Parents : q # i => mem'.snap[q] = mem.snap[q]
    BY <1>1, <1>2, <1>3, LaunchedResult
  <1>5. dirty' \in BOOLEAN
    BY <1>2
  <1>6. QED
    BY <1>2, <1>4, <1>5, RecordStep

\* A failed launch takes the announcement back and leaves the parent to a retry.
Withdrawn(s, p) == [s EXCEPT !.snap[p].intent = 0, !.ctl[p].st = "retry"]

LEMMA WithdrawnResult ==
    ASSUME NEW s \in States, NEW p \in Parents, s.snap[p].known
    PROVE  LET r == Withdrawn(s, p)
           IN  r \in States /\ \A q \in Parents : q # p => r.snap[q] = s.snap[q]
  <1> DEFINE sn == s.snap[p]
             a  == [sn EXCEPT !.intent = 0]
             c  == [s.ctl[p] EXCEPT !.st = "retry"]
             r  == [s EXCEPT !.snap[p] = a, !.ctl[p] = c]
  <1>1. GoodSnap(sn) /\ s.ctl[p] \in Controllers /\ s.ctl[p].gen <= sn.gen
    BY StateFields
  <1>2. GoodSnap(a) /\ a.gen = sn.gen
    BY <1>1, ClearIntentGood
  <1>3. c \in Controllers /\ c.gen = s.ctl[p].gen
    BY <1>1 DEF Controllers
  <1>4. a \in Snapshots
    BY <1>2 DEF GoodSnap
  <1> HIDE DEF a, c
  <1>5. Edit(s, r, p, a, c)
    BY <1>3, <1>4, BothEdit
  <1>6. c.gen <= a.gen
    BY <1>1, <1>2, <1>3
  <1> HIDE DEF r, sn
  <1>7. r \in States
    BY <1>2, <1>3, <1>5, <1>6, Edited
  <1>8. \A q \in Parents : q # p => r.snap[q] = s.snap[q]
    BY <1>5 DEF Edit, States, Records
  <1>9. QED
    BY <1>7, <1>8 DEF Withdrawn, r, a, c, sn

LEMMA RecordLaunchFailureStep ==
    ASSUME IInv, NEW i \in Issues, RecordLaunchFailure(i)
    PROVE  IInv'
  <1>1. Typed /\ mem \in States /\ dirty \in BOOLEAN
    BY DEF IInv, Typed
  <1>2. /\ phase = "record" /\ phase' = phase /\ UNCHANGED <<world, pending>>
        /\ exec[i] = "claimed" /\ exec' = [exec EXCEPT ![i] = "retry"] /\ i \notin pending
    BY DEF RecordLaunchFailure, Recording
  <1>3. CASE i \in Parents
    <2>1. mem' = Withdrawn(mem, i) /\ disk' = mem' /\ dirty' = FALSE
      BY <1>3 DEF RecordLaunchFailure, SavedOrUndone, Withdrawn
    <2>2. mem.snap[i].known
      BY <1>2, <1>3 DEF IInv, FenceKnown, Announced
    <2>3. mem' \in States /\ \A q \in Parents : q # i => mem'.snap[q] = mem.snap[q]
      BY <1>1, <1>3, <2>1, <2>2, WithdrawnResult
    <2>4. QED
      BY <1>2, <2>1, <2>3, RecordStep
  <1>4. CASE i \notin Parents
    <2>1. mem' = mem /\ disk' = disk /\ dirty' = dirty
      BY <1>4 DEF RecordLaunchFailure, NotSaved
    <2>2. QED
      BY <1>1, <1>2, <1>4, <2>1, RecordStep
  <1>5. QED
    BY <1>3, <1>4

\* A pass ends when every started launch is recorded.
LEMMA TickDoneStep ==
    ASSUME IInv, TickDone
    PROVE  IInv'
  <1>1. /\ phase = "record" /\ phase' = "idle" /\ pending' = {}
        /\ UNCHANGED <<scope, open, merged, runs, live, checkout, exec, mem, disk, dirty>>
        /\ \A i \in Issues : exec[i] # "claimed"
    BY DEF TickDone, EndTick, world, tracker
  <1>2. Typed'
    BY <1>1 DEF IInv, Typed
  <1>3. ASSUME NEW i \in Issues PROVE RunKnown(i)' /\ ClaimKnown(i)'
    BY <1>1 DEF IInv, RunKnown, ClaimKnown
  <1>4. ASSUME NEW l \in Leaves PROVE MergeKnown(l)'
    BY <1>1 DEF IInv, MergeKnown
  <1>5. ASSUME NEW p \in Parents PROVE FenceKnown(p)' /\ FreshKnown(p)'
    BY <1>1 DEF IInv, FenceKnown, FreshKnown
  <1>6. QED
    BY <1>2, <1>3, <1>4, <1>5 DEF IInv

\* A crash: what the daemon supervised or was launching is recovered from the disk.
LEMMA CrashStep ==
    ASSUME IInv, Crash
    PROVE  IInv'
  <1>0. Typed
    BY DEF IInv
  <1>1. /\ phase # "down" /\ phase' = "down" /\ pending' = {}
        /\ exec' = [i \in Issues |-> IF live[i] > 0 \/ exec[i] = "running" THEN "recovering" ELSE "absent"]
        /\ mem' = disk /\ dirty' = FALSE
        /\ UNCHANGED <<scope, open, merged, runs, live, checkout, disk>>
    BY DEF Crash, world, tracker
  <1>2. exec' \in [Issues -> ExecStates]
    BY <1>1 DEF ExecStates
  <1>3. Typed'
    BY <1>0, <1>1, <1>2 DEF Typed
  <1>4. ASSUME NEW i \in Issues PROVE RunKnown(i)' /\ ClaimKnown(i)'
    <2>1. live[i] \in 0 .. 1
      BY <1>0 DEF Typed
    <2>2. QED
      BY <1>1, <2>1 DEF RunKnown, ClaimKnown
  <1>5. ASSUME NEW l \in Leaves PROVE MergeKnown(l)'
    BY <1>1 DEF IInv, MergeKnown
  <1>6. ASSUME NEW p \in Parents PROVE FenceKnown(p)' /\ FreshKnown(p)'
    <2>1. FenceKnown(p) /\ RunKnown(p) /\ p \in Issues /\ live[p] \in 0 .. 1
      BY <1>0 DEF IInv, Issues, Typed
    <2>2. exec'[p] = "recovering" => exec[p] \in {"claimed", "running"}
      BY <1>1, <2>1 DEF RunKnown
    <2>3. exec'[p] = "recovering" => Backed(disk'.snap[p])
      BY <1>1, <2>1, <2>2 DEF FenceKnown
    <2>4. QED
      BY <1>1, <2>1, <2>3 DEF FenceKnown, FreshKnown
  <1>7. QED
    BY <1>3, <1>4, <1>5, <1>6 DEF IInv

-----------------------------------------------------------------------------
\* What bootstrap restores first: the fences of the parents whose run is back.
Restored(s, back) ==
    [s EXCEPT !.snap = [p \in Parents |-> IF p \in back /\ @[p].known
                                          THEN RestoreFence(@[p]) ELSE @[p]]]

LEMMA RestoredResult ==
    ASSUME NEW s \in States, NEW back
    PROVE  /\ Restored(s, back) \in States
           /\ \A p \in Parents \cap back : Backed(s.snap[p]) => Flying(Restored(s, back).snap[p])
  <1> DEFINE f(p) == IF p \in back /\ s.snap[p].known THEN RestoreFence(s.snap[p]) ELSE s.snap[p]
             F == [p \in Parents |-> f(p)]
             r == [s EXCEPT !.snap = F]
  <1>1. ASSUME NEW p \in Parents
        PROVE  /\ GoodSnap(f(p)) /\ f(p).gen = s.snap[p].gen
               /\ p \in back /\ Backed(s.snap[p]) => Flying(f(p))
    <2>1. GoodSnap(s.snap[p])
      BY StateFields
    <2>2. CASE p \in back /\ s.snap[p].known
      <3>1. f(p) = RestoreFence(s.snap[p])
        BY <2>2
      <3> HIDE DEF f
      <3>2. QED
        BY <2>1, <2>2, <3>1, RestoreFenceGood DEF Backed
    <2>3. CASE ~(p \in back /\ s.snap[p].known)
      <3>1. f(p) = s.snap[p]
        BY <2>3
      <3> HIDE DEF f
      <3>2. QED
        BY <2>1, <2>3, <3>1 DEF Backed
    <2>4. QED
      BY <2>2, <2>3
  <1> HIDE DEF f
  <1>2. \A p \in Parents : F[p] = f(p)
    OBVIOUS
  <1>3. F \in [Parents -> Snapshots]
    BY <1>1 DEF GoodSnap
  <1> HIDE DEF F
  <1>4. r \in Records /\ r.snap = F /\ r.ctl = s.ctl
    BY <1>3 DEF States, Records
  <1> HIDE DEF r
  <1>5. \A p \in Parents : GoodSnap(r.snap[p]) /\ r.ctl[p].gen <= r.snap[p].gen
    <2> TAKE p \in Parents
    <2>1. s.ctl[p].gen <= s.snap[p].gen
      BY StateFields
    <2>2. r.snap[p] = f(p) /\ r.ctl[p] = s.ctl[p]
      BY <1>2, <1>4
    <2>3. QED
      BY <1>1, <2>1, <2>2
  <1>6. r \in States
    BY <1>4, <1>5 DEF States
  <1>7. \A p \in Parents \cap back : Backed(s.snap[p]) => Flying(r.snap[p])
    BY <1>1, <1>2, <1>4
  <1>8. r = Restored(s, back)
    BY DEF r, F, f, Restored
  <1>9. QED
    BY <1>6, <1>7, <1>8

\* The attempts that were under way and whose run is not back are tried again.
Retried(s, back) ==
    [s EXCEPT !.ctl = [p \in Parents |->
        IF p \notin back /\ @[p].st = "integrating" THEN [@[p] EXCEPT !.st = "retry"] ELSE @[p]]]

LEMMA RetriedResult ==
    ASSUME NEW s \in States, NEW back
    PROVE  Retried(s, back) \in States /\ Retried(s, back).snap = s.snap
  <1> DEFINE f(p) == IF p \notin back /\ s.ctl[p].st = "integrating"
                     THEN [s.ctl[p] EXCEPT !.st = "retry"] ELSE s.ctl[p]
             F == [p \in Parents |-> f(p)]
             r == [s EXCEPT !.ctl = F]
  <1>1. ASSUME NEW p \in Parents PROVE f(p) \in Controllers /\ f(p).gen = s.ctl[p].gen
    <2>1. s.ctl[p] \in Controllers
      BY StateFields
    <2>2. [s.ctl[p] EXCEPT !.st = "retry"] \in Controllers /\ [s.ctl[p] EXCEPT !.st = "retry"].gen = s.ctl[p].gen
      BY <2>1 DEF Controllers
    <2>3. QED
      BY <2>1, <2>2
  <1> HIDE DEF f
  <1>2. F \in [Parents -> Controllers] /\ \A p \in Parents : F[p] = f(p)
    BY <1>1
  <1> HIDE DEF F
  <1>3. r \in Records /\ r.snap = s.snap /\ r.ctl = F
    BY <1>2 DEF States, Records
  <1> HIDE DEF r
  <1>4. \A p \in Parents : GoodSnap(r.snap[p]) /\ r.ctl[p].gen <= r.snap[p].gen
    <2> TAKE p \in Parents
    <2>1. s.ctl[p].gen <= s.snap[p].gen /\ GoodSnap(s.snap[p])
      BY StateFields
    <2>2. r.snap[p] = s.snap[p] /\ r.ctl[p] = f(p)
      BY <1>2, <1>3
    <2>3. QED
      BY <1>1, <2>1, <2>2
  <1>5. r \in States
    BY <1>3, <1>4 DEF States
  <1>6. r = Retried(s, back)
    BY DEF r, F, f, Retried
  <1>7. QED
    BY <1>3, <1>5, <1>6

\* Recovery restores the fences before it reconciles, so none is lost on the way.
LEMMA RecoverStep ==
    ASSUME IInv, NEW refused \in SUBSET Issues, Recover(refused)
    PROVE  IInv'
  <1> DEFINE back == {i \in Issues : exec[i] = "recovering"}
             kept == (back \cap open) \cup refused
             none == [i \in Issues |-> "absent"]
             s1 == Restored(disk, back)
             r1 == ReconcileActive(s1, none)
             s2 == ReconcileTerminal(r1, none)
             s3 == Retried(s2, back)
             s4 == AllResumed(s3, Known(s3), back)
  <1>0. Typed /\ disk \in States /\ scope \in [Parents -> SUBSET Issues]
    BY DEF IInv, Typed
  <1>1. /\ phase = "down" /\ phase' = "settle"
        /\ UNCHANGED <<scope, open, merged, runs, checkout, pending>>
        /\ live' = [i \in Issues |-> IF i \in back \ kept THEN 0 ELSE live[i]]
        /\ dirty' = FALSE /\ disk' = mem' /\ refused \subseteq back
    BY DEF Recover, tracker
  <1>2. mem' = s4
    BY DEF Recover, Restored, Retried, AllResumed
  <1>3. ASSUME NEW i \in Issues
        PROVE  /\ exec'[i] \in {"running", "terminal", "absent", "unclaimed", "retry", "done"}
               /\ exec'[i] = "running" <=> i \in back /\ i \in kept
    BY DEF Recover
  <1>4. exec' = [i \in Issues |-> exec'[i]]
    BY DEF Recover
  <1> HIDE DEF s4
  <1>5. s1 \in States /\ \A p \in Parents \cap back : Flying(s1.snap[p])
    <2>1. \A p \in Parents \cap back : Backed(disk.snap[p])
      BY <1>1 DEF IInv, FenceKnown
    <2> HIDE DEF back
    <2>2. QED
      BY <1>0, <2>1, RestoredResult
  <1> HIDE DEF s1, none
  <1>6. r1 \in States /\ Keeps(s1, r1, none)
    BY <1>0, <1>5, ReconciledKeeps DEF ReconcileActive
  <1> HIDE DEF r1
  <1>7. s2 \in States /\ Keeps(r1, s2, none)
    BY <1>0, <1>6, ReconciledKeeps DEF ReconcileTerminal
  <1> HIDE DEF s2
  <1>8. \A p \in Parents \cap back : Bound(s2.snap[p])
    BY <1>5, <1>6, <1>7, BoundIsBacked DEF Keeps
  <1>9. s3 \in States /\ \A p \in Parents \cap back : Bound(s3.snap[p])
    BY <1>7, <1>8, RetriedResult
  <1> HIDE DEF s3, back
  <1>10. s4 \in States /\ \A p \in Parents \cap back : Bound(s4.snap[p])
    BY <1>9, AllResumedBound DEF s4
  <1>11. Typed'
    <2>1. exec' \in [Issues -> ExecStates]
      BY <1>3, <1>4 DEF ExecStates
    <2>2. live' \in [Issues -> 0 .. 1]
      BY <1>0, <1>1 DEF Typed
    <2>3. QED
      BY <1>0, <1>1, <1>2, <1>10, <2>1, <2>2 DEF Typed
  <1>12. pending = {}
    BY <1>1, NoClaims
  <1>13. ASSUME NEW i \in Issues PROVE RunKnown(i)' /\ ClaimKnown(i)'
    <2>1. RunKnown(i) /\ (exec[i] = "recovering" <=> i \in back)
      BY DEF IInv, back
    <2>2. live'[i] # 0 => exec'[i] = "running"
      BY <1>1, <1>3, <2>1 DEF RunKnown
    <2>3. QED
      BY <1>1, <1>3, <1>12, <2>2 DEF RunKnown, ClaimKnown
  <1>14. ASSUME NEW l \in Leaves PROVE MergeKnown(l)'
    BY <1>1 DEF IInv, MergeKnown
  <1>15. ASSUME NEW p \in Parents PROVE FenceKnown(p)' /\ FreshKnown(p)'
    <2>1. p \in Issues /\ exec'[p] \notin {"claimed", "recovering"}
      BY <1>3 DEF Issues
    <2>2. exec'[p] = "running" => Bound(mem'.snap[p]) /\ Backed(disk'.snap[p])
      BY <1>1, <1>2, <1>3, <1>10, <2>1, BoundIsBacked
    <2>3. QED
      BY <1>1, <2>1, <2>2 DEF FenceKnown, FreshKnown
  <1>16. QED
    BY <1>11, <1>13, <1>14, <1>15 DEF IInv

\* Every step.
LEMMA UnchangedStep == IInv /\ UNCHANGED vars => IInv'
  <1> SUFFICES ASSUME IInv, UNCHANGED vars PROVE IInv'
    OBVIOUS
  <1>1. /\ UNCHANGED <<merged, runs, live, checkout, scheduler>>
        /\ scope' = scope /\ open' = open
    BY DEF vars, world, tracker, scheduler
  <1>2. scope' \in [Parents -> SUBSET Issues] /\ open' \subseteq Issues
    BY <1>1 DEF IInv, Typed
  <1>3. QED
    BY <1>1, <1>2, TrackerStep

LEMMA NextIInv == IInv /\ [Next]_vars => IInv'
  <1> SUFFICES ASSUME IInv, [Next]_vars PROVE IInv'
    OBVIOUS
  <1>1. CASE UNCHANGED vars
    BY <1>1, UnchangedStep
  <1>2. CASE World
    BY <1>2, WorldStep
  <1>3. CASE Tick
    <2>1. ASSUME NEW ok \in BOOLEAN, Refresh(ok) PROVE IInv'
      BY <2>1, RefreshStep
    <2>2. ASSUME NEW i \in Issues, NEW ok \in BOOLEAN, Release(i, ok) \/ RecordLaunch(i, ok)
          PROVE  IInv'
      BY <2>2, ReleaseStep, RecordLaunchStep
    <2>3. ASSUME NEW i \in Issues,
                 \/ StopRefused(i) \/ Upsert(i)
                 \/ Skip(i) \/ PreparationFails(i) \/ RecordLaunchFailure(i)
          PROVE  IInv'
      BY <2>3, StopRefusedStep, UpsertStep, SkipStep, PreparationFailsStep, RecordLaunchFailureStep
    <2>4. ASSUME NEW l \in Leaves, PrepareLeaf(l) PROVE IInv'
      BY <2>4, PrepareLeafStep
    <2>5. ASSUME NEW p \in Parents,
                 PrepareParent(p) \/ EligibilityWriteFails(p) \/ AdmissionRefused(p)
          PROVE  IInv'
      BY <2>5, PrepareParentStep, RefusedPassStep
    <2>6. ASSUME NEW F \in SUBSET Issues, StartWorkers(F) PROVE IInv'
      BY <2>6, StartWorkersStep
    <2>7. CASE TickDone
      BY <2>7, TickDoneStep
    <2>8. QED
      BY <1>3, <2>1, <2>2, <2>3, <2>4, <2>5, <2>6, <2>7 DEF Tick
  <1>4. CASE Between
    <2>1. ASSUME NEW l \in Leaves, NEW ok \in BOOLEAN, FinishLeaf(l, ok) PROVE IInv'
      BY <2>1, FinishLeafStep
    <2>2. ASSUME NEW p \in Parents, NEW ok \in BOOLEAN, NEW outcome \in {"pass", "repair", "fail"},
                 FinishParent(p, outcome, ok)
          PROVE  IInv'
      BY <2>2, FinishParentStep
    <2>3. ASSUME NEW p \in Parents, NEW ok \in BOOLEAN, Replan(p, ok) \/ Capture(p, ok) \/ CleanUp(p, ok)
          PROVE  IInv'
      BY <2>3, ReplanStep, CaptureStep, CleanUpStep
    <2>4. ASSUME NEW p \in Parents, RepairMerged(p) PROVE IInv'
      BY <2>4, RepairMergedStep
    <2>5. CASE Crash
      BY <2>5, CrashStep
    <2>6. ASSUME NEW R \in SUBSET Issues, Recover(R) PROVE IInv'
      BY <2>6, RecoverStep
    <2>7. QED
      BY <1>4, <2>1, <2>2, <2>3, <2>4, <2>5, <2>6 DEF Between
  <1>5. QED
    BY <1>1, <1>2, <1>3, <1>4 DEF Next

(* The inductive invariant holds in every state the daemon reaches.         *)
THEOREM Invariance == Spec => []IInv
  <1>1. Init => IInv
    BY InitIInv
  <1>2. IInv /\ [Next]_vars => IInv'
    BY NextIInv
  <1>3. QED
    BY <1>1, <1>2, PTL DEF Spec

(* The marks of a snapshot are of its own generation or none, in memory and *)
(* on the disk, and so is every other variable of its type.                 *)
THEOREM TypeCorrect == Spec => []TypeOK
  BY Invariance, IInvTypeOK, PTL

(* A parent whose run is taken for running, or is alive whether or not the  *)
(* harness refused to stop it, has a dispatch fence over its descendants    *)
(* (hierarchy.rs has_active_dispatched_ancestor), whatever the tracker does *)
(* to its scope and however often the daemon restarts.                      *)
THEOREM FenceKept == Spec => []FenceCoversRun
  <1>1. IInv => FenceCoversRun
    <2> SUFFICES ASSUME IInv, phase # "down", NEW p \in Parents,
                        exec[p] = "running" \/ (live[p] > 0 /\ phase # "record")
                 PROVE  HasFence(mem.snap[p])
      BY DEF FenceCoversRun
    <2>1. RunKnown(p) /\ FenceKnown(p)
      BY DEF IInv, Issues
    <2>2. live[p] > 0 => live[p] # 0
      OBVIOUS
    <2>3. exec[p] = "running"
      BY <2>1, <2>2 DEF RunKnown
    <2>4. QED
      BY <2>1, <2>3 DEF FenceKnown, Bound
  <1>2. QED
    BY <1>1, Invariance, PTL

(* While a parent is launched or runs, the disk says so: a crash in between *)
(* finds what bootstrap_recovery restores the fence from.                   *)
THEOREM FenceRestorable == Spec => []FenceSurvivesCrash
  <1>1. IInv => FenceSurvivesCrash
    BY DEF IInv, FenceKnown, Backed, FenceSurvivesCrash
  <1>2. QED
    BY <1>1, Invariance, PTL

-----------------------------------------------------------------------------
(* What a parent starts from. *)

\* Only a pass that launches makes a run alive.
LEMMA OnlyStarts ==
    ASSUME IInv, [Next]_vars, NEW p \in Issues, live'[p] > live[p]
    PROVE  \E F \in SUBSET Issues : StartWorkers(F)
  <1>1. live \in [Issues -> 0 .. 1]
    BY DEF IInv, Typed
  <1>2. live' # live
    BY <1>1
  <1>3. CASE World
    <2>1. PICK i \in Issues : WorkerEnds(i)
      BY <1>2, <1>3 DEF World, TrackerRescopes, TrackerCloses, TrackerReopens, ProviderMerges
    <2>2. live' = [live EXCEPT ![i] = @ - 1]
      BY <2>1 DEF WorkerEnds
    <2>3. QED
      BY <1>1, <2>2
  <1>4. CASE Tick
    <2> SUFFICES ASSUME NEW i \in Issues, NEW ok \in BOOLEAN, Release(i, ok) PROVE FALSE
      BY <1>2, <1>4
         DEF Tick, Refresh, RecordLaunch, StopRefused, Upsert, Skip, PreparationFails,
             RecordLaunchFailure, PrepareLeaf, PrepareParent, EligibilityWriteFails,
             AdmissionRefused, Abandoned, TickDone, world
    <2>1. live' \in {live, [live EXCEPT ![i] = 0]}
      BY <1>1 DEF Release
    <2>2. QED
      BY <1>1, <2>1
  <1>5. CASE Between
    <2>1. ASSUME NEW i, NEW ok, FinishLeaf(i, ok) PROVE live' = live
      BY <2>1 DEF FinishLeaf
    <2>2. ASSUME NEW q, NEW ok, NEW outcome, FinishParent(q, outcome, ok) PROVE live' = live
      BY <2>2 DEF FinishParent, world
    <2>3. ASSUME NEW q, NEW ok, Replan(q, ok) \/ Capture(q, ok) \/ CleanUp(q, ok)
          PROVE  live' = live
      BY <2>3 DEF Replan, Capture, CleanUp, world
    <2>4. ASSUME NEW q, RepairMerged(q) \/ Crash PROVE live' = live
      BY <2>4 DEF RepairMerged, Crash, world
    <2>5. PICK R \in SUBSET Issues : Recover(R)
      BY <1>2, <1>5, <2>1, <2>2, <2>3, <2>4 DEF Between
    <2>6. live'[p] \in {0, live[p]}
      BY <1>1, <2>5 DEF Recover
    <2>7. QED
      BY <1>1, <2>6
  <1>6. QED
    BY <1>2, <1>3, <1>4, <1>5 DEF Next, vars, world

\* A prepared parent was announced fresh, and nothing it integrates could start since.
LEMMA StartIsFresh ==
    ASSUME IInv, NEW F \in SUBSET Issues, StartWorkers(F), NEW p \in Parents, live'[p] > live[p],
           NEW l \in mem.snap[p].scope \cap Leaves
    PROVE  mem.ctl[p].input[l] # 0 /\ runs'[l] = mem.ctl[p].input[l] /\ live'[l] = 0
  <1>1. /\ phase = "dispatch" /\ pending \subseteq Issues
        /\ live \in [Issues -> 0 .. 1] /\ runs \in [Issues -> 0 .. MaxRuns] /\ MaxRuns \in Nat
        /\ p \in Issues /\ l \in Issues
    BY HierarchyAssumption DEF IInv, Typed, Issues, StartWorkers
  <1>2. /\ live' = [i \in Issues |-> live[i] + (IF i \in pending \ F THEN 1 ELSE 0)]
        /\ runs' = [i \in Issues |-> runs[i] + (IF i \in pending \ F THEN 1 ELSE 0)]
    BY DEF StartWorkers
  <1>3. p \in pending
    BY <1>1, <1>2
  <1>4. LeafFresh(p, l)
    BY <1>1, <1>3 DEF IInv, FreshKnown
  <1>5. exec[l] # "claimed" /\ exec[l] # "running"
    BY <1>4 DEF LeafFresh
  <1>6. l \notin pending /\ live[l] = 0
    BY <1>1, <1>5 DEF IInv, RunKnown, ClaimKnown
  <1>7. runs'[l] = runs[l] /\ live'[l] = 0
    BY <1>1, <1>2, <1>6
  <1>8. QED
    BY <1>4, <1>7 DEF LeafFresh

(* A parent's run starts only when each leaf it requires has stopped and is *)
(* merged as of its last run, the one the controller was admitted with.     *)
THEOREM StartsFresh == Spec => FreshWhenStarted
  <1> DEFINE Fresh == \A p \in Parents : live'[p] > live[p] =>
                          \A l \in mem.snap[p].scope \cap Leaves :
                              /\ mem.ctl[p].input[l] # 0 /\ runs'[l] = mem.ctl[p].input[l]
                              /\ live'[l] = 0
  <1>1. IInv /\ [Next]_vars => [Fresh]_vars
    BY OnlyStarts, StartIsFresh DEF Issues
  <1>2. FreshWhenStarted <=> [][Fresh]_vars
    BY DEF FreshWhenStarted
  <1> HIDE DEF Fresh
  <1>3. QED
    BY <1>1, <1>2, Invariance, PTL DEF Spec

-----------------------------------------------------------------------------
(* The tree and the leases, one operation at a time. *)

\* `r` has the children of `s`.
SameScopes(s, r) == \A p \in Parents : r.snap[p].scope = s.snap[p].scope

\* `r` lets `p` hold what it holds in `s`, ...
KeepsHold(s, r, p) == \A x \in Leaves : Holds(s, p, x) => Holds(r, p, x)

\* ... and gives it no lease when it has none.
Holder(s, p)   == \E l \in s.leases : l.kind = "ancestor" /\ l.owner = p
NoGain(s, r, p) == Holder(r, p) => Holder(s, p)

LEMMA KeepsHoldTrans ==
    ASSUME NEW s, NEW r, NEW t, NEW p, KeepsHold(s, r, p), KeepsHold(r, t, p)
    PROVE  KeepsHold(s, t, p)
  BY DEF KeepsHold

\* What is below an issue depends on the children of the parents and on nothing else.
LEMMA ScopesOfState ==
    ASSUME NEW s \in States
    PROVE  Scopes(s) = [p \in Parents |-> s.snap[p].scope]
  <1>1. ASSUME NEW p \in Parents, ~s.snap[p].known PROVE s.snap[p].scope = {}
    <2>1. s.snap[p] = NoSnapshot
      BY <1>1, StateFields DEF GoodSnap, SnapshotOK
    <2>2. QED
      BY <2>1, NoSnapshotFields
  <1>2. QED
    BY <1>1 DEF Scopes

LEMMA SameSubtrees ==
    ASSUME NEW s \in States, NEW r \in States, SameScopes(s, r)
    PROVE  \A roots : Subtree(r, roots) = Subtree(s, roots)
  <1>1. Scopes(r) = Scopes(s)
    BY ScopesOfState DEF SameScopes
  <1>2. QED
    BY <1>1 DEF Subtree

LEMMA ParentsFinite == Cardinality(Parents) \in Nat
  <1>1. IssueOrder \in Seq(Issues) /\ Issues = {IssueOrder[n] : n \in DOMAIN IssueOrder}
    BY HierarchyAssumption DEF ToSet
  <1> DEFINE S == 1 .. Len(IssueOrder)
             f == [n \in S |-> IssueOrder[n]]
  <1>2. DOMAIN IssueOrder = S /\ Len(IssueOrder) \in Nat
    BY <1>1
  <1>3. f \in Surjection(S, Issues)
    BY <1>1, <1>2 DEF Surjection
  <1>4. IsFiniteSet(S)
    BY <1>2, FS_Interval
  <1>5. IsFiniteSet(Issues)
    BY <1>3, <1>4, FS_Surjection
  <1>6. QED
    BY <1>5, FS_Subset, FS_CardinalityType DEF Issues

\* Nothing is below nothing.
LEMMA ReachedNothing ==
    ASSUME NEW children
    PROVE  Reached(children, {}) = {}
  <1> DEFINE N == Cardinality(Parents)
             Body(h) == [n \in 0..N |-> IF n = 0 THEN {}
                                        ELSE h[n - 1] \cup UNION {children[p] : p \in h[n - 1] \cap Parents}]
             reach == CHOOSE h : h = Body(h)
             none == [n \in 0..N |-> {}]
  <1>0. N \in Nat
    BY ParentsFinite
  <1> HIDE DEF N
  <1>1. none = Body(none)
    <2>1. ASSUME NEW n \in 0..N PROVE none[n] = Body(none)[n]
      BY <1>0
    <2>2. QED
      BY <2>1
  <1>2. reach = Body(reach)
    <2> HIDE DEF Body, none
    <2> QED BY <1>1
  <1>3. Reached(children, {}) = reach[N]
    BY DEF Reached, N
  <1>4. \A n \in 0..N : reach[n] = IF n = 0 THEN {}
                                   ELSE reach[n - 1] \cup UNION {children[p] : p \in reach[n - 1] \cap Parents}
    <2> HIDE DEF reach
    <2>1. \A n \in 0..N : reach[n] = Body(reach)[n]
      BY <1>2
    <2> QED BY <2>1
  <1> HIDE DEF reach
  <1> DEFINE Bad == {n \in 0..N : reach[n] # {}}
  <1>5. Bad = {}
    <2> SUFFICES ASSUME Bad # {} PROVE FALSE
      OBVIOUS
    <2>1. PICK m \in Bad : \A n \in Bad : m <= n
      <3>1. Bad \subseteq Nat
        OBVIOUS
      <3>2. QED
        BY <3>1, Least
    <2>2. m \in 0..N /\ reach[m] # {} /\ m # 0
      BY <1>0, <1>4, <2>1
    <2>3. m - 1 \in 0..N /\ ~(m <= m - 1)
      BY <1>0, <2>2
    <2>4. reach[m - 1] = {}
      BY <2>1, <2>3
    <2>5. QED
      BY <1>4, <2>2, <2>4
  <1>6. QED
    BY <1>0, <1>3, <1>5

\* Dropping leases: who keeps what.
LEMMA DropKeepsHold ==
    ASSUME NEW s \in States, NEW p, NEW gone,
           \A l \in s.leases : l.kind = "ancestor" /\ l.owner = p => l \notin gone
    PROVE  KeepsHold(s, DropLeases(s, gone), p)
  <1>1. DropLeases(s, gone).leases = s.leases \ gone
    BY DEF DropLeases, States, Records
  <1>2. QED
    BY <1>1 DEF KeepsHold, Holds

LEMMA DropNoGain ==
    ASSUME NEW s \in States, NEW p, NEW gone
    PROVE  NoGain(s, DropLeases(s, gone), p)
  <1>1. DropLeases(s, gone).leases = s.leases \ gone
    BY DEF DropLeases, States, Records
  <1>2. QED
    BY <1>1 DEF NoGain, Holder

\* A parent never launched lets go of what it and the issues below it hold.
LEMMA UndispatchedKeepsHold ==
    ASSUME NEW s \in States, NEW q, NEW edges, NEW p, p # q, p \notin Subtree(s, s.snap[q].scope)
    PROVE  KeepsHold(s, ReleaseUndispatched(s, q, edges), p)
  <1> DEFINE sub  == Subtree(s, s.snap[q].scope)
             lost == sub \ Retained(s, q, sub, edges)
             Gone(l) == IF l.kind = "leaf" THEN l.res \in lost ELSE l.owner \in {q} \cup lost
             gone == {l \in s.leases : Gone(l)}
  <1>1. ReleaseUndispatched(s, q, edges) = DropLeases(s, gone)
    BY DEF ReleaseUndispatched
  <1>2. p \notin lost
    OBVIOUS
  <1> HIDE DEF lost
  <1>3. \A l \in s.leases : l.kind = "ancestor" /\ l.owner = p => l \notin gone
    BY <1>2
  <1> HIDE DEF gone
  <1>4. QED
    BY <1>1, <1>3, DropKeepsHold

LEMMA UndispatchedNoGain ==
    ASSUME NEW s \in States, NEW q, NEW edges, NEW p
    PROVE  NoGain(s, ReleaseUndispatched(s, q, edges), p)
  BY DropNoGain DEF ReleaseUndispatched

\* A launched parent takes over from its children.
LEMMA LeafLeasesKeepHold ==
    ASSUME NEW s \in States, NEW q, NEW p
    PROVE  KeepsHold(s, ReleaseLeafLeasesFor(s, q), p)
  <1> DEFINE own == {l.res : l \in {k \in s.leases : k.kind = "ancestor" /\ k.owner = q}}
             gone == {l \in s.leases : l.kind = "leaf" /\ l.res \in own}
  <1>1. ReleaseLeafLeasesFor(s, q) = DropLeases(s, gone)
    BY DEF ReleaseLeafLeasesFor
  <1> HIDE DEF own
  <1>2. \A l \in s.leases : l.kind = "ancestor" /\ l.owner = p => l \notin gone
    OBVIOUS
  <1> HIDE DEF gone
  <1>3. QED
    BY <1>1, <1>2, DropKeepsHold

LEMMA ChildrenKeepHold ==
    ASSUME NEW s \in States, NEW S, NEW p, p \notin S
    PROVE  KeepsHold(s, ReleaseAncestorLeasesOf(s, S), p)
  <1> DEFINE gone == {l \in s.leases : l.kind = "ancestor" /\ l.owner \in S}
  <1>1. ReleaseAncestorLeasesOf(s, S) = DropLeases(s, gone)
    BY DEF ReleaseAncestorLeasesOf
  <1>2. \A l \in s.leases : l.kind = "ancestor" /\ l.owner = p => l \notin gone
    OBVIOUS
  <1> HIDE DEF gone
  <1>3. QED
    BY <1>1, <1>2, DropKeepsHold

\* Cleaning up a parent takes its own leases only.
LEMMA ResourcesKeepHold ==
    ASSUME NEW s \in States, NEW q, NEW R, NEW p, p # q
    PROVE  KeepsHold(s, ReleaseParentResources(s, q, R), p)
  <1> DEFINE gone == {l \in s.leases : l.res \in R /\ l.kind \in {"ancestor", "review"} /\ l.owner = q}
  <1>1. ReleaseParentResources(s, q, R) = DropLeases(s, gone)
    BY DEF ReleaseParentResources
  <1>2. \A l \in s.leases : l.kind = "ancestor" /\ l.owner = p => l \notin gone
    OBVIOUS
  <1> HIDE DEF gone
  <1>3. QED
    BY <1>1, <1>2, DropKeepsHold

\* Binding leases to another generation.
LEMMA RebindKeepsHold ==
    ASSUME NEW s \in States, NEW k, NEW who, NEW g \in Nat, NEW p
    PROVE  KeepsHold(s, Rebind(s, k, who, g), p)
  <1> DEFINE M(l) == IF l.kind = k /\ l.owner \in who THEN [l EXCEPT !.gen = g] ELSE l
             r == Rebind(s, k, who, g)
  <1>1. r.leases = {M(l) : l \in s.leases}
    BY DEF Rebind, States, Records
  <1>2. \A l \in s.leases : M(l).kind = l.kind /\ M(l).owner = l.owner /\ M(l).res = l.res
    BY DEF States, Records, Leases
  <1> HIDE DEF r, M
  <1>3. ASSUME NEW x \in Leaves, Holds(s, p, x) PROVE Holds(r, p, x)
    <2>1. PICK l \in s.leases : l.kind = "ancestor" /\ l.owner = p /\ l.res = x
      BY <1>3 DEF Holds
    <2>2. M(l) \in r.leases /\ M(l).kind = "ancestor" /\ M(l).owner = p /\ M(l).res = x
      BY <1>1, <1>2, <2>1
    <2>3. QED
      BY <2>2 DEF Holds
  <1>4. QED
    BY <1>3 DEF KeepsHold, r

-----------------------------------------------------------------------------
(* Controllers, cleanup and the children of a launch. *)

Busy    == {"claimed", "running", "recovering"}
Waiting == {"unclaimed", "retry", "claimed", "running"}

\* Only a finished parent is cleaned up, and a controller is of the generation of its
\* parent unless a changed scope blocks the parent.
FitFor(sn, c) ==
    /\ c.cleanup = "pending" => c.st \in {"completed", "canceled"}
    /\ sn.known => sn.blocked \/ c.gen = sn.gen

Fit(s)  == \A p \in Parents : FitFor(s.snap[p], s.ctl[p])
Pend(s) == {p \in Parents : s.ctl[p].cleanup = "pending"}

\* A parent being cleaned up has no run, and the children of a parent that is being
\* launched neither run nor are about to.
HoldInv ==
    /\ Fit(mem) /\ Fit(disk)
    /\ \A p \in Parents : exec[p] \in Busy => p \notin Pend(mem) \cup Pend(disk)
    /\ \A p \in Parents : exec[p] = "claimed" => \A c \in mem.snap[p].scope : exec[c] \notin Waiting
    /\ phase = "down" => \A i \in Issues : exec[i] # "running"

LEMMA FitSame ==
    ASSUME NEW s, NEW r, r.snap = s.snap, r.ctl = s.ctl, Fit(s)
    PROVE  Fit(r) /\ Pend(r) = Pend(s)
  BY DEF Fit, Pend

LEMMA FitOthers ==
    ASSUME NEW s, NEW r, NEW p \in Parents, Fit(s), FitFor(r.snap[p], r.ctl[p]),
           \A q \in Parents : q # p => r.snap[q] = s.snap[q] /\ r.ctl[q] = s.ctl[q]
    PROVE  /\ Fit(r)
           /\ Pend(r) \subseteq Pend(s) \cup {p}
           /\ (r.ctl[p].cleanup = "pending" => s.ctl[p].cleanup = "pending") => Pend(r) \subseteq Pend(s)
  BY DEF Fit, Pend

LEMMA NewControllerFits ==
    ASSUME NEW sn
    PROVE  FitFor(sn, NewController(sn.gen)) /\ NewController(sn.gen).cleanup = "none"
  BY DEF FitFor, NewController

\* What the reconciliation of one parent makes of its snapshot and controller.
Effect(s, r, p) ==
    /\ \A q \in Parents : q # p => r.snap[q] = s.snap[q] /\ r.ctl[q] = s.ctl[q]
    /\ r.ctl[p] = s.ctl[p] \/ r.ctl[p].cleanup = "none"
    /\ FitFor(s.snap[p], s.ctl[p]) => FitFor(r.snap[p], r.ctl[p])

LEMMA EffectSame ==
    ASSUME NEW s, NEW r, NEW t, NEW p \in Parents, Effect(s, r, p), SameTree(r, t)
    PROVE  Effect(s, t, p)
  BY DEF Effect, SameTree

LEMMA ForgetParentEffect ==
    ASSUME NEW s \in States, NEW p \in Parents
    PROVE  Effect(s, ForgetParent(s, p), p)
  <1> DEFINE s1 == [s EXCEPT !.snap[p] = NoSnapshot, !.stamp[p] = 0, !.ctl[p] = NewController(0)]
  <1>1. NoSnapshot \in Snapshots /\ GoodSnap(NoSnapshot) /\ NoSnapshot.gen = 0 /\ ~NoSnapshot.known
    BY NoSnapshotFields, NoSnapshotGood
  <1>2. NewController(0) \in Controllers /\ NewController(0).gen = 0 /\ NewController(0).cleanup = "none"
    BY NewControllerTyped DEF NewController
  <1>3. Edit(s, s1, p, NoSnapshot, NewController(0))
    <2> HIDE DEF NoSnapshot, NewController
    <2> QED BY <1>1, <1>2 DEF Edit, States, Records, Issues
  <1> HIDE DEF s1, NoSnapshot, NewController
  <1>4. /\ s1 \in States /\ s1.snap[p] = NoSnapshot /\ s1.ctl[p] = NewController(0)
        /\ \A q \in Parents : q # p => s1.snap[q] = s.snap[q] /\ s1.ctl[q] = s.ctl[q]
    BY <1>1, <1>2, <1>3, Edited
  <1>5. Effect(s, s1, p)
    BY <1>1, <1>2, <1>4 DEF Effect, FitFor
  <1>6. ForgetParent(s, p) = ReleaseRemoved(s1, p, s.snap[p].scope, Edges)
    BY DEF ForgetParent, s1
  <1>7. SameTree(s1, ForgetParent(s, p))
    BY <1>4, <1>6, ReleasesKeep
  <1>8. QED
    BY <1>5, <1>7, EffectSame

\* Editing one parent.
LEMMA EditEffect ==
    ASSUME NEW s \in States, NEW r, NEW p \in Parents, NEW sn, NEW c, Edit(s, r, p, sn, c),
           GoodSnap(sn), c \in Controllers, c.gen <= sn.gen,
           c.cleanup = "none", FitFor(sn, c)
    PROVE  r \in States /\ Effect(s, r, p)
  <1>1. /\ r \in States /\ r.snap[p] = sn /\ r.ctl[p] = c
        /\ \A q \in Parents : q # p => r.snap[q] = s.snap[q] /\ r.ctl[q] = s.ctl[q]
    BY Edited
  <1>2. QED
    BY <1>1 DEF Effect

LEMMA RescopeParentEffect ==
    ASSUME NEW s \in States, NEW p \in Parents, NEW ex, s.snap[p].known,
           scope \in [Parents -> SUBSET Issues]
    PROVE  Effect(s, RescopeParent(s, p, ex), p)
  <1> DEFINE old   == IF Reactivated(s, p, ex) THEN Replanned(s.snap[p]) ELSE s.snap[p]
             new   == ReconcileScope(old, scope[p])
             quiet == {c \in new.scope : ex[c] # "running"}
             s1    == [s EXCEPT !.snap[p] = new, !.receipts = @ \ {p}]
             sb    == Rebind(s1, "leaf", quiet, new.gen)
             s2    == ReleaseRemoved(sb, p, old.scope \ new.scope, Edges)
             s3    == [s2 EXCEPT !.stamp = [i \in Issues |-> IF i \in quiet THEN new.gen ELSE @[i]]]
             r     == RescopeParent(s, p, ex)
  <1>1. r = IF new.blocked THEN s3 ELSE [s3 EXCEPT !.ctl[p] = NewController(new.gen)]
    BY DEF RescopeParent
  <1>2. GoodSnap(s.snap[p]) /\ s.ctl[p] \in Controllers /\ s.ctl[p].gen <= s.snap[p].gen
        /\ s.ctl[p].gen \in Nat /\ s.snap[p].gen \in Nat
    BY StateFields
  <1>3. GoodSnap(old) /\ old.known /\ old.gen = s.snap[p].gen
    BY <1>2, ReplannedGood
  <1> HIDE DEF old
  <1>4. GoodSnap(new) /\ old.gen <= new.gen /\ new \in Snapshots /\ new.gen \in Nat
    <2>1. GoodSnap(new) /\ old.gen <= new.gen
      BY <1>3, ReconcileScopeGood
    <2> HIDE DEF new
    <2>2. new \in Snapshots
      BY <2>1 DEF GoodSnap
    <2>3. QED
      BY <2>1, <2>2 DEF Snapshots
  <1> HIDE DEF new, r
  <1>5. /\ s1 \in States /\ s1.snap[p] = new /\ s1.ctl[p] = s.ctl[p]
        /\ \A q \in Parents : q # p => s1.snap[q] = s.snap[q] /\ s1.ctl[q] = s.ctl[q]
    <2>1. Edit(s, s1, p, new, s.ctl[p])
      <3>1. s.ctl = [s.ctl EXCEPT ![p] = s.ctl[p]]
        BY DEF States, Records
      <3>2. QED
        BY <1>4, <3>1 DEF Edit, States, Records
    <2>2. s.ctl[p].gen <= new.gen
      BY <1>2, <1>3, <1>4
    <2> HIDE DEF s1
    <2>3. s.ctl[p] \in Controllers /\ GoodSnap(new)
      BY <1>2, <1>4
    <2> DEFINE c == s.ctl[p]
    <2>4. Edit(s, s1, p, new, c) /\ c.gen <= new.gen /\ c \in Controllers
      BY <2>1, <2>2, <2>3
    <2> HIDE DEF c
    <2>5. /\ s1 \in States /\ s1.snap[p] = new /\ s1.ctl[p] = c
          /\ \A q \in Parents : q # p => s1.snap[q] = s.snap[q] /\ s1.ctl[q] = s.ctl[q]
      BY <2>3, <2>4, Edited
    <2>6. QED
      BY <2>5 DEF c
  <1> HIDE DEF s1
  <1>6. SameTree(s1, sb)
    BY <1>4, <1>5, RebindKeeps
  <1> HIDE DEF sb
  <1>7. SameTree(sb, s2)
    BY <1>6, ReleasesKeep DEF SameTree
  <1> HIDE DEF s2
  <1>8. s3 \in States /\ s3.snap = s1.snap /\ s3.ctl = s1.ctl
    <2>1. s2 \in States /\ s2.stamp \in [Issues -> Nat] /\ s2.snap = s1.snap /\ s2.ctl = s1.ctl
      BY <1>6, <1>7 DEF SameTree, States, Records
    <2> DEFINE f == [i \in Issues |-> IF i \in quiet THEN new.gen ELSE s2.stamp[i]]
    <2>2. f \in [Issues -> Nat] /\ s3 = [s2 EXCEPT !.stamp = f]
      BY <1>4, <2>1
    <2> HIDE DEF f, s3
    <2>3. SameTree(s2, s3)
      BY <2>1, <2>2, StampKeeps
    <2>4. QED
      BY <2>1, <2>3 DEF SameTree
  <1> HIDE DEF s3
  <1>9. CASE new.blocked
    <2>1. r = s3
      BY <1>1, <1>9
    <2>2. r.snap[p] = new /\ r.ctl[p] = s.ctl[p]
      BY <1>5, <1>8, <2>1
    <2>3. \A q \in Parents : q # p => r.snap[q] = s.snap[q] /\ r.ctl[q] = s.ctl[q]
      BY <1>5, <1>8, <2>1
    <2>4. QED
      BY <1>9, <2>2, <2>3 DEF Effect, FitFor, r
  <1>10. CASE ~new.blocked
    <2> DEFINE c == NewController(new.gen)
    <2>1. r = [s3 EXCEPT !.ctl[p] = c]
      BY <1>1, <1>10
    <2>2. c \in Controllers /\ c.gen = new.gen
      BY <1>4, NewControllerTyped
    <2>3. FitFor(new, c) /\ c.cleanup = "none"
      BY NewControllerFits
    <2> HIDE DEF c
    <2>4. c.gen <= s3.snap[p].gen
      BY <1>4, <1>5, <1>8, <2>2
    <2>5. r.snap = s3.snap /\ r.ctl[p] = c /\ \A q \in Parents : q # p => r.ctl[q] = s3.ctl[q]
      BY <1>8, <2>1, <2>2, <2>4, CtlOnly
    <2>6. r.snap[p] = new /\ \A q \in Parents : q # p => r.snap[q] = s.snap[q] /\ r.ctl[q] = s.ctl[q]
      BY <1>5, <1>8, <2>5
    <2>7. QED
      BY <2>3, <2>5, <2>6 DEF Effect, r
  <1>11. QED
    BY <1>9, <1>10

LEMMA ReconcileParentEffect ==
    ASSUME NEW s \in States, NEW p \in Parents, NEW ex, scope \in [Parents -> SUBSET Issues]
    PROVE  Effect(s, ReconcileParent(s, p, ex), p)
  <1> DEFINE sn     == s.snap[p]
             retain == scope[p] \cup sn.scope # {} \/ sn.frozen \/ sn.blocked
             undone == p \notin open /\ ~HasFence(sn)
             s1     == IF undone THEN ReleaseUndispatched(s, p, Edges) ELSE s
             s0     == [s EXCEPT !.snap[p] = NewSnapshot(scope[p]), !.ctl[p] = NewController(1)]
             r      == [s1 EXCEPT !.snap[p] = Replanned(@), !.ctl[p] = NewController(sn.gen)]
  <1>0. GoodSnap(sn) /\ sn \in Snapshots /\ sn.gen \in Nat /\ Effect(s, s, p)
    BY StateFields DEF Effect
  <1>1. SameTree(s, s1)
    BY SameTreeRefl, ReleasesKeep
  <1>2. s1 \in States /\ s1.snap = s.snap /\ s1.ctl = s.ctl
    BY <1>1 DEF SameTree
  <1>3. CASE s.ctl[p].cleanup = "pending" \/ (~retain /\ ~sn.known)
    BY <1>0, <1>3 DEF ReconcileParent
  <1>4. CASE s.ctl[p].cleanup # "pending" /\ ~retain /\ sn.known
    <2>1. ReconcileParent(s, p, ex) = ForgetParent(s, p)
      BY <1>4 DEF ReconcileParent
    <2>2. QED
      BY <2>1, ForgetParentEffect
  <1>5. CASE s.ctl[p].cleanup # "pending" /\ retain /\ ~sn.known
    <2>1. ReconcileParent(s, p, ex) = IF p \in open THEN s0 ELSE ReleaseUndispatched(s0, p, Edges)
      BY <1>5 DEF ReconcileParent
    <2> DEFINE n == NewSnapshot(scope[p])
               c == NewController(1)
    <2>2. GoodSnap(n) /\ n \in Snapshots /\ n.gen = 1
      BY NewSnapshotGood DEF GoodSnap
    <2>3. c \in Controllers /\ c.gen = 1
      BY NewControllerTyped
    <2>4. FitFor(n, c) /\ c.cleanup = "none"
      BY <2>2, NewControllerFits
    <2>5. Edit(s, s0, p, n, c)
      <3>1. s0 = [s EXCEPT !.snap[p] = n, !.ctl[p] = c]
        OBVIOUS
      <3> HIDE DEF n, c, s0
      <3>2. QED
        BY <2>2, <2>3, <3>1, BothEdit
    <2> HIDE DEF n, c, s0
    <2>6. s0 \in States /\ Effect(s, s0, p)
      BY <2>2, <2>3, <2>4, <2>5, EditEffect
    <2>7. SameTree(s0, ReleaseUndispatched(s0, p, Edges))
      BY <2>6, ReleasesKeep
    <2>8. QED
      BY <2>1, <2>6, <2>7, EffectSame
  <1>6. CASE s.ctl[p].cleanup # "pending" /\ retain /\ sn.known /\ scope[p] # sn.scope
    <2>1. ReconcileParent(s, p, ex) = RescopeParent(s1, p, ex)
      BY <1>6 DEF ReconcileParent
    <2> HIDE DEF s1
    <2>2. Effect(s1, RescopeParent(s1, p, ex), p)
      BY <1>2, <1>6, RescopeParentEffect
    <2>3. QED
      BY <1>2, <2>1, <2>2 DEF Effect
  <1>7. CASE s.ctl[p].cleanup # "pending" /\ retain /\ sn.known /\ scope[p] = sn.scope
             /\ Reactivated(s1, p, ex)
    <2>1. ReconcileParent(s, p, ex) = r
      BY <1>7 DEF ReconcileParent
    <2> DEFINE n == Replanned(sn)
               c == NewController(sn.gen)
    <2>2. GoodSnap(n) /\ n.gen = sn.gen /\ n \in Snapshots
      BY <1>0, <1>7, ReplannedGood DEF GoodSnap
    <2>3. c \in Controllers /\ c.gen = sn.gen
      BY <1>0, NewControllerTyped
    <2>4. FitFor(n, c) /\ c.cleanup = "none"
      BY <2>2, NewControllerFits
    <2>5. s1.snap[p] = sn
      BY <1>2
    <2> HIDE DEF s1
    <2>6. Edit(s1, r, p, n, c)
      <3>1. r = [s1 EXCEPT !.snap[p] = n, !.ctl[p] = c]
        BY <2>5
      <3> HIDE DEF n, c, r
      <3>2. QED
        BY <1>2, <2>2, <2>3, <3>1, BothEdit
    <2>7. c.gen <= n.gen
      BY <1>0, <2>2, <2>3
    <2> HIDE DEF n, c, r
    <2>8. Effect(s1, r, p)
      BY <1>2, <2>2, <2>3, <2>4, <2>6, <2>7, EditEffect
    <2>9. QED
      BY <1>2, <2>1, <2>8 DEF Effect
  <1>8. CASE s.ctl[p].cleanup # "pending" /\ retain /\ sn.known /\ scope[p] = sn.scope
             /\ ~Reactivated(s1, p, ex)
    <2>1. ReconcileParent(s, p, ex) = s1
      BY <1>8 DEF ReconcileParent
    <2>2. QED
      BY <1>0, <1>1, <2>1, EffectSame
  <1>9. QED
    BY <1>3, <1>4, <1>5, <1>6, <1>7, <1>8

LEMMA EffectFits ==
    ASSUME NEW s, NEW r, NEW p \in Parents, Effect(s, r, p), Fit(s)
    PROVE  Fit(r) /\ Pend(r) \subseteq Pend(s)
  BY DEF Effect, Fit, Pend

\* No reconciliation starts a cleanup, and controllers stay with their parents.
LEMMA ReconciledFits ==
    ASSUME NEW s \in States, NEW S, NEW ex, Fit(s), scope \in [Parents -> SUBSET Issues]
    PROVE  Fit(Reconciled(s, S, ex)) /\ Pend(Reconciled(s, S, ex)) \subseteq Pend(s)
  <1> DEFINE D == {t \in States : Fit(t) /\ Pend(t) \subseteq Pend(s)}
  <1>1. s \in D
    OBVIOUS
  <1>2. ASSUME NEW t \in D, NEW p \in Parents \cap S
        PROVE  ReconcileParent(t, p, ex) \in D
    <2>1. ReconcileParent(t, p, ex) \in States
      BY ReconcileParentKeeps
    <2>2. Effect(t, ReconcileParent(t, p, ex), p)
      BY ReconcileParentEffect
    <2>3. Fit(ReconcileParent(t, p, ex)) /\ Pend(ReconcileParent(t, p, ex)) \subseteq Pend(t)
      BY <2>2, EffectFits
    <2>4. QED
      BY <2>1, <2>3
  <1> HIDE DEF D
  <1>3. Reconciled(s, S, ex) \in D
    BY <1>1, <1>2, ReconciledIn
  <1>4. QED
    BY <1>3 DEF D

-----------------------------------------------------------------------------
(* One step and the parents that are cleaned up or launched. *)

LEMMA StepHolds ==
    ASSUME HoldInv, Fit(mem'), disk' \in {disk, mem'},
           \A p \in Parents : exec'[p] \in Busy => exec[p] \in Busy,
           \A p \in Pend(mem') : p \in Pend(mem) \/ p \in Pend(disk) \/ exec'[p] \notin Busy,
           \A p \in Parents : exec'[p] = "claimed" =>
               /\ exec[p] = "claimed" /\ mem'.snap[p] = mem.snap[p]
               /\ \A c \in mem.snap[p].scope : exec'[c] \in Waiting => exec[c] \in Waiting,
           phase' = "down" => \A i \in Issues : exec'[i] # "running"
    PROVE  HoldInv'
  <1>1. Fit(disk')
    BY DEF HoldInv
  <1>2. ASSUME NEW p \in Parents, exec'[p] \in Busy PROVE p \notin Pend(mem') \cup Pend(disk')
    <2>1. p \notin Pend(mem) \cup Pend(disk)
      BY <1>2 DEF HoldInv
    <2>2. p \notin Pend(mem')
      BY <1>2, <2>1
    <2>3. QED
      BY <2>1, <2>2
  <1>3. ASSUME NEW p \in Parents, exec'[p] = "claimed", NEW c \in mem'.snap[p].scope
        PROVE  exec'[c] \notin Waiting
    <2>1. exec[p] = "claimed" /\ mem'.snap[p] = mem.snap[p] /\ c \in mem.snap[p].scope
      BY <1>3
    <2>2. exec[c] \notin Waiting
      BY <2>1 DEF HoldInv
    <2>3. QED
      BY <1>3, <2>1, <2>2
  <1>4. QED
    BY <1>1, <1>2, <1>3 DEF HoldInv

\* Between ticks, and while the issues are settled, nothing is being launched.
LEMMA NoClaimHolds ==
    ASSUME HoldInv, \A i \in Issues : exec'[i] # "claimed", phase' # "down",
           Fit(mem'), disk' \in {disk, mem'},
           \A i \in Issues : exec'[i] \in Busy => exec[i] \in Busy,
           \A p \in Pend(mem') : p \in Pend(mem) \/ exec'[p] \notin Busy
    PROVE  HoldInv'
  <1>1. \A p \in Parents : p \in Issues
    BY DEF Issues
  <1>2. \A p \in Parents : exec'[p] # "claimed" /\ (exec'[p] \in Busy => exec[p] \in Busy)
    BY <1>1
  <1>3. QED
    BY <1>2, StepHolds

\* The same copies of the state and nothing claimed anew.
LEMMA SameCopiesHold ==
    ASSUME HoldInv, mem \in States, mem' = mem, disk' = disk, phase' # "down",
           \A i \in Issues : exec'[i] = exec[i] \/ exec'[i] \notin Waiting \cup Busy
    PROVE  HoldInv'
  <1>1. Fit(mem') /\ Pend(mem') = Pend(mem) /\ disk' \in {disk, mem'}
    BY DEF HoldInv
  <1>2. ASSUME NEW p \in Parents, exec'[p] \in Busy PROVE exec[p] \in Busy
    BY <1>2 DEF Issues
  <1>3. ASSUME NEW p \in Parents, exec'[p] = "claimed"
        PROVE  exec[p] = "claimed" /\ mem'.snap[p] = mem.snap[p]
    BY <1>3 DEF Issues, Busy
  <1>4. ASSUME NEW p \in Parents, exec'[p] = "claimed", NEW c \in mem.snap[p].scope, exec'[c] \in Waiting,
               exec[p] = "claimed"
        PROVE  exec[c] \in Waiting
    <2>1. c \in Issues
      BY <1>4, StateFields DEF Snapshots
    <2>2. QED
      BY <1>4, <2>1
  <1>5. QED
    BY <1>1, <1>2, <1>3, <1>4, StepHolds

LEMMA RefreshHolds ==
    ASSUME IInv, HoldInv, NEW ok \in BOOLEAN, Refresh(ok)
    PROVE  HoldInv'
  <1> DEFINE s1 == ReconcileActive(mem, exec)
             s2 == ReconcileTerminal(s1, exec)
             x2 == Reopened(mem, s2, exec)
  <1>1. Typed /\ mem \in States /\ scope \in [Parents -> SUBSET Issues] /\ Fit(mem)
    BY DEF IInv, Typed, HoldInv
  <1>2. s1 \in States /\ Fit(s1) /\ Pend(s1) \subseteq Pend(mem)
    BY <1>1, ReconciledKeeps, ReconciledFits DEF ReconcileActive
  <1> HIDE DEF s1
  <1>3. Fit(s2) /\ Pend(s2) \subseteq Pend(s1)
    BY <1>1, <1>2, ReconciledFits DEF ReconcileTerminal
  <1> HIDE DEF s2
  <1>4. \A i \in Issues : x2[i] = exec[i] \/ (exec[i] = "done" /\ x2[i] = "unclaimed")
    BY <1>1, ReopenedExec DEF Typed
  <1> HIDE DEF x2
  <1>5. /\ phase = "idle" /\ phase' \in {"idle", "settle"} /\ exec' = x2
        /\ mem' \in {mem, s2} /\ disk' \in {disk, mem'}
    BY DEF Refresh, s1, s2, x2, SavedOrUndone, NotSaved
  <1>6. \A i \in Issues : exec[i] # "claimed"
    BY <1>5, NoClaims
  <1>7. Fit(mem') /\ Pend(mem') \subseteq Pend(mem)
    BY <1>1, <1>2, <1>3, <1>5
  <1>8. \A i \in Issues : exec'[i] # "claimed" /\ (exec'[i] \in Busy => exec[i] \in Busy)
    BY <1>4, <1>5, <1>6 DEF Busy
  <1>9. QED
    BY <1>5, <1>7, <1>8, NoClaimHolds

LEMMA StopRefusedHolds ==
    ASSUME IInv, HoldInv, NEW i \in Issues, StopRefused(i)
    PROVE  HoldInv'
  <1>1. mem' = mem /\ disk' = disk /\ exec' = exec /\ phase' \in {"settle", "dispatch"}
    BY SettledPhase DEF StopRefused, Settling
  <1>2. mem \in States
    BY DEF IInv, Typed
  <1>3. QED
    BY <1>1, <1>2, SameCopiesHold

LEMMA UpsertHolds ==
    ASSUME IInv, HoldInv, NEW i \in Issues, Upsert(i)
    PROVE  HoldInv'
  <1>1. phase = "settle" /\ phase' \in {"settle", "dispatch"} /\ disk' = disk
        /\ exec' \in {exec, [exec EXCEPT ![i] = "unclaimed"]}
        /\ mem' \in {mem, [mem EXCEPT !.receipts = @ \ {i}]}
    BY SettledPhase DEF Upsert, Settling
  <1>2. mem \in States /\ Typed
    BY DEF IInv, Typed
  <1>3. \A j \in Issues : exec[j] # "claimed"
    BY <1>1, NoClaims
  <1>4. mem'.snap = mem.snap /\ mem'.ctl = mem.ctl
    BY <1>1, <1>2 DEF States, Records
  <1>5. Fit(mem') /\ Pend(mem') = Pend(mem)
    BY <1>4, FitSame DEF HoldInv
  <1>6. \A j \in Issues : exec'[j] # "claimed" /\ (exec'[j] \in Busy => exec[j] \in Busy)
    BY <1>1, <1>2, <1>3 DEF Busy, Typed
  <1>7. QED
    BY <1>1, <1>5, <1>6, NoClaimHolds

-----------------------------------------------------------------------------
(* Outcomes, releases, the operator and the cleanup. *)

\* Another state of one controller.
LEMMA StFits ==
    ASSUME NEW s \in States, NEW p \in Parents, NEW x, Fit(s), s.ctl[p].cleanup # "pending"
    PROVE  LET r == [s EXCEPT !.ctl[p].st = x] IN Fit(r) /\ Pend(r) \subseteq Pend(s)
  <1> DEFINE r == [s EXCEPT !.ctl[p].st = x]
  <1>1. /\ r.snap = s.snap /\ r.ctl[p].gen = s.ctl[p].gen /\ r.ctl[p].cleanup = s.ctl[p].cleanup
        /\ \A q \in Parents : q # p => r.ctl[q] = s.ctl[q]
    BY DEF States, Records, Controllers
  <1> HIDE DEF r
  <1>2. FitFor(r.snap[p], r.ctl[p])
    BY <1>1 DEF Fit, FitFor
  <1>3. Fit(r) /\ Pend(r) \subseteq Pend(s)
    BY <1>1, <1>2, FitOthers
  <1>4. QED
    BY <1>3 DEF r

LEMMA ReleasedFits ==
    ASSUME NEW s \in States, NEW p \in Parents, NEW x, NEW closed, Fit(s)
    PROVE  LET r == Lifted(s, p, x, ReleasedController(s.ctl[p], closed))
           IN  Fit(r) /\ Pend(r) \subseteq Pend(s)
  <1> DEFINE c == ReleasedController(s.ctl[p], closed)
             r == Lifted(s, p, x, c)
  <1>1. /\ r.snap[p] = [s.snap[p] EXCEPT !.inFlight = x] /\ r.ctl[p] = c
        /\ \A q \in Parents : q # p => r.snap[q] = s.snap[q] /\ r.ctl[q] = s.ctl[q]
    <2> HIDE DEF c
    <2>1. QED
      BY DEF Lifted, States, Records
  <1>2. s.ctl[p] \in Controllers /\ s.snap[p] \in Snapshots /\ FitFor(s.snap[p], s.ctl[p])
    BY StateFields DEF Fit
  <1>3. /\ c.gen = s.ctl[p].gen /\ c.cleanup = s.ctl[p].cleanup
        /\ s.ctl[p].st \in {"completed", "canceled"} => c.st = s.ctl[p].st
    BY <1>2 DEF ReleasedController, Controllers
  <1> HIDE DEF c, r
  <1>4. /\ r.snap[p].known = s.snap[p].known /\ r.snap[p].gen = s.snap[p].gen
        /\ r.snap[p].blocked = s.snap[p].blocked
    BY <1>1, <1>2 DEF Snapshots
  <1>5. FitFor(r.snap[p], r.ctl[p])
    BY <1>1, <1>2, <1>3, <1>4 DEF FitFor
  <1>6. Fit(r) /\ Pend(r) \subseteq Pend(s)
    BY <1>1, <1>3, <1>5, FitOthers
  <1>7. QED
    BY <1>6 DEF r, c

LEMMA ReleaseHolds ==
    ASSUME IInv, HoldInv, NEW i \in Issues, NEW ok \in BOOLEAN, Release(i, ok)
    PROVE  HoldInv'
  <1> DEFINE stops  == exec[i] = "running"
             closed == i \notin view.open
             x  == IF stops /\ Blocked(i) THEN 0 ELSE mem.snap[i].inFlight
             s1 == IF i \in Parents
                   THEN [mem EXCEPT !.snap[i].inFlight = x, !.ctl[i] = ReleasedController(@, closed)]
                   ELSE mem
             sr == [s1 EXCEPT !.receipts = IF exec[i] = "done" THEN @ \cup {i} ELSE @]
             s2 == IF closed /\ Finalized(s1, i) THEN RetainTerminalChildLease(sr, i) ELSE s1
  <1>1. Typed /\ mem \in States /\ Fit(mem)
    BY DEF IInv, Typed, HoldInv
  <1>2. phase = "settle" /\ phase' \in {"idle", "settle", "dispatch"}
    BY SettledPhase DEF Release, Settling, EndTick
  <1>3. \A j \in Issues : exec[j] # "claimed"
    BY <1>2, NoClaims
  <1>4. s1 \in States /\ Fit(s1) /\ Pend(s1) \subseteq Pend(mem)
    <2>1. x \in {0, mem.snap[i].inFlight}
      OBVIOUS
    <2> HIDE DEF x, closed
    <2>2. CASE i \in Parents
      <3> DEFINE c == ReleasedController(mem.ctl[i], closed)
                 r == Lifted(mem, i, x, c)
      <3>1. c \in Controllers /\ c.gen = mem.ctl[i].gen
        BY <1>1, <2>2, StateFields, ReleasedControllerTyped
      <3>2. s1 = r
        BY <2>2 DEF Lifted
      <3>3. Fit(r) /\ Pend(r) \subseteq Pend(mem)
        BY <1>1, <2>2, ReleasedFits
      <3> HIDE DEF c, s1
      <3>4. r \in States
        BY <1>1, <2>1, <2>2, <3>1, ReleasedParent
      <3> HIDE DEF r
      <3>5. QED
        BY <3>2, <3>3, <3>4
    <2>3. CASE i \notin Parents
      BY <1>1, <2>3
    <2>4. QED
      BY <2>2, <2>3
  <1>5. /\ mem' \in {mem, s2} /\ disk' \in {disk, mem'}
        /\ exec' \in {exec, [exec EXCEPT ![i] = IF closed THEN "terminal" ELSE "parked"]}
    BY DEF Release, SavedOrUndone, NotSaved
  <1> HIDE DEF s1
  <1>6. SameTree(s1, sr)
    <2>1. (IF exec[i] = "done" THEN s1.receipts \cup {i} ELSE s1.receipts) \in SUBSET Issues
      BY <1>4 DEF States, Records
    <2>2. QED
      BY <1>4, <2>1, ReceiptsKeep
  <1> HIDE DEF sr
  <1>7. SameTree(s1, s2)
    <2>1. SameTree(sr, RetainTerminalChildLease(sr, i))
      BY <1>6, RetainKeeps DEF SameTree
    <2>2. QED
      BY <1>4, <1>6, <2>1, SameTreeTrans, SameTreeRefl
  <1> HIDE DEF s2
  <1>8. Fit(s2) /\ Pend(s2) = Pend(s1)
    BY <1>4, <1>7, FitSame DEF SameTree
  <1>9. Fit(mem') /\ Pend(mem') \subseteq Pend(mem)
    BY <1>1, <1>4, <1>5, <1>8
  <1>10. \A j \in Issues : exec'[j] # "claimed" /\ (exec'[j] \in Busy => exec[j] \in Busy)
    BY <1>1, <1>3, <1>5 DEF Busy, Typed
  <1>11. QED
    BY <1>2, <1>5, <1>9, <1>10, NoClaimHolds

LEMMA FinishLeafHolds ==
    ASSUME IInv, HoldInv, NEW i \in Leaves, NEW ok \in BOOLEAN, FinishLeaf(i, ok)
    PROVE  HoldInv'
  <1> DEFINE rt == RetainTerminalChildLease(mem, i)
             kept == [rt EXCEPT !.receipts = @ \cup {i}]
             s0 == IF i \notin open THEN kept ELSE mem
             s1 == Rebound(s0, i)
  <1>1. Typed /\ mem \in States /\ Fit(mem) /\ i \in Issues
    BY DEF IInv, Typed, HoldInv, Issues
  <1>2. /\ phase = "idle" /\ phase' = phase
        /\ mem' \in {mem, s1} /\ disk' \in {disk, mem'}
        /\ exec' \in {exec, [exec EXCEPT ![i] = IF i \notin open THEN "terminal" ELSE "retry"]}
    BY DEF FinishLeaf, SavedOrUndone, NotSaved
  <1>3. \A j \in Issues : exec[j] # "claimed"
    BY <1>2, NoClaims
  <1>4. SameTree(mem, rt)
    BY <1>1, RetainKeeps
  <1> HIDE DEF rt
  <1>5. SameTree(rt, kept)
    <2>1. rt.receipts \cup {i} \in SUBSET Issues
      BY <1>1, <1>4 DEF SameTree, States, Records
    <2>2. QED
      BY <1>4, <2>1, ReceiptsKeep DEF SameTree
  <1> HIDE DEF kept
  <1>6. SameTree(mem, s0)
    BY <1>1, <1>4, <1>5, SameTreeTrans, SameTreeRefl
  <1> HIDE DEF s0
  <1>7. SameTree(s0, s1)
    BY <1>1, <1>6, ReboundKeeps DEF SameTree
  <1> HIDE DEF s1
  <1>8. Fit(mem') /\ Pend(mem') = Pend(mem)
    BY <1>1, <1>2, <1>6, <1>7, FitSame DEF SameTree
  <1>9. \A j \in Issues : exec'[j] # "claimed" /\ (exec'[j] \in Busy => exec[j] \in Busy)
    BY <1>1, <1>2, <1>3 DEF Busy, Typed
  <1>10. QED
    BY <1>2, <1>8, <1>9, NoClaimHolds

LEMMA FinishParentHolds ==
    ASSUME IInv, HoldInv, NEW p \in Parents, NEW outcome \in {"pass", "repair", "fail"},
           NEW ok \in BOOLEAN, FinishParent(p, outcome, ok)
    PROVE  HoldInv'
  <1> DEFINE closed == p \notin open
             st == CASE outcome = "pass"   -> IF closed THEN "completed" ELSE "passed"
                     [] outcome = "repair" -> "fixing"
                     [] outcome = "fail"   -> "retry"
             s1 == [mem EXCEPT !.ctl[p].st = st]
             s2 == IF closed /\ Finalized(s1, p) THEN [s1 EXCEPT !.receipts = @ \cup {p}] ELSE s1
             s3 == Rebound(s2, p)
  <1>1. Typed /\ mem \in States /\ p \in Issues /\ Fit(mem)
    BY DEF IInv, Typed, Issues, HoldInv
  <1>2. /\ phase = "idle" /\ phase' = phase /\ exec[p] = "running"
        /\ mem' \in {mem, s3} /\ disk' \in {disk, mem'}
        /\ \/ exec' = exec
           \/ exec' = [exec EXCEPT ![p] = IF closed THEN "terminal"
                                          ELSE IF st = "retry" THEN "retry" ELSE "done"]
    BY DEF FinishParent, SavedOrUndone
  <1>3. \A j \in Issues : exec[j] # "claimed"
    BY <1>2, NoClaims
  <1>4. st \in CtlStates
    BY DEF CtlStates
  <1> HIDE DEF st
  <1>5. mem.ctl[p].cleanup # "pending"
    BY <1>2 DEF HoldInv, Busy, Pend
  <1>6. s1 \in States /\ Fit(s1) /\ Pend(s1) \subseteq Pend(mem)
    BY <1>1, <1>4, <1>5, CtlState, StFits
  <1> HIDE DEF s1
  <1>7. SameTree(s1, s2)
    <2>1. s1.receipts \cup {p} \in SUBSET Issues
      BY <1>1, <1>6 DEF States, Records
    <2>2. SameTree(s1, [s1 EXCEPT !.receipts = s1.receipts \cup {p}])
      BY <1>6, <2>1, ReceiptsKeep
    <2>3. QED
      BY <1>6, <2>2, SameTreeRefl
  <1> HIDE DEF s2
  <1>8. SameTree(s2, s3)
    BY <1>1, <1>7, ReboundKeeps DEF SameTree
  <1> HIDE DEF s3
  <1>9. SameTree(s1, s3)
    BY <1>7, <1>8, SameTreeTrans
  <1>10. Fit(s3) /\ Pend(s3) = Pend(s1)
    BY <1>6, <1>9, FitSame DEF SameTree
  <1>11. Fit(mem') /\ Pend(mem') \subseteq Pend(mem)
    BY <1>1, <1>2, <1>6, <1>10
  <1>12. \A j \in Issues : exec'[j] # "claimed" /\ (exec'[j] \in Busy => exec[j] \in Busy)
    BY <1>1, <1>2, <1>3 DEF Busy, Typed
  <1>13. QED
    BY <1>2, <1>11, <1>12, NoClaimHolds

LEMMA RepairMergedHolds ==
    ASSUME IInv, HoldInv, NEW p \in Parents, RepairMerged(p)
    PROVE  HoldInv'
  <1>1. Typed /\ mem \in States /\ Fit(mem)
    BY DEF IInv, Typed, HoldInv
  <1>2. /\ phase = "idle" /\ phase' = phase /\ mem.ctl[p].st = "fixing"
        /\ exec' = [exec EXCEPT ![p] = "retry"]
        /\ mem' = [mem EXCEPT !.ctl[p].st = "retry"] /\ disk' = mem'
    BY DEF RepairMerged, SavedOrUndone
  <1>3. mem.ctl[p].cleanup # "pending"
    BY <1>1, <1>2 DEF Fit, FitFor
  <1>4. Fit(mem') /\ Pend(mem') \subseteq Pend(mem)
    BY <1>1, <1>2, <1>3, StFits
  <1>5. \A j \in Issues : exec[j] # "claimed"
    BY <1>2, NoClaims
  <1>6. \A j \in Issues : exec'[j] # "claimed" /\ (exec'[j] \in Busy => exec[j] \in Busy)
    BY <1>1, <1>2, <1>5 DEF Busy, Typed
  <1>7. QED
    BY <1>2, <1>4, <1>6, NoClaimHolds

LEMMA ReplanHolds ==
    ASSUME IInv, HoldInv, NEW p \in Parents, NEW ok \in BOOLEAN, Replan(p, ok)
    PROVE  HoldInv'
  <1> DEFINE sn == mem.snap[p]
             s0 == [mem EXCEPT !.snap[p] = Replanned(@)]
             s1 == Rebind(s0, "ancestor", {p}, sn.gen)
             s2 == IF mem.ctl[p].gen = sn.gen THEN s1 ELSE [s1 EXCEPT !.ctl[p] = NewController(sn.gen)]
             x2 == Reopened(mem, s2, exec)
  <1>1. Typed /\ mem \in States /\ Fit(mem)
    BY DEF IInv, Typed, HoldInv
  <1>2. /\ phase = "idle" /\ phase' = phase /\ sn.known /\ mem.ctl[p].cleanup # "pending"
        /\ mem' \in {mem, s2} /\ disk' \in {disk, mem'} /\ exec' \in {exec, x2}
    BY DEF Replan, SavedOrUndone
  <1>3. \A j \in Issues : exec[j] # "claimed"
    BY <1>2, NoClaims
  <1>4. GoodSnap(sn) /\ mem.ctl[p] \in Controllers /\ mem.ctl[p].gen <= sn.gen /\ sn.gen \in Nat
    BY <1>1, StateFields
  <1>5. GoodSnap(Replanned(sn)) /\ Replanned(sn).gen = sn.gen /\ Replanned(sn) \in Snapshots
    <2>1. GoodSnap(Replanned(sn)) /\ Replanned(sn).gen = sn.gen
      BY <1>2, <1>4, ReplannedGood
    <2>2. QED
      BY <2>1 DEF GoodSnap
  <1>6. Edit(mem, s0, p, Replanned(sn), mem.ctl[p])
    BY <1>1, <1>5, SnapEdit
  <1> HIDE DEF s0
  <1>7. /\ s0 \in States /\ s0.snap[p] = Replanned(sn) /\ s0.ctl[p] = mem.ctl[p]
        /\ \A q \in Parents : q # p => s0.snap[q] = mem.snap[q] /\ s0.ctl[q] = mem.ctl[q]
    BY <1>1, <1>4, <1>5, <1>6, Edited
  <1>8. SameTree(s0, s1)
    BY <1>4, <1>7, RebindKeeps
  <1> HIDE DEF s1
  <1>9. s1 \in States /\ s1.snap = s0.snap /\ s1.ctl = s0.ctl
    BY <1>8 DEF SameTree
  <1>10. /\ s2.snap = s0.snap /\ s2.ctl[p].gen = sn.gen /\ s2.ctl[p].cleanup # "pending"
         /\ \A q \in Parents : q # p => s2.ctl[q] = mem.ctl[q]
    <2>1. CASE mem.ctl[p].gen = sn.gen
      BY <1>2, <1>7, <1>9, <2>1
    <2>2. CASE mem.ctl[p].gen # sn.gen
      <3> DEFINE c == NewController(sn.gen)
      <3>1. s2 = [s1 EXCEPT !.ctl[p] = c]
        BY <2>2
      <3>2. c \in Controllers /\ c.gen = sn.gen /\ c.cleanup = "none"
        BY <1>4, NewControllerTyped, NewControllerFits
      <3> HIDE DEF c, s2
      <3>3. c.gen <= s1.snap[p].gen
        BY <1>4, <1>5, <1>7, <1>9, <3>2
      <3>4. s2.snap = s1.snap /\ s2.ctl[p] = c /\ \A q \in Parents : q # p => s2.ctl[q] = s1.ctl[q]
        BY <1>9, <3>1, <3>2, <3>3, CtlOnly
      <3>5. QED
        BY <1>7, <1>9, <3>2, <3>4
    <2>3. QED
      BY <2>1, <2>2
  <1> HIDE DEF s2
  <1>11. FitFor(s2.snap[p], s2.ctl[p])
    BY <1>5, <1>7, <1>10 DEF FitFor
  <1>12. Fit(s2) /\ Pend(s2) \subseteq Pend(mem)
    BY <1>1, <1>7, <1>10, <1>11, FitOthers
  <1>13. \A i \in Issues : x2[i] = exec[i] \/ (exec[i] = "done" /\ x2[i] = "unclaimed")
    BY <1>1, ReopenedExec DEF Typed
  <1> HIDE DEF x2
  <1>14. \A i \in Issues : exec'[i] # "claimed" /\ (exec'[i] \in Busy => exec[i] \in Busy)
    BY <1>2, <1>3, <1>13 DEF Busy
  <1>15. Fit(mem') /\ Pend(mem') \subseteq Pend(mem)
    BY <1>1, <1>2, <1>12
  <1>16. QED
    BY <1>2, <1>14, <1>15, NoClaimHolds

LEMMA CaptureHolds ==
    ASSUME IInv, HoldInv, NEW p \in Parents, NEW ok \in BOOLEAN, Capture(p, ok)
    PROVE  HoldInv'
  <1> DEFINE held == {l.res : l \in {k \in mem.leases : k.kind = "ancestor" /\ k.owner = p
                                                        /\ k.gen = mem.ctl[p].gen}}
             c == [mem.ctl[p] EXCEPT !.cleanup = "pending", !.targets = held]
             s == [mem EXCEPT !.ctl[p] = c]
  <1>1. Typed /\ mem \in States /\ Fit(mem) /\ p \in Issues
    BY DEF IInv, Typed, HoldInv, Issues
  <1>2. /\ phase = "idle" /\ phase' = phase /\ exec' = exec /\ exec[p] = "terminal"
        /\ mem.ctl[p].st \in {"completed", "canceled"}
        /\ mem' \in {mem, s} /\ disk' \in {disk, mem'}
    BY DEF Capture, SavedOrUndone
  <1>3. \A j \in Issues : exec[j] # "claimed"
    BY <1>2, NoClaims
  <1>4. mem.ctl[p] \in Controllers /\ FitFor(mem.snap[p], mem.ctl[p])
    BY <1>1, StateFields DEF Fit
  <1>5. c.st = mem.ctl[p].st /\ c.gen = mem.ctl[p].gen
    <2> HIDE DEF held
    <2>1. QED
      BY <1>4 DEF Controllers
  <1> HIDE DEF c
  <1>6. /\ s.snap = mem.snap /\ s.ctl[p] = c
        /\ \A q \in Parents : q # p => s.ctl[q] = mem.ctl[q]
    BY <1>1 DEF States, Records
  <1> HIDE DEF s
  <1>7. FitFor(s.snap[p], s.ctl[p])
    BY <1>2, <1>4, <1>5, <1>6 DEF FitFor
  <1>8. Fit(s) /\ Pend(s) \subseteq Pend(mem) \cup {p}
    BY <1>1, <1>6, <1>7, FitOthers
  <1>9. Fit(mem') /\ \A q \in Pend(mem') : q \in Pend(mem) \/ exec'[q] \notin Busy
    BY <1>1, <1>2, <1>8 DEF Busy
  <1>10. QED
    BY <1>2, <1>3, <1>9, NoClaimHolds

LEMMA CleanUpHolds ==
    ASSUME IInv, HoldInv, NEW p \in Parents, NEW ok \in BOOLEAN, CleanUp(p, ok)
    PROVE  HoldInv'
  <1> DEFINE s1   == ReleaseParentResources(mem, p, mem.ctl[p].targets)
             busy == {r \in mem.ctl[p].targets :
                         Held(s1, r) \/ r \in open \/ exec[r] \in {"running", "retry"}}
             c    == [s1.ctl[p] EXCEPT !.targets = busy,
                                       !.cleanup = IF busy = {} THEN "done" ELSE "pending"]
             s2   == [s1 EXCEPT !.ctl[p] = c]
  <1>1. Typed /\ mem \in States /\ Fit(mem)
    BY DEF IInv, Typed, HoldInv
  <1>2. /\ phase = "idle" /\ phase' = phase /\ exec' = exec /\ mem.ctl[p].cleanup = "pending"
        /\ mem' \in {mem, s2} /\ disk' \in {disk, mem'}
    BY DEF CleanUp, SavedOrUndone
  <1>3. \A j \in Issues : exec[j] # "claimed"
    BY <1>2, NoClaims
  <1>4. SameTree(mem, s1)
    BY <1>1, ReleasesKeep
  <1>5. s1 \in States /\ s1.snap = mem.snap /\ s1.ctl = mem.ctl
    BY <1>4 DEF SameTree
  <1>6. mem.ctl[p] \in Controllers /\ FitFor(mem.snap[p], mem.ctl[p])
    BY <1>1, StateFields DEF Fit
  <1> HIDE DEF s1
  <1>7. c.st = mem.ctl[p].st /\ c.gen = mem.ctl[p].gen
    <2> HIDE DEF busy
    <2>1. QED
      BY <1>5, <1>6 DEF Controllers
  <1> HIDE DEF c
  <1>8. /\ s2.snap = mem.snap /\ s2.ctl[p] = c
        /\ \A q \in Parents : q # p => s2.ctl[q] = mem.ctl[q]
    BY <1>5 DEF States, Records
  <1> HIDE DEF s2
  <1>9. FitFor(s2.snap[p], s2.ctl[p])
    BY <1>2, <1>6, <1>7, <1>8 DEF FitFor
  <1>10. Fit(s2) /\ Pend(s2) \subseteq Pend(mem)
    BY <1>1, <1>2, <1>8, <1>9, FitOthers
  <1>11. Fit(mem') /\ Pend(mem') \subseteq Pend(mem)
    BY <1>1, <1>2, <1>10
  <1>12. QED
    BY <1>2, <1>3, <1>11, NoClaimHolds

-----------------------------------------------------------------------------
(* The marks of a launch move no parent. *)

Unmoved(s, r) ==
    /\ r.ctl = s.ctl
    /\ \A q \in Parents : /\ r.snap[q].known = s.snap[q].known /\ r.snap[q].gen = s.snap[q].gen
                          /\ r.snap[q].blocked = s.snap[q].blocked
                          /\ r.snap[q].scope = s.snap[q].scope

LEMMA UnmovedFits ==
    ASSUME NEW s, NEW r, Unmoved(s, r), Fit(s)
    PROVE  Fit(r) /\ Pend(r) = Pend(s)
  BY DEF Unmoved, Fit, FitFor, Pend

LEMMA UnmovedTrans ==
    ASSUME NEW s, NEW r, NEW t, Unmoved(s, r), Unmoved(r, t)
    PROVE  Unmoved(s, t)
  BY DEF Unmoved

LEMMA SameTreeUnmoved ==
    ASSUME NEW s, NEW r, SameTree(s, r)
    PROVE  Unmoved(s, r)
  BY DEF Unmoved, SameTree

LEMMA SnapUnmoved ==
    ASSUME NEW s \in States, NEW p \in Parents, NEW sn, sn.known = s.snap[p].known,
           sn.gen = s.snap[p].gen, sn.blocked = s.snap[p].blocked, sn.scope = s.snap[p].scope
    PROVE  Unmoved(s, [s EXCEPT !.snap[p] = sn])
  <1> DEFINE r == [s EXCEPT !.snap[p] = sn]
  <1>1. r.ctl = s.ctl /\ r.snap[p] = sn /\ \A q \in Parents : q # p => r.snap[q] = s.snap[q]
    BY DEF States, Records
  <1> HIDE DEF r
  <1>2. Unmoved(s, r)
    BY <1>1 DEF Unmoved
  <1>3. QED
    BY <1>2 DEF r

LEMMA MarksUnmoved ==
    ASSUME NEW s \in States, NEW p \in Parents
    PROVE  /\ Unmoved(s, [s EXCEPT !.snap[p] = MarkDispatched(@)])
           /\ Unmoved(s, [s EXCEPT !.snap[p].intent = 0])
           /\ Unmoved(s, [s EXCEPT !.snap[p] = RestoreFence(@)])
  <1>1. s.snap[p] \in Snapshots
    BY StateFields
  <1> DEFINE Same(sn) == /\ sn.known = s.snap[p].known /\ sn.gen = s.snap[p].gen
                         /\ sn.blocked = s.snap[p].blocked /\ sn.scope = s.snap[p].scope
  <1>2. Same(MarkDispatched(s.snap[p]))
    BY <1>1 DEF MarkDispatched, Snapshots
  <1>3. Same([s.snap[p] EXCEPT !.intent = 0])
    BY <1>1 DEF Snapshots
  <1>4. Same(RestoreFence(s.snap[p]))
    BY <1>1 DEF RestoreFence, Snapshots
  <1>5. ASSUME NEW sn, Same(sn) PROVE Unmoved(s, [s EXCEPT !.snap[p] = sn])
    BY <1>5, SnapUnmoved
  <1> HIDE DEF Same
  <1>6. QED
    BY <1>2, <1>3, <1>4, <1>5

LEMMA DispatchedUnmoved ==
    ASSUME NEW s \in States, NEW p \in Parents, s.snap[p].known
    PROVE  Unmoved(s, Dispatched(s, p))
  <1> DEFINE s1 == [s EXCEPT !.snap[p] = MarkDispatched(@)]
             s2 == ReleaseLeafLeasesFor(s1, p)
             r  == Dispatched(s, p)
  <1>1. r = ReleaseAncestorLeasesOf(s2, s.snap[p].scope \cap Known(s))
    BY DEF Dispatched
  <1>2. s1 \in States /\ Unmoved(s, s1)
    <2>1. GoodSnap(s.snap[p]) /\ s.ctl[p] \in Controllers /\ s.ctl[p].gen <= s.snap[p].gen
      BY StateFields
    <2> DEFINE m == MarkDispatched(s.snap[p])
    <2>2. GoodSnap(m) /\ m.gen = s.snap[p].gen
      BY <2>1, MarkDispatchedGood
    <2> HIDE DEF m
    <2>3. m \in Snapshots
      BY <2>2 DEF GoodSnap
    <2>4. Edit(s, [s EXCEPT !.snap[p] = m], p, m, s.ctl[p])
      BY <2>3, SnapEdit
    <2>5. [s EXCEPT !.snap[p] = m] \in States
      BY <2>1, <2>2, <2>4, Edited
    <2>6. QED
      BY <2>5, MarksUnmoved DEF m
  <1> HIDE DEF s1, r
  <1>3. SameTree(s1, s2) /\ s2 \in States
    BY <1>2, ReleasesKeep DEF SameTree
  <1>4. SameTree(s2, r)
    BY <1>1, <1>3, ReleasesKeep
  <1>5. Unmoved(s1, r)
    BY <1>3, <1>4, SameTreeTrans, SameTreeUnmoved
  <1>6. QED
    BY <1>2, <1>5, UnmovedTrans DEF r

LEMMA ResumedUnmoved ==
    ASSUME NEW s \in States, NEW p \in Parents, NEW back
    PROVE  Unmoved(s, Resumed(s, p, back))
  <1> DEFINE sn == s.snap[p]
             r  == Resumed(s, p, back)
  <1>1. CASE sn.intent = 0 \/ sn.intent # sn.gen
    BY <1>1, SameTreeRefl, SameTreeUnmoved DEF Resumed
  <1>2. CASE ~(sn.intent = 0 \/ sn.intent # sn.gen)
    <2>1. sn.known
      <3> SUFFICES ASSUME ~sn.known PROVE FALSE
        OBVIOUS
      <3>1. sn = NoSnapshot
        BY StateFields DEF GoodSnap, SnapshotOK
      <3>2. QED
        BY <1>2, <3>1, NoSnapshotFields
    <2>2. CASE p \notin back
      <3>1. r = [s EXCEPT !.snap[p].intent = 0]
        BY <1>2, <2>2 DEF Resumed
      <3>2. QED
        BY <3>1, MarksUnmoved
    <2>3. CASE p \in back /\ p \in open
      <3>1. r = Dispatched(s, p)
        BY <1>2, <2>3 DEF Resumed
      <3>2. QED
        BY <2>1, <3>1, DispatchedUnmoved
    <2>4. CASE p \in back /\ p \notin open
      <3>1. r = [s EXCEPT !.snap[p] = MarkDispatched(@)]
        BY <1>2, <2>4 DEF Resumed
      <3>2. QED
        BY <3>1, MarksUnmoved
    <2>5. QED
      BY <2>2, <2>3, <2>4
  <1>3. QED
    BY <1>1, <1>2

LEMMA AllResumedUnmoved ==
    ASSUME NEW s \in States, NEW S, NEW back
    PROVE  Unmoved(s, AllResumed(s, S, back))
  <1> DEFINE D == {t \in States : Unmoved(s, t)}
  <1>1. s \in D
    BY SameTreeRefl, SameTreeUnmoved
  <1>2. ASSUME NEW t \in D, NEW p \in Parents \cap S PROVE Resumed(t, p, back) \in D
    <2>1. Resumed(t, p, back) \in States
      BY ResumedResult
    <2>2. Unmoved(t, Resumed(t, p, back))
      BY ResumedUnmoved
    <2>3. QED
      BY <2>1, <2>2, UnmovedTrans
  <1> HIDE DEF D
  <1>3. AllResumed(s, S, back) \in D
    BY <1>1, <1>2, ResumedIn
  <1>4. QED
    BY <1>3 DEF D

LEMMA LaunchedUnmoved ==
    ASSUME NEW s \in States, NEW i \in Issues, i \in Parents => s.snap[i].known
    PROVE  Unmoved(s, Launched(s, i))
  <1> DEFINE s1 == [s EXCEPT !.receipts = @ \ {i}]
             r  == Launched(s, i)
  <1>1. SameTree(s, s1)
    <2>1. s.receipts \ {i} \in SUBSET Issues
      BY DEF States, Records
    <2>2. QED
      BY <2>1, ReceiptsKeep
  <1>2. s1 \in States /\ s1.snap = s.snap /\ Unmoved(s, s1)
    BY <1>1, SameTreeUnmoved DEF SameTree
  <1>3. r = IF i \in Parents THEN Dispatched(s1, i) ELSE s1
    BY DEF Launched
  <1> HIDE DEF s1, r
  <1>4. CASE i \in Parents
    <2>1. Unmoved(s1, Dispatched(s1, i))
      BY <1>2, <1>4, DispatchedUnmoved
    <2>2. QED
      BY <1>2, <1>3, <1>4, <2>1, UnmovedTrans DEF r
  <1>5. CASE i \notin Parents
    BY <1>2, <1>3, <1>5 DEF r
  <1>6. QED
    BY <1>4, <1>5

\* What bootstrap does before it reconciles and after.
LEMMA RestoredUnmoved ==
    ASSUME NEW s \in States, NEW back
    PROVE  Unmoved(s, Restored(s, back))
  <1> DEFINE f(p) == IF p \in back /\ s.snap[p].known THEN RestoreFence(s.snap[p]) ELSE s.snap[p]
             r == Restored(s, back)
  <1>1. ASSUME NEW p \in Parents
        PROVE  /\ f(p).known = s.snap[p].known /\ f(p).gen = s.snap[p].gen
               /\ f(p).blocked = s.snap[p].blocked /\ f(p).scope = s.snap[p].scope
    <2>1. s.snap[p] \in Snapshots
      BY StateFields
    <2>2. QED
      BY <2>1 DEF RestoreFence, Snapshots
  <1>2. r = [s EXCEPT !.snap = [p \in Parents |-> f(p)]]
    BY DEF Restored
  <1> HIDE DEF f, r
  <1>3. r.ctl = s.ctl /\ \A p \in Parents : r.snap[p] = f(p)
    BY <1>2 DEF States, Records
  <1>4. QED
    BY <1>1, <1>3 DEF Unmoved, r

LEMMA RetriedFits ==
    ASSUME NEW s \in States, NEW back, Fit(s)
    PROVE  Fit(Retried(s, back)) /\ Pend(Retried(s, back)) = Pend(s)
  <1> DEFINE f(p) == IF p \notin back /\ s.ctl[p].st = "integrating"
                     THEN [s.ctl[p] EXCEPT !.st = "retry"] ELSE s.ctl[p]
             r == Retried(s, back)
  <1>1. ASSUME NEW p \in Parents
        PROVE  /\ f(p).gen = s.ctl[p].gen /\ f(p).cleanup = s.ctl[p].cleanup
               /\ s.ctl[p].st \in {"completed", "canceled"} => f(p).st = s.ctl[p].st
    <2>1. s.ctl[p] \in Controllers
      BY StateFields
    <2>2. QED
      BY <2>1 DEF Controllers
  <1>2. r = [s EXCEPT !.ctl = [p \in Parents |-> f(p)]]
    BY DEF Retried
  <1> HIDE DEF f, r
  <1>3. r.snap = s.snap /\ \A p \in Parents : r.ctl[p] = f(p)
    BY <1>2 DEF States, Records
  <1>4. QED
    BY <1>1, <1>3 DEF Fit, FitFor, Pend, r

-----------------------------------------------------------------------------
(* The dispatch pass, the launches, the crash and the recovery. *)

\* An admission keeps the controller of a parent that is not blocked, or renews it.
LEMMA AdmittedFits ==
    ASSUME NEW s \in States, NEW p \in Parents, s.snap[p].known, ~s.snap[p].blocked, Fit(s),
           merged \in [Leaves -> 0 .. MaxRuns]
    PROVE  LET r == Admitted(s, p)
           IN  /\ Fit(r) /\ Pend(r) \subseteq Pend(s)
               /\ s.ctl[p].st \notin {"completed", "canceled"} => p \notin Pend(r)
               /\ r.ctl[p].gen = s.snap[p].gen /\ r.snap[p].gen = s.snap[p].gen
               /\ r.snap[p].scope = s.snap[p].scope
  <1> DEFINE sn  == s.snap[p]
             t   == Examined(s, p)
             ctl == IF s.ctl[p].st = "waiting"
                    THEN [s.ctl[p] EXCEPT !.st = "admitted", !.input = Input(s, p)] ELSE s.ctl[p]
             r   == Admitted(s, p)
  <1>1. t \in States /\ t.snap = s.snap /\ t.ctl = s.ctl
    BY ExaminedKeeps DEF SameTree
  <1>2. s.ctl[p] \in Controllers /\ sn \in Snapshots /\ FitFor(sn, s.ctl[p])
    BY StateFields DEF Fit
  <1>3. s.ctl[p].gen = sn.gen
    BY <1>2 DEF FitFor
  <1>4. \E L : r = [t EXCEPT !.snap[p] = [@ EXCEPT !.frozen = TRUE, !.intent = sn.gen],
                             !.leases = L, !.ctl[p] = ctl]
    BY <1>3 DEF Admitted
  <1>5. PICK L : r = [t EXCEPT !.snap[p] = [@ EXCEPT !.frozen = TRUE, !.intent = sn.gen],
                               !.leases = L, !.ctl[p] = ctl]
    BY <1>4
  <1>6. /\ ctl.gen = sn.gen /\ ctl.cleanup = s.ctl[p].cleanup
        /\ s.ctl[p].st \in {"completed", "canceled"} => ctl.st = s.ctl[p].st
    BY <1>2, <1>3 DEF Controllers
  <1> HIDE DEF ctl, r, t
  <1>7. /\ r.snap[p] = [sn EXCEPT !.frozen = TRUE, !.intent = sn.gen] /\ r.ctl[p] = ctl
        /\ \A q \in Parents : q # p => r.snap[q] = s.snap[q] /\ r.ctl[q] = s.ctl[q]
    BY <1>1, <1>5 DEF States, Records
  <1>8. /\ r.snap[p].known = sn.known /\ r.snap[p].gen = sn.gen /\ r.snap[p].blocked = sn.blocked
        /\ r.snap[p].scope = sn.scope
    BY <1>2, <1>7 DEF Snapshots
  <1>9. FitFor(r.snap[p], r.ctl[p])
    BY <1>2, <1>6, <1>7, <1>8 DEF FitFor
  <1>10. Fit(r) /\ Pend(r) \subseteq Pend(s)
    BY <1>6, <1>7, <1>9, FitOthers
  <1>11. s.ctl[p].st \notin {"completed", "canceled"} => p \notin Pend(r)
    BY <1>2, <1>6, <1>7 DEF Pend, FitFor
  <1>12. QED
    BY <1>6, <1>7, <1>8, <1>10, <1>11 DEF r

\* Passing an issue by: no copy of the tree changes, no execution does.
LEMMA PassedByHolds ==
    ASSUME IInv, HoldInv, exec' = exec, phase' = "dispatch", disk' \in {disk, mem'},
           Fit(mem'), Pend(mem') \subseteq Pend(mem),
           \A p \in Parents : exec[p] = "claimed" => mem'.snap[p] = mem.snap[p]
    PROVE  HoldInv'
  <1>1. \A p \in Pend(mem') : p \in Pend(mem)
    OBVIOUS
  <1>2. QED
    BY <1>1, StepHolds

LEMMA SkipHolds ==
    ASSUME IInv, HoldInv, NEW i \in Issues, Skip(i)
    PROVE  HoldInv'
  <1>1. mem \in States /\ Fit(mem)
    BY DEF IInv, Typed, HoldInv
  <1>2. /\ phase' = "dispatch" /\ exec' = exec
        /\ mem' \in {mem, Examined(mem, i)} /\ disk' \in {disk, mem'}
    BY DEF Skip, Dispatching, Next1, SavedOrUndone, NotSaved
  <1>3. mem'.snap = mem.snap /\ mem'.ctl = mem.ctl
    BY <1>1, <1>2, ExaminedKeeps DEF SameTree
  <1>4. Fit(mem') /\ Pend(mem') = Pend(mem)
    BY <1>1, <1>3, FitSame
  <1>5. QED
    BY <1>2, <1>3, <1>4, PassedByHolds

LEMMA PreparationFailsHolds ==
    ASSUME IInv, HoldInv, NEW i \in Issues, PreparationFails(i)
    PROVE  HoldInv'
  <1>1. mem \in States /\ Fit(mem) /\ merged \in [Leaves -> 0 .. MaxRuns]
    BY DEF IInv, Typed, HoldInv
  <1>2. phase' = "dispatch" /\ exec' = exec /\ exec[i] \in {"unclaimed", "retry"}
    BY DEF PreparationFails, Dispatching, Ready, Next1
  <1>3. CASE i \in Leaves
    <2>1. mem' = mem /\ disk' = disk
      BY <1>3 DEF PreparationFails
    <2>2. QED
      BY <1>1, <1>2, <2>1, PassedByHolds
  <1>4. CASE i \notin Leaves
    <2> DEFINE a == Admitted(mem, i)
    <2>1. /\ mem' = [a EXCEPT !.snap[i].intent = 0] /\ disk' = mem'
          /\ Eligible(mem, i, exec[i] = "retry")
      BY <1>4 DEF PreparationFails
    <2>2. mem.snap[i].known /\ ~mem.snap[i].blocked /\ i \in Parents
      BY <1>4, <2>1 DEF Eligible, Examines, Issues
    <2>3. /\ a \in States /\ Fit(a) /\ Pend(a) \subseteq Pend(mem) /\ a.snap[i].known
          /\ \A q \in Parents : q # i => a.snap[q] = mem.snap[q]
      BY <1>1, <2>2, AdmittedResult, AdmittedFits
    <2> HIDE DEF a
    <2>4. Unmoved(a, mem') /\ \A q \in Parents : q # i => mem'.snap[q] = a.snap[q]
      <3>1. Unmoved(a, mem')
        BY <2>1, <2>2, <2>3, MarksUnmoved
      <3>2. \A q \in Parents : q # i => mem'.snap[q] = a.snap[q]
        BY <2>1, <2>2, <2>3, ClearIntentResult
      <3>3. QED
        BY <3>1, <3>2
    <2>5. Fit(mem') /\ Pend(mem') = Pend(a)
      BY <2>3, <2>4, UnmovedFits
    <2>6. \A q \in Parents : exec[q] = "claimed" => mem'.snap[q] = mem.snap[q]
      BY <1>2, <2>3, <2>4
    <2>7. QED
      BY <1>2, <2>1, <2>3, <2>5, <2>6, PassedByHolds
  <1>5. QED
    BY <1>3, <1>4

\* Claiming: the issue was waiting already, so it is no child of a parent being launched.
LEMMA PrepareLeafHolds ==
    ASSUME IInv, HoldInv, NEW i \in Leaves, PrepareLeaf(i)
    PROVE  HoldInv'
  <1>1. Typed /\ mem \in States /\ Fit(mem) /\ i \in Issues /\ i \notin Parents
    BY HierarchyAssumption DEF IInv, Typed, HoldInv, Issues
  <1>2. /\ phase' = "dispatch" /\ exec[i] \in {"unclaimed", "retry"}
        /\ exec' = [exec EXCEPT ![i] = "claimed"]
        /\ mem' \in {mem, Stamped(mem, i)} /\ disk' \in {disk, mem'}
    BY DEF PrepareLeaf, Dispatching, Ready, Claimed, Next1, SavedOrUndone, NotSaved
  <1>3. mem'.snap = mem.snap /\ mem'.ctl = mem.ctl
    BY <1>1, <1>2, StampedKeeps DEF SameTree
  <1>4. Fit(mem') /\ Pend(mem') = Pend(mem)
    BY <1>1, <1>3, FitSame
  <1>5. \A p \in Parents : exec'[p] = exec[p]
    BY <1>1, <1>2
  <1>6. ASSUME NEW c, exec'[c] \in Waiting PROVE exec[c] \in Waiting
    BY <1>1, <1>2, <1>6 DEF Waiting, Typed
  <1>7. QED
    BY <1>2, <1>3, <1>4, <1>5, <1>6, StepHolds

LEMMA PrepareParentHolds ==
    ASSUME IInv, HoldInv, NEW p \in Parents, PrepareParent(p)
    PROVE  HoldInv'
  <1> DEFINE a  == Admitted(mem, p)
             s1 == Stamped(a, p)
             s2 == [s1 EXCEPT !.ctl[p].st = "integrating"]
  <1>1. Typed /\ mem \in States /\ p \in Issues /\ Fit(mem) /\ merged \in [Leaves -> 0 .. MaxRuns]
    BY DEF IInv, Typed, Issues, HoldInv
  <1>2. /\ phase' = "dispatch" /\ mem' = s2 /\ disk' = mem' /\ exec[p] \in {"unclaimed", "retry"}
        /\ exec' = [exec EXCEPT ![p] = "claimed"]
        /\ Eligible(mem, p, exec[p] = "retry") /\ ~AdmissionConflict(mem, p) /\ Startable(mem, p)
    BY DEF PrepareParent, Dispatching, Ready, Claimed, Next1, SavedOrUndone
  <1>3. /\ mem.snap[p].known /\ ~mem.snap[p].blocked
        /\ \A c \in mem.snap[p].scope : ChildTerminal(mem, c)
    BY <1>2 DEF Eligible, Examines
  <1>4. mem.ctl[p].st \notin {"completed", "canceled"}
    <2>1. mem.ctl[p].gen = mem.snap[p].gen
      BY <1>1, <1>3 DEF Fit, FitFor
    <2>2. QED
      BY <1>2, <2>1 DEF Startable
  <1>5. /\ a \in States /\ Fit(a) /\ Pend(a) \subseteq Pend(mem) /\ p \notin Pend(a)
        /\ a.snap[p].scope = mem.snap[p].scope
        /\ \A q \in Parents : q # p => a.snap[q] = mem.snap[q]
    BY <1>1, <1>3, <1>4, AdmittedResult, AdmittedFits
  <1> HIDE DEF a
  <1>6. SameTree(a, s1)
    BY <1>1, <1>5, StampedKeeps
  <1> HIDE DEF s1
  <1>7. s1 \in States /\ s1.snap = a.snap /\ Fit(s1) /\ Pend(s1) = Pend(a)
    BY <1>5, <1>6, FitSame DEF SameTree
  <1>8. s2.snap = s1.snap /\ Fit(s2) /\ Pend(s2) \subseteq Pend(s1)
    <2>1. s1.ctl[p].cleanup # "pending"
      BY <1>5, <1>7 DEF Pend
    <2>2. s2.snap = s1.snap
      BY <1>7 DEF States, Records
    <2>3. QED
      BY <1>7, <2>1, <2>2, StFits
  <1> HIDE DEF s2
  <1>9. /\ Fit(mem') /\ Pend(mem') \subseteq Pend(mem) /\ p \notin Pend(mem')
        /\ mem'.snap[p].scope = mem.snap[p].scope
        /\ \A q \in Parents : q # p => mem'.snap[q] = mem.snap[q]
    BY <1>2, <1>5, <1>7, <1>8
  <1>10. \A q \in Parents : q # p => exec'[q] = exec[q]
    BY <1>2
  <1>11. ASSUME NEW c, exec'[c] \in Waiting PROVE exec[c] \in Waiting
    BY <1>1, <1>2, <1>11 DEF Waiting, Typed
  <1>12. ASSUME NEW q \in Parents, exec'[q] \in Busy PROVE q \notin Pend(mem') \cup Pend(disk')
    <2>1. CASE q = p
      BY <1>2, <1>9, <2>1
    <2>2. CASE q # p
      <3>1. exec[q] \in Busy
        BY <1>10, <1>12, <2>2
      <3>2. q \notin Pend(mem)
        BY <3>1 DEF HoldInv
      <3>3. QED
        BY <1>2, <1>9, <3>2
    <2>3. QED
      BY <2>1, <2>2
  <1>13. ASSUME NEW q \in Parents, exec'[q] = "claimed", NEW c \in mem'.snap[q].scope
         PROVE  exec'[c] \notin Waiting
    <2>1. exec[c] \notin Waiting
      <3>1. CASE q = p
        <4>1. ChildTerminal(mem, c)
          BY <1>3, <1>9, <1>13, <3>1
        <4>2. QED
          BY <4>1 DEF ChildTerminal, Waiting
      <3>2. CASE q # p
        <4>1. exec[q] = "claimed" /\ c \in mem.snap[q].scope
          BY <1>9, <1>10, <1>13, <3>2
        <4>2. QED
          BY <4>1 DEF HoldInv
      <3>3. QED
        BY <3>1, <3>2
    <2>2. QED
      BY <1>11, <2>1
  <1>14. QED
    BY <1>2, <1>9, <1>12, <1>13 DEF HoldInv

LEMMA AbandonedHolds ==
    ASSUME IInv, HoldInv, Abandoned, UNCHANGED <<mem, disk>>
    PROVE  HoldInv'
  <1>1. /\ phase' = "idle" /\ mem' = mem /\ disk' = disk
        /\ exec' = [i \in Issues |-> IF i \in pending THEN "absent" ELSE exec[i]]
    BY DEF Abandoned, EndTick
  <1>2. \A i \in Issues : exec'[i] = exec[i] \/ exec'[i] \notin Waiting \cup Busy
    BY <1>1 DEF Waiting, Busy
  <1>3. mem \in States
    BY DEF IInv, Typed
  <1>4. QED
    BY <1>1, <1>2, <1>3, SameCopiesHold

\* Recording a launch, or that it failed.
LEMMA RecordHolds ==
    ASSUME IInv, HoldInv, phase' = "record", NEW i \in Issues, exec[i] = "claimed",
           NEW x \in {"running", "retry"}, exec' = [exec EXCEPT ![i] = x],
           disk' \in {disk, mem'}, Fit(mem'), Pend(mem') \subseteq Pend(mem),
           \A q \in Parents : q # i => mem'.snap[q] = mem.snap[q]
    PROVE  HoldInv'
  <1>1. exec \in [Issues -> ExecStates]
    BY DEF IInv, Typed
  <1>2. \A q \in Parents : q # i => exec'[q] = exec[q]
    OBVIOUS
  <1>3. \A q \in Parents : exec'[q] \in Busy => exec[q] \in Busy
    BY <1>1, <1>2 DEF Busy, Issues
  <1>4. exec'[i] # "claimed"
    BY <1>1
  <1>5. ASSUME NEW c, exec'[c] \in Waiting PROVE exec[c] \in Waiting
    BY <1>1, <1>5 DEF Waiting
  <1>6. \A p \in Parents : exec'[p] = "claimed" =>
               /\ exec[p] = "claimed" /\ mem'.snap[p] = mem.snap[p]
               /\ \A c \in mem.snap[p].scope : exec'[c] \in Waiting => exec[c] \in Waiting
    BY <1>2, <1>4, <1>5
  <1>7. \A p \in Pend(mem') : p \in Pend(mem)
    OBVIOUS
  <1>8. QED
    BY <1>3, <1>6, <1>7, StepHolds

LEMMA RecordLaunchHolds ==
    ASSUME IInv, HoldInv, NEW i \in Issues, NEW ok \in BOOLEAN, RecordLaunch(i, ok)
    PROVE  HoldInv'
  <1>1. mem \in States /\ Fit(mem)
    BY DEF IInv, Typed, HoldInv
  <1>2. /\ phase' = "record" /\ exec[i] = "claimed" /\ exec' = [exec EXCEPT ![i] = "running"]
        /\ mem' = Launched(mem, i) /\ disk' \in {disk, mem'}
    BY DEF RecordLaunch, Recording, SavedOrOwed
  <1>3. i \in Parents => mem.snap[i].known
    BY <1>2 DEF IInv, FenceKnown, Announced
  <1>4. \A q \in Parents : q # i => mem'.snap[q] = mem.snap[q]
    BY <1>1, <1>2, <1>3, LaunchedResult
  <1>5. Fit(mem') /\ Pend(mem') = Pend(mem)
    BY <1>1, <1>2, <1>3, LaunchedUnmoved, UnmovedFits
  <1>6. QED
    BY <1>2, <1>4, <1>5, RecordHolds

LEMMA RecordLaunchFailureHolds ==
    ASSUME IInv, HoldInv, NEW i \in Issues, RecordLaunchFailure(i)
    PROVE  HoldInv'
  <1>1. mem \in States /\ Fit(mem)
    BY DEF IInv, Typed, HoldInv
  <1>2. phase' = "record" /\ exec[i] = "claimed" /\ exec' = [exec EXCEPT ![i] = "retry"]
    BY DEF RecordLaunchFailure, Recording
  <1>3. CASE i \in Parents
    <2> DEFINE s1 == [mem EXCEPT !.snap[i].intent = 0]
    <2>1. mem' = Withdrawn(mem, i) /\ disk' = mem'
      BY <1>3 DEF RecordLaunchFailure, SavedOrUndone, Withdrawn
    <2>2. mem.snap[i].known
      BY <1>2, <1>3 DEF IInv, FenceKnown, Announced
    <2>3. \A q \in Parents : q # i => mem'.snap[q] = mem.snap[q]
      BY <1>1, <1>3, <2>1, <2>2, WithdrawnResult
    <2>4. mem.ctl[i].cleanup # "pending"
      BY <1>2, <1>3 DEF HoldInv, Busy, Pend
    <2>5. s1 \in States /\ Fit(s1) /\ Pend(s1) = Pend(mem) /\ s1.ctl = mem.ctl
      BY <1>1, <1>3, <2>2, MarksUnmoved, UnmovedFits, ClearIntentResult
    <2>6. mem' = [s1 EXCEPT !.ctl[i].st = "retry"]
      BY <2>1 DEF Withdrawn
    <2> HIDE DEF s1
    <2>7. Fit(mem') /\ Pend(mem') \subseteq Pend(s1)
      BY <1>3, <2>4, <2>5, <2>6, StFits
    <2>8. QED
      BY <1>2, <2>1, <2>3, <2>5, <2>7, RecordHolds
  <1>4. CASE i \notin Parents
    <2>1. mem' = mem /\ disk' = disk
      BY <1>4 DEF RecordLaunchFailure, NotSaved
    <2>2. QED
      BY <1>1, <1>2, <2>1, RecordHolds
  <1>5. QED
    BY <1>3, <1>4

\* A crash leaves recovering what was running or launched; the copy is the disk's.
LEMMA CrashHolds ==
    ASSUME IInv, HoldInv, Crash
    PROVE  HoldInv'
  <1>1. /\ phase # "down" /\ mem' = disk /\ disk' = disk
        /\ exec' = [i \in Issues |-> IF live[i] > 0 \/ exec[i] = "running" THEN "recovering" ELSE "absent"]
    BY DEF Crash
  <1>2. \A i \in Issues : exec'[i] \in {"recovering", "absent"}
    BY <1>1
  <1>3. ASSUME NEW p \in Parents, exec'[p] \in Busy PROVE exec[p] \in Busy
    <2>1. p \in Issues /\ RunKnown(p) /\ live[p] \in 0 .. 1
      BY DEF IInv, Issues, Typed
    <2>2. live[p] > 0 \/ exec[p] = "running"
      BY <1>1, <1>3, <2>1 DEF Busy
    <2>3. QED
      BY <1>1, <2>1, <2>2 DEF RunKnown, Busy
  <1>4. \A p \in Parents : exec'[p] # "claimed"
    BY <1>2 DEF Issues
  <1>5. Fit(mem') /\ \A p \in Pend(mem') : p \in Pend(disk)
    BY <1>1 DEF HoldInv
  <1>6. QED
    BY <1>1, <1>2, <1>3, <1>4, <1>5, StepHolds

LEMMA RecoverHolds ==
    ASSUME IInv, HoldInv, NEW refused \in SUBSET Issues, Recover(refused)
    PROVE  HoldInv'
  <1> DEFINE back == {i \in Issues : exec[i] = "recovering"}
             none == [i \in Issues |-> "absent"]
             s1 == Restored(disk, back)
             r1 == ReconcileActive(s1, none)
             s2 == ReconcileTerminal(r1, none)
             s3 == Retried(s2, back)
             s4 == AllResumed(s3, Known(s3), back)
  <1>0. disk \in States /\ Fit(disk) /\ scope \in [Parents -> SUBSET Issues]
    BY DEF IInv, Typed, HoldInv
  <1>1. phase' = "settle" /\ disk' = mem' /\ refused \subseteq back
    BY DEF Recover
  <1>2. mem' = s4
    BY DEF Recover, Restored, Retried, AllResumed
  <1>3. ASSUME NEW i \in Issues
        PROVE  /\ exec'[i] \in {"running", "terminal", "absent", "unclaimed", "retry", "done"}
               /\ exec'[i] = "running" => exec[i] = "recovering"
    BY DEF Recover
  <1> HIDE DEF back, none
  <1>4. s1 \in States /\ Fit(s1) /\ Pend(s1) = Pend(disk)
    BY <1>0, RestoredResult, RestoredUnmoved, UnmovedFits
  <1> HIDE DEF s1
  <1>5. r1 \in States /\ Fit(r1) /\ Pend(r1) \subseteq Pend(s1)
    BY <1>0, <1>4, ReconciledKeeps, ReconciledFits DEF ReconcileActive
  <1> HIDE DEF r1
  <1>6. s2 \in States /\ Fit(s2) /\ Pend(s2) \subseteq Pend(r1)
    BY <1>0, <1>5, ReconciledKeeps, ReconciledFits DEF ReconcileTerminal
  <1> HIDE DEF s2
  <1>7. s3 \in States /\ Fit(s3) /\ Pend(s3) = Pend(s2)
    BY <1>6, RetriedResult, RetriedFits
  <1> HIDE DEF s3
  <1>8. Fit(s4) /\ Pend(s4) = Pend(s3)
    BY <1>7, AllResumedUnmoved, UnmovedFits
  <1> HIDE DEF s4
  <1>9. Fit(mem') /\ Pend(mem') \subseteq Pend(disk)
    BY <1>2, <1>4, <1>5, <1>6, <1>7, <1>8
  <1>10. \A i \in Issues : exec'[i] # "claimed" /\ (exec'[i] \in Busy => exec[i] \in Busy)
    BY <1>3 DEF Busy
  <1>11. \A p \in Parents : exec'[p] # "claimed" /\ (exec'[p] \in Busy => exec[p] \in Busy)
    BY <1>10 DEF Issues
  <1>12. \A p \in Pend(mem') : p \in Pend(disk)
    BY <1>9
  <1>13. QED
    BY <1>1, <1>9, <1>11, <1>12, StepHolds

\* Steps that touch neither the executions nor a copy of the state.
LEMMA StillHolds ==
    ASSUME IInv, HoldInv, UNCHANGED <<exec, mem, disk>>,
           phase' = phase \/ phase' # "down"
    PROVE  HoldInv'
  BY DEF HoldInv, Fit, Pend

-----------------------------------------------------------------------------
(* What was prepared may start. *)

\* No parent whose run is taken to be alive holds a checkout above a prepared launch.
ClearInv ==
    phase = "dispatch" =>
        \A i \in pending, p \in Known(mem) :
            exec[p] = "running" /\ i \in Subtree(mem, mem.snap[p].scope) => ~Holder(mem, p)

LEMMA NoGainTrans ==
    ASSUME NEW s, NEW r, NEW t, NEW p, NoGain(s, r, p), NoGain(r, t, p)
    PROVE  NoGain(s, t, p)
  BY DEF NoGain

LEMMA ExaminedNoGain ==
    ASSUME NEW s \in States, NEW q, NEW p
    PROVE  NoGain(s, Examined(s, q), p)
  <1> DEFINE void == {c \in s.snap[q].scope : ~MergeRequired(c) /\ ChildTerminal(s, c)}
             D == {t \in States : NoGain(s, t, p)}
  <1>1. s \in D
    BY DEF NoGain
  <1>2. ASSUME NEW t \in D, NEW c \in Parents \cap void PROVE ReleaseUndispatched(t, c, Edges) \in D
    <2>1. ReleaseUndispatched(t, c, Edges) \in States
      BY ReleasesKeep DEF SameTree
    <2>2. NoGain(t, ReleaseUndispatched(t, c, Edges), p)
      BY UndispatchedNoGain
    <2>3. QED
      BY <2>1, <2>2, NoGainTrans
  <1>3. \A t \in D, c \in Parents :
            c \in s.snap[q].scope /\ ~MergeRequired(c) /\ ChildTerminal(s, c)
            => ReleaseUndispatched(t, c, Edges) \in D
    <2> HIDE DEF D
    <2> QED BY <1>2
  <1> HIDE DEF D, void
  <1>4. Examined(s, q) \in D
    BY <1>1, <1>3, ExaminedIn
  <1>5. QED
    BY <1>4 DEF D

\* An admission takes leases for the admitted parent and no other.
LEMMA AdmittedLeases ==
    ASSUME NEW s \in States, NEW q \in Parents
    PROVE  \E new : /\ Admitted(s, q).leases = Acquire(Examined(s, q).leases, new)
                    /\ \A l \in new : l.owner = q
  <1> DEFINE sn  == s.snap[q]
             t   == Examined(s, q)
             new == UNION {UNION {{Lease("ancestor", x, q, q, sn.gen), Lease("review", x, q, c, sn.gen)} :
                                  x \in Contributed(t, q, c)} :
                           c \in {d \in sn.scope : MergeRequired(d)}}
  <1>1. \A l \in new : l.owner = q
    BY DEF Lease
  <1>2. t \in States
    BY ExaminedKeeps DEF SameTree
  <1> HIDE DEF t
  <1>3. \E f, c : Admitted(s, q) = [t EXCEPT !.snap[q] = f, !.leases = Acquire(t.leases, new), !.ctl[q] = c]
    BY DEF Admitted, t
  <1> HIDE DEF new
  <1>4. Admitted(s, q).leases = Acquire(t.leases, new)
    BY <1>2, <1>3 DEF States, Records
  <1>5. QED
    BY <1>1, <1>4 DEF t

LEMMA AdmittedNoGain ==
    ASSUME NEW s \in States, NEW q \in Parents, NEW p, p # q
    PROVE  NoGain(s, Admitted(s, q), p)
  <1>1. PICK new : /\ Admitted(s, q).leases = Acquire(Examined(s, q).leases, new)
                   /\ \A l \in new : l.owner = q
    BY AdmittedLeases
  <1>2. NoGain(Examined(s, q), Admitted(s, q), p)
    BY <1>1 DEF NoGain, Holder, Acquire
  <1>3. QED
    BY <1>2, ExaminedNoGain, NoGainTrans

LEMMA StampedNoGain ==
    ASSUME NEW s \in States, NEW i, NEW p
    PROVE  Stamped(s, i).leases = s.leases
  BY DEF Stamped, States, Records

\* A step of the pass: trees stay, running parents gain nothing, what is prepared is not fenced.
LEMMA PassKeepsClear ==
    ASSUME IInv, ClearInv, phase = "dispatch", mem' \in States,
           \A p \in Parents : mem'.snap[p].known = mem.snap[p].known
                              /\ mem'.snap[p].scope = mem.snap[p].scope,
           \A p \in Parents : exec'[p] = "running" => exec[p] = "running" /\ NoGain(mem, mem', p),
           NEW C, pending' = pending \cup C, \A i \in C : ~Fenced(mem, i)
    PROVE  ClearInv'
  <1>1. mem \in States
    BY DEF IInv, Typed
  <1>2. \A roots : Subtree(mem', roots) = Subtree(mem, roots)
    BY <1>1, SameSubtrees DEF SameScopes
  <1>3. ASSUME NEW i \in pending \cup C, NEW p \in Known(mem'), exec'[p] = "running",
               i \in Subtree(mem', mem'.snap[p].scope)
        PROVE  ~Holder(mem', p)
    <2>1. p \in Known(mem) /\ p \in Parents /\ mem'.snap[p].scope = mem.snap[p].scope
      BY <1>3 DEF Known
    <2>2. exec[p] = "running" /\ NoGain(mem, mem', p)
      BY <1>3, <2>1
    <2>3. i \in Subtree(mem, mem.snap[p].scope)
      BY <1>2, <1>3, <2>1
    <2>4. ~Holder(mem, p)
      <3>1. CASE i \in pending
        BY <2>1, <2>2, <2>3, <3>1 DEF ClearInv
      <3>2. CASE i \in C
        <4>1. ~Fenced(mem, i)
          BY <3>2
        <4>2. HasFence(mem.snap[p])
          BY <2>1, <2>2 DEF IInv, FenceKnown, Bound
        <4>3. p \in AncestorsOf(mem, i)
          BY <2>1, <2>3 DEF AncestorsOf
        <4>4. QED
          BY <4>1, <4>2, <4>3 DEF Fenced, Holder
      <3>3. QED
        BY <1>3, <3>1, <3>2
    <2>5. QED
      BY <2>2, <2>4 DEF NoGain
  <1>4. QED
    BY <1>3 DEF ClearInv

LEMMA NothingPrepared ==
    ASSUME phase' # "dispatch" \/ pending' = {}
    PROVE  ClearInv'
  BY DEF ClearInv

LEMMA SkipClear ==
    ASSUME IInv, ClearInv, NEW i \in Issues, Skip(i)
    PROVE  ClearInv'
  <1>1. mem \in States
    BY DEF IInv, Typed
  <1>2. /\ phase = "dispatch" /\ exec' = exec /\ pending' = pending
        /\ mem' \in {mem, Examined(mem, i)}
    BY DEF Skip, Dispatching, Next1, SavedOrUndone, NotSaved
  <1>3. mem' \in States /\ mem'.snap = mem.snap
    BY <1>1, <1>2, ExaminedKeeps DEF SameTree
  <1>4. \A p \in Parents : NoGain(mem, mem', p)
    BY <1>1, <1>2, ExaminedNoGain DEF NoGain
  <1> DEFINE C == {}
  <1>5. pending' = pending \cup C /\ \A j \in C : ~Fenced(mem, j)
    BY <1>2
  <1> HIDE DEF C
  <1>6. QED
    BY <1>2, <1>3, <1>4, <1>5, PassKeepsClear

LEMMA PreparationFailsClear ==
    ASSUME IInv, ClearInv, NEW i \in Issues, PreparationFails(i)
    PROVE  ClearInv'
  <1>1. mem \in States /\ merged \in [Leaves -> 0 .. MaxRuns]
    BY DEF IInv, Typed
  <1>2. /\ phase = "dispatch" /\ exec' = exec /\ pending' = pending
        /\ exec[i] \in {"unclaimed", "retry"}
    BY DEF PreparationFails, Dispatching, Ready, Next1
  <1> DEFINE C == {}
  <1>3. pending' = pending \cup C /\ \A j \in C : ~Fenced(mem, j)
    BY <1>2
  <1> HIDE DEF C
  <1>4. CASE i \in Leaves
    <2>1. mem' = mem
      BY <1>4 DEF PreparationFails
    <2>2. \A p \in Parents : NoGain(mem, mem', p)
      BY <2>1 DEF NoGain
    <2>3. QED
      BY <1>1, <1>2, <1>3, <2>1, <2>2, PassKeepsClear
  <1>5. CASE i \notin Leaves
    <2> DEFINE a == Admitted(mem, i)
    <2>1. /\ mem' = [a EXCEPT !.snap[i].intent = 0]
          /\ Eligible(mem, i, exec[i] = "retry")
      BY <1>5 DEF PreparationFails
    <2>2. mem.snap[i].known /\ i \in Parents
      BY <1>5, <2>1 DEF Eligible, Examines, Issues
    <2>3. /\ a \in States /\ a.snap[i].known /\ a.snap[i].scope = mem.snap[i].scope
          /\ \A q \in Parents : q # i => a.snap[q] = mem.snap[q] /\ NoGain(mem, a, q)
      BY <1>1, <2>2, AdmittedResult, AdmittedNoGain
    <2> HIDE DEF a
    <2>4. mem' \in States /\ Unmoved(a, mem')
      BY <2>1, <2>2, <2>3, MarksUnmoved, ClearIntentResult
    <2>5. mem'.leases = a.leases
      BY <2>1, <2>3 DEF States, Records
    <2>6. \A p \in Parents : mem'.snap[p].known = mem.snap[p].known
                              /\ mem'.snap[p].scope = mem.snap[p].scope
      BY <2>2, <2>3, <2>4 DEF Unmoved
    <2>7. \A p \in Parents : exec'[p] = "running" => exec[p] = "running" /\ NoGain(mem, mem', p)
      <3>1. ASSUME NEW p \in Parents, exec'[p] = "running" PROVE NoGain(mem, mem', p)
        <4>1. NoGain(mem, a, p)
          BY <1>2, <2>3, <3>1
        <4>2. QED
          BY <2>5, <4>1 DEF NoGain, Holder
      <3>2. QED
        BY <1>2, <3>1
    <2>8. QED
      BY <1>2, <1>3, <2>4, <2>6, <2>7, PassKeepsClear
  <1>6. QED
    BY <1>4, <1>5

LEMMA PrepareLeafClear ==
    ASSUME IInv, ClearInv, NEW i \in Leaves, PrepareLeaf(i)
    PROVE  ClearInv'
  <1>1. mem \in States /\ i \in Issues /\ i \notin Parents
    BY HierarchyAssumption DEF IInv, Typed, Issues
  <1>2. /\ phase = "dispatch" /\ exec' = [exec EXCEPT ![i] = "claimed"] /\ pending' = pending \cup {i}
        /\ mem' \in {mem, Stamped(mem, i)} /\ ~Fenced(mem, i)
    BY DEF PrepareLeaf, Dispatching, Ready, Claimed, Next1, SavedOrUndone, NotSaved
  <1>3. mem' \in States /\ mem'.snap = mem.snap
    BY <1>1, <1>2, StampedKeeps DEF SameTree
  <1>4. mem'.leases = mem.leases
    BY <1>1, <1>2, StampedNoGain
  <1>5. \A p \in Parents : exec'[p] = exec[p] /\ NoGain(mem, mem', p)
    BY <1>1, <1>2, <1>4 DEF NoGain, Holder
  <1> DEFINE C == {i}
  <1>6. pending' = pending \cup C /\ \A j \in C : ~Fenced(mem, j)
    BY <1>2
  <1> HIDE DEF C
  <1>7. QED
    BY <1>2, <1>3, <1>5, <1>6, PassKeepsClear

LEMMA PrepareParentClear ==
    ASSUME IInv, ClearInv, NEW p \in Parents, PrepareParent(p)
    PROVE  ClearInv'
  <1> DEFINE a  == Admitted(mem, p)
             s1 == Stamped(a, p)
             s2 == [s1 EXCEPT !.ctl[p].st = "integrating"]
  <1>1. Typed /\ mem \in States /\ p \in Issues /\ merged \in [Leaves -> 0 .. MaxRuns]
    BY DEF IInv, Typed, Issues
  <1>2. /\ phase = "dispatch" /\ mem' = s2 /\ exec' = [exec EXCEPT ![p] = "claimed"]
        /\ pending' = pending \cup {p} /\ ~Fenced(mem, p)
        /\ Eligible(mem, p, exec[p] = "retry")
    BY DEF PrepareParent, Dispatching, Ready, Claimed, Next1, SavedOrUndone
  <1>3. mem.snap[p].known
    BY <1>2 DEF Eligible, Examines
  <1>4. /\ a \in States /\ a.snap[p].known /\ a.snap[p].scope = mem.snap[p].scope
        /\ \A q \in Parents : q # p => a.snap[q] = mem.snap[q] /\ NoGain(mem, a, q)
    BY <1>1, <1>3, AdmittedResult, AdmittedNoGain
  <1> HIDE DEF a
  <1>5. SameTree(a, s1)
    BY <1>1, <1>4, StampedKeeps
  <1>6. s1 \in States /\ s1.snap = a.snap /\ s1.leases = a.leases
    BY <1>4, <1>5, StampedNoGain DEF SameTree
  <1> HIDE DEF s1
  <1>7. s2 \in States /\ s2.snap = s1.snap /\ s2.leases = s1.leases
    <2>1. "integrating" \in CtlStates
      BY DEF CtlStates
    <2>2. s2.leases = s1.leases
      BY <1>6 DEF States, Records
    <2>3. QED
      BY <1>6, <2>1, <2>2, CtlState
  <1> HIDE DEF s2
  <1>8. /\ mem' \in States /\ mem'.leases = a.leases
        /\ \A q \in Parents : mem'.snap[q].known = mem.snap[q].known
                              /\ mem'.snap[q].scope = mem.snap[q].scope
    <2>1. /\ mem'.snap = a.snap /\ mem' \in States /\ mem'.leases = a.leases
      BY <1>2, <1>6, <1>7
    <2>2. a.snap[p].known = mem.snap[p].known
      BY <1>1, <1>3, <1>4, StateFields DEF Snapshots
    <2>3. QED
      BY <1>4, <2>1, <2>2
  <1>9. ASSUME NEW q \in Parents, exec'[q] = "running"
        PROVE  exec[q] = "running" /\ NoGain(mem, mem', q)
    <2>1. q # p /\ exec[q] = "running"
      BY <1>1, <1>2, <1>9 DEF Typed
    <2>2. NoGain(mem, a, q)
      BY <1>4, <2>1
    <2>3. QED
      BY <1>8, <2>1, <2>2 DEF NoGain, Holder
  <1> DEFINE C == {p}
  <1>10. pending' = pending \cup C /\ \A j \in C : ~Fenced(mem, j)
    BY <1>2
  <1> HIDE DEF C
  <1>11. QED
    BY <1>2, <1>8, <1>9, <1>10, PassKeepsClear

-----------------------------------------------------------------------------
(* Both invariants, at every step. *)

LEMMA WorldLeaves ==
    ASSUME World
    PROVE  UNCHANGED <<exec, mem, disk, phase, pending>>
  BY DEF World, TrackerRescopes, TrackerCloses, TrackerReopens, WorkerEnds, ProviderMerges, scheduler

LEMMA NextHolds ==
    ASSUME IInv, HoldInv, [Next]_vars
    PROVE  HoldInv'
  <1>1. CASE UNCHANGED vars
    <2>1. UNCHANGED <<exec, mem, disk, phase>>
      BY <1>1 DEF vars
    <2>2. QED
      BY <2>1, StillHolds
  <1>2. CASE World
    BY <1>2, WorldLeaves, StillHolds
  <1>3. CASE Tick
    <2>1. ASSUME NEW ok \in BOOLEAN, Refresh(ok) PROVE HoldInv'
      BY <2>1, RefreshHolds
    <2>2. ASSUME NEW i \in Issues, NEW ok \in BOOLEAN, Release(i, ok) \/ RecordLaunch(i, ok)
          PROVE  HoldInv'
      BY <2>2, ReleaseHolds, RecordLaunchHolds
    <2>3. ASSUME NEW i \in Issues,
                 \/ StopRefused(i) \/ Upsert(i)
                 \/ Skip(i) \/ PreparationFails(i) \/ RecordLaunchFailure(i)
          PROVE  HoldInv'
      BY <2>3, StopRefusedHolds, UpsertHolds, SkipHolds, PreparationFailsHolds, RecordLaunchFailureHolds
    <2>4. ASSUME NEW l \in Leaves, PrepareLeaf(l) PROVE HoldInv'
      BY <2>4, PrepareLeafHolds
    <2>5. ASSUME NEW p \in Parents,
                 PrepareParent(p) \/ EligibilityWriteFails(p) \/ AdmissionRefused(p)
          PROVE  HoldInv'
      <3>1. CASE PrepareParent(p)
        BY <3>1, PrepareParentHolds
      <3>2. CASE EligibilityWriteFails(p) \/ AdmissionRefused(p)
        <4>1. Abandoned /\ UNCHANGED <<mem, disk>>
          BY <3>2 DEF EligibilityWriteFails, AdmissionRefused, SavedOrUndone, NotSaved
        <4>2. QED
          BY <4>1, AbandonedHolds
      <3>3. QED
        BY <2>5, <3>1, <3>2
    <2>6. ASSUME NEW F \in SUBSET Issues, StartWorkers(F) PROVE HoldInv'
      <3>1. UNCHANGED <<exec, mem, disk>> /\ phase' # "down"
        BY <2>6 DEF StartWorkers
      <3>2. QED
        BY <3>1, StillHolds
    <2>7. CASE TickDone
      <3>1. UNCHANGED <<exec, mem, disk>> /\ phase' # "down"
        BY <2>7 DEF TickDone, EndTick
      <3>2. QED
        BY <3>1, StillHolds
    <2>8. QED
      BY <1>3, <2>1, <2>2, <2>3, <2>4, <2>5, <2>6, <2>7 DEF Tick
  <1>4. CASE Between
    <2>1. ASSUME NEW l \in Leaves, NEW ok \in BOOLEAN, FinishLeaf(l, ok) PROVE HoldInv'
      BY <2>1, FinishLeafHolds
    <2>2. ASSUME NEW p \in Parents, NEW ok \in BOOLEAN, NEW outcome \in {"pass", "repair", "fail"},
                 FinishParent(p, outcome, ok)
          PROVE  HoldInv'
      BY <2>2, FinishParentHolds
    <2>3. ASSUME NEW p \in Parents, NEW ok \in BOOLEAN, Replan(p, ok) \/ Capture(p, ok) \/ CleanUp(p, ok)
          PROVE  HoldInv'
      BY <2>3, ReplanHolds, CaptureHolds, CleanUpHolds
    <2>4. ASSUME NEW p \in Parents, RepairMerged(p) PROVE HoldInv'
      BY <2>4, RepairMergedHolds
    <2>5. CASE Crash
      BY <2>5, CrashHolds
    <2>6. ASSUME NEW R \in SUBSET Issues, Recover(R) PROVE HoldInv'
      BY <2>6, RecoverHolds
    <2>7. QED
      BY <1>4, <2>1, <2>2, <2>3, <2>4, <2>5, <2>6 DEF Between
  <1>5. QED
    BY <1>1, <1>2, <1>3, <1>4 DEF Next

LEMMA NextClear ==
    ASSUME IInv, ClearInv, [Next]_vars
    PROVE  ClearInv'
  <1>0. ASSUME UNCHANGED <<exec, mem, phase, pending>> PROVE ClearInv'
    BY <1>0 DEF ClearInv, Known, Holder, Subtree, Scopes, Reached
  <1>1. CASE UNCHANGED vars
    BY <1>0, <1>1 DEF vars
  <1>2. CASE World
    BY <1>0, <1>2, WorldLeaves
  <1>3. CASE Tick
    <2>1. ASSUME phase \in {"idle", "settle"}, pending' \in {pending, {}} PROVE ClearInv'
      BY <2>1, NoClaims, NothingPrepared
    <2>2. ASSUME NEW ok \in BOOLEAN, Refresh(ok) PROVE ClearInv'
      BY <2>1, <2>2 DEF Refresh
    <2>3. ASSUME NEW i \in Issues, NEW ok \in BOOLEAN, Release(i, ok) PROVE ClearInv'
      BY <2>1, <2>3 DEF Release, Settling, EndTick
    <2>4. ASSUME NEW i \in Issues, StopRefused(i) \/ Upsert(i) PROVE ClearInv'
      BY <2>1, <2>4 DEF StopRefused, Upsert, Settling
    <2>5. ASSUME NEW i \in Issues, Skip(i) \/ PreparationFails(i) PROVE ClearInv'
      BY <2>5, SkipClear, PreparationFailsClear
    <2>6. ASSUME NEW l \in Leaves, PrepareLeaf(l) PROVE ClearInv'
      BY <2>6, PrepareLeafClear
    <2>7. ASSUME NEW p \in Parents, PrepareParent(p) PROVE ClearInv'
      BY <2>7, PrepareParentClear
    <2>8. ASSUME NEW p \in Parents, EligibilityWriteFails(p) \/ AdmissionRefused(p) PROVE ClearInv'
      BY <2>8, NothingPrepared DEF EligibilityWriteFails, AdmissionRefused, Abandoned, EndTick
    <2>9. ASSUME NEW F \in SUBSET Issues, StartWorkers(F) PROVE ClearInv'
      BY <2>9, NothingPrepared DEF StartWorkers
    <2>10. ASSUME NEW i \in Issues, NEW ok \in BOOLEAN, RecordLaunch(i, ok) \/ RecordLaunchFailure(i)
           PROVE  ClearInv'
      BY <2>10, NothingPrepared DEF RecordLaunch, RecordLaunchFailure, Recording
    <2>11. CASE TickDone
      BY <2>11, NothingPrepared DEF TickDone, EndTick
    <2>12. QED
      BY <1>3, <2>2, <2>3, <2>4, <2>5, <2>6, <2>7, <2>8, <2>9, <2>10, <2>11 DEF Tick
  <1>4. CASE Between
    <2>1. phase' # "dispatch"
      <3>1. ASSUME NEW i, NEW ok, FinishLeaf(i, ok) PROVE phase' # "dispatch"
        BY <3>1 DEF FinishLeaf
      <3>2. ASSUME NEW q, NEW ok, NEW outcome, FinishParent(q, outcome, ok) PROVE phase' # "dispatch"
        BY <3>2 DEF FinishParent
      <3>3. ASSUME NEW q, NEW ok, Replan(q, ok) \/ Capture(q, ok) \/ CleanUp(q, ok)
            PROVE  phase' # "dispatch"
        BY <3>3 DEF Replan, Capture, CleanUp
      <3>4. ASSUME NEW q, RepairMerged(q) \/ Crash PROVE phase' # "dispatch"
        BY <3>4 DEF RepairMerged, Crash
      <3>5. ASSUME NEW R, Recover(R) PROVE phase' # "dispatch"
        BY <3>5 DEF Recover
      <3>6. QED
        BY <1>4, <3>1, <3>2, <3>3, <3>4, <3>5 DEF Between
    <2>2. QED
      BY <2>1, NothingPrepared
  <1>5. QED
    BY <1>1, <1>2, <1>3, <1>4 DEF Next

LEMMA InitHolds == Init => HoldInv /\ ClearInv
  <1> SUFFICES ASSUME Init PROVE HoldInv /\ ClearInv
    OBVIOUS
  <1>1. /\ mem = EmptyState /\ disk = EmptyState /\ exec = [i \in Issues |-> "absent"]
        /\ phase = "idle" /\ pending = {}
    BY DEF Init
  <1>2. ASSUME NEW p \in Parents
        PROVE  EmptyState.snap[p] = NoSnapshot /\ EmptyState.ctl[p] = NewController(0)
    BY DEF EmptyState
  <1>3. Fit(EmptyState) /\ Pend(EmptyState) = {}
    <2>1. NewController(0).cleanup = "none"
      BY DEF NewController
    <2>2. QED
      BY <1>2, <2>1, NoSnapshotFields DEF Fit, FitFor, Pend
  <1>4. \A p \in Parents : exec[p] = "absent"
    BY <1>1 DEF Issues
  <1>5. QED
    BY <1>1, <1>3, <1>4 DEF HoldInv, ClearInv

\* Every state the daemon reaches.
AllInv == IInv /\ HoldInv /\ ClearInv

LEMMA AllInvariant == Spec => []AllInv
  <1>1. Init => AllInv
    BY InitIInv, InitHolds DEF AllInv
  <1>2. AllInv /\ [Next]_vars => AllInv'
    BY NextIInv, NextHolds, NextClear DEF AllInv
  <1>3. QED
    BY <1>1, <1>2, PTL DEF Spec

-----------------------------------------------------------------------------
(* No run starts below a run. *)

LEMMA StartIsClear ==
    ASSUME AllInv, NEW F \in SUBSET Issues, StartWorkers(F), NEW i \in Issues, live'[i] > live[i],
           NEW p \in Known(mem), i \in Subtree(mem, mem.snap[p].scope),
           live[p] > 0 \/ exec[p] = "running"
    PROVE  ~Holder(mem, p)
  <1>1. /\ phase = "dispatch" /\ live \in [Issues -> 0 .. 1] /\ p \in Issues
        /\ live' = [j \in Issues |-> live[j] + (IF j \in pending \ F THEN 1 ELSE 0)]
    BY DEF AllInv, IInv, Typed, Known, Issues, StartWorkers
  <1>2. i \in pending
    BY <1>1
  <1>3. exec[p] = "running"
    <2>1. live[p] > 0 => live[p] # 0
      OBVIOUS
    <2>2. QED
      BY <1>1, <2>1 DEF AllInv, IInv, RunKnown
  <1>4. QED
    BY <1>1, <1>2, <1>3 DEF AllInv, ClearInv

(* While the run of a parent is alive, or is taken to be, and the parent    *)
(* holds a checkout, no issue below it starts, whatever was prepared and    *)
(* released between the question (hierarchy.rs                              *)
(* has_active_dispatched_ancestor) and the start.                           *)
THEOREM StartsApart == Spec => NoStartBelowRun
  <1> DEFINE Apart == \A i \in Issues, p \in Known(mem) :
                          /\ live'[i] > live[i] /\ i \in Subtree(mem, mem.snap[p].scope)
                          /\ live[p] > 0 \/ exec[p] = "running"
                          => \A l \in mem.leases : l.kind = "ancestor" => l.owner # p
  <1>1. AllInv /\ [Next]_vars => [Apart]_vars
    <2> SUFFICES ASSUME AllInv, [Next]_vars, NEW i \in Issues, NEW p \in Known(mem),
                        live'[i] > live[i], i \in Subtree(mem, mem.snap[p].scope),
                        live[p] > 0 \/ exec[p] = "running"
                 PROVE  \A l \in mem.leases : l.kind = "ancestor" => l.owner # p
      OBVIOUS
    <2>1. PICK F \in SUBSET Issues : StartWorkers(F)
      BY OnlyStarts DEF AllInv
    <2>2. ~Holder(mem, p)
      BY <2>1, StartIsClear
    <2>3. QED
      BY <2>2 DEF Holder
  <1>2. NoStartBelowRun <=> [][Apart]_vars
    BY DEF NoStartBelowRun
  <1> HIDE DEF Apart
  <1>3. QED
    BY <1>1, <1>2, AllInvariant, PTL DEF Spec

-----------------------------------------------------------------------------
(* What a running parent holds. *)

\* The run of `p` goes on, the orchestrator's tree is the tracker's, and no parent above
\* `p` lets go of what is below it.
Spared(p) ==
    /\ p \in Parents /\ exec[p] = "running" /\ exec'[p] = "running"
    /\ \A q \in Parents : scope[q] = mem.snap[q].scope
    /\ \A q \in Known(mem) : p \in Subtree(mem, mem.snap[q].scope) =>
           /\ q \in open \/ HasFence(mem.snap[q])
           /\ Subtree(mem, mem.snap[q].scope) \cap Leaves # {}

LEMMA SameLeasesKeepHold ==
    ASSUME NEW s, NEW r, NEW p, r.leases = s.leases
    PROVE  KeepsHold(s, r, p)
  BY DEF KeepsHold, Holds

\* A copy that follows `mem` through a reconciliation: the same children, no closed
\* parent that has lost its fence, and `p` holds what it held.
Follows(t, p) ==
    /\ t \in States /\ SameScopes(mem, t) /\ KeepsHold(mem, t, p)
    /\ \A q \in Parents \ open : t.snap[q].known /\ ~HasFence(t.snap[q])
           => mem.snap[q].known /\ ~HasFence(mem.snap[q])

LEMMA FollowsSame ==
    ASSUME NEW p, NEW t, NEW r, Follows(t, p), SameTree(t, r), KeepsHold(t, r, p)
    PROVE  Follows(r, p)
  <1>1. r \in States /\ r.snap = t.snap
    BY DEF SameTree
  <1>2. SameScopes(mem, r)
    BY <1>1 DEF Follows, SameScopes
  <1>3. KeepsHold(mem, r, p)
    BY KeepsHoldTrans DEF Follows
  <1>4. QED
    BY <1>1, <1>2, <1>3 DEF Follows

LEMMA FollowsEdit ==
    ASSUME NEW p, NEW t, NEW q \in Parents, NEW r \in States, Follows(t, p), KeepsHold(t, r, p),
           \A o \in Parents : o # q => r.snap[o] = t.snap[o],
           r.snap[q].scope = t.snap[q].scope, q \in open \/ ~r.snap[q].known
    PROVE  Follows(r, p)
  <1>1. SameScopes(mem, r)
    BY DEF Follows, SameScopes
  <1>2. KeepsHold(mem, r, p)
    BY KeepsHoldTrans DEF Follows
  <1>3. ASSUME NEW o \in Parents \ open, r.snap[o].known /\ ~HasFence(r.snap[o])
        PROVE  mem.snap[o].known /\ ~HasFence(mem.snap[o])
    <2>1. o # q
      BY <1>3
    <2>2. r.snap[o] = t.snap[o]
      BY <2>1
    <2>3. QED
      BY <1>3, <2>2 DEF Follows
  <1>4. QED
    BY <1>1, <1>2, <1>3 DEF Follows

LEMMA UndoneSpares ==
    ASSUME IInv, NEW p, Spared(p), NEW t, Follows(t, p), NEW q \in Parents \ open,
           t.snap[q].known, ~HasFence(t.snap[q]), NEW edges
    PROVE  Follows(ReleaseUndispatched(t, q, edges), p)
  <1>1. mem \in States /\ t \in States /\ SameScopes(mem, t)
    BY DEF IInv, Typed, Follows
  <1>2. q \in Known(mem) /\ ~HasFence(mem.snap[q])
    BY DEF Follows, Known
  <1>3. p # q
    <2>1. HasFence(mem.snap[p])
      BY DEF IInv, FenceKnown, Bound, Spared
    <2>2. QED
      BY <1>2, <2>1
  <1>4. p \notin Subtree(mem, mem.snap[q].scope)
    BY <1>2 DEF Spared
  <1>5. p \notin Subtree(t, t.snap[q].scope)
    <2>1. t.snap[q].scope = mem.snap[q].scope
      BY <1>1 DEF SameScopes
    <2>2. Subtree(t, mem.snap[q].scope) = Subtree(mem, mem.snap[q].scope)
      BY <1>1, SameSubtrees
    <2>3. QED
      BY <1>4, <2>1, <2>2
  <1>6. KeepsHold(t, ReleaseUndispatched(t, q, edges), p)
    BY <1>1, <1>3, <1>5, UndispatchedKeepsHold
  <1>7. SameTree(t, ReleaseUndispatched(t, q, edges))
    BY <1>1, ReleasesKeep
  <1>8. QED
    BY <1>6, <1>7, FollowsSame

\* A parent without children leaves nothing behind.
LEMMA ForgottenFollows ==
    ASSUME NEW p, NEW t, Follows(t, p), NEW q \in Parents, t.snap[q].scope = {}
    PROVE  Follows(ForgetParent(t, q), p)
  <1> DEFINE s1 == [t EXCEPT !.snap[q] = NoSnapshot, !.stamp[q] = 0, !.ctl[q] = NewController(0)]
             r  == ForgetParent(t, q)
  <1>1. t \in States
    BY DEF Follows
  <1>2. /\ NoSnapshot \in Snapshots /\ GoodSnap(NoSnapshot) /\ NoSnapshot.gen = 0
        /\ ~NoSnapshot.known /\ NoSnapshot.scope = {}
    BY NoSnapshotFields, NoSnapshotGood
  <1>3. NewController(0) \in Controllers /\ NewController(0).gen = 0
    BY NewControllerTyped
  <1>4. Edit(t, s1, q, NoSnapshot, NewController(0)) /\ s1.leases = t.leases
    <2> HIDE DEF NoSnapshot, NewController
    <2> QED BY <1>1, <1>2, <1>3 DEF Edit, States, Records, Issues
  <1> HIDE DEF s1, NoSnapshot, NewController
  <1>5. /\ s1 \in States /\ s1.snap[q] = NoSnapshot
        /\ \A o \in Parents : o # q => s1.snap[o] = t.snap[o]
    BY <1>1, <1>2, <1>3, <1>4, Edited
  <1>6. Follows(s1, p)
    <2>1. KeepsHold(t, s1, p)
      BY <1>4, SameLeasesKeepHold
    <2>2. QED
      BY <1>2, <1>5, <2>1, FollowsEdit
  <1>7. r = ReleaseRemoved(s1, q, {}, Edges)
    BY DEF ForgetParent, s1
  <1>8. KeepsHold(s1, r, p)
    <2> DEFINE lost == Subtree(s1, {}) \ Retained(s1, q, Subtree(s1, {}), Edges)
               Gone(l) == CASE l.kind = "leaf"     -> l.res \in lost
                            [] l.kind = "ancestor" -> l.owner \in lost
                            [] l.kind = "review"   -> (l.owner = q /\ l.via \in {})
                                                      \/ l.owner \in lost \cap Known(s1)
               gone == {l \in s1.leases : Gone(l)}
    <2>1. r = DropLeases(s1, gone)
      BY <1>7 DEF ReleaseRemoved
    <2>2. lost = {}
      <3>1. Subtree(s1, {}) = {}
        BY ReachedNothing DEF Subtree
      <3>2. QED
        BY <3>1
    <2> HIDE DEF lost
    <2>3. \A l \in s1.leases : l.kind = "ancestor" /\ l.owner = p => l \notin gone
      BY <2>2
    <2> HIDE DEF gone
    <2>4. QED
      BY <1>5, <2>1, <2>3, DropKeepsHold
  <1>9. SameTree(s1, r)
    BY <1>5, <1>7, ReleasesKeep
  <1>10. QED
    BY <1>6, <1>8, <1>9, FollowsSame

LEMMA ReconcileParentFollows ==
    ASSUME IInv, NEW p, Spared(p), NEW t, Follows(t, p), NEW q \in Parents
    PROVE  Follows(ReconcileParent(t, q, exec), p)
  <1> DEFINE sn     == t.snap[q]
             retain == scope[q] \cup sn.scope # {} \/ sn.frozen \/ sn.blocked
             undone == q \notin open /\ ~HasFence(sn)
             s1     == IF undone THEN ReleaseUndispatched(t, q, Edges) ELSE t
             r      == [s1 EXCEPT !.snap[q] = Replanned(@), !.ctl[q] = NewController(sn.gen)]
  <1>1. t \in States /\ scope[q] = sn.scope /\ GoodSnap(sn) /\ sn \in Snapshots /\ sn.gen \in Nat
    <2>1. t \in States /\ t.snap[q].scope = mem.snap[q].scope
      BY DEF Follows, SameScopes
    <2>2. scope[q] = mem.snap[q].scope
      BY DEF Spared
    <2>3. QED
      BY <2>1, <2>2, StateFields
  <1>2. CASE t.ctl[q].cleanup = "pending"
    BY <1>2 DEF ReconcileParent
  <1>3. CASE t.ctl[q].cleanup # "pending" /\ ~sn.known
    <2>1. sn = NoSnapshot
      BY <1>1, <1>3 DEF GoodSnap, SnapshotOK
    <2>2. ~retain
      BY <1>1, <2>1, NoSnapshotFields
    <2>3. ReconcileParent(t, q, exec) = t
      BY <1>3, <2>2 DEF ReconcileParent
    <2>4. QED
      BY <2>3
  <1>4. CASE t.ctl[q].cleanup # "pending" /\ sn.known /\ ~retain
    <2>1. ReconcileParent(t, q, exec) = ForgetParent(t, q)
      BY <1>4 DEF ReconcileParent
    <2>2. t.snap[q].scope = {}
      BY <1>4
    <2>3. QED
      BY <2>1, <2>2, ForgottenFollows
  <1>5. CASE t.ctl[q].cleanup # "pending" /\ sn.known /\ retain
    <2>1. Follows(s1, p)
      <3>1. CASE undone
        BY <1>5, <3>1, UndoneSpares
      <3>2. CASE ~undone
        BY <3>2
      <3>3. QED
        BY <3>1, <3>2
    <2>2. s1 \in States /\ SameTree(t, s1)
      BY <1>1, ReleasesKeep, SameTreeRefl DEF SameTree
    <2>3. s1.snap[q] = sn
      BY <2>2 DEF SameTree
    <2>4. ReconcileParent(t, q, exec) = IF Reactivated(s1, q, exec) THEN r ELSE s1
      BY <1>1, <1>5 DEF ReconcileParent
    <2> HIDE DEF s1, retain
    <2>5. CASE Reactivated(s1, q, exec)
      <3>1. GoodSnap(Replanned(sn)) /\ Replanned(sn).gen = sn.gen
        BY <1>1, <1>5, ReplannedGood
      <3>2. NewController(sn.gen) \in Controllers /\ NewController(sn.gen).gen = sn.gen
        BY <1>1, NewControllerTyped
      <3>3. Replanned(sn) \in Snapshots /\ Replanned(sn).scope = sn.scope
        BY <1>1, <3>1 DEF GoodSnap, Replanned, Snapshots
      <3>4. Edit(s1, r, q, Replanned(sn), NewController(sn.gen))
        <4>1. r = [s1 EXCEPT !.snap[q] = Replanned(sn), !.ctl[q] = NewController(sn.gen)]
          BY <2>3
        <4>2. QED
          BY <2>2, <3>2, <3>3, <4>1, BothEdit
      <3>5. r.leases = s1.leases
        BY <2>2 DEF States, Records
      <3>6. q \in open
        BY <2>5 DEF Reactivated
      <3>7. NewController(sn.gen).gen <= Replanned(sn).gen
        BY <1>1, <3>1, <3>2
      <3> HIDE DEF r, sn
      <3>8. /\ r \in States /\ r.snap[q] = Replanned(sn)
            /\ \A o \in Parents : o # q => r.snap[o] = s1.snap[o]
        BY <2>2, <3>1, <3>2, <3>4, <3>7, Edited
      <3>9. KeepsHold(s1, r, p)
        BY <3>5, SameLeasesKeepHold
      <3>10. Follows(r, p)
        BY <2>1, <2>3, <3>3, <3>6, <3>8, <3>9, FollowsEdit
      <3>11. QED
        BY <2>4, <2>5, <3>10
    <2>6. CASE ~Reactivated(s1, q, exec)
      BY <2>1, <2>4, <2>6
    <2>7. QED
      BY <2>5, <2>6
  <1>6. QED
    BY <1>2, <1>3, <1>4, <1>5

LEMMA ReconciledFollows ==
    ASSUME IInv, NEW p, Spared(p), NEW t, Follows(t, p), NEW S
    PROVE  Follows(Reconciled(t, S, exec), p)
  <1> DEFINE D == {u \in States : Follows(u, p)}
  <1>1. t \in D
    BY DEF Follows
  <1>2. ASSUME NEW u \in D, NEW q \in Parents \cap S PROVE ReconcileParent(u, q, exec) \in D
    <2>1. Follows(ReconcileParent(u, q, exec), p)
      BY <1>2, ReconcileParentFollows
    <2>2. QED
      BY <2>1 DEF Follows
  <1> HIDE DEF D
  <1>3. Reconciled(t, S, exec) \in D
    BY <1>1, <1>2, ReconciledIn
  <1>4. QED
    BY <1>3 DEF D

LEMMA FollowsItself ==
    ASSUME IInv, NEW p
    PROVE  Follows(mem, p)
  BY DEF Follows, IInv, Typed, SameScopes, KeepsHold

LEMMA RefreshKeepsHold ==
    ASSUME IInv, NEW p, Spared(p), NEW ok \in BOOLEAN, Refresh(ok)
    PROVE  KeepsHold(mem, mem', p)
  <1> DEFINE s1 == ReconcileActive(mem, exec)
             s2 == ReconcileTerminal(s1, exec)
  <1>1. Follows(s1, p)
    BY FollowsItself, ReconciledFollows DEF ReconcileActive
  <1> HIDE DEF s1
  <1>2. Follows(s2, p)
    BY <1>1, ReconciledFollows DEF ReconcileTerminal
  <1> HIDE DEF s2
  <1>3. mem' \in {mem, s2}
    BY DEF Refresh, s1, s2, SavedOrUndone, NotSaved
  <1>4. QED
    BY <1>2, <1>3, FollowsItself DEF Follows

\* Keeping the lease of a closed child.
LEMMA RetainKeepsHold ==
    ASSUME IInv, NEW p, Spared(p), NEW s \in States, Follows(s, p), NEW i
    PROVE  KeepsHold(s, RetainTerminalChildLease(s, i), p)
  <1> DEFINE undone == {q \in Known(s) \ open : i \in scope[q] /\ ~HasFence(s.snap[q])}
             mine   == {l \in s.leases : l.res = i}
             kept   == Lease("leaf", i, i, i, StampOf(s, i))
             r      == RetainTerminalChildLease(s, i)
  <1>1. CASE r = s
    BY <1>1 DEF KeepsHold
  <1>2. CASE undone # {} /\ r = ReleaseUndispatched(s, CHOOSE q \in undone : TRUE, {})
    <2> DEFINE q == CHOOSE o \in undone : TRUE
    <2>1. q \in undone
      BY <1>2
    <2>2. q \in Parents \ open /\ s.snap[q].known /\ ~HasFence(s.snap[q])
      BY <2>1 DEF Known
    <2>3. r = ReleaseUndispatched(s, q, {})
      BY <1>2
    <2> HIDE DEF q, r, undone
    <2>4. mem \in States /\ SameScopes(mem, s) /\ mem.snap[q].known /\ ~HasFence(mem.snap[q])
      BY <2>2 DEF IInv, Typed, Follows
    <2>5. p # q
      BY <2>4 DEF IInv, FenceKnown, Bound, Spared
    <2>6. p \notin Subtree(s, s.snap[q].scope)
      <3>1. p \notin Subtree(mem, mem.snap[q].scope)
        BY <2>2, <2>4 DEF Spared, Known
      <3>2. s.snap[q].scope = mem.snap[q].scope
        BY <2>2, <2>4 DEF SameScopes
      <3>3. Subtree(s, mem.snap[q].scope) = Subtree(mem, mem.snap[q].scope)
        BY <2>4, SameSubtrees
      <3>4. QED
        BY <3>1, <3>2, <3>3
    <2>7. QED
      BY <2>3, <2>5, <2>6, UndispatchedKeepsHold DEF r
  <1>3. CASE (\A l \in mine : l.kind = "leaf") /\ r = [s EXCEPT !.leases = (s.leases \ mine) \cup {kept}]
    <2> HIDE DEF r, kept
    <2>1. r.leases = (s.leases \ mine) \cup {kept}
      BY <1>3 DEF States, Records
    <2>2. \A l \in s.leases : l.kind = "ancestor" => l \in r.leases
      BY <1>3, <2>1
    <2>3. QED
      BY <2>2 DEF KeepsHold, Holds, r
  <1>4. \/ r = s
        \/ undone # {} /\ r = ReleaseUndispatched(s, CHOOSE q \in undone : TRUE, {})
        \/ (\A l \in mine : l.kind = "leaf") /\ r = [s EXCEPT !.leases = (s.leases \ mine) \cup {kept}]
    BY DEF RetainTerminalChildLease
  <1>5. QED
    BY <1>1, <1>2, <1>3, <1>4

LEMMA ReleaseKeepsHold ==
    ASSUME IInv, NEW p, Spared(p), NEW i \in Issues, NEW ok \in BOOLEAN, Release(i, ok)
    PROVE  KeepsHold(mem, mem', p)
  <1> DEFINE stops  == exec[i] = "running"
             closed == i \notin view.open
             x  == IF stops /\ Blocked(i) THEN 0 ELSE mem.snap[i].inFlight
             s1 == IF i \in Parents
                   THEN [mem EXCEPT !.snap[i].inFlight = x, !.ctl[i] = ReleasedController(@, closed)]
                   ELSE mem
             sr == [s1 EXCEPT !.receipts = IF exec[i] = "done" THEN @ \cup {i} ELSE @]
             s2 == IF closed /\ Finalized(s1, i) THEN RetainTerminalChildLease(sr, i) ELSE s1
  <1>1. mem \in States /\ Follows(mem, p)
    BY FollowsItself DEF IInv, Typed
  <1>2. mem' \in {mem, s2}
    BY DEF Release, SavedOrUndone, NotSaved
  <1>3. CASE i \in Parents
    <2>1. i \notin Leaves
      BY <1>3, HierarchyAssumption
    <2>2. RetainTerminalChildLease(sr, i) = sr
      <3> HIDE DEF sr
      <3> QED BY <2>1 DEF RetainTerminalChildLease
    <2>3. s1.leases = mem.leases
      <3> HIDE DEF x, closed
      <3> QED BY <1>1, <1>3 DEF States, Records
    <2>4. sr.leases = s1.leases
      <3>1. s1 = Lifted(mem, i, x, ReleasedController(mem.ctl[i], closed))
        BY <1>3 DEF Lifted
      <3>2. s1 \in States
        <4>1. x \in {0, mem.snap[i].inFlight}
          OBVIOUS
        <4>2. ReleasedController(mem.ctl[i], closed) \in Controllers
              /\ ReleasedController(mem.ctl[i], closed).gen = mem.ctl[i].gen
          BY <1>1, <1>3, StateFields, ReleasedControllerTyped
        <4> HIDE DEF s1, x, closed
        <4>3. QED
          BY <1>1, <1>3, <3>1, <4>1, <4>2, ReleasedParent
      <3> HIDE DEF s1
      <3>3. QED
        BY <3>2 DEF States, Records
    <2> HIDE DEF s1, sr
    <2>5. s2.leases = mem.leases
      BY <2>2, <2>3, <2>4
    <2> HIDE DEF s2
    <2>6. mem'.leases = mem.leases
      BY <1>2, <2>5
    <2>7. QED
      BY <2>6, SameLeasesKeepHold
  <1>4. CASE i \notin Parents
    <2>1. s1 = mem
      BY <1>4
    <2>2. SameTree(mem, sr) /\ sr.leases = mem.leases
      <3>1. (IF exec[i] = "done" THEN mem.receipts \cup {i} ELSE mem.receipts) \in SUBSET Issues
        BY <1>1 DEF States, Records
      <3>2. sr.leases = mem.leases
        BY <1>1, <2>1 DEF States, Records
      <3>3. QED
        BY <1>1, <2>1, <3>1, <3>2, ReceiptsKeep
    <2> HIDE DEF s1, sr
    <2>3. KeepsHold(mem, sr, p)
      BY <2>2, SameLeasesKeepHold
    <2>4. sr \in States /\ Follows(sr, p)
      BY <1>1, <2>2, <2>3, FollowsSame DEF SameTree
    <2>5. KeepsHold(mem, RetainTerminalChildLease(sr, i), p)
      BY <2>3, <2>4, RetainKeepsHold, KeepsHoldTrans
    <2>6. mem' = mem \/ mem' = RetainTerminalChildLease(sr, i)
      BY <1>2, <2>1
    <2>7. KeepsHold(mem, mem, p)
      BY DEF KeepsHold
    <2>8. QED
      BY <2>5, <2>6, <2>7
  <1>5. QED
    BY <1>3, <1>4

\* Binding the leaf lease of a finished child, and stamping it.
LEMMA ReboundKeepsHold ==
    ASSUME NEW s \in States, NEW i \in Issues, NEW p
    PROVE  KeepsHold(s, Rebound(s, i), p)
  <1>1. CASE Above(s, i) = {} \/ s.stamp[i] \in {0, ScopeGen(s, i)}
    BY <1>1 DEF Rebound, KeepsHold
  <1>2. CASE ~(Above(s, i) = {} \/ s.stamp[i] \in {0, ScopeGen(s, i)})
    <2> DEFINE s1 == [s EXCEPT !.stamp = [s.stamp EXCEPT ![i] = ScopeGen(s, i)]]
    <2>1. Rebound(s, i) = Rebind(s1, "leaf", {i}, ScopeGen(s, i))
      BY <1>2 DEF Rebound
    <2>2. ScopeGen(s, i) \in Nat
      BY <1>2, AboveGenerations
    <2>3. s1 \in States /\ s1.leases = s.leases
      <3>1. [s.stamp EXCEPT ![i] = ScopeGen(s, i)] \in [Issues -> Nat]
        BY <2>2 DEF States, Records
      <3>2. s1.leases = s.leases
        BY DEF States, Records
      <3>3. QED
        BY <3>1, <3>2, StampKeeps DEF SameTree
    <2> HIDE DEF s1
    <2>4. KeepsHold(s, s1, p)
      BY <2>3, SameLeasesKeepHold
    <2>5. KeepsHold(s1, Rebind(s1, "leaf", {i}, ScopeGen(s, i)), p)
      BY <2>2, <2>3, RebindKeepsHold
    <2>6. QED
      BY <2>1, <2>4, <2>5, KeepsHoldTrans
  <1>3. QED
    BY <1>1, <1>2

LEMMA FinishLeafKeepsHold ==
    ASSUME IInv, NEW p, Spared(p), NEW i \in Leaves, NEW ok \in BOOLEAN, FinishLeaf(i, ok)
    PROVE  KeepsHold(mem, mem', p)
  <1> DEFINE rt == RetainTerminalChildLease(mem, i)
             kept == [rt EXCEPT !.receipts = @ \cup {i}]
             s0 == IF i \notin open THEN kept ELSE mem
             s1 == Rebound(s0, i)
  <1>1. mem \in States /\ i \in Issues /\ Follows(mem, p) /\ KeepsHold(mem, mem, p)
    BY FollowsItself DEF IInv, Typed, Issues, KeepsHold
  <1>2. mem' \in {mem, s1}
    BY DEF FinishLeaf, SavedOrUndone, NotSaved
  <1>3. SameTree(mem, rt) /\ KeepsHold(mem, rt, p)
    BY <1>1, RetainKeeps, RetainKeepsHold
  <1> HIDE DEF rt
  <1>4. kept \in States /\ kept.leases = rt.leases
    <2>1. rt.receipts \cup {i} \in SUBSET Issues /\ kept.leases = rt.leases
      BY <1>1, <1>3 DEF SameTree, States, Records
    <2>2. QED
      BY <1>3, <2>1, ReceiptsKeep DEF SameTree
  <1> HIDE DEF kept
  <1>5. KeepsHold(mem, kept, p)
    BY <1>3, <1>4, SameLeasesKeepHold, KeepsHoldTrans
  <1>6. s0 \in States /\ KeepsHold(mem, s0, p)
    BY <1>1, <1>4, <1>5
  <1> HIDE DEF s0
  <1>7. KeepsHold(mem, s1, p)
    BY <1>1, <1>6, ReboundKeepsHold, KeepsHoldTrans
  <1>8. QED
    BY <1>1, <1>2, <1>7

LEMMA FinishParentKeepsHold ==
    ASSUME IInv, NEW p, NEW q \in Parents, NEW outcome \in {"pass", "repair", "fail"},
           NEW ok \in BOOLEAN, FinishParent(q, outcome, ok)
    PROVE  KeepsHold(mem, mem', p)
  <1> DEFINE closed == q \notin open
             st == CASE outcome = "pass"   -> IF closed THEN "completed" ELSE "passed"
                     [] outcome = "repair" -> "fixing"
                     [] outcome = "fail"   -> "retry"
             s1 == [mem EXCEPT !.ctl[q].st = st]
             s2 == IF closed /\ Finalized(s1, q) THEN [s1 EXCEPT !.receipts = @ \cup {q}] ELSE s1
             s3 == Rebound(s2, q)
  <1>1. mem \in States /\ q \in Issues /\ KeepsHold(mem, mem, p)
    BY DEF IInv, Typed, Issues, KeepsHold
  <1>2. mem' \in {mem, s3}
    BY DEF FinishParent, SavedOrUndone
  <1>3. st \in CtlStates
    BY DEF CtlStates
  <1> HIDE DEF st
  <1>4. s1 \in States /\ s1.leases = mem.leases
    <2>1. s1.leases = mem.leases
      BY <1>1 DEF States, Records
    <2>2. QED
      BY <1>1, <1>3, <2>1, CtlState
  <1> HIDE DEF s1
  <1>5. s2 \in States /\ s2.leases = s1.leases
    <2>1. s1.receipts \cup {q} \in SUBSET Issues
          /\ [s1 EXCEPT !.receipts = s1.receipts \cup {q}].leases = s1.leases
      BY <1>1, <1>4 DEF States, Records
    <2>2. QED
      BY <1>4, <2>1, ReceiptsKeep DEF SameTree
  <1> HIDE DEF s2
  <1>6. KeepsHold(mem, s2, p)
    BY <1>4, <1>5, SameLeasesKeepHold
  <1>7. KeepsHold(mem, s3, p)
    BY <1>1, <1>5, <1>6, ReboundKeepsHold, KeepsHoldTrans
  <1>8. QED
    BY <1>1, <1>2, <1>7

LEMMA ReplanKeepsHold ==
    ASSUME IInv, NEW p, NEW q \in Parents, NEW ok \in BOOLEAN, Replan(q, ok)
    PROVE  KeepsHold(mem, mem', p)
  <1> DEFINE sn == mem.snap[q]
             s0 == [mem EXCEPT !.snap[q] = Replanned(@)]
             s1 == Rebind(s0, "ancestor", {q}, sn.gen)
             s2 == IF mem.ctl[q].gen = sn.gen THEN s1 ELSE [s1 EXCEPT !.ctl[q] = NewController(sn.gen)]
  <1>1. mem \in States /\ KeepsHold(mem, mem, p)
    BY DEF IInv, Typed, KeepsHold
  <1>2. sn.known /\ mem' \in {mem, s2}
    BY DEF Replan, SavedOrUndone
  <1>3. GoodSnap(sn) /\ mem.ctl[q] \in Controllers /\ mem.ctl[q].gen <= sn.gen /\ sn.gen \in Nat
    BY <1>1, StateFields
  <1>4. GoodSnap(Replanned(sn)) /\ Replanned(sn).gen = sn.gen
    BY <1>2, <1>3, ReplannedGood
  <1>5. Edit(mem, s0, q, Replanned(sn), mem.ctl[q])
    BY <1>1, <1>4, SnapEdit DEF GoodSnap
  <1>6. s0.leases = mem.leases
    BY <1>1 DEF States, Records
  <1> HIDE DEF s0
  <1>7. s0 \in States
    BY <1>1, <1>3, <1>4, <1>5, Edited
  <1>8. s1 \in States /\ KeepsHold(s0, s1, p)
    BY <1>3, <1>7, RebindKeeps, RebindKeepsHold DEF SameTree
  <1> HIDE DEF s1
  <1>9. s2.leases = s1.leases
    BY <1>8 DEF States, Records
  <1> HIDE DEF s2
  <1>10. KeepsHold(mem, s0, p) /\ KeepsHold(s1, s2, p)
    BY <1>6, <1>9, SameLeasesKeepHold
  <1>11. KeepsHold(mem, s2, p)
    BY <1>8, <1>10, KeepsHoldTrans
  <1>12. QED
    BY <1>1, <1>2, <1>11

LEMMA CleanUpKeepsHold ==
    ASSUME IInv, HoldInv, NEW p, Spared(p), NEW q \in Parents, NEW ok \in BOOLEAN, CleanUp(q, ok)
    PROVE  KeepsHold(mem, mem', p)
  <1> DEFINE s1   == ReleaseParentResources(mem, q, mem.ctl[q].targets)
             busy == {r \in mem.ctl[q].targets :
                         Held(s1, r) \/ r \in open \/ exec[r] \in {"running", "retry"}}
             s2   == [s1 EXCEPT !.ctl[q] = [@ EXCEPT !.targets = busy,
                                                     !.cleanup = IF busy = {} THEN "done" ELSE "pending"]]
  <1>1. mem \in States /\ KeepsHold(mem, mem, p)
    BY DEF IInv, Typed, KeepsHold
  <1>2. mem' \in {mem, s2} /\ mem.ctl[q].cleanup = "pending"
    BY DEF CleanUp, SavedOrUndone
  <1>3. p # q
    BY <1>2 DEF HoldInv, Busy, Pend, Spared
  <1>4. KeepsHold(mem, s1, p) /\ s1 \in States
    BY <1>1, <1>3, ResourcesKeepHold, ReleasesKeep DEF SameTree
  <1> HIDE DEF s1
  <1>5. s2.leases = s1.leases
    <2> HIDE DEF busy
    <2> QED BY <1>4 DEF States, Records
  <1> HIDE DEF s2
  <1>6. KeepsHold(mem, s2, p)
    BY <1>4, <1>5, SameLeasesKeepHold, KeepsHoldTrans
  <1>7. QED
    BY <1>1, <1>2, <1>6

\* What a child without a merge to prove lets go of is not above a running parent.
LEMMA ExaminedKeepsHold ==
    ASSUME IInv, NEW p, Spared(p), NEW i
    PROVE  KeepsHold(mem, Examined(mem, i), p)
  <1> DEFINE void == {c \in mem.snap[i].scope : ~MergeRequired(c) /\ ChildTerminal(mem, c)}
             D == {t \in States : SameScopes(mem, t) /\ KeepsHold(mem, t, p)}
  <1>1. mem \in States /\ scope \in [Parents -> SUBSET Issues]
    BY DEF IInv, Typed
  <1>2. mem \in D
    BY <1>1 DEF SameScopes, KeepsHold
  <1>3. Scopes(mem) = scope
    <2>1. Scopes(mem) = [q \in Parents |-> mem.snap[q].scope]
      BY <1>1, ScopesOfState
    <2>2. QED
      BY <1>1, <2>1 DEF Spared
  <1>4. ASSUME NEW c \in Parents \cap void PROVE p # c /\ p \notin Subtree(mem, mem.snap[c].scope)
    <2>1. ChildTerminal(mem, c) /\ Below(c) \cap Leaves = {}
      BY DEF MergeRequired
    <2>2. p # c
      BY <2>1 DEF ChildTerminal, Spared
    <2>3. Below(c) = Subtree(mem, mem.snap[c].scope)
      BY <1>3 DEF Below, Subtree, Spared
    <2>4. CASE c \in Known(mem)
      BY <2>1, <2>2, <2>3, <2>4 DEF Spared
    <2>5. CASE c \notin Known(mem)
      <3>1. mem.snap[c] = NoSnapshot
        BY <1>1, <2>5, StateFields DEF Known, GoodSnap, SnapshotOK
      <3>2. Subtree(mem, mem.snap[c].scope) = {}
        BY <3>1, NoSnapshotFields, ReachedNothing DEF Subtree
      <3>3. QED
        BY <2>2, <3>2
    <2>6. QED
      BY <2>4, <2>5
  <1>5. ASSUME NEW t \in D, NEW c \in Parents \cap void PROVE ReleaseUndispatched(t, c, Edges) \in D
    <2> DEFINE r == ReleaseUndispatched(t, c, Edges)
    <2>1. t \in States /\ SameScopes(mem, t) /\ KeepsHold(mem, t, p)
      OBVIOUS
    <2>2. p # c /\ p \notin Subtree(mem, mem.snap[c].scope) /\ c \in Parents
      BY <1>4
    <2> HIDE DEF D, void
    <2>3. t.snap[c].scope = mem.snap[c].scope
      BY <2>1, <2>2 DEF SameScopes
    <2>4. p \notin Subtree(t, t.snap[c].scope)
      <3>1. Subtree(t, mem.snap[c].scope) = Subtree(mem, mem.snap[c].scope)
        BY <1>1, <2>1, SameSubtrees
      <3>2. QED
        BY <2>2, <2>3, <3>1
    <2>5. KeepsHold(t, r, p)
      BY <2>1, <2>2, <2>4, UndispatchedKeepsHold
    <2>6. SameTree(t, r)
      BY <2>1, ReleasesKeep
    <2> HIDE DEF r
    <2>7. r \in States /\ r.snap = t.snap
      BY <2>6 DEF SameTree
    <2>8. SameScopes(mem, r)
      BY <2>1, <2>7 DEF SameScopes
    <2>9. KeepsHold(mem, r, p)
      BY <2>1, <2>5, KeepsHoldTrans
    <2>10. QED
      BY <2>7, <2>8, <2>9 DEF D, r
  <1>6. \A t \in D, c \in Parents :
            c \in mem.snap[i].scope /\ ~MergeRequired(c) /\ ChildTerminal(mem, c)
            => ReleaseUndispatched(t, c, Edges) \in D
    <2> HIDE DEF D
    <2> QED BY <1>5
  <1> HIDE DEF D, void
  <1>7. Examined(mem, i) \in D
    BY <1>2, <1>6, ExaminedIn
  <1>8. QED
    BY <1>7 DEF D

\* Acquiring leases replaces a lease by one with the same keys at most.
LEMMA AcquireKeepsHold ==
    ASSUME NEW s, NEW r, NEW new, NEW p, r.leases = Acquire(s.leases, new)
    PROVE  KeepsHold(s, r, p)
  <1>1. ASSUME NEW x \in Leaves, Holds(s, p, x) PROVE Holds(r, p, x)
    <2>1. PICK l \in s.leases : l.kind = "ancestor" /\ l.owner = p /\ l.res = x
      BY <1>1 DEF Holds
    <2>2. CASE \A n \in new : LeaseKeys(l) # LeaseKeys(n)
      <3>1. l \in r.leases
        BY <2>2 DEF Acquire
      <3>2. QED
        BY <2>1, <3>1 DEF Holds
    <2>3. CASE \E n \in new : LeaseKeys(l) = LeaseKeys(n)
      <3>1. PICK n \in new : LeaseKeys(l) = LeaseKeys(n)
        BY <2>3
      <3>2. n.kind = "ancestor" /\ n.owner = p /\ n.res = x
        BY <2>1, <3>1 DEF LeaseKeys
      <3>3. n \in r.leases
        BY DEF Acquire
      <3>4. QED
        BY <3>2, <3>3 DEF Holds
    <2>4. QED
      BY <2>2, <2>3
  <1>2. QED
    BY <1>1 DEF KeepsHold

LEMMA AdmittedKeepsHold ==
    ASSUME IInv, NEW p, Spared(p), NEW q \in Parents
    PROVE  KeepsHold(mem, Admitted(mem, q), p)
  <1>1. mem \in States
    BY DEF IInv, Typed
  <1>2. PICK new : Admitted(mem, q).leases = Acquire(Examined(mem, q).leases, new)
    BY <1>1, AdmittedLeases
  <1>3. KeepsHold(Examined(mem, q), Admitted(mem, q), p)
    BY <1>2, AcquireKeepsHold
  <1>4. QED
    BY <1>3, ExaminedKeepsHold, KeepsHoldTrans

LEMMA SkipKeepsHold ==
    ASSUME IInv, NEW p, Spared(p), NEW i \in Issues, Skip(i)
    PROVE  KeepsHold(mem, mem', p)
  <1>1. mem' \in {mem, Examined(mem, i)}
    BY DEF Skip, SavedOrUndone, NotSaved
  <1>2. KeepsHold(mem, mem, p)
    BY DEF KeepsHold
  <1>3. QED
    BY <1>1, <1>2, ExaminedKeepsHold

LEMMA PreparationFailsKeepsHold ==
    ASSUME IInv, NEW p, Spared(p), NEW i \in Issues, PreparationFails(i)
    PROVE  KeepsHold(mem, mem', p)
  <1>1. CASE i \in Leaves
    <2>1. mem' = mem
      BY <1>1 DEF PreparationFails
    <2>2. QED
      BY <2>1 DEF KeepsHold
  <1>2. CASE i \notin Leaves
    <2> DEFINE a == Admitted(mem, i)
    <2>1. /\ mem' = [a EXCEPT !.snap[i].intent = 0]
          /\ Eligible(mem, i, exec[i] = "retry")
      BY <1>2 DEF PreparationFails
    <2>2. mem.snap[i].known /\ i \in Parents
      BY <1>2, <2>1 DEF Eligible, Examines, Issues
    <2>3. mem \in States /\ merged \in [Leaves -> 0 .. MaxRuns]
      BY DEF IInv, Typed
    <2>4. a \in States /\ KeepsHold(mem, a, p)
      BY <2>2, <2>3, AdmittedResult, AdmittedKeepsHold
    <2> HIDE DEF a
    <2>5. mem'.leases = a.leases
      BY <2>1, <2>4 DEF States, Records
    <2>6. QED
      BY <2>4, <2>5 DEF KeepsHold, Holds
  <1>3. QED
    BY <1>1, <1>2

LEMMA PrepareLeafKeepsHold ==
    ASSUME IInv, NEW p, NEW i \in Leaves, PrepareLeaf(i)
    PROVE  KeepsHold(mem, mem', p)
  <1>1. mem \in States /\ mem' \in {mem, Stamped(mem, i)}
    BY DEF IInv, Typed, PrepareLeaf, SavedOrUndone, NotSaved
  <1>2. mem'.leases = mem.leases
    BY <1>1, StampedNoGain
  <1>3. QED
    BY <1>2, SameLeasesKeepHold

LEMMA PrepareParentKeepsHold ==
    ASSUME IInv, NEW p, Spared(p), NEW q \in Parents, PrepareParent(q)
    PROVE  KeepsHold(mem, mem', p)
  <1> DEFINE a  == Admitted(mem, q)
             s1 == Stamped(a, q)
             s2 == [s1 EXCEPT !.ctl[q].st = "integrating"]
  <1>1. mem \in States /\ q \in Issues /\ merged \in [Leaves -> 0 .. MaxRuns]
    BY DEF IInv, Typed, Issues
  <1>2. mem' = s2 /\ Eligible(mem, q, exec[q] = "retry")
    BY DEF PrepareParent, SavedOrUndone
  <1>3. mem.snap[q].known
    BY <1>2 DEF Eligible, Examines
  <1>4. a \in States /\ KeepsHold(mem, a, p)
    BY <1>1, <1>3, AdmittedResult, AdmittedKeepsHold
  <1> HIDE DEF a
  <1>5. s1 \in States /\ s1.leases = a.leases
    BY <1>1, <1>4, StampedKeeps, StampedNoGain DEF SameTree
  <1> HIDE DEF s1
  <1>6. s2.leases = s1.leases
    BY <1>5 DEF States, Records
  <1> HIDE DEF s2
  <1>7. KeepsHold(a, s2, p)
    BY <1>5, <1>6, SameLeasesKeepHold
  <1>8. QED
    BY <1>2, <1>4, <1>7, KeepsHoldTrans

\* A launched parent takes over from children that do not run.
LEMMA LaunchedKeepsHold ==
    ASSUME NEW s \in States, NEW i \in Issues, i \in Parents => s.snap[i].known,
           NEW p, i \in Parents => p \notin s.snap[i].scope
    PROVE  KeepsHold(s, Launched(s, i), p)
  <1> DEFINE s0 == [s EXCEPT !.receipts = @ \ {i}]
             sn == s0.snap[i]
             s1 == [s0 EXCEPT !.snap[i] = MarkDispatched(@)]
             s2 == ReleaseLeafLeasesFor(s1, i)
             s3 == ReleaseAncestorLeasesOf(s2, sn.scope \cap Known(s0))
  <1>1. SameTree(s, s0) /\ s0.leases = s.leases
    <2>1. s.receipts \ {i} \in SUBSET Issues /\ s0.leases = s.leases
      BY DEF States, Records
    <2>2. QED
      BY <2>1, ReceiptsKeep
  <1>2. s0 \in States /\ s0.snap = s.snap /\ KeepsHold(s, s0, p)
    BY <1>1, SameLeasesKeepHold DEF SameTree
  <1>3. Launched(s, i) = IF i \in Parents THEN s3 ELSE s0
    BY DEF Launched, Dispatched
  <1> HIDE DEF s0
  <1>4. CASE i \in Parents
    <2>1. GoodSnap(sn) /\ s0.ctl[i] \in Controllers /\ s0.ctl[i].gen <= sn.gen /\ sn.known
          /\ p \notin sn.scope
      BY <1>2, <1>4, StateFields
    <2>2. GoodSnap(MarkDispatched(sn)) /\ MarkDispatched(sn).gen = sn.gen
      BY <2>1, MarkDispatchedGood
    <2>3. s1.leases = s0.leases
      BY <1>2 DEF States, Records
    <2>4. Edit(s0, s1, i, MarkDispatched(sn), s0.ctl[i])
      BY <1>2, <1>4, <2>2, SnapEdit DEF GoodSnap
    <2> HIDE DEF s1, sn
    <2>5. s1 \in States
      BY <1>2, <1>4, <2>1, <2>2, <2>4, Edited
    <2>6. KeepsHold(s0, s1, p) /\ KeepsHold(s1, s2, p) /\ s2 \in States
      BY <2>3, <2>5, SameLeasesKeepHold, LeafLeasesKeepHold, ReleasesKeep DEF SameTree
    <2> HIDE DEF s2
    <2>7. KeepsHold(s2, s3, p)
      BY <2>1, <2>6, ChildrenKeepHold
    <2> HIDE DEF s3
    <2>8. KeepsHold(s0, s3, p)
      BY <2>6, <2>7, KeepsHoldTrans
    <2>9. QED
      BY <1>2, <1>3, <1>4, <2>8, KeepsHoldTrans
  <1>5. CASE i \notin Parents
    BY <1>2, <1>3, <1>5
  <1>6. QED
    BY <1>4, <1>5

LEMMA RecordLaunchKeepsHold ==
    ASSUME IInv, HoldInv, NEW p, Spared(p), NEW i \in Issues, NEW ok \in BOOLEAN, RecordLaunch(i, ok)
    PROVE  KeepsHold(mem, mem', p)
  <1>1. mem \in States /\ exec[i] = "claimed" /\ mem' \in {mem, Launched(mem, i)}
    BY DEF IInv, Typed, RecordLaunch, Recording, SavedOrOwed
  <1>2. i \in Parents => mem.snap[i].known
    BY <1>1 DEF IInv, FenceKnown, Announced
  <1>3. i \in Parents => p \notin mem.snap[i].scope
    BY <1>1 DEF HoldInv, Waiting, Spared
  <1>4. KeepsHold(mem, Launched(mem, i), p) /\ KeepsHold(mem, mem, p)
    BY <1>1, <1>2, <1>3, LaunchedKeepsHold DEF KeepsHold
  <1>5. QED
    BY <1>1, <1>4

LEMMA RecordLaunchFailureKeepsHold ==
    ASSUME IInv, NEW p, NEW i \in Issues, RecordLaunchFailure(i)
    PROVE  KeepsHold(mem, mem', p)
  <1>1. mem \in States
    BY DEF IInv, Typed
  <1>2. mem' \in {mem, [mem EXCEPT !.snap[i].intent = 0, !.ctl[i].st = "retry"]}
    BY DEF RecordLaunchFailure, SavedOrUndone, NotSaved
  <1>3. mem'.leases = mem.leases
    BY <1>1, <1>2 DEF States, Records
  <1>4. QED
    BY <1>3, SameLeasesKeepHold

LEMMA OthersKeepHold ==
    ASSUME IInv, NEW p,
           \/ UNCHANGED vars \/ World \/ TickDone \/ \E F \in SUBSET Issues : StartWorkers(F)
           \/ \E i \in Issues : StopRefused(i) \/ Upsert(i)
           \/ \E q \in Parents : EligibilityWriteFails(q) \/ AdmissionRefused(q) \/ RepairMerged(q)
           \/ \E q \in Parents, ok \in BOOLEAN : Capture(q, ok)
    PROVE  KeepsHold(mem, mem', p)
  <1>1. mem \in States
    BY DEF IInv, Typed
  <1>2. CASE UNCHANGED vars \/ World \/ TickDone \/ \E F \in SUBSET Issues : StartWorkers(F)
    <2>1. mem' = mem
      BY <1>2, WorldLeaves DEF vars, TickDone, StartWorkers
    <2>2. QED
      BY <2>1, SameLeasesKeepHold
  <1>3. ASSUME NEW i \in Issues, StopRefused(i) \/ Upsert(i) PROVE KeepsHold(mem, mem', p)
    <2>1. mem' \in {mem, [mem EXCEPT !.receipts = @ \ {i}]}
      BY <1>3 DEF StopRefused, Upsert
    <2>2. mem'.leases = mem.leases
      BY <1>1, <2>1 DEF States, Records
    <2>3. QED
      BY <2>2, SameLeasesKeepHold
  <1>4. ASSUME NEW q \in Parents, EligibilityWriteFails(q) \/ AdmissionRefused(q) \/ RepairMerged(q)
        PROVE  KeepsHold(mem, mem', p)
    <2>1. mem' \in {mem, [mem EXCEPT !.ctl[q].st = "retry"]}
      BY <1>4 DEF EligibilityWriteFails, AdmissionRefused, RepairMerged, SavedOrUndone, NotSaved
    <2>2. mem'.leases = mem.leases
      BY <1>1, <2>1 DEF States, Records
    <2>3. QED
      BY <2>2, SameLeasesKeepHold
  <1>5. ASSUME NEW q \in Parents, NEW ok \in BOOLEAN, Capture(q, ok) PROVE KeepsHold(mem, mem', p)
    <2>1. \E c : mem' \in {mem, [mem EXCEPT !.ctl[q] = c]}
      BY <1>5 DEF Capture, SavedOrUndone
    <2>2. mem'.leases = mem.leases
      BY <1>1, <2>1 DEF States, Records
    <2>3. QED
      BY <2>2, SameLeasesKeepHold
  <1>6. QED
    BY <1>2, <1>3, <1>4, <1>5

LEMMA NextKeepsHold ==
    ASSUME IInv, HoldInv, [Next]_vars, NEW p, Spared(p)
    PROVE  KeepsHold(mem, mem', p)
  <1>1. CASE UNCHANGED vars \/ World
    BY <1>1, OthersKeepHold
  <1>2. CASE Tick
    <2>1. ASSUME NEW ok \in BOOLEAN, Refresh(ok) PROVE KeepsHold(mem, mem', p)
      BY <2>1, RefreshKeepsHold
    <2>2. ASSUME NEW i \in Issues, NEW ok \in BOOLEAN, Release(i, ok) \/ RecordLaunch(i, ok)
          PROVE  KeepsHold(mem, mem', p)
      BY <2>2, ReleaseKeepsHold, RecordLaunchKeepsHold
    <2>3. ASSUME NEW i \in Issues,
                 \/ StopRefused(i) \/ Upsert(i)
                 \/ Skip(i) \/ PreparationFails(i) \/ RecordLaunchFailure(i)
          PROVE  KeepsHold(mem, mem', p)
      <3>1. CASE StopRefused(i) \/ Upsert(i)
        BY <3>1, OthersKeepHold
      <3>2. QED
        BY <2>3, <3>1, SkipKeepsHold, PreparationFailsKeepsHold, RecordLaunchFailureKeepsHold
    <2>4. ASSUME NEW l \in Leaves, PrepareLeaf(l) PROVE KeepsHold(mem, mem', p)
      BY <2>4, PrepareLeafKeepsHold
    <2>5. ASSUME NEW q \in Parents,
                 PrepareParent(q) \/ EligibilityWriteFails(q) \/ AdmissionRefused(q)
          PROVE  KeepsHold(mem, mem', p)
      BY <2>5, PrepareParentKeepsHold, OthersKeepHold
    <2>6. CASE TickDone \/ \E F \in SUBSET Issues : StartWorkers(F)
      BY <2>6, OthersKeepHold
    <2>7. QED
      BY <1>2, <2>1, <2>2, <2>3, <2>4, <2>5, <2>6 DEF Tick
  <1>3. CASE Between
    <2>1. ASSUME NEW l \in Leaves, NEW ok \in BOOLEAN, FinishLeaf(l, ok) PROVE KeepsHold(mem, mem', p)
      BY <2>1, FinishLeafKeepsHold
    <2>2. ASSUME NEW q \in Parents, NEW ok \in BOOLEAN, NEW outcome \in {"pass", "repair", "fail"},
                 FinishParent(q, outcome, ok)
          PROVE  KeepsHold(mem, mem', p)
      BY <2>2, FinishParentKeepsHold
    <2>3. ASSUME NEW q \in Parents, NEW ok \in BOOLEAN, Replan(q, ok) \/ Capture(q, ok) \/ CleanUp(q, ok)
          PROVE  KeepsHold(mem, mem', p)
      <3>1. CASE Capture(q, ok)
        BY <3>1, OthersKeepHold
      <3>2. QED
        BY <2>3, <3>1, ReplanKeepsHold, CleanUpKeepsHold
    <2>4. ASSUME NEW q \in Parents, RepairMerged(q) PROVE KeepsHold(mem, mem', p)
      BY <2>4, OthersKeepHold
    <2>5. ~Crash
      <3>1. p \in Issues /\ exec'[p] = "running"
        BY DEF Spared, Issues
      <3>2. QED
        BY <3>1 DEF Crash
    <2>6. ~\E R \in SUBSET Issues : Recover(R)
      BY DEF Recover, HoldInv, Spared, Issues
    <2>7. QED
      BY <1>3, <2>1, <2>2, <2>3, <2>4, <2>5, <2>6 DEF Between
  <1>4. QED
    BY <1>1, <1>2, <1>3 DEF Next

(* While the orchestrator's tree is the tracker's, a running parent keeps   *)
(* its hold on every checkout over a reconciliation, a release, an          *)
(* admission, a launch, a replan and a cleanup of any parent, unless a      *)
(* parent above it was closed without having been launched or has no leaf   *)
(* below it (hierarchy.rs release_parent_resource_leases,                   *)
(* release_ancestor_leases_for_children and                                 *)
(* release_subtree_evidence_for_undispatched_parent).                       *)
THEOREM CheckoutsKept == Spec => RunningParentKeepsItsCheckouts
  <1> DEFINE Kept == \A p \in Parents, l \in Leaves :
                         /\ exec[p] = "running" /\ exec'[p] = "running"
                         /\ Holds(mem, p, l) /\ ~Holds(mem', p, l)
                         /\ \A q \in Parents : scope[q] = mem.snap[q].scope
                         => \E q \in Known(mem) :
                               /\ p \in Subtree(mem, mem.snap[q].scope)
                               /\ \/ q \notin open /\ ~HasFence(mem.snap[q])
                                  \/ Subtree(mem, mem.snap[q].scope) \cap Leaves = {}
  <1>1. AllInv /\ [Next]_vars => [Kept]_vars
    <2> SUFFICES ASSUME AllInv, [Next]_vars, NEW p \in Parents, NEW l \in Leaves,
                        exec[p] = "running", exec'[p] = "running",
                        Holds(mem, p, l), ~Holds(mem', p, l),
                        \A q \in Parents : scope[q] = mem.snap[q].scope
                 PROVE  \E q \in Known(mem) :
                            /\ p \in Subtree(mem, mem.snap[q].scope)
                            /\ \/ q \notin open /\ ~HasFence(mem.snap[q])
                               \/ Subtree(mem, mem.snap[q].scope) \cap Leaves = {}
      OBVIOUS
    <2>1. ~KeepsHold(mem, mem', p)
      BY DEF KeepsHold
    <2>2. ~Spared(p)
      BY <2>1, NextKeepsHold DEF AllInv
    <2>3. QED
      BY <2>2 DEF Spared
  <1>2. RunningParentKeepsItsCheckouts <=> [][Kept]_vars
    BY DEF RunningParentKeepsItsCheckouts
  <1> HIDE DEF Kept
  <1>3. QED
    BY <1>1, <1>2, AllInvariant, PTL DEF Spec
=============================================================================
