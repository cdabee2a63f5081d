------------------------- MODULE ParentRepairProofs -------------------------
(***************************************************************************)
(* Theorems about ParentRepair: its safety properties, for every number of *)
(* commits, reviews, objections, events of others and faults.              *)
(***************************************************************************)
EXTENDS ParentRepair, TLAPS

\* What a transition is known by: a word, with the number that tells it from
\* the others of its kind, and its input.
Names == (Statuses \cup {"push", "pull-request", "merged", "merge-ready"}) \X Int

Keys == [name : Names, input : Int]

Records ==
    [state : States, status : Statuses, pushed : Int, pr : BOOLEAN, cycle : Nat,
     done : BOOLEAN, pending : [Kinds -> Int], receipts : SUBSET Kinds,
     requested : SUBSET Int, cursor : Nat,
     keys : SUBSET Keys]

\* The fields that no transition of the controller's state touches.
SameWork(q, r) ==
    /\ q.pushed = r.pushed /\ q.pr = r.pr
    /\ q.requested = r.requested /\ q.cursor = r.cursor

-----------------------------------------------------------------------------
(* The inductive invariant.  What it says of the record holds of the copy   *)
(* in memory, of the one on disk, and of each one written on the way; it is *)
(* said of a record r and of the world w that r describes.                  *)

World == [remote |-> remote, pr |-> pr, asked |-> asked, comments |-> comments,
          merger |-> merger, vetted |-> vetted]

Working == {"PreparingBranch", "Implementing"}
Merged  == {"Refreshing", "Completed"}
Merging == {"AwaitingMerge", "Refreshing", "Completed"}

\* Only work in progress has no pushed commit, and what was pushed is there.
PushIsRecorded(r, w) ==
    /\ \/ r.pushed \in Ours
       \/ r.pushed = NoCommit /\ r.status \in Working /\ ~ r.pr
    /\ r.pushed # NoCommit => w.remote # NoCommit

\* A trigger that was posted is either receipted or behind the cursor.
TriggerIsKnown(r, w) ==
    /\ r.cursor <= w.comments
    /\ \A c \in Ours :
          w.asked[c] > 0 => \/ c \in r.requested
                            \/ r.pending["RequestReview"] = c /\ r.cursor < w.comments

\* The daemon's own merge has its intent, or its outcome.
OwnMergeIsKnown(r, w) ==
    w.merger.who = "daemon" =>
        /\ r.pushed = w.merger.head
        /\ \/ /\ r.pending["Merge"] = w.merger.head
              /\ r.status \in BlockedStatuses \cup {"AwaitingMerge"}
           \/ r.status \in Merged

\* A merge follows the policy, and what is taken for one is one.
MergeIsSound(r, w) ==
    /\ r.status = "AwaitingMerge" => r.pushed \in w.vetted
    /\ r.status \in Merged =>
          w.pr = "merged" /\ w.merger.head = r.pushed /\ w.merger.head \in w.vetted

Sound(r, w) == /\ PushIsRecorded(r, w) /\ TriggerIsKnown(r, w)
               /\ OwnMergeIsKnown(r, w) /\ MergeIsSound(r, w)

SoundRecords(w) == {r \in Records : Sound(r, w)}

WorldOK ==
    /\ pr \in {"none", "open", "closed", "merged"}
    /\ prCount = IF pr = "none" THEN 0 ELSE 1
    /\ local \in 0 .. MaxCommits /\ work \in BOOLEAN /\ (work => local < MaxCommits)
    /\ remote \in Int /\ (pr # "none" => remote # NoCommit)
    /\ comments \in Nat
    /\ asked \in [Ours -> Nat] /\ \A c \in Ours : asked[c] <= 1
    /\ verdict = "approved" /\ checks = "passed" => remote \in vetted
    /\ pr = "merged" /\ verdict = "approved" => merger.head = remote
    /\ merger.who = "daemon" => pr = "merged" /\ merger.head \in vetted

\* What the daemon knows when it is about to make an external write.
CallOK ==
    /\ pc \in {"idle", "CreateBranch", "Push", "FindPullRequest", "CreatePullRequest",
               "RequestReview", "Merge"}
    /\ pc # "idle" => mem = disk
    /\ pc = "CreateBranch" => mem.status = "PreparingBranch"
    /\ pc = "Push" => /\ mem.status \in {"Implementing", "AwaitingPullRequest"}
                      /\ work \/ local # Target
    /\ pc \in {"FindPullRequest", "CreatePullRequest"} =>
          mem.pushed \in Ours /\ mem.status \in {"AwaitingReview", "AwaitingPullRequest"}
    /\ pc = "RequestReview" =>
          /\ mem.status = "AwaitingReview"
          /\ mem.pending["RequestReview"] = mem.pushed /\ mem.pushed \notin mem.requested
    /\ pc = "Merge" => mem.status = "AwaitingMerge" /\ mem.pending["Merge"] = mem.pushed

IInv == /\ mem \in SoundRecords(World) /\ disk \in SoundRecords(World)
        /\ WorldOK
        /\ CallOK

-----------------------------------------------------------------------------
(* What the operations of the record return.                               *)

\* A transition changes the state and the keys, or nothing.
LEMMA KeyedDoes ==
    ASSUME NEW r \in Records, NEW to \in States, NEW name \in Names,
           NEW input \in Int, NEW x, x = Keyed(r, to, name, input)
    PROVE  /\ x.rec \in Records
           /\ SameWork(x.rec, r)
           /\ x.rec.status = r.status /\ x.rec.pending = r.pending
           /\ x.rec.cycle = r.cycle /\ x.rec.done = r.done
<1> DEFINE k == [name |-> name, input |-> input]
           moved == [r EXCEPT !.state = to, !.keys = @ \cup {k}]
<1>1. k \in Keys
  BY DEF Keys
<1> HIDE DEF k
<1>2. moved \in Records /\ SameWork(moved, r)
      /\ moved.status = r.status /\ moved.pending = r.pending
      /\ moved.cycle = r.cycle /\ moved.done = r.done
  BY <1>1 DEF Records, SameWork
<1>3. x = Done(r) \/ x = Failed(r) \/ x = Done(moved)
  BY DEF Keyed, k
<1> HIDE DEF moved
<1>4. x.rec = r \/ x.rec = moved
  BY <1>3 DEF Done, Failed
<1>. QED  BY <1>2, <1>4 DEF SameWork

LEMMA FreshDoes ==
    ASSUME NEW r \in Records, NEW to \in States, NEW x, x = Fresh(r, to)
    PROVE  /\ x.rec \in Records
           /\ SameWork(x.rec, r)
           /\ x.rec.status = r.status /\ x.rec.pending = r.pending
           /\ x.rec.cycle = r.cycle /\ x.rec.done = r.done
BY DEF Fresh, Done, Failed, Records, SameWork

\* A change of the status leaves the rest alone.
LEMMA StatusDoes ==
    ASSUME NEW r \in Records, NEW s \in Statuses, NEW q, q = [r EXCEPT !.status = s]
    PROVE  /\ q \in Records /\ SameWork(q, r)
           /\ q.status = s /\ q.pending = r.pending /\ q.cycle = r.cycle
           /\ q.done = r.done /\ q.state = r.state
BY DEF Records, SameWork

LEMMA BlockDoes ==
    ASSUME NEW r \in Records, NEW s \in BlockedStatuses, NEW input \in Int,
           NEW x, x = Block(r, s, input)
    PROVE  /\ x.rec \in Records
           /\ SameWork(x.rec, r)
           /\ x.rec.status = s /\ x.rec.pending = r.pending
<1> DEFINE q == [r EXCEPT !.status = s]
<1>1. q \in Records /\ SameWork(q, r) /\ q.status = s /\ q.pending = r.pending
  BY StatusDoes DEF Statuses
<1>2. x = Keyed(q, "Blocked", <<s, 0>>, input)
  BY DEF Block
<1>3. <<s, 0>> \in Names /\ "Blocked" \in States
  BY DEF Names, Statuses, States
<1> HIDE DEF q
<1>. QED  BY <1>1, <1>2, <1>3, KeyedDoes DEF SameWork

\* An intent is recorded, or refused with the record as it was.
LEMMA IntendDoes ==
    ASSUME NEW r \in Records, NEW kind \in Kinds, NEW input \in Int,
           NEW x, x = Intend(r, kind, input)
    PROVE  /\ x.rec \in Records
           /\ SameWork(x.rec, r) /\ x.rec.status = r.status /\ x.rec.state = r.state
           /\ x.rec.cycle = r.cycle /\ x.rec.done = r.done
           /\ \A k \in Kinds \ {kind} : x.rec.pending[k] = r.pending[k]
           /\ x.ok => x.rec.pending[kind] = input /\ r.pending[kind] \in {None, input}
           /\ ~ x.ok => x.rec = r
<1> DEFINE p == [r.pending EXCEPT ![kind] = input]
           q == [r EXCEPT !.pending = p]
<1>1. r.pending \in [Kinds -> Int]
  BY DEF Records
<1>2. p \in [Kinds -> Int] /\ p[kind] = input
      /\ \A k \in Kinds \ {kind} : p[k] = r.pending[k]
  BY <1>1
<1>3. \/ x = Failed(r)
      \/ x = Done(q) /\ r.pending[kind] \in {None, input}
  BY DEF Intend
<1> HIDE DEF p
<1>4. q \in Records /\ SameWork(q, r) /\ q.status = r.status /\ q.state = r.state
      /\ q.cycle = r.cycle /\ q.done = r.done /\ q.pending = p
  BY <1>2 DEF Records, SameWork
<1> HIDE DEF q
<1>5. \/ x.rec = r /\ x.ok = FALSE
      \/ x.rec = q /\ x.ok = TRUE /\ r.pending[kind] \in {None, input}
  BY <1>3 DEF Done, Failed
<1>. QED  BY <1>2, <1>4, <1>5 DEF SameWork

\* A receipt ends the pending intent of its kind; that of a review says for
\* which head it was.
LEMMA ReceiptDoes ==
    ASSUME NEW r \in Records, NEW kind \in Kinds, NEW q, q = Receipt(r, kind)
    PROVE  /\ q \in Records
           /\ q.pushed = r.pushed /\ q.pr = r.pr /\ q.cursor = r.cursor
           /\ q.status = r.status /\ q.state = r.state
           /\ q.cycle = r.cycle /\ q.done = r.done
           /\ q.pending[kind] = None
           /\ \A k \in Kinds \ {kind} : q.pending[k] = r.pending[k]
           /\ kind = "RequestReview" => q.requested = r.requested \cup {r.pending[kind]}
           /\ kind # "RequestReview" => q.requested = r.requested
<1> DEFINE p == [r.pending EXCEPT ![kind] = None]
           h == IF kind = "RequestReview" THEN r.requested \cup {r.pending[kind]} ELSE r.requested
           t == r.receipts \cup {kind}
<1>1. r.pending \in [Kinds -> Int] /\ r.requested \in SUBSET Int
  BY DEF Records
<1>2. p \in [Kinds -> Int] /\ p[kind] = None
      /\ \A k \in Kinds \ {kind} : p[k] = r.pending[k]
  BY <1>1 DEF None
<1>3. h \in SUBSET Int
  BY <1>1, Zenon
<1>4. q = [r EXCEPT !.pending = p, !.receipts = t, !.requested = h]
  <2>1. kind = "RequestReview" => r.pending["RequestReview"] = r.pending[kind]
    OBVIOUS
  <2>. QED  BY <2>1 DEF Receipt
<1>6. t \in SUBSET Kinds
  BY DEF Records
<1> HIDE DEF p, h, t
<1>5. q \in Records
      /\ q.pushed = r.pushed /\ q.pr = r.pr /\ q.cursor = r.cursor
      /\ q.status = r.status /\ q.state = r.state
      /\ q.cycle = r.cycle /\ q.done = r.done /\ q.pending = p /\ q.requested = h
  BY <1>2, <1>3, <1>4, <1>6 DEF Records
<1>. QED  BY <1>2, <1>5 DEF h

-----------------------------------------------------------------------------
(* What keeps a record sound.                                              *)

Keeps(q, r) == /\ SameWork(q, r)
               /\ q.pending["RequestReview"] = r.pending["RequestReview"]
               /\ q.pending["Merge"] = r.pending["Merge"]

LEMMA SameIsSound ==
    ASSUME NEW w, NEW r \in SoundRecords(w), NEW q \in Records,
           Keeps(q, r), q.status = r.status
    PROVE  q \in SoundRecords(w)
BY DEF SoundRecords, Sound, Keeps, SameWork, PushIsRecorded, TriggerIsKnown, OwnMergeIsKnown,
       MergeIsSound

\* A repair that was pushed and not merged may be blocked.
LEMMA BlockedIsSound ==
    ASSUME NEW w, NEW r \in SoundRecords(w), NEW q \in Records,
           Keeps(q, r), r.status \notin Working \cup Merged, q.status \in BlockedStatuses
    PROVE  q \in SoundRecords(w)
<1>1. q.status \notin Merging
  BY DEF BlockedStatuses, Merging
<1>. QED
  BY <1>1 DEF SoundRecords, Sound, Keeps, SameWork, PushIsRecorded, TriggerIsKnown,
     OwnMergeIsKnown, MergeIsSound, Merged, Merging

NotByUs(w) == w.merger.who # "daemon"

\* As long as the daemon has not merged, the status may go back.
LEMMA FreeIsSound ==
    ASSUME NEW w, NEW r \in SoundRecords(w), NEW q \in Records,
           Keeps(q, r), NotByUs(w),
           r.pushed \in Ours \/ {r.status, q.status} \subseteq Working,
           q.status \notin Merging
    PROVE  q \in SoundRecords(w)
BY DEF SoundRecords, Sound, Keeps, SameWork, PushIsRecorded, TriggerIsKnown, OwnMergeIsKnown,
       MergeIsSound, NotByUs, Merged, Merging

LEMMA ReadyIsSound ==
    ASSUME NEW w, NEW r \in SoundRecords(w), NEW q \in Records,
           Keeps(q, r), NotByUs(w), r.pushed \in Ours, r.pushed \in w.vetted,
           q.status = "AwaitingMerge"
    PROVE  q \in SoundRecords(w)
BY DEF SoundRecords, Sound, Keeps, SameWork, PushIsRecorded, TriggerIsKnown, OwnMergeIsKnown,
       MergeIsSound, Merged, NotByUs

\* The receipt of the merge may come with the status that it leads to.
LEMMA MergedIsSound ==
    ASSUME NEW w, NEW r \in SoundRecords(w), NEW q \in Records,
           SameWork(q, r), q.pending["RequestReview"] = r.pending["RequestReview"],
           r.pushed \in Ours, w.pr = "merged", w.merger.head = r.pushed, r.pushed \in w.vetted,
           q.status \in Merged
    PROVE  q \in SoundRecords(w)
BY DEF SoundRecords, Sound, SameWork, PushIsRecorded, TriggerIsKnown, OwnMergeIsKnown,
       MergeIsSound, Merged

\* An intent keeps the record sound; that to merge is for the pushed commit.
LEMMA IntendIsSound ==
    ASSUME NEW w, NEW r \in SoundRecords(w), NEW kind \in Kinds, NEW input \in Int,
           kind = "Merge" => input = r.pushed,
           NEW x, x = Intend(r, kind, input)
    PROVE  x.rec \in SoundRecords(w)
<1>1. r \in Records
  BY DEF SoundRecords
<1>2. /\ x.rec \in Records /\ SameWork(x.rec, r) /\ x.rec.status = r.status
      /\ \A k \in Kinds \ {kind} : x.rec.pending[k] = r.pending[k]
     
      /\ x.ok => x.rec.pending[kind] = input /\ r.pending[kind] \in {None, input}
      /\ ~ x.ok => x.rec = r
  BY <1>1, IntendDoes
<1>3. "RequestReview" \in Kinds /\ "Merge" \in Kinds
  BY DEF Kinds
<1>4. CASE kind # "RequestReview" /\ kind # "Merge"
  <2>1. Keeps(x.rec, r)
    BY <1>2, <1>3, <1>4 DEF Keeps
  <2>. QED  BY <1>2, <2>1, SameIsSound
<1>5. CASE ~ x.ok
  BY <1>2, <1>5
<1>6. CASE x.ok /\ kind = "Merge"
  BY <1>2, <1>3, <1>6 DEF SoundRecords, Sound, SameWork, PushIsRecorded, TriggerIsKnown,
     OwnMergeIsKnown, MergeIsSound
<1>7. CASE x.ok /\ kind = "RequestReview"
  <2>1. \A c \in Ours : c # None
    BY DEF Ours, None
  <2>. QED
    BY <1>2, <1>3, <1>7, <2>1 DEF SoundRecords, Sound, SameWork, PushIsRecorded, TriggerIsKnown,
       OwnMergeIsKnown, MergeIsSound
<1>. QED  BY <1>4, <1>5, <1>6, <1>7

\* So does a receipt, when that of a merge is not all there is of it.
LEMMA ReceiptIsSound ==
    ASSUME NEW w, NEW r \in SoundRecords(w), NEW kind \in Kinds,
           kind = "Merge" => NotByUs(w),
           NEW q, q = Receipt(r, kind)
    PROVE  q \in SoundRecords(w)
<1>1. r \in Records
  BY DEF SoundRecords
<1>2. /\ q \in Records
      /\ q.pushed = r.pushed /\ q.pr = r.pr /\ q.cursor = r.cursor /\ q.status = r.status
      /\ \A k \in Kinds \ {kind} : q.pending[k] = r.pending[k]
  BY <1>1, ReceiptDoes
<1>7. /\ kind = "RequestReview" => q.requested = r.requested \cup {r.pending[kind]}
      /\ kind # "RequestReview" => q.requested = r.requested
  BY <1>1, ReceiptDoes
<1>3. "RequestReview" \in Kinds /\ "Merge" \in Kinds
  BY DEF Kinds
<1>4. CASE kind # "RequestReview" /\ kind # "Merge"
  <2>1. Keeps(q, r)
    BY <1>2, <1>3, <1>4, <1>7 DEF Keeps, SameWork
  <2>. QED  BY <1>2, <2>1, SameIsSound
<1>5. CASE kind = "Merge"
  BY <1>2, <1>3, <1>5, <1>7 DEF NotByUs, SoundRecords, Sound, PushIsRecorded, TriggerIsKnown, OwnMergeIsKnown,
     MergeIsSound
<1>6. CASE kind = "RequestReview"
  BY <1>2, <1>3, <1>6, <1>7 DEF SoundRecords, Sound, PushIsRecorded, TriggerIsKnown, OwnMergeIsKnown,
     MergeIsSound
<1>. QED  BY <1>4, <1>5, <1>6

\* What a snapshot s says of the world w.
Reads(s, w) ==
    /\ s.available => \/ s.merged /\ s.found /\ w.pr = "merged"
                      \/ ~ s.merged /\ NotByUs(w)
    /\ s.available /\ Eligible(s) => s.head # NoCommit /\ s.head \in w.vetted
    /\ s.available /\ s.merged /\ Eligible(s) => w.merger.head = s.head

\* Whatever the provider says, what is made of it is sound.
LEMMA ReconcileIsSound ==
    ASSUME NEW w, NEW r \in SoundRecords(w), NEW s, Reads(s, w),
           r.status \notin Working \cup Merged,
           NEW x, x = ReconcileProvider(r, s)
    PROVE  x.rec \in SoundRecords(w) /\ x.rec.pushed = r.pushed
<1>1. r \in Records /\ r.pushed \in Ours /\ r.pushed # NoCommit
  BY DEF SoundRecords, Sound, PushIsRecorded, Ours, NoCommit
<1>2. ASSUME NEW b \in BlockedStatuses, x = Block(r, b, 0)
      PROVE  x.rec \in SoundRecords(w) /\ x.rec.pushed = r.pushed
  <2>1. x.rec \in Records /\ Keeps(x.rec, r) /\ x.rec.status = b
    BY <1>1, <1>2, BlockDoes DEF Keeps
  <2>. QED  BY <2>1, BlockedIsSound DEF Keeps, SameWork
<1>3. ASSUME NEW q \in Records, Keeps(q, r), q.status \in Statuses \ Merging,
             NotByUs(w), NEW to \in States, x = Fresh(q, to)
      PROVE  x.rec \in SoundRecords(w) /\ x.rec.pushed = r.pushed
  <2>1. x.rec \in Records /\ Keeps(x.rec, r) /\ x.rec.status = q.status
    BY <1>3, FreshDoes DEF Keeps, SameWork
  <2>2. x.rec.status \notin Merging /\ NotByUs(w)
    BY <1>3, <2>1
  <2>3. x.rec \in SoundRecords(w)
    BY <1>1, <2>1, <2>2, FreeIsSound
  <2>. QED  BY <2>1, <2>3 DEF Keeps, SameWork
<1>4. x = Done(r) \/ x = Failed(r) =>
          x.rec \in SoundRecords(w) /\ x.rec.pushed = r.pushed
  BY DEF Done, Failed
<1>5. /\ "ExternallyClosed" \in BlockedStatuses /\ "ForcePushed" \in BlockedStatuses
      /\ "MergeConflict" \in BlockedStatuses /\ "FailedChecks" \in BlockedStatuses
      /\ "ReviewRejected" \in BlockedStatuses /\ "ProviderUnavailable" \in BlockedStatuses
  BY DEF BlockedStatuses
<1>6. /\ "Fixing" \in States /\ "AwaitingFixReview" \in States
      /\ "AwaitingFixMerge" \in States /\ "RefreshingAfterFixes" \in States
  BY DEF States
<1>7. <<"merged", 0>> \in Names /\ <<"merge-ready", 0>> \in Names /\ 0 \in Int
  BY DEF Names
<1>8. ASSUME NEW n \in {"AwaitingPullRequest", "AwaitingReview", "ChangesRequested",
                        "AwaitingMerge"}
      PROVE  [r EXCEPT !.status = n] \in Records /\ Keeps([r EXCEPT !.status = n], r)
             /\ [r EXCEPT !.status = n].status = n
             /\ n \in Statuses
  <2>1. n \in Statuses
    BY DEF Statuses
  <2>. QED  BY <1>1, <2>1, StatusDoes DEF Keeps
<1>9. CASE ~ s.available
  BY <1>2, <1>5, <1>9 DEF ReconcileProvider
<1>10. CASE /\ s.available /\ ~ s.merged
            /\ ~ s.found /\ ~ r.pr /\ r.pushed # NoCommit /\ r.state = "Blocked"
  <2>1. x = Fresh([r EXCEPT !.status = "AwaitingPullRequest"], "Fixing")
    BY <1>10 DEF ReconcileProvider
  <2>2. NotByUs(w) /\ "AwaitingPullRequest" \notin Merging
    BY <1>10 DEF Reads, Merging
  <2>. QED  BY <1>3, <1>6, <1>8, <2>1, <2>2
<1>11. CASE s.available /\ s.merged /\ x = ReconcileMerged(r, s)
  <2>1. CASE \/ s.head # r.pushed \/ ~ Eligible(s)
             \/ r.pending["Merge"] = None \/ r.pending["Merge"] # r.pushed
    BY <1>2, <1>5, <1>11, <2>1 DEF ReconcileMerged
  <2>2. CASE ~ s.reachable /\ s.head = r.pushed /\ Eligible(s) /\ r.pending["Merge"] # None
             /\ r.pending["Merge"] = r.pushed
    BY <1>2, <1>5, <1>11, <2>2 DEF ReconcileMerged
  <2>3. CASE s.reachable /\ s.head = r.pushed /\ Eligible(s) /\ r.pending["Merge"] # None
             /\ r.pending["Merge"] = r.pushed
    <3> DEFINE p == Receipt(r, "Merge")
               q == [p EXCEPT !.status = "Refreshing"]
    <3>1. x = Keyed(q, "RefreshingAfterFixes", <<"merged", 0>>, 0)
      BY <1>11, <2>3 DEF ReconcileMerged
    <3>2. /\ p \in Records /\ SameWork(p, r)
          /\ p.pending["RequestReview"] = r.pending["RequestReview"]
      BY <1>1, ReceiptDoes DEF SameWork, Kinds
    <3> HIDE DEF p
    <3>3. /\ q \in Records /\ SameWork(q, r) /\ q.status = "Refreshing"
          /\ q.pending["RequestReview"] = r.pending["RequestReview"]
      BY <3>2, StatusDoes DEF SameWork, Statuses
    <3> HIDE DEF q
    <3>4. /\ x.rec \in Records /\ SameWork(x.rec, r) /\ x.rec.status = "Refreshing"
          /\ x.rec.pending["RequestReview"] = r.pending["RequestReview"]
      BY <1>6, <1>7, <3>1, <3>3, KeyedDoes DEF SameWork
    <3>5. w.pr = "merged" /\ w.merger.head = r.pushed /\ r.pushed \in w.vetted
      BY <1>11, <2>3 DEF Reads
    <3>6. "Refreshing" \in Merged
      BY DEF Merged
    <3>. QED  BY <1>1, <3>4, <3>5, <3>6, MergedIsSound DEF SameWork
  <2>. QED  BY <2>1, <2>2, <2>3
<1>12. CASE /\ s.available /\ ~ s.merged
            /\ ~ (~ s.found /\ ~ r.pr /\ r.pushed # NoCommit /\ r.state = "Blocked")
  <2>1. NotByUs(w)
    BY <1>12 DEF Reads
  <2>2. CASE \/ s.found /\ ~ s.open
             \/ s.head # NoCommit /\ r.pushed # NoCommit /\ s.head # r.pushed
             \/ s.conflict \/ s.checks = "failed"
    BY <1>2, <1>5, <1>12, <2>2 DEF ReconcileProvider
  <2>3. CASE ~ (\/ s.found /\ ~ s.open
                \/ s.head # NoCommit /\ r.pushed # NoCommit /\ s.head # r.pushed
                \/ s.conflict \/ s.checks = "failed")
    <3>1. CASE s.review = "changes"
      <4> DEFINE n == r.cycle + 1
                 q == [r EXCEPT !.status = "ChangesRequested", !.done = FALSE, !.cycle = n]
      <4>1. x = Fresh(q, "Fixing")
        BY <1>12, <2>3, <3>1 DEF ReconcileProvider
      <4>2. /\ q \in Records /\ Keeps(q, r) /\ q.status = "ChangesRequested"
            /\ q.status \in Statuses \ Merging
        <5>1. "ChangesRequested" \in Statuses \ Merging
          BY DEF Statuses, Merging
        <5>2. n \in Nat
          BY <1>1 DEF Records
        <5> HIDE DEF n
        <5>. QED  BY <1>1, <5>1, <5>2 DEF Records, Keeps, SameWork
      <4> HIDE DEF q
      <4>. QED  BY <1>3, <1>6, <2>1, <4>1, <4>2
    <3>2. CASE s.review = "rejected"
      BY <1>2, <1>5, <1>12, <2>3, <3>2 DEF ReconcileProvider
    <3>3. CASE s.review # "changes" /\ s.review # "rejected" /\ Eligible(s)
      <4>1. CASE r.pr
        <5> DEFINE q == [r EXCEPT !.status = "AwaitingMerge"]
        <5>1. x = Keyed(q, "AwaitingFixMerge", <<"merge-ready", 0>>, 0)
          BY <1>12, <2>3, <3>3, <4>1 DEF ReconcileProvider
        <5>2. q \in Records /\ Keeps(q, r) /\ q.status = "AwaitingMerge"
          BY <1>8
        <5> HIDE DEF q
        <5>3. /\ x.rec \in Records /\ Keeps(x.rec, r) /\ x.rec.status = "AwaitingMerge"
             
          BY <1>6, <1>7, <5>1, <5>2, KeyedDoes DEF Keeps, SameWork
        <5>4. r.pushed \in w.vetted
          BY <1>1, <1>12, <2>3, <3>3 DEF Reads
        <5>. QED  BY <1>1, <2>1, <5>3, <5>4, ReadyIsSound DEF Keeps, SameWork
      <4>2. CASE ~ r.pr
        BY <1>4, <1>12, <2>3, <3>3, <4>2 DEF ReconcileProvider
      <4>. QED  BY <4>1, <4>2
    <3>4. CASE s.review # "changes" /\ s.review # "rejected" /\ ~ Eligible(s)
      <4>1. \/ x = Done(r) \/ x = Failed(r)
            \/ x = Fresh([r EXCEPT !.status = "AwaitingReview"], "AwaitingFixReview")
        BY <1>12, <2>3, <3>4 DEF ReconcileProvider
      <4>2. "AwaitingReview" \notin Merging
        BY DEF Merging
      <4>. QED  BY <1>3, <1>4, <1>6, <1>8, <2>1, <4>1, <4>2
    <3>. QED  BY <3>1, <3>2, <3>3, <3>4
  <2>. QED  BY <2>2, <2>3
<1>13. ASSUME s.available, s.merged
       PROVE  x = ReconcileMerged(r, s)
  BY <1>13 DEF ReconcileProvider, Reads
<1>. QED  BY <1>9, <1>10, <1>11, <1>12, <1>13

\* A record that waits for neither an operator nor the provider's merge was
\* not merged by the daemon.
LEMMA NotBlockedNotByUs ==
    ASSUME NEW w, NEW r \in SoundRecords(w), r.status \notin BlockedStatuses \cup Merging
    PROVE  NotByUs(w)
BY DEF SoundRecords, Sound, OwnMergeIsKnown, NotByUs, Merged, Merging

LEMMA SupersededIsSound ==
    ASSUME NEW w, NEW r \in SoundRecords(w), NEW kind \in Kinds,
           kind = "Merge" => NotByUs(w),
           NEW q, q = Superseded(r, kind)
    PROVE  /\ q \in SoundRecords(w)
           /\ q.pushed = r.pushed /\ q.pr = r.pr /\ q.cursor = r.cursor /\ q.status = r.status
<1>1. r \in Records
  BY DEF SoundRecords
<1>2. q = r \/ q = Receipt(r, kind)
  BY DEF Superseded
<1>. QED  BY <1>1, <1>2, ReceiptIsSound, ReceiptDoes

\* A push that the remote branch accepted may be recorded.
LEMMA RecordPushIsSound ==
    ASSUME NEW w, NEW r \in SoundRecords(w), NEW commit \in Ours,
           NotByUs(w), w.remote # NoCommit,
           NEW x, x = RecordPush(r, commit)
    PROVE  /\ x.rec \in SoundRecords(w) /\ x.rec.pushed = commit
           /\ x.rec.status \in {"AwaitingReview", "AwaitingPullRequest"}
<1> DEFINE sup == Superseded(r, "ReconcileMerge")
           kept == IF r.pushed # commit THEN Superseded(sup, "Merge") ELSE r
           status == IF r.pr THEN "AwaitingReview" ELSE "AwaitingPullRequest"
           q == [kept EXCEPT !.pushed = commit, !.status = status]
<1>1. "ReconcileMerge" \in Kinds /\ "Merge" \in Kinds
  BY DEF Kinds
<1>2. sup \in SoundRecords(w)
  BY <1>1, SupersededIsSound
<1> HIDE DEF sup
<1>3. kept \in SoundRecords(w)
  BY <1>1, <1>2, SupersededIsSound
<1>4. x = Keyed(q, "AwaitingFixReview", <<"push", commit>>, r.cycle) \/ x = Done(q)
  BY DEF RecordPush, sup
<1> HIDE DEF kept
<1>5. status \in Statuses \ Merging /\ status \notin BlockedStatuses
      /\ status \in {"AwaitingReview", "AwaitingPullRequest"}
  BY DEF Statuses, Merging, BlockedStatuses
<1> HIDE DEF status
<1>6. commit \in Int
  BY DEF Ours
<1>7. /\ q \in Records /\ q.pushed = commit /\ q.status = status
      /\ q.pending = kept.pending /\ q.requested = kept.requested /\ q.cursor = kept.cursor
  BY <1>3, <1>5, <1>6 DEF SoundRecords, Records
<1> HIDE DEF q
<1>8. q \in SoundRecords(w)
  BY <1>3, <1>5, <1>7 DEF SoundRecords, Sound, PushIsRecorded, TriggerIsKnown, OwnMergeIsKnown,
     MergeIsSound, Merging, Merged, NotByUs
<1>9. <<"push", commit>> \in Names /\ "AwaitingFixReview" \in States /\ r.cycle \in Int
  BY <1>6 DEF Names, States, SoundRecords, Records
<1>10. CASE x = Keyed(q, "AwaitingFixReview", <<"push", commit>>, r.cycle)
  <2>1. x.rec \in Records /\ Keeps(x.rec, q) /\ x.rec.status = q.status
    BY <1>7, <1>9, <1>10, KeyedDoes DEF Keeps
  <2>2. x.rec \in SoundRecords(w)
    BY <1>8, <2>1, SameIsSound
  <2>. QED  BY <1>5, <1>7, <2>1, <2>2 DEF Keeps, SameWork
<1>11. CASE x = Done(q)
  BY <1>5, <1>7, <1>8, <1>11 DEF Done
<1>. QED  BY <1>4, <1>10, <1>11

\* The pull request of a pushed commit may be recorded.
LEMMA RecordPullRequestIsSound ==
    ASSUME NEW w, NEW r \in SoundRecords(w), r.pushed \in Ours,
           r.status \in {"AwaitingReview", "AwaitingPullRequest"},
           NEW x, x = RecordPullRequest(r)
    PROVE  x.rec \in SoundRecords(w)
<1>1. r \in Records /\ "CreatePullRequest" \in Kinds /\ "AwaitingFixReview" \in States
      /\ <<"pull-request", 0>> \in Names /\ r.cycle \in Int
  BY DEF SoundRecords, Records, Kinds, States, Names
<1>2. CASE r.pr
  <2>1. x = Done(Superseded(r, "CreatePullRequest"))
    BY <1>2 DEF RecordPullRequest
  <2>. QED  BY <1>1, <2>1, SupersededIsSound DEF Done
<1>3. CASE ~ r.pr
  <2> DEFINE moved == Keyed(r, "AwaitingFixReview", <<"pull-request", 0>>, r.cycle)
             m == moved.rec
             q == [m EXCEPT !.pr = TRUE, !.status = "AwaitingReview"]
  <2>1. m \in Records /\ Keeps(m, r) /\ m.status = r.status
    BY <1>1, KeyedDoes DEF Keeps
  <2>2. m \in SoundRecords(w)
    BY <2>1, SameIsSound
  <2>3. x = moved \/ x = Done(Superseded(q, "CreatePullRequest"))
    BY <1>3 DEF RecordPullRequest
  <2>4. x.rec = m \/ x.rec = Superseded(q, "CreatePullRequest")
    BY <2>3 DEF Done
  <2> HIDE DEF m
  <2>5. "AwaitingReview" \in Statuses /\ "AwaitingReview" \notin Merging
        /\ r.status \notin BlockedStatuses \cup Merging
    BY DEF Statuses, Merging, BlockedStatuses
  <2>6. /\ q \in Records /\ q.pushed = m.pushed /\ q.status = "AwaitingReview"
        /\ q.pending = m.pending /\ q.requested = m.requested /\ q.cursor = m.cursor
    BY <2>1, <2>5 DEF Records
  <2> HIDE DEF q
  <2>7. NotByUs(w)
    BY <2>5, NotBlockedNotByUs
  <2>8. m.pushed \in Ours
    BY <2>1 DEF Keeps, SameWork
  <2>9. q \in SoundRecords(w)
    BY <2>2, <2>5, <2>6, <2>7, <2>8 DEF SoundRecords, Sound, PushIsRecorded, TriggerIsKnown,
       OwnMergeIsKnown, MergeIsSound, Merging, Merged, NotByUs
  <2>. QED  BY <1>1, <2>2, <2>4, <2>9, SupersededIsSound
<1>. QED  BY <1>2, <1>3

-----------------------------------------------------------------------------
(* Writing records, and a world that moves on.                             *)

\* What gets written is written: whatever fails on the way, both copies are
\* among the records that were sound, and the next call has the last of them.
LEMMA WrittenKeeps ==
    ASSUME NEW S, mem \in S, disk \in S, NEW ms \in Seq(S), ms # <<>>, NEW next,
           Written(ms, next)
    PROVE  /\ mem' \in S /\ disk' \in S
           /\ \/ pc' = "idle"
              \/ pc' = next /\ mem' = ms[Len(ms)] /\ disk' = ms[Len(ms)]
<1>1. CASE mem' = ms[Len(ms)] /\ disk' = ms[Len(ms)] /\ pc' = next
  BY <1>1
<1>2. ASSUME NEW n \in 0 .. Len(ms) - 1, StopsAfter(ms, n)
      PROVE  mem' \in S /\ disk' \in S /\ pc' = "idle"
  <2>1. n = 0 \/ ms[n] \in S
    OBVIOUS
  <2>. QED  BY <1>2, <2>1 DEF StopsAfter
<1>. QED  BY <1>1, <1>2 DEF Written

LEMMA AbandonedKeeps ==
    ASSUME NEW S, mem \in S, disk \in S, NEW ms \in Seq(S), NEW r \in S, Abandoned(ms, r)
    PROVE  mem' \in S /\ disk' \in S /\ pc' = "idle"
<1>1. ASSUME NEW n \in 0 .. Len(ms) - 1, StopsAfter(ms, n)
      PROVE  mem' \in S /\ disk' \in S /\ pc' = "idle"
  <2>1. n = 0 \/ ms[n] \in S
    OBVIOUS
  <2>. QED  BY <1>1, <2>1 DEF StopsAfter
<1>2. ms = <<>> \/ ms[Len(ms)] \in S
  OBVIOUS
<1>. QED  BY <1>1, <1>2 DEF Abandoned

LEMMA ConcludedKeeps ==
    ASSUME NEW S, mem \in S, disk \in S, NEW ms \in Seq(S), NEW x, x.rec \in S, NEW next,
           Concluded(ms, x, next)
    PROVE  /\ mem' \in S /\ disk' \in S
           /\ \/ pc' = "idle"
              \/ pc' = next /\ x.ok /\ mem' = x.rec /\ disk' = x.rec
<1> DEFINE all == Append(ms, x.rec)
<1>1. all \in Seq(S) /\ all # <<>> /\ all[Len(all)] = x.rec
  OBVIOUS
<1> HIDE DEF all
<1>2. CASE x.ok
  <2>1. Written(all, next)
    BY <1>2 DEF Concluded, all
  <2>. QED  BY <1>1, <1>2, <2>1, WrittenKeeps
<1>3. CASE ~ x.ok
  BY <1>3, AbandonedKeeps DEF Concluded
<1>. QED  BY <1>2, <1>3

LEMMA CallFailsKeeps ==
    ASSUME NEW S, mem \in S, NEW ms \in Seq(S), CallFails(ms)
    PROVE  mem' \in S /\ disk' \in S /\ pc' = "idle"
<1>1. ms = <<>> \/ ms[Len(ms)] \in S
  OBVIOUS
<1>. QED  BY <1>1 DEF CallFails

\* A world v that moves on to w without a step of the daemon.
MovesOn(v, w) ==
    /\ v.remote # NoCommit => w.remote # NoCommit
    /\ w.asked = v.asked /\ w.comments = v.comments /\ v.vetted \subseteq w.vetted
    /\ v.pr = "merged" => w.pr = "merged" /\ w.merger = v.merger
    /\ w.merger.who = "daemon" => w.merger = v.merger

LEMMA SoundWhenMoved ==
    ASSUME NEW v, NEW w, MovesOn(v, w), NEW r \in SoundRecords(v)
    PROVE  r \in SoundRecords(w)
BY DEF SoundRecords, Sound, PushIsRecorded, TriggerIsKnown, OwnMergeIsKnown, MergeIsSound, MovesOn

-----------------------------------------------------------------------------
(* The steps.                                                              *)

LEMMA Snapshots ==
    ASSUME WorldOK
    PROVE  Reads(Snapshot, World)
<1>1. Eligible(Snapshot) => Found /\ verdict = "approved" /\ checks = "passed"
  BY DEF Eligible, Snapshot
<1>2. /\ Found => Snapshot.head = remote /\ Snapshot.found
      /\ Snapshot.merged = (pr = "merged")
  BY DEF Snapshot
<1>3. /\ World.pr = pr /\ World.merger = merger /\ World.vetted = vetted
  BY DEF World
<1>4. pr = "merged" => Found
  BY DEF Found
<1>5. \/ Snapshot.merged /\ Snapshot.found /\ World.pr = "merged"
      \/ ~ Snapshot.merged /\ World.merger.who # "daemon"
  BY <1>2, <1>3, <1>4 DEF WorldOK, Snapshot
<1>6. Eligible(Snapshot) => Snapshot.head # NoCommit /\ Snapshot.head \in World.vetted
  BY <1>1, <1>2, <1>3 DEF WorldOK, Found
<1>7. Snapshot.merged /\ Eligible(Snapshot) => World.merger.head = Snapshot.head
  BY <1>1, <1>2, <1>3 DEF WorldOK, Snapshot
<1>. QED  BY <1>5, <1>6, <1>7 DEF Reads, NotByUs

LEMMA Unavailables ==
    ASSUME NEW r, NEW w
    PROVE  Reads(Unavailable(r), w)
BY DEF Reads, Unavailable, Snapshot

\* What is left to show of a step of the daemon that leaves the world alone.
LEMMA QuietStep ==
    ASSUME IInv, UNCHANGED <<checkout, provider>>,
           mem' \in SoundRecords(World), disk' \in SoundRecords(World), CallOK'
    PROVE  IInv'
<1>1. World' = World
  BY DEF provider, World
<1>2. WorldOK'
  BY DEF IInv, WorldOK, checkout, provider
<1>. QED  BY <1>1, <1>2 DEF IInv

LEMMA BranchReadyIsSound ==
    ASSUME NEW w, NEW r \in SoundRecords(w), r.status = "PreparingBranch"
    PROVE  BranchReady(r) \in SoundRecords(w)
<1> DEFINE q == BranchReady(r)
<1>1. /\ "Implementing" \in Statuses /\ "Implementing" \notin Merging
      /\ "PreparingBranch" \notin BlockedStatuses \cup Merging
      /\ {"PreparingBranch", "Implementing"} \subseteq Working
  BY DEF Statuses, Merging, BlockedStatuses, Working
<1>2. r \in Records
  BY DEF SoundRecords
<1>3. q \in Records /\ Keeps(q, r) /\ q.status = "Implementing"
  BY <1>1, <1>2, StatusDoes DEF BranchReady, Keeps
<1> HIDE DEF q
<1>4. NotByUs(w)
  BY <1>1, NotBlockedNotByUs
<1>5. q \in SoundRecords(w)
  BY <1>1, <1>3, <1>4, FreeIsSound
<1>. QED  BY <1>5 DEF q

LEMMA IdleIsOK ==
    ASSUME pc' = "idle"
    PROVE  CallOK'
BY DEF CallOK

\* Every reconciliation starts alike: its intent, then its receipt.
LEMMA Looks ==
    ASSUME NEW w, NEW r \in SoundRecords(w), NEW kind \in Kinds \ {"RequestReview", "Merge"},
           NEW input \in Int,
           NEW x, x = Intend(r, kind, input), NEW q, q = Receipt(x.rec, kind)
    PROVE  /\ x.rec \in SoundRecords(w) /\ Keeps(x.rec, r) /\ x.rec.status = r.status
           /\ q \in SoundRecords(w) /\ Keeps(q, r) /\ q.status = r.status /\ q.cycle \in Int
<1>1. r \in Records /\ "RequestReview" \in Kinds \ {kind} /\ "Merge" \in Kinds \ {kind}
      /\ kind \in Kinds /\ kind # "Merge"
  BY DEF SoundRecords, Kinds
<1>2. x.rec \in SoundRecords(w)
  BY <1>1, IntendIsSound
<1>3. x.rec \in Records /\ Keeps(x.rec, r) /\ x.rec.status = r.status
  BY <1>1, IntendDoes DEF Keeps
<1> DEFINE y == x.rec
<1>4. q = Receipt(y, kind) /\ y \in SoundRecords(w) /\ y \in Records
  BY <1>2, <1>3
<1> HIDE DEF y
<1>5. q \in SoundRecords(w)
  BY <1>1, <1>4, ReceiptIsSound
<1>6. q \in Records /\ Keeps(q, y) /\ q.status = y.status
  <2>1. kind # "RequestReview"
    OBVIOUS
  <2>2. /\ q \in Records
        /\ q.pushed = y.pushed /\ q.pr = y.pr /\ q.cursor = y.cursor /\ q.status = y.status
    BY <1>4, ReceiptDoes
  <2>3. q.requested = y.requested
    BY <1>4, <2>1, ReceiptDoes
  <2>4. \A k \in Kinds \ {kind} : q.pending[k] = y.pending[k]
    BY <1>4, ReceiptDoes
  <2>. QED  BY <1>1, <2>2, <2>3, <2>4 DEF Keeps, SameWork
<1>7. q.cycle \in Int
  BY <1>6 DEF Records
<1>. QED  BY <1>2, <1>3, <1>5, <1>6, <1>7 DEF Keeps, SameWork, y

LEMMA ReconcileBranchStep ==
    ASSUME IInv, ReconcileBranch
    PROVE  IInv'
<1> DEFINE S == SoundRecords(World)
           i == Intend(mem, "ReconcileBranch", 0)
           looked == Receipt(i.rec, "ReconcileBranch")
           adopted == Superseded(looked, "CreateBranch")
           x == Intend(looked, "CreateBranch", 0)
<1>1. mem \in S /\ disk \in S /\ mem.status = "PreparingBranch" /\ UNCHANGED <<checkout, provider>>
  BY DEF IInv, ReconcileBranch, Idle
<1>2. "ReconcileBranch" \in Kinds \ {"RequestReview", "Merge"}
      /\ "CreateBranch" \in Kinds /\ "CreateBranch" # "Merge" /\ 0 \in Int
  BY DEF Kinds
<1>3. /\ i.rec \in S /\ looked \in S /\ looked.status = "PreparingBranch"
  BY <1>1, <1>2, Looks
<1>4. CASE branch /\ Written(<<i.rec, looked, adopted, BranchReady(adopted)>>, "idle")
  <2>1. adopted \in S /\ adopted.status = "PreparingBranch"
    BY <1>2, <1>3, SupersededIsSound
  <2>2. BranchReady(adopted) \in S
    BY <2>1, BranchReadyIsSound
  <2> DEFINE ms == <<i.rec, looked, adopted, BranchReady(adopted)>>
  <2>3. ms \in Seq(S) /\ ms # <<>>
    BY <1>3, <2>1, <2>2
  <2> HIDE DEF ms, S
  <2>4. mem' \in S /\ disk' \in S /\ pc' = "idle"
    BY <1>1, <1>4, <2>3, WrittenKeeps DEF ms
  <2>. QED  BY <1>1, <2>4, IdleIsOK, QuietStep DEF S
<1>5. CASE Concluded(<<i.rec, looked>>, x, "CreateBranch")
  <2>1. x.rec \in S /\ x.rec.status = "PreparingBranch"
    BY <1>2, <1>3, IntendIsSound, IntendDoes DEF SoundRecords
  <2> DEFINE ms == <<i.rec, looked>>
  <2>3. ms \in Seq(S)
    BY <1>3
  <2> HIDE DEF ms, x, S
  <2>4. mem' \in S /\ disk' \in S
        /\ \/ pc' = "idle"
           \/ pc' = "CreateBranch" /\ mem' = x.rec /\ disk' = x.rec
    BY <1>1, <1>5, <2>1, <2>3, ConcludedKeeps DEF ms
  <2>5. CallOK'
    BY <2>1, <2>4 DEF CallOK
  <2>. QED  BY <1>1, <2>4, <2>5, QuietStep DEF S
<1>. QED  BY <1>4, <1>5 DEF ReconcileBranch

LEMMA CreateBranchStep ==
    ASSUME IInv, CreateBranch
    PROVE  IInv'
<1> DEFINE S == SoundRecords(World)
           created == Receipt(mem, "CreateBranch")
           ms == <<created, BranchReady(created)>>
<1>1. mem \in S /\ disk \in S /\ mem.status = "PreparingBranch"
      /\ UNCHANGED <<local, work, provider>>
      /\ mem \in Records
  BY DEF IInv, CreateBranch, CallOK, SoundRecords
<1>2. "CreateBranch" \in Kinds /\ "CreateBranch" # "Merge"
  BY DEF Kinds
<1>3. created \in S /\ created.status = "PreparingBranch"
  BY <1>1, <1>2, ReceiptIsSound, ReceiptDoes
<1>4. BranchReady(created) \in S
  BY <1>3, BranchReadyIsSound
<1>5. ms \in Seq(S) /\ ms # <<>> /\ <<>> \in Seq(S)
  BY <1>3, <1>4
<1>6. Written(ms, "idle") \/ CallFails(<<>>)
  BY DEF CreateBranch
<1> HIDE DEF ms, S
<1>7. mem' \in S /\ disk' \in S /\ pc' = "idle"
  BY <1>1, <1>5, <1>6, WrittenKeeps, CallFailsKeeps
<1>8. World' = World
  BY <1>1 DEF provider, World
<1>9. WorldOK'
  BY <1>1 DEF IInv, WorldOK, provider
<1>. QED  BY <1>7, <1>8, <1>9, IdleIsOK DEF IInv, S

\* A step that moves neither the daemon, nor the checkout, nor the provider.
LEMMA IdleStep ==
    ASSUME IInv, UNCHANGED <<daemon, checkout, provider>>
    PROVE  IInv'
<1>1. World' = World
  BY DEF provider, World
<1>2. WorldOK' /\ CallOK'
  BY DEF IInv, WorldOK, CallOK, daemon, checkout, provider
<1>. QED  BY <1>1, <1>2 DEF IInv, daemon

\* The worker's outcome, recorded for work that is wanted.
LEMMA TurnIsSound ==
    ASSUME NEW w, NEW r \in SoundRecords(w),
           r.status = "Implementing" \/ r.status = "ChangesRequested",
           NEW d \in BOOLEAN,
           NEW q, q = [r EXCEPT !.status = "Implementing", !.done = d]
    PROVE  q \in SoundRecords(w)
<1>1. /\ "Implementing" \in Statuses /\ "Implementing" \notin Merging
      /\ r.status \notin BlockedStatuses \cup Merging /\ "Implementing" \in Working
  BY DEF Statuses, Merging, BlockedStatuses, Working
<1>2. r \in Records
  BY DEF SoundRecords
<1>3. q \in Records /\ Keeps(q, r) /\ q.status = "Implementing"
  BY <1>1, <1>2 DEF Records, Keeps, SameWork
<1>4. r.pushed \in Ours \/ {r.status, q.status} \subseteq Working
  BY <1>1, <1>3 DEF SoundRecords, Sound, PushIsRecorded
<1>. QED  BY <1>1, <1>3, <1>4, NotBlockedNotByUs, FreeIsSound

LEMMA TurnPassesStep ==
    ASSUME IInv, NEW changed \in BOOLEAN, TurnPasses(changed)
    PROVE  IInv'
<1> DEFINE r == [mem EXCEPT !.status = "Implementing", !.done = TRUE]
<1>1. mem \in SoundRecords(World) /\ disk \in SoundRecords(World) /\ UNCHANGED <<local, provider>>
      /\ pc' = "idle"
  BY DEF IInv, TurnPasses
<1>2. TurnWanted => r \in SoundRecords(World)
  BY <1>1, TurnIsSound DEF TurnWanted
<1> HIDE DEF r
<1>3. mem' \in SoundRecords(World) /\ disk' \in SoundRecords(World)
  BY <1>1, <1>2 DEF TurnPasses, r
<1>4. World' = World
  BY <1>1 DEF provider, World
<1>5. work' \in BOOLEAN /\ (work' => local < MaxCommits)
  BY DEF TurnPasses, IInv, WorldOK
<1>6. WorldOK'
  BY <1>1, <1>5 DEF IInv, WorldOK, provider
<1>. QED  BY <1>1, <1>3, <1>4, <1>6, IdleIsOK DEF IInv

LEMMA TurnFailsStep ==
    ASSUME IInv, TurnFails
    PROVE  IInv'
<1>1. UNCHANGED <<daemon, local, provider>> /\ pc' = "idle"
  BY DEF TurnFails, daemon
<1>2. World' = World
  BY <1>1 DEF provider, World
<1>3. work' \in BOOLEAN /\ (work' => local < MaxCommits)
  <2> DEFINE more == local < MaxCommits
  <2>1. work' = work \/ work' = more
    BY DEF TurnFails
  <2>2. CASE work' = work
    BY <2>2 DEF IInv, WorldOK
  <2>3. CASE work' = more
    <3>1. more \in BOOLEAN /\ (more => local < MaxCommits)
      OBVIOUS
    <3> HIDE DEF more
    <3>. QED  BY <2>3, <3>1
  <2>. QED  BY <2>1, <2>2, <2>3
<1>4. WorldOK'
  BY <1>1, <1>3 DEF IInv, WorldOK, provider
<1>. QED  BY <1>1, <1>2, <1>4, IdleIsOK DEF IInv, daemon

LEMMA ReconcilePushStep ==
    ASSUME IInv, ReconcilePush
    PROVE  IInv'
<1> DEFINE S == SoundRecords(World)
           i == Intend(mem, "ReconcilePush", mem.cycle)
           looked == Receipt(i.rec, "ReconcilePush")
           required == [looked EXCEPT !.status = "Implementing", !.done = FALSE]
           pushed == ReceiptIfPending(looked, "Push", looked.cycle)
           begun == <<i.rec, looked>>
           x == Intend(looked, "Push", looked.cycle)
           y == RecordPush(pushed, local)
<1>1. /\ mem \in S /\ disk \in S /\ mem \in Records
      /\ mem.status = "Implementing" \/ mem.status = "AwaitingPullRequest"
      /\ UNCHANGED <<checkout, provider>>
      /\ local \in 0 .. MaxCommits
  BY DEF IInv, ReconcilePush, Publishable, Idle, SoundRecords, WorldOK
<1>2. /\ "ReconcilePush" \in Kinds \ {"RequestReview", "Merge"}
      /\ "Push" \in Kinds \ {"RequestReview", "Merge"} /\ mem.cycle \in Int
  BY <1>1 DEF Kinds, Records
<1>3. i.rec \in S /\ looked \in S /\ looked.status = mem.status /\ looked.cycle \in Int
  <2>1. mem \in SoundRecords(World)
    BY <1>1
  <2>2. i = Intend(mem, "ReconcilePush", mem.cycle) /\ looked = Receipt(i.rec, "ReconcilePush")
    OBVIOUS
  <2> HIDE DEF i, looked
  <2>3. i.rec \in SoundRecords(World) /\ looked \in SoundRecords(World)
        /\ looked.status = mem.status /\ looked.cycle \in Int
    BY <1>2, <2>1, <2>2, Looks
  <2>. QED  BY <2>3
<1>4. NotByUs(World)
  <2>1. mem.status \notin BlockedStatuses \cup Merging
    BY <1>1 DEF BlockedStatuses, Merging
  <2>. QED  BY <1>1, <2>1, NotBlockedNotByUs
<1> HIDE DEF i, looked, S
<1>5. begun \in Seq(S) /\ <<>> \in Seq(S)
  BY <1>3
<1>6. required \in S
  <2> DEFINE q == required
  <2>1. /\ "Implementing" \in Statuses /\ "Implementing" \notin Merging /\ "Implementing" \in Working
    BY DEF Statuses, Merging, Working
  <2>2. q \in Records /\ Keeps(q, looked) /\ q.status = "Implementing"
    BY <1>3, <2>1 DEF S, SoundRecords, Records, Keeps, SameWork
  <2> HIDE DEF q
  <2>3. looked.pushed \in Ours \/ {looked.status, q.status} \subseteq Working
    BY <1>1, <1>3, <2>1, <2>2 DEF S, SoundRecords, Sound, PushIsRecorded
  <2>. QED  BY <1>3, <1>4, <2>1, <2>2, <2>3, FreeIsSound DEF S, q
<1>7. x.rec \in S /\ x.rec.status = mem.status
  BY <1>2, <1>3, IntendIsSound, IntendDoes DEF S, SoundRecords
<1>8. pushed \in S
  BY <1>2, <1>3, ReceiptIsSound DEF S, ReceiptIfPending
<1>9. remote \in {NoCommit, local, mem.pushed} /\ ~ work /\ local # Target /\ remote = local =>
      /\ y.rec \in S /\ y.rec.pushed \in Ours
      /\ y.rec.status \in {"AwaitingReview", "AwaitingPullRequest"}
  <2> HAVE ~ work /\ local # Target /\ remote = local
  <2>1. local \in Ours /\ World.remote # NoCommit
    BY <1>1, ParentRepairAssumption DEF Ours, Target, NoCommit, World
  <2>. QED  BY <1>4, <1>8, <2>1, RecordPushIsSound DEF S
<1> HIDE DEF begun, required, x, y
<1>10. CASE Abandoned(<<>>, i.rec) \/ Abandoned(begun, looked)
  BY <1>1, <1>3, <1>5, <1>10, AbandonedKeeps, IdleIsOK, QuietStep DEF S
<1>11. CASE Written(Append(begun, required), "idle")
  <2>1. Append(begun, required) \in Seq(S) /\ Append(begun, required) # <<>>
    BY <1>5, <1>6
  <2>. QED  BY <1>1, <1>11, <2>1, WrittenKeeps, IdleIsOK, QuietStep DEF S
<1>12. CASE /\ work \/ local # Target
            /\ Concluded(begun, x, "Push")
  <2>1. /\ mem' \in S /\ disk' \in S
        /\ \/ pc' = "idle"
           \/ pc' = "Push" /\ mem' = x.rec /\ disk' = x.rec
    BY <1>1, <1>5, <1>7, <1>12, ConcludedKeeps
  <2>2. CallOK'
    BY <1>1, <1>7, <1>12, <2>1 DEF CallOK, checkout
  <2>. QED  BY <1>1, <2>1, <2>2, QuietStep DEF S
<1>13. CASE /\ remote \in {NoCommit, local, mem.pushed} /\ ~ work /\ local # Target
            /\ remote = local
            /\ Concluded(Append(begun, pushed), y, "FindPullRequest")
  <2>1. Append(begun, pushed) \in Seq(S)
    BY <1>5, <1>8
  <2>2. /\ mem' \in S /\ disk' \in S
        /\ \/ pc' = "idle"
           \/ pc' = "FindPullRequest" /\ mem' = y.rec /\ disk' = y.rec
    BY <1>1, <1>9, <1>13, <2>1, ConcludedKeeps
  <2>3. CallOK'
    BY <1>9, <1>13, <2>2 DEF CallOK
  <2>. QED  BY <1>1, <2>2, <2>3, QuietStep DEF S
<1>14. \/ Abandoned(<<>>, i.rec) \/ Abandoned(begun, looked)
       \/ Written(Append(begun, required), "idle")
       \/ /\ work \/ local # Target
          /\ Concluded(begun, x, "Push")
       \/ /\ remote \in {NoCommit, local, mem.pushed} /\ ~ work /\ local # Target
          /\ remote = local
          /\ Concluded(Append(begun, pushed), y, "FindPullRequest")
  BY DEF ReconcilePush, i, looked, begun, required, x, y
<1>. QED  BY <1>10, <1>11, <1>12, <1>13, <1>14

LEMMA PushStep ==
    ASSUME IInv, Push
    PROVE  IInv'
<1> DEFINE head == IF work THEN local + 1 ELSE local
           received == Receipt(mem, "Push")
           x == RecordPush(received, head)
           S == SoundRecords(World')
<1>1. /\ mem \in SoundRecords(World) /\ disk \in SoundRecords(World)
      /\ mem.status = "Implementing" \/ mem.status = "AwaitingPullRequest"
      /\ local' = head /\ work' = FALSE
      /\ UNCHANGED <<pr, prCount, asked, comments, contained, merger, vetted>>
  BY DEF IInv, Push, CallOK
<1>2. head \in Ours /\ head \in 0 .. MaxCommits /\ head \in Int /\ head # NoCommit
  BY ParentRepairAssumption DEF Push, IInv, CallOK, WorldOK, Ours, Target, NoCommit
<1>3. /\ remote' = head \/ remote' = remote
      /\ \/ UNCHANGED <<remote, verdict, checks>>
         \/ verdict' = "none"
  BY DEF Push
<1> HIDE DEF head
<1>4. MovesOn(World, World')
  BY <1>1, <1>2, <1>3 DEF World, MovesOn, IInv, WorldOK
<1>5. mem \in S /\ disk \in S /\ "Push" \in Kinds /\ "Push" # "Merge"
  BY <1>1, <1>4, SoundWhenMoved DEF Kinds
<1>6. received \in S
  BY <1>5, ReceiptIsSound
<1>7. remote' = head => /\ x.rec \in S /\ x.rec.pushed \in Ours
                        /\ x.rec.status \in {"AwaitingReview", "AwaitingPullRequest"}
  <2> HAVE remote' = head
  <2>1. mem.status \notin BlockedStatuses \cup Merging
    BY <1>1 DEF BlockedStatuses, Merging
  <2>2. NotByUs(World') /\ World'.remote # NoCommit
    BY <1>2, <1>5, <2>1, NotBlockedNotByUs DEF World
  <2>. QED  BY <1>2, <1>6, <2>2, RecordPushIsSound
<1> HIDE DEF received, x, S
<1>8. \/ remote' = head /\ Concluded(<<received>>, x, "FindPullRequest")
      \/ Abandoned(<<>>, mem) \/ CallFails(<<>>)
  BY DEF Push, head, received, x
<1>9. <<received>> \in Seq(S) /\ <<>> \in Seq(S)
  BY <1>6
<1>10. mem' \in S /\ disk' \in S /\ CallOK'
  <2>1. CASE remote' = head /\ Concluded(<<received>>, x, "FindPullRequest")
    <3>1. /\ mem' \in S /\ disk' \in S
          /\ \/ pc' = "idle"
             \/ pc' = "FindPullRequest" /\ mem' = x.rec /\ disk' = x.rec
      BY <1>5, <1>7, <1>9, <2>1, ConcludedKeeps
    <3>2. CallOK'
      BY <1>7, <2>1, <3>1 DEF CallOK
    <3>. QED  BY <3>1, <3>2
  <2>2. CASE Abandoned(<<>>, mem) \/ CallFails(<<>>)
    BY <1>5, <1>9, <2>2, AbandonedKeeps, CallFailsKeeps, IdleIsOK
  <2>. QED  BY <1>8, <2>1, <2>2
<1>11. WorldOK'
  BY <1>1, <1>2, <1>3 DEF IInv, WorldOK
<1>. QED  BY <1>10, <1>11 DEF IInv, S

LEMMA FindPullRequestStep ==
    ASSUME IInv, FindPullRequest
    PROVE  IInv'
<1> DEFINE S == SoundRecords(World)
           i == Intend(mem, "ReconcilePullRequest", mem.cycle)
           looked == Receipt(i.rec, "ReconcilePullRequest")
           begun == <<i.rec, looked>>
           x == RecordPullRequest(looked)
           y == Intend(looked, "CreatePullRequest", looked.cycle)
           z == ReconcileProvider(i.rec, Unavailable(mem)).rec
<1>1. /\ mem \in S /\ disk \in S /\ mem \in Records
      /\ mem.status \in {"AwaitingReview", "AwaitingPullRequest"} /\ mem.pushed \in Ours
      /\ UNCHANGED <<checkout, provider>>
  BY DEF IInv, FindPullRequest, CallOK, SoundRecords
<1>2. /\ "ReconcilePullRequest" \in Kinds \ {"RequestReview", "Merge"}
      /\ "CreatePullRequest" \in Kinds /\ "CreatePullRequest" # "Merge" /\ mem.cycle \in Int
  BY <1>1 DEF Kinds, Records
<1>3. /\ i.rec \in S /\ Keeps(i.rec, mem) /\ i.rec.status = mem.status
      /\ looked \in S /\ Keeps(looked, mem) /\ looked.status = mem.status /\ looked.cycle \in Int
  BY <1>1, <1>2, Looks
<1> HIDE DEF i, looked, S
<1>4. begun \in Seq(S) /\ <<>> \in Seq(S)
  BY <1>3
<1>5. x.rec \in S
  BY <1>1, <1>3, RecordPullRequestIsSound DEF S, Keeps, SameWork
<1>6. y.rec \in S /\ y.rec.status = mem.status /\ y.rec.pushed = mem.pushed
  BY <1>2, <1>3, IntendIsSound, IntendDoes DEF S, SoundRecords, Keeps, SameWork
<1>7. z \in S
  <2>1. i.rec.status \notin Working \cup Merged
    BY <1>1, <1>3 DEF Working, Merged
  <2>. QED  BY <1>3, <2>1, Unavailables, ReconcileIsSound DEF S
<1>8. <<z>> \in Seq(S)
  BY <1>7
<1> HIDE DEF begun, x, y, z
<1>9. CASE Concluded(begun, y, "CreatePullRequest")
  <2>1. /\ mem' \in S /\ disk' \in S
        /\ \/ pc' = "idle"
           \/ pc' = "CreatePullRequest" /\ mem' = y.rec /\ disk' = y.rec
    BY <1>1, <1>4, <1>6, <1>9, ConcludedKeeps
  <2>2. CallOK'
    BY <1>1, <1>6, <2>1 DEF CallOK
  <2>. QED  BY <1>1, <2>1, <2>2, QuietStep DEF S
<1>10. CASE \/ Abandoned(<<>>, i.rec) \/ Concluded(begun, x, "idle") \/ CallFails(<<z>>)
  <2>1. mem' \in S /\ disk' \in S /\ pc' = "idle"
    BY <1>1, <1>3, <1>4, <1>5, <1>8, <1>10, AbandonedKeeps, ConcludedKeeps, CallFailsKeeps
  <2>. QED  BY <1>1, <2>1, IdleIsOK, QuietStep DEF S
<1>11. \/ Concluded(begun, y, "CreatePullRequest")
       \/ Abandoned(<<>>, i.rec) \/ Concluded(begun, x, "idle") \/ CallFails(<<z>>)
  BY DEF FindPullRequest, i, looked, begun, x, y, z
<1>. QED  BY <1>9, <1>10, <1>11

LEMMA CreatePullRequestStep ==
    ASSUME IInv, CreatePullRequest
    PROVE  IInv'
<1> DEFINE S == SoundRecords(World')
           x == RecordPullRequest(mem)
<1>1. /\ mem \in SoundRecords(World) /\ disk \in SoundRecords(World)
      /\ mem.status \in {"AwaitingReview", "AwaitingPullRequest"} /\ mem.pushed \in Ours
      /\ UNCHANGED <<checkout, remote, verdict, checks, asked, comments, merger, vetted>>
  BY DEF IInv, CreatePullRequest, CallOK
<1>2. \/ UNCHANGED <<pr, prCount>>
      \/ pr = "none" /\ pr' = "open" /\ prCount' = prCount + 1
  BY DEF CreatePullRequest, EnsurePullRequest, Found
<1>3. MovesOn(World, World')
  BY <1>1, <1>2 DEF World, MovesOn
<1>4. mem \in S /\ disk \in S
  BY <1>1, <1>3, SoundWhenMoved
<1>5. x.rec \in S /\ <<>> \in Seq(S)
  BY <1>1, <1>4, RecordPullRequestIsSound
<1>6. Concluded(<<>>, x, "idle") \/ CallFails(<<>>)
  BY DEF CreatePullRequest
<1> HIDE DEF S, x
<1>7. mem' \in S /\ disk' \in S /\ pc' = "idle"
  BY <1>4, <1>5, <1>6, ConcludedKeeps, CallFailsKeeps
<1>8. remote # NoCommit
  BY <1>1 DEF SoundRecords, Sound, PushIsRecorded, World, Ours, NoCommit
<1>9. WorldOK'
  BY <1>1, <1>2, <1>8 DEF IInv, WorldOK, checkout
<1>. QED  BY <1>7, <1>9, IdleIsOK DEF IInv, S

\* The cursor is the latest comment, unless a request is pending.
LEMMA LookedForReviewIsSound ==
    ASSUME NEW r \in SoundRecords(World), comments \in Nat,
           NEW q, q = LookedForReview(r)
    PROVE  /\ q \in SoundRecords(World)
           /\ q.status = r.status /\ q.pushed = r.pushed /\ q.requested = r.requested
<1> DEFINE k == Receipt(r, "ReconcileReview")
           n == IF r.pending["RequestReview"] = None THEN comments ELSE k.cursor
<1>1. r \in Records /\ "ReconcileReview" \in Kinds /\ "ReconcileReview" # "RequestReview"
      /\ "RequestReview" \in Kinds \ {"ReconcileReview"} /\ "ReconcileReview" # "Merge"
  BY DEF SoundRecords, Kinds
<1>2. k \in SoundRecords(World)
  BY <1>1, ReceiptIsSound
<1>3. k \in Records
      /\ k.status = r.status /\ k.pushed = r.pushed /\ k.requested = r.requested
      /\ k.pending["RequestReview"] = r.pending["RequestReview"]
  BY <1>1, ReceiptDoes
<1>4. q = [k EXCEPT !.cursor = n]
  BY DEF LookedForReview
<1> HIDE DEF k
<1>5. n \in Nat
  BY <1>3 DEF Records
<1>6. \/ n = k.cursor
      \/ n = comments /\ k.pending["RequestReview"] = None
  BY <1>3
<1> HIDE DEF n
<1>7. /\ q \in Records /\ q.status = k.status /\ q.pushed = k.pushed /\ q.pr = k.pr
      /\ q.requested = k.requested /\ q.pending = k.pending /\ q.cursor = n
  BY <1>3, <1>4, <1>5 DEF Records
<1>8. World.comments = comments /\ \A c \in Ours : c # None
  BY DEF World, Ours, None
<1>9. TriggerIsKnown(q, World)
  BY <1>2, <1>6, <1>7, <1>8 DEF SoundRecords, Sound, TriggerIsKnown
<1>. QED
  BY <1>2, <1>3, <1>7, <1>9 DEF SoundRecords, Sound, PushIsRecorded, OwnMergeIsKnown, MergeIsSound

LEMMA ReconcileReviewStep ==
    ASSUME IInv, ReconcileReview
    PROVE  IInv'
<1> DEFINE S == SoundRecords(World)
           i == Intend(mem, "ReconcileReview", mem.pushed)
           looked == LookedForReview(i.rec)
           begun == <<i.rec, looked>>
           x == ReconcileProvider(looked, Snapshot)
           y == Block(looked, "ReviewBudgetExhausted", mem.pushed)
           z == Intend(looked, "RequestReview", mem.pushed)
<1>1. /\ mem \in S /\ disk \in S /\ mem \in Records
      /\ mem.status = "AwaitingReview" /\ mem.pushed \notin mem.requested
      /\ UNCHANGED <<checkout, provider>> /\ comments \in Nat
  BY DEF IInv, ReconcileReview, Idle, SoundRecords, WorldOK
<1>2. /\ "ReconcileReview" \in Kinds \ {"RequestReview", "Merge"} /\ "ReconcileReview" # "Merge"
      /\ "RequestReview" \in Kinds /\ "RequestReview" # "Merge" /\ mem.pushed \in Int
      /\ "ReviewBudgetExhausted" \in BlockedStatuses
      /\ "AwaitingReview" \notin Working \cup Merged
  BY <1>1 DEF Kinds, Records, BlockedStatuses, Working, Merged
<1>3. i.rec \in S /\ Keeps(i.rec, mem) /\ i.rec.status = "AwaitingReview"
  BY <1>1, <1>2, Looks
<1> HIDE DEF i
<1>4. /\ looked \in S /\ looked.status = "AwaitingReview" /\ looked.pushed = mem.pushed
      /\ looked.requested = mem.requested /\ looked \in Records
  BY <1>1, <1>3, LookedForReviewIsSound DEF Keeps, SameWork, SoundRecords
<1> HIDE DEF looked
<1>5. begun \in Seq(S) /\ <<>> \in Seq(S) /\ <<i.rec>> \in Seq(S)
  BY <1>3, <1>4
<1>6. x.rec \in S
  BY <1>2, <1>4, Snapshots, ReconcileIsSound DEF IInv
<1>7. y.rec \in S
  <2>1. y.rec \in Records /\ Keeps(y.rec, looked) /\ y.rec.status = "ReviewBudgetExhausted"
    BY <1>2, <1>4, BlockDoes DEF Keeps
  <2>. QED  BY <1>2, <1>4, <2>1, BlockedIsSound
<1>8. /\ z.rec \in S /\ z.rec.status = "AwaitingReview" /\ SameWork(z.rec, looked)
      /\ z.ok => z.rec.pending["RequestReview"] = mem.pushed
  BY <1>2, <1>4, IntendIsSound, IntendDoes
<1> HIDE DEF begun, x, y, z, S
<1>9. CASE Concluded(begun, z, "RequestReview")
  <2>1. /\ mem' \in S /\ disk' \in S
        /\ \/ pc' = "idle"
           \/ pc' = "RequestReview" /\ z.ok /\ mem' = z.rec /\ disk' = z.rec
    BY <1>1, <1>5, <1>8, <1>9, ConcludedKeeps
  <2>2. CallOK'
    BY <1>1, <1>4, <1>8, <2>1 DEF CallOK, SameWork
  <2>. QED  BY <1>1, <2>1, <2>2, QuietStep DEF S
<1>10. CASE \/ Abandoned(<<>>, i.rec) \/ Concluded(begun, x, "idle")
            \/ Concluded(begun, y, "idle") \/ CallFails(<<i.rec>>)
  <2>1. mem' \in S /\ disk' \in S /\ pc' = "idle"
    BY <1>1, <1>3, <1>5, <1>6, <1>7, <1>10, AbandonedKeeps, ConcludedKeeps, CallFailsKeeps
  <2>. QED  BY <1>1, <2>1, IdleIsOK, QuietStep DEF S
<1>11. \/ Concluded(begun, z, "RequestReview")
       \/ Abandoned(<<>>, i.rec) \/ Concluded(begun, x, "idle")
       \/ Concluded(begun, y, "idle") \/ CallFails(<<i.rec>>)
  BY DEF ReconcileReview, i, looked, begun, x, y, z
<1>. QED  BY <1>9, <1>10, <1>11

\* The trigger for the pending head is the comment behind the cursor.
LEMMA SoundWhenTriggered ==
    ASSUME NEW v, NEW w, NEW r \in SoundRecords(v), NEW h \in Ours,
           v.asked \in [Ours -> Nat], v.comments \in Nat, r.pending["RequestReview"] = h,
           w.asked = [v.asked EXCEPT ![h] = v.asked[h] + 1], w.comments = v.comments + 1,
           w.remote = v.remote, w.pr = v.pr, w.merger = v.merger, w.vetted = v.vetted
    PROVE  r \in SoundRecords(w)
<1>1. r \in Records /\ r.cursor \in Nat /\ Sound(r, v)
  BY DEF SoundRecords, Records
<1>2. \A c \in Ours \ {h} : w.asked[c] = v.asked[c]
  OBVIOUS
<1>3. TriggerIsKnown(r, w)
  <2>1. TriggerIsKnown(r, v)
    BY <1>1 DEF Sound
  <2>. QED  BY <1>1, <1>2, <2>1 DEF TriggerIsKnown
<1>. QED
  BY <1>1, <1>3 DEF SoundRecords, Sound, PushIsRecorded, OwnMergeIsKnown, MergeIsSound

LEMMA RequestReviewStep ==
    ASSUME IInv, RequestReview
    PROVE  IInv'
<1> DEFINE S == SoundRecords(World')
           h == mem.pushed
           received == Receipt(mem, "RequestReview")
           x == ReconcileProvider(received, Snapshot)
<1>1. /\ mem \in SoundRecords(World) /\ disk = mem /\ mem \in Records
      /\ mem.status = "AwaitingReview"
      /\ mem.pending["RequestReview"] = h /\ h \notin mem.requested
      /\ UNCHANGED <<checkout, remote, pr, prCount, verdict, checks, merger, vetted>>
  BY DEF IInv, RequestReview, CallOK, SoundRecords
<1>2. asked \in [Ours -> Nat] /\ comments \in Nat /\ \A c \in Ours : asked[c] <= 1
  BY DEF IInv, WorldOK
<1>3. h \in Ours
  BY <1>1 DEF SoundRecords, Sound, PushIsRecorded, Working
<1>4. \/ UNCHANGED <<asked, comments>>
      \/ /\ comments <= mem.cursor
         /\ asked' = [asked EXCEPT ![h] = asked[h] + 1] /\ comments' = comments + 1
  BY <1>2, <1>1 DEF RequestReview, Trigger, AlreadyPosted, Records
<1>5. mem \in S
        /\ asked' \in [Ours -> Nat] /\ comments' \in Nat /\ \A c \in Ours : asked'[c] <= 1
  <2>1. CASE UNCHANGED <<asked, comments>>
    <3>1. World' = World
      BY <1>1, <2>1 DEF World
    <3>. QED  BY <1>1, <1>2, <2>1, <3>1
  <2>2. CASE /\ comments <= mem.cursor
             /\ asked' = [asked EXCEPT ![h] = asked[h] + 1] /\ comments' = comments + 1
    <3>1. asked[h] = 0
      <4>1. asked[h] > 0 => mem.cursor < comments
        BY <1>1, <1>3 DEF SoundRecords, Sound, TriggerIsKnown, World
      <4>2. mem.cursor \in Nat /\ asked[h] \in Nat
        BY <1>1, <1>2, <1>3 DEF Records
      <4>. QED  BY <1>2, <2>2, <4>1, <4>2
    <3>2. /\ World.asked = asked /\ World.comments = comments
          /\ World'.asked = asked' /\ World'.comments = comments'
          /\ World'.remote = World.remote /\ World'.pr = World.pr
          /\ World'.merger = World.merger /\ World'.vetted = World.vetted
      BY <1>1 DEF World
    <3>3. mem \in S
      <4>1. /\ World.asked \in [Ours -> Nat] /\ World.comments \in Nat
            /\ World'.asked = [World.asked EXCEPT ![h] = World.asked[h] + 1]
            /\ World'.comments = World.comments + 1
        BY <1>2, <2>2, <3>2
      <4>2. mem \in SoundRecords(World) /\ mem.pending["RequestReview"] = h
        BY <1>1
      <4>. HIDE DEF h
      <4>. QED  BY <1>3, <3>2, <4>1, <4>2, SoundWhenTriggered
    <3>. QED  BY <1>2, <1>3, <2>2, <3>1, <3>3
  <2>. QED  BY <1>4, <2>1, <2>2
<1>6. received \in S /\ received.status = "AwaitingReview"
  <2>1. "RequestReview" \in Kinds /\ "RequestReview" # "Merge"
    BY DEF Kinds
  <2>. QED  BY <1>1, <1>5, <2>1, ReceiptIsSound, ReceiptDoes
<1>7. x.rec \in S
  <2>1. Reads(Snapshot, World')
    <3>1. Reads(Snapshot, World)
      BY Snapshots DEF IInv
    <3>2. World'.pr = World.pr /\ World'.merger = World.merger /\ World'.vetted = World.vetted
      BY <1>1 DEF World
    <3>. QED  BY <3>1, <3>2 DEF Reads, NotByUs
  <2>2. "AwaitingReview" \notin Working \cup Merged
    BY DEF Working, Merged
  <2>. QED  BY <1>6, <2>1, <2>2, ReconcileIsSound
<1>8. Concluded(<<received>>, x, "idle") \/ CallFails(<<>>)
  BY DEF RequestReview
<1> HIDE DEF received, x, S
<1>9. <<received>> \in Seq(S) /\ <<>> \in Seq(S)
  BY <1>6
<1>10. mem' \in S /\ disk' \in S /\ pc' = "idle"
  BY <1>1, <1>5, <1>7, <1>8, <1>9, ConcludedKeeps, CallFailsKeeps
<1>11. WorldOK'
  BY <1>1, <1>5 DEF IInv, WorldOK, checkout
<1>. QED  BY <1>10, <1>11, IdleIsOK DEF IInv, S

LEMMA ReconcileStep ==
    ASSUME IInv, Reconcile
    PROVE  IInv'
<1> DEFINE S == SoundRecords(World)
           x == ReconcileProvider(mem, Snapshot)
           z == ReconcileProvider(mem, Unavailable(mem)).rec
<1>1. mem \in S /\ disk \in S /\ UNCHANGED <<checkout, provider>>
  BY DEF IInv, Reconcile
<1>2. mem.status \notin Working \cup Merged
  BY DEF Reconcile, BlockedStatuses, Working, Merged
<1>3. x.rec \in S
  BY <1>1, <1>2, Snapshots, ReconcileIsSound DEF IInv
<1>4. z \in S
  BY <1>1, <1>2, Unavailables, ReconcileIsSound
<1>5. Concluded(<<>>, x, "idle") \/ CallFails(<<z>>)
  BY DEF Reconcile
<1> HIDE DEF S, x, z
<1>6. <<z>> \in Seq(S) /\ <<>> \in Seq(S)
  BY <1>4
<1>7. mem' \in S /\ disk' \in S /\ pc' = "idle"
  BY <1>1, <1>3, <1>5, <1>6, ConcludedKeeps, CallFailsKeeps
<1>. QED  BY <1>1, <1>7, IdleIsOK, QuietStep DEF S

LEMMA ReconcileMergeStep ==
    ASSUME IInv, ReconcileMerge
    PROVE  IInv'
<1> DEFINE S == SoundRecords(World)
           i == Intend(mem, "ReconcileMerge", mem.pushed)
           looked == Receipt(i.rec, "ReconcileMerge")
           begun == <<i.rec, looked>>
           x == ReconcileProvider(looked, Snapshot)
           all == Append(begun, x.rec)
           y == Intend(x.rec, "Merge", mem.pushed)
           z == ReconcileProvider(i.rec, Unavailable(mem)).rec
<1>1. /\ mem \in S /\ disk \in S /\ mem \in Records /\ mem.status = "AwaitingMerge"
      /\ UNCHANGED <<checkout, provider>>
  BY DEF IInv, ReconcileMerge, Idle, SoundRecords
<1>2. /\ "ReconcileMerge" \in Kinds \ {"RequestReview", "Merge"}
      /\ "Merge" \in Kinds /\ mem.pushed \in Int
      /\ "AwaitingMerge" \notin Working \cup Merged
  BY <1>1 DEF Kinds, Records, Working, Merged
<1>3. /\ i.rec \in S /\ i.rec.status = "AwaitingMerge"
      /\ looked \in S /\ looked.status = "AwaitingMerge" /\ looked.pushed = mem.pushed
  BY <1>1, <1>2, Looks DEF Keeps, SameWork
<1> HIDE DEF i, looked
<1>4. begun \in Seq(S) /\ <<>> \in Seq(S)
  BY <1>3
<1>5. x.rec \in S /\ x.rec.pushed = mem.pushed
  BY <1>2, <1>3, Snapshots, ReconcileIsSound DEF IInv
<1>6. <<z>> \in Seq(S)
  <2>1. z \in S
    BY <1>2, <1>3, Unavailables, ReconcileIsSound
  <2>. QED  BY <2>1
<1> HIDE DEF begun, x, z
<1>7. /\ y.rec \in S /\ y.rec.status = x.rec.status /\ y.rec.pushed = mem.pushed
      /\ y.ok => y.rec.pending["Merge"] = mem.pushed
  <2> DEFINE r == x.rec
  <2>1. r \in S /\ r \in Records /\ r.pushed = mem.pushed
    BY <1>5 DEF SoundRecords
  <2> HIDE DEF r
  <2>2. Intend(r, "Merge", mem.pushed).rec \in S
    BY <1>2, <2>1, IntendIsSound
  <2>3. /\ SameWork(Intend(r, "Merge", mem.pushed).rec, r)
        /\ Intend(r, "Merge", mem.pushed).rec.status = r.status
        /\ Intend(r, "Merge", mem.pushed).ok =>
              Intend(r, "Merge", mem.pushed).rec.pending["Merge"] = mem.pushed
    BY <1>2, <2>1, IntendDoes
  <2>. QED  BY <2>1, <2>2, <2>3 DEF r, SameWork
<1> HIDE DEF y, S
<1>8. all \in Seq(S)
  BY <1>4, <1>5
<1> HIDE DEF all
<1>9. CASE x.rec.status = "AwaitingMerge" /\ Concluded(all, y, "Merge")
  <2>1. /\ mem' \in S /\ disk' \in S
        /\ \/ pc' = "idle"
           \/ pc' = "Merge" /\ y.ok /\ mem' = y.rec /\ disk' = y.rec
    BY <1>1, <1>7, <1>8, <1>9, ConcludedKeeps
  <2>2. CallOK'
    BY <1>7, <1>9, <2>1 DEF CallOK
  <2>. QED  BY <1>1, <2>1, <2>2, QuietStep DEF S
<1>10. CASE \/ Abandoned(<<>>, i.rec) \/ Concluded(begun, x, "idle") \/ CallFails(<<z>>)
  <2>1. mem' \in S /\ disk' \in S /\ pc' = "idle"
    BY <1>1, <1>3, <1>4, <1>5, <1>6, <1>10, AbandonedKeeps, ConcludedKeeps, CallFailsKeeps
  <2>. QED  BY <1>1, <2>1, IdleIsOK, QuietStep DEF S
<1>11. \/ x.rec.status = "AwaitingMerge" /\ Concluded(all, y, "Merge")
       \/ Abandoned(<<>>, i.rec) \/ Concluded(begun, x, "idle") \/ CallFails(<<z>>)
  BY DEF ReconcileMerge, i, looked, begun, x, all, y, z
<1>. QED  BY <1>9, <1>10, <1>11

\* The merge that the daemon makes is the one it intended, of a vetted head.
LEMMA MergeStep ==
    ASSUME IInv, Merge
    PROVE  IInv'
<1> DEFINE merged == [Snapshot EXCEPT !.merged = TRUE, !.open = FALSE, !.reachable = TRUE]
           x == ReconcileProvider(mem, merged)
           S == SoundRecords(World')
<1>1. /\ mem \in SoundRecords(World) /\ disk = mem
      /\ mem.status = "AwaitingMerge" /\ mem.pending["Merge"] = mem.pushed
      /\ UNCHANGED <<checkout, remote, prCount, verdict, checks, asked, comments, vetted>>
  BY DEF IInv, Merge, CallOK
<1>2. mem.pushed \in vetted
  BY <1>1 DEF SoundRecords, Sound, MergeIsSound, World
<1>3. "AwaitingMerge" \notin Working \cup Merged
  BY DEF Working, Merged
<1>4. CASE MergeHead /\ (Concluded(<<>>, x, "idle") \/ CallFails(<<>>))
  <2>1. /\ pr = "open" /\ remote = mem.pushed /\ pr' = "merged"
        /\ merger'.who = "daemon" /\ merger'.head = mem.pushed
    BY <1>4 DEF MergeHead, Mergeable
  <2>2. /\ World'.pr = "merged" /\ World'.merger = merger' /\ World'.vetted = vetted
        /\ World'.remote = World.remote /\ World'.asked = World.asked
        /\ World'.comments = World.comments /\ World.vetted = vetted
    BY <1>1, <2>1 DEF World
  <2>3. mem \in S
    BY <1>1, <1>2, <2>1, <2>2 DEF SoundRecords, Sound, PushIsRecorded, TriggerIsKnown,
       OwnMergeIsKnown, MergeIsSound, Merged
  <2>4. Reads(merged, World')
    <3>1. merged.merged /\ merged.found /\ merged.head = remote
      BY <2>1 DEF Snapshot, Found
    <3>2. Eligible(merged) => verdict = "approved" /\ checks = "passed"
      BY <2>1 DEF Eligible, Snapshot, Found
    <3>3. remote # NoCommit /\ (verdict = "approved" /\ checks = "passed" => remote \in vetted)
      BY <2>1 DEF IInv, WorldOK
    <3> HIDE DEF merged
    <3>. QED  BY <2>1, <2>2, <3>1, <3>2, <3>3 DEF Reads
  <2>5. x.rec \in S
    BY <1>1, <1>3, <2>3, <2>4, ReconcileIsSound
  <2> HIDE DEF x, S
  <2>6. <<>> \in Seq(S)
    OBVIOUS
  <2>7. mem' \in S /\ disk' \in S /\ pc' = "idle"
    BY <1>1, <1>4, <2>3, <2>5, <2>6, ConcludedKeeps, CallFailsKeeps
  <2>8. WorldOK'
    BY <1>1, <1>2, <2>1 DEF IInv, WorldOK, checkout
  <2>. QED  BY <2>7, <2>8, IdleIsOK DEF IInv, S
<1>5. CASE /\ UNCHANGED <<pr, contained, merger>>
           /\ Abandoned(<<>>, mem) \/ CallFails(<<>>)
  <2>1. World' = World
    BY <1>1, <1>5 DEF World
  <2>2. mem \in S /\ disk \in S /\ <<>> \in Seq(S)
    BY <1>1, <2>1
  <2> HIDE DEF S
  <2>3. mem' \in S /\ disk' \in S /\ pc' = "idle"
    BY <1>5, <2>2, AbandonedKeeps, CallFailsKeeps
  <2>4. WorldOK'
    BY <1>1, <1>5 DEF IInv, WorldOK, checkout
  <2>. QED  BY <2>3, <2>4, IdleIsOK DEF IInv, S
<1>. QED  BY <1>4, <1>5 DEF Merge

LEMMA RefreshStep ==
    ASSUME IInv, Refresh
    PROVE  IInv'
<1> DEFINE S == SoundRecords(World)
           i == Intend(mem, "RefreshTarget", 0).rec
           k == Receipt(i, "RefreshTarget")
           completed == [k EXCEPT !.status = "Completed"]
           x == Fresh(completed, "Integrating")
<1>1. /\ mem \in S /\ disk \in S /\ mem.status = "Refreshing" /\ UNCHANGED <<checkout, provider>>
  BY DEF IInv, Refresh, Idle
<1>2. /\ "RefreshTarget" \in Kinds \ {"RequestReview", "Merge"} /\ 0 \in Int
      /\ "Refreshing" \in Merged /\ "Completed" \in Merged /\ "Refreshing" \notin Working
      /\ "Completed" \in Statuses /\ "Integrating" \in States
  BY DEF Kinds, Merged, Working, Statuses, States
<1>3. /\ i \in S /\ k \in S /\ k.status = "Refreshing" /\ k \in Records
  BY <1>1, <1>2, Looks DEF SoundRecords
<1> HIDE DEF i, k
<1>4. completed \in Records /\ Keeps(completed, k) /\ completed.status = "Completed"
  BY <1>2, <1>3, StatusDoes DEF Keeps
<1> HIDE DEF completed
<1>5. x.rec \in Records /\ Keeps(x.rec, k) /\ x.rec.status = "Completed"
  BY <1>2, <1>4, FreshDoes DEF Keeps, SameWork
<1>6. /\ k.pushed \in Ours /\ World.pr = "merged" /\ World.merger.head = k.pushed
      /\ k.pushed \in World.vetted
  BY <1>2, <1>3 DEF SoundRecords, Sound, PushIsRecorded, MergeIsSound
<1>7. x.rec \in S
  <2>1. SameWork(x.rec, k) /\ x.rec.pending["RequestReview"] = k.pending["RequestReview"]
        /\ x.rec.status \in Merged
    BY <1>2, <1>5 DEF Keeps
  <2>. QED  BY <1>3, <1>5, <1>6, <2>1, MergedIsSound
<1>8. Concluded(<<i>>, x, "idle") \/ Abandoned(<<i>>, i)
  BY DEF Refresh, i, k, completed
<1>9. <<i>> \in Seq(S)
  BY <1>3
<1> HIDE DEF x, S
<1>10. mem' \in S /\ disk' \in S /\ pc' = "idle"
  BY <1>1, <1>3, <1>7, <1>8, <1>9, ConcludedKeeps, AbandonedKeeps
<1>. QED  BY <1>1, <1>10, IdleIsOK, QuietStep DEF S

\* What is left to show of a step of the others.
LEMMA OutsideStep ==
    ASSUME IInv, UNCHANGED <<daemon, checkout>>, MovesOn(World, World'), WorldOK'
    PROVE  IInv'
<1>1. CallOK'
  BY DEF IInv, CallOK, daemon, checkout
<1>2. mem' \in SoundRecords(World') /\ disk' \in SoundRecords(World')
  BY SoundWhenMoved DEF IInv, daemon
<1>. QED  BY <1>1, <1>2 DEF IInv

LEMMA ReviewStep ==
    ASSUME IInv, Review
    PROVE  IInv'
<1>1. UNCHANGED <<daemon, checkout, remote, pr, prCount, asked, comments, merger>>
  BY DEF Review, Approve, PassChecks, Object, daemon, checkout
<1>2. vetted \subseteq vetted'
  BY DEF Review, Approve, PassChecks, Object, Vetted
<1>3. MovesOn(World, World')
  BY <1>1, <1>2 DEF World, MovesOn
<1>4. /\ verdict' = "approved" /\ checks' = "passed" => remote' \in vetted'
      /\ pr' = "merged" /\ verdict' = "approved" => merger'.head = remote'
  <2>1. CASE Approve
    BY <1>1, <2>1 DEF Approve, Vetted
  <2>2. CASE PassChecks
    BY <1>1, <2>2 DEF PassChecks, Vetted
  <2>3. CASE Object
    BY <2>3 DEF Object, IInv, WorldOK
  <2>. QED  BY <2>1, <2>2, <2>3 DEF Review
<1>5. WorldOK'
  BY <1>1, <1>2, <1>4 DEF IInv, WorldOK, checkout
<1>. QED  BY <1>1, <1>3, <1>5, OutsideStep

LEMMA OthersStep ==
    ASSUME IInv, Others
    PROVE  IInv'
<1>1. UNCHANGED <<daemon, checkout, prCount, asked, comments, vetted>>
  BY DEF Others
<1>2. CASE OthersMerge
  <2>1. /\ pr = "open" /\ pr' = "merged" /\ merger'.who = "other" /\ merger'.head = remote
        /\ UNCHANGED <<remote, verdict, checks>>
    BY <1>2 DEF OthersMerge, Mergeable
  <2>2. MovesOn(World, World')
    BY <1>1, <2>1 DEF World, MovesOn
  <2>3. WorldOK'
    BY <1>1, <2>1 DEF IInv, WorldOK, checkout
  <2>. QED  BY <1>1, <2>2, <2>3, OutsideStep
<1>3. CASE OthersCloseOrReopen
  <2>1. /\ pr \in {"open", "closed"} /\ pr' \in {"open", "closed"}
        /\ UNCHANGED <<remote, verdict, checks, merger>>
    BY <1>3 DEF OthersCloseOrReopen
  <2>2. MovesOn(World, World')
    BY <1>1, <2>1 DEF World, MovesOn
  <2>3. WorldOK'
    BY <1>1, <2>1 DEF IInv, WorldOK, checkout
  <2>. QED  BY <1>1, <2>2, <2>3, OutsideStep
<1>4. CASE OthersPush
  <2>1. remote' \in Int /\ remote' # NoCommit /\ verdict' = "none" /\ UNCHANGED <<pr, merger>>
    BY <1>4, ParentRepairAssumption DEF OthersPush, NoCommit, Foreign, IInv, WorldOK
  <2>2. MovesOn(World, World')
    BY <1>1, <2>1 DEF World, MovesOn
  <2>3. WorldOK'
    BY <1>1, <2>1 DEF IInv, WorldOK, checkout
  <2>. QED  BY <1>1, <2>2, <2>3, OutsideStep
<1>5. CASE TargetMoves
  <2>1. UNCHANGED <<remote, pr, verdict, checks, merger>>
    BY <1>5 DEF TargetMoves
  <2>2. MovesOn(World, World')
    BY <1>1, <2>1 DEF World, MovesOn
  <2>3. WorldOK'
    BY <1>1, <2>1 DEF IInv, WorldOK, checkout
  <2>. QED  BY <1>1, <2>2, <2>3, OutsideStep
<1>. QED  BY <1>2, <1>3, <1>4, <1>5 DEF Others

LEMMA CrashStep ==
    ASSUME IInv, Crash
    PROVE  IInv'
<1>1. UNCHANGED <<checkout, provider>> /\ mem' = disk /\ disk' = disk /\ pc' = "idle"
  BY DEF Crash
<1>. QED  BY <1>1, IdleIsOK, QuietStep DEF IInv

-----------------------------------------------------------------------------
(* The theorems.                                                           *)

LEMMA InitialIsSound ==
    ASSUME Init
    PROVE  IInv
<1>1. InitialRepair \in Records
  <2> DEFINE p == [k \in Kinds |-> IF k = "ReconcileBranch" THEN 0 ELSE None]
  <2>1. p \in [Kinds -> Int]
    BY DEF None
  <2>2. "Fixing" \in States /\ "PreparingBranch" \in Statuses /\ NoCommit \in Int
    BY DEF States, Statuses, NoCommit
  <2> HIDE DEF p
  <2>3. InitialRepair =
          [state |-> "Fixing", status |-> "PreparingBranch", pushed |-> NoCommit, pr |-> FALSE,
           cycle |-> 0, done |-> FALSE, pending |-> p, receipts |-> {}, requested |-> {},
           cursor |-> 0, keys |-> {}]
    BY DEF InitialRepair, p
  <2>. QED  BY <2>1, <2>2, <2>3 DEF Records
<1>2. /\ InitialRepair.status = "PreparingBranch" /\ InitialRepair.pushed = NoCommit
      /\ InitialRepair.pr = FALSE /\ InitialRepair.cursor = 0
  BY DEF InitialRepair
<1>3. /\ World.asked = [c \in Ours |-> 0] /\ World.comments = 0 /\ World.merger.who = "nobody"
  BY DEF Init, World
<1>4. Sound(InitialRepair, World)
  BY <1>2, <1>3 DEF Sound, PushIsRecorded, TriggerIsKnown, OwnMergeIsKnown, MergeIsSound,
     Working, Merged
<1>5. WorldOK
  <2>1. asked \in [Ours -> Nat] /\ (\A c \in Ours : asked[c] <= 1) /\ comments \in Nat
    BY DEF Init
  <2>2. local \in 0 .. MaxCommits /\ work = FALSE
    BY ParentRepairAssumption DEF Init, Target
  <2>3. pr = "none" /\ prCount = 0 /\ verdict = "none" /\ merger.who = "nobody" /\ remote \in Int
    BY DEF Init, NoCommit
  <2>. QED  BY <2>1, <2>2, <2>3 DEF WorldOK
<1>6. CallOK
  BY DEF Init, CallOK
<1>. QED  BY <1>1, <1>4, <1>5, <1>6 DEF Init, IInv, SoundRecords

LEMMA StepKeepsSound ==
    ASSUME IInv, [Next]_vars
    PROVE  IInv'
<1>1. CASE Advance
  BY <1>1, ReconcileBranchStep, CreateBranchStep, ReconcilePushStep, PushStep,
     FindPullRequestStep, CreatePullRequestStep, ReconcileReviewStep, RequestReviewStep,
     ReconcileStep, ReconcileMergeStep, MergeStep, RefreshStep DEF Advance
<1>2. CASE Worker
  <2>1. QueueTurn \/ Dispatch => UNCHANGED <<daemon, checkout, provider>>
    BY DEF QueueTurn, Dispatch
  <2>2. TRUE \in BOOLEAN /\ FALSE \in BOOLEAN
    OBVIOUS
  <2>. QED  BY <1>2, <2>1, <2>2, IdleStep, TurnPassesStep, TurnFailsStep DEF Worker
<1>3. CASE Review \/ Others \/ Crash
  BY <1>3, ReviewStep, OthersStep, CrashStep
<1>4. CASE UNCHANGED vars
  BY <1>4, IdleStep DEF vars
<1>. QED  BY <1>1, <1>2, <1>3, <1>4 DEF Next

\* In every reachable state the two copies of the record describe the world:
\* what was pushed, triggered and merged is recorded or has its intent, in
\* memory and on disk, whatever call, write or process failed in between.
THEOREM RecordDescribesWorld == Spec => []IInv
BY InitialIsSound, StepKeepsSound, PTL DEF Spec

\* The record holds known states, and while an external write is out the two
\* copies agree: its intent has just been written.
THEOREM TypeCorrect == Spec => []TypeOK
<1>1. IInv => TypeOK
  BY DEF IInv, SoundRecords, Records, CallOK, TypeOK
<1>. QED  BY <1>1, RecordDescribesWorld, PTL

\* One pull request is opened for a repair, however often the call is repeated.
THEOREM OpensOnePullRequest == Spec => []OnePullRequest
<1>1. IInv => OnePullRequest
  BY DEF IInv, WorldOK, OnePullRequest
<1>. QED  BY <1>1, RecordDescribesWorld, PTL

\* A head's review is triggered at most once: the comment of a request that was
\* not receipted is behind the cursor that the record holds.
THEOREM TriggersOncePerHead == Spec => []OneTriggerPerHead
<1>1. IInv => OneTriggerPerHead
  BY DEF IInv, WorldOK, OneTriggerPerHead
<1>. QED  BY <1>1, RecordDescribesWorld, PTL

\* What the daemon merges was approved with passing checks.
THEOREM MergesVettedHead == Spec => []MergedHeadWasVetted
<1>1. IInv => MergedHeadWasVetted
  BY DEF IInv, WorldOK, MergedHeadWasVetted
<1>. QED  BY <1>1, RecordDescribesWorld, PTL

\* The record on disk knows of the daemon's merge, by its intent or outcome.
THEOREM MergeIsNeverForgotten == Spec => []MergeLeavesItsIntent
<1>1. IInv => MergeLeavesItsIntent
  <2>1. IInv => OwnMergeIsKnown(disk, World) /\ World.merger = merger
    BY DEF IInv, SoundRecords, Sound, World
  <2>. QED  BY <2>1 DEF OwnMergeIsKnown, Merged, MergeLeavesItsIntent
<1>. QED  BY <1>1, RecordDescribesWorld, PTL

\* A repair refreshes and completes only on a merge of its pushed commit.
THEOREM CompletesOnlyWhenMerged == Spec => []CompletedMeansMerged
<1>1. IInv => CompletedMeansMerged
  <2>1. IInv => /\ MergeIsSound(disk, World)
                /\ World.merger = merger /\ World.pr = pr /\ World.vetted = vetted
    BY DEF IInv, SoundRecords, Sound, World
  <2>. QED  BY <2>1 DEF MergeIsSound, Merged, CompletedMeansMerged
<1>. QED  BY <1>1, RecordDescribesWorld, PTL

=============================================================================
