--------------------------- MODULE VerifiedParent ---------------------------
(* What a parent integration promises to the issues above it: it completes    *)
(* only on repository targets that one of its attempts has verified, and once *)
(* it is completed or canceled nothing about it changes. The controller of    *)
(* ParentAttempts implements it.                                              *)
CONSTANT Targets

VARIABLES
    phase,      \* "open", "completed" or "canceled"
    target,     \* the commits to be integrated
    verified    \* the targets on which an attempt passed

vars == <<phase, target, verified>>

Init ==
    /\ phase = "open"
    /\ target \in Targets
    /\ verified = {}

(* The checkouts moved: a repair was merged, or the workspace was prepared. *)
Retarget ==
    /\ phase = "open"
    /\ target' \in Targets
    /\ UNCHANGED <<phase, verified>>

(* An attempt passed on the present target. *)
Verify ==
    /\ phase = "open"
    /\ verified' = verified \union {target}
    /\ UNCHANGED <<phase, target>>

(* The parent is done: its target was verified, at the latest now. *)
Complete ==
    /\ phase = "open"
    /\ phase' = "completed"
    /\ verified' \in {verified, verified \union {target}}
    /\ target \in verified'
    /\ UNCHANGED target

(* A parent is given up, possibly with the outcome of its last attempt. *)
Cancel ==
    /\ phase = "open"
    /\ phase' = "canceled"
    /\ verified' \in {verified, verified \union {target}}
    /\ UNCHANGED target

Next == Retarget \/ Verify \/ Complete \/ Cancel

Spec == Init /\ [][Next]_vars
=============================================================================
