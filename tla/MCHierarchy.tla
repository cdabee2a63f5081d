------------------------------ MODULE MCHierarchy ------------------------------
(* Instances of Hierarchy: a root, a nested parent and their leaves. *)
EXTENDS Hierarchy, TLC

CONSTANTS P, Q, A

MCSingle == P :> {A}
MCSingleOrder == <<P, A>>
MCNested == P :> {Q} @@ Q :> {A}
MCNestedOrder == <<P, Q, A>>
=============================================================================
