-------------------------- MODULE MCParentAttempts --------------------------
(* ParentAttempts with the bounds of the cfg files. *)
EXTENDS ParentAttempts
=============================================================================
