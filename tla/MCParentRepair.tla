---------------------------- MODULE MCParentRepair ----------------------------
(* Model checking of one parent repair on small instances. *)
EXTENDS ParentRepair
=============================================================================
