----------------------------- MODULE MCLockstep -----------------------------
(* Small instances of the lockstep loops. *)
EXTENDS Lockstep
=============================================================================
