------------------------- MODULE MCFreeBlockQueue --------------------------
(* Four blocks: enough for a removal at either end, in the middle, and of  *)
(* the last member left.                                                   *)
EXTENDS FreeBlockQueue
=============================================================================
