------------------------- MODULE MCOffloadScheduler -------------------------
(* A small instance of the engine with a CPU tier.  With blocks of two       *)
(* tokens the prompt of r2 takes the whole pool; the others share a block.   *)
EXTENDS OffloadScheduler

CONSTANT r2

Short  == <<0, 0, 0>>
Long   == <<1, 1, 1, 1, 1>>
MCPrompts  == {Short, Long}
MCPromptOf == [r \in Requests |-> IF r = r2 THEN Long ELSE Short]
=============================================================================
