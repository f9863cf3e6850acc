------------------------------ MODULE MCRouter ------------------------------
(* TLC instance of Router: three requests, two of which share a prefix. *)
EXTENDS Router

CONSTANTS ida, idb, idc

MCTokens == [id \in Ids |-> IF id = idc THEN 0 ELSE 5]
MCChain == [id \in Ids |-> IF id = ida THEN <<1, 2>> ELSE IF id = idb THEN <<1, 3>> ELSE <<>>]
TwoBatches == {<<ida, idb>>, <<idc>>}
=============================================================================
