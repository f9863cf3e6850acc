--------------------------- MODULE MCAsyncEngine ---------------------------
(* A small instance of the asynchronous engine: one request of up to two    *)
(* tokens, so that text can be held back, beside one of a single token.     *)
EXTENDS AsyncEngine

CONSTANTS c1, c2

TwoAndOne == [c \in Clients |-> IF c = c1 THEN 2 ELSE 1]
=============================================================================
