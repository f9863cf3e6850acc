--------------------------- MODULE MCBlockLedger ---------------------------
(* Three blocks, two requests, chains of up to two blocks that share a     *)
(* first block and then differ.                                            *)
EXTENDS BlockLedger, TLC
CONSTANTS h1, h2, h3
MCChains == {<<>>, <<h1>>, <<h1, h2>>, <<h1, h3>>}
Symmetry == Permutations(Blocks) \cup Permutations(Requests)
=============================================================================
