--------------------------- MODULE MCCacheClient ---------------------------
(* Blocks of two tokens; prompts that share their first block, or all but  *)
(* the last token.                                                         *)
EXTENDS CacheClient
MCPrompts == {<<0, 0, 0>>, <<0, 0, 0, 1, 0>>}
Symmetry == Permutations(Blocks) \cup Permutations(Requests)
=============================================================================
