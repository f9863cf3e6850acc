---- MODULE MCScheduler ----
(* Small instances of the engine.  Prompts are short sequences over two      *)
(* tokens: with blocks of two tokens they have shared and private blocks.    *)
EXTENDS Scheduler

ShortPrompts == {<<0>>, <<0, 0>>}
MixedPrompts == {<<0>>, <<0, 0, 0>>, <<0, 1, 0>>}
LongPrompts == {<<0, 0>>, <<0, 0, 0, 1, 0>>}
OnePrompt == {<<0, 0, 0>>}
====
