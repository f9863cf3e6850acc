----------------------- MODULE MCSpeculativeScheduler -----------------------
(* Small instances of Scheduler.step in all its modes. *)
EXTENDS SpeculativeScheduler

ShortPrompts == {<<0>>, <<0, 0, 0>>}
=============================================================================
