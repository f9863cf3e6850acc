------------------------------ MODULE DeQueue ------------------------------
(***************************************************************************)
(* What rapid_llm/engine/block_pool.py promises of FreeBlockQueue: the     *)
(* free blocks in eviction order, each at most once, with insertion at     *)
(* both ends, removal at the front and removal of any member.              *)
(***************************************************************************)
EXTENDS Naturals, Sequences

CONSTANTS
  Blocks,     \* the blocks the queue may hold
  NoBlock     \* nothing was popped yet

VARIABLES
  queue,      \* the free blocks, the first one is evicted first
  returned    \* the block the last PopLeft handed out

vars == <<queue, returned>>

Members == {queue[i] : i \in DOMAIN queue}

Init ==
  /\ queue = <<>>
  /\ returned = NoBlock

Append_(b) ==
  /\ b \notin Members
  /\ queue' = Append(queue, b)
  /\ UNCHANGED returned

Prepend(b) ==
  /\ b \notin Members
  /\ queue' = <<b>> \o queue
  /\ UNCHANGED returned

Remove(b) ==
  /\ b \in Members
  /\ queue' = SelectSeq(queue, LAMBDA c : c # b)
  /\ UNCHANGED returned

PopLeft ==
  /\ queue # <<>>
  /\ queue' = Tail(queue)
  /\ returned' = Head(queue)

Next ==
  \/ \E b \in Blocks : Append_(b) \/ Prepend(b) \/ Remove(b)
  \/ PopLeft

Spec == Init /\ [][Next]_vars
=============================================================================
