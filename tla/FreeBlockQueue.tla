-------------------------- MODULE FreeBlockQueue ---------------------------
(***************************************************************************)
(* The free list of rapid_llm/engine/block_pool.py: a doubly linked list   *)
(* threaded through the blocks themselves, between two sentinels, so that  *)
(* a hit on a cached block that sits free can unlink it without a scan.    *)
(*                                                                         *)
(* A block is linked at most once: BlockPool appends or prepends a block   *)
(* only when its reference count drops to zero and unlinks it when the     *)
(* count leaves zero.  That rule of the caller is the guard of Append_ and *)
(* Prepend (module BlockLedger proves that the pool obeys it).             *)
(***************************************************************************)
EXTENDS Integers, Sequences, FiniteSets

CONSTANTS
  Blocks,     \* the blocks that may be linked
  Head_,      \* the sentinel before the first free block
  Tail_,      \* the sentinel after the last one
  NoBlock     \* Python's None in a link field

ASSUME SentinelAssumption ==
  /\ Head_ \notin Blocks
  /\ Tail_ \notin Blocks
  /\ NoBlock \notin Blocks
  /\ Head_ # Tail_
  /\ Head_ # NoBlock
  /\ Tail_ # NoBlock
  /\ IsFiniteSet(Blocks)

VARIABLES
  next_free_block,   \* successor of a node, or NoBlock
  prev_free_block,   \* predecessor of a node, or NoBlock
  num_free_blocks,   \* the length the list reports
  returned           \* the block the last popleft returned (an observation)

vars == <<next_free_block, prev_free_block, num_free_blocks, returned>>

Nodes == Blocks \cup {Head_, Tail_}
Link  == Nodes \cup {NoBlock}

\* Links lead to blocks or sentinels and the length is never negative.
TypeOK ==
  /\ next_free_block \in [Nodes -> Link]
  /\ prev_free_block \in [Nodes -> Link]
  /\ num_free_blocks \in 0 .. Cardinality(Blocks)
  /\ returned \in Blocks \cup {NoBlock}

Init ==
  /\ next_free_block = [n \in Nodes |-> IF n = Head_ THEN Tail_ ELSE NoBlock]
  /\ prev_free_block = [n \in Nodes |-> IF n = Tail_ THEN Head_ ELSE NoBlock]
  /\ num_free_blocks = 0
  /\ returned = NoBlock

\* `remove` raises ValueError when one of the two links is None.
Linked(b) == prev_free_block[b] # NoBlock /\ next_free_block[b] # NoBlock

\* Mutant: the tail sentinel keeps pointing at the old last block.
MutantAppendKeepsTail(b) ==
  LET prev == prev_free_block[Tail_] IN
  /\ ~Linked(b)
  /\ next_free_block' = [next_free_block EXCEPT ![prev] = b, ![b] = Tail_]
  /\ prev_free_block' = [prev_free_block EXCEPT ![b] = prev]
  /\ num_free_blocks' = num_free_blocks + 1
  /\ UNCHANGED returned

Append_(b) ==
  LET prev == prev_free_block[Tail_] IN
  /\ ~Linked(b)
  /\ next_free_block' = [next_free_block EXCEPT ![prev] = b, ![b] = Tail_]
  /\ prev_free_block' = [prev_free_block EXCEPT ![b] = prev, ![Tail_] = b]
  /\ num_free_blocks' = num_free_blocks + 1
  /\ UNCHANGED returned

Prepend(b) ==
  LET nxt == next_free_block[Head_] IN
  /\ ~Linked(b)
  /\ next_free_block' = [next_free_block EXCEPT ![Head_] = b, ![b] = nxt]
  /\ prev_free_block' = [prev_free_block EXCEPT ![b] = Head_, ![nxt] = b]
  /\ num_free_blocks' = num_free_blocks + 1
  /\ UNCHANGED returned

\* Mutant: unlinking leaves the length as it was.
MutantUnlinkUncounted(b) ==
  LET prev == prev_free_block[b]
      nxt  == next_free_block[b] IN
  /\ next_free_block' = [next_free_block EXCEPT ![prev] = nxt, ![b] = NoBlock]
  /\ prev_free_block' = [prev_free_block EXCEPT ![nxt] = prev, ![b] = NoBlock]
  /\ UNCHANGED num_free_blocks

\* remove and popleft: unlink b from its neighbours and clear its own links.
Unlink(b) ==
  LET prev == prev_free_block[b]
      nxt  == next_free_block[b] IN
  /\ next_free_block' = [next_free_block EXCEPT ![prev] = nxt, ![b] = NoBlock]
  /\ prev_free_block' = [prev_free_block EXCEPT ![nxt] = prev, ![b] = NoBlock]
  /\ num_free_blocks' = num_free_blocks - 1

Remove(b) ==
  /\ Linked(b)
  /\ Unlink(b)
  /\ UNCHANGED returned

\* Mutant: the block popped is the last one.
MutantPopRight ==
  LET block == prev_free_block[Tail_] IN
  /\ block # NoBlock
  /\ block # Head_
  /\ Unlink(block)
  /\ returned' = block

\* popleft raises IndexError on an empty list, which leaves it unchanged.
PopLeft ==
  LET block == next_free_block[Head_] IN
  /\ block # NoBlock
  /\ block # Tail_
  /\ Unlink(block)
  /\ returned' = block

Next ==
  \/ \E b \in Blocks : Append_(b) \/ Prepend(b) \/ Remove(b)
  \/ PopLeft

Spec == Init /\ [][Next]_vars

-----------------------------------------------------------------------------
\* __iter__: the nodes met walking the forward links from the head, front to
\* back.  The walk is cut after as many steps as there are blocks: a cycle
\* would otherwise never reach the tail.
Walk ==
  LET node[k \in 0 .. Cardinality(Blocks) + 1] ==
        IF k = 0 THEN Head_
        ELSE IF node[k - 1] \in {Tail_, NoBlock} THEN node[k - 1]
        ELSE next_free_block[node[k - 1]]
      n == Cardinality({k \in 1 .. Cardinality(Blocks) : node[k] \in Blocks})
  IN  [k \in 1 .. n |-> node[k]]

\* The queue the list stands for.
Abstract == INSTANCE DeQueue WITH queue <- Walk

\* The list is the abstract queue: walking it forwards gives the same blocks,
\* in the same order, as a double-ended queue under the same operations.
ImplementsDeQueue == Abstract!Spec

\* Every forward link has its backward link and the other way round, and a
\* block is either linked on both sides or on neither.  This is what makes
\* `remove` of a block in the middle of the list correct without a scan.
LinksAreMutual ==
  /\ \A n \in Nodes \ {Tail_} :
       next_free_block[n] # NoBlock => prev_free_block[next_free_block[n]] = n
  /\ \A n \in Nodes \ {Head_} :
       prev_free_block[n] # NoBlock => next_free_block[prev_free_block[n]] = n
  /\ \A b \in Blocks :
       (next_free_block[b] = NoBlock) <=> (prev_free_block[b] = NoBlock)

\* num_free_blocks, which get_new_blocks trusts before it pops, is the number
\* of linked blocks: a pop it allows never meets the empty list.
CountIsLength ==
  num_free_blocks = Cardinality({b \in Blocks : Linked(b)})

\* The sentinels stay at the ends: nothing precedes the head or follows the
\* tail, no block links to them from the wrong side, and both are linked.
SentinelsAtEnds ==
  /\ prev_free_block[Head_] = NoBlock
  /\ next_free_block[Tail_] = NoBlock
  /\ next_free_block[Head_] \in Blocks \cup {Tail_}
  /\ prev_free_block[Tail_] \in Blocks \cup {Head_}
  /\ \A b \in Blocks : /\ next_free_block[b] # Head_
                       /\ prev_free_block[b] # Tail_

\* The inductive invariant of the list (module FreeBlockQueue_proofs).
IInv ==
  /\ next_free_block \in [Nodes -> Link]
  /\ prev_free_block \in [Nodes -> Link]
  /\ returned \in Blocks \cup {NoBlock}
  /\ SentinelsAtEnds
  /\ LinksAreMutual
  /\ CountIsLength
=============================================================================
