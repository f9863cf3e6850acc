----------------------- MODULE FreeBlockQueue_proofs -----------------------
(***************************************************************************)
(* The links of the free list are mutual and its length is the number of   *)
(* linked blocks, for every finite set of blocks.                          *)
(***************************************************************************)
EXTENDS FreeBlockQueue, FiniteSetTheorems, TLAPS

LinkedBlocks == {b \in Blocks : Linked(b)}

\* The set of linked blocks is finite, and linking or unlinking one block
\* moves its size by one.
LEMMA CountStep ==
  ASSUME NEW S \in SUBSET Blocks, NEW b \in Blocks
  PROVE  /\ IsFiniteSet(S)
         /\ Cardinality(S) \in 0 .. Cardinality(Blocks)
         /\ b \notin S => Cardinality(S \cup {b}) = Cardinality(S) + 1
         /\ b \in S => Cardinality(S \ {b}) = Cardinality(S) - 1
<1>1. IsFiniteSet(Blocks)
  BY SentinelAssumption
<1>2. IsFiniteSet(S) /\ Cardinality(S) <= Cardinality(Blocks)
  BY <1>1, FS_Subset
<1>3. Cardinality(S) \in Nat /\ Cardinality(Blocks) \in Nat
  BY <1>1, <1>2, FS_CardinalityType
<1>4. b \notin S => Cardinality(S \cup {b}) = Cardinality(S) + 1
  BY <1>2, FS_AddElement
<1>5. b \in S => Cardinality(S \ {b}) = Cardinality(S) - 1
  BY <1>2, FS_RemoveElement
<1> QED BY <1>2, <1>3, <1>4, <1>5

LEMMA InitIInv == Init => IInv
<1> SUFFICES ASSUME Init PROVE IInv
  OBVIOUS
<1>1. {b \in Blocks : Linked(b)} = {}
  BY SentinelAssumption DEF Init, Linked, Nodes
<1>2. CountIsLength
  BY <1>1, FS_EmptySet DEF CountIsLength, Init
<1> QED
  BY <1>2, SentinelAssumption
  DEF Init, IInv, SentinelsAtEnds, LinksAreMutual, Nodes, Link

LEMMA AppendIInv ==
  ASSUME IInv, NEW b \in Blocks, Append_(b)
  PROVE  IInv'
<1> USE SentinelAssumption
<1>1. prev_free_block[Tail_] \in Nodes /\ prev_free_block[Tail_] # b
  BY DEF IInv, SentinelsAtEnds, LinksAreMutual, Append_, Linked, Nodes
<1>2. next_free_block' \in [Nodes -> Link] /\ prev_free_block' \in [Nodes -> Link]
  BY <1>1 DEF IInv, Append_, Nodes, Link
<1>3. SentinelsAtEnds'
  BY <1>1 DEF IInv, SentinelsAtEnds, Append_, Nodes
<1>4. LinksAreMutual'
  BY <1>1 DEF IInv, SentinelsAtEnds, LinksAreMutual, Append_, Linked, Nodes, Link
<1>5. LinkedBlocks' = LinkedBlocks \cup {b} /\ b \notin LinkedBlocks
  BY <1>1 DEF IInv, SentinelsAtEnds, LinksAreMutual, Append_, Linked, LinkedBlocks, Nodes, Link
<1>6. CountIsLength'
  BY <1>5, CountStep DEF IInv, CountIsLength, LinkedBlocks, Append_
<1> QED
  BY <1>2, <1>3, <1>4, <1>6 DEF IInv, Append_

LEMMA PrependIInv ==
  ASSUME IInv, NEW b \in Blocks, Prepend(b)
  PROVE  IInv'
<1> USE SentinelAssumption
<1>1. next_free_block[Head_] \in Nodes /\ next_free_block[Head_] # b
  BY DEF IInv, SentinelsAtEnds, LinksAreMutual, Prepend, Linked, Nodes
<1>2. next_free_block' \in [Nodes -> Link] /\ prev_free_block' \in [Nodes -> Link]
  BY <1>1 DEF IInv, Prepend, Nodes, Link
<1>3. SentinelsAtEnds'
  BY <1>1 DEF IInv, SentinelsAtEnds, Prepend, Nodes
<1>4. LinksAreMutual'
  BY <1>1 DEF IInv, SentinelsAtEnds, LinksAreMutual, Prepend, Linked, Nodes, Link
<1>5. LinkedBlocks' = LinkedBlocks \cup {b} /\ b \notin LinkedBlocks
  BY <1>1 DEF IInv, SentinelsAtEnds, LinksAreMutual, Prepend, Linked, LinkedBlocks, Nodes, Link
<1>6. CountIsLength'
  BY <1>5, CountStep DEF IInv, CountIsLength, LinkedBlocks, Prepend
<1> QED
  BY <1>2, <1>3, <1>4, <1>6 DEF IInv, Prepend

\* Both remove and popleft go through the unlinking of one linked block.  The
\* invariant is local to each link, so it does not exclude a detached cycle;
\* unlinking keeps the links mutual there too (TLC shows there is none).
LEMMA UnlinkIInv ==
  ASSUME IInv, NEW b \in Blocks, Linked(b), Unlink(b),
         returned' \in Blocks \cup {NoBlock}
  PROVE  IInv'
<1> USE SentinelAssumption
<1>1. /\ prev_free_block[b] \in Nodes \ {Tail_}
      /\ next_free_block[b] \in Nodes \ {Head_}
      /\ prev_free_block[b] = b <=> next_free_block[b] = b
  BY DEF IInv, SentinelsAtEnds, LinksAreMutual, Linked, Nodes, Link
<1>2. next_free_block' \in [Nodes -> Link] /\ prev_free_block' \in [Nodes -> Link]
  BY <1>1 DEF IInv, Unlink, Nodes, Link
<1>3. SentinelsAtEnds'
  BY <1>1 DEF IInv, SentinelsAtEnds, Unlink, Nodes, Link
<1>4. LinksAreMutual'
  BY <1>1 DEF IInv, SentinelsAtEnds, LinksAreMutual, Unlink, Linked, Nodes, Link
<1>5. LinkedBlocks' = LinkedBlocks \ {b} /\ b \in LinkedBlocks
  BY <1>1 DEF IInv, SentinelsAtEnds, LinksAreMutual, Unlink, Linked, LinkedBlocks, Nodes, Link
<1>6. CountIsLength'
  BY <1>5, CountStep DEF IInv, CountIsLength, LinkedBlocks, Unlink
<1> QED
  BY <1>2, <1>3, <1>4, <1>6 DEF IInv

LEMMA NextIInv == IInv /\ [Next]_vars => IInv'
<1> SUFFICES ASSUME IInv, [Next]_vars PROVE IInv'
  OBVIOUS
<1>1. ASSUME NEW b \in Blocks, Append_(b) PROVE IInv'
  BY <1>1, AppendIInv
<1>2. ASSUME NEW b \in Blocks, Prepend(b) PROVE IInv'
  BY <1>2, PrependIInv
<1>3. ASSUME NEW b \in Blocks, Remove(b) PROVE IInv'
  BY <1>3, UnlinkIInv DEF Remove, IInv
<1>4. CASE PopLeft
  <2>1. next_free_block[Head_] \in Blocks /\ Linked(next_free_block[Head_])
    BY <1>4, SentinelAssumption
    DEF PopLeft, IInv, SentinelsAtEnds, LinksAreMutual, Linked, Nodes
  <2> QED BY <2>1, <1>4, UnlinkIInv DEF PopLeft, IInv
<1>5. CASE UNCHANGED vars
  BY <1>5 DEF vars, IInv, SentinelsAtEnds, LinksAreMutual, CountIsLength, Linked
<1> QED BY <1>1, <1>2, <1>3, <1>4, <1>5 DEF Next

\* The links are mutual after any sequence of appends, prepends, removals
\* from the middle and pops, whatever the number of blocks.
THEOREM LinksTheorem == Spec => []LinksAreMutual
<1>1. IInv => LinksAreMutual
  BY DEF IInv
<1> QED BY <1>1, InitIInv, NextIInv, PTL DEF Spec

\* The length the queue reports is the number of linked blocks, so a pop
\* that get_new_blocks allows always finds a block.
THEOREM CountTheorem == Spec => []CountIsLength
<1>1. IInv => CountIsLength
  BY DEF IInv
<1> QED BY <1>1, InitIInv, NextIInv, PTL DEF Spec

\* Links and the count keep their types: the list never leaves the blocks and
\* its two sentinels.
THEOREM TypeTheorem == Spec => []TypeOK
<1>1. IInv => TypeOK
  <2> SUFFICES ASSUME IInv PROVE TypeOK
    OBVIOUS
  <2>1. num_free_blocks \in 0 .. Cardinality(Blocks)
    <3>1. LinkedBlocks \in SUBSET Blocks
      BY DEF LinkedBlocks
    <3>2. Cardinality(LinkedBlocks) \in 0 .. Cardinality(Blocks)
      <4>1. CASE Blocks = {}
        <5>1. LinkedBlocks = {} BY <4>1, <3>1
        <5> QED BY <5>1, <4>1, FS_EmptySet
      <4>2. CASE Blocks # {}
        BY <4>2, <3>1, CountStep
      <4> QED BY <4>1, <4>2
    <3> QED BY <3>2 DEF IInv, CountIsLength, LinkedBlocks
  <2> QED BY <2>1 DEF IInv, TypeOK
<1> QED BY <1>1, InitIInv, NextIInv, PTL DEF Spec
=============================================================================
