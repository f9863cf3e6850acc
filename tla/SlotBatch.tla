----------------------------- MODULE SlotBatch -----------------------------
(***************************************************************************)
(* The device side of one pass: rapid_llm/executor/slot_batch.py (block    *)
(* tables and row selection), the K/V scatter and attention reads of       *)
(* modules/attention.py, as they act on the KV cache rows.                 *)
(*                                                                         *)
(* A K/V row is identified by the token prefix it was computed from: the   *)
(* row of position p of a sequence is right when it is SubSeq(tokens, 1,   *)
(* p), and Junk is anything else.  A row that attends over anything but    *)
(* its own prefix is computed wrong and is Junk itself.                    *)
(*                                                                         *)
(* Positions and block indices count from 1; block ids are numbers and     *)
(* block 0 is the null block, whose rows are written and never meant to be *)
(* read.  A pass is a set of sequences                                     *)
(*   [slot, start, tokens]: the chunk tokens[start + 1 .. Len(tokens)] of  *)
(* the request in that slot, on top of start cached rows.                  *)
(***************************************************************************)
EXTENDS PrefixCache, FiniteSetsExt

CONSTANTS
  Slots,       \* cache slots requests may run in
  MaxSeqLen    \* width of the block table, in positions

NullBlock == 0
Junk      == <<>>

Rows  == Blocks \X (0 .. BlockSize - 1)
Width == NumBlocksFor(MaxSeqLen)

NewTable == [s \in Slots |-> [j \in 1 .. Width |-> NullBlock]]
NewRows  == [row \in Rows |-> Junk]

\* write_block_tables: point the entries of a slot at the blocks it was given.
WriteTable(table, slot, w) ==
  [table EXCEPT ![slot] = [j \in 1 .. Width |->
     IF j \in w.start + 1 .. w.start + Len(w.blocks) THEN w.blocks[j - w.start] ELSE @[j]]]

\* The cache row of position p of a slot, through the table.
TableRow(table, slot, p) == <<table[slot][NumBlocksFor(p)], (p - 1) % BlockSize>>

\* The cache row the chunked kernel takes for position p: the rows of a slot
\* counted from the row of its first position, b_kv_base.
RunRow(table, slot, p) == <<table[slot][1] + (p - 1) \div BlockSize, (p - 1) % BlockSize>>

Prefix(q, p)    == SubSeq(q.tokens, 1, p)
Chunk(q)        == q.start + 1 .. Len(q.tokens)
ReadRow(kv, row) == IF row \in DOMAIN kv THEN kv[row] ELSE Junk

\* Where a sequence of the pass puts the K/V of its chunk.
ChunkRows(table, q) == {TableRow(table, q.slot, p) : p \in Chunk(q)}

\* The columns a grid pads a shorter chunk with go through the table as well.
\* Past the last column of the table there is no row (an index error).
PaddingRows(table, pass, q) ==
  LET width == Max({Len(s.tokens) - s.start : s \in pass})
      cols  == Len(q.tokens) + 1 .. q.start + width
  IN  {TableRow(table, q.slot, p) : p \in cols \cap 1 .. MaxSeqLen}

\* Scatter the rows of a pass.  Where a padding column and a chunk column
\* meet in one row, either write may be the last: lost are those rows.
Scatter(kv, table, pass, padding, lost) ==
  [row \in DOMAIN kv |->
     IF row \notin lost /\ \E q \in pass : row \in ChunkRows(table, q)
     THEN LET q == CHOOSE q \in pass : row \in ChunkRows(table, q)
          IN  Prefix(q, CHOOSE p \in Chunk(q) : TableRow(table, q.slot, p) = row)
     ELSE IF row \in padding THEN Junk ELSE kv[row]]

\* The sequences of a pass whose attention met a row that is not their own.
\* at[q][p] is the row the kernel takes for position p of q.
Misled(kv, pass, at) ==
  {q \in pass : \E p \in 1 .. Len(q.tokens) : ReadRow(kv, at[q][p]) # Prefix(q, p)}

\* What they wrote is worth nothing.
Spoil(kv, table, misled) ==
  [row \in DOMAIN kv |-> IF \E q \in misled : row \in ChunkRows(table, q) THEN Junk ELSE kv[row]]

\* A grid of first chunks attends over its own columns, not over the cache.
FreshGrid(kv, table, pass) ==
  LET padding == UNION {PaddingRows(table, pass, q) : q \in pass}
      real    == UNION {ChunkRows(table, q) : q \in pass}
  IN  {[kv |-> Scatter(kv, table, pass, padding, lost), misled |-> {}] :
         lost \in SUBSET (padding \cap real)}

\* A grid of resumed chunks attends over the run of rows from b_kv_base.
ResumedGrid(kv, table, pass) ==
  LET padding == UNION {PaddingRows(table, pass, q) : q \in pass}
      real    == UNION {ChunkRows(table, q) : q \in pass}
  IN  {LET written == Scatter(kv, table, pass, padding, lost)
           misled  == Misled(written, pass,
                        [q \in pass |-> [p \in 1 .. Len(q.tokens) |-> RunRow(table, q.slot, p)]])
       IN  [kv |-> Spoil(written, table, misled), misled |-> misled] :
         lost \in SUBSET (padding \cap real)}

\* Extend and decode passes: one row per token, each attending over its slot's
\* rows through the table.  Filler rows stay in the null block.
RowPass(kv, table, pass) ==
  LET written == Scatter(kv, table, pass, {}, {})
      misled  == Misled(written, pass,
                   [q \in pass |-> [p \in 1 .. Len(q.tokens) |-> TableRow(table, q.slot, p)]])
  IN  [kv |-> Spoil(written, table, misled), misled |-> misled]
=============================================================================
