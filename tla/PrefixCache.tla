---------------------------- MODULE PrefixCache ----------------------------
(***************************************************************************)
(* The block-level KV allocator: rapid_llm/engine/prefix_cache.py over the *)
(* KVCacheCoordinator of kv_cache_spec.py (one full-attention group, the   *)
(* homogeneous configuration) over block_pool.py.                          *)
(*                                                                         *)
(* The allocator has no thread of its own: every operation is a method the *)
(* planner calls.  So an operation is here a function from one value of    *)
(* the allocator to the next, and the modules that call them (CacheClient, *)
(* BatchPlanner) hold that value in a variable.  A cache is a record:      *)
(*   ref_cnt, block_hash   fields of each KVCacheBlock                     *)
(*   free                  the free queue, front first                     *)
(*   index                 cached_block_hash_to_block, pairs <<hash, block>> *)
(*   blocks, num_cached    per request: _RequestBlocks of the group        *)
(*   hashes, committed,    per request: _Sequence (block_hashes,           *)
(*   mapped                num_cached_tokens, num_mapped_blocks)           *)
(* An untracked request has the empty chain and zeros.                     *)
(*                                                                         *)
(* The chained digest of a block is represented by what it digests, the    *)
(* token prefix up to the end of the block; digest collisions are left out. *)
(***************************************************************************)
EXTENDS Integers, Sequences, SequencesExt

CONSTANTS
  Blocks,        \* the physical blocks, the null block excluded
  Requests,      \* request ids
  BlockSize,     \* PREFIX_CACHE_BLOCK_SIZE
  EnableCaching  \* enable_prefix_cache

ASSUME CacheAssumption ==
  BlockSize \in Nat \ {0} /\ IsFiniteSet(Blocks) /\ IsFiniteSet(Requests)

NoHash == <<>>

Elements(s)   == {s[i] : i \in 1 .. Len(s)}
Larger(m, n)  == IF m > n THEN m ELSE n
Smaller(m, n) == IF m < n THEN m ELSE n

\* The elements of s at the places of a set, in order: the i-th of them is at
\* the place that has i places of the set up to it.
ElementsAt(s, places) ==
  [i \in 1 .. Cardinality(places) |->
     s[CHOOSE p \in places : Cardinality({q \in places : q <= p}) = i]]

\* A left fold: op applied to the members of s in order.
OneByOne(op(_, _), base, s) ==
  LET after[i \in 0 .. Len(s)] == IF i = 0 THEN base ELSE op(after[i - 1], s[i])
  IN  after[Len(s)]

\* The pool in its first state: every block is free, none is cached.
NewCache(queue) ==
  [ref_cnt    |-> [b \in Blocks |-> 0],
   block_hash |-> [b \in Blocks |-> NoHash],
   free       |-> queue,
   index      |-> {},
   blocks     |-> [r \in Requests |-> <<>>],
   num_cached |-> [r \in Requests |-> 0],
   hashes     |-> [r \in Requests |-> <<>>],
   committed  |-> [r \in Requests |-> 0],
   mapped     |-> [r \in Requests |-> 0]]

-----------------------------------------------------------------------------
\* extend_block_hashes: append the hashes of the blocks completed since the
\* chain was last extended.  What the chain already holds is kept, whatever
\* the tokens: each new hash continues the last one.
ExtendHashes(chain, tokens) ==
  LET done   == Len(chain)
      parent == IF done = 0 THEN <<>> ELSE Last(chain)
  IN  [j \in 1 .. Larger(done, Len(tokens) \div BlockSize) |->
         IF j <= done THEN chain[j]
         ELSE parent \o SubSeq(tokens, done * BlockSize + 1, j * BlockSize)]

\* track and observe: (re)build the chain of r over its tokens.
Track(c, r, tokens) ==
  [c EXCEPT !.hashes[r] = ExtendHashes(c.hashes[r], tokens)]

-----------------------------------------------------------------------------
Cached(c, h) == {e[2] : e \in {e \in c.index : e[1] = h}}

\* The length in blocks of the longest cached run of the chain, over blocks
\* that end within the first max_length tokens.
HitLength(c, chain, max_length) ==
  LET bound == Smaller(max_length \div BlockSize, Len(chain))
      runs  == {k \in 0 .. bound : \A i \in 1 .. k : Cached(c, chain[i]) # {}}
  IN  CHOOSE k \in runs : \A j \in runs : j <= k

\* Mutant: the hit may cover the whole sequence.
MutantMaxHitWhole(num_tokens) == num_tokens

\* A hit leaves at least the last token to run: its logits give the next one.
MaxHit(num_tokens) == num_tokens - 1

\* lookup: the matches of r.  Any block cached under a hash may be returned
\* for it.
Lookup(c, r, num_tokens) ==
  LET k == IF EnableCaching THEN HitLength(c, c.hashes[r], MaxHit(num_tokens)) ELSE 0
  IN  {m \in [1 .. k -> Blocks] : \A i \in 1 .. k : m[i] \in Cached(c, c.hashes[r][i])}

-----------------------------------------------------------------------------
\* touch: take a reference on cached blocks; a free one leaves the queue.
Touch(c, taken) ==
  [c EXCEPT !.ref_cnt = [b \in Blocks |-> @[b] + IF b \in Elements(taken) THEN 1 ELSE 0],
            !.free    = OneByOne(RemoveFirst, @, taken)]

\* get_new_blocks: n blocks off the front, each dropped from the index
\* (_maybe_evict_cached_block) and given its first reference.
NewBlocks(c, n) == SubSeq(c.free, 1, n)

\* Mutant: a block handed out again is not dropped from the index.
MutantTakeKeepsIndex(c, n) ==
  LET taken == Elements(NewBlocks(c, n)) IN
  [c EXCEPT !.ref_cnt = [b \in Blocks |-> IF b \in taken THEN 1 ELSE @[b]],
            !.free    = SubSeq(@, n + 1, Len(@))]

TakeNewBlocks(c, n) ==
  LET taken == Elements(NewBlocks(c, n)) IN
  [c EXCEPT !.ref_cnt    = [b \in Blocks |-> IF b \in taken THEN 1 ELSE @[b]],
            !.block_hash = [b \in Blocks |-> IF b \in taken THEN NoHash ELSE @[b]],
            !.index      = {e \in @ : e[2] \notin taken},
            !.free       = SubSeq(@, n + 1, Len(@))]

\* free_blocks: one reference less for each block, in the order given; those
\* at zero enter the queue, the hash-less ones at its front.
FreeBlocks(c, ordered) ==
  LET enter(queue, b) ==
        IF c.ref_cnt[b] # 1 THEN queue
        ELSE IF c.block_hash[b] = NoHash THEN <<b>> \o queue ELSE Append(queue, b)
  IN  [c EXCEPT !.ref_cnt = [b \in Blocks |-> @[b] - IF b \in Elements(ordered) THEN 1 ELSE 0],
                !.free    = OneByOne(enter, @, ordered)]

-----------------------------------------------------------------------------
NumBlocksFor(num_tokens) == (num_tokens + BlockSize - 1) \div BlockSize

\* allocate adopts a match only for a request that holds no block: otherwise
\* it raises ValueError.
MayAdopt(c, r, match) == match # <<>> => c.blocks[r] = <<>>

\* The blocks allocate still has to draw for r once the match is adopted.
Needed(c, r, num_tokens, match) ==
  LET have == IF match = <<>> THEN Len(c.blocks[r]) ELSE Len(match)
  IN  Larger(NumBlocksFor(num_tokens) - have, 0)

Adopt(c, r, match) ==
  IF match = <<>> THEN c
  ELSE [Touch(c, match) EXCEPT !.blocks[r] = match, !.num_cached[r] = Len(match)]

\* Whether allocate returns True.
Fits(c, r, num_tokens, match) ==
  Needed(c, r, num_tokens, match) <= Len(Adopt(c, r, match).free)

\* allocate: adopt the match first, then draw what is missing.
Allocate(c, r, num_tokens, match) ==
  LET a     == Adopt(c, r, match)
      n     == Needed(c, r, num_tokens, match)
      fresh == NewBlocks(a, n)
  IN  [TakeNewBlocks(a, n) EXCEPT !.blocks[r] = @ \o fresh]

\* KVCacheCoordinator.free: the blocks of r, last first.
CoordinatorFree(c, r) ==
  [FreeBlocks(c, Reverse(c.blocks[r])) EXCEPT !.blocks[r] = <<>>, !.num_cached[r] = 0]

\* allocate on a short pool: nothing is drawn and an adopted match is given
\* back, by way of the free queue.
RefuseAllocation(c, r, match) ==
  IF match = <<>> THEN c ELSE CoordinatorFree(Adopt(c, r, match), r)

-----------------------------------------------------------------------------
\* Mutant: the block that is still being written counts as full.
MutantFullBlocksUp(num_computed) == NumBlocksFor(num_computed)

\* The blocks the first num_computed tokens fill.
FullBlocks(num_computed) == num_computed \div BlockSize

\* cache_full_blocks: index the blocks of r at the given positions; a block
\* that carries a hash is left alone.
IndexBlocks(c, r, positions) ==
  LET new == {i \in positions : EnableCaching /\ c.block_hash[c.blocks[r][i]] = NoHash} IN
  [c EXCEPT
     !.block_hash = [b \in Blocks |->
        IF \E i \in new : c.blocks[r][i] = b
        THEN c.hashes[r][CHOOSE i \in new : c.blocks[r][i] = b] ELSE @[b]],
     !.index = @ \cup {<<c.hashes[r][i], c.blocks[r][i]>> : i \in new}]

\* commit and cache_blocks: index the blocks of r that num_computed tokens
\* fill, after the ones already indexed, once all of them are allocated.
Commit(c, r, num_computed) ==
  LET full  == Smaller(FullBlocks(num_computed), Len(c.hashes[r]))
      start == c.num_cached[r]
      ready == full > start /\ Len(c.blocks[r]) >= full
  IN  IF num_computed <= c.committed[r] THEN c
      ELSE [IF ready THEN [IndexBlocks(c, r, start + 1 .. full) EXCEPT !.num_cached[r] = full]
            ELSE c EXCEPT !.committed[r] = num_computed]

\* Mutant: the blocks of r are freed first block first.
MutantFreeForward(c, r) ==
  [FreeBlocks(c, c.blocks[r]) EXCEPT
     !.blocks[r] = <<>>, !.num_cached[r] = 0,
     !.hashes[r] = <<>>, !.committed[r] = 0, !.mapped[r] = 0]

\* Mutant: the cursor of the table writes survives the request's blocks.
MutantFreeKeepsCursor(c, r) ==
  [CoordinatorFree(c, r) EXCEPT !.hashes[r] = <<>>, !.committed[r] = 0]

\* free: give the blocks back and stop tracking r.
Free(c, r) ==
  [CoordinatorFree(c, r) EXCEPT
     !.hashes[r] = <<>>, !.committed[r] = 0, !.mapped[r] = 0]

\* reset: refused while a request holds a block.
MayReset(c) == Len(c.free) = Cardinality(Blocks)

Reset(c) ==
  [c EXCEPT !.block_hash = [b \in Blocks |-> NoHash],
            !.index      = {},
            !.hashes     = [r \in Requests |-> <<>>],
            !.committed  = [r \in Requests |-> 0],
            !.mapped     = [r \in Requests |-> 0]]

-----------------------------------------------------------------------------
\* take_table_writes: the blocks the executor has not been told of, with the
\* index of the first of them; taking them moves the cursor.
TableWrites(c, r) ==
  [start |-> c.mapped[r], blocks |-> SubSeq(c.blocks[r], c.mapped[r] + 1, Len(c.blocks[r]))]

TakeTableWrites(c, r) == [c EXCEPT !.mapped[r] = Len(c.blocks[r])]
=============================================================================
