---------------------------- MODULE BlockLedger ----------------------------
(***************************************************************************)
(* What the paged KV cache promises its users: reference counts, a free    *)
(* pool and a hash index over physical blocks, shared between requests.    *)
(*                                                                         *)
(* This is rapid_llm/engine/block_pool.py together with the single-group   *)
(* KVCacheCoordinator of kv_cache_spec.py, with the eviction ORDER left    *)
(* open (module PrefixCache has the queue): any free block may be handed   *)
(* out, except that a cached one goes only when no hash-less one is left.  *)
(*                                                                         *)
(* The null block of the code is not in Blocks: it has a permanent         *)
(* reference and every accounting path skips it.                           *)
(*                                                                         *)
(* A hash is the value of the chained digest of a token prefix; digests of *)
(* different prefixes are taken to differ.  The variable content records,  *)
(* for each block, the prefix whose K/V its rows hold.                     *)
(***************************************************************************)
EXTENDS Integers, Sequences, FiniteSets

CONSTANTS
  Blocks,      \* the physical blocks, the null block excluded
  Requests,    \* request ids
  Hashes,      \* chained block hashes
  NoHash,      \* block_hash of a block that is not in the index
  Chains       \* the hash chains sequences can have, block by block

Injective(s) == \A i, j \in 1 .. Len(s) : s[i] = s[j] => i = j

ASSUME LedgerAssumption ==
  /\ IsFiniteSet(Requests)
  /\ IsFiniteSet(Blocks)
  /\ NoHash \notin Hashes
  /\ Chains \subseteq Seq(Hashes)
  /\ \A c \in Chains : Injective(c)

VARIABLES
  ref_cnt,     \* requests holding each block
  block_hash,  \* the hash a block is cached under, or NoHash
  free,        \* blocks of the free queue
  index,       \* cached_block_hash_to_block: pairs <<hash, block>>
  held,        \* the blocks of each request, in prefix order
  chain,       \* the hash chain of each request's full token blocks
  computed,    \* leading blocks of each request the model has filled
  content      \* the prefix whose K/V a block holds, or NoHash

vars == <<ref_cnt, block_hash, free, index, held, chain, computed, content>>

Elems(s)   == {s[i] : i \in 1 .. Len(s)}
Holders(b) == {r \in Requests : b \in Elems(held[r])}

\* The index of block b in the list of request r.
Pos(r, b) == CHOOSE i \in 1 .. Len(held[r]) : held[r][i] = b

Init ==
  /\ ref_cnt = [b \in Blocks |-> 0]
  /\ block_hash = [b \in Blocks |-> NoHash]
  /\ free = Blocks
  /\ index = {}
  /\ held = [r \in Requests |-> <<>>]
  /\ chain = [r \in Requests |-> <<>>]
  /\ computed = [r \in Requests |-> 0]
  /\ content = [b \in Blocks |-> NoHash]

-----------------------------------------------------------------------------
\* The blocks a lookup may return for the first k hashes of chain c.
Hits(c, k) ==
  {a \in [1 .. k -> Blocks] : \A i \in 1 .. k : block_hash[a[i]] = c[i]}

\* What get_new_blocks may return: n of the available blocks, the hash-less
\* ones before the cached ones.
Draws(avail, n) ==
  {f \in [1 .. n -> avail] :
     /\ Injective(f)
     /\ (\E b \in Elems(f) : block_hash[b] # NoHash)
          => {b \in avail : block_hash[b] = NoHash} \subseteq Elems(f)}

\* _maybe_evict_cached_block for every block handed out.
Evict(fresh) ==
  /\ block_hash' = [b \in Blocks |-> IF b \in Elems(fresh) THEN NoHash ELSE block_hash[b]]
  /\ index' = {e \in index : e[2] \notin Elems(fresh)}

\* Mutant: the fresh blocks are drawn before the adopted ones are referenced,
\* so a hit that sits free may be handed out as a fresh block as well.
MutantAdmitDrawFirst(r, c, k, n) ==
  /\ held[r] = <<>>
  /\ \E adopted \in Hits(c, k), fresh \in Draws(free, n) :
       /\ ref_cnt' = [b \in Blocks |->
            ref_cnt[b] + IF b \in Elems(adopted) \cup Elems(fresh) THEN 1 ELSE 0]
       /\ free' = free \ (Elems(adopted) \cup Elems(fresh))
       /\ Evict(fresh)
       /\ held' = [held EXCEPT ![r] = adopted \o fresh]
  /\ chain' = [chain EXCEPT ![r] = c]
  /\ computed' = [computed EXCEPT ![r] = k]
  /\ UNCHANGED content

\* Admission: track the chain c, adopt the first k of its blocks from the
\* index (touch) and then draw n fresh blocks.
Admit(r, c, k, n) ==
  /\ held[r] = <<>>
  /\ \E adopted \in Hits(c, k) :
     \E fresh \in Draws(free \ Elems(adopted), n) :
       /\ ref_cnt' = [b \in Blocks |->
            ref_cnt[b] + IF b \in Elems(adopted) \cup Elems(fresh) THEN 1 ELSE 0]
       /\ free' = free \ (Elems(adopted) \cup Elems(fresh))
       /\ Evict(fresh)
       /\ held' = [held EXCEPT ![r] = adopted \o fresh]
  /\ chain' = [chain EXCEPT ![r] = c]
  /\ computed' = [computed EXCEPT ![r] = k]
  /\ UNCHANGED content

\* allocate without a match: a request that holds blocks gets n more.
Grow(r, n) ==
  /\ held[r] # <<>>
  /\ \E fresh \in Draws(free, n) :
       /\ ref_cnt' = [b \in Blocks |->
                        ref_cnt[b] + IF b \in Elems(fresh) THEN 1 ELSE 0]
       /\ free' = free \ Elems(fresh)
       /\ Evict(fresh)
       /\ held' = [held EXCEPT ![r] = held[r] \o fresh]
  /\ UNCHANGED <<chain, computed, content>>

\* The sequence completes one more block of tokens.
Extend(r, c) ==
  /\ held[r] # <<>>
  /\ Len(c) = Len(chain[r]) + 1
  /\ \A i \in 1 .. Len(chain[r]) : c[i] = chain[r][i]
  /\ chain' = [chain EXCEPT ![r] = c]
  /\ UNCHANGED <<ref_cnt, block_hash, free, index, held, computed, content>>

\* The model writes rows of the first block it has not filled yet: some of
\* them (the old content is gone), or the last of them (the block is full).
Execute(r, full) ==
  LET i == computed[r] + 1 IN
  /\ i <= Len(held[r])
  /\ full => i <= Len(chain[r])
  /\ content' = [content EXCEPT ![held[r][i]] = IF full THEN chain[r][i] ELSE NoHash]
  /\ computed' = [computed EXCEPT ![r] = IF full THEN i ELSE @]
  /\ UNCHANGED <<ref_cnt, block_hash, free, index, held, chain>>

\* The blocks of r among its first n that are not in the index yet.
Unindexed(r, n) == {b \in Elems(held[r]) : Pos(r, b) <= n /\ block_hash[b] = NoHash}

\* Mutant: blocks are indexed when their pass is planned, not executed.
MutantCommitPlanned(r, n) ==
  /\ n <= Len(held[r])
  /\ n <= Len(chain[r])
  /\ block_hash' = [b \in Blocks |->
       IF b \in Unindexed(r, n) THEN chain[r][Pos(r, b)] ELSE block_hash[b]]
  /\ index' = index \cup {<<chain[r][Pos(r, b)], b>> : b \in Unindexed(r, n)}
  /\ UNCHANGED <<ref_cnt, free, held, chain, computed, content>>

\* cache_blocks / cache_full_blocks: index the first n blocks, which the
\* caller has executed; a block that carries a hash is left alone.
Commit(r, n) ==
  /\ n <= computed[r]
  /\ block_hash' = [b \in Blocks |->
       IF b \in Unindexed(r, n) THEN chain[r][Pos(r, b)] ELSE block_hash[b]]
  /\ index' = index \cup {<<chain[r][Pos(r, b)], b>> : b \in Unindexed(r, n)}
  /\ UNCHANGED <<ref_cnt, free, held, chain, computed, content>>

\* Mutant: every block of the request goes back to the free queue, the ones
\* another request still holds too.
MutantFreeShared(r) ==
  /\ ref_cnt' = [b \in Blocks |-> ref_cnt[b] - IF b \in Elems(held[r]) THEN 1 ELSE 0]
  /\ free' = free \cup Elems(held[r])
  /\ held' = [held EXCEPT ![r] = <<>>]
  /\ chain' = [chain EXCEPT ![r] = <<>>]
  /\ computed' = [computed EXCEPT ![r] = 0]
  /\ UNCHANGED <<block_hash, index, content>>

\* free: one reference less per block; those at zero become free.
Free(r) ==
  /\ ref_cnt' = [b \in Blocks |-> ref_cnt[b] - IF b \in Elems(held[r]) THEN 1 ELSE 0]
  /\ free' = free \cup {b \in Elems(held[r]) : ref_cnt[b] = 1}
  /\ held' = [held EXCEPT ![r] = <<>>]
  /\ chain' = [chain EXCEPT ![r] = <<>>]
  /\ computed' = [computed EXCEPT ![r] = 0]
  /\ UNCHANGED <<block_hash, index, content>>

\* reset_prefix_cache: refused while a request holds a block.
Reset ==
  /\ free = Blocks
  /\ block_hash' = [b \in Blocks |-> NoHash]
  /\ index' = {}
  /\ UNCHANGED <<ref_cnt, free, held, chain, computed, content>>

Next ==
  \/ \E r \in Requests, c \in Chains, n \in 0 .. Cardinality(Blocks) :
       \E k \in 0 .. Len(c) : Admit(r, c, k, n)
  \/ \E r \in Requests, n \in 0 .. Cardinality(Blocks) : Grow(r, n)
  \/ \E r \in Requests, c \in Chains : Extend(r, c)
  \/ \E r \in Requests, full \in BOOLEAN : Execute(r, full)
  \/ \E r \in Requests : \E n \in 0 .. Len(held[r]) : Commit(r, n)
  \/ \E r \in Requests : Free(r)
  \/ Reset

Spec == Init /\ [][Next]_vars

-----------------------------------------------------------------------------
\* Every variable keeps its type; a reference count never goes below zero.
TypeOK ==
  /\ ref_cnt \in [Blocks -> Nat]
  /\ block_hash \in [Blocks -> Hashes \cup {NoHash}]
  /\ free \subseteq Blocks
  /\ index \subseteq Hashes \X Blocks
  /\ held \in [Requests -> Seq(Blocks)]
  /\ chain \in [Requests -> Chains \cup {<<>>}]
  /\ computed \in [Requests -> Nat]
  /\ content \in [Blocks -> Hashes \cup {NoHash}]

\* A block's reference count is the number of requests whose list names it,
\* and the free queue is exactly the blocks nobody references: no block is
\* leaked by a finished request and none is free while somebody reads it.
RefCountsAreHolders ==
  /\ \A b \in Blocks : ref_cnt[b] = Cardinality(Holders(b))
  /\ free = {b \in Blocks : ref_cnt[b] = 0}

\* The index and the blocks' own hash fields say the same thing.
IndexAgrees ==
  \A b \in Blocks, h \in Hashes : <<h, b>> \in index <=> block_hash[b] = h

\* Two requests share a block only while it is cached, so a block that is
\* still being written has one holder.
SharedBlocksAreCached ==
  \A r, s \in Requests : \A b \in Elems(held[r]) \cap Elems(held[s]) :
    r # s => block_hash[b] # NoHash

\* A block advertised by the index holds the K/V of the prefix it is
\* advertised for, through evictions, reuse and rewrites.
CachedBlocksAreWritten ==
  \A b \in Blocks : block_hash[b] # NoHash => content[b] = block_hash[b]

\* Every block a request counts as computed holds the K/V of that request's
\* own prefix: nobody's eviction, commit or write ever changes it.
ReadsOwnPrefix ==
  \A r \in Requests :
    /\ computed[r] <= Len(held[r])
    /\ computed[r] <= Len(chain[r])
    /\ \A i \in 1 .. computed[r] : content[held[r][i]] = chain[r][i]

\* No request's list names a block twice.
HeldOnce == \A r \in Requests : Injective(held[r])

\* A cached block in a request's list is one it counts as computed, cached
\* under the hash of that very position: the request never writes to it.
CachedInPlace ==
  \A r \in Requests : \A i \in 1 .. Len(held[r]) :
    block_hash[held[r][i]] # NoHash =>
      /\ i <= computed[r]
      /\ block_hash[held[r][i]] = chain[r][i]

\* The inductive invariant (module BlockLedger_proofs).
IInv ==
  /\ TypeOK
  /\ RefCountsAreHolders
  /\ IndexAgrees
  /\ SharedBlocksAreCached
  /\ CachedBlocksAreWritten
  /\ ReadsOwnPrefix
  /\ HeldOnce
  /\ CachedInPlace
=============================================================================
