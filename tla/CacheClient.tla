---------------------------- MODULE CacheClient ----------------------------
(***************************************************************************)
(* The KV allocator under the calls the planner may make, in any order:    *)
(* admissions of any prompt, chunked growth, generated tokens, late        *)
(* commits, frees and resets.  The calls follow the contract the code      *)
(* states (a commit names executed tokens only); what the planner really   *)
(* does is module BatchPlanner.                                            *)
(***************************************************************************)
EXTENDS PrefixCache, FiniteSets

CONSTANTS
  Prompts,     \* the prompts clients submit
  Generated,   \* the tokens the model may sample
  MaxSeqLen    \* bound on prompt and output together

ASSUME ClientAssumption ==
  /\ MaxSeqLen \in Nat
  /\ \A p \in Prompts : p \in Seq(Elements(p)) /\ Len(p) \in 1 .. MaxSeqLen

Token == (UNION {Elements(p) : p \in Prompts}) \cup Generated

VARIABLES
  cache,       \* the allocator (module PrefixCache)
  tokens,      \* tokens of each request, prompt and output; <<>> when absent
  executed,    \* leading tokens of each request whose K/V is written
  content      \* the prefix whose K/V fills a block, or NoHash

vars == <<cache, tokens, executed, content>>

Init ==
  /\ \E queue \in SetToSeqs(Blocks) : cache = NewCache(queue)
  /\ tokens = [r \in Requests |-> <<>>]
  /\ executed = [r \in Requests |-> 0]
  /\ content = [b \in Blocks |-> NoHash]

\* An admission: track, look up, allocate through the first chunk.
Admit(r, prompt) ==
  LET tracked == Track(cache, r, prompt) IN
  /\ tokens[r] = <<>>
  /\ \E match \in Lookup(tracked, r, Len(prompt)) :
     LET hit == Len(match) * BlockSize IN
     \E chunk \in 1 .. Len(prompt) - hit :
       /\ Fits(tracked, r, hit + chunk, match)
       /\ cache' = Allocate(tracked, r, hit + chunk, match)
       /\ executed' = [executed EXCEPT ![r] = hit]
  /\ tokens' = [tokens EXCEPT ![r] = prompt]
  /\ UNCHANGED content

\* An admission the pool refuses: the references taken are given back and the
\* chain is dropped.
Refuse(r, prompt) ==
  LET tracked == Track(cache, r, prompt) IN
  /\ tokens[r] = <<>>
  /\ \E match \in Lookup(tracked, r, Len(prompt)) :
       /\ ~Fits(tracked, r, Len(prompt), match)
       /\ cache' = Free(RefuseAllocation(tracked, r, match), r)
  /\ UNCHANGED <<tokens, executed, content>>

\* Growth by one block: the next chunk or the next decode row.
Grow(r) ==
  LET reach == Len(cache.blocks[r]) * BlockSize + 1 IN
  /\ tokens[r] # <<>>
  /\ reach <= Len(tokens[r]) + 1
  /\ MayAdopt(cache, r, <<>>)
  /\ Fits(cache, r, reach, <<>>)
  /\ cache' = Allocate(cache, r, reach, <<>>)
  /\ UNCHANGED <<tokens, executed, content>>

\* The model writes the K/V row of the next token (external: the executor).
Execute(r) ==
  LET p == executed[r] + 1 IN
  /\ p <= Len(tokens[r])
  /\ NumBlocksFor(p) <= Len(cache.blocks[r])
  /\ executed' = [executed EXCEPT ![r] = p]
  /\ content' = [content EXCEPT ![cache.blocks[r][NumBlocksFor(p)]] =
                   IF p % BlockSize = 0 THEN SubSeq(tokens[r], 1, p) ELSE NoHash]
  /\ UNCHANGED <<cache, tokens>>

\* The model samples a token after the last one ran (external).
Generate(r, t) ==
  /\ tokens[r] # <<>>
  /\ executed[r] = Len(tokens[r])
  /\ Len(tokens[r]) < MaxSeqLen
  /\ tokens' = [tokens EXCEPT ![r] = Append(@, t)]
  /\ UNCHANGED <<cache, executed, content>>

\* observe and commit over executed tokens.
CommitExecuted(r) ==
  /\ tokens[r] # <<>>
  /\ cache' = Commit(Track(cache, r, tokens[r]), r, executed[r])
  /\ UNCHANGED <<tokens, executed, content>>

Release(r) ==
  /\ tokens[r] # <<>>
  /\ cache' = Free(cache, r)
  /\ tokens' = [tokens EXCEPT ![r] = <<>>]
  /\ executed' = [executed EXCEPT ![r] = 0]
  /\ UNCHANGED content

ResetCache ==
  /\ MayReset(cache)
  /\ cache' = Reset(cache)
  /\ UNCHANGED <<tokens, executed, content>>

Next ==
  \/ \E r \in Requests, prompt \in Prompts : Admit(r, prompt) \/ Refuse(r, prompt)
  \/ \E r \in Requests : Grow(r) \/ Execute(r) \/ CommitExecuted(r) \/ Release(r)
  \/ \E r \in Requests, t \in Generated : Generate(r, t)
  \/ ResetCache

Spec == Init /\ [][Next]_vars

-----------------------------------------------------------------------------
\* Every field of the allocator keeps its type: reference counts stay between
\* zero and the number of requests, cursors stay within the lists they index.
TypeOK ==
  /\ cache.ref_cnt \in [Blocks -> 0 .. Cardinality(Requests)]
  /\ Elements(cache.free) \subseteq Blocks
  /\ \A r \in Requests :
       /\ Elements(cache.blocks[r]) \subseteq Blocks
       /\ executed[r] \in 0 .. Len(tokens[r])
       /\ cache.num_cached[r] \in 0 .. Len(cache.blocks[r])
       /\ cache.mapped[r] \in 0 .. Len(cache.blocks[r])

\* What the variables of the ledger are here.
TokenSeqs == UNION {[1 .. n -> Token] : n \in 1 .. MaxSeqLen}
Ledger == INSTANCE BlockLedger WITH
  Hashes     <- TokenSeqs,
  Chains     <- {ExtendHashes(<<>>, s) : s \in TokenSeqs},
  ref_cnt    <- cache.ref_cnt,
  block_hash <- cache.block_hash,
  free       <- Elements(cache.free),
  index      <- cache.index,
  held       <- cache.blocks,
  chain      <- [r \in Requests |-> ExtendHashes(<<>>, tokens[r])],
  computed   <- [r \in Requests |-> executed[r] \div BlockSize]

\* The allocator does what the abstract ledger allows.  In particular the
\* queue hands out cached blocks only when no hash-less one is free, a late
\* commit indexes only what was written, and no call touches another
\* request's blocks.
ImplementsLedger == Ledger!Spec

\* A cached block can be reached: every shorter prefix of a cached prefix is
\* cached too.  Freeing tail first is what keeps it so, as pressure then eats
\* a chain from its end.
NoOrphanSuffix ==
  \A e \in cache.index :
    Len(e[1]) > BlockSize =>
      Cached(cache, SubSeq(e[1], 1, Len(e[1]) - BlockSize)) # {}
=============================================================================
