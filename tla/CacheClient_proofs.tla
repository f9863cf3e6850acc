------------------------ MODULE CacheClient_proofs ------------------------
(***************************************************************************)
(* The allocator, under any order of the calls its contract allows,        *)
(* implements the block ledger and never orphans a cached prefix, for      *)
(* every number of blocks and requests, every block size and every set of  *)
(* prompts, with prefix caching on or off.                                 *)
(***************************************************************************)
EXTENDS CacheClient, CacheLemmas

-----------------------------------------------------------------------------
(* The inductive invariant. *)

\* What a request with tokens t, e of them executed, has in the cache.
Served(c, r, t, e) ==
  /\ Len(t) <= MaxSeqLen /\ e <= Len(t)
  /\ t = <<>> <=> c.blocks[r] = <<>>
  /\ ChainOf(c.hashes[r], t)
  /\ c.mapped[r] = 0

Inv ==
  /\ InOrder(cache, Token) /\ Neat(cache)
  /\ tokens \in [Requests -> Seq(Token)] /\ executed \in [Requests -> Nat]
  /\ \A r \in Requests : Served(cache, r, tokens[r], executed[r])

\* The chain and the filled blocks of the ledger.
LedgerChain == [r \in Requests |-> ExtendHashes(<<>>, tokens[r])]
Filled == [r \in Requests |-> executed[r] \div BlockSize]

LEMMA InTokenSeqs ==
  ASSUME NEW t \in Seq(Token), t # <<>>, Len(t) <= MaxSeqLen
  PROVE  t \in TokenSeqs
<1>1. Len(t) \in 1 .. MaxSeqLen /\ t \in [1 .. Len(t) -> Token]
  BY ClientAssumption
<1> QED
  BY <1>1, Zenon DEF TokenSeqs

LEMMA ExecuteStep ==
  ASSUME Inv, NEW r \in Requests, Execute(r)
  PROVE  Inv' /\ Ledger!Next
<1> DEFINE e    == executed[r]
           i    == e \div BlockSize + 1
           full == (e + 1) % BlockSize = 0
           own  == cache.blocks[r]
<1>1. /\ InOrder(cache, Token) /\ Neat(cache)
      /\ tokens \in [Requests -> Seq(Token)] /\ executed \in [Requests -> Nat]
      /\ \A p \in Requests : Served(cache, p, tokens[p], executed[p])
  BY DEF Inv
<1>2. /\ e + 1 <= Len(tokens[r]) /\ NumBlocksFor(e + 1) <= Len(own)
      /\ executed' = [executed EXCEPT ![r] = e + 1]
      /\ content' = [content EXCEPT ![own[NumBlocksFor(e + 1)]] =
                       IF full THEN SubSeq(tokens[r], 1, e + 1) ELSE NoHash]
      /\ cache' = cache /\ tokens' = tokens
  BY DEF Execute
<1>3. e \in Nat /\ tokens[r] \in Seq(Token)
  BY <1>1
<1>4. /\ e \div BlockSize \in Nat /\ NumBlocksFor(e + 1) = i
      /\ full => (e + 1) \div BlockSize = i /\ e + 1 = i * BlockSize
      /\ ~ full => (e + 1) \div BlockSize = e \div BlockSize
  BY <1>3, NextRow
<1>5. Inv'
  <2>1. executed' \in [Requests -> Nat] /\ executed'[r] = e + 1
        /\ \A p \in Requests : p # r => executed'[p] = executed[p]
    BY <1>1, <1>2
  <2>2. ASSUME NEW p \in Requests PROVE Served(cache, p, tokens[p], executed'[p])
    BY <1>1, <1>2, <2>1 DEF Served
  <2> QED
    BY <1>1, <1>2, <2>1, <2>2 DEF Inv
<1>6. ExtendHashes(<<>>, tokens[r]) = Canon(tokens[r]) /\ Len(Canon(tokens[r])) = Len(tokens[r]) \div BlockSize
  BY <1>3, CanonIsChain
<1>7. ASSUME full
      PROVE  i <= Len(LedgerChain[r]) /\ LedgerChain[r][i] = SubSeq(tokens[r], 1, e + 1)
  <2>1. LedgerChain[r] = Canon(tokens[r])
    BY <1>6 DEF LedgerChain
  <2>2. i * BlockSize <= Len(tokens[r]) /\ i \in Nat /\ Len(tokens[r]) \in Nat /\ 1 <= i
    BY <1>2, <1>3, <1>4, <1>7
  <2>3. i <= Len(tokens[r]) \div BlockSize
    BY <2>2, WithinBlocks
  <2>4. ChainOf(Canon(tokens[r]), tokens[r])
    BY <1>3, CanonIsChain
  <2>5. Canon(tokens[r])[i] = SubSeq(tokens[r], 1, i * BlockSize)
    BY <1>6, <2>2, <2>3, <2>4 DEF ChainOf
  <2> QED
    BY <1>4, <1>6, <1>7, <2>1, <2>3, <2>5
<1>8. Filled' = [Filled EXCEPT ![r] = IF full THEN i ELSE Filled[r]]
  <2>1. /\ executed'[r] = e + 1
        /\ \A p \in Requests : p # r => executed'[p] = executed[p]
    BY <1>1, <1>2
  <2>2. (e + 1) \div BlockSize = IF full THEN i ELSE e \div BlockSize
    BY <1>4
  <2> HIDE DEF full, i
  <2> QED
    BY <2>1, <2>2 DEF Filled
<1>9. \E f \in BOOLEAN : Ledger!Execute(r, f)
  <2>1. ASSUME full PROVE Ledger!Execute(r, TRUE)
    BY <1>2, <1>4, <1>7, <1>8, <2>1 DEF Ledger!Execute, LedgerChain, Filled
  <2>2. ASSUME ~ full PROVE Ledger!Execute(r, FALSE)
    BY <1>2, <1>4, <1>7, <1>8, <2>2 DEF Ledger!Execute, LedgerChain, Filled
  <2> QED
    BY <2>1, <2>2, Zenon
<1> QED
  BY <1>5, <1>9, Zenon DEF Ledger!Next

LEMMA GenerateStep ==
  ASSUME Inv, NEW r \in Requests, NEW t \in Generated, Generate(r, t)
  PROVE  Inv' /\ [Ledger!Next]_(Ledger!vars)
<1> DEFINE old == tokens[r]
           n   == Len(old)
           w   == Append(old, t)
<1>1. /\ InOrder(cache, Token) /\ Neat(cache)
      /\ tokens \in [Requests -> Seq(Token)] /\ executed \in [Requests -> Nat]
      /\ \A p \in Requests : Served(cache, p, tokens[p], executed[p])
  BY DEF Inv
<1>2. /\ old # <<>> /\ executed[r] = n /\ n < MaxSeqLen
      /\ tokens' = [tokens EXCEPT ![r] = w]
      /\ cache' = cache /\ executed' = executed /\ content' = content
  BY DEF Generate
<1>3. /\ old \in Seq(Token) /\ n \in Nat /\ t \in Token
      /\ w \in Seq(Token) /\ Len(w) = n + 1 /\ w # <<>>
  <2>1. old \in Seq(Token) /\ t \in Token
    <3>1. t \in Token
      BY Zenon DEF Token
    <3> QED
      BY <1>1, <3>1
  <2> HIDE DEF old
  <2> QED
    BY <2>1
<1>4. /\ Served(cache, r, old, executed[r]) /\ cache.blocks[r] # <<>>
      /\ cache.hashes[r] \in Seq(Seq(Token)) /\ Len(cache.hashes[r]) \in Nat
  <2>1. Served(cache, r, old, executed[r])
    BY <1>1, Zenon
  <2>2. cache.hashes \in [Requests -> Seq(Seq(Token))]
    BY <1>1 DEF InOrder, Caches
  <2> QED
    BY <1>2, <2>1, <2>2 DEF Served
<1> HIDE DEF n, w, old
<1>5. /\ tokens' \in [Requests -> Seq(Token)] /\ tokens'[r] = w
      /\ \A p \in Requests : p # r => tokens'[p] = tokens[p]
  BY <1>1, <1>2, <1>3
<1>6. Served(cache, r, w, executed[r])
  <2>1. ChainOf(cache.hashes[r], w)
    BY <1>3, <1>4, AppendChain DEF Served, w
  <2> QED
    BY ClientAssumption, <1>2, <1>3, <1>4, <2>1 DEF Served
<1>7. Inv'
  <2>1. \A p \in Requests : Served(cache, p, tokens'[p], executed[p])
    BY <1>1, <1>5, <1>6
  <2> QED
    BY <1>1, <1>2, <1>5, <2>1 DEF Inv
<1> DEFINE x == Canon(old)
           y == Canon(w)
<1>8. /\ x = ExtendHashes(<<>>, old) /\ Len(x) = n \div BlockSize /\ ChainOf(x, old)
      /\ y = ExtendHashes(<<>>, w) /\ Len(y) = (n + 1) \div BlockSize /\ ChainOf(y, w)
      /\ x \in Seq(Seq(Token)) /\ y \in Seq(Seq(Token))
  BY <1>3, CanonIsChain DEF n
<1> HIDE DEF x, y
<1>9. ChainOf(x, w) /\ Len(x) \in Nat /\ x = [j \in 1 .. Len(x) |-> x[j]]
  BY <1>3, <1>8, AppendChain DEF w
<1>10. /\ (LedgerChain)' = [LedgerChain EXCEPT ![r] = y] /\ LedgerChain[r] = x
       /\ LedgerChain \in [Requests -> {LedgerChain[p] : p \in Requests}]
  BY <1>5, <1>8 DEF LedgerChain, old
<1>11. CASE (n + 1) % BlockSize = 0
  <2>1. Len(y) = Len(x) + 1
    BY <1>3, <1>8, <1>11, NextRow
  <2>2. \A i \in 1 .. Len(x) : y[i] = x[i]
    <3>1. \A i \in 1 .. Len(x) : x[i] = SubSeq(w, 1, i * BlockSize)
      BY <1>9, Zenon DEF ChainOf
    <3>2. \A i \in 1 .. Len(y) : y[i] = SubSeq(w, 1, i * BlockSize)
      BY <1>8, Zenon DEF ChainOf
    <3>3. \A i \in 1 .. Len(x) : i \in 1 .. Len(y)
      BY <1>9, <2>1
    <3> QED
      BY <3>1, <3>2, <3>3, Zenon
  <2>3. w \in TokenSeqs
    BY ClientAssumption, <1>2, <1>3, InTokenSeqs
  <2>4. PICK c \in {ExtendHashes(<<>>, s) : s \in TokenSeqs} : c = y
    BY <1>8, <2>3
  <2>5. Ledger!Extend(r, c)
    BY <1>2, <1>4, <1>10, <2>1, <2>2, <2>4 DEF Ledger!Extend, LedgerChain
  <2> QED
    BY <1>7, <2>5, Zenon DEF Ledger!Next
<1>12. CASE (n + 1) % BlockSize # 0
  <2>1. Len(x) = Len(w) \div BlockSize
    BY <1>3, <1>8, <1>12, NextRow
  <2>2. x = y
    BY <1>3, <1>9, <2>1, CanonAt DEF y
  <2>3. (LedgerChain)' = LedgerChain
    BY <1>10, <2>2
  <2>4. UNCHANGED Ledger!vars
    BY <1>2, <2>3 DEF Ledger!vars, LedgerChain
  <2> QED
    BY <1>7, <2>4
<1> QED
  BY <1>11, <1>12

LEMMA ReleaseStep ==
  ASSUME Inv, NEW r \in Requests, Release(r)
  PROVE  Inv' /\ Ledger!Next
<1> DEFINE own == cache.blocks[r]
<1>1. /\ InOrder(cache, Token) /\ Neat(cache)
      /\ tokens \in [Requests -> Seq(Token)] /\ executed \in [Requests -> Nat]
      /\ \A p \in Requests : Served(cache, p, tokens[p], executed[p])
  BY DEF Inv
<1>2. /\ cache' = Free(cache, r) /\ content' = content
      /\ tokens' = [tokens EXCEPT ![r] = <<>>] /\ executed' = [executed EXCEPT ![r] = 0]
  BY DEF Release
<1>3. InOrder(cache', Token) /\ Neat(cache') /\ HasFreed(cache, cache', r)
  BY <1>1, <1>2, FreeTidy
<1>4. /\ tokens' \in [Requests -> Seq(Token)] /\ executed' \in [Requests -> Nat]
      /\ tokens'[r] = <<>> /\ executed'[r] = 0
      /\ \A p \in Requests : p # r => tokens'[p] = tokens[p] /\ executed'[p] = executed[p]
  BY <1>1, <1>2
<1>5. /\ cache'.blocks[r] = <<>> /\ cache'.hashes[r] = <<>> /\ cache'.mapped[r] = 0
      /\ \A p \in Requests : p # r => /\ cache'.blocks[p] = cache.blocks[p]
                                      /\ cache'.hashes[p] = cache.hashes[p] /\ cache'.mapped[p] = cache.mapped[p]
  BY <1>3, Zenon DEF HasFreed, Only
<1>6. \A p \in Requests : Served(cache', p, tokens'[p], executed'[p])
  <2>1. Served(cache', r, <<>>, 0)
    <3>1. Len(<<>>) = 0 /\ 0 \div BlockSize = 0
      BY CacheAssumption, QuotientIs
    <3>2. ChainOf(<<>>, <<>>)
      BY <3>1 DEF ChainOf
    <3> QED
      BY ClientAssumption, <1>5, <3>1, <3>2 DEF Served
  <2>2. ASSUME NEW p \in Requests, p # r PROVE Served(cache', p, tokens'[p], executed'[p])
    BY <1>1, <1>4, <1>5, <2>2 DEF Served
  <2> QED
    BY <1>4, <2>1, <2>2
<1>7. Inv'
  BY <1>3, <1>4, <1>6 DEF Inv
<1>8. cache'.blocks = [cache.blocks EXCEPT ![r] = <<>>]
  <2>1. cache.blocks \in [Requests -> Seq(Blocks)] /\ cache'.blocks \in [Requests -> Seq(Blocks)]
    BY <1>1, <1>3, CacheTypes
  <2>2. Only(cache.blocks, cache'.blocks, r, <<>>)
    BY <1>3, Zenon DEF HasFreed
  <2> QED
    BY <2>1, <2>2 DEF Only
<1>9. /\ cache'.ref_cnt = [b \in Blocks |-> cache.ref_cnt[b] - IF b \in Elements(own) THEN 1 ELSE 0]
      /\ Elements(cache'.free) = Elements(cache.free) \cup {b \in Elements(own) : cache.ref_cnt[b] = 1}
  <2>1. \A b \in Blocks : cache'.ref_cnt[b] = cache.ref_cnt[b] - IF b \in Elements(own) THEN 1 ELSE 0
    BY <1>3, Zenon DEF HasFreed
  <2>2. cache'.ref_cnt \in [Blocks -> Nat] /\ cache.ref_cnt \in [Blocks -> Nat]
    BY <1>1, <1>3, CacheTypes
  <2>3. /\ Elements(cache.free) = {b \in Blocks : cache.ref_cnt[b] = 0}
        /\ Elements(cache'.free) = {b \in Blocks : cache'.ref_cnt[b] = 0}
    BY <1>1, <1>3, FreeSet
  <2>4. \A b \in Elements(own) : b \in Blocks /\ cache.ref_cnt[b] # 0
    BY <1>1, HeldCounts
  <2> HIDE DEF own
  <2>5. \A b \in Blocks : cache'.ref_cnt[b] = 0 <=>
          cache.ref_cnt[b] = 0 \/ (b \in Elements(own) /\ cache.ref_cnt[b] = 1)
    BY <2>1, <2>2, <2>4
  <2>6. Elements(cache'.free) = Elements(cache.free) \cup {b \in Elements(own) : cache.ref_cnt[b] = 1}
    BY <2>3, <2>4, <2>5, Zenon
  <2> QED
    BY <2>1, <2>2, <2>6
<1>10. /\ (LedgerChain)' = [LedgerChain EXCEPT ![r] = <<>>]
       /\ (Filled)' = [Filled EXCEPT ![r] = 0]
  <2>1. ExtendHashes(<<>>, <<>>) = <<>>
    <3>1. Canon(<<>>) = ExtendHashes(<<>>, <<>>) /\ Canon(<<>>) \in Seq(Seq(Token)) /\ Len(Canon(<<>>)) = Len(<<>>) \div BlockSize
      BY CanonIsChain, <<>> \in Seq(Token)
    <3>2. Len(<<>>) = 0 /\ 0 \div BlockSize = 0
      BY CacheAssumption, QuotientIs
    <3> QED
      BY <3>1, <3>2
  <2>2. 0 \div BlockSize = 0
    BY CacheAssumption, QuotientIs
  <2>3. (LedgerChain)' = [LedgerChain EXCEPT ![r] = <<>>]
    BY <1>4, <2>1 DEF LedgerChain
  <2>4. (Filled)' = [Filled EXCEPT ![r] = 0]
    BY <1>4, <2>2 DEF Filled
  <2> QED
    BY <2>3, <2>4
<1>11. cache'.block_hash = cache.block_hash /\ cache'.index = cache.index
  BY <1>3, Zenon DEF HasFreed
<1>12. Ledger!Free(r)
  BY <1>2, <1>8, <1>9, <1>10, <1>11 DEF Ledger!Free, Ledger!Elems, Elements, LedgerChain, Filled
<1> QED
  BY <1>7, <1>12, Zenon DEF Ledger!Next

LEMMA ResetStep ==
  ASSUME Inv, ResetCache
  PROVE  Inv' /\ Ledger!Next
<1>1. /\ InOrder(cache, Token) /\ Neat(cache)
      /\ tokens \in [Requests -> Seq(Token)] /\ executed \in [Requests -> Nat]
      /\ \A p \in Requests : Served(cache, p, tokens[p], executed[p])
  BY DEF Inv
<1>2. /\ cache' = Reset(cache) /\ MayReset(cache)
      /\ tokens' = tokens /\ executed' = executed /\ content' = content
  BY DEF ResetCache
<1>3. InOrder(cache', Token) /\ HasReset(cache, cache')
  BY <1>1, <1>2, ResetEffect
<1>4. Elements(cache.free) = Blocks /\ \A b \in Blocks : cache.ref_cnt[b] = 0
  <2>1. ListOf(cache.free, {b \in Blocks : cache.ref_cnt[b] = 0})
    BY <1>1, Zenon DEF InOrder, PoolInOrder
  <2>2. {b \in Blocks : cache.ref_cnt[b] = 0} = Blocks
    BY <1>2, <2>1, ListCount DEF MayReset
  <2> QED
    BY <1>1, <2>2, FreeSet
<1>5. ASSUME NEW p \in Requests
      PROVE  cache.blocks[p] = <<>> /\ cache.num_cached[p] <= 0
  <2>1. cache.blocks[p] \in Seq(Blocks)
    BY <1>1, CacheTypes
  <2>2. Len(cache.blocks[p]) = 0
    <3>1. \A i \in 1 .. Len(cache.blocks[p]) : FALSE
      BY <1>1, <1>4, HeldCounts
    <3> QED
      BY <2>1, <3>1
  <2>3. cache.num_cached[p] <= Len(cache.blocks[p])
    BY <1>1, Zenon DEF Neat, Tidy, CachedInFront
  <2> QED
    BY <2>1, <2>2, <2>3
<1>6. /\ cache'.ref_cnt = cache.ref_cnt /\ cache'.free = cache.free /\ cache'.blocks = cache.blocks
      /\ cache'.num_cached = cache.num_cached /\ cache'.index = {}
      /\ cache'.block_hash = [b \in Blocks |-> NoHash] /\ cache'.hashes = [p \in Requests |-> <<>>]
      /\ cache'.mapped = [p \in Requests |-> 0]
  BY <1>3, Zenon DEF HasReset, SamePool
<1>7. Neat(cache')
  <2>1. \A i \in 1 .. Len(cache'.free) : cache'.free[i] \in Blocks
    BY <1>3, CacheTypes
  <2> QED
    BY <1>5, <1>6, <2>1, BlankTidy DEF Neat, Anchored
<1>8. \A p \in Requests : Served(cache', p, tokens[p], executed[p])
  <2> SUFFICES ASSUME NEW p \in Requests PROVE Served(cache', p, tokens[p], executed[p])
    OBVIOUS
  <2>1. Served(cache, p, tokens[p], executed[p]) /\ tokens[p] \in Seq(Token)
    BY <1>1
  <2>2. ChainOf(<<>>, tokens[p])
    <3>1. Len(tokens[p]) \div BlockSize \in Nat
      <4>1. Len(tokens[p]) \in Nat
        BY <2>1
      <4> QED
        BY <4>1, Quotient, Zenon
    <3> QED
      BY <3>1 DEF ChainOf
  <2> QED
    BY <1>6, <2>1, <2>2 DEF Served
<1>9. Inv'
  BY <1>1, <1>2, <1>3, <1>7, <1>8 DEF Inv
<1>10. Ledger!Reset
  BY <1>2, <1>4, <1>6 DEF Ledger!Reset
<1> QED
  BY <1>9, <1>10, Zenon DEF Ledger!Next

\* The place of a block in a list that has it once.
LEMMA PosIs ==
  ASSUME NEW r \in Requests, cache.blocks[r] \in Seq(Blocks), IsInjective(cache.blocks[r]),
         NEW i \in 1 .. Len(cache.blocks[r])
  PROVE  Ledger!Pos(r, cache.blocks[r][i]) = i
<1>1. \A j \in 1 .. Len(cache.blocks[r]) : cache.blocks[r][j] = cache.blocks[r][i] => j = i
  BY DEF IsInjective
<1> QED
  BY <1>1, Zenon DEF Ledger!Pos

LEMMA CommitStep ==
  ASSUME Inv, NEW r \in Requests, CommitExecuted(r)
  PROVE  Inv' /\ [Ledger!Next]_(Ledger!vars)
<1> DEFINE own == cache.blocks[r]
           t   == tokens[r]
           e   == executed[r]
           T   == Track(cache, r, t)
<1>1. /\ InOrder(cache, Token) /\ Neat(cache)
      /\ tokens \in [Requests -> Seq(Token)] /\ executed \in [Requests -> Nat]
      /\ \A p \in Requests : Served(cache, p, tokens[p], executed[p])
  BY DEF Inv
<1>2. /\ cache' = Commit(T, r, e) /\ tokens' = tokens /\ executed' = executed /\ content' = content
  BY DEF CommitExecuted
<1>3. t \in Seq(Token) /\ e \in Nat /\ Served(cache, r, t, e)
  BY <1>1
<1>4. /\ InOrder(T, Token) /\ Neat(T)
      /\ HasChain(cache, T, r, Canon(t)) /\ T.mapped = cache.mapped
  BY <1>1, <1>3, TrackTidy DEF Served
<1>5. /\ T.ref_cnt = cache.ref_cnt /\ T.free = cache.free /\ T.blocks = cache.blocks
      /\ T.block_hash = cache.block_hash /\ T.index = cache.index /\ T.num_cached = cache.num_cached
      /\ T.hashes[r] = Canon(t) /\ \A p \in Requests : p # r => T.hashes[p] = cache.hashes[p]
  BY <1>4, Zenon DEF HasChain, SamePool, Only
<1> HIDE DEF T
<1>6. /\ InOrder(cache', Token) /\ Neat(cache')
  BY <1>2, <1>3, <1>4, CommitStaysTidy
<1>7. SameCache(T, cache') \/ \E full \in Nat : HasCommitted(T, cache', r, full, e)
  BY <1>2, <1>3, <1>4, CommitEffect
<1>8. SamePool(T, cache') /\ cache'.hashes = T.hashes /\ cache'.mapped = T.mapped
  BY <1>7, Zenon DEF SameCache, SameHashes, HasCommitted, HasIndexed
<1>9. Inv'
  <2>1. cache'.blocks = cache.blocks /\ cache'.mapped = cache.mapped /\ cache'.hashes[r] = Canon(t)
        /\ \A p \in Requests : p # r => cache'.hashes[p] = cache.hashes[p]
    BY <1>4, <1>5, <1>8, Zenon DEF SamePool
  <2>2. ChainOf(Canon(t), t)
    BY <1>3, CanonIsChain
  <2>3. \A p \in Requests : Served(cache', p, tokens[p], executed[p])
    BY <1>1, <2>1, <2>2 DEF Served
  <2> QED
    BY <1>1, <1>2, <1>6, <2>3 DEF Inv
<1>10. cache'.ref_cnt = cache.ref_cnt /\ cache'.free = cache.free /\ cache'.blocks = cache.blocks
  BY <1>5, <1>8, Zenon DEF SamePool
<1>11. ASSUME cache'.block_hash = cache.block_hash, cache'.index = cache.index
       PROVE  UNCHANGED Ledger!vars
  BY <1>2, <1>10, <1>11 DEF Ledger!vars
<1>12. CASE SameCache(T, cache')
  <2>1. cache'.block_hash = cache.block_hash /\ cache'.index = cache.index
    BY <1>5, <1>12, Zenon DEF SameCache, SameHashes
  <2> QED
    BY <1>9, <1>11, <2>1
<1>13. CASE \E full \in Nat : HasCommitted(T, cache', r, full, e)
  <2>1. PICK full \in Nat : HasCommitted(T, cache', r, full, e)
    BY <1>13
  <2> DEFINE K  == Due(T, r, full)
             ch == Canon(t)
  <2>2. /\ full > cache.num_cached[r] /\ full <= Len(own) /\ full <= Len(ch) /\ full <= FullBlocks(e)
        /\ \A i \in K : /\ i \in 1 .. Len(own) /\ i \in 1 .. Len(ch)
                        /\ cache.block_hash[own[i]] = NoHash
                        /\ cache'.block_hash[own[i]] = ch[i]
        /\ \A b \in Blocks : (\A i \in K : own[i] # b) => cache'.block_hash[b] = cache.block_hash[b]
        /\ cache'.index = cache.index \cup {<<ch[i], own[i]>> : i \in K}
    <3>1. /\ full > T.num_cached[r] /\ full <= Len(T.blocks[r]) /\ full <= Len(T.hashes[r])
          /\ full <= FullBlocks(e) /\ HasIndexed(T, cache', r, K)
      BY <2>1, Zenon DEF HasCommitted
    <3>2. /\ \A i \in K : /\ i \in 1 .. Len(T.blocks[r]) /\ i \in 1 .. Len(T.hashes[r])
                          /\ T.block_hash[T.blocks[r][i]] = NoHash
                          /\ cache'.block_hash[T.blocks[r][i]] = T.hashes[r][i]
          /\ \A b \in Blocks : (\A i \in K : T.blocks[r][i] # b) => cache'.block_hash[b] = T.block_hash[b]
          /\ cache'.index = T.index \cup {<<T.hashes[r][i], T.blocks[r][i]>> : i \in K}
      <4> HIDE DEF K
      <4> QED
        BY <3>1, Zenon DEF HasIndexed
    <3>3. T.blocks[r] = own /\ T.hashes[r] = ch
      BY <1>5
    <3> HIDE DEF K, ch, own
    <3> QED
      BY <1>5, <3>1, <3>2, <3>3
  <2>3. K = {i \in cache.num_cached[r] + 1 .. full : EnableCaching /\ cache.block_hash[own[i]] = NoHash}
    BY <1>5, Zenon DEF Due
  <2>4. /\ cache'.block_hash \in [Blocks -> Seq(Token)] /\ cache.block_hash \in [Blocks -> Seq(Token)]
        /\ own \in Seq(Blocks) /\ cache.num_cached[r] \in Nat
    BY <1>1, <1>6, CacheTypes
  <2> HIDE DEF K, ch
  <2>5. CASE ~ EnableCaching
    <3>1. K = {}
      BY <2>3, <2>5
    <3>2. \A b \in Blocks : cache'.block_hash[b] = cache.block_hash[b]
      BY <2>2, <3>1, Zenon
    <3>3. cache'.block_hash = cache.block_hash
      BY <2>4, <3>2
    <3>4. cache'.index = cache.index
      BY <2>2, <3>1
    <3> QED
      BY <1>9, <1>11, <3>3, <3>4
  <2>6. CASE EnableCaching
    <3>1. IsInjective(own)
      BY <1>1, Zenon DEF InOrder, PoolInOrder
    <3>2. \A i \in 1 .. Len(own) : Ledger!Pos(r, own[i]) = i
      BY <2>4, <3>1, PosIs
    <3>3. \A i \in 1 .. Len(own) : i <= cache.num_cached[r] => cache.block_hash[own[i]] # NoHash
      BY <1>1, <2>6, Zenon DEF Neat, Tidy, CachedInFront
    <3> DEFINE U == Ledger!Unindexed(r, full)
    <3>4. U = {own[i] : i \in K}
      <4>1. ASSUME NEW b \in U PROVE b \in {own[i] : i \in K}
        <5>1. b \in Ledger!Elems(own) /\ Ledger!Pos(r, b) <= full /\ cache.block_hash[b] = NoHash
          BY <4>1 DEF Ledger!Unindexed
        <5>2. PICK i \in 1 .. Len(own) : b = own[i]
          BY <5>1 DEF Ledger!Elems
        <5>3. i <= full /\ ~ i <= cache.num_cached[r]
          BY <3>2, <3>3, <5>1, <5>2
        <5>4. i \in K
          BY <2>3, <2>4, <2>6, <5>1, <5>2, <5>3
        <5> QED
          BY <5>2, <5>4
      <4>2. ASSUME NEW i \in K PROVE own[i] \in U
        <5>1. i \in 1 .. Len(own) /\ i <= full /\ cache.block_hash[own[i]] = NoHash
          BY <2>2, <2>3, <2>4
        <5> QED
          BY <3>2, <5>1 DEF Ledger!Unindexed, Ledger!Elems
      <4> QED
        BY <4>1, <4>2, Zenon
    <3> HIDE DEF U
    <3>5. LedgerChain[r] = ch
      BY <1>3, CanonIsChain DEF LedgerChain, ch
    <3>6. cache'.block_hash = [b \in Blocks |-> IF b \in U THEN LedgerChain[r][Ledger!Pos(r, b)] ELSE cache.block_hash[b]]
      <4>1. ASSUME NEW b \in Blocks
            PROVE  cache'.block_hash[b] = IF b \in U THEN LedgerChain[r][Ledger!Pos(r, b)] ELSE cache.block_hash[b]
        <5>1. CASE b \in U
          <6>1. PICK i \in K : b = own[i]
            BY <3>4, <5>1
          <6> QED
            BY <2>2, <3>2, <3>5, <5>1, <6>1
        <5>2. CASE b \notin U
          <6>1. \A i \in K : own[i] # b
            BY <3>4, <5>2
          <6> QED
            BY <2>2, <5>2, <6>1
        <5> QED
          BY <5>1, <5>2
      <4> QED
        BY <2>4, <4>1
    <3>7. cache'.index = cache.index \cup {<<LedgerChain[r][Ledger!Pos(r, b)], b>> : b \in U}
      <4>1. {<<ch[i], own[i]>> : i \in K} = {<<LedgerChain[r][Ledger!Pos(r, b)], b>> : b \in U}
        <5>1. \A i \in K : ch[i] = LedgerChain[r][Ledger!Pos(r, own[i])]
          BY <2>2, <3>2, <3>5
        <5> QED
          BY <3>4, <5>1, Zenon
      <4> QED
        BY <2>2, <4>1, Zenon
    <3>8. full <= Filled[r]
      BY <2>2 DEF Filled, FullBlocks
    <3>9. Ledger!Commit(r, full)
      BY <1>2, <1>10, <3>6, <3>7, <3>8 DEF Ledger!Commit, U, LedgerChain, Filled
    <3>10. full \in 0 .. Len(own)
      BY <2>2, <2>4
    <3> QED
      BY <1>9, <3>9, <3>10, Zenon DEF Ledger!Next
  <2> QED
    BY <2>5, <2>6
<1> QED
  BY <1>7, <1>12, <1>13

LEMMA SameCardinality == Ledger!Cardinality(Blocks) = Cardinality(Blocks)
  BY Zenon DEF Ledger!Cardinality, Cardinality

LEMMA InDraws ==
  ASSUME NEW f, NEW n \in Nat, NEW avail, FreshOf(f, n, avail, cache.block_hash)
  PROVE  f \in Ledger!Draws(avail, n)
<1>1. /\ f \in [1 .. n -> avail] /\ Len(f) = n
      /\ \A i, j \in 1 .. n : f[i] = f[j] => i = j
      /\ (\E b \in Elements(f) : cache.block_hash[b] # NoHash) =>
           {b \in avail : cache.block_hash[b] = NoHash} \subseteq Elements(f)
  BY Zenon DEF FreshOf
<1>2. Ledger!Injective(f) /\ Ledger!Elems(f) = Elements(f)
  BY <1>1, Zenon DEF Ledger!Injective, Ledger!Elems, Elements
<1> QED
  BY <1>1, <1>2, Zenon DEF Ledger!Draws

LEMMA GrowStep ==
  ASSUME Inv, NEW r \in Requests, Grow(r)
  PROVE  Inv' /\ Ledger!Next
<1> DEFINE own   == cache.blocks[r]
           reach == Len(own) * BlockSize + 1
<1>1. /\ InOrder(cache, Token) /\ Neat(cache)
      /\ tokens \in [Requests -> Seq(Token)] /\ executed \in [Requests -> Nat]
      /\ \A p \in Requests : Served(cache, p, tokens[p], executed[p])
  BY DEF Inv
<1>2. /\ tokens[r] # <<>> /\ MayAdopt(cache, r, <<>>) /\ Fits(cache, r, reach, <<>>)
      /\ cache' = Allocate(cache, r, reach, <<>>)
      /\ tokens' = tokens /\ executed' = executed /\ content' = content
  BY DEF Grow
<1>3. cache.blocks \in [Requests -> Seq(Blocks)] /\ own \in Seq(Blocks) /\ reach \in Int
  <2>1. cache.blocks \in [Requests -> Seq(Blocks)]
    BY <1>1, CacheTypes
  <2> QED
    BY CacheAssumption, <2>1
<1> HIDE DEF reach
<1>4. /\ InOrder(cache', Token) /\ Neat(cache')
      /\ \E n \in Nat : \E f : HasAllocated(cache, cache', r, <<>>, n, f)
  BY <1>1, <1>2, <1>3, AllocateTidy
<1>5. PICK n \in Nat : \E f : HasAllocated(cache, cache', r, <<>>, n, f)
  BY <1>4
<1>6. PICK f : HasAllocated(cache, cache', r, <<>>, n, f)
  BY <1>5
<1>7. Elements(<<>>) = {}
  BY DEF Elements
<1>8. /\ FreshOf(f, n, Elements(cache.free), cache.block_hash) /\ n <= Cardinality(Blocks)
      /\ \A b \in Blocks : cache'.ref_cnt[b] = cache.ref_cnt[b] + IF b \in Elements(f) THEN 1 ELSE 0
      /\ \A b \in Blocks : cache'.block_hash[b] = IF b \in Elements(f) THEN NoHash ELSE cache.block_hash[b]
      /\ cache'.index = {e \in cache.index : e[2] \notin Elements(f)}
      /\ Only(cache.blocks, cache'.blocks, r, own \o f)
      /\ cache'.hashes = cache.hashes /\ cache'.mapped = cache.mapped
  BY <1>6, <1>7 DEF HasAllocated, Base
<1>9. /\ cache'.ref_cnt \in [Blocks -> Nat] /\ cache.ref_cnt \in [Blocks -> Nat]
      /\ cache'.block_hash \in [Blocks -> Seq(Token)] /\ cache'.blocks \in [Requests -> Seq(Blocks)]
      /\ Elements(cache.free) = {b \in Blocks : cache.ref_cnt[b] = 0}
      /\ Elements(cache'.free) = {b \in Blocks : cache'.ref_cnt[b] = 0}
  BY <1>1, <1>4, CacheTypes, FreeSet
<1>10. own # <<>>
  BY <1>1, <1>2 DEF Served
<1>11. cache'.blocks = [cache.blocks EXCEPT ![r] = own \o f]
  BY <1>3, <1>8, <1>9 DEF Only
<1>12. f \in Seq(Blocks) /\ own \o f # <<>>
  <2>1. f \in [1 .. n -> Elements(cache.free)] /\ Elements(cache.free) \subseteq Blocks
    BY <1>8, <1>9 DEF FreshOf
  <2>2. f \in Seq(Blocks)
    BY <2>1
  <2> HIDE DEF own
  <2> QED
    BY <1>3, <1>10, <2>2
<1>13. Inv'
  <2>1. ASSUME NEW p \in Requests
        PROVE  Served(cache', p, tokens[p], executed[p])
    <3>1. cache'.blocks[p] = <<>> <=> cache.blocks[p] = <<>>
      <4> HIDE DEF own
      <4> QED
        BY <1>3, <1>10, <1>11, <1>12 DEF own
    <3> QED
      BY <1>1, <1>8, <3>1 DEF Served
  <2> QED
    BY <1>1, <1>2, <1>4, <2>1 DEF Inv
<1>14. f \in Ledger!Draws(Elements(cache.free), n)
  BY <1>8, InDraws
<1>15. cache'.ref_cnt = [b \in Blocks |-> cache.ref_cnt[b] + IF b \in Elements(f) THEN 1 ELSE 0]
  BY <1>8, <1>9
<1>16. cache'.block_hash = [b \in Blocks |-> IF b \in Elements(f) THEN NoHash ELSE cache.block_hash[b]]
  BY <1>8, <1>9
<1>17. Elements(cache'.free) = Elements(cache.free) \ Elements(f)
  <2>1. \A b \in Blocks : cache'.ref_cnt[b] = 0 <=> cache.ref_cnt[b] = 0 /\ b \notin Elements(f)
    BY <1>8, <1>9
  <2> QED
    BY <1>9, <2>1, Zenon
<1>18. Ledger!Elems(f) = Elements(f) /\ Ledger!Elems(cache.free) = Elements(cache.free)
       /\ Ledger!Elems(cache'.free) = Elements(cache'.free)
  BY DEF Ledger!Elems, Elements
<1>19. Ledger!Grow(r, n)
  <2>1. /\ cache'.ref_cnt = [b \in Blocks |-> cache.ref_cnt[b] + IF b \in Ledger!Elems(f) THEN 1 ELSE 0]
        /\ Elements(cache'.free) = Elements(cache.free) \ Ledger!Elems(f)
    BY <1>15, <1>17, <1>18
  <2>2. Ledger!Evict(f)
    BY <1>8, <1>16, <1>18 DEF Ledger!Evict
  <2> QED
    BY <1>2, <1>10, <1>11, <1>14, <2>1, <2>2 DEF Ledger!Grow
<1>20. n \in 0 .. Ledger!Cardinality(Blocks)
  BY CacheAssumption, <1>8, SameCardinality, FS_CardinalityType
<1> QED
  BY <1>13, <1>19, <1>20, Zenon DEF Ledger!Next

\* What an admission finds: a request without blocks, whose chain is now that
\* of the prompt.
Tracked(T, r, prompt) ==
  /\ prompt \in Seq(Token) /\ Len(prompt) \in 1 .. MaxSeqLen /\ prompt # <<>>
  /\ InOrder(T, Token) /\ Neat(T)
  /\ T.ref_cnt = cache.ref_cnt /\ T.free = cache.free /\ T.blocks = cache.blocks
  /\ T.block_hash = cache.block_hash /\ T.index = cache.index /\ T.mapped = cache.mapped
  /\ T.blocks[r] = <<>> /\ T.hashes[r] = Canon(prompt)
  /\ \A p \in Requests : p # r => T.hashes[p] = cache.hashes[p]

LEMMA TrackPrompt ==
  ASSUME Inv, NEW r \in Requests, NEW prompt \in Prompts, tokens[r] = <<>>
  PROVE  Tracked(Track(cache, r, prompt), r, prompt)
<1> DEFINE T == Track(cache, r, prompt)
<1>1. InOrder(cache, Token) /\ Neat(cache) /\ Served(cache, r, <<>>, executed[r])
  BY DEF Inv
<1>2. prompt \in Seq(Token) /\ Len(prompt) \in 1 .. MaxSeqLen /\ prompt # <<>>
  <2>1. prompt \in Seq(Elements(prompt)) /\ Len(prompt) \in 1 .. MaxSeqLen
    BY ClientAssumption
  <2>2. Elements(prompt) \subseteq Token
    BY Zenon DEF Token
  <2>3. prompt # <<>>
    BY <2>1
  <2> HIDE DEF Elements
  <2> QED
    BY <2>1, <2>2, <2>3
<1>3. cache.hashes[r] \in Seq(Seq(Token))
  <2>1. cache.hashes \in [Requests -> Seq(Seq(Token))]
    BY <1>1, CacheTypes
  <2> QED
    BY <2>1
<1>4. ChainOf(cache.hashes[r], prompt)
  <2>1. Len(<<>>) = 0 /\ 0 \div BlockSize = 0
    BY CacheAssumption, QuotientIs
  <2>2. Len(cache.hashes[r]) = 0
    BY <1>1, <1>3, <2>1 DEF Served, ChainOf
  <2>3. Len(prompt) \in Nat
    BY <1>2
  <2>4. Len(prompt) \div BlockSize \in Nat
    BY <2>3, Quotient, Zenon
  <2> QED
    BY <2>2, <2>4 DEF ChainOf
<1>5. InOrder(T, Token) /\ Neat(T) /\ HasChain(cache, T, r, Canon(prompt)) /\ T.mapped = cache.mapped
  BY <1>1, <1>2, <1>4, TrackTidy
<1> HIDE DEF T
<1>6. /\ T.ref_cnt = cache.ref_cnt /\ T.free = cache.free /\ T.blocks = cache.blocks
      /\ T.block_hash = cache.block_hash /\ T.index = cache.index
      /\ T.hashes[r] = Canon(prompt) /\ \A p \in Requests : p # r => T.hashes[p] = cache.hashes[p]
  BY <1>5, Zenon DEF HasChain, SamePool, Only
<1>7. T.blocks[r] = <<>>
  BY <1>1, <1>6 DEF Served
<1> QED
  BY <1>2, <1>5, <1>6, <1>7 DEF Tracked, T

LEMMA RefuseStep ==
  ASSUME Inv, NEW r \in Requests, NEW prompt \in Prompts, Refuse(r, prompt)
  PROVE  Inv' /\ UNCHANGED Ledger!vars
<1> DEFINE T == Track(cache, r, prompt)
<1>1. /\ InOrder(cache, Token) /\ Neat(cache)
      /\ tokens \in [Requests -> Seq(Token)] /\ executed \in [Requests -> Nat]
      /\ \A p \in Requests : Served(cache, p, tokens[p], executed[p])
  BY DEF Inv
<1>2. tokens[r] = <<>> /\ tokens' = tokens /\ executed' = executed /\ content' = content
  BY DEF Refuse
<1>3. PICK match \in Lookup(T, r, Len(prompt)) : cache' = Free(RefuseAllocation(T, r, match), r)
  BY DEF Refuse
<1>4. Tracked(T, r, prompt)
  BY <1>2, TrackPrompt
<1> HIDE DEF T
<1>5. IsMatch(T, r, match)
  <2>1. Len(prompt) \in Nat /\ Len(prompt) # 0
    BY <1>4 DEF Tracked
  <2> QED
    BY <1>3, <1>4, <2>1, LookupMatches DEF Tracked
<1> DEFINE g == RefuseAllocation(T, r, match)
<1>6. InOrder(g, Token) /\ Neat(g) /\ SameLedger(T, g)
  BY <1>4, <1>5, RefuseTidy DEF Tracked
<1> HIDE DEF g
<1>7. InOrder(cache', Token) /\ Neat(cache') /\ HasFreed(g, cache', r)
  BY <1>3, <1>6, FreeTidy DEF g
<1>8. /\ g.ref_cnt = cache.ref_cnt /\ g.blocks = cache.blocks /\ g.block_hash = cache.block_hash
      /\ g.index = cache.index /\ g.mapped = cache.mapped /\ g.blocks[r] = <<>>
      /\ \A p \in Requests : p # r => g.hashes[p] = cache.hashes[p]
  BY <1>4, <1>6 DEF SameLedger, Tracked
<1>9. /\ \A b \in Blocks : cache'.ref_cnt[b] = g.ref_cnt[b] - IF b \in Elements(<<>>) THEN 1 ELSE 0
      /\ cache'.blocks[r] = <<>> /\ cache'.hashes[r] = <<>> /\ cache'.mapped[r] = 0
      /\ \A p \in Requests : p # r => /\ cache'.blocks[p] = g.blocks[p]
                                      /\ cache'.hashes[p] = g.hashes[p] /\ cache'.mapped[p] = g.mapped[p]
      /\ cache'.block_hash = g.block_hash /\ cache'.index = g.index
  BY <1>7, <1>8, Zenon DEF HasFreed, Only
<1>10. /\ cache.ref_cnt \in [Blocks -> Nat] /\ cache'.ref_cnt \in [Blocks -> Nat]
       /\ cache.blocks \in [Requests -> Seq(Blocks)] /\ cache'.blocks \in [Requests -> Seq(Blocks)]
  BY <1>1, <1>7, CacheTypes
<1>11. cache'.ref_cnt = cache.ref_cnt /\ cache'.blocks = cache.blocks
  <2>1. \A b : b \notin Elements(<<>>)
    BY DEF Elements
  <2>2. \A b \in Blocks : cache'.ref_cnt[b] = cache.ref_cnt[b]
    BY <1>8, <1>9, <1>10, <2>1
  <2>3. \A p \in Requests : cache'.blocks[p] = cache.blocks[p]
    BY <1>8, <1>9
  <2> QED
    BY <1>10, <2>2, <2>3
<1>12. Elements(cache'.free) = Elements(cache.free)
  BY <1>1, <1>7, <1>11, FreeSet
<1>13. \A p \in Requests : Served(cache', p, tokens[p], executed[p])
  <2>1. ChainOf(<<>>, <<>>)
    <3>1. Len(<<>>) = 0 /\ 0 \div BlockSize = 0
      BY CacheAssumption, QuotientIs
    <3> QED
      BY <3>1 DEF ChainOf
  <2>2. Served(cache', r, tokens[r], executed[r])
    BY <1>1, <1>2, <1>9, <2>1 DEF Served
  <2>3. ASSUME NEW p \in Requests, p # r PROVE Served(cache', p, tokens[p], executed[p])
    <3>1. cache'.blocks[p] = cache.blocks[p] /\ cache'.hashes[p] = cache.hashes[p] /\ cache'.mapped[p] = cache.mapped[p]
      BY <1>8, <1>9, <2>3
    <3>2. Served(cache, p, tokens[p], executed[p])
      BY <1>1
    <3> QED
      BY <3>1, <3>2, Zenon DEF Served
  <2> QED
    BY <2>2, <2>3
<1>14. Inv'
  BY <1>1, <1>2, <1>7, <1>13 DEF Inv
<1>15. UNCHANGED Ledger!vars
  BY <1>2, <1>8, <1>9, <1>11, <1>12 DEF Ledger!vars
<1> QED
  BY <1>14, <1>15

LEMMA AdmitStep ==
  ASSUME Inv, NEW r \in Requests, NEW prompt \in Prompts, Admit(r, prompt)
  PROVE  Inv' /\ Ledger!Next
<1> DEFINE T   == Track(cache, r, prompt)
           len == Len(prompt)
<1>1. /\ InOrder(cache, Token) /\ Neat(cache)
      /\ tokens \in [Requests -> Seq(Token)] /\ executed \in [Requests -> Nat]
      /\ \A p \in Requests : Served(cache, p, tokens[p], executed[p])
  BY DEF Inv
<1>2. tokens[r] = <<>> /\ tokens' = [tokens EXCEPT ![r] = prompt] /\ content' = content
  BY DEF Admit
<1>3. PICK m \in Lookup(T, r, len) : \E chunk \in 1 .. len - Len(m) * BlockSize :
        /\ Fits(T, r, Len(m) * BlockSize + chunk, m)
        /\ cache' = Allocate(T, r, Len(m) * BlockSize + chunk, m)
        /\ executed' = [executed EXCEPT ![r] = Len(m) * BlockSize]
  BY Zenon DEF Admit
<1>4. PICK chunk \in 1 .. len - Len(m) * BlockSize :
        /\ Fits(T, r, Len(m) * BlockSize + chunk, m)
        /\ cache' = Allocate(T, r, Len(m) * BlockSize + chunk, m)
        /\ executed' = [executed EXCEPT ![r] = Len(m) * BlockSize]
  BY <1>3
<1>5. Tracked(T, r, prompt)
  BY <1>2, TrackPrompt
<1> HIDE DEF T
<1>6. IsMatch(T, r, m)
  <2>1. len \in Nat /\ len # 0
    BY <1>5 DEF Tracked
  <2> QED
    BY <1>3, <1>5, <2>1, LookupMatches DEF Tracked
<1> DEFINE hit == Len(m) * BlockSize
<1>7. /\ m \in Seq(Blocks) /\ Len(m) \in Nat /\ hit \in Nat /\ chunk \in Nat /\ chunk >= 1
      /\ len \in Nat /\ hit + chunk <= len
  <2>1. m \in Seq(Blocks) /\ Len(m) \in Nat /\ len \in Nat
    BY <1>5, <1>6 DEF IsMatch, Tracked
  <2>2. hit \in Nat
    BY <2>1, Times
  <2> HIDE DEF hit, len
  <2> QED
    BY <1>4, <2>1, <2>2 DEF hit
<1> HIDE DEF hit, len
<1>8. MayAdopt(T, r, m) /\ hit + chunk \in Int /\ hit + chunk \in Nat /\ hit + chunk # 0
  BY <1>5, <1>7 DEF Tracked, MayAdopt
<1> DEFINE n == Needed(T, r, hit + chunk, m)
<1>9. /\ InOrder(cache', Token) /\ Neat(cache') /\ n \in Nat
      /\ \E f : HasAllocated(T, cache', r, m, n, f)
  BY <1>4, <1>5, <1>6, <1>8, AllocateTidy DEF Tracked, hit
<1>10. m # <<>> \/ n # 0
  BY <1>5, <1>8, NeedsSome DEF Tracked
<1> HIDE DEF n
<1>11. PICK f : HasAllocated(T, cache', r, m, n, f)
  BY <1>9
<1>12. Base(T, r, m) = m
  BY <1>5 DEF Base, Tracked
<1>13. /\ FreshOf(f, n, Elements(cache.free) \ Elements(m), cache.block_hash) /\ n <= Cardinality(Blocks)
       /\ \A b \in Blocks : cache'.ref_cnt[b] = cache.ref_cnt[b] + IF b \in Elements(m) \cup Elements(f) THEN 1 ELSE 0
       /\ \A b \in Blocks : cache'.block_hash[b] = IF b \in Elements(f) THEN NoHash ELSE cache.block_hash[b]
       /\ cache'.index = {e \in cache.index : e[2] \notin Elements(f)}
       /\ Only(cache.blocks, cache'.blocks, r, m \o f)
       /\ cache'.hashes = T.hashes /\ cache'.mapped = cache.mapped
  BY <1>5, <1>11, <1>12 DEF HasAllocated, Tracked
<1>14. /\ cache'.ref_cnt \in [Blocks -> Nat] /\ cache.ref_cnt \in [Blocks -> Nat]
       /\ cache'.block_hash \in [Blocks -> Seq(Token)]
       /\ cache.blocks \in [Requests -> Seq(Blocks)] /\ cache'.blocks \in [Requests -> Seq(Blocks)]
       /\ Elements(cache.free) = {b \in Blocks : cache.ref_cnt[b] = 0}
       /\ Elements(cache'.free) = {b \in Blocks : cache'.ref_cnt[b] = 0}
  BY <1>1, <1>9, CacheTypes, FreeSet
<1>15. cache'.blocks = [cache.blocks EXCEPT ![r] = m \o f]
  BY <1>13, <1>14 DEF Only
<1>16. f \in Seq(Blocks) /\ m \o f # <<>>
  <2>1. f \in [1 .. n -> Elements(cache.free) \ Elements(m)] /\ Elements(cache.free) \subseteq Blocks /\ Len(f) = n
    BY <1>13, <1>14 DEF FreshOf
  <2>2. f \in Seq(Blocks)
    BY <1>9, <2>1
  <2> QED
    BY <1>7, <1>9, <1>10, <2>1, <2>2
<1>17. /\ tokens' \in [Requests -> Seq(Token)] /\ executed' \in [Requests -> Nat]
       /\ tokens'[r] = prompt /\ executed'[r] = hit
       /\ \A p \in Requests : p # r => tokens'[p] = tokens[p] /\ executed'[p] = executed[p]
  BY <1>1, <1>2, <1>4, <1>5, <1>7 DEF Tracked, hit
<1>18. Inv'
  <2>1. Served(cache', r, prompt, hit)
    <3>1. ChainOf(Canon(prompt), prompt) /\ cache'.hashes[r] = Canon(prompt)
      BY <1>5, <1>13, CanonIsChain DEF Tracked
    <3>2. cache'.mapped[r] = 0
      BY <1>1, <1>13 DEF Served
    <3>3. prompt # <<>> /\ cache'.blocks[r] # <<>>
      BY <1>5, <1>14, <1>15, <1>16 DEF Tracked
    <3>4. len <= MaxSeqLen /\ hit <= len
      BY <1>5, <1>7 DEF Tracked, len
    <3> QED
      BY <3>1, <3>2, <3>3, <3>4, Zenon DEF Served, len
  <2>2. ASSUME NEW p \in Requests, p # r PROVE Served(cache', p, tokens[p], executed[p])
    <3>1. cache'.blocks[p] = cache.blocks[p] /\ cache'.hashes[p] = cache.hashes[p] /\ cache'.mapped[p] = cache.mapped[p]
      BY <1>5, <1>13, <2>2 DEF Tracked, Only
    <3>2. Served(cache, p, tokens[p], executed[p])
      BY <1>1
    <3> QED
      BY <3>1, <3>2, Zenon DEF Served
  <2>3. \A p \in Requests : Served(cache', p, tokens'[p], executed'[p])
    BY <1>17, <2>1, <2>2
  <2> QED
    BY <1>9, <1>17, <2>3 DEF Inv
<1>19. PICK c \in {ExtendHashes(<<>>, s) : s \in TokenSeqs} : c = Canon(prompt) /\ c = ExtendHashes(<<>>, prompt)
  <2>1. prompt \in Seq(Token) /\ prompt # <<>> /\ Len(prompt) <= MaxSeqLen
    BY <1>5, ClientAssumption DEF Tracked
  <2>2. prompt \in TokenSeqs
    BY <2>1, InTokenSeqs
  <2> QED
    BY <2>1, <2>2, CanonIsChain
<1>20. (LedgerChain)' = [LedgerChain EXCEPT ![r] = c]
  BY <1>17, <1>19 DEF LedgerChain
<1>21. (Filled)' = [Filled EXCEPT ![r] = Len(m)]
  <2>1. hit \div BlockSize = Len(m)
    <3>1. Len(m) * BlockSize <= hit /\ hit < Len(m) * BlockSize + BlockSize
      BY CacheAssumption, <1>7 DEF hit
    <3> QED
      BY <1>7, <3>1, QuotientIs
  <2> QED
    BY <1>17, <2>1 DEF Filled
<1>22. m \in Ledger!Hits(c, Len(m)) /\ Len(m) \in 0 .. Len(c)
  <2>1. /\ Len(m) <= Len(Canon(prompt))
        /\ \A i \in 1 .. Len(m) : <<Canon(prompt)[i], m[i]>> \in cache.index
    BY <1>5, <1>6 DEF IsMatch, Tracked
  <2>2. \A e \in cache.index : cache.block_hash[e[2]] = e[1]
    BY <1>1, Zenon DEF InOrder, IndexInOrder
  <2>3. ASSUME NEW i \in 1 .. Len(m) PROVE cache.block_hash[m[i]] = c[i]
    BY <1>19, <2>1, <2>2
  <2>4. m \in [1 .. Len(m) -> Blocks]
    BY <1>7
  <2>5. Len(c) \in Nat
    <3>1. Canon(prompt) \in Seq(Seq(Token))
      BY <1>5, CanonIsChain DEF Tracked
    <3> QED
      BY <1>19, <3>1
  <2> QED
    BY <1>7, <1>19, <2>1, <2>3, <2>4, <2>5 DEF Ledger!Hits
<1>23. f \in Ledger!Draws(Elements(cache.free) \ Elements(m), n)
  BY <1>9, <1>13, InDraws
<1>24. cache'.ref_cnt = [b \in Blocks |-> cache.ref_cnt[b] + IF b \in Elements(m) \cup Elements(f) THEN 1 ELSE 0]
  BY <1>13, <1>14
<1>25. cache'.block_hash = [b \in Blocks |-> IF b \in Elements(f) THEN NoHash ELSE cache.block_hash[b]]
  BY <1>13, <1>14
<1>26. Elements(cache'.free) = Elements(cache.free) \ (Elements(m) \cup Elements(f))
  <2>1. \A b \in Blocks : cache'.ref_cnt[b] = 0 <=> cache.ref_cnt[b] = 0 /\ b \notin Elements(m) \cup Elements(f)
    BY <1>13, <1>14
  <2> QED
    BY <1>14, <2>1, Zenon
<1>27. Ledger!Elems(f) = Elements(f) /\ Ledger!Elems(m) = Elements(m)
  BY DEF Ledger!Elems, Elements
<1>28. PICK k \in 0 .. Cardinality(Blocks) : k = n
  BY CacheAssumption, <1>9, <1>13, FS_CardinalityType
<1>29. Ledger!Admit(r, c, Len(m), k)
  <2>1. /\ f \in Ledger!Draws(Elements(cache.free) \ Ledger!Elems(m), k)
        /\ cache'.ref_cnt = [b \in Blocks |-> cache.ref_cnt[b] + IF b \in Ledger!Elems(m) \cup Ledger!Elems(f) THEN 1 ELSE 0]
        /\ Elements(cache'.free) = Elements(cache.free) \ (Ledger!Elems(m) \cup Ledger!Elems(f))
    BY <1>23, <1>24, <1>26, <1>27, <1>28
  <2>2. Ledger!Evict(f)
    BY <1>13, <1>25, <1>27 DEF Ledger!Evict
  <2>3. cache.blocks[r] = <<>>
    BY <1>5 DEF Tracked
  <2> QED
    BY <1>2, <1>15, <1>20, <1>21, <1>22, <2>1, <2>2, <2>3 DEF Ledger!Admit, LedgerChain, Filled
<1> QED
  BY <1>18, <1>22, <1>28, <1>29, SameCardinality, Zenon DEF Ledger!Next

LEMMA InitStep ==
  ASSUME Init
  PROVE  Inv /\ Ledger!Init
<1>1. /\ tokens = [r \in Requests |-> <<>>] /\ executed = [r \in Requests |-> 0]
      /\ content = [b \in Blocks |-> NoHash]
  BY DEF Init
<1>2. PICK queue \in SetToSeqs(Blocks) : cache = NewCache(queue)
  BY DEF Init
<1>3. ListOf(queue, Blocks)
  <2> DEFINE n == Cardinality(Blocks)
  <2>1. n \in Nat
    BY CacheAssumption, FS_CardinalityType
  <2> HIDE DEF n
  <2>2. queue \in [1 .. n -> Blocks] /\ \A i, j \in 1 .. n : queue[i] = queue[j] => i = j
    BY <1>2, Zenon DEF SetToSeqs, n, IsInjective
  <2>3. queue \in Injection(1 .. n, Blocks)
    BY <2>2, Zenon DEF Injection, IsInjective
  <2>4. Cardinality(1 .. n) = n
    BY <2>1, FS_Interval
  <2>5. queue \in Surjection(1 .. n, Blocks)
    BY CacheAssumption, <2>3, <2>4, FS_Injection DEF n
  <2>6. \A x \in Blocks : \E i \in 1 .. n : queue[i] = x
    BY <2>5, Zenon DEF Surjection
  <2> QED
    BY <2>1, <2>2, <2>6, PlacesList
<1>4. InOrder(cache, Token)
  BY <1>2, <1>3, NewInOrder
<1>5. /\ cache.ref_cnt = [b \in Blocks |-> 0] /\ cache.block_hash = [b \in Blocks |-> NoHash]
      /\ cache.free = queue /\ cache.index = {} /\ cache.blocks = [r \in Requests |-> <<>>]
      /\ cache.num_cached = [r \in Requests |-> 0] /\ cache.hashes = [r \in Requests |-> <<>>]
      /\ cache.mapped = [r \in Requests |-> 0]
  BY <1>2 DEF NewCache
<1>6. Neat(cache)
  <2>1. \A i \in 1 .. Len(cache.free) : cache.free[i] \in Blocks
    BY <1>4, CacheTypes
  <2>2. \A r \in Requests : cache.blocks[r] = <<>> /\ cache.num_cached[r] <= 0
    BY <1>5
  <2> QED
    BY <1>5, <2>1, <2>2, BlankTidy DEF Neat, Anchored
<1>7. Len(<<>>) = 0 /\ 0 \div BlockSize = 0
  BY CacheAssumption, QuotientIs
<1>8. \A r \in Requests : Served(cache, r, tokens[r], executed[r])
  <2>1. ChainOf(<<>>, <<>>)
    BY <1>7 DEF ChainOf
  <2> QED
    BY ClientAssumption, <1>1, <1>5, <1>7, <2>1 DEF Served
<1>9. Inv
  BY <1>1, <1>4, <1>6, <1>8 DEF Inv
<1>10. Elements(cache.free) = Blocks
  BY <1>3, <1>5, Zenon DEF ListOf
<1>11. LedgerChain = [r \in Requests |-> <<>>] /\ Filled = [r \in Requests |-> 0]
  <2>1. ExtendHashes(<<>>, <<>>) = <<>>
    <3>1. Canon(<<>>) = ExtendHashes(<<>>, <<>>) /\ Canon(<<>>) \in Seq(Seq(Token)) /\ Len(Canon(<<>>)) = Len(<<>>) \div BlockSize
      BY CanonIsChain, <<>> \in Seq(Token)
    <3> QED
      BY <1>7, <3>1
  <2> QED
    BY <1>1, <1>7, <2>1 DEF LedgerChain, Filled
<1>12. Ledger!Init
  BY <1>1, <1>5, <1>10, <1>11 DEF Ledger!Init, LedgerChain, Filled
<1> QED
  BY <1>9, <1>12

\* Every step of the allocator's client keeps the invariant, and is a step of
\* the ledger or none.
LEMMA NextStep ==
  ASSUME Inv, [Next]_vars
  PROVE  Inv' /\ [Ledger!Next]_(Ledger!vars)
<1>1. ASSUME NEW r \in Requests, NEW prompt \in Prompts, Admit(r, prompt)
      PROVE  Inv' /\ [Ledger!Next]_(Ledger!vars)
  BY <1>1, AdmitStep
<1>2. ASSUME NEW r \in Requests, NEW prompt \in Prompts, Refuse(r, prompt)
      PROVE  Inv' /\ [Ledger!Next]_(Ledger!vars)
  BY <1>2, RefuseStep
<1>3. ASSUME NEW r \in Requests, Grow(r)
      PROVE  Inv' /\ [Ledger!Next]_(Ledger!vars)
  BY <1>3, GrowStep
<1>4. ASSUME NEW r \in Requests, Execute(r)
      PROVE  Inv' /\ [Ledger!Next]_(Ledger!vars)
  BY <1>4, ExecuteStep
<1>5. ASSUME NEW r \in Requests, CommitExecuted(r)
      PROVE  Inv' /\ [Ledger!Next]_(Ledger!vars)
  BY <1>5, CommitStep
<1>6. ASSUME NEW r \in Requests, Release(r)
      PROVE  Inv' /\ [Ledger!Next]_(Ledger!vars)
  BY <1>6, ReleaseStep
<1>7. ASSUME NEW r \in Requests, NEW t \in Generated, Generate(r, t)
      PROVE  Inv' /\ [Ledger!Next]_(Ledger!vars)
  BY <1>7, GenerateStep
<1>8. CASE ResetCache
  BY <1>8, ResetStep
<1>9. CASE UNCHANGED vars
  <2>1. cache' = cache /\ tokens' = tokens /\ executed' = executed /\ content' = content
    BY <1>9 DEF vars
  <2>2. Inv'
    BY <2>1 DEF Inv
  <2>3. UNCHANGED Ledger!vars
    BY <2>1 DEF Ledger!vars
  <2> QED
    BY <2>2, <2>3
<1> QED
  BY <1>1, <1>2, <1>3, <1>4, <1>5, <1>6, <1>7, <1>8, <1>9 DEF Next

\* The invariant holds in every reachable state.
THEOREM InvariantTheorem == Spec => []Inv
<1>1. Init => Inv
  BY InitStep
<1>2. Inv /\ [Next]_vars => Inv'
  BY NextStep
<1> QED
  BY <1>1, <1>2, PTL DEF Spec

\* Every field of the allocator keeps its type: counts stay within the number
\* of requests, cursors within the lists they index.
THEOREM TypeTheorem == Spec => []TypeOK
<1>1. Inv => TypeOK
  <2> SUFFICES ASSUME Inv PROVE TypeOK
    OBVIOUS
  <2>1. /\ InOrder(cache, Token) /\ Neat(cache)
        /\ tokens \in [Requests -> Seq(Token)] /\ executed \in [Requests -> Nat]
        /\ \A p \in Requests : Served(cache, p, tokens[p], executed[p])
    BY DEF Inv
  <2>2. /\ cache.ref_cnt \in [Blocks -> Nat] /\ cache.blocks \in [Requests -> Seq(Blocks)]
        /\ cache.num_cached \in [Requests -> Nat] /\ cache.free \in Seq(Blocks)
    BY <2>1, CacheTypes
  <2>3. ASSUME NEW b \in Blocks PROVE cache.ref_cnt[b] \in 0 .. Cardinality(Requests)
    <3>1. cache.ref_cnt[b] = Cardinality(HoldersOf(cache.blocks, b)) /\ cache.ref_cnt[b] \in Nat
      BY <2>1, <2>2 DEF InOrder, PoolInOrder
    <3>2. HoldersOf(cache.blocks, b) \in SUBSET Requests
      BY DEF HoldersOf
    <3>3. Cardinality(HoldersOf(cache.blocks, b)) <= Cardinality(Requests) /\ Cardinality(Requests) \in Nat
      BY CacheAssumption, <3>2, FS_Subset, FS_CardinalityType
    <3> QED
      BY <3>1, <3>3
  <2>4. ASSUME NEW r \in Requests
        PROVE  /\ Elements(cache.blocks[r]) \subseteq Blocks
               /\ executed[r] \in 0 .. Len(tokens[r])
               /\ cache.num_cached[r] \in 0 .. Len(cache.blocks[r])
               /\ cache.mapped[r] \in 0 .. Len(cache.blocks[r])
    <3>1. Elements(cache.blocks[r]) \subseteq Blocks
      BY <2>1, HeldCounts
    <3>2. cache.num_cached[r] <= Len(cache.blocks[r])
      BY <2>1, Zenon DEF Neat, Tidy, CachedInFront
    <3>3. executed[r] <= Len(tokens[r]) /\ cache.mapped[r] = 0
      BY <2>1, Zenon DEF Served
    <3> QED
      BY <2>1, <2>2, <3>1, <3>2, <3>3
  <2>5. Elements(cache.free) \subseteq Blocks
    BY <2>1, FreeSet
  <2> QED
    BY <2>2, <2>3, <2>4, <2>5 DEF TypeOK
<1> QED
  BY <1>1, InvariantTheorem, PTL

\* A cached prefix of several blocks always has the prefix one block shorter
\* cached too: whatever free_blocks and get_new_blocks do under pressure, a
\* chain loses its last blocks first.
THEOREM NoOrphanTheorem == Spec => []NoOrphanSuffix
<1>1. Inv => NoOrphanSuffix
  <2> SUFFICES ASSUME Inv, NEW e \in cache.index, Len(e[1]) > BlockSize
               PROVE  Cached(cache, SubSeq(e[1], 1, Len(e[1]) - BlockSize)) # {}
    BY DEF NoOrphanSuffix
  <2>1. PICK w \in cache.index : w[1] = SubSeq(e[1], 1, Len(e[1]) - BlockSize)
    BY DEF Inv, Neat, Anchored, Parent
  <2> QED
    BY <2>1, Zenon DEF Cached
<1> QED
  BY <1>1, InvariantTheorem, PTL

\* The allocator implements the block ledger: every call of the planner, over
\* queue, index, chains and cursors, is one step of the ledger or leaves it
\* alone.
THEOREM RefinementTheorem == Spec => ImplementsLedger
<1>1. Init => Inv /\ Ledger!Init
  BY InitStep
<1>2. Inv /\ [Next]_vars => Inv' /\ [Ledger!Next]_(Ledger!vars)
  BY NextStep
<1> QED
  BY <1>1, <1>2, PTL DEF Spec, ImplementsLedger, Ledger!Spec

-----------------------------------------------------------------------------
(* What the ledger promises, the allocator keeps. *)

LedgerFacts == INSTANCE BlockLedger_proofs WITH
  Hashes     <- TokenSeqs,
  Chains     <- {ExtendHashes(<<>>, s) : s \in TokenSeqs},
  ref_cnt    <- cache.ref_cnt,
  block_hash <- cache.block_hash,
  free       <- Elements(cache.free),
  index      <- cache.index,
  held       <- cache.blocks,
  chain      <- LedgerChain,
  computed   <- Filled

\* A sequence of TokenSeqs, and what its chain is made of.
LEMMA ChainOfTokens ==
  ASSUME NEW t \in TokenSeqs
  PROVE  /\ t \in Seq(Token) /\ Len(t) \in 1 .. MaxSeqLen
         /\ ExtendHashes(<<>>, t) \in Seq(TokenSeqs) /\ LedgerFacts!Injective(ExtendHashes(<<>>, t))
<1>1. PICK n \in 1 .. MaxSeqLen : t \in [1 .. n -> Token]
  BY Zenon DEF TokenSeqs
<1>2. n \in Nat /\ t \in Seq(Token) /\ Len(t) = n
  BY ClientAssumption, <1>1
<1> DEFINE x == Canon(t)
<1>3. /\ x = ExtendHashes(<<>>, t) /\ Len(x) = n \div BlockSize /\ ChainOf(x, t)
      /\ x \in Seq(Seq(Token)) /\ ChainInOrder(x)
  BY <1>2, CanonIsChain
<1> HIDE DEF x
<1>4. ASSUME NEW j \in 1 .. Len(x)
      PROVE  x[j] \in TokenSeqs
  <2>1. j \in Nat /\ j # 0 /\ j <= n \div BlockSize /\ x[j] \in Seq(Token) /\ Len(x[j]) = j * BlockSize
    BY <1>3 DEF ChainInOrder
  <2>2. j * BlockSize \in Nat /\ j * BlockSize <= n /\ j * BlockSize # 0
    BY <1>2, <2>1, BlockEnds, Times
  <2>3. x[j] # <<>> /\ Len(x[j]) <= MaxSeqLen
    BY ClientAssumption, <1>1, <2>1, <2>2
  <2> QED
    BY <2>1, <2>3, InTokenSeqs
<1>5. x \in Seq(TokenSeqs)
  BY <1>3, <1>4
<1>6. ASSUME NEW i \in 1 .. Len(x), NEW j \in 1 .. Len(x), x[i] = x[j]
      PROVE  i = j
  <2>1. i \in Nat /\ j \in Nat /\ i * BlockSize = j * BlockSize
    BY <1>3, <1>6 DEF ChainInOrder
  <2> QED
    BY <2>1, Times
<1> QED
  BY <1>1, <1>2, <1>3, <1>5, <1>6 DEF LedgerFacts!Injective

\* The assumptions the ledger makes hold of what stands for its constants.
LEMMA LedgerAssumptionHolds ==
  /\ LedgerFacts!IsFiniteSet(Requests)
  /\ LedgerFacts!IsFiniteSet(Blocks)
  /\ NoHash \notin TokenSeqs
  /\ {ExtendHashes(<<>>, s) : s \in TokenSeqs} \subseteq Seq(TokenSeqs)
  /\ \A c \in {ExtendHashes(<<>>, s) : s \in TokenSeqs} : LedgerFacts!Injective(c)
<1>1. LedgerFacts!IsFiniteSet(Requests) /\ LedgerFacts!IsFiniteSet(Blocks)
  BY CacheAssumption, Zenon DEF LedgerFacts!IsFiniteSet, IsFiniteSet
<1>2. NoHash \notin TokenSeqs
  BY ChainOfTokens DEF NoHash
<1>3. \A c \in {ExtendHashes(<<>>, s) : s \in TokenSeqs} : c \in Seq(TokenSeqs) /\ LedgerFacts!Injective(c)
  BY ChainOfTokens
<1> QED
  BY <1>1, <1>2, <1>3

LEMMA SameLedgerSpec ==
  /\ Ledger!Init <=> LedgerFacts!Init
  /\ Ledger!Next <=> LedgerFacts!Next
  /\ Ledger!vars = LedgerFacts!vars /\ (Ledger!vars)' = (LedgerFacts!vars)'
<1>1. Ledger!Init <=> LedgerFacts!Init
  BY Zenon DEF Ledger!Init, LedgerFacts!Init, LedgerChain, Filled
<1>2. Ledger!Next <=> LedgerFacts!Next
  BY Zenon DEF Ledger!Next, LedgerFacts!Next, Ledger!Admit, LedgerFacts!Admit, Ledger!Grow, LedgerFacts!Grow,
               Ledger!Extend, LedgerFacts!Extend, Ledger!Execute, LedgerFacts!Execute, Ledger!Commit,
               LedgerFacts!Commit, Ledger!Free, LedgerFacts!Free, Ledger!Reset, LedgerFacts!Reset, Ledger!Hits,
               LedgerFacts!Hits, Ledger!Draws, LedgerFacts!Draws, Ledger!Evict, LedgerFacts!Evict, Ledger!Elems,
               LedgerFacts!Elems, Ledger!Injective, LedgerFacts!Injective, Ledger!Unindexed,
               LedgerFacts!Unindexed, Ledger!Pos, LedgerFacts!Pos, Ledger!Cardinality,
               LedgerFacts!Cardinality, LedgerChain, Filled
<1>3. Ledger!vars = LedgerFacts!vars
  BY DEF Ledger!vars, LedgerFacts!vars, LedgerChain, Filled
<1>4. (Ledger!vars)' = (LedgerFacts!vars)'
  BY DEF Ledger!vars, LedgerFacts!vars, LedgerChain, Filled
<1> QED
  BY <1>1, <1>2, <1>3, <1>4

\* What the allocator promises those who call it: counts are holders and the
\* free queue has the rest, a block the index advertises holds the K/V of the
\* prefix it is advertised for, and what a request counts as computed is the
\* K/V of its own prefix.
THEOREM AllocatorTheorem ==
  Spec => [](Ledger!RefCountsAreHolders /\ Ledger!CachedBlocksAreWritten /\ Ledger!ReadsOwnPrefix)
<1>1. LedgerFacts!Spec => []LedgerFacts!RefCountsAreHolders
  BY LedgerAssumptionHolds, LedgerFacts!RefCountTheorem
<1>2. LedgerFacts!Spec => []LedgerFacts!CachedBlocksAreWritten
  BY LedgerAssumptionHolds, LedgerFacts!CachedTheorem
<1>3. LedgerFacts!Spec => []LedgerFacts!ReadsOwnPrefix
  BY LedgerAssumptionHolds, LedgerFacts!PrefixTheorem
<1>4. [Ledger!Next]_(Ledger!vars) => [LedgerFacts!Next]_(LedgerFacts!vars)
  BY SameLedgerSpec
<1>5. Ledger!Init => LedgerFacts!Init
  BY SameLedgerSpec
<1>6. Ledger!Spec => LedgerFacts!Spec
  BY <1>4, <1>5, PTL DEF Ledger!Spec, LedgerFacts!Spec
<1>7. LedgerFacts!RefCountsAreHolders => Ledger!RefCountsAreHolders
  BY Zenon DEF Ledger!RefCountsAreHolders, LedgerFacts!RefCountsAreHolders, Ledger!Holders, LedgerFacts!Holders,
               Ledger!Elems, LedgerFacts!Elems, Ledger!Cardinality, LedgerFacts!Cardinality
<1>8. LedgerFacts!CachedBlocksAreWritten => Ledger!CachedBlocksAreWritten
  BY Zenon DEF Ledger!CachedBlocksAreWritten, LedgerFacts!CachedBlocksAreWritten
<1>9. LedgerFacts!ReadsOwnPrefix => Ledger!ReadsOwnPrefix
  BY Zenon DEF Ledger!ReadsOwnPrefix, LedgerFacts!ReadsOwnPrefix, LedgerChain, Filled
<1> QED
  BY <1>1, <1>2, <1>3, <1>6, <1>7, <1>8, <1>9, RefinementTheorem, PTL DEF ImplementsLedger

=============================================================================
