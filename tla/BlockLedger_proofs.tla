------------------------- MODULE BlockLedger_proofs -------------------------
(***************************************************************************)
(* The invariants of the paged KV cache, for every number of blocks,       *)
(* requests and hashes.                                                    *)
(***************************************************************************)
EXTENDS BlockLedger, FiniteSetTheorems, SequenceTheorems, TLAPS

\* A function on 1 .. k is a sequence of length k.
LEMMA FunctionIsSeq ==
  ASSUME NEW S, NEW k \in Nat, NEW f \in [1 .. k -> S]
  PROVE  f \in Seq(S) /\ Len(f) = k /\ DOMAIN f = 1 .. k
  OBVIOUS

\* What get_new_blocks returns: distinct blocks of the ones available.
LEMMA DrawsAreAvailable ==
  ASSUME NEW avail \in SUBSET Blocks, NEW n \in Nat, NEW f \in Draws(avail, n)
  PROVE  f \in Seq(Blocks) /\ Elems(f) \subseteq avail /\ Injective(f)
<1>1. f \in [1 .. n -> avail]
  BY DEF Draws
<1>2. f \in Seq(Blocks) /\ Len(f) = n
  BY <1>1, FunctionIsSeq
<1> QED BY <1>1, <1>2 DEF Draws, Elems

\* The blocks of a concatenation, position by position.
LEMMA ConcatBlocks ==
  ASSUME NEW s \in Seq(Blocks), NEW t \in Seq(Blocks)
  PROVE  /\ s \o t \in Seq(Blocks)
         /\ Len(s \o t) = Len(s) + Len(t)
         /\ \A i \in 1 .. Len(s) : (s \o t)[i] = s[i]
         /\ \A i \in Len(s) + 1 .. Len(s) + Len(t) : (s \o t)[i] = t[i - Len(s)]
         /\ \A i \in 1 .. Len(t) : (s \o t)[Len(s) + i] = t[i]
  OBVIOUS

LEMMA ConcatElems ==
  ASSUME NEW s \in Seq(Blocks), NEW t \in Seq(Blocks)
  PROVE  Elems(s \o t) = Elems(s) \cup Elems(t)
<1>1. ASSUME NEW b \in Elems(s \o t) PROVE b \in Elems(s) \cup Elems(t)
  <2>1. PICK i \in 1 .. Len(s) + Len(t) : (s \o t)[i] = b
    BY <1>1, ConcatBlocks DEF Elems
  <2>2. CASE i <= Len(s)
    BY <2>1, <2>2, ConcatBlocks DEF Elems
  <2>3. CASE i > Len(s)
    <3>1. i - Len(s) \in 1 .. Len(t) /\ t[i - Len(s)] = b
      BY <2>1, <2>3, ConcatBlocks
    <3> QED BY <3>1 DEF Elems
  <2> QED BY <2>2, <2>3
<1>2. ASSUME NEW b \in Elems(s) PROVE b \in Elems(s \o t)
  <2>1. PICK i \in 1 .. Len(s) : s[i] = b
    BY <1>2 DEF Elems
  <2>2. i \in 1 .. Len(s \o t) /\ (s \o t)[i] = b
    BY <2>1, ConcatBlocks
  <2> QED BY <2>2 DEF Elems
<1>3. ASSUME NEW b \in Elems(t) PROVE b \in Elems(s \o t)
  <2>1. PICK i \in 1 .. Len(t) : t[i] = b
    BY <1>3 DEF Elems
  <2>2. Len(s) + i \in 1 .. Len(s \o t) /\ (s \o t)[Len(s) + i] = b
    BY <2>1, ConcatBlocks
  <2> QED BY <2>2 DEF Elems
<1> QED BY <1>1, <1>2, <1>3

LEMMA ConcatInjective ==
  ASSUME NEW s \in Seq(Blocks), NEW t \in Seq(Blocks),
         Injective(s), Injective(t), Elems(s) \cap Elems(t) = {}
  PROVE  Injective(s \o t)
<1> SUFFICES ASSUME NEW i \in 1 .. Len(s) + Len(t), NEW j \in 1 .. Len(s) + Len(t),
                    (s \o t)[i] = (s \o t)[j]
             PROVE  i = j
  BY ConcatBlocks DEF Injective
<1>1. ASSUME NEW m \in 1 .. Len(s) + Len(t)
      PROVE  \/ m \in 1 .. Len(s) /\ (s \o t)[m] = s[m] /\ s[m] \in Elems(s)
             \/ /\ m - Len(s) \in 1 .. Len(t)
                /\ (s \o t)[m] = t[m - Len(s)]
                /\ t[m - Len(s)] \in Elems(t)
  <2>1. CASE m <= Len(s)
    <3>1. m \in 1 .. Len(s) /\ (s \o t)[m] = s[m]
      BY <2>1, ConcatBlocks
    <3> QED BY <3>1 DEF Elems
  <2>2. CASE m > Len(s)
    <3>1. m - Len(s) \in 1 .. Len(t) /\ (s \o t)[m] = t[m - Len(s)]
      BY <2>2, ConcatBlocks
    <3> QED BY <3>1 DEF Elems
  <2> QED BY <2>1, <2>2
<1>2. CASE i <= Len(s) /\ j <= Len(s)
  BY <1>2, ConcatBlocks DEF Injective
<1>3. CASE i > Len(s) /\ j > Len(s)
  <2>1. i - Len(s) \in 1 .. Len(t) /\ j - Len(s) \in 1 .. Len(t)
    BY <1>3
  <2>2. t[i - Len(s)] = t[j - Len(s)]
    BY <1>3, ConcatBlocks
  <2> QED BY <2>1, <2>2 DEF Injective
<1>4. CASE ~(i <= Len(s) <=> j <= Len(s))
  BY <1>1, <1>4
<1> QED BY <1>2, <1>3, <1>4

-----------------------------------------------------------------------------
\* A block of the free queue is in nobody's list.
LEMMA FreeIsUnheld ==
  ASSUME TypeOK, RefCountsAreHolders, NEW b \in free, NEW r \in Requests
  PROVE  b \notin Elems(held[r])
<1>1. ref_cnt[b] = 0 /\ b \in Blocks
  BY DEF RefCountsAreHolders, TypeOK
<1>2. Holders(b) \subseteq Requests /\ IsFiniteSet(Requests)
  BY LedgerAssumption DEF Holders
<1>3. IsFiniteSet(Holders(b))
  BY <1>2, FS_Subset
<1>4. Holders(b) = {}
  BY <1>1, <1>3, FS_EmptySet DEF RefCountsAreHolders
<1> QED BY <1>4 DEF Holders

\* One holder more or less moves the number of holders by one.
LEMMA HolderStep ==
  ASSUME NEW S \in SUBSET Requests, NEW r \in Requests
  PROVE  /\ Cardinality(S) \in Nat
         /\ r \notin S => Cardinality(S \cup {r}) = Cardinality(S) + 1
         /\ r \in S => Cardinality(S \ {r}) = Cardinality(S) - 1
<1>1. IsFiniteSet(S)
  BY LedgerAssumption, FS_Subset
<1> QED BY <1>1, FS_CardinalityType, FS_AddElement, FS_RemoveElement

\* The position Pos finds in a list without repetitions.
LEMMA PosOfElement ==
  ASSUME HeldOnce, NEW r \in Requests, NEW i \in 1 .. Len(held[r])
  PROVE  Pos(r, held[r][i]) = i
  BY DEF Pos, HeldOnce, Injective

\* The parts of the invariant that only look at the lists and the counts.
LEMMA SameHolders ==
  ASSUME RefCountsAreHolders, HeldOnce, UNCHANGED <<ref_cnt, free, held>>
  PROVE  RefCountsAreHolders' /\ HeldOnce'
<1>1. \A b \in Blocks : Holders(b)' = Holders(b)
  BY DEF Holders, Elems
<1>2. RefCountsAreHolders'
  BY <1>1 DEF RefCountsAreHolders
<1> QED BY <1>2 DEF HeldOnce, Injective

\* The parts that only look at the lists and the hashes.
LEMMA SameHashes ==
  ASSUME IndexAgrees, SharedBlocksAreCached, UNCHANGED <<block_hash, index, held>>
  PROVE  IndexAgrees' /\ SharedBlocksAreCached'
<1>1. IndexAgrees'
  BY DEF IndexAgrees
<1>2. SharedBlocksAreCached'
  BY DEF SharedBlocksAreCached, Elems
<1> QED BY <1>1, <1>2

LEMMA InitIInv == Init => IInv
<1> SUFFICES ASSUME Init PROVE IInv
  OBVIOUS
<1>1. \A b \in Blocks : Holders(b) = {}
  BY DEF Init, Holders, Elems
<1>2. RefCountsAreHolders
  BY <1>1, FS_EmptySet DEF Init, RefCountsAreHolders
<1>3. TypeOK
  BY DEF Init, TypeOK
<1>4. IndexAgrees /\ SharedBlocksAreCached /\ CachedBlocksAreWritten /\ CachedInPlace
  BY LedgerAssumption
  DEF Init, IndexAgrees, SharedBlocksAreCached, CachedBlocksAreWritten, CachedInPlace, Elems
<1>5. ReadsOwnPrefix /\ HeldOnce
  BY DEF Init, ReadsOwnPrefix, HeldOnce, Injective
<1> QED BY <1>2, <1>3, <1>4, <1>5 DEF IInv

-----------------------------------------------------------------------------
\* Admission and growth both hand request r the list base \o fresh: base is
\* the adopted prefix or the list r already has, fresh comes from the free
\* queue.  The first k blocks of base count as computed under the chain c.
LEMMA GiveIInv ==
  ASSUME IInv, NEW r \in Requests,
         NEW base \in Seq(Blocks), NEW fresh \in Seq(Blocks),
         Injective(base), Injective(fresh),
         Elems(fresh) \subseteq free, Elems(base) \cap Elems(fresh) = {},
         Elems(held[r]) \subseteq Elems(base),
         \A b \in Elems(base) \ Elems(held[r]) : block_hash[b] # NoHash,
         NEW c \in Chains \cup {<<>>}, NEW k \in Nat,
         k <= Len(base), k <= Len(c),
         \A i \in 1 .. k : content[base[i]] = c[i],
         \A i \in 1 .. Len(base) : block_hash[base[i]] # NoHash =>
                                      i <= k /\ block_hash[base[i]] = c[i],
         ref_cnt' = [b \in Blocks |->
           ref_cnt[b] + IF b \in (Elems(base) \cup Elems(fresh)) \ Elems(held[r])
                        THEN 1 ELSE 0],
         free' = free \ (Elems(base) \cup Elems(fresh)),
         Evict(fresh),
         held' = [held EXCEPT ![r] = base \o fresh],
         chain' = [chain EXCEPT ![r] = c],
         computed' = [computed EXCEPT ![r] = k],
         content' = content
  PROVE  IInv'
<1> DEFINE new == base \o fresh
<1>1. /\ new \in Seq(Blocks)
      /\ Len(new) = Len(base) + Len(fresh)
      /\ \A i \in 1 .. Len(base) : new[i] = base[i]
      /\ Elems(new) = Elems(base) \cup Elems(fresh)
      /\ Injective(new)
  BY ConcatBlocks, ConcatElems, ConcatInjective
<1>2. held'[r] = new /\ \A s \in Requests \ {r} : held'[s] = held[s]
  BY DEF IInv, TypeOK
<1> HIDE DEF new
<1>3. Elems(base) \subseteq Blocks /\ Elems(fresh) \subseteq Blocks
  BY DEF Elems
<1>4. \A s \in Requests : Elems(fresh) \cap Elems(held[s]) = {}
  BY FreeIsUnheld DEF IInv
<1>5. TypeOK'
  <2>1. ref_cnt' \in [Blocks -> Nat]
    BY DEF IInv, TypeOK
  <2>2. block_hash' \in [Blocks -> Hashes \cup {NoHash}] /\ index' \subseteq Hashes \X Blocks
    BY DEF IInv, TypeOK, Evict
  <2>3. held' \in [Requests -> Seq(Blocks)]
    BY <1>1 DEF IInv, TypeOK, new
  <2>4. chain' \in [Requests -> Chains \cup {<<>>}] /\ computed' \in [Requests -> Nat]
    BY DEF IInv, TypeOK
  <2> QED BY <2>1, <2>2, <2>3, <2>4 DEF IInv, TypeOK
<1>6. ASSUME NEW b \in Blocks
      PROVE  ref_cnt'[b] = Cardinality(Holders(b)')
  <2>1. Holders(b) \subseteq Requests /\ ref_cnt[b] = Cardinality(Holders(b)) /\ ref_cnt[b] \in Nat
    BY DEF Holders, IInv, RefCountsAreHolders, TypeOK
  <2>2. CASE b \in Elems(new) \ Elems(held[r])
    <3>1. r \notin Holders(b) /\ Holders(b)' = Holders(b) \cup {r}
      BY <1>1, <1>2, <2>2 DEF Holders
    <3>2. ref_cnt'[b] = ref_cnt[b] + 1
      BY <1>1, <2>2
    <3> QED BY <2>1, <3>1, <3>2, HolderStep
  <2>3. CASE b \notin Elems(new) \ Elems(held[r])
    <3>1. Holders(b)' = Holders(b)
      BY <1>1, <1>2, <2>3 DEF Holders
    <3>2. ref_cnt'[b] = ref_cnt[b]
      BY <1>1, <2>1, <2>3
    <3> QED BY <2>1, <3>1, <3>2
  <2> QED BY <2>2, <2>3
<1>7. free' = {b \in Blocks : ref_cnt'[b] = 0}
  <2>1. ASSUME NEW b \in Blocks PROVE b \in free' <=> ref_cnt'[b] = 0
    <3>1. ref_cnt[b] \in Nat /\ (b \in free <=> ref_cnt[b] = 0)
      BY DEF IInv, RefCountsAreHolders, TypeOK
    <3>2. b \in Elems(held[r]) => b \notin free
      BY FreeIsUnheld DEF IInv
    <3> QED BY <3>1, <3>2
  <2> QED BY <2>1 DEF IInv, TypeOK
<1>8. IndexAgrees'
  BY LedgerAssumption DEF IInv, IndexAgrees, Evict, TypeOK
<1>9. \A b \in Blocks : block_hash'[b] = IF b \in Elems(fresh) THEN NoHash ELSE block_hash[b]
  BY DEF Evict
<1>10. SharedBlocksAreCached'
  <2>1. ASSUME NEW s \in Requests, NEW t \in Requests, s # t, t # r,
               NEW b \in Elems(held'[s]), b \in Elems(held'[t])
        PROVE  block_hash'[b] # NoHash
    <3>1. b \in Elems(held[t])
      BY <1>2, <2>1
    <3>2. b \in Blocks
      BY <3>1 DEF IInv, TypeOK, Elems
    <3>3. b \notin Elems(fresh)
      BY <1>4, <3>1
    <3>4. b \in Elems(held[s]) \/ (s = r /\ b \in Elems(base))
      BY <1>1, <1>2, <2>1, <3>3
    <3>5. b \in Elems(held[s]) => block_hash[b] # NoHash
      BY <2>1, <3>1 DEF IInv, SharedBlocksAreCached
    <3>6. block_hash[b] # NoHash
      BY <3>4, <3>5
    <3> QED BY <1>9, <3>2, <3>3, <3>6
  <2>2. ASSUME NEW s \in Requests, NEW t \in Requests, s # t,
               NEW b \in Elems(held'[s]) \cap Elems(held'[t])
        PROVE  block_hash'[b] # NoHash
    BY <2>1, <2>2
  <2> QED BY <2>2 DEF SharedBlocksAreCached, Elems
<1>11. CachedBlocksAreWritten'
  BY <1>9 DEF IInv, CachedBlocksAreWritten
<1>12. ReadsOwnPrefix'
  <2>1. computed'[r] = k /\ chain'[r] = c
    BY DEF IInv, TypeOK
  <2>2. \A s \in Requests \ {r} : computed'[s] = computed[s] /\ chain'[s] = chain[s]
    BY DEF IInv, TypeOK
  <2>3. k <= Len(new) /\ \A i \in 1 .. k : content[new[i]] = c[i]
    <3>1. Len(base) \in Nat /\ Len(fresh) \in Nat
      OBVIOUS
    <3>2. \A i \in 1 .. k : i \in 1 .. Len(base)
      BY <3>1
    <3> QED BY <1>1, <3>1, <3>2
  <2>4. ASSUME NEW s \in Requests
        PROVE  /\ computed'[s] <= Len(held'[s])
               /\ computed'[s] <= Len(chain'[s])
               /\ \A i \in 1 .. computed'[s] : content[held'[s][i]] = chain'[s][i]
    <3>1. CASE s = r
      BY <1>2, <2>1, <2>3, <3>1
    <3>2. CASE s # r
      BY <1>2, <2>2, <3>2 DEF IInv, ReadsOwnPrefix
    <3> QED BY <3>1, <3>2
  <2> QED BY <2>4 DEF ReadsOwnPrefix
<1>13. HeldOnce'
  BY <1>1, <1>2 DEF IInv, HeldOnce
<1>14. CachedInPlace'
  <2> SUFFICES ASSUME NEW s \in Requests, NEW i \in 1 .. Len(held'[s]),
                      block_hash'[held'[s][i]] # NoHash
               PROVE  i <= computed'[s] /\ block_hash'[held'[s][i]] = chain'[s][i]
    BY DEF CachedInPlace
  <2>0. held'[s][i] \in Blocks /\ held'[s][i] \in Elems(held'[s])
    BY <1>5 DEF TypeOK, Elems
  <2>1. CASE s = r
    <3>1. new[i] \notin Elems(fresh) /\ block_hash'[new[i]] = block_hash[new[i]]
      BY <1>2, <1>9, <2>0, <2>1
    <3>2. i \in 1 .. Len(base)
      <4>1. CASE i > Len(base)
        <5>1. i - Len(base) \in 1 .. Len(fresh) /\ new[i] = fresh[i - Len(base)]
          BY <1>1, <1>2, <2>1, <4>1, ConcatBlocks DEF new
        <5> QED BY <3>1, <5>1 DEF Elems
      <4> QED BY <1>1, <1>2, <2>1, <4>1
    <3> QED BY <1>1, <1>2, <2>1, <3>1, <3>2 DEF IInv, TypeOK
  <2>2. CASE s # r
    BY <1>2, <1>9, <2>0, <2>2 DEF IInv, CachedInPlace, TypeOK
  <2> QED BY <2>1, <2>2
<1> QED
  BY <1>5, <1>6, <1>7, <1>8, <1>10, <1>11, <1>12, <1>13, <1>14
  DEF IInv, RefCountsAreHolders

LEMMA AdmitIInv ==
  ASSUME IInv, NEW r \in Requests, NEW c \in Chains, NEW k \in 0 .. Len(c),
         NEW n \in Nat, Admit(r, c, k, n)
  PROVE  IInv'
<1>0. c \in Seq(Hashes) /\ Injective(c) /\ Len(c) \in Nat /\ NoHash \notin Hashes
  BY LedgerAssumption
<1>1. PICK adopted \in Hits(c, k) : \E fresh \in Draws(free \ Elems(adopted), n) :
       /\ ref_cnt' = [b \in Blocks |->
            ref_cnt[b] + IF b \in Elems(adopted) \cup Elems(fresh) THEN 1 ELSE 0]
       /\ free' = free \ (Elems(adopted) \cup Elems(fresh))
       /\ Evict(fresh)
       /\ held' = [held EXCEPT ![r] = adopted \o fresh]
  BY DEF Admit
<1>2. PICK fresh \in Draws(free \ Elems(adopted), n) :
       /\ ref_cnt' = [b \in Blocks |->
            ref_cnt[b] + IF b \in Elems(adopted) \cup Elems(fresh) THEN 1 ELSE 0]
       /\ free' = free \ (Elems(adopted) \cup Elems(fresh))
       /\ Evict(fresh)
       /\ held' = [held EXCEPT ![r] = adopted \o fresh]
  BY <1>1
<1>3. adopted \in [1 .. k -> Blocks] /\ \A i \in 1 .. k : block_hash[adopted[i]] = c[i]
  BY DEF Hits
<1>4. adopted \in Seq(Blocks) /\ Len(adopted) = k /\ k \in Nat
  BY <1>0, <1>3, FunctionIsSeq
<1>5. \A i \in 1 .. k : c[i] \in Hashes
  BY <1>0
<1>6. Injective(adopted)
  BY <1>0, <1>3, <1>4 DEF Injective
<1>7. /\ fresh \in Seq(Blocks) /\ Injective(fresh)
      /\ Elems(fresh) \subseteq free /\ Elems(adopted) \cap Elems(fresh) = {}
  <2>1. free \ Elems(adopted) \in SUBSET Blocks
    BY DEF IInv, TypeOK
  <2> QED BY <1>2, <2>1, DrawsAreAvailable
<1>8. Elems(held[r]) = {} /\ chain' = [chain EXCEPT ![r] = c]
      /\ computed' = [computed EXCEPT ![r] = k] /\ content' = content
  BY DEF Admit, Elems
<1>9. \A b \in Elems(adopted) : block_hash[b] # NoHash
  BY <1>0, <1>3, <1>4, <1>5 DEF Elems
<1>10. \A i \in 1 .. k : content[adopted[i]] = c[i]
  BY <1>0, <1>3, <1>5 DEF IInv, CachedBlocksAreWritten
<1>11. ref_cnt' = [b \in Blocks |->
         ref_cnt[b] + IF b \in (Elems(adopted) \cup Elems(fresh)) \ Elems(held[r])
                      THEN 1 ELSE 0]
  BY <1>2, <1>8
<1>12. \A i \in 1 .. Len(adopted) : block_hash[adopted[i]] # NoHash =>
                                       i <= k /\ block_hash[adopted[i]] = c[i]
  BY <1>3, <1>4
<1>13. k <= Len(adopted) /\ k <= Len(c) /\ c \in Chains \cup {<<>>}
  BY <1>0, <1>4
<1>14. /\ Elems(held[r]) \subseteq Elems(adopted)
       /\ \A b \in Elems(adopted) \ Elems(held[r]) : block_hash[b] # NoHash
  BY <1>8, <1>9
<1> QED
  BY <1>2, <1>4, <1>6, <1>7, <1>8, <1>10, <1>11, <1>12, <1>13, <1>14, GiveIInv

LEMMA GrowIInv ==
  ASSUME IInv, NEW r \in Requests, NEW n \in Nat, Grow(r, n)
  PROVE  IInv'
<1>1. PICK fresh \in Draws(free, n) :
       /\ ref_cnt' = [b \in Blocks |->
                        ref_cnt[b] + IF b \in Elems(fresh) THEN 1 ELSE 0]
       /\ free' = free \ Elems(fresh)
       /\ Evict(fresh)
       /\ held' = [held EXCEPT ![r] = held[r] \o fresh]
  BY DEF Grow
<1>2. fresh \in Seq(Blocks) /\ Injective(fresh) /\ Elems(fresh) \subseteq free
  BY DrawsAreAvailable DEF IInv, TypeOK
<1>3. Elems(held[r]) \cap Elems(fresh) = {} /\ Elems(held[r]) \cap free = {}
  BY <1>2, FreeIsUnheld DEF IInv
<1>4. held[r] \in Seq(Blocks) /\ Injective(held[r])
  BY DEF IInv, TypeOK, HeldOnce
<1>5. /\ computed[r] \in Nat /\ computed[r] <= Len(held[r]) /\ computed[r] <= Len(chain[r])
      /\ chain[r] \in Chains \cup {<<>>}
      /\ \A i \in 1 .. computed[r] : content[held[r][i]] = chain[r][i]
  BY DEF IInv, TypeOK, ReadsOwnPrefix
<1>6. \A i \in 1 .. Len(held[r]) : block_hash[held[r][i]] # NoHash =>
        i <= computed[r] /\ block_hash[held[r][i]] = chain[r][i]
  BY DEF IInv, CachedInPlace
<1>7. /\ chain' = [chain EXCEPT ![r] = chain[r]]
      /\ computed' = [computed EXCEPT ![r] = computed[r]]
      /\ content' = content
  BY DEF Grow, IInv, TypeOK
<1>8. free' = free \ (Elems(held[r]) \cup Elems(fresh))
  BY <1>1, <1>3
<1>9. ref_cnt' = [b \in Blocks |->
        ref_cnt[b] + IF b \in (Elems(held[r]) \cup Elems(fresh)) \ Elems(held[r])
                     THEN 1 ELSE 0]
  BY <1>1, <1>3
<1>10. /\ Elems(held[r]) \subseteq Elems(held[r])
       /\ \A b \in Elems(held[r]) \ Elems(held[r]) : block_hash[b] # NoHash
  OBVIOUS
<1> QED
  BY <1>1, <1>2, <1>3, <1>4, <1>5, <1>6, <1>7, <1>8, <1>9, <1>10, GiveIInv

-----------------------------------------------------------------------------
LEMMA ExtendIInv ==
  ASSUME IInv, NEW r \in Requests, NEW c \in Chains, Extend(r, c)
  PROVE  IInv'
<1>0. /\ chain[r] \in Seq(Hashes) /\ c \in Seq(Hashes)
      /\ chain \in [Requests -> Chains \cup {<<>>}]
  <2>1. Chains \subseteq Seq(Hashes) /\ <<>> \in Seq(Hashes)
    BY LedgerAssumption
  <2>2. chain \in [Requests -> Chains \cup {<<>>}]
    BY DEF IInv, TypeOK
  <2> QED BY <2>1, <2>2
<1>1. /\ Len(c) = Len(chain[r]) + 1
      /\ \A i \in 1 .. Len(chain[r]) : c[i] = chain[r][i]
      /\ chain' = [chain EXCEPT ![r] = c]
  BY DEF Extend
<1>2. chain'[r] = c /\ \A s \in Requests \ {r} : chain'[s] = chain[s]
  BY <1>1 DEF IInv, TypeOK
<1>3. computed[r] \in Nat /\ computed[r] <= Len(chain[r]) /\ Len(chain[r]) \in Nat
  BY <1>0 DEF IInv, TypeOK, ReadsOwnPrefix
<1>4. computed[r] <= Len(c) /\ \A i \in 1 .. computed[r] : c[i] = chain[r][i]
  BY <1>1, <1>3
<1>5. TypeOK'
  BY <1>1 DEF Extend, IInv, TypeOK
<1>6. RefCountsAreHolders' /\ IndexAgrees' /\ SharedBlocksAreCached'
      /\ CachedBlocksAreWritten' /\ HeldOnce'
  BY SameHolders, SameHashes DEF Extend, IInv, CachedBlocksAreWritten
<1>7. ASSUME NEW s \in Requests
      PROVE  /\ computed[s] <= Len(held[s])
             /\ computed[s] <= Len(chain'[s])
             /\ \A i \in 1 .. computed[s] : content[held[s][i]] = chain'[s][i]
  BY <1>2, <1>4 DEF IInv, ReadsOwnPrefix
<1>8. ReadsOwnPrefix'
  BY <1>7 DEF Extend, ReadsOwnPrefix
<1>9. ASSUME NEW s \in Requests, NEW i \in 1 .. Len(held[s]), block_hash[held[s][i]] # NoHash
      PROVE  i <= computed[s] /\ block_hash[held[s][i]] = chain'[s][i]
  <2>1. i <= computed[s] /\ block_hash[held[s][i]] = chain[s][i] /\ computed[s] \in Nat
    BY <1>9 DEF IInv, CachedInPlace, TypeOK
  <2>2. i \in 1 .. computed[s]
    BY <2>1
  <2> QED BY <1>2, <1>4, <2>1, <2>2
<1>10. CachedInPlace'
  BY <1>9 DEF Extend, CachedInPlace
<1> QED BY <1>5, <1>6, <1>8, <1>10 DEF IInv

\* The block a pass writes is nobody else's and is not in the index.
LEMMA ExecuteIInv ==
  ASSUME IInv, NEW r \in Requests, NEW full \in BOOLEAN, Execute(r, full)
  PROVE  IInv'
<1> DEFINE i == computed[r] + 1
           b == held[r][i]
<1>1. i \in 1 .. Len(held[r]) /\ b \in Blocks /\ computed[r] \in Nat /\ Len(held[r]) \in Nat
  BY DEF IInv, TypeOK, Execute
<1>2. block_hash[b] = NoHash
  BY <1>1 DEF IInv, CachedInPlace
<1>3. \A s \in Requests : \A j \in 1 .. Len(held[s]) : held[s][j] = b => s = r /\ j = i
  <2> SUFFICES ASSUME NEW s \in Requests, NEW j \in 1 .. Len(held[s]), held[s][j] = b
               PROVE  s = r /\ j = i
    OBVIOUS
  <2>1. b \in Elems(held[s]) /\ b \in Elems(held[r])
    BY <1>1 DEF Elems
  <2>2. s = r
    BY <1>2, <2>1 DEF IInv, SharedBlocksAreCached
  <2> QED BY <1>1, <2>2 DEF IInv, HeldOnce, Injective
<1>4. /\ content' = [content EXCEPT ![b] = IF full THEN chain[r][i] ELSE NoHash]
      /\ computed' = [computed EXCEPT ![r] = IF full THEN i ELSE @]
      /\ full => i <= Len(chain[r])
      /\ UNCHANGED <<ref_cnt, block_hash, free, index, held, chain>>
  BY DEF Execute
<1>5. full => chain[r] \in Seq(Hashes) /\ chain[r][i] \in Hashes
  BY <1>1, <1>4, LedgerAssumption DEF IInv, TypeOK
<1> HIDE DEF i, b
<1>6. TypeOK'
  <2>1. content' \in [Blocks -> Hashes \cup {NoHash}]
    BY <1>4, <1>5 DEF IInv, TypeOK
  <2>2. computed' \in [Requests -> Nat]
    BY <1>1, <1>4 DEF IInv, TypeOK, i
  <2> QED BY <1>4, <2>1, <2>2 DEF IInv, TypeOK
<1>7. RefCountsAreHolders' /\ IndexAgrees' /\ SharedBlocksAreCached' /\ HeldOnce'
  BY <1>4, SameHolders, SameHashes DEF IInv
<1>8. CachedBlocksAreWritten'
  BY <1>2, <1>4 DEF IInv, CachedBlocksAreWritten, TypeOK
<1>9. CachedInPlace'
  <2>1. \A s \in Requests : computed'[s] \in Nat /\ computed[s] \in Nat /\ computed[s] <= computed'[s]
    BY <1>1, <1>4 DEF IInv, TypeOK, i
  <2>2. ASSUME NEW s \in Requests, NEW j \in 1 .. Len(held[s]), block_hash[held[s][j]] # NoHash
        PROVE  j <= computed'[s] /\ block_hash[held[s][j]] = chain[s][j]
    BY <2>1, <2>2 DEF IInv, CachedInPlace
  <2> QED BY <1>4, <2>2 DEF CachedInPlace
<1>10. ASSUME NEW s \in Requests
       PROVE  /\ computed'[s] <= Len(held[s])
              /\ computed'[s] <= Len(chain[s])
              /\ \A j \in 1 .. computed'[s] : content'[held[s][j]] = chain[s][j]
  <2>0. /\ computed[s] <= Len(held[s]) /\ computed[s] <= Len(chain[s])
        /\ \A j \in 1 .. computed[s] : content[held[s][j]] = chain[s][j]
        /\ computed[s] \in Nat /\ Len(held[s]) \in Nat
        /\ \A j \in 1 .. Len(held[s]) : held[s][j] \in Blocks
    BY DEF IInv, ReadsOwnPrefix, TypeOK
  <2>1. CASE s = r /\ full
    <3>1. computed'[s] = i /\ i <= Len(held[s]) /\ i <= Len(chain[s])
      BY <1>1, <1>4, <2>1 DEF IInv, TypeOK
    <3>2. ASSUME NEW j \in 1 .. i PROVE content'[held[s][j]] = chain[s][j]
      <4>1. CASE j = i
        BY <1>1, <1>4, <2>1, <4>1 DEF IInv, TypeOK, b
      <4>2. CASE j # i
        <5>1. j \in 1 .. computed[s] /\ j \in 1 .. Len(held[s])
          BY <1>1, <2>0, <2>1, <3>2, <4>2 DEF i
        <5>2. held[s][j] # b /\ held[s][j] \in Blocks
          BY <1>3, <2>0, <4>2, <5>1
        <5> QED BY <1>4, <2>0, <5>1, <5>2 DEF IInv, TypeOK
      <4> QED BY <4>1, <4>2
    <3> QED BY <3>1, <3>2
  <2>2. CASE ~(s = r /\ full)
    <3>1. computed'[s] = computed[s]
      BY <1>4, <2>2 DEF IInv, TypeOK
    <3>2. ASSUME NEW j \in 1 .. computed[s] PROVE content'[held[s][j]] = chain[s][j]
      <4>1. j \in 1 .. Len(held[s]) /\ j # computed[s] + 1
        BY <2>0, <3>2
      <4>2. held[s][j] # b /\ held[s][j] \in Blocks
        BY <1>3, <2>0, <4>1 DEF i
      <4> QED BY <1>4, <2>0, <4>2 DEF IInv, TypeOK
    <3> QED BY <2>0, <3>1, <3>2
  <2> QED BY <2>1, <2>2
<1>11. ReadsOwnPrefix'
  BY <1>4, <1>10 DEF ReadsOwnPrefix
<1> QED BY <1>6, <1>7, <1>8, <1>9, <1>11 DEF IInv

\* Only blocks of r itself change: a block of r without a hash is not shared.
LEMMA CommitIInv ==
  ASSUME IInv, NEW r \in Requests, NEW n \in Nat, Commit(r, n)
  PROVE  IInv'
<1> DEFINE new == Unindexed(r, n)
<1>0. /\ computed[r] \in Nat /\ n <= computed[r] /\ computed[r] <= Len(held[r])
      /\ computed[r] <= Len(chain[r]) /\ held[r] \in Seq(Blocks)
      /\ \A i \in 1 .. computed[r] : content[held[r][i]] = chain[r][i]
  BY DEF Commit, IInv, TypeOK, ReadsOwnPrefix
<1>1. chain[r] \in Seq(Hashes)
  <2>1. Chains \subseteq Seq(Hashes) /\ <<>> \in Seq(Hashes)
    BY LedgerAssumption
  <2>2. chain[r] \in Chains \cup {<<>>}
    BY DEF IInv, TypeOK
  <2> QED BY <2>1, <2>2
<1>2. ASSUME NEW b \in new
      PROVE  /\ b \in Blocks /\ block_hash[b] = NoHash
             /\ Pos(r, b) \in 1 .. n /\ held[r][Pos(r, b)] = b
             /\ Pos(r, b) \in 1 .. Len(held[r])
             /\ chain[r][Pos(r, b)] \in Hashes
             /\ content[b] = chain[r][Pos(r, b)]
  <2>1. b \in Elems(held[r]) /\ Pos(r, b) <= n /\ block_hash[b] = NoHash
    BY DEF Unindexed
  <2>2. PICK i \in 1 .. Len(held[r]) : held[r][i] = b
    BY <2>1 DEF Elems
  <2>3. Pos(r, b) = i
    BY <2>2, PosOfElement DEF IInv
  <2>4. i \in 1 .. computed[r] /\ i \in 1 .. n /\ i \in 1 .. Len(chain[r])
    BY <1>0, <1>1, <2>1, <2>3
  <2>5. chain[r][i] \in Hashes
    BY <1>1, <2>4
  <2> QED BY <1>0, <2>1, <2>2, <2>3, <2>4, <2>5
<1>3. ASSUME NEW s \in Requests, s # r, NEW b \in Elems(held[s])
      PROVE  b \notin new
  BY <1>3, <1>2 DEF Unindexed, IInv, SharedBlocksAreCached
<1>4. /\ block_hash' = [b \in Blocks |-> IF b \in new THEN chain[r][Pos(r, b)] ELSE block_hash[b]]
      /\ index' = index \cup {<<chain[r][Pos(r, b)], b>> : b \in new}
      /\ UNCHANGED <<ref_cnt, free, held, chain, computed, content>>
  BY DEF Commit
<1>5. NoHash \notin Hashes
  BY LedgerAssumption
<1> HIDE DEF new
<1>6. TypeOK'
  <2>1. block_hash' \in [Blocks -> Hashes \cup {NoHash}]
    BY <1>2, <1>4 DEF IInv, TypeOK
  <2>2. index' \subseteq Hashes \X Blocks
    BY <1>2, <1>4 DEF IInv, TypeOK
  <2> QED BY <1>4, <2>1, <2>2 DEF IInv, TypeOK
<1>7. RefCountsAreHolders' /\ HeldOnce'
  BY <1>4, SameHolders DEF IInv
<1>8. IndexAgrees'
  <2> SUFFICES ASSUME NEW b \in Blocks, NEW h \in Hashes
               PROVE  <<h, b>> \in index' <=> block_hash'[b] = h
    BY DEF IndexAgrees
  <2>1. <<h, b>> \in index <=> block_hash[b] = h
    BY DEF IInv, IndexAgrees
  <2>2. <<h, b>> \in index' <=> <<h, b>> \in index \/ (b \in new /\ h = chain[r][Pos(r, b)])
    BY <1>4
  <2>3. block_hash'[b] = IF b \in new THEN chain[r][Pos(r, b)] ELSE block_hash[b]
    BY <1>4
  <2>4. b \in new => block_hash[b] = NoHash
    BY <1>2
  <2> QED BY <1>5, <2>1, <2>2, <2>3, <2>4
<1>9. \A b \in Blocks : block_hash[b] # NoHash => block_hash'[b] = block_hash[b]
  BY <1>2, <1>4
<1>10. SharedBlocksAreCached'
  <2>1. \A s \in Requests : Elems(held[s])' = Elems(held[s])
    BY <1>4 DEF Elems
  <2>2. ASSUME NEW s \in Requests, NEW t \in Requests, s # t,
               NEW b \in Elems(held[s]) \cap Elems(held[t])
        PROVE  block_hash'[b] # NoHash
    <3>1. block_hash[b] # NoHash
      BY <2>2 DEF IInv, SharedBlocksAreCached
    <3>2. b \in Blocks
      BY DEF IInv, TypeOK, Elems
    <3> QED BY <1>9, <3>1, <3>2
  <2> QED BY <2>1, <2>2 DEF SharedBlocksAreCached
<1>11. CachedBlocksAreWritten'
  <2> SUFFICES ASSUME NEW b \in Blocks, block_hash'[b] # NoHash
               PROVE  content[b] = block_hash'[b]
    BY <1>4 DEF CachedBlocksAreWritten
  <2>1. CASE b \in new
    BY <1>2, <1>4, <2>1
  <2>2. CASE b \notin new
    BY <1>4, <2>2 DEF IInv, CachedBlocksAreWritten
  <2> QED BY <2>1, <2>2
<1>12. ReadsOwnPrefix'
  BY <1>4 DEF IInv, ReadsOwnPrefix
<1>13. CachedInPlace'
  <2> SUFFICES ASSUME NEW s \in Requests, NEW i \in 1 .. Len(held[s]),
                      block_hash'[held[s][i]] # NoHash
               PROVE  i <= computed[s] /\ block_hash'[held[s][i]] = chain[s][i]
    <3>1. UNCHANGED <<held, computed, chain>>
      BY <1>4
    <3> QED BY <3>1 DEF CachedInPlace
  <2>1. held[s][i] \in Blocks /\ held[s][i] \in Elems(held[s])
    BY DEF IInv, TypeOK, Elems
  <2>2. CASE held[s][i] \in new
    <3>1. s = r
      BY <1>3, <2>1, <2>2
    <3>2. Pos(r, held[s][i]) = i
      BY <3>1, PosOfElement DEF IInv
    <3> QED BY <1>0, <1>2, <1>4, <2>1, <2>2, <3>1, <3>2
  <2>3. CASE held[s][i] \notin new
    BY <1>4, <2>1, <2>3 DEF IInv, CachedInPlace
  <2> QED BY <2>2, <2>3
<1> QED BY <1>6, <1>7, <1>8, <1>10, <1>11, <1>12, <1>13 DEF IInv

LEMMA FreeIInv ==
  ASSUME IInv, NEW r \in Requests, Free(r)
  PROVE  IInv'
<1>1. /\ ref_cnt' = [b \in Blocks |-> ref_cnt[b] - IF b \in Elems(held[r]) THEN 1 ELSE 0]
      /\ free' = free \cup {b \in Elems(held[r]) : ref_cnt[b] = 1}
      /\ held' = [held EXCEPT ![r] = <<>>]
      /\ chain' = [chain EXCEPT ![r] = <<>>]
      /\ computed' = [computed EXCEPT ![r] = 0]
      /\ UNCHANGED <<block_hash, index, content>>
  BY DEF Free
<1>2. /\ held'[r] = <<>> /\ computed'[r] = 0 /\ chain'[r] = <<>>
      /\ \A s \in Requests \ {r} :
           held'[s] = held[s] /\ computed'[s] = computed[s] /\ chain'[s] = chain[s]
  BY <1>1 DEF IInv, TypeOK
<1>3. Elems(held'[r]) = {} /\ \A s \in Requests \ {r} : Elems(held'[s]) = Elems(held[s])
  BY <1>2 DEF Elems
<1>4. Elems(held[r]) \subseteq Blocks
  BY DEF IInv, TypeOK, Elems
<1>5. ASSUME NEW b \in Blocks
      PROVE  /\ ref_cnt'[b] \in Nat
             /\ ref_cnt'[b] = Cardinality(Holders(b)')
             /\ b \in free' <=> ref_cnt'[b] = 0
  <2>1. /\ Holders(b) \subseteq Requests /\ ref_cnt[b] = Cardinality(Holders(b))
        /\ ref_cnt[b] \in Nat /\ (b \in free <=> ref_cnt[b] = 0)
    BY DEF Holders, IInv, RefCountsAreHolders, TypeOK
  <2>2. CASE b \in Elems(held[r])
    <3>1. r \in Holders(b)
      BY <2>2 DEF Holders
    <3>2. Holders(b)' = Holders(b) \ {r}
      BY <1>3 DEF Holders
    <3>3. ref_cnt'[b] = ref_cnt[b] - 1 /\ (b \in free' <=> b \in free \/ ref_cnt[b] = 1)
      BY <1>1, <2>2
    <3>4. Holders(b)' \in SUBSET Requests /\ Cardinality(Holders(b)') = ref_cnt[b] - 1
      BY <2>1, <3>1, <3>2, HolderStep
    <3>5. Cardinality(Holders(b)') \in Nat
      BY <3>4, HolderStep
    <3> QED BY <2>1, <3>3, <3>4, <3>5
  <2>3. CASE b \notin Elems(held[r])
    <3>1. Holders(b)' = Holders(b)
      BY <1>3, <2>3 DEF Holders
    <3>2. ref_cnt'[b] = ref_cnt[b] /\ (b \in free' <=> b \in free)
      BY <1>1, <2>1, <2>3
    <3> QED BY <2>1, <3>1, <3>2
  <2> QED BY <2>2, <2>3
<1>6. free' \subseteq Blocks
  BY <1>1, <1>4 DEF IInv, TypeOK
<1>7. TypeOK'
  <2>1. ref_cnt' \in [Blocks -> Nat]
    BY <1>1, <1>5
  <2>2. held' \in [Requests -> Seq(Blocks)]
    BY <1>1 DEF IInv, TypeOK
  <2> QED BY <1>1, <1>6, <2>1, <2>2 DEF IInv, TypeOK
<1>8. RefCountsAreHolders'
  BY <1>5, <1>6 DEF RefCountsAreHolders
<1>9. IndexAgrees' /\ CachedBlocksAreWritten'
  BY <1>1 DEF IInv, IndexAgrees, CachedBlocksAreWritten
<1>10. SharedBlocksAreCached'
  <2>1. ASSUME NEW s \in Requests, NEW t \in Requests, s # t,
               NEW b \in Elems(held'[s]) \cap Elems(held'[t])
        PROVE  block_hash'[b] # NoHash
    <3>1. s # r /\ t # r
      BY <1>3, <2>1
    <3>2. b \in Elems(held[s]) \cap Elems(held[t])
      BY <1>3, <3>1
    <3>3. block_hash[b] # NoHash
      BY <2>1, <3>2 DEF IInv, SharedBlocksAreCached
    <3> QED BY <1>1, <3>3
  <2>2. \A s \in Requests : Elems(held[s])' = Elems(held'[s])
    BY DEF Elems
  <2> QED BY <2>1, <2>2 DEF SharedBlocksAreCached
<1>11. ReadsOwnPrefix'
  <2>1. ASSUME NEW s \in Requests
        PROVE  /\ computed'[s] <= Len(held'[s])
               /\ computed'[s] <= Len(chain'[s])
               /\ \A i \in 1 .. computed'[s] : content[held'[s][i]] = chain'[s][i]
    BY <1>2 DEF IInv, ReadsOwnPrefix
  <2> QED BY <1>1, <2>1 DEF ReadsOwnPrefix
<1>12. HeldOnce'
  BY <1>2 DEF IInv, HeldOnce, Injective
<1>13. CachedInPlace'
  <2>1. ASSUME NEW s \in Requests, NEW i \in 1 .. Len(held'[s]),
               block_hash[held'[s][i]] # NoHash
        PROVE  i <= computed'[s] /\ block_hash[held'[s][i]] = chain'[s][i]
    BY <1>2, <2>1 DEF IInv, CachedInPlace
  <2> QED BY <1>1, <2>1 DEF CachedInPlace
<1> QED
  BY <1>7, <1>8, <1>9, <1>10, <1>11, <1>12, <1>13 DEF IInv

\* With every block free nobody holds one, so dropping all hashes harms none.
LEMMA ResetIInv == ASSUME IInv, Reset PROVE IInv'
<1>1. \A r \in Requests : Elems(held[r]) = {}
  <2> SUFFICES ASSUME NEW r \in Requests, NEW b \in Elems(held[r]) PROVE FALSE
    OBVIOUS
  <2>1. b \in free
    BY DEF Reset, IInv, TypeOK, Elems
  <2> QED BY <2>1, FreeIsUnheld DEF IInv
<1>2. \A r \in Requests : \A i \in 1 .. Len(held[r]) : held[r][i] \in Blocks
  BY DEF IInv, TypeOK
<1>3. TypeOK' /\ CachedBlocksAreWritten' /\ ReadsOwnPrefix'
  BY DEF Reset, IInv, TypeOK, CachedBlocksAreWritten, ReadsOwnPrefix
<1>4. RefCountsAreHolders' /\ HeldOnce'
  BY SameHolders DEF Reset, IInv
<1>5. IndexAgrees'
  BY LedgerAssumption DEF Reset, IndexAgrees
<1>6. SharedBlocksAreCached'
  <2>1. \A s \in Requests : Elems(held[s])' = {}
    BY <1>1 DEF Reset, Elems
  <2> QED BY <2>1 DEF SharedBlocksAreCached
<1>7. CachedInPlace'
  BY <1>2 DEF Reset, CachedInPlace
<1> QED BY <1>3, <1>4, <1>5, <1>6, <1>7 DEF IInv

LEMMA NextIInv == IInv /\ [Next]_vars => IInv'
<1> SUFFICES ASSUME IInv, [Next]_vars PROVE IInv'
  OBVIOUS
<1>0. 0 .. Cardinality(Blocks) \subseteq Nat
  <2>1. Cardinality(Blocks) \in Nat
    BY LedgerAssumption, FS_CardinalityType
  <2> QED BY <2>1
<1>1. ASSUME NEW r \in Requests, NEW c \in Chains, NEW n \in 0 .. Cardinality(Blocks),
             NEW k \in 0 .. Len(c), Admit(r, c, k, n)
      PROVE  IInv'
  BY <1>0, <1>1, AdmitIInv
<1>2. ASSUME NEW r \in Requests, NEW n \in 0 .. Cardinality(Blocks), Grow(r, n)
      PROVE  IInv'
  BY <1>0, <1>2, GrowIInv
<1>3. ASSUME NEW r \in Requests, NEW c \in Chains, Extend(r, c) PROVE IInv'
  BY <1>3, ExtendIInv
<1>4. ASSUME NEW r \in Requests, NEW full \in BOOLEAN, Execute(r, full) PROVE IInv'
  BY <1>4, ExecuteIInv
<1>5. ASSUME NEW r \in Requests, NEW n \in 0 .. Len(held[r]), Commit(r, n) PROVE IInv'
  BY <1>5, CommitIInv
<1>6. ASSUME NEW r \in Requests, Free(r) PROVE IInv'
  BY <1>6, FreeIInv
<1>7. CASE Reset
  BY <1>7, ResetIInv
<1>8. CASE UNCHANGED vars
  <2>1. TypeOK' /\ CachedBlocksAreWritten' /\ ReadsOwnPrefix' /\ CachedInPlace'
    BY <1>8 DEF vars, IInv, TypeOK, CachedBlocksAreWritten, ReadsOwnPrefix, CachedInPlace
  <2> QED BY <1>8, <2>1, SameHolders, SameHashes DEF vars, IInv
<1> QED
  BY <1>1, <1>2, <1>3, <1>4, <1>5, <1>6, <1>7, <1>8 DEF Next

\* The inductive invariant holds in every reachable state of the ledger.
THEOREM InvariantTheorem == Spec => []IInv
  BY InitIInv, NextIInv, PTL DEF Spec

\* Every variable of the ledger keeps its type: in particular no reference
\* count ever goes below zero.
THEOREM TypeTheorem == Spec => []TypeOK
<1>1. IInv => TypeOK
  BY DEF IInv
<1> QED BY <1>1, InvariantTheorem, PTL

\* Reference counts are the numbers of holders and the free queue is exactly
\* the blocks without one: free_blocks neither leaks a block nor hands out one
\* that is in use.
THEOREM RefCountTheorem == Spec => []RefCountsAreHolders
<1>1. IInv => RefCountsAreHolders
  BY DEF IInv
<1> QED BY <1>1, InvariantTheorem, PTL

\* A block reachable through the hash index holds the K/V of the prefix it is
\* cached under, through eviction, reuse and late commits.
THEOREM CachedTheorem == Spec => []CachedBlocksAreWritten
<1>1. IInv => CachedBlocksAreWritten
  BY DEF IInv
<1> QED BY <1>1, InvariantTheorem, PTL

\* What a request has computed or adopted stays the K/V of its own prefix,
\* whatever the other requests do.
THEOREM PrefixTheorem == Spec => []ReadsOwnPrefix
<1>1. IInv => ReadsOwnPrefix
  BY DEF IInv
<1> QED BY <1>1, InvariantTheorem, PTL
=============================================================================
