--------------------------- MODULE Router_proofs ---------------------------
(***************************************************************************)
(* The route table, the loads and the requests at the replicas never get   *)
(* out of step (module Router).                                            *)
(***************************************************************************)
EXTENDS Router, FiniteSetTheorems, WellFoundedInduction, TLAPS

\* A set of naturals has a least element.
LEMMA Least ==
  ASSUME NEW S, S \subseteq Nat, S # {}
  PROVE  \E x \in S : \A y \in S : x <= y
<1>1. PICK x \in S : \A y \in S : ~ (<<y, x>> \in OpToRel(<, Nat))
  BY NatLessThanWellFounded, WFMin, Zenon
<1>2. \A y \in S : ~ (y < x)
  BY <1>1, Zenon DEF OpToRel
<1> QED
  BY <1>2

-----------------------------------------------------------------------------
(* Sums of charges. *)

\* F gives the total of each subset of S, whichever member is taken out first.
IsTotal(F, f, S) ==
  /\ F \in [SUBSET S -> Nat]
  /\ F[{}] = 0
  /\ \A s \in SUBSET S : \A x \in s : F[s] = f[x].amount + F[s \ {x}]

\* Every finite set has its totals.
LEMMA TotalExists ==
  ASSUME NEW S, IsFiniteSet(S), NEW f, \A x \in S : f[x].amount \in Nat
  PROVE  \E F : IsTotal(F, f, S)
<1> DEFINE Bad   == {s \in SUBSET S : ~ \E F : IsTotal(F, f, s)}
           Sizes == {Cardinality(s) : s \in Bad}
<1>1. \A s \in SUBSET S : IsFiniteSet(s) /\ Cardinality(s) \in Nat
  BY FS_Subset, FS_CardinalityType
<1> SUFFICES ASSUME Bad # {}
             PROVE  FALSE
  BY Zenon
<1>2. Sizes \subseteq Nat /\ Sizes # {}
  BY <1>1
<1>3. PICK n \in Sizes : \A m \in Sizes : n <= m
  BY <1>2, Least, Zenon
<1>4. PICK T \in Bad : n = Cardinality(T)
  BY <1>3
<1>5. T \subseteq S /\ IsFiniteSet(T) /\ ~ \E F : IsTotal(F, f, T)
  BY <1>1, <1>4
<1>6. T # {}
  <2> DEFINE F == [s \in SUBSET {} |-> 0]
  <2>1. IsTotal(F, f, {})
    BY DEF IsTotal
  <2> QED
    BY <1>5, <2>1, Zenon
<1>7. PICK x : x \in T
  BY <1>6
<1> DEFINE U == T \ {x}
<1>8. U \in SUBSET S /\ Cardinality(U) = Cardinality(T) - 1
  BY <1>5, <1>7, FS_RemoveElement
<1>9. U \notin Bad
  <2>1. ~ (Cardinality(T) <= Cardinality(U))
    BY <1>1, <1>5, <1>8
  <2> QED
    BY <1>3, <1>4, <2>1
<1>10. PICK G : IsTotal(G, f, U)
  BY <1>8, <1>9
<1> DEFINE F == [s \in SUBSET T |-> G[s \ {x}] + IF x \in s THEN f[x].amount ELSE 0]
<1>11. G \in [SUBSET U -> Nat] /\ G[{}] = 0
  BY <1>10 DEF IsTotal
<1>12. \A s \in SUBSET U : \A y \in s : G[s] = f[y].amount + G[s \ {y}]
  BY <1>10, Zenon DEF IsTotal
<1>13. \A s \in SUBSET T : s \ {x} \in SUBSET U /\ G[s \ {x}] \in Nat
  BY <1>11
<1>14. \A y \in T : f[y].amount \in Nat
  BY <1>5
<1>15. F \in [SUBSET T -> Nat] /\ F[{}] = 0
  BY <1>7, <1>11, <1>13, <1>14
<1>16. \A s \in SUBSET T : \A y \in s : F[s] = f[y].amount + F[s \ {y}]
  <2> SUFFICES ASSUME NEW s \in SUBSET T, NEW y \in s
               PROVE  F[s] = f[y].amount + F[s \ {y}]
    OBVIOUS
  <2>1. s \ {y} \in SUBSET T /\ y \in T
    OBVIOUS
  <2>2. /\ F[s] = G[s \ {x}] + IF x \in s THEN f[x].amount ELSE 0
        /\ F[s \ {y}] = G[(s \ {y}) \ {x}] + IF x \in s \ {y} THEN f[x].amount ELSE 0
    BY <2>1
  <2> HIDE DEF F
  <2>3. CASE y = x
    <3>1. (s \ {y}) \ {x} = s \ {x} /\ x \in s /\ x \notin s \ {y}
      BY <2>3
    <3>2. F[s] = G[s \ {x}] + f[x].amount /\ F[s \ {y}] = G[s \ {x}] + 0
      BY <2>2, <3>1
    <3>3. G[s \ {x}] \in Nat /\ f[x].amount \in Nat
      BY <1>13, <1>14, <2>1, <2>3
    <3> QED
      BY <2>3, <3>2, <3>3
  <2>4. CASE y # x
    <3> DEFINE v == s \ {x}
               w == s \ {y}
    <3>1. v \in SUBSET U /\ y \in v /\ w \ {x} = v \ {y} /\ (x \in w <=> x \in s) /\ w \in SUBSET T
      BY <1>13, <2>4
    <3>2. G[v] = f[y].amount + G[v \ {y}]
      BY <1>12, <3>1
    <3>3. G[v \ {y}] \in Nat /\ f[y].amount \in Nat /\ f[x].amount \in Nat
      BY <1>7, <1>13, <1>14, <2>1, <3>1
    <3> DEFINE own == IF x \in s THEN f[x].amount ELSE 0
    <3>4. F[s] = G[v] + own /\ F[w] = G[v \ {y}] + own /\ own \in Nat
      BY <2>2, <3>1, <3>3
    <3> HIDE DEF v, w, own
    <3>5. F[s] = f[y].amount + F[w]
      BY <3>2, <3>3, <3>4
    <3> QED
      BY <3>5 DEF w
  <2> QED
    BY <2>3, <2>4
<1>17. IsTotal(F, f, T)
  <2> HIDE DEF F
  <2> QED
    BY <1>15, <1>16, Zenon DEF IsTotal
<1> QED
  BY <1>5, <1>17, Zenon

\* The fold that defines Total computes it.
LEMMA TotalIs ==
  ASSUME NEW S, IsFiniteSet(S), NEW f, \A x \in S : f[x].amount \in Nat,
         NEW F, IsTotal(F, f, S)
  PROVE  Total(f, S) = F[S]
<1> DEFINE Step(g, s) == IF s = {} THEN 0 ELSE f[CHOOSE x \in s : TRUE].amount + g[s \ {CHOOSE x \in s : TRUE}]
           iter == CHOOSE g : g = [s \in SUBSET S |-> Step(g, s)]
<1>1. Total(f, S) = iter[S]
  BY Zenon DEF Total, FoldFunctionOnSet, MapThenFoldSet
<1>2. F = [s \in SUBSET S |-> Step(F, s)]
  <2>1. \A s \in SUBSET S : F[s] = Step(F, s)
    <3> SUFFICES ASSUME NEW s \in SUBSET S
                 PROVE  F[s] = Step(F, s)
      OBVIOUS
    <3>1. s # {} => (CHOOSE x \in s : TRUE) \in s
      OBVIOUS
    <3> QED
      BY <3>1, Zenon DEF IsTotal
  <2>2. F = [s \in SUBSET S |-> F[s]]
    BY DEF IsTotal
  <2> QED
    BY <2>1, <2>2
<1>3. iter = [s \in SUBSET S |-> Step(iter, s)]
  BY <1>2, Zenon
<1> HIDE DEF iter
<1> DEFINE Bad   == {s \in SUBSET S : iter[s] # F[s]}
           Sizes == {Cardinality(s) : s \in Bad}
<1>4. \A s \in SUBSET S : IsFiniteSet(s) /\ Cardinality(s) \in Nat
  BY FS_Subset, FS_CardinalityType
<1> SUFFICES ASSUME Bad # {}
             PROVE  FALSE
  BY <1>1
<1>5. Sizes \subseteq Nat /\ Sizes # {}
  BY <1>4
<1>6. PICK n \in Sizes : \A m \in Sizes : n <= m
  BY <1>5, Least, Zenon
<1>7. PICK T \in Bad : n = Cardinality(T)
  BY <1>6
<1>8. T \in SUBSET S /\ iter[T] # F[T] /\ IsFiniteSet(T) /\ iter[T] = Step(iter, T) /\ F[T] = Step(F, T)
  BY <1>2, <1>3, <1>4, <1>7
<1>9. T # {}
  BY <1>8
<1> DEFINE x == CHOOSE y \in T : TRUE
           U == T \ {x}
<1>10. x \in T
  BY <1>9
<1>11. U \in SUBSET S /\ Cardinality(U) = Cardinality(T) - 1
  BY <1>8, <1>10, FS_RemoveElement
<1>12. U \notin Bad
  <2>1. ~ (Cardinality(T) <= Cardinality(U))
    BY <1>4, <1>8, <1>11
  <2> QED
    BY <1>6, <1>7, <2>1
<1>13. iter[U] = F[U]
  BY <1>11, <1>12
<1> QED
  BY <1>8, <1>9, <1>13

\* A set that has its totals has those of its subsets too.
LEMMA TotalPart ==
  ASSUME NEW S, IsFiniteSet(S), NEW f, \A x \in S : f[x].amount \in Nat,
         NEW F, IsTotal(F, f, S), NEW T \in SUBSET S
  PROVE  Total(f, T) = F[T]
<1> DEFINE G == [s \in SUBSET T |-> F[s]]
<1>1. IsTotal(G, f, T)
  <2>1. G \in [SUBSET T -> Nat] /\ G[{}] = 0
    BY DEF IsTotal
  <2>2. \A s \in SUBSET T : s \in SUBSET S /\ G[s] = F[s] /\ \A x \in s : s \ {x} \in SUBSET T
    BY Zenon
  <2>3. \A s \in SUBSET S : \A x \in s : F[s] = f[x].amount + F[s \ {x}]
    BY Zenon DEF IsTotal
  <2> HIDE DEF G
  <2>4. \A s \in SUBSET T : \A x \in s : G[s] = f[x].amount + G[s \ {x}]
    BY <2>2, <2>3
  <2> QED
    BY <2>1, <2>4, Zenon DEF IsTotal
<1>2. IsFiniteSet(T) /\ \A x \in T : f[x].amount \in Nat
  BY FS_Subset
<1>3. Total(f, T) = G[T]
  BY <1>1, <1>2, TotalIs, Zenon
<1> QED
  BY <1>3

\* The total of one request more.
LEMMA TotalAdd ==
  ASSUME NEW S, IsFiniteSet(S), NEW f, NEW x, x \notin S,
         \A y \in S \cup {x} : f[y].amount \in Nat
  PROVE  Total(f, S) \in Nat /\ Total(f, S \cup {x}) = f[x].amount + Total(f, S)
<1> DEFINE T == S \cup {x}
<1>1. IsFiniteSet(T)
  BY FS_AddElement
<1>2. PICK F : IsTotal(F, f, T)
  BY <1>1, TotalExists, Zenon
<1>3. S \in SUBSET T /\ T \in SUBSET T /\ x \in T /\ T \ {x} = S
  OBVIOUS
<1>4. \A y \in T : f[y].amount \in Nat
  OBVIOUS
<1> HIDE DEF T
<1>5. Total(f, S) = F[S] /\ Total(f, T) = F[T]
  <2>1. \A U \in SUBSET T : Total(f, U) = F[U]
    BY <1>1, <1>2, <1>4, TotalPart
  <2> QED
    BY <1>3, <2>1
<1>6. F[T] = f[x].amount + F[T \ {x}] /\ F[S] \in Nat
  BY <1>2, <1>3 DEF IsTotal
<1> QED
  BY <1>3, <1>5, <1>6 DEF T

\* Only the charges of the set count.
LEMMA TotalSame ==
  ASSUME NEW S, IsFiniteSet(S), NEW f, NEW g,
         \A y \in S : f[y] = g[y] /\ f[y].amount \in Nat
  PROVE  Total(f, S) = Total(g, S)
<1>1. PICK F : IsTotal(F, f, S)
  BY TotalExists, Zenon
<1>2. IsTotal(F, g, S)
  BY <1>1 DEF IsTotal
<1>3. Total(f, S) = F[S]
  BY <1>1, TotalIs, Zenon
<1>4. Total(g, S) = F[S]
  BY <1>2, TotalIs, Zenon
<1> QED
  BY <1>3, <1>4

\* Nothing costs nothing.
LEMMA TotalEmpty ==
  ASSUME NEW f
  PROVE  Total(f, {}) = 0
<1>1. IsFiniteSet({}) /\ \A x \in {} : f[x].amount \in Nat
  BY FS_EmptySet
<1>2. PICK F : IsTotal(F, f, {})
  BY <1>1, TotalExists, Zenon
<1>3. Total(f, {}) = F[{}]
  BY <1>1, <1>2, TotalIs, Zenon
<1> QED
  BY <1>2, <1>3, Zenon DEF IsTotal

-----------------------------------------------------------------------------
(* The policy. *)

\* The fields of a policy.
PolicyOK(p) ==
  /\ p \in [counter : Nat, load : [Replicas -> Nat],
            charges : [DOMAIN p.charges -> [replica : Replicas, amount : Nat]],
            resident : {p.resident}]
  /\ DOMAIN p.charges \subseteq Ids

\* A route table.
RoutesOK(rt) ==
  /\ rt \in [DOMAIN rt -> Replicas]
  /\ DOMAIN rt \subseteq Ids /\ IsFiniteSet(DOMAIN rt)

\* The load of each replica is what the requests routed there were charged.
Balanced(p, rt) ==
  Policy # "round_robin" =>
    /\ DOMAIN p.charges = DOMAIN rt
    /\ \A id \in DOMAIN rt : p.charges[id].replica = rt[id]
    /\ \A r \in Replicas : p.load[r] = Total(p.charges, {id \in DOMAIN rt : rt[id] = r})

\* A charge is a natural number, however many blocks the prompt has in cache.
LEMMA ChargeIsNat ==
  ASSUME NEW p, NEW r, NEW id \in Ids
  PROVE  Charge(p, r, id) \in Nat
<1> DEFINE chain == Chain[id]
           known == {n \in 0..Len(chain) : \A k \in 1..n : chain[k] \in ToSet(p.resident[r])}
           short == {Len(chain) - n : n \in known}
<1>1. chain \in Seq(Int) /\ Len(chain) \in Nat /\ Tokens[id] \in Nat /\ BlockSize \in Nat
  BY RouterAssumption
<1>2. 0 \in known /\ \A n \in known : n \in Nat /\ n <= Len(chain)
  BY <1>1
<1> HIDE DEF known, chain
<1>3. short \subseteq Nat /\ short # {}
  BY <1>1, <1>2
<1>4. PICK x \in short : \A y \in short : x <= y
  BY <1>3, Least, Zenon
<1>5. PICK n \in known : x = Len(chain) - n
  BY <1>4
<1>6. \A m \in known : m <= n
  <2> TAKE m \in known
  <2>1. Len(chain) - n <= Len(chain) - m
    BY <1>4, <1>5
  <2> QED
    BY <1>1, <1>2, <2>1
<1>7. CachedBlocks(p, r, id) \in known
  BY <1>6 DEF CachedBlocks, known, chain
<1>8. CachedBlocks(p, r, id) \in Nat
  BY <1>2, <1>7
<1>9. Tokens[id] - CachedBlocks(p, r, id) * BlockSize \in Int
  BY <1>1, <1>8
<1> QED
  BY <1>1, <1>9 DEF Charge, AtLeast

\* select() finds a replica.
LEMMA ChoiceIsReplica ==
  ASSUME NEW p, PolicyOK(p), NEW id \in Ids
  PROVE  Choice(p, id) \in Replicas
<1>1. DpSize \in Nat /\ DpSize > 0
  BY RouterAssumption
<1>2. CASE Policy = "round_robin"
  <2>1. p.counter \in Nat
    BY DEF PolicyOK
  <2> QED
    BY <1>1, <1>2, <2>1 DEF Choice, Replicas
<1>3. CASE Policy # "round_robin"
  <2> DEFINE cost == [r \in Replicas |-> Cost(p, r, id)]
             costs == {cost[r] : r \in Replicas}
  <2>1. \A r \in Replicas : cost[r] = Cost(p, r, id) /\ cost[r] \in Nat
    <3> TAKE r \in Replicas
    <3>1. p.load[r] \in Nat /\ Charge(p, r, id) \in Nat
      BY ChargeIsNat DEF PolicyOK
    <3> QED
      BY <3>1 DEF Cost
  <2>2. 0 \in Replicas /\ Replicas \subseteq Nat
    BY <1>1 DEF Replicas
  <2> HIDE DEF cost
  <2>3. costs \subseteq Nat /\ costs # {}
    BY <2>1, <2>2
  <2>4. PICK c \in costs : \A d \in costs : c <= d
    BY <2>3, Least, Zenon
  <2> DEFINE cheap == {r \in Replicas : cost[r] = c}
  <2>5. cheap \subseteq Nat /\ cheap # {}
    BY <2>2, <2>4
  <2>6. PICK r \in cheap : \A s \in cheap : r <= s
    BY <2>5, Least, Zenon
  <2>7. r \in Replicas /\ cost[r] = c /\ c \in Nat
    BY <2>1, <2>6
  <2>8. \A s \in Replicas : cost[r] <= cost[s]
    BY <2>4, <2>7
  <2>9. \A s \in 0..(r - 1) : s \in Replicas /\ ~ (r <= s)
    BY <1>1, <2>2, <2>7 DEF Replicas
  <2>10. \A s \in 0..(r - 1) : cost[s] > cost[r]
    <3> TAKE s \in 0..(r - 1)
    <3>1. s \in Replicas /\ cost[s] # c
      BY <2>6, <2>9
    <3> QED
      BY <2>1, <2>7, <2>8, <3>1
  <2>11. /\ \A s \in Replicas : Cost(p, r, id) <= Cost(p, s, id)
         /\ \A s \in 0..(r - 1) : Cost(p, s, id) > Cost(p, r, id)
    BY <2>1, <2>7, <2>8, <2>9, <2>10
  <2> QED
    BY <1>3, <2>7, <2>11, Zenon DEF Choice
<1> QED
  BY <1>2, <1>3

\* select() charges the request to the replica it returns.
LEMMA SelectBalanced ==
  ASSUME NEW p, PolicyOK(p), NEW rt, RoutesOK(rt), Balanced(p, rt),
         NEW id \in Ids, id \notin DOMAIN rt
  PROVE  PolicyOK(Select(p, id)) /\ Balanced(Select(p, id), With(rt, id, Choice(p, id)))
<1> DEFINE q == Select(p, id)
           r == Choice(p, id)
           a == Charge(p, r, id)
           nt == With(rt, id, r)
<1>1. r \in Replicas /\ a \in Nat
  BY ChoiceIsReplica, ChargeIsNat, Zenon
<1>2. CASE Policy = "round_robin"
  <2>1. q = [p EXCEPT !.counter = @ + 1]
    BY <1>2 DEF Select
  <2>2. PolicyOK(q)
    BY <2>1 DEF PolicyOK
  <2> QED
    BY <1>2, <2>2 DEF Balanced
<1>3. CASE Policy # "round_robin"
  <2> DEFINE c   == [replica |-> r, amount |-> a]
             res == [p.resident EXCEPT ![r] = IF Policy = "cache_aware" THEN Remember(@, Chain[id]) ELSE @]
             ch  == With(p.charges, id, c)
             ld  == [p.load EXCEPT ![r] = @ + a]
  <2>1. q = [p EXCEPT !.load = ld, !.charges = ch, !.resident = res]
    BY <1>3 DEF Select
  <2>2. ld \in [Replicas -> Nat] /\ p.load \in [Replicas -> Nat] /\ \A s \in Replicas : ld[s] = IF s = r THEN p.load[s] + a ELSE p.load[s]
    BY <1>1 DEF PolicyOK
  <2>3. c \in [replica : Replicas, amount : Nat] /\ c.replica = r /\ c.amount = a
    BY <1>1
  <2>4. /\ DOMAIN p.charges \subseteq Ids
        /\ \A i \in DOMAIN p.charges : p.charges[i] \in [replica : Replicas, amount : Nat]
    BY DEF PolicyOK
  <2> HIDE DEF c, ld, res, a, r
  <2>5. /\ DOMAIN ch = DOMAIN p.charges \cup {id} /\ DOMAIN ch \subseteq Ids
        /\ \A i \in DOMAIN ch : ch[i] = (IF i = id THEN c ELSE p.charges[i]) /\ ch[i] \in [replica : Replicas, amount : Nat]
        /\ ch = [i \in DOMAIN ch |-> ch[i]]
    BY <2>3, <2>4 DEF With
  <2> HIDE DEF ch
  <2>6. ch \in [DOMAIN ch -> [replica : Replicas, amount : Nat]]
    BY <2>5
  <2>7. q.load = ld /\ q.charges = ch /\ q \in [counter : Nat, load : [Replicas -> Nat], charges : {ch}, resident : {res}] /\ q.resident = res
    BY <2>1, <2>2 DEF PolicyOK
  <2> HIDE DEF q
  <2>8. PolicyOK(q)
    BY <2>5, <2>6, <2>7 DEF PolicyOK
  <2>9. /\ DOMAIN p.charges = DOMAIN rt
        /\ \A i \in DOMAIN rt : p.charges[i].replica = rt[i]
        /\ \A s \in Replicas : p.load[s] = Total(p.charges, {i \in DOMAIN rt : rt[i] = s})
    BY <1>3 DEF Balanced
  <2>10. DOMAIN nt = DOMAIN rt \cup {id} /\ nt[id] = r /\ \A i \in DOMAIN rt : nt[i] = rt[i]
    BY DEF With
  <2> HIDE DEF nt
  <2>11. \A i \in DOMAIN nt : ch[i].replica = nt[i]
    BY <2>3, <2>5, <2>9, <2>10
  <2>12. ASSUME NEW s \in Replicas
         PROVE  ld[s] = Total(ch, {i \in DOMAIN nt : nt[i] = s})
    <3> DEFINE old == {i \in DOMAIN rt : rt[i] = s}
    <3>1. old \subseteq DOMAIN rt /\ id \notin old /\ IsFiniteSet(old)
      BY FS_Subset DEF RoutesOK
    <3>2. \A i \in old : ch[i] = p.charges[i] /\ ch[i].amount \in Nat /\ p.charges[i].amount \in Nat
      BY <2>4, <2>5, <2>9, <3>1
    <3>3. p.load[s] = Total(p.charges, old)
      BY <2>9
    <3> HIDE DEF old
    <3>4. Total(p.charges, old) = Total(ch, old)
      BY <3>1, <3>2, TotalSame
    <3>5. CASE s = r
      <4>1. {i \in DOMAIN nt : nt[i] = s} = old \cup {id}
        BY <2>10, <3>5 DEF old
      <4>2. ch[id] = c /\ ch[id].amount = a
        BY <2>3, <2>5
      <4>3. \A y \in old \cup {id} : ch[y].amount \in Nat
        BY <1>1, <3>2, <4>2
      <4>4. Total(ch, old) \in Nat /\ Total(ch, old \cup {id}) = ch[id].amount + Total(ch, old)
        BY <3>1, <4>3, TotalAdd
      <4>5. ld[s] = p.load[s] + a
        BY <2>2, <3>5
      <4>6. Total(ch, old \cup {id}) = ld[s]
        BY <1>1, <3>3, <3>4, <4>2, <4>4, <4>5
      <4> QED
        BY <4>1, <4>6
    <3>6. CASE s # r
      <4>1. {i \in DOMAIN nt : nt[i] = s} = old
        BY <2>10, <3>6 DEF old
      <4>2. ld[s] = p.load[s]
        BY <2>2, <3>6
      <4> QED
        BY <3>3, <3>4, <4>1, <4>2
    <3> QED
      BY <3>5, <3>6
  <2>13. Balanced(q, nt)
    BY <2>5, <2>7, <2>9, <2>10, <2>11, <2>12 DEF Balanced
  <2> QED
    BY <2>8, <2>13 DEF q, nt, r
<1> QED
  BY <1>2, <1>3

\* release() takes exactly the charge back.
LEMMA UnchargeBalanced ==
  ASSUME NEW p, PolicyOK(p), NEW rt, RoutesOK(rt), Balanced(p, rt), NEW id \in DOMAIN rt
  PROVE  PolicyOK(Uncharge(p, id)) /\ Balanced(Uncharge(p, id), Without(rt, id))
<1> DEFINE q == Uncharge(p, id)
           nt == Without(rt, id)
<1>1. CASE id \notin DOMAIN p.charges
  <2>1. q = p
    BY <1>1 DEF Uncharge
  <2>2. Policy = "round_robin"
    BY <1>1 DEF Balanced
  <2> QED
    BY <2>1, <2>2 DEF Balanced
<1>2. CASE id \in DOMAIN p.charges
  <2> DEFINE c  == p.charges[id]
             ch == Without(p.charges, id)
             ld == [p.load EXCEPT ![c.replica] = AtLeast(0, @ - c.amount)]
  <2>1. q = [p EXCEPT !.load = ld, !.charges = ch]
    BY <1>2 DEF Uncharge
  <2>2. c \in [replica : Replicas, amount : Nat] /\ c.replica \in Replicas /\ c.amount \in Nat
    BY <1>2 DEF PolicyOK
  <2>3. ld \in [Replicas -> Nat] /\ p.load \in [Replicas -> Nat]
    BY <2>2 DEF PolicyOK, AtLeast
  <2>4. \A s \in Replicas : ld[s] = IF s = c.replica THEN AtLeast(0, p.load[s] - c.amount) ELSE p.load[s]
    BY <2>2 DEF PolicyOK
  <2>5. /\ DOMAIN p.charges \subseteq Ids
        /\ \A i \in DOMAIN p.charges : p.charges[i] \in [replica : Replicas, amount : Nat]
    BY DEF PolicyOK
  <2>6. /\ DOMAIN ch = DOMAIN p.charges \ {id}
        /\ \A i \in DOMAIN ch : ch[i] = p.charges[i]
        /\ ch = [i \in DOMAIN ch |-> ch[i]]
    BY DEF Without
  <2> HIDE DEF c, ld, ch
  <2>7. ch \in [DOMAIN ch -> [replica : Replicas, amount : Nat]] /\ DOMAIN ch \subseteq Ids
    BY <2>5, <2>6
  <2>8. q.load = ld /\ q.charges = ch /\ q \in [counter : Nat, load : [Replicas -> Nat], charges : {ch}, resident : {p.resident}] /\ q.resident = p.resident
    BY <2>1, <2>3 DEF PolicyOK
  <2> HIDE DEF q
  <2>9. PolicyOK(q)
    BY <2>7, <2>8 DEF PolicyOK
  <2>10. CASE Policy = "round_robin"
    BY <2>9, <2>10 DEF Balanced, q
  <2>11. CASE Policy # "round_robin"
    <3>1. /\ DOMAIN p.charges = DOMAIN rt
          /\ \A i \in DOMAIN rt : p.charges[i].replica = rt[i]
          /\ \A s \in Replicas : p.load[s] = Total(p.charges, {i \in DOMAIN rt : rt[i] = s})
      BY <2>11 DEF Balanced
    <3>2. DOMAIN nt = DOMAIN rt \ {id} /\ \A i \in DOMAIN nt : nt[i] = rt[i]
      BY DEF Without
    <3> HIDE DEF nt
    <3>3. \A i \in DOMAIN nt : ch[i].replica = nt[i]
      BY <2>6, <3>1, <3>2
    <3>4. c.replica = rt[id]
      BY <3>1 DEF c
    <3>5. ASSUME NEW s \in Replicas
          PROVE  ld[s] = Total(ch, {i \in DOMAIN nt : nt[i] = s})
      <4> DEFINE left == {i \in DOMAIN nt : nt[i] = s}
      <4>1. left \subseteq DOMAIN rt /\ id \notin left /\ IsFiniteSet(left) /\ left \subseteq DOMAIN ch
        BY <2>6, <3>1, <3>2, FS_Subset DEF RoutesOK
      <4>2. \A i \in left : ch[i] = p.charges[i] /\ ch[i].amount \in Nat /\ p.charges[i].amount \in Nat
        BY <2>5, <2>6, <3>1, <4>1
      <4>3. {i \in DOMAIN rt : rt[i] = s} = IF s = c.replica THEN left \cup {id} ELSE left
        BY <3>2, <3>4
      <4> HIDE DEF left
      <4>4. Total(p.charges, left) = Total(ch, left)
        BY <4>1, <4>2, TotalSame
      <4>5. \A y \in left \cup {id} : p.charges[y].amount \in Nat
        BY <2>2, <4>2 DEF c
      <4>6. Total(p.charges, left) \in Nat /\ Total(p.charges, left \cup {id}) = p.charges[id].amount + Total(p.charges, left)
        BY <4>1, <4>5, TotalAdd
      <4>7. CASE s = c.replica
        <5>1. p.load[s] = c.amount + Total(p.charges, left)
          BY <3>1, <4>3, <4>6, <4>7 DEF c
        <5>2. ld[s] = AtLeast(0, p.load[s] - c.amount)
          BY <2>4, <4>7
        <5>3. ld[s] = Total(p.charges, left)
          BY <2>2, <4>6, <5>1, <5>2 DEF AtLeast
        <5> QED
          BY <4>4, <5>3 DEF left
      <4>8. CASE s # c.replica
        BY <2>4, <3>1, <4>3, <4>4, <4>8 DEF left
      <4> QED
        BY <4>7, <4>8
    <3>6. Balanced(q, nt)
      BY <2>6, <2>8, <3>1, <3>2, <3>3, <3>5 DEF Balanced
    <3> QED
      BY <2>9, <3>6 DEF q, nt
  <2> QED
    BY <2>10, <2>11
<1> QED
  BY <1>1, <1>2

-----------------------------------------------------------------------------
(* The tables. *)

Command == [type : {"add", "abort"}, id : Ids, use : Nat]

TablesOK(s) ==
  /\ s \in [policy : {s.policy}, routes : {s.routes},
            commands : [Replicas -> Seq(Command)], uses : [Ids -> Nat]]
  /\ PolicyOK(s.policy) /\ RoutesOK(s.routes) /\ Balanced(s.policy, s.routes)

\* n is s with one command more for replica r.
Queued(s, n, r, cmd) ==
  /\ r \in Replicas
  /\ n.commands[r] = Append(s.commands[r], cmd)
  /\ \A q \in Replicas \ {r} : n.commands[q] = s.commands[q]

\* n is s with the request routed to r.
Routed(s, n, id, r) ==
  /\ Queued(s, n, r, Request(id, s.uses[id] + 1))
  /\ DOMAIN n.routes = DOMAIN s.routes \cup {id} /\ n.routes[id] = r
  /\ \A i \in DOMAIN s.routes : n.routes[i] = s.routes[i]
  /\ n.uses[id] = s.uses[id] + 1 /\ \A i \in Ids \ {id} : n.uses[i] = s.uses[i]

\* n is s without the route.
Unrouted(s, n, id) ==
  /\ DOMAIN n.routes = DOMAIN s.routes \ {id}
  /\ \A i \in DOMAIN n.routes : n.routes[i] = s.routes[i]
  /\ n.uses = s.uses

\* n is s with a route for the request.
Assigned(s, n, id, r) ==
  /\ r \in Replicas
  /\ DOMAIN n.routes = DOMAIN s.routes \cup {id} /\ n.routes[id] = r
  /\ \A i \in DOMAIN s.routes : n.routes[i] = s.routes[i]
  /\ n.commands = s.commands /\ n.uses = s.uses

\* What Assign does: the request has a route and a charge.
LEMMA AssignEffect ==
  ASSUME NEW s, TablesOK(s), NEW id \in Ids, id \notin DOMAIN s.routes
  PROVE  TablesOK(Assign(s, id)) /\ Assigned(s, Assign(s, id), id, Choice(s.policy, id))
<1> DEFINE n  == Assign(s, id)
           r  == Choice(s.policy, id)
           p  == Select(s.policy, id)
           rt == With(s.routes, id, r)
<1>1. r \in Replicas /\ PolicyOK(p) /\ Balanced(p, rt)
  BY ChoiceIsReplica, SelectBalanced DEF TablesOK
<1> HIDE DEF r, p
<1>2. /\ DOMAIN rt = DOMAIN s.routes \cup {id} /\ rt[id] = r
      /\ \A i \in DOMAIN s.routes : rt[i] = s.routes[i]
  BY DEF With
<1>3. RoutesOK(rt)
  <2>1. RoutesOK(s.routes)
    BY DEF TablesOK
  <2>2. IsFiniteSet(DOMAIN rt)
    BY <1>2, <2>1, FS_AddElement DEF RoutesOK
  <2>3. rt = [i \in DOMAIN rt |-> rt[i]] /\ DOMAIN rt \subseteq Ids /\ \A i \in DOMAIN rt : rt[i] \in Replicas
    BY <1>1, <1>2, <2>1 DEF With, RoutesOK
  <2> HIDE DEF rt
  <2> QED
    BY <2>2, <2>3 DEF RoutesOK
<1>4. n = [s EXCEPT !.policy = p, !.routes = rt]
  BY DEF Assign, p, r
<1> HIDE DEF rt, n
<1>5. n \in [policy : {p}, routes : {rt}, commands : {s.commands}, uses : {s.uses}]
  BY <1>4 DEF TablesOK
<1>6. n.policy = p /\ n.routes = rt /\ n.commands = s.commands /\ n.uses = s.uses
  BY <1>5
<1>7. TablesOK(n)
  BY <1>1, <1>3, <1>5, <1>6 DEF TablesOK
<1>8. Assigned(s, n, id, r)
  BY <1>1, <1>2, <1>6 DEF Assigned
<1> QED
  BY <1>7, <1>8 DEF n, r

\* What Route does: the request has a route, a charge and a command.
LEMMA RouteEffect ==
  ASSUME NEW s, TablesOK(s), NEW id \in Ids, id \notin DOMAIN s.routes
  PROVE  TablesOK(Route(s, id)) /\ Routed(s, Route(s, id), id, Choice(s.policy, id))
<1> DEFINE n  == Route(s, id)
           q  == Assign(s, id)
           r  == Choice(s.policy, id)
           us == [s.uses EXCEPT ![id] = @ + 1]
           cm == Request(id, s.uses[id] + 1)
           cs == [s.commands EXCEPT ![r] = Append(@, cm)]
<1>1. TablesOK(q) /\ Assigned(s, q, id, r)
  BY AssignEffect
<1>2. s.uses \in [Ids -> Nat] /\ s.commands \in [Replicas -> Seq(Command)]
  BY DEF TablesOK
<1>3. us \in [Ids -> Nat] /\ us[id] = s.uses[id] + 1 /\ \A i \in Ids \ {id} : us[i] = s.uses[i]
  BY <1>2
<1>4. cm \in Command
  BY <1>2 DEF Command, Request
<1>5. n = Enqueue([q EXCEPT !.uses[id] = @ + 1], r, cm)
  BY DEF Route
<1> HIDE DEF r, q, cm, n
<1>6. r \in Replicas /\ q.uses = s.uses /\ q.commands = s.commands
  BY <1>1 DEF Assigned
<1>7. /\ cs \in [Replicas -> Seq(Command)] /\ cs[r] = Append(s.commands[r], cm)
      /\ \A u \in Replicas \ {r} : cs[u] = s.commands[u]
  BY <1>2, <1>4, <1>6
<1>8. n = [q EXCEPT !.uses = us, !.commands = cs]
  BY <1>1, <1>5, <1>6 DEF Enqueue, TablesOK
<1> HIDE DEF us, cs
<1>9. n \in [policy : {q.policy}, routes : {q.routes}, commands : {cs}, uses : {us}]
  BY <1>1, <1>8 DEF TablesOK
<1>10. n.policy = q.policy /\ n.routes = q.routes /\ n.commands = cs /\ n.uses = us
  BY <1>9
<1>11. TablesOK(n)
  BY <1>1, <1>3, <1>7, <1>9, <1>10 DEF TablesOK
<1>12. Routed(s, n, id, r)
  BY <1>1, <1>3, <1>6, <1>7, <1>10 DEF Routed, Queued, Assigned, cm
<1> QED
  BY <1>11, <1>12 DEF n, r

\* What Release does: route and charge go, no command is sent.
LEMMA ReleaseEffect ==
  ASSUME NEW s, TablesOK(s), NEW id
  PROVE  /\ TablesOK(Release(s, id)) /\ Unrouted(s, Release(s, id), id)
         /\ Release(s, id).commands = s.commands
<1> DEFINE n  == Release(s, id)
           p  == Uncharge(s.policy, id)
           rt == Without(s.routes, id)
<1>1. CASE id \notin DOMAIN s.routes
  BY <1>1 DEF Release, Unrouted
<1>2. CASE id \in DOMAIN s.routes
  <2>1. PolicyOK(p) /\ Balanced(p, rt)
    BY <1>2, UnchargeBalanced DEF TablesOK
  <2>2. n = [s EXCEPT !.routes = rt, !.policy = p]
    BY <1>2 DEF Release
  <2>3. DOMAIN rt = DOMAIN s.routes \ {id} /\ \A i \in DOMAIN rt : rt[i] = s.routes[i]
    BY DEF Without
  <2>4. RoutesOK(rt)
    <3>1. RoutesOK(s.routes)
      BY DEF TablesOK
    <3>2. IsFiniteSet(DOMAIN rt)
      BY <2>3, <3>1, FS_Subset DEF RoutesOK
    <3>3. rt = [i \in DOMAIN rt |-> rt[i]] /\ DOMAIN rt \subseteq Ids /\ \A i \in DOMAIN rt : rt[i] \in Replicas
      BY <2>3, <3>1 DEF Without, RoutesOK
    <3> HIDE DEF rt
    <3> QED
      BY <3>2, <3>3 DEF RoutesOK
  <2> HIDE DEF rt, p, n
  <2>5. n \in [policy : {p}, routes : {rt}, commands : {s.commands}, uses : {s.uses}]
    BY <2>2 DEF TablesOK
  <2>6. n.policy = p /\ n.routes = rt /\ n.commands = s.commands /\ n.uses = s.uses
    BY <2>5
  <2>7. TablesOK(n)
    BY <2>1, <2>4, <2>5, <2>6 DEF TablesOK
  <2>8. Unrouted(s, n, id) /\ n.commands = s.commands
    BY <2>3, <2>6 DEF Unrouted
  <2> QED
    BY <2>7, <2>8 DEF n
<1> QED
  BY <1>1, <1>2

\* What Forget does: the abort goes where the request went, then the route goes.
LEMMA ForgetEffect ==
  ASSUME NEW s, TablesOK(s), NEW id \in DOMAIN s.routes
  PROVE  /\ TablesOK(Forget(s, id)) /\ Unrouted(s, Forget(s, id), id)
         /\ Queued(s, Forget(s, id), s.routes[id], AbortOf(id, s.uses[id]))
<1> DEFINE r  == s.routes[id]
           cm == AbortOf(id, s.uses[id])
           cs == [s.commands EXCEPT ![r] = Append(@, cm)]
           q  == Enqueue(s, r, cm)
<1>1. r \in Replicas /\ id \in Ids /\ s.uses \in [Ids -> Nat] /\ s.commands \in [Replicas -> Seq(Command)]
  BY DEF TablesOK, RoutesOK
<1>2. cm \in Command
  BY <1>1 DEF Command, AbortOf
<1> HIDE DEF r, cm
<1>3. /\ cs \in [Replicas -> Seq(Command)] /\ cs[r] = Append(s.commands[r], cm)
      /\ \A u \in Replicas \ {r} : cs[u] = s.commands[u]
  BY <1>1, <1>2
<1>4. q = [s EXCEPT !.commands = cs]
  BY DEF Enqueue
<1> HIDE DEF cs, q
<1>5. q \in [policy : {s.policy}, routes : {s.routes}, commands : {cs}, uses : {s.uses}]
  BY <1>4 DEF TablesOK
<1>6. q.policy = s.policy /\ q.routes = s.routes /\ q.commands = cs /\ q.uses = s.uses
  BY <1>5
<1>7. TablesOK(q)
  BY <1>1, <1>3, <1>5, <1>6 DEF TablesOK
<1>8. Forget(s, id) = Release(q, id)
  BY DEF Forget, q, r, cm
<1>9. TablesOK(Release(q, id)) /\ Unrouted(q, Release(q, id), id) /\ Release(q, id).commands = cs
  BY <1>6, <1>7, ReleaseEffect
<1>10. Unrouted(s, Release(q, id), id)
  BY <1>6, <1>9 DEF Unrouted
<1>11. Queued(s, Release(q, id), r, cm)
  BY <1>1, <1>3, <1>9 DEF Queued
<1> QED
  BY <1>8, <1>9, <1>10, <1>11 DEF r, cm

-----------------------------------------------------------------------------
(* Every route has its request. *)

Event == [type : {"finish", "error"}, id : Ids, use : Nat] \cup {[type |-> "failed"]}

\* The queue holds no abort of the request behind place k.
NoAbort(queue, id, k) ==
  \A j \in 1..Len(queue) : j > k => ~ (queue[j].type = "abort" /\ queue[j].id = id)

\* The request is queued, and nothing that would drop it is queued behind it.
InQueue(s, r, id) ==
  \E k \in 1..Len(s.commands[r]) :
    s.commands[r][k] = Request(id, s.uses[id]) /\ NoAbort(s.commands[r], id, k)

\* The replica works on the request and will not be told to drop it.
AtWork(s, lv, r, id) == <<id, s.uses[id]>> \in lv[r] /\ NoAbort(s.commands[r], id, 0)

\* Its last event is on the way back.
Reported(ev, id) == \E k \in 1..Len(ev) : ev[k].type \in {"finish", "error"} /\ ev[k].id = id

\* Where the request of a route is.
Owned(s, lv, al, ev, id) ==
  \/ s.routes[id] \notin al
  \/ AtWork(s, lv, s.routes[id], id)
  \/ InQueue(s, s.routes[id], id)
  \/ Reported(ev, id)

AllOwned(s, lv, al, ev) == \A id \in DOMAIN s.routes : Owned(s, lv, al, ev, id)

\* A command that does not abort the request leaves it where it is.
LEMMA StillOwned ==
  ASSUME NEW s, TablesOK(s), NEW n, TablesOK(n), NEW lv, NEW al, NEW ev,
         NEW r, NEW cmd \in Command, Queued(s, n, r, cmd), NEW id \in DOMAIN s.routes,
         n.routes[id] = s.routes[id], n.uses[id] = s.uses[id],
         ~ (cmd.type = "abort" /\ cmd.id = id), Owned(s, lv, al, ev, id)
  PROVE  Owned(n, lv, al, ev, id)
<1> DEFINE t == s.routes[id]
<1>1. t \in Replicas /\ s.commands[t] \in Seq(Command)
  BY DEF TablesOK, RoutesOK
<1>2. CASE t # r
  <2>1. n.commands[t] = s.commands[t]
    BY <1>1, <1>2 DEF Queued
  <2> QED
    BY <2>1 DEF Owned, AtWork, InQueue
<1>3. CASE t = r
  <2> DEFINE q == s.commands[t]
             w == n.commands[t]
  <2>1. w = Append(q, cmd)
    BY <1>3 DEF Queued
  <2>2. Len(w) = Len(q) + 1 /\ Len(q) \in Nat /\ w[Len(q) + 1] = cmd /\ \A j \in 1..Len(q) : w[j] = q[j]
    BY <1>1, <2>1
  <2> HIDE DEF q, w
  <2>3. \A k \in 0..Len(q) : NoAbort(q, id, k) => NoAbort(w, id, k)
    BY <2>2 DEF NoAbort
  <2>4. AtWork(s, lv, t, id) => AtWork(n, lv, t, id)
    BY <2>2, <2>3 DEF AtWork, q, w
  <2>5. InQueue(s, t, id) => InQueue(n, t, id)
    <3>1. SUFFICES ASSUME NEW k \in 1..Len(q), q[k] = Request(id, s.uses[id]), NoAbort(q, id, k)
                   PROVE  InQueue(n, t, id)
      BY Zenon DEF InQueue, q
    <3>2. k \in 1..Len(w) /\ w[k] = Request(id, n.uses[id]) /\ NoAbort(w, id, k)
      BY <2>2, <2>3, <3>1
    <3> QED
      BY <3>2, Zenon DEF InQueue, w
  <2> QED
    BY <2>4, <2>5 DEF Owned
<1> QED
  BY <1>2, <1>3

\* A new request leaves every route with its request.
LEMMA RouteOwned ==
  ASSUME NEW s, TablesOK(s), NEW lv, NEW al, NEW ev, AllOwned(s, lv, al, ev),
         NEW id \in Ids, id \notin DOMAIN s.routes
  PROVE  AllOwned(Route(s, id), lv, al, ev)
<1> DEFINE n == Route(s, id)
<1>1. TablesOK(n)
  BY RouteEffect
<1>2. PICK r : Routed(s, n, id, r)
  BY RouteEffect
<1> HIDE DEF n
<1> DEFINE cmd == Request(id, s.uses[id] + 1)
<1>3. cmd \in Command
  BY DEF Command, Request, TablesOK
<1>4. Queued(s, n, r, cmd) /\ n.routes[id] = r /\ n.uses[id] = s.uses[id] + 1
  BY <1>2 DEF Routed
<1>5. ASSUME NEW i \in DOMAIN s.routes
      PROVE  Owned(n, lv, al, ev, i)
  <2>1. Owned(s, lv, al, ev, i) /\ i \in Ids /\ i # id
    BY DEF AllOwned, TablesOK, RoutesOK
  <2>2. n.routes[i] = s.routes[i] /\ n.uses[i] = s.uses[i]
    BY <1>2, <2>1 DEF Routed
  <2>3. cmd.type # "abort"
    BY DEF Request
  <2> QED
    BY <1>1, <1>3, <1>4, <2>1, <2>2, <2>3, StillOwned
<1>6. Owned(n, lv, al, ev, id)
  <2> DEFINE q == s.commands[r]
             w == n.commands[r]
  <2>1. q \in Seq(Command) /\ w = Append(q, cmd)
    BY <1>4 DEF Queued, TablesOK
  <2>2. Len(w) \in 1..Len(w) /\ w[Len(w)] = cmd /\ NoAbort(w, id, Len(w))
    BY <1>3, <2>1 DEF NoAbort
  <2> HIDE DEF w, q
  <2>3. InQueue(n, r, id)
    BY <1>4, <2>2, Zenon DEF InQueue, w
  <2> QED
    BY <1>4, <2>3 DEF Owned
<1> QED
  BY <1>2, <1>5, <1>6 DEF AllOwned, Routed, n

\* An abort leaves the other routes with their requests.
LEMMA ForgetOwned ==
  ASSUME NEW s, TablesOK(s), NEW lv, NEW al, NEW ev, AllOwned(s, lv, al, ev), NEW id
  PROVE  AllOwned(Forget(s, id), lv, al, ev)
<1>1. CASE id \notin DOMAIN s.routes
  BY <1>1 DEF Forget
<1>2. CASE id \in DOMAIN s.routes
  <2> DEFINE n   == Forget(s, id)
             cmd == AbortOf(id, s.uses[id])
             r   == s.routes[id]
  <2>1. TablesOK(n) /\ Unrouted(s, n, id) /\ Queued(s, n, r, cmd)
    BY <1>2, ForgetEffect
  <2>2. cmd \in Command /\ cmd.id = id
    BY <1>2 DEF Command, AbortOf, TablesOK, RoutesOK
  <2> HIDE DEF n, cmd, r
  <2>3. ASSUME NEW i \in DOMAIN n.routes
        PROVE  Owned(n, lv, al, ev, i)
    <3>1. i \in DOMAIN s.routes /\ i # id /\ n.routes[i] = s.routes[i] /\ n.uses[i] = s.uses[i]
      BY <2>1 DEF Unrouted
    <3>2. Owned(s, lv, al, ev, i)
      BY <3>1 DEF AllOwned
    <3> QED
      BY <2>1, <2>2, <3>1, <3>2, StillOwned
  <2> QED
    BY <2>3 DEF AllOwned, n
<1> QED
  BY <1>1, <1>2

\* An event that is read takes its own route only.
LEMMA ReadOwned ==
  ASSUME NEW s, TablesOK(s), NEW lv, NEW al, NEW ev \in Seq(Event), ev # <<>>,
         AllOwned(s, lv, al, ev)
  PROVE  AllOwned(Release(s, Head(ev).id), lv, al, Tail(ev))
<1> DEFINE id == Head(ev).id
           n  == Release(s, id)
           tl == Tail(ev)
<1>1. TablesOK(n) /\ Unrouted(s, n, id) /\ n.commands = s.commands
  BY ReleaseEffect
<1>2. Len(ev) \in Nat /\ Len(tl) = Len(ev) - 1 /\ Head(ev) = ev[1] /\ \A k \in 1..Len(tl) : tl[k] = ev[k + 1]
  OBVIOUS
<1> HIDE DEF n, tl
<1>3. ASSUME NEW i \in DOMAIN n.routes
      PROVE  Owned(n, lv, al, tl, i)
  <2>1. i \in DOMAIN s.routes /\ i # id /\ n.routes[i] = s.routes[i] /\ n.uses[i] = s.uses[i]
    BY <1>1 DEF Unrouted
  <2>2. Owned(s, lv, al, ev, i)
    BY <2>1 DEF AllOwned
  <2>3. Reported(ev, i) => Reported(tl, i)
    <3>1. SUFFICES ASSUME NEW k \in 1..Len(ev), ev[k].type \in {"finish", "error"}, ev[k].id = i
                   PROVE  Reported(tl, i)
      BY Zenon DEF Reported
    <3>2. k # 1
      BY <1>2, <2>1, <3>1
    <3>3. k - 1 \in 1..Len(tl) /\ tl[k - 1] = ev[k]
      BY <1>2, <3>2
    <3> QED
      BY <3>1, <3>3, Zenon DEF Reported
  <2> QED
    BY <1>1, <2>1, <2>2, <2>3 DEF Owned, AtWork, InQueue
<1> QED
  BY <1>3 DEF AllOwned, n, tl

-----------------------------------------------------------------------------
(* A batch: the same step id by id. *)

\* The steps a batch repeats; reached is for the one that fails on its way.
Step(kind, reached, s, id) ==
  CASE kind = "route"   -> Route(s, id)
    [] kind = "upto"    -> RouteUpTo(reached, s, id)
    [] kind = "release" -> Release(s, id)
    [] OTHER            -> Forget(s, id)

\* f[i] is s after the first i steps of n.
Steps(kind, reached, f, s, ids, n) ==
  f = [i \in 0..n |-> IF i = 0 THEN s ELSE Step(kind, reached, f[i - 1], ids[i])]

\* The tables after each step exist.
LEMMA StepsExist ==
  ASSUME NEW kind, NEW reached, NEW s, NEW ids, NEW n \in Nat
  PROVE  \E f : Steps(kind, reached, f, s, ids, n)
<1> DEFINE Far == {k \in 0..n : ~ \E f : Steps(kind, reached, f, s, ids, k)}
<1>1. n \in 0..n
  OBVIOUS
<1> SUFFICES ASSUME Far # {}
             PROVE  FALSE
  BY <1>1, Zenon
<1>2. Far \subseteq Nat
  OBVIOUS
<1>3. PICK m \in Far : \A k \in Far : m <= k
  BY <1>2, Least, Zenon
<1>4. m \in Nat /\ m \in 0..n /\ ~ \E f : Steps(kind, reached, f, s, ids, m)
  BY <1>2, <1>3, Zenon
<1>5. m # 0
  <2> DEFINE f == [i \in 0..0 |-> s]
  <2>1. Steps(kind, reached, f, s, ids, 0)
    BY DEF Steps
  <2> QED
    BY <1>4, <2>1, Zenon
<1>6. m - 1 \in 0..n /\ ~ (m <= m - 1)
  BY <1>4, <1>5
<1>7. PICK f : Steps(kind, reached, f, s, ids, m - 1)
  BY <1>3, <1>6 DEF Far
<1> DEFINE g == [i \in 0..m |-> IF i = m THEN Step(kind, reached, f[m - 1], ids[m]) ELSE f[i]]
<1>8. \A i \in 0..(m - 1) : f[i] = IF i = 0 THEN s ELSE Step(kind, reached, f[i - 1], ids[i])
  BY <1>7, Zenon DEF Steps
<1>9. \A i \in 0..m : g[i] = IF i = 0 THEN s ELSE Step(kind, reached, g[i - 1], ids[i])
  <2> TAKE i \in 0..m
  <2>1. CASE i = m
    <3>1. g[i] = Step(kind, reached, f[m - 1], ids[m]) /\ m - 1 \in 0..m /\ m - 1 # m
      BY <1>4, <1>5, <2>1
    <3>2. g[m - 1] = f[m - 1]
      BY <3>1
    <3> QED
      BY <1>5, <2>1, <3>1, <3>2
  <2>2. CASE i # m
    <3>1. i \in 0..(m - 1) /\ g[i] = f[i] /\ (i # 0 => i - 1 \in 0..m /\ i - 1 # m)
      BY <1>4, <2>2
    <3>2. i # 0 => g[i - 1] = f[i - 1]
      BY <3>1
    <3> QED
      BY <1>8, <3>1, <3>2
  <2> QED
    BY <2>1, <2>2
<1>10. g = [i \in 0..m |-> g[i]]
  OBVIOUS
<1> HIDE DEF g
<1>11. Steps(kind, reached, g, s, ids, m)
  BY <1>9, <1>10 DEF Steps
<1> QED
  BY <1>4, <1>11, Zenon

\* F[i] is s after i steps.
StepByStep(kind, reached, F, s, ids) ==
  /\ F[0] = s
  /\ \A i \in 1..Len(ids) : F[i] = Step(kind, reached, F[i - 1], ids[i])

\* A batch of sends is a run of Route.
LEMMA RouteSteps ==
  ASSUME NEW s, NEW ids \in Seq(Ids)
  PROVE  \E F : StepByStep("route", {}, F, s, ids) /\ OneByOne(Route, s, ids) = F[Len(ids)]
<1> DEFINE n == Len(ids)
           F == CHOOSE f : f = [i \in 0..n |-> IF i = 0 THEN s ELSE Route(f[i - 1], ids[i])]
<1>1. n \in Nat
  OBVIOUS
<1>2. OneByOne(Route, s, ids) = F[n]
  BY DEF OneByOne
<1>3. PICK f : Steps("route", {}, f, s, ids, n)
  BY <1>1, StepsExist, Zenon
<1>4. f = [i \in 0..n |-> IF i = 0 THEN s ELSE Route(f[i - 1], ids[i])]
  BY <1>3 DEF Steps, Step
<1>5. F = [i \in 0..n |-> IF i = 0 THEN s ELSE Route(F[i - 1], ids[i])]
  BY <1>4, Zenon
<1> HIDE DEF F
<1>6. 0 \in 0..n /\ \A i \in 1..n : i \in 0..n /\ i # 0
  BY <1>1
<1>7. StepByStep("route", {}, F, s, ids)
  BY <1>5, <1>6 DEF StepByStep, Step
<1> QED
  BY <1>2, <1>7

\* A batch of sends that fails on its way is a run of RouteUpTo.
RouteAllUpTo(reached, s, ids) == OneByOne(LAMBDA x, id : RouteUpTo(reached, x, id), s, ids)

LEMMA RouteUpToSteps ==
  ASSUME NEW s, NEW ids \in Seq(Ids), NEW reached
  PROVE  \E F : StepByStep("upto", reached, F, s, ids) /\ RouteAllUpTo(reached, s, ids) = F[Len(ids)]
<1> DEFINE n == Len(ids)
           F == CHOOSE f : f = [i \in 0..n |-> IF i = 0 THEN s ELSE RouteUpTo(reached, f[i - 1], ids[i])]
<1>1. n \in Nat
  OBVIOUS
<1>2. RouteAllUpTo(reached, s, ids) = F[n]
  BY DEF OneByOne, RouteAllUpTo
<1>3. PICK f : Steps("upto", reached, f, s, ids, n)
  BY <1>1, StepsExist, Zenon
<1>4. f = [i \in 0..n |-> IF i = 0 THEN s ELSE RouteUpTo(reached, f[i - 1], ids[i])]
  BY <1>3 DEF Steps, Step
<1>5. F = [i \in 0..n |-> IF i = 0 THEN s ELSE RouteUpTo(reached, F[i - 1], ids[i])]
  BY <1>4, Zenon
<1> HIDE DEF F
<1>6. 0 \in 0..n /\ \A i \in 1..n : i \in 0..n /\ i # 0
  BY <1>1
<1>7. StepByStep("upto", reached, F, s, ids)
  BY <1>5, <1>6 DEF StepByStep, Step
<1> QED
  BY <1>2, <1>7

\* A batch that is taken back is a run of Release.
LEMMA ReleaseSteps ==
  ASSUME NEW s, NEW ids \in Seq(Ids)
  PROVE  \E F : StepByStep("release", {}, F, s, ids) /\ OneByOne(Release, s, ids) = F[Len(ids)]
<1> DEFINE n == Len(ids)
           F == CHOOSE f : f = [i \in 0..n |-> IF i = 0 THEN s ELSE Release(f[i - 1], ids[i])]
<1>1. n \in Nat
  OBVIOUS
<1>2. OneByOne(Release, s, ids) = F[n]
  BY DEF OneByOne
<1>3. PICK f : Steps("release", {}, f, s, ids, n)
  BY <1>1, StepsExist, Zenon
<1>4. f = [i \in 0..n |-> IF i = 0 THEN s ELSE Release(f[i - 1], ids[i])]
  BY <1>3 DEF Steps, Step
<1>5. F = [i \in 0..n |-> IF i = 0 THEN s ELSE Release(F[i - 1], ids[i])]
  BY <1>4, Zenon
<1> HIDE DEF F
<1>6. 0 \in 0..n /\ \A i \in 1..n : i \in 0..n /\ i # 0
  BY <1>1
<1>7. StepByStep("release", {}, F, s, ids)
  BY <1>5, <1>6 DEF StepByStep, Step
<1> QED
  BY <1>2, <1>7

\* A batch of aborts is a run of Forget.
LEMMA ForgetSteps ==
  ASSUME NEW s, NEW ids \in Seq(Ids)
  PROVE  \E F : StepByStep("abort", {}, F, s, ids) /\ OneByOne(Forget, s, ids) = F[Len(ids)]
<1> DEFINE n == Len(ids)
           F == CHOOSE f : f = [i \in 0..n |-> IF i = 0 THEN s ELSE Forget(f[i - 1], ids[i])]
<1>1. n \in Nat
  OBVIOUS
<1>2. OneByOne(Forget, s, ids) = F[n]
  BY DEF OneByOne
<1>3. PICK f : Steps("abort", {}, f, s, ids, n)
  BY <1>1, StepsExist, Zenon
<1>4. f = [i \in 0..n |-> IF i = 0 THEN s ELSE Forget(f[i - 1], ids[i])]
  BY <1>3 DEF Steps, Step
<1>5. F = [i \in 0..n |-> IF i = 0 THEN s ELSE Forget(F[i - 1], ids[i])]
  BY <1>4, Zenon
<1> HIDE DEF F
<1>6. 0 \in 0..n /\ \A i \in 1..n : i \in 0..n /\ i # 0
  BY <1>1
<1>7. StepByStep("abort", {}, F, s, ids)
  BY <1>5, <1>6 DEF StepByStep, Step
<1> QED
  BY <1>2, <1>7

-----------------------------------------------------------------------------
(* Ids that are used once. *)

\* The command at place k of replica r's queue submits the request.
IsAdd(s, r, k, id) ==
  k \in 1..Len(s.commands[r]) /\ s.commands[r][k].type = "add" /\ s.commands[r][k].id = id

\* Behind place k is the abort of the request.
IsDropped(s, r, k, id) ==
  \E j \in 1..Len(s.commands[r]) : j > k /\ s.commands[r][j] = AbortOf(id, 1)

Works(lv, r, id) == \E x \in lv[r] : x[1] = id

Told(ev, id) == \E k \in 1..Len(ev) : ev[k].type # "failed" /\ ev[k].id = id

\* Whatever mentions an id belongs to its one use.
Used(s, lv, ev) ==
  /\ \A id \in DOMAIN s.routes : s.uses[id] = 1
  /\ \A r \in Replicas : \A k \in 1..Len(s.commands[r]) :
       s.commands[r][k].use = 1 /\ s.uses[s.commands[r][k].id] = 1
  /\ \A r \in Replicas : \A x \in lv[r] : x[2] = 1 /\ s.uses[x[1]] = 1
  /\ \A id \in Ids : Told(ev, id) => s.uses[id] = 1

\* The request is in one place: a queue, a replica, or its last event.
InOnePlace(s, lv, ev) ==
  /\ \A id \in Ids : \A r, t \in Replicas : Works(lv, r, id) /\ Works(lv, t, id) => r = t
  /\ \A id \in Ids : \A r, t \in Replicas : \A k, l \in Nat :
       IsAdd(s, r, k, id) /\ IsAdd(s, t, l, id) => r = t /\ k = l
  /\ \A id \in Ids : \A r, t \in Replicas : \A k \in Nat :
       IsAdd(s, r, k, id) => ~ Works(lv, t, id)
  /\ \A id \in Ids : Told(ev, id) =>
       \A r \in Replicas : ~ Works(lv, r, id) /\ \A k \in Nat : ~ IsAdd(s, r, k, id)

HasRoute(s, r, id) == id \in DOMAIN s.routes /\ s.routes[id] = r

\* A request that is queued or worked on has its route, or its abort follows,
\* or it is one of those in dis, which a failed send() left behind.
Tied(s, lv, dis) ==
  /\ \A id \in Ids : \A r \in Replicas :
       Works(lv, r, id) => HasRoute(s, r, id) \/ IsDropped(s, r, 0, id) \/ <<id, 1>> \in dis
  /\ \A id \in Ids : \A r \in Replicas : \A k \in Nat :
       IsAdd(s, r, k, id) => HasRoute(s, r, id) \/ IsDropped(s, r, k, id) \/ <<id, 1>> \in dis

Exact(s, lv, ev, dis) == Used(s, lv, ev) /\ InOnePlace(s, lv, ev) /\ Tied(s, lv, dis)

\* A command that is queued stays where it is when another is queued.
LEMMA QueuedAdds ==
  ASSUME NEW s, s.commands \in [Replicas -> Seq(Command)], NEW n, NEW r, NEW cmd, Queued(s, n, r, cmd), NEW t \in Replicas
  PROVE  /\ \A k \in Nat : \A id : IsAdd(n, t, k, id) <=>
              \/ IsAdd(s, t, k, id)
              \/ t = r /\ k = Len(s.commands[r]) + 1 /\ cmd.type = "add" /\ cmd.id = id
         /\ \A k \in Nat : \A id : IsDropped(s, t, k, id) => IsDropped(n, t, k, id)
         /\ \A k \in 1..Len(n.commands[t]) :
              \/ k \in 1..Len(s.commands[t]) /\ n.commands[t][k] = s.commands[t][k]
              \/ t = r /\ n.commands[t][k] = cmd
<1> DEFINE q == s.commands[t]
           w == n.commands[t]
<1>1. q \in Seq(Command) /\ Len(q) \in Nat
  OBVIOUS
<1>2. CASE t # r
  <2>1. w = q
    BY <1>2 DEF Queued
  <2> QED
    BY <1>2, <2>1 DEF IsAdd, IsDropped
<1>3. CASE t = r
  <2>1. w = Append(q, cmd)
    BY <1>3 DEF Queued
  <2>2. Len(w) = Len(q) + 1 /\ w[Len(q) + 1] = cmd /\ \A j \in 1..Len(q) : w[j] = q[j]
    BY <1>1, <2>1
  <2> HIDE DEF q, w
  <2>3. \A j \in 1..Len(q) : j \in 1..Len(w)
    BY <1>1, <2>2
  <2>4. \A j \in 1..Len(w) : j \in 1..Len(q) \/ j = Len(q) + 1
    BY <1>1, <2>2
  <2>5. ASSUME NEW k \in Nat, NEW id
        PROVE  IsAdd(n, t, k, id) <=> IsAdd(s, t, k, id) \/ (k = Len(q) + 1 /\ cmd.type = "add" /\ cmd.id = id)
    <3>1. IsAdd(n, t, k, id) <=> k \in 1..Len(w) /\ w[k].type = "add" /\ w[k].id = id
      BY DEF IsAdd, w
    <3>2. IsAdd(s, t, k, id) <=> k \in 1..Len(q) /\ q[k].type = "add" /\ q[k].id = id
      BY DEF IsAdd, q
    <3>3. CASE k \in 1..Len(q)
      BY <1>1, <2>2, <2>3, <3>1, <3>2, <3>3
    <3>4. CASE k \notin 1..Len(q)
      <4>1. k \in 1..Len(w) <=> k = Len(q) + 1
        BY <1>1, <2>2, <3>4
      <4> QED
        BY <2>2, <3>1, <3>2, <3>4, <4>1
    <3> QED
      BY <3>3, <3>4
  <2>6. \A k \in Nat : \A id : IsDropped(s, t, k, id) => IsDropped(n, t, k, id)
    BY <2>2, <2>3 DEF IsDropped, q, w
  <2> QED
    BY <1>3, <2>2, <2>4, <2>5, <2>6 DEF q, w
<1> QED
  BY <1>2, <1>3

\* The request of an id's first use was queued, and has its route or is one of
\* those that a failed send() leaves behind.
FirstUse(s, n, lv, dis, dt, r, id) ==
  /\ s.commands \in [Replicas -> Seq(Command)]
  /\ id \in Ids /\ s.uses[id] = 0 /\ n.uses[id] = 1
  /\ \A i \in Ids \ {id} : n.uses[i] = s.uses[i]
  /\ Queued(s, n, r, Request(id, 1))
  /\ DOMAIN s.routes \subseteq DOMAIN n.routes
  /\ DOMAIN n.routes \subseteq (DOMAIN s.routes \cup {id}) \cap Ids
  /\ \A i \in DOMAIN s.routes : n.routes[i] = s.routes[i]
  /\ dis \subseteq dt /\ (HasRoute(n, r, id) \/ <<id, 1>> \in dt)
  /\ \A t \in Replicas : \A x \in lv[t] : x[1] \in Ids

\* It keeps everything exact.
LEMMA AddExact ==
  ASSUME NEW s, NEW n, NEW lv, NEW ev, NEW dis, NEW dt, NEW r, NEW id,
         Exact(s, lv, ev, dis), FirstUse(s, n, lv, dis, dt, r, id)
  PROVE  Exact(n, lv, ev, dt)
<1> USE DEF FirstUse
<1> DEFINE cmd  == Request(id, 1)
           last == Len(s.commands[r]) + 1
<1>1. Queued(s, n, r, cmd) /\ r \in Replicas
  BY DEF Queued
<1>2. cmd.type = "add" /\ cmd.id = id /\ cmd.use = 1
  BY DEF Request
<1>3. \A t \in Replicas : s.commands[t] \in Seq(Command) /\ \A k \in 1..Len(s.commands[t]) : s.commands[t][k].id \in Ids
  <2> TAKE t \in Replicas
  <2>1. s.commands[t] \in Seq(Command)
    OBVIOUS
  <2>2. \A k \in 1..Len(s.commands[t]) : s.commands[t][k] \in Command
    BY <2>1
  <2> QED
    BY <2>1, <2>2 DEF Command
<1> HIDE DEF cmd, last
<1>4. \A t \in Replicas : \A k \in Nat : \A i : IsAdd(n, t, k, i) <=> IsAdd(s, t, k, i) \/ (t = r /\ k = last /\ i = id)
  BY <1>1, <1>2, QueuedAdds DEF last
<1>5. ASSUME NEW t \in Replicas
      PROVE  /\ \A k \in Nat : \A i : IsDropped(s, t, k, i) => IsDropped(n, t, k, i)
             /\ \A k \in 1..Len(n.commands[t]) :
                  \/ k \in 1..Len(s.commands[t]) /\ n.commands[t][k] = s.commands[t][k]
                  \/ n.commands[t][k] = cmd
  <2>1. s.commands \in [Replicas -> Seq(Command)]
    OBVIOUS
  <2> QED
    BY <1>1, <2>1, QueuedAdds
<1>6. \A t \in Replicas : \A k \in 1..Len(n.commands[t]) :
        \/ k \in 1..Len(s.commands[t]) /\ n.commands[t][k] = s.commands[t][k]
        \/ n.commands[t][k] = cmd
  BY <1>5
<1>7. \A t \in Replicas : ~ Works(lv, t, id)
  BY DEF Exact, Used, Works
<1>8. \A t \in Replicas : \A k \in Nat : ~ IsAdd(s, t, k, id)
  BY DEF Exact, Used, IsAdd
<1>9. ~ Told(ev, id)
  BY DEF Exact, Used
<1>10. Used(n, lv, ev)
  <2>1. \A i \in DOMAIN n.routes : n.uses[i] = 1
    BY DEF Exact, Used
  <2>2. ASSUME NEW t \in Replicas, NEW k \in 1..Len(n.commands[t])
        PROVE  n.commands[t][k].use = 1 /\ n.uses[n.commands[t][k].id] = 1
    <3>1. CASE n.commands[t][k] = cmd
      BY <1>1, <1>2, <3>1
    <3>2. CASE k \in 1..Len(s.commands[t]) /\ n.commands[t][k] = s.commands[t][k]
      <4>1. s.commands[t][k].use = 1 /\ s.uses[s.commands[t][k].id] = 1 /\ s.commands[t][k].id \in Ids
        BY <1>3, <3>2 DEF Exact, Used
      <4> QED
        BY <1>1, <3>2, <4>1
    <3> QED
      BY <1>6, <3>1, <3>2
  <2>3. \A t \in Replicas : \A x \in lv[t] : x[2] = 1 /\ n.uses[x[1]] = 1
    BY <1>1 DEF Exact, Used
  <2>4. \A i \in Ids : Told(ev, i) => n.uses[i] = 1
    BY <1>1 DEF Exact, Used
  <2> QED
    BY <2>1, <2>2, <2>3, <2>4 DEF Used
<1>11. InOnePlace(n, lv, ev)
  <2>1. ASSUME NEW i \in Ids, NEW t \in Replicas, NEW u \in Replicas, NEW k \in Nat, NEW l \in Nat,
               IsAdd(n, t, k, i), IsAdd(n, u, l, i)
        PROVE  t = u /\ k = l
    <3>1. /\ IsAdd(s, t, k, i) \/ (t = r /\ k = last /\ i = id)
          /\ IsAdd(s, u, l, i) \/ (u = r /\ l = last /\ i = id)
      BY <1>4, <2>1
    <3>2. CASE i = id
      BY <1>8, <3>1, <3>2
    <3>3. CASE i # id
      BY <3>1, <3>3 DEF Exact, InOnePlace
    <3> QED
      BY <3>2, <3>3
  <2>2. \A i \in Ids : \A t, u \in Replicas : \A k \in Nat : IsAdd(n, t, k, i) => ~ Works(lv, u, i)
    BY <1>4, <1>7 DEF Exact, InOnePlace
  <2>3. \A i \in Ids : Told(ev, i) =>
          \A t \in Replicas : ~ Works(lv, t, i) /\ \A k \in Nat : ~ IsAdd(n, t, k, i)
    BY <1>4, <1>9 DEF Exact, InOnePlace
  <2> QED
    BY <2>1, <2>2, <2>3 DEF Exact, InOnePlace
<1>12. Tied(n, lv, dt)
  <2>1. \A t \in Replicas : \A i \in Ids : HasRoute(s, t, i) => HasRoute(n, t, i)
    BY DEF HasRoute
  <2>2. ASSUME NEW i \in Ids, NEW t \in Replicas, Works(lv, t, i)
        PROVE  HasRoute(n, t, i) \/ IsDropped(n, t, 0, i) \/ <<i, 1>> \in dt
    <3>1. HasRoute(s, t, i) \/ IsDropped(s, t, 0, i) \/ <<i, 1>> \in dis
      BY <2>2 DEF Exact, Tied
    <3>2. IsDropped(s, t, 0, i) => IsDropped(n, t, 0, i)
      BY <1>5
    <3> QED
      BY <2>1, <3>1, <3>2
  <2>3. \A i \in Ids : \A t \in Replicas : \A k \in Nat :
          IsAdd(n, t, k, i) => HasRoute(n, t, i) \/ IsDropped(n, t, k, i) \/ <<i, 1>> \in dt
    BY <1>4, <1>5, <2>1 DEF Exact, Tied
  <2> QED
    BY <2>2, <2>3 DEF Tied
<1> QED
  BY <1>10, <1>11, <1>12 DEF Exact

\* A request that is sent keeps everything exact.
LEMMA RouteExact ==
  ASSUME NEW s, TablesOK(s), NEW lv, NEW ev, NEW dis, Exact(s, lv, ev, dis),
         NEW id \in Ids, id \notin DOMAIN s.routes, s.uses[id] = 0,
         \A r \in Replicas : \A x \in lv[r] : x[1] \in Ids
  PROVE  Exact(Route(s, id), lv, ev, dis)
<1> DEFINE n == Route(s, id)
<1>1. PICK r : Routed(s, n, id, r)
  BY RouteEffect
<1> HIDE DEF n
<1>2. /\ Queued(s, n, r, Request(id, 1)) /\ n.uses[id] = 1 /\ n.routes[id] = r
      /\ DOMAIN n.routes = DOMAIN s.routes \cup {id}
      /\ \A i \in DOMAIN s.routes : n.routes[i] = s.routes[i]
      /\ \A i \in Ids \ {id} : n.uses[i] = s.uses[i]
  BY <1>1 DEF Routed
<1>3. DOMAIN s.routes \subseteq Ids /\ s.commands \in [Replicas -> Seq(Command)]
  BY DEF TablesOK, RoutesOK
<1>4. HasRoute(n, r, id)
  BY <1>2 DEF HasRoute
<1>5. FirstUse(s, n, lv, dis, dis, r, id)
  BY <1>2, <1>3, <1>4 DEF FirstUse
<1>6. Exact(n, lv, ev, dis)
  BY <1>5, AddExact
<1> QED
  BY <1>6 DEF n

\* So does an abort: it follows the request into its queue.
LEMMA ForgetExact ==
  ASSUME NEW s, TablesOK(s), NEW lv, NEW ev, NEW dis, Exact(s, lv, ev, dis), NEW id
  PROVE  Exact(Forget(s, id), lv, ev, dis)
<1>1. CASE id \notin DOMAIN s.routes
  BY <1>1 DEF Forget
<1>2. CASE id \in DOMAIN s.routes
  <2> DEFINE n   == Forget(s, id)
             r   == s.routes[id]
             cmd == AbortOf(id, s.uses[id])
  <2>1. TablesOK(n) /\ Unrouted(s, n, id) /\ Queued(s, n, r, cmd) /\ s.commands \in [Replicas -> Seq(Command)]
    BY <1>2, ForgetEffect DEF TablesOK
  <2>2. s.uses[id] = 1 /\ id \in Ids /\ r \in Replicas
    BY <1>2 DEF Exact, Used, TablesOK, RoutesOK
  <2>3. cmd = AbortOf(id, 1) /\ cmd.type = "abort" /\ cmd.id = id /\ cmd.use = 1
    BY <2>2 DEF AbortOf
  <2> HIDE DEF n, cmd, r
  <2>4. n.uses = s.uses /\ DOMAIN n.routes = DOMAIN s.routes \ {id} /\ \A i \in DOMAIN n.routes : n.routes[i] = s.routes[i]
    BY <2>1 DEF Unrouted
  <2>5. \A t \in Replicas : \A k \in Nat : \A i : IsAdd(n, t, k, i) <=> IsAdd(s, t, k, i)
    BY <2>1, <2>3, QueuedAdds
  <2>6. \A t \in Replicas : \A k \in Nat : \A i : IsDropped(s, t, k, i) => IsDropped(n, t, k, i)
    BY <2>1, QueuedAdds
  <2>7. \A t \in Replicas : \A k \in 1..Len(n.commands[t]) :
          \/ k \in 1..Len(s.commands[t]) /\ n.commands[t][k] = s.commands[t][k]
          \/ n.commands[t][k] = cmd
    BY <2>1, QueuedAdds
  <2>8. Used(n, lv, ev)
    <3>1. \A t \in Replicas : \A k \in 1..Len(n.commands[t]) :
            n.commands[t][k].use = 1 /\ n.uses[n.commands[t][k].id] = 1
      BY <2>2, <2>3, <2>4, <2>7 DEF Exact, Used
    <3> QED
      BY <2>4, <3>1 DEF Exact, Used
  <2>9. InOnePlace(n, lv, ev)
    BY <2>5 DEF Exact, InOnePlace
  <2>10. \A k \in Nat : k <= Len(s.commands[r]) => IsDropped(n, r, k, id)
    <3>1. s.commands[r] \in Seq(Command) /\ n.commands[r] = Append(s.commands[r], cmd)
      BY <2>1, <2>2 DEF Queued, TablesOK
    <3> DEFINE l == Len(s.commands[r]) + 1
    <3>2. l \in 1..Len(n.commands[r]) /\ n.commands[r][l] = AbortOf(id, 1) /\ \A k \in Nat : k <= Len(s.commands[r]) => l > k
      BY <2>3, <3>1
    <3> QED
      BY <3>2 DEF IsDropped
  <2>11. \A t \in Replicas : \A i \in Ids : HasRoute(s, t, i) => HasRoute(n, t, i) \/ (i = id /\ t = r)
    BY <2>4 DEF HasRoute, r
  <2>12. Tied(n, lv, dis)
    <3>1. 0 \in Nat /\ 0 <= Len(s.commands[r])
      BY <2>2 DEF TablesOK
    <3>2. \A i \in Ids : \A t \in Replicas : Works(lv, t, i) => HasRoute(n, t, i) \/ IsDropped(n, t, 0, i) \/ <<i, 1>> \in dis
      BY <2>6, <2>10, <2>11, <3>1 DEF Exact, Tied
    <3>3. \A t \in Replicas : \A k \in Nat : \A i : IsAdd(s, t, k, i) => k <= Len(s.commands[t])
      BY DEF IsAdd
    <3>4. \A i \in Ids : \A t \in Replicas : \A k \in Nat :
            IsAdd(n, t, k, i) => HasRoute(n, t, i) \/ IsDropped(n, t, k, i) \/ <<i, 1>> \in dis
      BY <2>5, <2>6, <2>10, <2>11, <3>3 DEF Exact, Tied
    <3> QED
      BY <3>2, <3>4 DEF Tied
  <2> QED
    BY <2>8, <2>9, <2>12 DEF Exact, n
<1> QED
  BY <1>1, <1>2

\* And so does the last event of a request, which is then nowhere else.
LEMMA ReadExact ==
  ASSUME NEW s, TablesOK(s), NEW lv, NEW ev \in Seq(Event), NEW dis, Exact(s, lv, ev, dis),
         ev # <<>>, Head(ev).type # "failed"
  PROVE  Exact(Release(s, Head(ev).id), lv, Tail(ev), dis)
<1> DEFINE id == Head(ev).id
           n  == Release(s, id)
           tl == Tail(ev)
<1>1. TablesOK(n) /\ Unrouted(s, n, id) /\ n.commands = s.commands
  BY ReleaseEffect
<1>2. Len(ev) \in Nat /\ Len(tl) = Len(ev) - 1 /\ Head(ev) = ev[1] /\ 1 \in 1..Len(ev) /\ \A k \in 1..Len(tl) : tl[k] = ev[k + 1] /\ k + 1 \in 1..Len(ev)
  OBVIOUS
<1>3. id \in Ids
  BY <1>2 DEF Event
<1> HIDE DEF n, tl
<1>4. n.uses = s.uses /\ DOMAIN n.routes = DOMAIN s.routes \ {id} /\ \A i \in DOMAIN n.routes : n.routes[i] = s.routes[i]
  BY <1>1 DEF Unrouted
<1>5. \A i : Told(tl, i) => Told(ev, i)
  BY <1>2 DEF Told
<1>6. Told(ev, id)
  BY <1>2 DEF Told
<1> HIDE DEF id
<1>7. \A t \in Replicas : \A k : \A i : (IsAdd(n, t, k, i) <=> IsAdd(s, t, k, i)) /\ (IsDropped(n, t, k, i) <=> IsDropped(s, t, k, i))
  BY <1>1 DEF IsAdd, IsDropped
<1>8. Used(n, lv, tl)
  BY <1>1, <1>4, <1>5 DEF Exact, Used
<1>9. InOnePlace(n, lv, tl)
  BY <1>5, <1>7 DEF Exact, InOnePlace
<1>10. \A t \in Replicas : \A i \in Ids : HasRoute(s, t, i) => HasRoute(n, t, i) \/ i = id
  BY <1>4 DEF HasRoute
<1>11. \A t \in Replicas : ~ Works(lv, t, id) /\ \A k \in Nat : ~ IsAdd(s, t, k, id)
  BY <1>3, <1>6 DEF Exact, InOnePlace
<1>12. Tied(n, lv, dis)
  BY <1>7, <1>10, <1>11 DEF Exact, Tied
<1> QED
  BY <1>8, <1>9, <1>12 DEF Exact, n, tl, id

-----------------------------------------------------------------------------
(* What a batch does to the tables. *)

\* The first i ids of a batch.
Firsts(ids, i) == {ids[j] : j \in 1..i}

\* The tables t after the batch has added the requests in D to s.
Added(s, t, lv, al, ev, D) ==
  /\ TablesOK(t) /\ AllOwned(t, lv, al, ev)
  /\ DOMAIN t.routes = DOMAIN s.routes \cup D
  /\ \A x \in Ids \ D : t.uses[x] = s.uses[x]

\* A batch of fresh ids gives each of them a route and its request.
LEMMA RouteBatch ==
  ASSUME NEW s, TablesOK(s), NEW lv, NEW al, NEW ev, NEW dis, AllOwned(s, lv, al, ev),
         NEW ids \in Seq(Ids), IsInjective(ids),
         \A i \in 1..Len(ids) : ids[i] \notin DOMAIN s.routes,
         NEW exact \in BOOLEAN,
         exact => /\ Exact(s, lv, ev, dis)
                  /\ \A r \in Replicas : \A x \in lv[r] : x[1] \in Ids
                  /\ \A i \in 1..Len(ids) : s.uses[ids[i]] = 0
  PROVE  /\ Added(s, OneByOne(Route, s, ids), lv, al, ev, ToSet(ids))
         /\ exact => Exact(OneByOne(Route, s, ids), lv, ev, dis)
<1> DEFINE n == Len(ids)
<1>1. PICK F : StepByStep("route", {}, F, s, ids) /\ OneByOne(Route, s, ids) = F[n]
  BY RouteSteps
<1> DEFINE Good(i) == Added(s, F[i], lv, al, ev, Firsts(ids, i)) /\ (exact => Exact(F[i], lv, ev, dis))
           Bad     == {i \in 0..n : ~ Good(i)}
<1>2. n \in Nat /\ n \in 0..n /\ \A i \in 1..n : ids[i] \in Ids
  OBVIOUS
<1>3. F[0] = s /\ \A i \in 1..n : F[i] = Route(F[i - 1], ids[i])
  BY <1>1 DEF StepByStep, Step
<1>4. Good(0)
  <2>1. Firsts(ids, 0) = {}
    BY DEF Firsts
  <2> QED
    BY <1>3, <2>1 DEF Added
<1>5. ASSUME NEW i \in 1..n, Good(i - 1)
      PROVE  Good(i)
  <2> DEFINE id == ids[i]
             t  == F[i - 1]
             D  == Firsts(ids, i - 1)
             w  == Route(t, id)
  <2>1. id \in Ids /\ i - 1 \in Nat
    BY <1>2
  <2>2. id \notin D
    BY <1>2, <2>1 DEF Firsts, IsInjective
  <2>3. Firsts(ids, i) = D \cup {id}
    BY <2>1 DEF Firsts
  <2>4. TablesOK(t) /\ AllOwned(t, lv, al, ev) /\ DOMAIN t.routes = DOMAIN s.routes \cup D
        /\ (\A x \in Ids \ D : t.uses[x] = s.uses[x]) /\ (exact => Exact(t, lv, ev, dis))
    BY <1>5 DEF Added
  <2> HIDE DEF id, t, D
  <2>5. id \notin DOMAIN t.routes
    BY <2>2, <2>4 DEF id
  <2>6. TablesOK(w) /\ AllOwned(w, lv, al, ev)
    BY <2>1, <2>4, <2>5, RouteEffect, RouteOwned
  <2>7. PICK r : Routed(t, w, id, r)
    BY <2>1, <2>4, <2>5, RouteEffect
  <2>8. exact => Exact(w, lv, ev, dis)
    <3>1. SUFFICES ASSUME exact
                   PROVE  Exact(w, lv, ev, dis)
      OBVIOUS
    <3>2. t.uses[id] = 0
      BY <2>1, <2>2, <2>4, <3>1 DEF id
    <3>3. Exact(t, lv, ev, dis) /\ \A q \in Replicas : \A x \in lv[q] : x[1] \in Ids
      BY <2>4, <3>1
    <3> HIDE DEF w
    <3> QED
      BY <2>1, <2>4, <2>5, <3>2, <3>3, RouteExact DEF w
  <2>9. w = F[i]
    BY <1>3 DEF id, t
  <2> HIDE DEF w
  <2>10. DOMAIN w.routes = DOMAIN s.routes \cup (D \cup {id}) /\ \A x \in Ids \ (D \cup {id}) : w.uses[x] = s.uses[x]
    BY <2>4, <2>7 DEF Routed
  <2> QED
    BY <2>3, <2>6, <2>8, <2>9, <2>10 DEF Added
<1> HIDE DEF Good
<1>6. Bad = {}
  <2> SUFFICES ASSUME Bad # {}
               PROVE  FALSE
    OBVIOUS
  <2>1. Bad \subseteq Nat
    OBVIOUS
  <2>2. PICK m \in Bad : \A k \in Bad : m <= k
    BY <2>1, Least, Zenon
  <2>3. m \in 0..n /\ ~ Good(m)
    BY <2>2
  <2>4. m # 0
    BY <1>4, <2>3
  <2>5. m \in 1..n /\ m - 1 \in 0..n /\ ~ (m <= m - 1)
    BY <1>2, <2>3, <2>4
  <2>6. Good(m - 1)
    BY <2>2, <2>5
  <2> QED
    BY <1>5, <2>3, <2>5, <2>6
<1>7. Good(n)
  BY <1>2, <1>6
<1>8. Firsts(ids, n) = ToSet(ids)
  BY DEF Firsts, ToSet
<1> QED
  BY <1>1, <1>7, <1>8 DEF Good

\* The tables t after the batch has dropped the requests in D from s.
Dropped(s, t, lv, al, ev, D) ==
  TablesOK(t) /\ AllOwned(t, lv, al, ev) /\ DOMAIN t.routes = DOMAIN s.routes \ D

\* A batch that is aborted leaves none of its routes.
LEMMA ForgetBatch ==
  ASSUME NEW s, TablesOK(s), NEW lv, NEW al, NEW ev, NEW dis, AllOwned(s, lv, al, ev),
         NEW ids \in Seq(Ids), NEW exact \in BOOLEAN, exact => Exact(s, lv, ev, dis)
  PROVE  /\ Dropped(s, OneByOne(Forget, s, ids), lv, al, ev, ToSet(ids))
         /\ exact => Exact(OneByOne(Forget, s, ids), lv, ev, dis)
<1> DEFINE n == Len(ids)
<1>1. PICK F : StepByStep("abort", {}, F, s, ids) /\ OneByOne(Forget, s, ids) = F[n]
  BY ForgetSteps
<1> DEFINE Good(i) == Dropped(s, F[i], lv, al, ev, Firsts(ids, i)) /\ (exact => Exact(F[i], lv, ev, dis))
           Bad     == {i \in 0..n : ~ Good(i)}
<1>2. n \in Nat /\ n \in 0..n /\ \A i \in 1..n : ids[i] \in Ids
  OBVIOUS
<1>3. F[0] = s /\ \A i \in 1..n : F[i] = Forget(F[i - 1], ids[i])
  BY <1>1 DEF StepByStep, Step
<1>4. Good(0)
  <2>1. Firsts(ids, 0) = {}
    BY DEF Firsts
  <2> QED
    BY <1>3, <2>1 DEF Dropped
<1>5. ASSUME NEW i \in 1..n, Good(i - 1)
      PROVE  Good(i)
  <2> DEFINE id == ids[i]
             t  == F[i - 1]
             D  == Firsts(ids, i - 1)
             w  == Forget(t, id)
  <2>1. i - 1 \in Nat
    BY <1>2
  <2>2. Firsts(ids, i) = D \cup {id}
    BY <2>1 DEF Firsts
  <2>3. TablesOK(t) /\ AllOwned(t, lv, al, ev) /\ DOMAIN t.routes = DOMAIN s.routes \ D
        /\ (exact => Exact(t, lv, ev, dis))
    BY <1>5 DEF Dropped
  <2> HIDE DEF id, t, D
  <2>4. TablesOK(w) /\ DOMAIN w.routes = DOMAIN t.routes \ {id}
    <3>1. CASE id \in DOMAIN t.routes
      BY <2>3, <3>1, ForgetEffect DEF Unrouted
    <3>2. CASE id \notin DOMAIN t.routes
      BY <2>3, <3>2 DEF Forget
    <3> QED
      BY <3>1, <3>2
  <2>5. AllOwned(w, lv, al, ev) /\ (exact => Exact(w, lv, ev, dis))
    BY <2>3, ForgetOwned, ForgetExact
  <2>6. w = F[i]
    BY <1>3 DEF id, t
  <2> HIDE DEF w
  <2> QED
    BY <2>2, <2>3, <2>4, <2>5, <2>6 DEF Dropped
<1> HIDE DEF Good
<1>6. Bad = {}
  <2> SUFFICES ASSUME Bad # {}
               PROVE  FALSE
    OBVIOUS
  <2>1. Bad \subseteq Nat
    OBVIOUS
  <2>2. PICK m \in Bad : \A k \in Bad : m <= k
    BY <2>1, Least, Zenon
  <2>3. m \in 0..n /\ ~ Good(m)
    BY <2>2
  <2>4. m # 0
    BY <1>4, <2>3
  <2>5. m \in 1..n /\ m - 1 \in 0..n /\ ~ (m <= m - 1)
    BY <1>2, <2>3, <2>4
  <2>6. Good(m - 1)
    BY <2>2, <2>5
  <2> QED
    BY <1>5, <2>3, <2>5, <2>6
<1>7. Good(n)
  BY <1>2, <1>6
<1>8. Firsts(ids, n) = ToSet(ids)
  BY DEF Firsts, ToSet
<1> QED
  BY <1>1, <1>7, <1>8 DEF Good

\* Nothing else of the tables matters to it.
LEMMA SameQueues ==
  ASSUME NEW s, NEW n, NEW lv, NEW ev, NEW dis, Exact(s, lv, ev, dis),
         n.routes = s.routes, n.commands = s.commands, n.uses = s.uses
  PROVE  Exact(n, lv, ev, dis)
<1>1. \A t : \A k : \A i : (IsAdd(n, t, k, i) <=> IsAdd(s, t, k, i)) /\ (IsDropped(n, t, k, i) <=> IsDropped(s, t, k, i))
  BY DEF IsAdd, IsDropped
<1>2. \A t : \A i : HasRoute(n, t, i) <=> HasRoute(s, t, i)
  BY DEF HasRoute
<1>3. Used(n, lv, ev)
  BY DEF Exact, Used
<1>4. InOnePlace(n, lv, ev)
  BY <1>1 DEF Exact, InOnePlace
<1>5. Tied(n, lv, dis)
  BY <1>1, <1>2 DEF Exact, Tied
<1> QED
  BY <1>3, <1>4, <1>5 DEF Exact

\* A route more, and no command more, leaves the other requests where they are.
LEMMA AssignedOwned ==
  ASSUME NEW s, NEW n, NEW id, NEW r, Assigned(s, n, id, r), NEW lv, NEW al, NEW ev,
         NEW i \in DOMAIN s.routes, Owned(s, lv, al, ev, i)
  PROVE  Owned(n, lv, al, ev, i)
  BY DEF Assigned, Owned, AtWork, InQueue

\* The tables s as they would be with the routes rt.
Shown(rt, s) == [s EXCEPT !.routes = rt]

\* The members of D whose command reached its replica.
Sent(t, D, reached) == {<<x, t.uses[x]>> : x \in {y \in D : t.routes[y] \in reached}}

\* The tables t after a failing send() has gone through the requests in D.
HalfWay(s, t, lv, al, ev, D) ==
  /\ TablesOK(t) /\ DOMAIN t.routes = DOMAIN s.routes \cup D
  /\ \A x \in DOMAIN s.routes : t.routes[x] = s.routes[x] /\ Owned(t, lv, al, ev, x)
  /\ \A x \in Ids \ D : t.uses[x] = s.uses[x]

\* One request of it.
LEMMA UpToStep ==
  ASSUME NEW s, TablesOK(s), NEW lv, NEW al, NEW ev, NEW dis, NEW reached,
         NEW D, D \cap DOMAIN s.routes = {}, NEW t, HalfWay(s, t, lv, al, ev, D),
         NEW id \in Ids, id \notin D, id \notin DOMAIN s.routes, NEW exact \in BOOLEAN,
         exact => /\ Exact(Shown(s.routes, t), lv, ev, dis \cup Sent(t, D, reached))
                  /\ \A r \in Replicas : \A x \in lv[r] : x[1] \in Ids
                  /\ s.uses[id] = 0
  PROVE  LET w == RouteUpTo(reached, t, id)
         IN  /\ HalfWay(s, w, lv, al, ev, D \cup {id})
             /\ exact => Exact(Shown(s.routes, w), lv, ev, dis \cup Sent(w, D \cup {id}, reached))
<1> DEFINE w == RouteUpTo(reached, t, id)
           r == Choice(t.policy, id)
<1>1. TablesOK(t) /\ id \notin DOMAIN t.routes /\ t.uses[id] = s.uses[id] /\ D \subseteq DOMAIN t.routes
  BY DEF HalfWay
<1>2. DOMAIN s.routes \subseteq Ids /\ DOMAIN t.routes \subseteq Ids
  BY <1>1 DEF TablesOK, RoutesOK
<1>3. CASE r \in reached
  <2>1. w = Route(t, id)
    BY <1>3 DEF RouteUpTo
  <2>2. TablesOK(w) /\ Routed(t, w, id, r)
    BY <1>1, <2>1, RouteEffect
  <2> DEFINE cmd == Request(id, t.uses[id] + 1)
  <2>3. cmd \in Command /\ cmd.type # "abort"
    BY <1>1 DEF Command, Request, TablesOK
  <2> HIDE DEF w, r
  <2>4. /\ Queued(t, w, r, cmd) /\ DOMAIN w.routes = DOMAIN t.routes \cup {id} /\ w.routes[id] = r
        /\ (\A i \in DOMAIN t.routes : w.routes[i] = t.routes[i])
        /\ w.uses[id] = t.uses[id] + 1 /\ \A i \in Ids \ {id} : w.uses[i] = t.uses[i]
    BY <2>2 DEF Routed
  <2> HIDE DEF cmd
  <2>5. ASSUME NEW x \in DOMAIN s.routes
        PROVE  w.routes[x] = s.routes[x] /\ Owned(w, lv, al, ev, x)
    <3>1. x \in DOMAIN t.routes /\ x # id /\ x \in Ids /\ t.routes[x] = s.routes[x] /\ Owned(t, lv, al, ev, x)
      BY <1>2 DEF HalfWay
    <3>2. w.routes[x] = t.routes[x] /\ w.uses[x] = t.uses[x]
      BY <2>4, <3>1
    <3> QED
      BY <1>1, <2>2, <2>3, <2>4, <3>1, <3>2, StillOwned
  <2>6. HalfWay(s, w, lv, al, ev, D \cup {id})
    BY <2>2, <2>4, <2>5 DEF HalfWay
  <2>7. Sent(w, D \cup {id}, reached) = Sent(t, D, reached) \cup {<<id, w.uses[id]>>}
    <3>1. \A y \in D : w.routes[y] = t.routes[y] /\ w.uses[y] = t.uses[y]
      BY <1>1, <1>2, <2>4
    <3> QED
      BY <1>3, <2>4, <3>1 DEF Sent
  <2>8. ASSUME exact
        PROVE  Exact(Shown(s.routes, w), lv, ev, dis \cup Sent(w, D \cup {id}, reached))
    <3> DEFINE a == Shown(s.routes, t)
               b == Shown(s.routes, w)
    <3>1. a.routes = s.routes /\ a.commands = t.commands /\ a.uses = t.uses
      BY <1>1 DEF Shown, TablesOK
    <3>2. b.routes = s.routes /\ b.commands = w.commands /\ b.uses = w.uses
      BY <2>2 DEF Shown, TablesOK
    <3>3. t.uses[id] = 0 /\ w.uses[id] = 1 /\ cmd = Request(id, 1)
      BY <1>1, <2>4, <2>8 DEF cmd
    <3> HIDE DEF a, b
    <3>4. Queued(a, b, r, Request(id, 1))
      BY <2>4, <3>1, <3>2, <3>3 DEF Queued
    <3>5. a.commands \in [Replicas -> Seq(Command)]
      BY <1>1, <3>1 DEF TablesOK
    <3>6. /\ Exact(a, lv, ev, dis \cup Sent(t, D, reached))
          /\ \A u \in Replicas : \A x \in lv[u] : x[1] \in Ids
      BY <2>8 DEF a
    <3> DEFINE old == dis \cup Sent(t, D, reached)
               new == dis \cup Sent(w, D \cup {id}, reached)
    <3>7. old \subseteq new /\ <<id, 1>> \in new
      BY <2>7, <3>3
    <3> HIDE DEF old, new
    <3>8. Exact(b, lv, ev, new)
      <4>1. DOMAIN s.routes \subseteq Ids
        BY <1>2 DEF HalfWay
      <4>2. FirstUse(a, b, lv, old, new, r, id)
        BY <2>4, <3>1, <3>2, <3>3, <3>4, <3>5, <3>6, <3>7, <4>1 DEF FirstUse
      <4>3. Exact(a, lv, ev, old)
        BY <3>6 DEF old
      <4> QED
        BY <4>2, <4>3, AddExact
    <3> QED
      BY <3>8 DEF b, new
  <2> QED
    BY <2>6, <2>8 DEF w
<1>4. CASE r \notin reached
  <2>1. w = Assign(t, id)
    BY <1>4 DEF RouteUpTo
  <2>2. TablesOK(w) /\ Assigned(t, w, id, r)
    BY <1>1, <2>1, AssignEffect
  <2> HIDE DEF w, r
  <2>3. /\ DOMAIN w.routes = DOMAIN t.routes \cup {id} /\ w.routes[id] = r
        /\ (\A i \in DOMAIN t.routes : w.routes[i] = t.routes[i])
        /\ w.commands = t.commands /\ w.uses = t.uses
    BY <2>2 DEF Assigned
  <2>4. ASSUME NEW x \in DOMAIN s.routes
        PROVE  w.routes[x] = s.routes[x] /\ Owned(w, lv, al, ev, x)
    <3>1. x \in DOMAIN t.routes /\ t.routes[x] = s.routes[x] /\ Owned(t, lv, al, ev, x)
      BY DEF HalfWay
    <3> QED
      BY <2>2, <2>3, <3>1, AssignedOwned
  <2>5. HalfWay(s, w, lv, al, ev, D \cup {id})
    BY <2>2, <2>3, <2>4 DEF HalfWay
  <2>6. Sent(w, D \cup {id}, reached) = Sent(t, D, reached)
    <3>1. \A y \in D : w.routes[y] = t.routes[y]
      BY <1>1, <2>3
    <3> QED
      BY <1>4, <2>3, <3>1 DEF Sent
  <2>7. ASSUME exact
        PROVE  Exact(Shown(s.routes, w), lv, ev, dis \cup Sent(w, D \cup {id}, reached))
    <3> DEFINE a == Shown(s.routes, t)
               b == Shown(s.routes, w)
    <3>1. a.routes = s.routes /\ a.commands = t.commands /\ a.uses = t.uses
      BY <1>1 DEF Shown, TablesOK
    <3>2. b.routes = s.routes /\ b.commands = w.commands /\ b.uses = w.uses
      BY <2>2 DEF Shown, TablesOK
    <3>3. Exact(a, lv, ev, dis \cup Sent(t, D, reached))
      BY <2>7
    <3> HIDE DEF a, b
    <3>4. Exact(b, lv, ev, dis \cup Sent(t, D, reached))
      BY <2>3, <3>1, <3>2, <3>3, SameQueues
    <3> QED
      BY <2>6, <3>4 DEF b
  <2> QED
    BY <2>5, <2>7 DEF w
<1> QED
  BY <1>3, <1>4

\* What send() finds: new ids and tables in order, and exact if no id comes twice.
Ready(s, lv, al, ev, dis, ids, exact) ==
  /\ TablesOK(s) /\ AllOwned(s, lv, al, ev)
  /\ ids \in Seq(Ids) /\ IsInjective(ids)
  /\ \A i \in 1..Len(ids) : ids[i] \notin DOMAIN s.routes
  /\ exact \in BOOLEAN
  /\ exact => /\ Exact(s, lv, ev, dis)
              /\ \A r \in Replicas : \A x \in lv[r] : x[1] \in Ids
              /\ \A i \in 1..Len(ids) : s.uses[ids[i]] = 0

\* A failing send() leaves the requests it found as they were, and those it
\* queued among the ones to be left behind.
LEMMA HalfSentBatch ==
  ASSUME NEW s, NEW lv, NEW al, NEW ev, NEW dis, NEW reached, NEW ids, NEW exact,
         Ready(s, lv, al, ev, dis, ids, exact)
  PROVE  LET t == RouteAllUpTo(reached, s, ids)
         IN  /\ HalfWay(s, t, lv, al, ev, ToSet(ids))
             /\ exact => Exact(Shown(s.routes, t), lv, ev, dis \cup Sent(t, ToSet(ids), reached))
<1> USE DEF Ready
<1> DEFINE n == Len(ids)
<1>1. PICK F : /\ StepByStep("upto", reached, F, s, ids)
               /\ RouteAllUpTo(reached, s, ids) = F[n]
  BY RouteUpToSteps
<1> DEFINE Good(i) == /\ HalfWay(s, F[i], lv, al, ev, Firsts(ids, i))
                      /\ exact => Exact(Shown(s.routes, F[i]), lv, ev, dis \cup Sent(F[i], Firsts(ids, i), reached))
           Bad     == {i \in 0..n : ~ Good(i)}
<1>2. n \in Nat /\ n \in 0..n /\ \A i \in 1..n : ids[i] \in Ids
  OBVIOUS
<1>3. F[0] = s /\ \A i \in 1..n : F[i] = RouteUpTo(reached, F[i - 1], ids[i])
  BY <1>1 DEF StepByStep, Step
<1>4. Good(0)
  <2>1. Firsts(ids, 0) = {}
    BY DEF Firsts
  <2>2. Sent(s, {}, reached) = {}
    BY DEF Sent
  <2>3. HalfWay(s, s, lv, al, ev, {})
    BY DEF HalfWay, AllOwned
  <2>4. Shown(s.routes, s) = s
    BY DEF Shown, TablesOK
  <2> QED
    BY <1>3, <2>1, <2>2, <2>3, <2>4
<1>5. ASSUME NEW i \in 1..n, Good(i - 1)
      PROVE  Good(i)
  <2> DEFINE id == ids[i]
             t  == F[i - 1]
             D  == Firsts(ids, i - 1)
             w  == RouteUpTo(reached, t, id)
  <2>1. id \in Ids /\ i - 1 \in Nat
    BY <1>2
  <2>2. id \notin D /\ id \notin DOMAIN s.routes
    BY <1>2, <2>1 DEF Firsts, IsInjective
  <2>3. Firsts(ids, i) = D \cup {id}
    BY <2>1 DEF Firsts
  <2>4. D \cap DOMAIN s.routes = {}
    BY <2>1 DEF Firsts
  <2>5. exact => s.uses[id] = 0 /\ \A r \in Replicas : \A x \in lv[r] : x[1] \in Ids
    OBVIOUS
  <2>6. w = F[i]
    BY <1>3
  <2>7. HalfWay(s, t, lv, al, ev, D) /\ (exact => Exact(Shown(s.routes, t), lv, ev, dis \cup Sent(t, D, reached)))
    BY <1>5
  <2> HIDE DEF id, t, D
  <2>8. /\ HalfWay(s, w, lv, al, ev, D \cup {id})
        /\ exact => Exact(Shown(s.routes, w), lv, ev, dis \cup Sent(w, D \cup {id}, reached))
    BY <2>1, <2>2, <2>4, <2>5, <2>7, UpToStep
  <2> HIDE DEF w
  <2> QED
    BY <2>3, <2>6, <2>8
<1> HIDE DEF Good
<1>6. Bad = {}
  <2> SUFFICES ASSUME Bad # {}
               PROVE  FALSE
    OBVIOUS
  <2>1. Bad \subseteq Nat
    OBVIOUS
  <2>2. PICK m \in Bad : \A k \in Bad : m <= k
    BY <2>1, Least, Zenon
  <2>3. m \in 0..n /\ ~ Good(m)
    BY <2>2
  <2>4. m # 0
    BY <1>4, <2>3
  <2>5. m \in 1..n /\ m - 1 \in 0..n /\ ~ (m <= m - 1)
    BY <1>2, <2>3, <2>4
  <2>6. Good(m - 1)
    BY <2>2, <2>5
  <2> QED
    BY <1>5, <2>3, <2>5, <2>6
<1>7. Good(n)
  BY <1>2, <1>6
<1>8. Firsts(ids, n) = ToSet(ids)
  BY DEF Firsts, ToSet
<1> QED
  BY <1>1, <1>7, <1>8 DEF Good

\* The tables t after the routes of D have been taken back from s.
Returned(s, t, D) ==
  /\ TablesOK(t) /\ DOMAIN t.routes = DOMAIN s.routes \ D
  /\ \A x \in DOMAIN t.routes : t.routes[x] = s.routes[x]
  /\ t.commands = s.commands /\ t.uses = s.uses

\* A batch that is taken back leaves none of its routes, and what it queued.
LEMMA ReleaseBatch ==
  ASSUME NEW s, TablesOK(s), NEW ids \in Seq(Ids)
  PROVE  Returned(s, OneByOne(Release, s, ids), ToSet(ids))
<1> DEFINE n == Len(ids)
<1>1. PICK F : StepByStep("release", {}, F, s, ids) /\ OneByOne(Release, s, ids) = F[n]
  BY ReleaseSteps
<1> DEFINE Good(i) == Returned(s, F[i], Firsts(ids, i))
           Bad     == {i \in 0..n : ~ Good(i)}
<1>2. n \in Nat /\ n \in 0..n
  OBVIOUS
<1>3. F[0] = s /\ \A i \in 1..n : F[i] = Release(F[i - 1], ids[i])
  BY <1>1 DEF StepByStep, Step
<1>4. Good(0)
  <2>1. Firsts(ids, 0) = {}
    BY DEF Firsts
  <2> QED
    BY <1>3, <2>1 DEF Returned
<1>5. ASSUME NEW i \in 1..n, Good(i - 1)
      PROVE  Good(i)
  <2> DEFINE id == ids[i]
             t  == F[i - 1]
             D  == Firsts(ids, i - 1)
             w  == Release(t, id)
  <2>1. i - 1 \in Nat
    BY <1>2
  <2>2. Firsts(ids, i) = D \cup {id}
    BY <2>1 DEF Firsts
  <2>3. Returned(s, t, D)
    BY <1>5
  <2>4. w = F[i]
    BY <1>3
  <2> HIDE DEF id, t, D
  <2>5. TablesOK(w) /\ Unrouted(t, w, id) /\ w.commands = t.commands
    BY <2>3, ReleaseEffect DEF Returned
  <2> HIDE DEF w
  <2>6. Returned(s, w, D \cup {id})
    BY <2>3, <2>5 DEF Returned, Unrouted
  <2> QED
    BY <2>2, <2>4, <2>6
<1> HIDE DEF Good
<1>6. Bad = {}
  <2> SUFFICES ASSUME Bad # {}
               PROVE  FALSE
    OBVIOUS
  <2>1. Bad \subseteq Nat
    OBVIOUS
  <2>2. PICK m \in Bad : \A k \in Bad : m <= k
    BY <2>1, Least, Zenon
  <2>3. m \in 0..n /\ ~ Good(m)
    BY <2>2
  <2>4. m # 0
    BY <1>4, <2>3
  <2>5. m \in 1..n /\ m - 1 \in 0..n /\ ~ (m <= m - 1)
    BY <1>2, <2>3, <2>4
  <2>6. Good(m - 1)
    BY <2>2, <2>5
  <2> QED
    BY <1>5, <2>3, <2>5, <2>6
<1>7. Good(n)
  BY <1>2, <1>6
<1>8. Firsts(ids, n) = ToSet(ids)
  BY DEF Firsts, ToSet
<1> QED
  BY <1>1, <1>7, <1>8 DEF Good

\* A send() that raises leaves every route with its request, and what it
\* queued among the requests that are left behind.
LEMMA TakenBackBatch ==
  ASSUME NEW lv, NEW al, NEW ev, NEW dis, NEW reached, NEW ids, NEW exact,
         Ready(Tables, lv, al, ev, dis, ids, exact)
  PROVE  LET n == TakenBack(ids, reached)
         IN  /\ TablesOK(n) /\ AllOwned(n, lv, al, ev) /\ n.routes = Tables.routes
             /\ exact => Exact(n, lv, ev, dis \cup Delivered(ids, reached))
<1> DEFINE s == Tables
           t == HalfSent(ids, reached)
           n == TakenBack(ids, reached)
           left == dis \cup Delivered(ids, reached)
<1>1. t = RouteAllUpTo(reached, s, ids) /\ n = OneByOne(Release, t, ids)
  BY DEF HalfSent, TakenBack, RouteAllUpTo
<1>2. left = dis \cup Sent(t, ToSet(ids), reached)
  BY DEF Delivered, Sent
<1>3. /\ Ready(s, lv, al, ev, dis, ids, exact)
      /\ TablesOK(s) /\ AllOwned(s, lv, al, ev) /\ ids \in Seq(Ids) /\ exact \in BOOLEAN
      /\ \A i \in 1..Len(ids) : ids[i] \notin DOMAIN s.routes
  BY DEF Ready
<1> HIDE DEF s, t, n, left
<1>4. /\ HalfWay(s, t, lv, al, ev, ToSet(ids))
      /\ exact => Exact(Shown(s.routes, t), lv, ev, left)
  BY <1>1, <1>2, <1>3, HalfSentBatch
<1>5. Returned(t, n, ToSet(ids))
  BY <1>1, <1>3, <1>4, ReleaseBatch DEF HalfWay
<1>6. n.routes = s.routes
  <2>1. \A x \in ToSet(ids) : x \notin DOMAIN s.routes
    BY <1>3 DEF ToSet
  <2>2. DOMAIN n.routes = DOMAIN s.routes /\ \A x \in DOMAIN s.routes : n.routes[x] = s.routes[x]
    BY <1>4, <1>5, <2>1 DEF HalfWay, Returned
  <2>3. n.routes \in [DOMAIN n.routes -> Replicas] /\ s.routes \in [DOMAIN s.routes -> Replicas]
    BY <1>3, <1>5 DEF Returned, TablesOK, RoutesOK
  <2> QED
    BY <2>2, <2>3
<1>7. AllOwned(n, lv, al, ev)
  <2> SUFFICES ASSUME NEW x \in DOMAIN s.routes
               PROVE  Owned(n, lv, al, ev, x)
    BY <1>6 DEF AllOwned
  <2>1. Owned(t, lv, al, ev, x) /\ n.routes[x] = t.routes[x] /\ n.commands = t.commands /\ n.uses = t.uses
    BY <1>4, <1>5, <1>6 DEF HalfWay, Returned
  <2> QED
    BY <2>1 DEF Owned, AtWork, InQueue
<1>8. ASSUME exact
      PROVE  Exact(n, lv, ev, left)
  <2> DEFINE a == Shown(s.routes, t)
  <2>1. a.routes = s.routes /\ a.commands = t.commands /\ a.uses = t.uses
    BY <1>4 DEF Shown, HalfWay, TablesOK
  <2>2. Exact(a, lv, ev, left)
    BY <1>4, <1>8
  <2> HIDE DEF a
  <2> QED
    BY <1>5, <1>6, <2>1, <2>2, SameQueues DEF Returned
<1> QED
  BY <1>5, <1>6, <1>7, <1>8 DEF s, n, left, Returned

-----------------------------------------------------------------------------
(* The replicas. *)

LiveOK(lv) == lv \in [Replicas -> SUBSET (Ids \X Nat)]

\* lw is lv but for replica r.
OnlyAt(lv, lw, r) == \A t \in Replicas \ {r} : lw[t] = lv[t]

\* Replica r has applied its first command.
Applied(s, n, lv, lw, ev, ew, r) ==
  LET h == Head(s.commands[r]) IN
  /\ s.commands[r] # <<>> /\ n.commands[r] = Tail(s.commands[r])
  /\ \A t \in Replicas \ {r} : n.commands[t] = s.commands[t]
  /\ n.routes = s.routes /\ n.uses = s.uses
  /\ OnlyAt(lv, lw, r)
  /\ \/ /\ h.type = "add" /\ ~ Works(lv, r, h.id)
        /\ lw[r] = lv[r] \cup {<<h.id, h.use>>} /\ ew = ev
     \/ /\ h.type = "add" /\ lw[r] = lv[r]
        /\ ew = Append(ev, [type |-> "error", id |-> h.id, use |-> h.use])
     \/ /\ h.type = "abort"
        /\ lw[r] = {x \in lv[r] : x[1] # h.id} /\ ew = ev

\* What follows a command in its queue moves up by one place.
LEMMA AppliedQueue ==
  ASSUME NEW s, TablesOK(s), NEW n, NEW lv, NEW lw, NEW ev, NEW ew, NEW r \in Replicas,
         Applied(s, n, lv, lw, ev, ew, r)
  PROVE  LET q == s.commands[r]
             w == n.commands[r]
         IN  /\ q \in Seq(Command) /\ Len(q) \in Nat /\ Len(w) = Len(q) - 1
             /\ 1 \in 1..Len(q) /\ Head(q) = q[1] /\ q[1] \in Command
             /\ \A k \in 1..Len(w) : w[k] = q[k + 1] /\ k + 1 \in 1..Len(q)
             /\ \A k \in 1..Len(q) : k # 1 => k - 1 \in 1..Len(w) /\ w[k - 1] = q[k]
<1> DEFINE q == s.commands[r]
           w == n.commands[r]
<1>1. q \in Seq(Command) /\ q # <<>> /\ w = Tail(q)
  BY DEF TablesOK, Applied
<1>2. Len(q) \in Nat /\ Len(w) = Len(q) - 1 /\ 1 \in 1..Len(q) /\ Head(q) = q[1] /\ q[1] \in Command
      /\ \A k \in 1..Len(w) : w[k] = q[k + 1]
  BY <1>1
<1> HIDE DEF q, w
<1>3. \A k \in 1..Len(w) : k + 1 \in 1..Len(q)
  BY <1>2
<1>4. \A k \in 1..Len(q) : k # 1 => k - 1 \in 1..Len(w) /\ (k - 1) + 1 = k
  BY <1>2
<1>5. \A k \in 1..Len(q) : k # 1 => w[k - 1] = q[k]
  BY <1>2, <1>4
<1> QED
  BY <1>1, <1>2, <1>3, <1>4, <1>5 DEF q, w

\* A replica that applies a command keeps the requests of the routes.
LEMMA ApplyOwned ==
  ASSUME NEW s, TablesOK(s), NEW n, NEW lv, LiveOK(lv), NEW lw, NEW al,
         NEW ev \in Seq(Event), NEW ew, NEW r \in Replicas,
         Applied(s, n, lv, lw, ev, ew, r), AllOwned(s, lv, al, ev)
  PROVE  AllOwned(n, lw, al, ew)
<1> SUFFICES ASSUME NEW id \in DOMAIN s.routes
             PROVE  Owned(n, lw, al, ew, id)
  BY DEF AllOwned, Applied
<1> DEFINE t == s.routes[id]
           q == s.commands[r]
           w == n.commands[r]
           h == Head(q)
           u == s.uses[id]
<1>1. t \in Replicas /\ Owned(s, lv, al, ev, id) /\ n.routes[id] = t /\ n.uses[id] = u
  BY DEF TablesOK, RoutesOK, AllOwned, Applied
<1>2. Reported(ev, id) => Reported(ew, id)
  <2>1. Len(ev) \in Nat /\ \A e : Len(Append(ev, e)) = Len(ev) + 1 /\ \A k \in 1..Len(ev) : Append(ev, e)[k] = ev[k] /\ k \in 1..(Len(ev) + 1)
    OBVIOUS
  <2> QED
    BY <2>1 DEF Reported, Applied
<1>3. CASE t # r
  <2>1. n.commands[t] = s.commands[t] /\ lw[t] = lv[t]
    BY <1>1, <1>3 DEF Applied, OnlyAt
  <2> QED
    BY <1>1, <1>2, <2>1 DEF Owned, AtWork, InQueue
<1>4. CASE t = r
  <2>1. /\ q \in Seq(Command) /\ Len(q) \in Nat /\ Len(w) = Len(q) - 1
        /\ 1 \in 1..Len(q) /\ h = q[1]
        /\ \A k \in 1..Len(w) : w[k] = q[k + 1] /\ k + 1 \in 1..Len(q)
        /\ \A k \in 1..Len(q) : k # 1 => k - 1 \in 1..Len(w) /\ w[k - 1] = q[k]
    BY AppliedQueue
  <2>2. \/ /\ h.type = "add" /\ lw[r] = lv[r] \cup {<<h.id, h.use>>}
        \/ /\ h.type = "add" /\ lw[r] = lv[r]
           /\ ew = Append(ev, [type |-> "error", id |-> h.id, use |-> h.use])
        \/ /\ h.type = "abort" /\ lw[r] = {x \in lv[r] : x[1] # h.id}
    BY DEF Applied
  <2> HIDE DEF q, w, h, u
  <2>3. \A k \in 1..Len(q) : NoAbort(q, id, k) => NoAbort(w, id, k - 1)
    BY <2>1 DEF NoAbort
  <2>4. NoAbort(q, id, 0) => NoAbort(w, id, 0) /\ ~ (h.type = "abort" /\ h.id = id)
    BY <2>1 DEF NoAbort
  <2>5. AtWork(s, lv, r, id) => AtWork(n, lw, r, id)
    <3>1. SUFFICES ASSUME <<id, u>> \in lv[r], NoAbort(q, id, 0)
                   PROVE  AtWork(n, lw, r, id)
      BY DEF AtWork, q, u
    <3>2. <<id, u>>[1] = id
      OBVIOUS
    <3>3. <<id, u>> \in lw[r]
      BY <2>2, <2>4, <3>1, <3>2
    <3> QED
      BY <1>1, <2>4, <3>1, <3>3 DEF AtWork, w
  <2>6. InQueue(s, r, id) => AtWork(n, lw, r, id) \/ InQueue(n, r, id) \/ Reported(ew, id)
    <3>1. SUFFICES ASSUME NEW k \in 1..Len(q), q[k] = Request(id, u), NoAbort(q, id, k)
                   PROVE  AtWork(n, lw, r, id) \/ InQueue(n, r, id) \/ Reported(ew, id)
      BY Zenon DEF InQueue, q, u
    <3>2. CASE k # 1
      <4>1. k - 1 \in 1..Len(w) /\ w[k - 1] = Request(id, u) /\ NoAbort(w, id, k - 1)
        BY <2>1, <2>3, <3>1, <3>2
      <4>2. InQueue(n, r, id)
        BY <1>1, <4>1, Zenon DEF InQueue, w
      <4> QED
        BY <4>2
    <3>3. CASE k = 1
      <4>1. h.type = "add" /\ h.id = id /\ h.use = u
        BY <2>1, <3>1, <3>3 DEF Request
      <4>2. NoAbort(w, id, 0)
        BY <2>3, <3>1, <3>3
      <4>3. CASE lw[r] = lv[r] \cup {<<h.id, h.use>>}
        <5>1. <<id, u>> \in lw[r]
          BY <4>1, <4>3
        <5> QED
          BY <1>1, <4>2, <5>1 DEF AtWork, w
      <4>4. CASE ew = Append(ev, [type |-> "error", id |-> h.id, use |-> h.use])
        <5> DEFINE e == [type |-> "error", id |-> h.id, use |-> h.use]
        <5>1. e.type = "error" /\ e.id = id
          BY <4>1
        <5> HIDE DEF e
        <5>2. Len(ew) \in 1..Len(ew) /\ ew[Len(ew)] = e
          BY <4>4 DEF e
        <5> QED
          BY <5>1, <5>2 DEF Reported
      <4> QED
        BY <2>2, <4>1, <4>3, <4>4
    <3> QED
      BY <3>2, <3>3
  <2> QED
    BY <1>1, <1>2, <1>4, <2>5, <2>6 DEF Owned
<1> QED
  BY <1>3, <1>4

\* And it keeps a request in one place.
LEMMA ApplyExact ==
  ASSUME NEW s, TablesOK(s), NEW n, NEW lv, LiveOK(lv), NEW lw,
         NEW ev \in Seq(Event), NEW dis, NEW ew, NEW r \in Replicas,
         Applied(s, n, lv, lw, ev, ew, r), Exact(s, lv, ev, dis)
  PROVE  Exact(n, lw, ew, dis)
<1> DEFINE q == s.commands[r]
           w == n.commands[r]
           h == Head(q)
<1>1. /\ q \in Seq(Command) /\ Len(q) \in Nat /\ Len(w) = Len(q) - 1
      /\ 1 \in 1..Len(q) /\ h = q[1] /\ q[1] \in Command
      /\ \A k \in 1..Len(w) : w[k] = q[k + 1] /\ k + 1 \in 1..Len(q)
      /\ \A k \in 1..Len(q) : k # 1 => k - 1 \in 1..Len(w) /\ w[k - 1] = q[k]
  BY AppliedQueue
<1>2. /\ n.routes = s.routes /\ n.uses = s.uses
      /\ \A t \in Replicas \ {r} : n.commands[t] = s.commands[t] /\ lw[t] = lv[t]
  BY DEF Applied, OnlyAt
<1>3. h.id \in Ids /\ h.use = 1 /\ s.uses[h.id] = 1
  BY <1>1 DEF Command, Exact, Used
<1> DEFINE old(t, k) == IF t = r THEN k + 1 ELSE k
<1>4. \A t \in Replicas : \A k \in Nat : \A i : IsAdd(n, t, k, i) => IsAdd(s, t, old(t, k), i) /\ old(t, k) \in Nat
  <2> SUFFICES ASSUME NEW t \in Replicas, NEW k \in Nat, NEW i, IsAdd(n, t, k, i)
               PROVE  IsAdd(s, t, old(t, k), i) /\ old(t, k) \in Nat
    OBVIOUS
  <2>1. CASE t = r
    <3>1. k \in 1..Len(w) /\ w[k].type = "add" /\ w[k].id = i
      BY <2>1, Zenon DEF IsAdd, w
    <3>2. old(t, k) = k + 1 /\ w[k] = q[k + 1] /\ k + 1 \in 1..Len(q)
      BY <1>1, <2>1, <3>1, Zenon
    <3>3. IsAdd(s, t, k + 1, i)
      BY <2>1, <3>1, <3>2, Zenon DEF IsAdd, q
    <3> QED
      BY <3>2, <3>3
  <2>2. CASE t # r
    <3>1. old(t, k) = k /\ n.commands[t] = s.commands[t]
      BY <1>2, <2>2, Zenon
    <3> QED
      BY <3>1, Zenon DEF IsAdd
  <2> QED
    BY <2>1, <2>2
<1>5. \A t \in Replicas : \A k \in Nat : \A i : IsDropped(s, t, old(t, k), i) => IsDropped(n, t, k, i)
  <2> SUFFICES ASSUME NEW t \in Replicas, NEW k \in Nat, NEW i, IsDropped(s, t, old(t, k), i)
               PROVE  IsDropped(n, t, k, i)
    OBVIOUS
  <2>1. CASE t = r
    <3>1. PICK j \in 1..Len(q) : j > k + 1 /\ q[j] = AbortOf(i, 1)
      BY <2>1 DEF IsDropped
    <3>2. j - 1 \in 1..Len(w) /\ j - 1 > k /\ w[j - 1] = AbortOf(i, 1)
      BY <1>1, <3>1
    <3> QED
      BY <2>1, <3>2 DEF IsDropped
  <2>2. CASE t # r
    BY <1>2, <2>2 DEF IsDropped
  <2> QED
    BY <2>1, <2>2
<1>6. h.type = "add" => IsAdd(s, r, 1, h.id)
  BY <1>1 DEF IsAdd
<1>7. \A t \in Replicas : \A k \in Nat : IsAdd(n, t, k, h.id) => h.type # "add"
  <2> SUFFICES ASSUME NEW t \in Replicas, NEW k \in Nat, IsAdd(n, t, k, h.id), h.type = "add"
               PROVE  FALSE
    OBVIOUS
  <2>1. IsAdd(s, t, old(t, k), h.id) /\ old(t, k) \in Nat
    BY <1>4
  <2>2. t = r /\ old(t, k) = 1
    BY <1>3, <1>6, <2>1 DEF Exact, InOnePlace
  <2>3. k >= 1
    BY DEF IsAdd
  <2> QED
    BY <2>2, <2>3
<1>8. \A k \in 1..Len(w) : w[k].use = 1 /\ n.uses[w[k].id] = 1
  <2>1. \A k \in 1..Len(q) : q[k].use = 1 /\ s.uses[q[k].id] = 1
    BY Zenon DEF Exact, Used
  <2>2. SUFFICES ASSUME NEW k \in 1..Len(w)
                 PROVE  w[k].use = 1 /\ n.uses[w[k].id] = 1
    OBVIOUS
  <2>3. w[k] = q[k + 1] /\ k + 1 \in 1..Len(q)
    BY <1>1, Zenon
  <2>4. q[k + 1].use = 1 /\ s.uses[q[k + 1].id] = 1
    BY <2>1, <2>3, Zenon
  <2> QED
    BY <1>2, <2>3, <2>4, Zenon
<1> HIDE DEF q, w, old
<1>9. \A t \in Replicas : \A k \in 1..Len(n.commands[t]) : n.commands[t][k].use = 1 /\ n.uses[n.commands[t][k].id] = 1
  BY <1>2, <1>8 DEF Exact, Used, w
<1> DEFINE accepted == h.type = "add" /\ ~ Works(lv, r, h.id) /\ lw[r] = lv[r] \cup {<<h.id, h.use>>} /\ ew = ev
           refused  == h.type = "add" /\ lw[r] = lv[r] /\ ew = Append(ev, [type |-> "error", id |-> h.id, use |-> h.use])
           aborted  == h.type = "abort" /\ lw[r] = {x \in lv[r] : x[1] # h.id} /\ ew = ev
<1>10. accepted \/ refused \/ aborted
  BY DEF Applied, q
<1> HIDE DEF h
<1>11. \A t \in Replicas : \A i \in Ids : Works(lw, t, i) => Works(lv, t, i) \/ (accepted /\ t = r /\ i = h.id)
  BY <1>2, <1>10 DEF Works
<1>12. \A i \in Ids : Told(ew, i) => Told(ev, i) \/ (refused /\ i = h.id)
  <2> SUFFICES ASSUME NEW i \in Ids, Told(ew, i)
               PROVE  Told(ev, i) \/ (refused /\ i = h.id)
    OBVIOUS
  <2>1. CASE ew = ev
    BY <2>1
  <2>2. CASE refused
    <3> DEFINE e == [type |-> "error", id |-> h.id, use |-> h.use]
    <3>1. e.id = h.id /\ ew = Append(ev, e)
      BY <2>2
    <3> HIDE DEF e
    <3>2. PICK k \in 1..Len(ew) : ew[k].type # "failed" /\ ew[k].id = i
      BY DEF Told
    <3>3. (k \in 1..Len(ev) /\ ew[k] = ev[k]) \/ ew[k] = e
      BY <3>1
    <3> QED
      BY <2>2, <3>1, <3>2, <3>3 DEF Told
  <2> QED
    BY <1>10, <2>1, <2>2
<1>13. Used(n, lw, ew)
  <2>1. \A t \in Replicas : \A x \in lw[t] : x[2] = 1 /\ n.uses[x[1]] = 1
    BY <1>2, <1>3, <1>10 DEF Exact, Used
  <2>2. \A i \in Ids : Told(ew, i) => n.uses[i] = 1
    BY <1>2, <1>3, <1>12 DEF Exact, Used
  <2> QED
    BY <1>2, <1>9, <2>1, <2>2 DEF Exact, Used
<1> HIDE DEF accepted, refused, aborted
<1>14. accepted => h.type = "add" /\ (\A t \in Replicas : ~ Works(lv, t, h.id)) /\ ~ Told(ev, h.id)
  BY <1>3, <1>6 DEF Exact, InOnePlace, accepted
<1>15. refused => h.type = "add" /\ (\A t \in Replicas : ~ Works(lv, t, h.id)) /\ ~ accepted
  <2>1. refused /\ accepted => FALSE
    <3>1. Append(ev, [type |-> "error", id |-> h.id, use |-> h.use]) # ev
      <4>1. Len(Append(ev, [type |-> "error", id |-> h.id, use |-> h.use])) # Len(ev)
        OBVIOUS
      <4> QED
        BY <4>1
    <3> QED
      BY <3>1 DEF refused, accepted
  <2> QED
    BY <1>3, <1>6, <2>1 DEF Exact, InOnePlace, refused
<1>16. InOnePlace(n, lw, ew)
  <2>1. \A i \in Ids : \A t, u \in Replicas : Works(lw, t, i) /\ Works(lw, u, i) => t = u
    BY <1>11, <1>14 DEF Exact, InOnePlace
  <2>2. \A i \in Ids : \A t, u \in Replicas : \A k, l \in Nat :
          IsAdd(n, t, k, i) /\ IsAdd(n, u, l, i) => t = u /\ k = l
    <3> SUFFICES ASSUME NEW i \in Ids, NEW t \in Replicas, NEW u \in Replicas, NEW k \in Nat, NEW l \in Nat,
                        IsAdd(n, t, k, i), IsAdd(n, u, l, i)
                 PROVE  t = u /\ k = l
      OBVIOUS
    <3>1. t = u /\ old(t, k) = old(u, l)
      BY <1>4 DEF Exact, InOnePlace
    <3> QED
      BY <3>1 DEF old
  <2>3. \A i \in Ids : \A t, u \in Replicas : \A k \in Nat : IsAdd(n, t, k, i) => ~ Works(lw, u, i)
    BY <1>4, <1>7, <1>11, <1>14 DEF Exact, InOnePlace
  <2>4. \A i \in Ids : Told(ew, i) =>
          \A t \in Replicas : ~ Works(lw, t, i) /\ \A k \in Nat : ~ IsAdd(n, t, k, i)
    BY <1>4, <1>7, <1>11, <1>12, <1>14, <1>15 DEF Exact, InOnePlace
  <2> QED
    BY <2>1, <2>2, <2>3, <2>4 DEF InOnePlace
<1>17. Tied(n, lw, dis)
  <2>1. \A t \in Replicas : \A i : HasRoute(s, t, i) => HasRoute(n, t, i)
    BY <1>2 DEF HasRoute
  <2>2. ASSUME NEW i \in Ids, NEW t \in Replicas, Works(lw, t, i)
        PROVE  HasRoute(n, t, i) \/ IsDropped(n, t, 0, i) \/ <<i, 1>> \in dis
    <3>1. CASE accepted /\ t = r /\ i = h.id
      <4>1. HasRoute(s, r, i) \/ IsDropped(s, r, 1, i) \/ <<i, 1>> \in dis
        BY <1>3, <1>6, <1>14, <3>1 DEF Exact, Tied
      <4>2. old(r, 0) = 1
        BY DEF old
      <4> QED
        BY <1>5, <2>1, <3>1, <4>1, <4>2
    <3>2. CASE Works(lv, t, i)
      <4>1. HasRoute(s, t, i) \/ IsDropped(s, t, 0, i) \/ <<i, 1>> \in dis
        BY <3>2 DEF Exact, Tied
      <4>2. CASE t # r
        BY <1>5, <2>1, <4>1, <4>2 DEF old
      <4>3. CASE t = r /\ IsDropped(s, t, 0, i)
        <5>1. PICK j \in 1..Len(q) : q[j] = AbortOf(i, 1)
          BY <4>3 DEF IsDropped, q
        <5>2. j # 1
          <6>1. SUFFICES ASSUME j = 1
                         PROVE  FALSE
            OBVIOUS
          <6>2. h.type = "abort" /\ h.id = i
            BY <1>1, <5>1, <6>1 DEF AbortOf
          <6>3. aborted
            BY <1>10, <6>2 DEF accepted, refused
          <6> QED
            BY <2>2, <4>3, <6>2, <6>3 DEF aborted, Works
        <5>3. j > 0 + 1
          BY <5>2
        <5>4. IsDropped(s, r, old(r, 0), i)
          BY <5>1, <5>3 DEF IsDropped, old, q
        <5> QED
          BY <1>5, <4>3, <5>4
      <4> QED
        BY <2>1, <4>1, <4>2, <4>3
    <3> QED
      BY <1>11, <2>2, <3>1, <3>2
  <2>3. \A i \in Ids : \A t \in Replicas : \A k \in Nat :
          IsAdd(n, t, k, i) => HasRoute(n, t, i) \/ IsDropped(n, t, k, i) \/ <<i, 1>> \in dis
    BY <1>4, <1>5, <2>1 DEF Exact, Tied
  <2> QED
    BY <2>2, <2>3 DEF Tied
<1> QED
  BY <1>13, <1>16, <1>17 DEF Exact

\* Less work and the last events of what is gone keep everything exact.
LEMMA LessWork ==
  ASSUME NEW s, NEW lv, NEW lw, NEW ev, NEW dis, NEW ew, Exact(s, lv, ev, dis),
         \A t \in Replicas : lw[t] \subseteq lv[t],
         \A i \in Ids : Told(ew, i) =>
           \/ Told(ev, i)
           \/ /\ s.uses[i] = 1
              /\ \A t \in Replicas : ~ Works(lw, t, i) /\ \A k \in Nat : ~ IsAdd(s, t, k, i)
  PROVE  Exact(s, lw, ew, dis)
<1>1. \A t \in Replicas : \A i : Works(lw, t, i) => Works(lv, t, i)
  BY DEF Works
<1>2. Used(s, lw, ew)
  BY DEF Exact, Used
<1>3. InOnePlace(s, lw, ew)
  BY <1>1 DEF Exact, InOnePlace
<1>4. Tied(s, lw, dis)
  BY <1>1 DEF Exact, Tied
<1> QED
  BY <1>2, <1>3, <1>4 DEF Exact

\* A request that finishes is replaced by its last event.
LEMMA FinishKeeps ==
  ASSUME NEW s, TablesOK(s), NEW lv, LiveOK(lv), NEW al, NEW ev \in Seq(Event), NEW dis,
         NEW r \in Replicas, NEW x \in lv[r], AllOwned(s, lv, al, ev)
  PROVE  LET lw == [lv EXCEPT ![r] = @ \ {x}]
             ew == Append(ev, [type |-> "finish", id |-> x[1], use |-> x[2]])
         IN  /\ LiveOK(lw) /\ ew \in Seq(Event)
             /\ AllOwned(s, lw, al, ew)
             /\ Exact(s, lv, ev, dis) => Exact(s, lw, ew, dis)
<1> DEFINE lw == [lv EXCEPT ![r] = @ \ {x}]
           e  == [type |-> "finish", id |-> x[1], use |-> x[2]]
           ew == Append(ev, e)
<1>1. x[1] \in Ids /\ x[2] \in Nat /\ x = <<x[1], x[2]>>
  BY DEF LiveOK
<1>2. LiveOK(lw) /\ lw[r] = lv[r] \ {x} /\ \A t \in Replicas \ {r} : lw[t] = lv[t]
  BY DEF LiveOK
<1>3. e \in Event /\ e.type = "finish" /\ e.id = x[1]
  BY <1>1 DEF Event
<1> HIDE DEF e, lw
<1>4. /\ ew \in Seq(Event) /\ Len(ew) = Len(ev) + 1 /\ Len(ev) \in Nat /\ ew[Len(ev) + 1] = e
      /\ \A k \in 1..Len(ev) : ew[k] = ev[k]
  BY <1>3
<1> HIDE DEF ew
<1>5. Reported(ew, x[1]) /\ \A i : Reported(ev, i) => Reported(ew, i)
  <2>1. Len(ev) + 1 \in 1..Len(ew) /\ \A k \in 1..Len(ev) : k \in 1..Len(ew)
    BY <1>4
  <2> QED
    BY <1>3, <1>4, <2>1 DEF Reported
<1>6. AllOwned(s, lw, al, ew)
  <2> SUFFICES ASSUME NEW id \in DOMAIN s.routes
               PROVE  Owned(s, lw, al, ew, id)
    BY DEF AllOwned
  <2>1. Owned(s, lv, al, ev, id) /\ s.routes[id] \in Replicas
    BY DEF AllOwned, TablesOK, RoutesOK
  <2>2. CASE AtWork(s, lv, s.routes[id], id)
    <3>1. CASE x = <<id, s.uses[id]>>
      <4>1. x[1] = id
        BY <3>1
      <4> QED
        BY <1>5, <4>1 DEF Owned
    <3>2. CASE x # <<id, s.uses[id]>>
      <4>1. <<id, s.uses[id]>> \in lw[s.routes[id]]
        BY <1>2, <2>1, <2>2, <3>2 DEF AtWork
      <4> QED
        BY <2>2, <4>1 DEF Owned, AtWork
    <3> QED
      BY <3>1, <3>2
  <2> QED
    BY <1>5, <2>1, <2>2 DEF Owned
<1>7. ASSUME Exact(s, lv, ev, dis)
      PROVE  Exact(s, lw, ew, dis)
  <2>1. \A t \in Replicas : lw[t] \subseteq lv[t]
    BY <1>2
  <2>2. Works(lv, r, x[1])
    BY DEF Works
  <2>3. s.uses[x[1]] = 1 /\ \A t \in Replicas : \A k \in Nat : ~ IsAdd(s, t, k, x[1])
    BY <1>1, <1>7, <2>2 DEF Exact, Used, InOnePlace
  <2>4. \A t \in Replicas : ~ Works(lw, t, x[1])
    <3> SUFFICES ASSUME NEW t \in Replicas, NEW y \in lw[t], y[1] = x[1]
                 PROVE  FALSE
      BY DEF Works
    <3>1. y \in lv[t] /\ Works(lv, t, x[1])
      BY <2>1 DEF Works
    <3>2. t = r
      BY <1>1, <1>7, <2>2, <3>1 DEF Exact, InOnePlace
    <3>3. y[2] = 1 /\ x[2] = 1 /\ y = <<y[1], y[2]>>
      BY <1>7, <3>1 DEF Exact, Used, LiveOK
    <3> QED
      BY <1>1, <1>2, <3>2, <3>3
  <2>5. \A i \in Ids : Told(ew, i) => Told(ev, i) \/ i = x[1]
    <3> SUFFICES ASSUME NEW i \in Ids, NEW k \in 1..Len(ew), ew[k].type # "failed", ew[k].id = i
                 PROVE  Told(ev, i) \/ i = x[1]
      BY DEF Told
    <3>1. k \in 1..Len(ev) \/ k = Len(ev) + 1
      BY <1>4
    <3> QED
      BY <1>3, <1>4, <3>1 DEF Told
  <2> QED
    BY <1>7, <2>1, <2>3, <2>4, <2>5, LessWork
<1> QED
  BY <1>2, <1>4, <1>6, <1>7 DEF lw, ew, e

\* A replica that is gone owes its routes nothing.
LEMMA FailKeeps ==
  ASSUME NEW s, TablesOK(s), NEW lv, LiveOK(lv), NEW al, NEW ev \in Seq(Event), NEW dis,
         NEW r \in Replicas, AllOwned(s, lv, al, ev),
         NEW ew, ew = ev \/ ew = Append(ev, [type |-> "failed"])
  PROVE  LET lw == [lv EXCEPT ![r] = {}]
         IN  /\ LiveOK(lw) /\ ew \in Seq(Event)
             /\ AllOwned(s, lw, al \ {r}, ew)
             /\ Exact(s, lv, ev, dis) => Exact(s, lw, ew, dis)
<1> DEFINE lw == [lv EXCEPT ![r] = {}]
           e  == [type |-> "failed"]
<1>1. LiveOK(lw) /\ lw[r] = {} /\ \A t \in Replicas \ {r} : lw[t] = lv[t]
  BY DEF LiveOK
<1>2. e \in Event /\ e.type = "failed"
  BY DEF Event
<1> HIDE DEF e, lw
<1>3. /\ ew \in Seq(Event) /\ Len(ev) \in Nat
      /\ \A k \in 1..Len(ev) : ew[k] = ev[k] /\ k \in 1..Len(ew)
      /\ \A k \in 1..Len(ew) : k \in 1..Len(ev) \/ ew[k] = e
  <2>1. CASE ew = ev
    BY <2>1
  <2>2. CASE ew = Append(ev, e)
    BY <1>2, <2>2
  <2> QED
    BY <2>1, <2>2 DEF e
<1>4. \A i : (Reported(ev, i) => Reported(ew, i)) /\ (Told(ew, i) => Told(ev, i))
  BY <1>2, <1>3 DEF Reported, Told
<1>5. AllOwned(s, lw, al \ {r}, ew)
  <2> SUFFICES ASSUME NEW id \in DOMAIN s.routes
               PROVE  Owned(s, lw, al \ {r}, ew, id)
    BY DEF AllOwned
  <2>1. Owned(s, lv, al, ev, id) /\ s.routes[id] \in Replicas
    BY DEF AllOwned, TablesOK, RoutesOK
  <2> QED
    BY <1>1, <1>4, <2>1 DEF Owned, AtWork
<1>6. Exact(s, lv, ev, dis) => Exact(s, lw, ew, dis)
  <2>1. \A t \in Replicas : lw[t] \subseteq lv[t]
    BY <1>1
  <2> QED
    BY <1>4, <2>1, LessWork
<1> QED
  BY <1>1, <1>3, <1>5, <1>6 DEF lw

-----------------------------------------------------------------------------
(* The invariant. *)

\* What generate() waits for are the members of one batch.
WaitsForBatch(waits) == waits = {} \/ \E b \in Batches : waits \subseteq ToSet(b)

Inv ==
  /\ TablesOK(Tables)
  /\ LiveOK(live) /\ events \in Seq(Event) /\ pending \subseteq Ids
  /\ WaitsForBatch(pending)
  /\ AllOwned(Tables, live, alive, events)
  /\ ~ online /\ Open => DOMAIN routes = pending
  /\ MaxUses = 1 => Exact(Tables, live, events, disowned)

\* The tables an action leaves are the ones it names.
LEMMA TablesBecome ==
  ASSUME NEW s, TablesOK(s), Become(s)
  PROVE  Tables' = s
  BY DEF TablesOK, Become, Tables

\* What the tables are made of.
LEMMA TableFields ==
  /\ Tables.policy = policy /\ Tables.routes = routes
  /\ Tables.commands = commands /\ Tables.uses = uses
  BY DEF Tables

\* A new controller satisfies it.
LEMMA InitInv ==
  ASSUME Init
  PROVE  Inv
<1>1. /\ Tables.policy = policy /\ Tables.routes = routes
      /\ Tables.commands = commands /\ Tables.uses = uses
  BY TableFields
<1>2. /\ policy = [counter |-> 0, load |-> [r \in Replicas |-> 0], charges |-> <<>>,
                   resident |-> [r \in Replicas |-> <<>>]]
      /\ routes = <<>> /\ commands = [r \in Replicas |-> <<>>] /\ events = <<>>
      /\ live = [r \in Replicas |-> {}] /\ uses = [i \in Ids |-> 0] /\ pending = {}
  BY DEF Init
<1>3. DOMAIN routes = {} /\ DOMAIN policy.charges = {}
  BY <1>2
<1>4. PolicyOK(policy)
  <2>1. policy.charges = <<>> /\ <<>> \in [{} -> [replica : Replicas, amount : Nat]]
    BY <1>2
  <2> QED
    BY <1>2, <1>3, <2>1 DEF PolicyOK
<1>5. RoutesOK(routes)
  <2>1. IsFiniteSet(DOMAIN routes)
    BY <1>3, FS_EmptySet
  <2>2. <<>> \in [{} -> Replicas]
    OBVIOUS
  <2> QED
    BY <1>2, <1>3, <2>1, <2>2 DEF RoutesOK
<1>6. Balanced(policy, routes)
  <2>1. \A r \in Replicas : {id \in DOMAIN routes : routes[id] = r} = {} /\ policy.load[r] = 0
    BY <1>2, <1>3
  <2>2. Total(policy.charges, {}) = 0
    BY TotalEmpty
  <2> QED
    BY <1>3, <2>1, <2>2 DEF Balanced
<1>7. uses \in [Ids -> Nat] /\ commands \in [Replicas -> Seq(Command)]
  BY <1>2
<1>8. TablesOK(Tables)
  <2>1. Tables \in [policy : {policy}, routes : {routes}, commands : {commands}, uses : {uses}]
    BY DEF Tables
  <2> QED
    BY <1>1, <1>4, <1>5, <1>6, <1>7, <2>1 DEF TablesOK
<1>9. LiveOK(live) /\ events \in Seq(Event)
  BY <1>2 DEF LiveOK
<1>10. AllOwned(Tables, live, alive, events)
  BY <1>1, <1>3 DEF AllOwned
<1>11. Exact(Tables, live, events, disowned)
  <2>1. \A r \in Replicas : live[r] = {} /\ commands[r] = <<>> /\ Len(commands[r]) = 0
    BY <1>2
  <2>2. \A r \in Replicas : \A k : \A id : ~ Works(live, r, id) /\ ~ IsAdd(Tables, r, k, id)
    BY <1>1, <2>1 DEF Works, IsAdd
  <2>3. \A id : ~ Told(events, id)
    BY <1>2 DEF Told
  <2>4. Used(Tables, live, events)
    BY <1>1, <1>3, <2>1, <2>3 DEF Used
  <2>5. InOnePlace(Tables, live, events) /\ Tied(Tables, live, disowned)
    BY <2>2, <2>3 DEF InOnePlace, Tied
  <2> QED
    BY <2>4, <2>5 DEF Exact
<1> QED
  BY <1>2, <1>3, <1>8, <1>9, <1>10, <1>11 DEF Inv, WaitsForBatch

\* One request is sent.
LEMMA AddStep ==
  ASSUME Inv, NEW id \in Ids, Add(id), online' = online
  PROVE  Inv'
<1> DEFINE s == Tables
           n == Route(s, id)
<1>1. id \notin DOMAIN s.routes /\ (MaxUses = 1 => s.uses[id] = 0)
  <2>1. id \notin DOMAIN routes /\ uses[id] < MaxUses
    <3>1. <<id>>[1] = id /\ 1 \in DOMAIN <<id>>
      OBVIOUS
    <3> QED
      BY <3>1 DEF Add, Fresh
  <2>2. s.uses[id] \in Nat
    BY DEF Inv, TablesOK
  <2> QED
    BY <2>1, <2>2, TableFields
<1>2. TablesOK(s) /\ AllOwned(s, live, alive, events) /\ (MaxUses = 1 => Exact(s, live, events, disowned)) /\ LiveOK(live)
  BY DEF Inv
<1>3. Become(n) /\ online /\ UNCHANGED <<failure, closed, pending, events, live, alive, disowned>>
  BY DEF Add
<1> HIDE DEF s
<1>4. TablesOK(n) /\ AllOwned(n, live, alive, events)
  BY <1>1, <1>2, RouteEffect, RouteOwned
<1>5. \A r \in Replicas : \A x \in live[r] : x[1] \in Ids
  BY <1>2 DEF LiveOK
<1>6. MaxUses = 1 => Exact(n, live, events, disowned)
  BY <1>1, <1>2, <1>5, RouteExact
<1> HIDE DEF n
<1>7. Tables' = n
  BY <1>3, <1>4, TablesBecome
<1> QED
  BY <1>3, <1>4, <1>6, <1>7 DEF Inv

\* A send() that raised leaves the invariant's parts about tables and requests.
LEMMA SendFailsKeeps ==
  ASSUME Inv, NEW ids \in Seq(Ids), IsInjective(ids), Fresh(ids), NEW reached
  PROVE  LET n == TakenBack(ids, reached)
         IN  /\ TablesOK(n) /\ AllOwned(n, live, alive, events) /\ n.routes = routes
             /\ MaxUses = 1 => Exact(n, live, events, disowned \cup Delivered(ids, reached))
<1> DEFINE s == Tables
           exact == MaxUses = 1
<1>1. TablesOK(s) /\ AllOwned(s, live, alive, events) /\ (exact => Exact(s, live, events, disowned)) /\ LiveOK(live)
  BY DEF Inv
<1>2. \A i \in 1..Len(ids) : ids[i] \notin DOMAIN s.routes /\ (exact => s.uses[ids[i]] = 0)
  <2> TAKE i \in 1..Len(ids)
  <2>1. i \in DOMAIN ids /\ ids[i] \in Ids
    OBVIOUS
  <2>2. ids[i] \notin DOMAIN routes /\ uses[ids[i]] < MaxUses
    BY <2>1 DEF Fresh
  <2>3. s.uses[ids[i]] \in Nat
    BY <1>1, <2>1 DEF TablesOK
  <2> QED
    BY <2>2, <2>3, TableFields
<1>3. \A r \in Replicas : \A x \in live[r] : x[1] \in Ids
  BY <1>1 DEF LiveOK
<1>4. exact \in BOOLEAN /\ s.routes = routes
  BY TableFields
<1> HIDE DEF exact
<1>5. Ready(s, live, alive, events, disowned, ids, exact)
  BY <1>1, <1>2, <1>3, <1>4 DEF Ready
<1> HIDE DEF s
<1>7. LET n == TakenBack(ids, reached)
      IN  /\ TablesOK(n) /\ AllOwned(n, live, alive, events) /\ n.routes = Tables.routes
          /\ exact => Exact(n, live, events, disowned \cup Delivered(ids, reached))
  BY <1>4, <1>5, TakenBackBatch DEF s
<1> QED
  BY <1>4, <1>7 DEF s, exact

\* One request could not be sent.
LEMMA AddFailsStep ==
  ASSUME Inv, NEW id \in Ids, AddFails(id), online' = online
  PROVE  Inv'
<1>1. /\ online /\ Fresh(<<id>>) /\ UNCHANGED <<failure, closed, pending, events, live, alive>>
      /\ \E reached : /\ Become(TakenBack(<<id>>, reached))
                      /\ disowned' = disowned \cup Delivered(<<id>>, reached)
  BY DEF AddFails
<1>2. PICK reached : /\ Become(TakenBack(<<id>>, reached))
                     /\ disowned' = disowned \cup Delivered(<<id>>, reached)
  BY <1>1
<1>3. <<id>> \in Seq(Ids) /\ IsInjective(<<id>>)
  BY DEF IsInjective
<1> DEFINE n == TakenBack(<<id>>, reached)
<1>4. /\ TablesOK(n) /\ AllOwned(n, live, alive, events) /\ n.routes = routes
      /\ MaxUses = 1 => Exact(n, live, events, disowned \cup Delivered(<<id>>, reached))
  BY <1>1, <1>3, SendFailsKeeps
<1> HIDE DEF n
<1>5. Tables' = n
  BY <1>2, <1>4, TablesBecome DEF n
<1> QED
  BY <1>1, <1>2, <1>4, <1>5 DEF Inv

\* A request is aborted.
LEMMA AbortStep ==
  ASSUME Inv, NEW id \in Ids, Abort(id), online' = online
  PROVE  Inv'
<1> DEFINE s == Tables
           n == Forget(s, id)
<1>1. id \in DOMAIN s.routes
  BY TableFields DEF Abort
<1>2. TablesOK(s) /\ AllOwned(s, live, alive, events) /\ (MaxUses = 1 => Exact(s, live, events, disowned))
  BY DEF Inv
<1>3. Become(n) /\ online /\ UNCHANGED <<failure, closed, pending, events, live, alive, disowned>>
  BY DEF Abort
<1> HIDE DEF s
<1>4. TablesOK(n) /\ AllOwned(n, live, alive, events) /\ (MaxUses = 1 => Exact(n, live, events, disowned))
  BY <1>1, <1>2, ForgetEffect, ForgetOwned, ForgetExact
<1> HIDE DEF n
<1>5. Tables' = n
  BY <1>3, <1>4, TablesBecome
<1> QED
  BY <1>3, <1>4, <1>5 DEF Inv

\* generate() submits its batch.
LEMMA GenerateStep ==
  ASSUME Inv, NEW ids \in Batches, Generate(ids), online' = online
  PROVE  Inv'
<1> DEFINE s == Tables
           n == OneByOne(Route, s, ids)
           exact == MaxUses = 1
<1>1. ids \in Seq(Ids) /\ IsInjective(ids)
  BY RouterAssumption
<1>2. TablesOK(s) /\ AllOwned(s, live, alive, events) /\ (exact => Exact(s, live, events, disowned)) /\ LiveOK(live)
  BY DEF Inv
<1>3. \A i \in 1..Len(ids) : ids[i] \notin DOMAIN s.routes /\ (exact => s.uses[ids[i]] = 0)
  <2> TAKE i \in 1..Len(ids)
  <2>1. i \in DOMAIN ids /\ ids[i] \in Ids
    BY <1>1
  <2>2. ids[i] \notin DOMAIN routes /\ uses[ids[i]] < MaxUses
    BY <2>1 DEF Generate, Fresh
  <2>3. s.uses[ids[i]] \in Nat
    BY <1>2, <2>1 DEF TablesOK
  <2> QED
    BY <2>2, <2>3, TableFields
<1>4. /\ Become(n) /\ ~ online /\ pending = {} /\ pending' = ToSet(ids) /\ Open
      /\ UNCHANGED <<failure, closed, events, live, alive, disowned>>
  BY DEF Generate
<1>5. \A r \in Replicas : \A x \in live[r] : x[1] \in Ids
  BY <1>2 DEF LiveOK
<1>6. DOMAIN s.routes = {}
  BY <1>4, TableFields DEF Inv
<1> HIDE DEF s, exact
<1>7. Added(s, n, live, alive, events, ToSet(ids)) /\ (exact => Exact(n, live, events, disowned))
  <2>1. exact \in BOOLEAN
    BY DEF exact
  <2>2. exact => /\ Exact(s, live, events, disowned)
                 /\ \A r \in Replicas : \A x \in live[r] : x[1] \in Ids
                 /\ \A i \in 1..Len(ids) : s.uses[ids[i]] = 0
    BY <1>2, <1>3, <1>5
  <2>3. \A i \in 1..Len(ids) : ids[i] \notin DOMAIN s.routes
    BY <1>3
  <2> QED
    BY <1>1, <1>2, <2>1, <2>2, <2>3, RouteBatch
<1> HIDE DEF n
<1>8. TablesOK(n) /\ AllOwned(n, live, alive, events) /\ DOMAIN n.routes = ToSet(ids)
  BY <1>6, <1>7 DEF Added
<1>9. Tables' = n
  BY <1>4, <1>8, TablesBecome
<1>10. DOMAIN routes' = pending'
  <2>1. n.routes = routes'
    BY <1>4 DEF Become
  <2> QED
    BY <1>4, <1>8, <2>1
<1>11. pending' \subseteq Ids /\ WaitsForBatch(pending')
  <2>1. ToSet(ids) \subseteq Ids
    BY <1>1 DEF ToSet
  <2> QED
    BY <1>4, <2>1 DEF WaitsForBatch
<1> QED
  BY <1>2, <1>4, <1>7, <1>8, <1>9, <1>10, <1>11 DEF Inv, exact

\* generate() could not submit its batch.
LEMMA GenerateFailsStep ==
  ASSUME Inv, NEW ids \in Batches, GenerateFails(ids), online' = online
  PROVE  Inv'
<1>1. ids \in Seq(Ids) /\ IsInjective(ids)
  BY RouterAssumption
<1>2. /\ ~ online /\ pending = {} /\ Open /\ Fresh(ids)
      /\ UNCHANGED <<failure, closed, pending, events, live, alive>>
      /\ \E reached : /\ Become(OneByOne(Forget, TakenBack(ids, reached), ids))
                      /\ disowned' = disowned \cup Delivered(ids, reached)
  BY DEF GenerateFails
<1>3. PICK reached : /\ Become(OneByOne(Forget, TakenBack(ids, reached), ids))
                     /\ disowned' = disowned \cup Delivered(ids, reached)
  BY <1>2
<1> DEFINE s == TakenBack(ids, reached)
           n == OneByOne(Forget, s, ids)
           exact == MaxUses = 1
<1>4. /\ TablesOK(s) /\ AllOwned(s, live, alive, events) /\ s.routes = routes
      /\ exact => Exact(s, live, events, disowned')
  BY <1>1, <1>2, <1>3, SendFailsKeeps
<1>5. exact \in BOOLEAN
  OBVIOUS
<1>6. Become(n)
  BY <1>3
<1> HIDE DEF s, exact
<1>7. /\ Dropped(s, n, live, alive, events, ToSet(ids))
      /\ exact => Exact(n, live, events, disowned')
  BY <1>1, <1>4, <1>5, ForgetBatch
<1> HIDE DEF n
<1>8. TablesOK(n) /\ AllOwned(n, live, alive, events) /\ DOMAIN n.routes = DOMAIN routes \ ToSet(ids)
  BY <1>4, <1>7 DEF Dropped
<1>9. Tables' = n /\ routes' = n.routes
  BY <1>6, <1>8, TablesBecome DEF Become
<1>10. DOMAIN routes = {}
  BY <1>2 DEF Inv
<1> QED
  BY <1>2, <1>7, <1>8, <1>9, <1>10 DEF Inv, exact

\* An event is read.
LEMMA ReceiveOutputStep ==
  ASSUME Inv, ReceiveOutput, online' = online
  PROVE  Inv'
<1> DEFINE ev    == Head(events)
           tl    == Tail(events)
           s     == Release(Tables, ev.id)
           batch == CHOOSE b \in Batches : pending \subseteq ToSet(b)
           exact == MaxUses = 1
<1>1. /\ events # <<>> /\ ev.type # "failed" /\ events' = tl
      /\ UNCHANGED <<failure, closed, live, alive, disowned>>
      /\ \/ ev.type = "error" /\ ev.id \in pending /\ Become(OneByOne(Forget, s, batch)) /\ pending' = {}
         \/ Become(s) /\ pending' = pending \ {ev.id}
  BY DEF ReceiveOutput
<1>2. /\ TablesOK(Tables) /\ AllOwned(Tables, live, alive, events) /\ LiveOK(live)
      /\ (exact => Exact(Tables, live, events, disowned)) /\ events \in Seq(Event) /\ pending \subseteq Ids
      /\ WaitsForBatch(pending) /\ (~ online /\ Open => DOMAIN Tables.routes = pending)
  BY TableFields DEF Inv
<1>3. TablesOK(s) /\ DOMAIN s.routes = DOMAIN Tables.routes \ {ev.id}
  BY <1>2, ReleaseEffect DEF Unrouted
<1>4. AllOwned(s, live, alive, tl)
  BY <1>1, <1>2, ReadOwned
<1>5. exact => Exact(s, live, tl, disowned)
  BY <1>1, <1>2, ReadExact
<1>6. tl \in Seq(Event)
  BY <1>1, <1>2
<1> HIDE DEF ev, tl, s, batch, exact
<1>7. CASE Become(s) /\ pending' = pending \ {ev.id}
  <2>1. Tables' = s
    BY <1>3, <1>7, TablesBecome
  <2>2. routes' = s.routes
    BY <1>7 DEF Become
  <2>3. WaitsForBatch(pending')
    BY <1>2, <1>7 DEF WaitsForBatch
  <2>4. ~ online' /\ Open' => DOMAIN routes' = pending'
    BY <1>1, <1>2, <1>3, <1>7, <2>2 DEF Open
  <2> QED
    BY <1>1, <1>2, <1>3, <1>4, <1>5, <1>6, <1>7, <2>1, <2>3, <2>4 DEF Inv, exact
<1>8. CASE ev.type = "error" /\ ev.id \in pending /\ Become(OneByOne(Forget, s, batch)) /\ pending' = {}
  <2> DEFINE n == OneByOne(Forget, s, batch)
  <2>1. batch \in Batches /\ pending \subseteq ToSet(batch)
    BY <1>2, <1>8 DEF WaitsForBatch, batch
  <2>2. batch \in Seq(Ids) /\ exact \in BOOLEAN
    BY <2>1, RouterAssumption DEF exact
  <2>3. Dropped(s, n, live, alive, tl, ToSet(batch)) /\ (exact => Exact(n, live, tl, disowned))
    BY <1>3, <1>4, <1>5, <2>2, ForgetBatch
  <2>4. Become(n)
    BY <1>8
  <2> HIDE DEF n
  <2>5. TablesOK(n) /\ AllOwned(n, live, alive, tl) /\ DOMAIN n.routes = DOMAIN s.routes \ ToSet(batch)
    BY <2>3 DEF Dropped
  <2>6. Tables' = n /\ routes' = n.routes
    BY <2>4, <2>5, TablesBecome DEF Become
  <2>7. ~ online' /\ Open' => DOMAIN routes' = pending'
    BY <1>1, <1>2, <1>3, <1>8, <2>1, <2>5, <2>6 DEF Open
  <2>8. WaitsForBatch(pending') /\ pending' \subseteq Ids
    BY <1>8 DEF WaitsForBatch
  <2> QED
    BY <1>1, <1>2, <1>6, <2>3, <2>5, <2>6, <2>7, <2>8 DEF Inv, exact
<1> QED
  BY <1>1, <1>7, <1>8

\* A failure is noticed.
LEMMA ReceiveFailureStep ==
  ASSUME Inv, ReceiveFailure, online' = online
  PROVE  Inv'
<1>1. failure' = TRUE /\ pending' = {} /\ UNCHANGED <<policy, routes, closed, commands, live, alive, uses, disowned>>
  BY DEF ReceiveFailure
<1>2. Tables' = Tables
  BY <1>1 DEF Tables
<1>3. /\ TablesOK(Tables) /\ AllOwned(Tables, live, alive, events) /\ LiveOK(live)
      /\ (MaxUses = 1 => Exact(Tables, live, events, disowned)) /\ events \in Seq(Event)
  BY DEF Inv
<1>4. events' \in Seq(Event) /\ \A i : (Reported(events, i) => Reported(events', i)) /\ (Told(events', i) => Told(events, i))
  <2>1. CASE events' = events
    BY <1>3, <2>1
  <2>2. CASE events # <<>> /\ Head(events).type = "failed" /\ events' = Tail(events)
    <3>1. /\ events' \in Seq(Event) /\ Len(events) \in Nat /\ Len(events') = Len(events) - 1 /\ Head(events) = events[1]
          /\ \A k \in 1..Len(events') : events'[k] = events[k + 1]
      BY <1>3, <2>2
    <3>2. \A k \in 1..Len(events') : k + 1 \in 1..Len(events)
      BY <3>1
    <3>3. \A k \in 1..Len(events) : events[k].type # "failed" => k - 1 \in 1..Len(events') /\ events'[k - 1] = events[k]
      <4> SUFFICES ASSUME NEW k \in 1..Len(events), events[k].type # "failed"
                   PROVE  k - 1 \in 1..Len(events') /\ events'[k - 1] = events[k]
        OBVIOUS
      <4>1. k # 1
        BY <2>2, <3>1
      <4>2. k - 1 \in 1..Len(events') /\ (k - 1) + 1 = k
        BY <3>1, <4>1
      <4> QED
        BY <3>1, <4>2
    <3>4. \A i : Reported(events, i) => Reported(events', i)
      BY <3>3 DEF Reported
    <3>5. \A i : Told(events', i) => Told(events, i)
      BY <3>1, <3>2 DEF Told
    <3> QED
      BY <3>1, <3>4, <3>5
  <2> QED
    BY <2>1, <2>2 DEF ReceiveFailure
<1>5. AllOwned(Tables, live, alive, events')
  BY <1>3, <1>4 DEF AllOwned, Owned
<1>6. MaxUses = 1 => Exact(Tables, live, events', disowned)
  BY <1>3, <1>4, LessWork
<1> QED
  BY <1>1, <1>2, <1>3, <1>4, <1>5, <1>6 DEF Inv, Open, WaitsForBatch

\* The controller shuts down.
LEMMA ShutdownStep ==
  ASSUME Inv, Shutdown, online' = online
  PROVE  Inv'
<1>1. closed' = TRUE /\ alive' = {} /\ pending' = {} /\ UNCHANGED <<policy, routes, failure, commands, events, live, uses, disowned>>
  BY DEF Shutdown
<1>2. Tables' = Tables
  BY <1>1 DEF Tables
<1>3. AllOwned(Tables, live, {}, events)
  BY DEF AllOwned, Owned
<1> QED
  BY <1>1, <1>2, <1>3 DEF Inv, Open, WaitsForBatch

\* A replica applies a command.
LEMMA ApplyStep ==
  ASSUME Inv, NEW r \in Replicas, Apply(r), online' = online
  PROVE  Inv'
<1> DEFINE s == Tables
           n == Tables'
           h == Head(commands[r])
           old == {x \in live[r] : x[1] = h.id}
<1>1. /\ TablesOK(s) /\ AllOwned(s, live, alive, events) /\ LiveOK(live) /\ (MaxUses = 1 => Exact(s, live, events, disowned))
      /\ events \in Seq(Event) /\ s.commands = commands /\ s.routes = routes /\ s.uses = uses /\ s.policy = policy
  BY TableFields DEF Inv
<1>2. /\ commands[r] # <<>> /\ commands' = [commands EXCEPT ![r] = Tail(@)]
      /\ UNCHANGED <<policy, routes, failure, closed, pending, alive, uses, disowned>>
  BY DEF Apply
<1>3. \/ /\ h.type = "add" /\ old = {} /\ live' = [live EXCEPT ![r] = @ \cup {<<h.id, h.use>>}] /\ events' = events
      \/ /\ h.type = "add" /\ live' = live
         /\ events' = Append(events, [type |-> "error", id |-> h.id, use |-> h.use])
      \/ /\ h.type = "abort" /\ live' = [live EXCEPT ![r] = @ \ old] /\ events' = events
  BY DEF Apply
<1>4. commands \in [Replicas -> Seq(Command)] /\ commands[r] \in Seq(Command) /\ h \in Command
  <2>1. commands \in [Replicas -> Seq(Command)]
    BY <1>1 DEF TablesOK
  <2> QED
    BY <1>2, <2>1
<1>5. /\ commands' \in [Replicas -> Seq(Command)] /\ commands'[r] = Tail(commands[r])
      /\ \A t \in Replicas \ {r} : commands'[t] = commands[t]
  BY <1>2, <1>4
<1>6. n \in [policy : {s.policy}, routes : {s.routes}, commands : {commands'}, uses : {s.uses}]
  BY <1>1, <1>2 DEF Tables
<1>7. n.policy = s.policy /\ n.routes = s.routes /\ n.commands = commands' /\ n.uses = s.uses
  BY <1>6
<1>8. h.id \in Ids /\ h.use \in Nat
  BY <1>4 DEF Command
<1> HIDE DEF h, s, n
<1>9. TablesOK(n)
  BY <1>1, <1>5, <1>6, <1>7 DEF TablesOK
<1>10. LiveOK(live') /\ OnlyAt(live, live', r)
  BY <1>1, <1>3, <1>8 DEF LiveOK, OnlyAt
<1>11. events' \in Seq(Event)
  <2>1. [type |-> "error", id |-> h.id, use |-> h.use] \in Event
    BY <1>8 DEF Event
  <2> QED
    BY <1>1, <1>3, <2>1
<1>12. \/ /\ h.type = "add" /\ ~ Works(live, r, h.id) /\ live'[r] = live[r] \cup {<<h.id, h.use>>} /\ events' = events
       \/ /\ h.type = "add" /\ live'[r] = live[r]
          /\ events' = Append(events, [type |-> "error", id |-> h.id, use |-> h.use])
       \/ /\ h.type = "abort" /\ live'[r] = {x \in live[r] : x[1] # h.id} /\ events' = events
  <2>1. old = {} => ~ Works(live, r, h.id)
    BY DEF Works
  <2>2. live[r] \ old = {x \in live[r] : x[1] # h.id}
    OBVIOUS
  <2>3. \A v : [live EXCEPT ![r] = v][r] = v
    BY <1>1 DEF LiveOK
  <2> HIDE DEF old
  <2> QED
    BY <1>3, <2>1, <2>2, <2>3
<1>13. Applied(s, n, live, live', events, events', r)
  BY <1>1, <1>2, <1>5, <1>7, <1>10, <1>12 DEF Applied, h
<1>14. AllOwned(n, live', alive, events')
  BY <1>1, <1>13, ApplyOwned
<1>15. MaxUses = 1 => Exact(n, live', events', disowned)
  BY <1>1, <1>13, ApplyExact
<1> QED
  BY <1>2, <1>9, <1>10, <1>11, <1>14, <1>15 DEF Inv, Open, n

\* A request finishes.
LEMMA FinishStep ==
  ASSUME Inv, NEW r \in Replicas, NEW x \in live[r], Finish(r, x), online' = online
  PROVE  Inv'
<1>1. /\ live' = [live EXCEPT ![r] = @ \ {x}]
      /\ events' = Append(events, [type |-> "finish", id |-> x[1], use |-> x[2]])
      /\ UNCHANGED <<policy, routes, failure, closed, pending, commands, alive, uses, disowned>>
  BY DEF Finish
<1>2. Tables' = Tables
  BY <1>1 DEF Tables
<1>3. TablesOK(Tables) /\ AllOwned(Tables, live, alive, events) /\ LiveOK(live) /\ events \in Seq(Event)
  BY DEF Inv
<1>4. /\ LiveOK(live') /\ events' \in Seq(Event) /\ AllOwned(Tables, live', alive, events')
      /\ Exact(Tables, live, events, disowned) => Exact(Tables, live', events', disowned)
  BY <1>1, <1>3, FinishKeeps
<1> QED
  BY <1>1, <1>2, <1>4 DEF Inv, Open

\* A replica ends.
LEMMA FailStep ==
  ASSUME Inv, NEW r \in Replicas, Fail(r), online' = online
  PROVE  Inv'
<1>1. /\ live' = [live EXCEPT ![r] = {}] /\ alive' = alive \ {r}
      /\ events' \in {events, Append(events, [type |-> "failed"])}
      /\ UNCHANGED <<policy, routes, failure, closed, pending, commands, uses, disowned>>
  BY DEF Fail
<1>2. Tables' = Tables
  BY <1>1 DEF Tables
<1>3. TablesOK(Tables) /\ AllOwned(Tables, live, alive, events) /\ LiveOK(live) /\ events \in Seq(Event)
  BY DEF Inv
<1>4. /\ LiveOK(live') /\ events' \in Seq(Event) /\ AllOwned(Tables, live', alive', events')
      /\ Exact(Tables, live, events, disowned) => Exact(Tables, live', events', disowned)
  <2> DEFINE lw == [live EXCEPT ![r] = {}]
             ew == events'
  <2>1. ew = events \/ ew = Append(events, [type |-> "failed"])
    BY <1>1
  <2> HIDE DEF ew
  <2>2. /\ LiveOK(lw) /\ ew \in Seq(Event) /\ AllOwned(Tables, lw, alive \ {r}, ew)
        /\ Exact(Tables, live, events, disowned) => Exact(Tables, lw, ew, disowned)
    BY <1>3, <2>1, FailKeeps
  <2>3. lw = live'
    BY <1>1
  <2> QED
    BY <1>1, <2>2, <2>3 DEF ew
<1> QED
  BY <1>1, <1>2, <1>4 DEF Inv, Open

\* Every step keeps the invariant.
LEMMA NextInv ==
  ASSUME Inv, [Next]_<<online, vars>>
  PROVE  Inv'
<1>1. CASE UNCHANGED <<online, vars>>
  <2>1. Tables' = Tables
    BY <1>1 DEF vars, Tables
  <2> QED
    BY <1>1, <2>1 DEF Inv, vars, Open
<1>2. CASE Next
  <2>1. online' = online
    BY <1>2 DEF Next
  <2>2. ASSUME NEW id \in Ids, Add(id) \/ AddFails(id) \/ Abort(id)
        PROVE  Inv'
    BY <2>1, <2>2, AddStep, AddFailsStep, AbortStep
  <2>3. ASSUME NEW b \in Batches, Generate(b) \/ GenerateFails(b)
        PROVE  Inv'
    BY <2>1, <2>3, GenerateStep, GenerateFailsStep
  <2>4. CASE ReceiveOutput \/ ReceiveFailure \/ Shutdown
    BY <2>1, <2>4, ReceiveOutputStep, ReceiveFailureStep, ShutdownStep
  <2>5. ASSUME NEW r \in Replicas, ReplicaStep(r)
        PROVE  Inv'
    BY <2>1, <2>5, ApplyStep, FailStep, FinishStep DEF ReplicaStep
  <2> QED
    BY <1>2, <2>2, <2>3, <2>4, <2>5 DEF Next
<1> QED
  BY <1>1, <1>2

\* The invariant holds throughout.
LEMMA AlwaysInv == Spec => []Inv
  BY InitInv, NextInv, PTL DEF Spec

\* The load a counting policy sees of a replica is always the sum of the
\* charges of the requests routed there, whatever becomes of them: select()
\* and release() stay paired on every path.
THEOREM LoadIsChargesTheorem == Spec => []LoadIsCharges
<1>1. Inv => LoadIsCharges
  BY TableFields DEF Inv, TablesOK, Balanced, LoadIsCharges
<1> QED
  BY <1>1, AlwaysInv, PTL

\* As long as the controller serves, each route has its request: queued, at
\* work, with its last event on the way, or on a replica that is gone.  This
\* holds however often an id is used again.
THEOREM RoutesAreOwnedTheorem == Spec => []RoutesAreOwned
<1>1. ASSUME Inv
      PROVE  RoutesAreOwned
  <2> SUFFICES ASSUME NEW id \in DOMAIN routes
               PROVE  \/ routes[id] \notin alive
                      \/ <<id, uses[id]>> \in live[routes[id]]
                      \/ \E k \in DOMAIN commands[routes[id]] : commands[routes[id]][k] = Request(id, uses[id])
                      \/ \E k \in DOMAIN events : events[k].type \in {"finish", "error"} /\ events[k].id = id
    BY DEF RoutesAreOwned
  <2>1. Owned(Tables, live, alive, events, id) /\ events \in Seq(Event)
    BY <1>1, TableFields DEF Inv, AllOwned
  <2>2. routes[id] \in Replicas /\ commands \in [Replicas -> Seq(Command)]
    BY <1>1, TableFields DEF Inv, TablesOK, RoutesOK
  <2>3. DOMAIN commands[routes[id]] = 1..Len(commands[routes[id]]) /\ DOMAIN events = 1..Len(events)
    BY <2>1, <2>2
  <2> QED
    BY <2>1, <2>3, TableFields DEF Owned, AtWork, InQueue, Reported
<1> QED
  BY <1>1, AlwaysInv, PTL

\* When generate() has come back, with results or with an exception, and the
\* controller serves on, no route is left.
THEOREM NothingLeftBehindTheorem == Spec => []NothingLeftBehind
<1>1. ASSUME Inv
      PROVE  NothingLeftBehind
  <2> SUFFICES ASSUME ~ online, pending = {}, Open
               PROVE  routes = <<>>
    BY DEF NothingLeftBehind
  <2>1. DOMAIN routes = {} /\ routes \in [DOMAIN routes -> Replicas]
    BY <1>1, TableFields DEF Inv, TablesOK, RoutesOK
  <2>2. <<>> \in [{} -> Replicas]
    OBVIOUS
  <2> QED
    BY <2>1, <2>2
<1> QED
  BY <1>1, AlwaysInv, PTL

\* If no id is used twice, a request at work keeps its route until its own
\* last event or its own abort, unless the send() that queued it raised.
THEOREM ExactReleaseTheorem ==
  ASSUME MaxUses = 1
  PROVE  Spec => []ExactRelease
<1>1. ASSUME Inv
      PROVE  ExactRelease
  <2> SUFFICES ASSUME NEW r \in Replicas, NEW x \in live[r]
               PROVE  \/ x[1] \in DOMAIN routes /\ x[2] = uses[x[1]]
                      \/ \E k \in DOMAIN commands[r] : commands[r][k] = AbortOf(x[1], x[2])
                      \/ x \in disowned
    BY DEF ExactRelease
  <2>1. Exact(Tables, live, events, disowned) /\ LiveOK(live) /\ TablesOK(Tables)
    BY <1>1 DEF Inv
  <2>2. x[1] \in Ids /\ Works(live, r, x[1])
    BY <2>1 DEF LiveOK, Works
  <2>3. x[2] = 1 /\ uses[x[1]] = 1
    BY <2>1, TableFields DEF Exact, Used
  <2>4. HasRoute(Tables, r, x[1]) \/ IsDropped(Tables, r, 0, x[1]) \/ <<x[1], 1>> \in disowned
    BY <2>1, <2>2 DEF Exact, Tied
  <2>5. DOMAIN commands[r] = 1..Len(commands[r])
    BY <2>1, TableFields DEF TablesOK
  <2>6. x = <<x[1], x[2]>>
    BY <2>1 DEF LiveOK
  <2> QED
    BY <2>3, <2>4, <2>5, <2>6, TableFields DEF HasRoute, IsDropped
<1> QED
  BY <1>1, AlwaysInv, PTL

=============================================================================
