---------------------------- MODULE CacheLemmas ----------------------------
(***************************************************************************)
(* Facts about sequences that name each of their elements once (places,    *)
(* deletion, selection, concatenation), and what the operations of the     *)
(* allocator (module PrefixCache) do to a cache, whoever calls them: they  *)
(* keep it in order (counts, queue, index), tidy (where cached blocks may  *)
(* be) and anchored (no cached prefix loses its parent).  Then what the    *)
(* rows of the pool hold, pass after pass, and how many blocks are free.   *)
(***************************************************************************)
EXTENDS PrefixCache, FiniteSetTheorems, SequenceTheorems, WellFoundedInduction, TLAPS

-----------------------------------------------------------------------------
(* Lists. *)

\* s lists the elements of T, each once.
ListOf(s, T) == s \in Seq(T) /\ IsInjective(s) /\ Elements(s) = T

\* A set of naturals has a least element, and Min finds it.
LEMMA MinIsLeast ==
  ASSUME NEW S, S \subseteq Nat, S # {}
  PROVE  Min(S) \in S /\ \A y \in S : Min(S) <= y
<1>1. PICK x \in S : \A y \in S : ~ (<<y, x>> \in OpToRel(<, Nat))
  BY NatLessThanWellFounded, WFMin, Zenon
<1>2. \A y \in S : ~ (y < x)
  BY <1>1, Zenon DEF OpToRel
<1>3. \A y \in S : x <= y
  BY <1>2
<1> QED
  BY <1>3, Zenon DEF Min

\* A bounded set of naturals has a greatest element, and Max finds it.
LEMMA MaxIsGreatest ==
  ASSUME NEW n \in Nat, NEW S, S \subseteq 0 .. n, S # {}
  PROVE  Max(S) \in S /\ \A y \in S : Max(S) >= y
<1> DEFINE T == {n - x : x \in S}
<1>1. \A x \in S : x \in 0 .. n /\ n - x \in Nat
  OBVIOUS
<1>2. T \subseteq Nat /\ T # {}
  BY <1>1, Zenon
<1>3. Min(T) \in T /\ \A y \in T : Min(T) <= y
  BY <1>2, MinIsLeast, Zenon
<1>4. PICK x \in S : n - x = Min(T)
  BY <1>3, Zenon
<1>5. \A y \in S : n - x <= n - y
  BY <1>3, <1>4, Zenon
<1>6. \A y \in S : x >= y
  BY <1>1, <1>5
<1> QED
  BY <1>6, Zenon DEF Max

\* at names the places of K, each once, in the order ElementsAt lists them.
Enumerates(at, s, K) ==
  /\ at \in [1 .. Cardinality(K) -> K]
  /\ ElementsAt(s, K) = [i \in 1 .. Cardinality(K) |-> s[at[i]]]
  /\ \A i, j \in 1 .. Cardinality(K) : at[i] = at[j] => i = j
  /\ \A p \in K : \E i \in 1 .. Cardinality(K) : at[i] = p

\* ElementsAt lists the elements at the given places, each place once.
LEMMA ElementsAtPlaces ==
  ASSUME NEW S, NEW s \in Seq(S), NEW K, K \subseteq 1 .. Len(s)
  PROVE  Cardinality(K) \in Nat /\ \E at : Enumerates(at, s, K)
<1> DEFINE upTo(p) == {q \in K : q <= p}
           n       == Cardinality(K)
           rank    == [p \in K |-> Cardinality(upTo(p))]
           at      == [i \in 1 .. n |-> CHOOSE p \in K : Cardinality(upTo(p)) = i]
<1>1. Len(s) \in Nat /\ K \in SUBSET (1 .. Len(s)) /\ \A p \in K : p \in Int
  OBVIOUS
<1>2. IsFiniteSet(1 .. Len(s))
  BY <1>1, FS_Interval
<1>3. IsFiniteSet(K) /\ n \in Nat
  BY <1>1, <1>2, FS_Subset, FS_CardinalityType, Zenon
<1>4. \A p \in K : IsFiniteSet(upTo(p)) /\ Cardinality(upTo(p)) \in 1 .. n
  <2> TAKE p \in K
  <2>1. p <= p
    BY <1>1
  <2>2. upTo(p) \in SUBSET K /\ p \in upTo(p)
    BY <2>1, Zenon
  <2>3. IsFiniteSet(upTo(p)) /\ Cardinality(upTo(p)) <= n /\ Cardinality(upTo(p)) \in Nat
    BY <1>3, <2>2, FS_Subset, FS_CardinalityType, Zenon
  <2>4. Cardinality(upTo(p)) # 0
    BY <2>2, <2>3, FS_EmptySet, Zenon
  <2> HIDE DEF upTo, n
  <2> QED
    BY <1>3, <2>3, <2>4
<1>5. \A p, q \in K : p < q => Cardinality(upTo(p)) < Cardinality(upTo(q))
  <2> SUFFICES ASSUME NEW p \in K, NEW q \in K, p < q
               PROVE  Cardinality(upTo(p)) < Cardinality(upTo(q))
    OBVIOUS
  <2>1. \A x \in K : x <= p => x <= q
    BY <1>1
  <2>2. q <= q /\ ~ (q <= p)
    BY <1>1
  <2>3. upTo(p) \in SUBSET upTo(q) /\ q \in upTo(q) /\ q \notin upTo(p)
    BY <2>1, <2>2, Zenon
  <2>4. Cardinality(upTo(p)) <= Cardinality(upTo(q))
        /\ (Cardinality(upTo(p)) = Cardinality(upTo(q)) => upTo(p) = upTo(q))
    BY <1>4, <2>3, FS_Subset, Zenon
  <2>5. Cardinality(upTo(p)) # Cardinality(upTo(q))
    BY <2>3, <2>4, Zenon
  <2> HIDE DEF upTo
  <2> QED
    BY <1>4, <2>4, <2>5
<1>6. rank \in Injection(K, 1 .. n)
  <2>1. rank \in [K -> 1 .. n]
    BY <1>4
  <2>2. \A p, q \in K : rank[p] = rank[q] => p = q
    <3> HIDE DEF upTo
    <3> QED
      BY <1>1, <1>4, <1>5
  <2> QED
    BY <2>1, <2>2 DEF Injection, IsInjective
<1>7. IsFiniteSet(1 .. n) /\ Cardinality(1 .. n) = n
  BY <1>3, FS_Interval
<1>8. rank \in Surjection(K, 1 .. n)
  BY <1>6, <1>7, FS_Injection
<1>9. \A i \in 1 .. n : \E p \in K : Cardinality(upTo(p)) = i
  BY <1>8, Zenon DEF Surjection
<1>10. \A i \in 1 .. n : at[i] \in K /\ Cardinality(upTo(at[i])) = i
  <2> TAKE i \in 1 .. n
  <2>1. PICK p \in K : Cardinality(upTo(p)) = i
    BY <1>9
  <2> QED
    BY <2>1, Zenon
<1>11. at \in [1 .. n -> K]
  BY <1>10
<1>12. \A i, j \in 1 .. n : at[i] = at[j] => i = j
  BY <1>10
<1>13. \A p \in K : \E i \in 1 .. n : at[i] = p
  <2> TAKE p \in K
  <2>1. Cardinality(upTo(p)) \in 1 .. n
    BY <1>4
  <2>2. at[Cardinality(upTo(p))] = p
    BY <1>4, <1>5, <1>10, <2>1
  <2> QED
    BY <2>1, <2>2
<1>14. ElementsAt(s, K) = [i \in 1 .. n |-> s[at[i]]]
  <2>1. ElementsAt(s, K) = [i \in 1 .. n |-> s[CHOOSE p \in K : Cardinality(upTo(p)) = i]]
    BY Zenon DEF ElementsAt
  <2>2. \A i \in 1 .. n : at[i] = CHOOSE p \in K : Cardinality(upTo(p)) = i
    BY Zenon
  <2> HIDE DEF at, upTo
  <2> QED
    BY <2>1, <2>2, Zenon
<1> HIDE DEF at
<1> QED
  BY <1>3, <1>11, <1>12, <1>13, <1>14, Zenon DEF Enumerates

\* What it keeps of a sequence of distinct elements.
LEMMA ElementsAtDistinct ==
  ASSUME NEW S, NEW s \in Seq(S), NEW K, K \subseteq 1 .. Len(s), IsInjective(s)
  PROVE  /\ ElementsAt(s, K) \in Seq(S)
         /\ IsInjective(ElementsAt(s, K))
         /\ Elements(ElementsAt(s, K)) = {s[p] : p \in K}
<1> DEFINE e == ElementsAt(s, K)
           n == Cardinality(K)
<1>1. n \in Nat
  BY ElementsAtPlaces, Zenon
<1>2. PICK at : Enumerates(at, s, K)
  BY ElementsAtPlaces, Zenon
<1>3. DOMAIN e = 1 .. n /\ \A i \in 1 .. n : e[i] = s[at[i]] /\ at[i] \in K
  BY <1>2, Zenon DEF Enumerates
<1>4. s \in [1 .. Len(s) -> S] /\ Len(s) \in Nat /\ DOMAIN s = 1 .. Len(s)
  OBVIOUS
<1>5. e \in Seq(S) /\ Len(e) = n
  <2>1. e \in [1 .. n -> S]
    BY <1>2, <1>4 DEF Enumerates
  <2> QED
    BY <1>1, <2>1, LenProperties, IsASeq, SMT
<1>6. IsInjective(e)
  <2> SUFFICES ASSUME NEW i \in 1 .. n, NEW j \in 1 .. n, e[i] = e[j]
               PROVE  i = j
    BY <1>3, Zenon DEF IsInjective
  <2>1. at[i] \in DOMAIN s /\ at[j] \in DOMAIN s /\ s[at[i]] = s[at[j]]
    BY <1>3, <1>4, Zenon
  <2>2. at[i] = at[j]
    BY <2>1, Zenon DEF IsInjective
  <2> QED
    BY <1>2, <2>2, Zenon DEF Enumerates
<1>7. Elements(e) = {s[p] : p \in K}
  <2>1. Elements(e) = {e[i] : i \in 1 .. n}
    BY <1>5, Zenon DEF Elements
  <2>2. \A i \in 1 .. n : e[i] \in {s[p] : p \in K}
    BY <1>3, Zenon
  <2>3. \A p \in K : s[p] \in {e[i] : i \in 1 .. n}
    <3> TAKE p \in K
    <3>1. PICK i \in 1 .. n : at[i] = p
      BY <1>2, Zenon DEF Enumerates
    <3>2. e[i] = s[p]
      BY <1>3, <3>1, Zenon
    <3> QED
      BY <3>2, Zenon
  <2>4. Elements(e) \subseteq {s[p] : p \in K}
    BY <2>1, <2>2, Zenon
  <2>5. {s[p] : p \in K} \subseteq Elements(e)
    BY <2>1, <2>3, Zenon
  <2> QED
    BY <2>4, <2>5, Zenon
<1> QED
  BY <1>5, <1>6, <1>7

\* A list as a function on its places.
LEMMA ListPlaces ==
  ASSUME NEW T, NEW s, ListOf(s, T)
  PROVE  /\ Len(s) \in Nat /\ DOMAIN s = 1 .. Len(s) /\ s \in Seq(T)
         /\ \A i \in 1 .. Len(s) : s[i] \in T
         /\ \A i, j \in 1 .. Len(s) : s[i] = s[j] => i = j
         /\ \A x \in T : \E i \in 1 .. Len(s) : s[i] = x
<1>1. s \in Seq(T) /\ Len(s) \in Nat /\ DOMAIN s = 1 .. Len(s) /\ \A i \in 1 .. Len(s) : s[i] \in T
  BY DEF ListOf
<1>2. \A i, j \in 1 .. Len(s) : s[i] = s[j] => i = j
  BY <1>1, Zenon DEF ListOf, IsInjective
<1>3. \A x \in T : \E i \in 1 .. Len(s) : s[i] = x
  BY Zenon DEF ListOf, Elements
<1> QED
  BY <1>1, <1>2, <1>3

\* And back.
LEMMA PlacesList ==
  ASSUME NEW T, NEW n \in Nat, NEW s, s \in [1 .. n -> T],
         \A i, j \in 1 .. n : s[i] = s[j] => i = j,
         \A x \in T : \E i \in 1 .. n : s[i] = x
  PROVE  ListOf(s, T) /\ Len(s) = n
<1>1. s \in Seq(T) /\ Len(s) = n /\ DOMAIN s = 1 .. n
  BY IsASeq, LenProperties
<1>2. IsInjective(s)
  BY <1>1, Zenon DEF IsInjective
<1>3. Elements(s) \subseteq T
  BY <1>1 DEF Elements
<1>4. T \subseteq Elements(s)
  BY <1>1, Zenon DEF Elements
<1> QED
  BY <1>1, <1>2, <1>3, <1>4, Zenon DEF ListOf

LEMMA ListEmpty == ListOf(<<>>, {})
<1>1. <<>> \in Seq({}) /\ DOMAIN <<>> = {} /\ 1 .. Len(<<>>) = {}
  OBVIOUS
<1> QED
  BY <1>1, Zenon DEF ListOf, IsInjective, Elements

LEMMA ListConcat ==
  ASSUME NEW T, NEW U, NEW s, NEW t, ListOf(s, T), ListOf(t, U), T \cap U = {}
  PROVE  ListOf(s \o t, T \cup U)
<1> DEFINE w == s \o t
           m == Len(s)
           n == Len(t)
<1>1. /\ m \in Nat /\ s \in Seq(T)
      /\ \A i \in 1 .. m : s[i] \in T
      /\ \A i, j \in 1 .. m : s[i] = s[j] => i = j
      /\ \A x \in T : \E i \in 1 .. m : s[i] = x
  BY ListPlaces, Zenon
<1>2. /\ n \in Nat /\ t \in Seq(U)
      /\ \A i \in 1 .. n : t[i] \in U
      /\ \A i, j \in 1 .. n : t[i] = t[j] => i = j
      /\ \A x \in U : \E i \in 1 .. n : t[i] = x
  BY ListPlaces, Zenon
<1>3. w \in Seq(T \cup U) /\ Len(w) = m + n
  BY <1>1, <1>2
<1>4. \A i \in 1 .. m : w[i] = s[i]
  BY <1>1, <1>2
<1>5. \A i \in 1 .. n : w[m + i] = t[i]
  BY <1>1, <1>2
<1> HIDE DEF w, m, n
<1>6. \A i \in 1 .. m + n : i \in 1 .. m \/ (i - m \in 1 .. n /\ i = m + (i - m))
  BY <1>1, <1>2
<1>7. \A i, j \in 1 .. m + n : w[i] = w[j] => i = j
  <2> SUFFICES ASSUME NEW i \in 1 .. m + n, NEW j \in 1 .. m + n, w[i] = w[j]
               PROVE  i = j
    OBVIOUS
  <2>1. CASE i \in 1 .. m /\ j \in 1 .. m
    BY <1>1, <1>4, <2>1
  <2>2. CASE i \in 1 .. m /\ j \notin 1 .. m
    <3>1. s[i] = t[j - m] /\ s[i] \in T /\ t[j - m] \in U
      BY <1>1, <1>2, <1>4, <1>5, <1>6, <2>2
    <3> QED
      BY <3>1
  <2>3. CASE i \notin 1 .. m /\ j \in 1 .. m
    <3>1. s[j] = t[i - m] /\ s[j] \in T /\ t[i - m] \in U
      BY <1>1, <1>2, <1>4, <1>5, <1>6, <2>3
    <3> QED
      BY <3>1
  <2>4. CASE i \notin 1 .. m /\ j \notin 1 .. m
    <3>1. t[i - m] = t[j - m] /\ i - m \in 1 .. n /\ j - m \in 1 .. n
      BY <1>5, <1>6, <2>4
    <3>2. i - m = j - m
      BY <1>2, <3>1, Zenon
    <3> QED
      BY <1>1, <3>2
  <2> QED
    BY <2>1, <2>2, <2>3, <2>4
<1>8. \A x \in T \cup U : \E i \in 1 .. m + n : w[i] = x
  <2> TAKE x \in T \cup U
  <2>1. CASE x \in T
    <3>1. PICK i \in 1 .. m : s[i] = x
      BY <1>1, <2>1
    <3>2. i \in 1 .. m + n
      BY <1>1, <1>2, <3>1
    <3>3. w[i] = x
      BY <1>4, <3>1, Zenon
    <3> QED
      BY <3>2, <3>3, Zenon
  <2>2. CASE x \in U
    <3>1. PICK i \in 1 .. n : t[i] = x
      BY <1>2, <2>2
    <3>2. m + i \in 1 .. m + n /\ w[m + i] = x
      BY <1>1, <1>2, <1>5, <3>1
    <3> QED
      BY <3>2, Zenon
  <2> QED
    BY <2>1, <2>2
<1> QED
  <2>1. m + n \in Nat /\ w \in [1 .. m + n -> T \cup U]
    BY <1>1, <1>2, <1>3
  <2>2. ListOf(w, T \cup U)
    BY <1>7, <1>8, <2>1, PlacesList
  <2> QED
    BY <2>2 DEF w

LEMMA ListSingle ==
  ASSUME NEW x
  PROVE  ListOf(<<x>>, {x})
<1> DEFINE s == <<x>>
<1>1. s \in [1 .. 1 -> {x}] /\ s[1] = x
  OBVIOUS
<1> HIDE DEF s
<1>2. /\ \A i, j \in 1 .. 1 : s[i] = s[j] => i = j
      /\ \A y \in {x} : \E i \in 1 .. 1 : s[i] = y
  BY <1>1
<1>3. 1 \in Nat
  OBVIOUS
<1>4. ListOf(s, {x})
  BY <1>1, <1>2, <1>3, PlacesList, Zenon
<1> QED
  BY <1>4 DEF s

LEMMA ListAppend ==
  ASSUME NEW T, NEW s, ListOf(s, T), NEW x, x \notin T
  PROVE  ListOf(Append(s, x), T \cup {x}) /\ ListOf(<<x>> \o s, T \cup {x})
<1>1. T \cap {x} = {} /\ {x} \cap T = {} /\ {x} \cup T = T \cup {x}
  OBVIOUS
<1>2. ListOf(s \o <<x>>, T \cup {x}) /\ ListOf(<<x>> \o s, {x} \cup T)
  BY <1>1, ListSingle, ListConcat
<1>3. Append(s, x) = s \o <<x>>
  <2>1. s \in Seq(T \cup {x}) /\ x \in T \cup {x}
    BY DEF ListOf
  <2> QED
    BY <2>1, AppendIsConcat
<1> QED
  BY <1>1, <1>2, <1>3

\* w, of length m, lists the elements of s in U, in the order of their places.
Picks(w, m, at, s, T, U) ==
  /\ m \in Nat /\ w \in [1 .. m -> T] /\ at \in [1 .. m -> 1 .. Len(s)] /\ U \subseteq T
  /\ \A i \in 1 .. m : w[i] = s[at[i]] /\ s[at[i]] \in U
  /\ \A i, j \in 1 .. m : at[i] = at[j] => i = j
  /\ \A p \in 1 .. Len(s) : s[p] \in U => \E i \in 1 .. m : at[i] = p

LEMMA ListPicked ==
  ASSUME NEW T, NEW s, ListOf(s, T), NEW U, NEW w, NEW m, NEW at, Picks(w, m, at, s, T, U)
  PROVE  ListOf(w, U) /\ Len(w) = m
<1>1. /\ \A i, j \in 1 .. Len(s) : s[i] = s[j] => i = j
      /\ \A x \in T : \E i \in 1 .. Len(s) : s[i] = x
  BY ListPlaces, Zenon
<1>2. m \in Nat /\ w \in [1 .. m -> U]
  BY DEF Picks
<1>3. \A i \in 1 .. m : at[i] \in 1 .. Len(s) /\ w[i] = s[at[i]]
  BY Zenon DEF Picks
<1>4. \A i, j \in 1 .. m : w[i] = w[j] => i = j
  <2> SUFFICES ASSUME NEW i \in 1 .. m, NEW j \in 1 .. m, w[i] = w[j]
               PROVE  i = j
    BY Zenon
  <2>1. at[i] = at[j]
    BY <1>1, <1>3
  <2> QED
    BY <2>1, Zenon DEF Picks
<1>5. \A x \in U : \E i \in 1 .. m : w[i] = x
  <2> TAKE x \in U
  <2>1. PICK p \in 1 .. Len(s) : s[p] = x
    BY <1>1, Zenon DEF Picks
  <2>2. PICK i \in 1 .. m : at[i] = p
    BY <2>1, Zenon DEF Picks
  <2> QED
    BY <1>3, <2>1, <2>2, Zenon
<1> QED
  BY <1>2, <1>4, <1>5, PlacesList

LEMMA ListTail ==
  ASSUME NEW T, NEW s, ListOf(s, T), s # <<>>
  PROVE  Head(s) \in T /\ ListOf(Tail(s), T \ {Head(s)})
<1> DEFINE n  == Len(s)
           at == [i \in 1 .. n - 1 |-> i + 1]
<1>1. /\ n \in Nat /\ s \in Seq(T)
      /\ \A i \in 1 .. n : s[i] \in T
      /\ \A i, j \in 1 .. n : s[i] = s[j] => i = j
  BY ListPlaces, Zenon
<1>2. n - 1 \in Nat /\ Head(s) = s[1] /\ Tail(s) \in [1 .. n - 1 -> T]
      /\ \A i \in 1 .. n - 1 : Tail(s)[i] = s[i + 1]
  <2>1. n # 0 /\ n - 1 \in Nat /\ Head(s) = s[1] /\ Tail(s) \in Seq(T) /\ Len(Tail(s)) = n - 1
    BY <1>1
  <2>2. \A i \in 1 .. n - 1 : Tail(s)[i] = s[i + 1]
    BY <1>1
  <2>3. Tail(s) \in [1 .. n - 1 -> T]
    BY <2>1, LenProperties
  <2> QED
    BY <2>1, <2>2, <2>3
<1> HIDE DEF n
<1>3. 1 \in 1 .. n /\ \A i \in 1 .. n - 1 : i + 1 \in 1 .. n /\ i + 1 # 1
  BY <1>1, <1>2
<1>4. at \in [1 .. n - 1 -> 1 .. n]
  BY <1>3
<1>5. \A i, j \in 1 .. n - 1 : at[i] = at[j] => i = j
  BY <1>1
<1>6. \A i \in 1 .. n - 1 : s[at[i]] \in T \ {Head(s)}
  BY <1>1, <1>2, <1>3
<1>7. \A p \in 1 .. n : s[p] \in T \ {Head(s)} => \E i \in 1 .. n - 1 : at[i] = p
  <2> SUFFICES ASSUME NEW p \in 1 .. n, p # 1
               PROVE  \E i \in 1 .. n - 1 : at[i] = p
    BY <1>2
  <2>1. p - 1 \in 1 .. n - 1 /\ at[p - 1] = p
    BY <1>1
  <2> QED
    BY <2>1
<1>8. \A i \in 1 .. n - 1 : Tail(s)[i] = s[at[i]]
  BY <1>2
<1> HIDE DEF at
<1>9. ListOf(Tail(s), T \ {Head(s)})
  <2>1. Picks(Tail(s), n - 1, at, s, T, T \ {Head(s)})
    BY <1>2, <1>4, <1>5, <1>6, <1>7, <1>8 DEF n, Picks
  <2> QED
    BY <2>1, ListPicked, Zenon
<1> QED
  BY <1>1, <1>2, <1>3, <1>9

\* A stretch of a sequence that may be empty.
LEMMA Stretch ==
  ASSUME NEW S, NEW s \in Seq(S), NEW a \in Int, NEW b \in Int,
         1 <= a, a <= b + 1, b <= Len(s)
  PROVE  /\ SubSeq(s, a, b) \in Seq(S) /\ Len(SubSeq(s, a, b)) = b - a + 1
         /\ \A i \in 1 .. b - a + 1 : SubSeq(s, a, b)[i] = s[a + i - 1]
<1>1. \A i \in a .. b : s[i] \in S
  OBVIOUS
<1>2. SubSeq(s, a, b) \in Seq(S)
  BY <1>1, SubSeqProperties
<1>3. Len(SubSeq(s, a, b)) = IF a <= b THEN b - a + 1 ELSE 0
  BY <1>1, SubSeqProperties
<1>4. \A i \in 1 .. b - a + 1 : SubSeq(s, a, b)[i] = s[a + i - 1]
  BY <1>1, SubSeqProperties
<1> DEFINE l == Len(SubSeq(s, a, b))
<1>5. l = IF a <= b THEN b - a + 1 ELSE 0
  BY <1>3, Zenon
<1> HIDE DEF l
<1>6. l = b - a + 1
  BY <1>5
<1> QED
  BY <1>2, <1>4, <1>6, Zenon DEF l

LEMMA ListFront ==
  ASSUME NEW T, NEW s, ListOf(s, T), s # <<>>
  PROVE  Last(s) \in T /\ ListOf(Front(s), T \ {Last(s)})
<1> DEFINE n  == Len(s)
           at == [i \in 1 .. n - 1 |-> i]
<1>1. /\ n \in Nat /\ s \in Seq(T)
      /\ \A i \in 1 .. n : s[i] \in T
      /\ \A i, j \in 1 .. n : s[i] = s[j] => i = j
  BY ListPlaces, Zenon
<1>2. n - 1 \in Nat /\ Last(s) = s[n]
  BY <1>1 DEF Last
<1>3. Front(s) \in [1 .. n - 1 -> T] /\ \A i \in 1 .. n - 1 : Front(s)[i] = s[i]
  <2>1. 1 \in Int /\ n - 1 \in Int /\ 1 <= 1 /\ 1 <= n - 1 + 1 /\ n - 1 <= n /\ n - 1 - 1 + 1 = n - 1
    BY <1>2, <1>1
  <2>2. Front(s) = SubSeq(s, 1, n - 1)
    BY DEF Front
  <2>3. Front(s) \in Seq(T) /\ Len(Front(s)) = n - 1 - 1 + 1
        /\ \A i \in 1 .. n - 1 - 1 + 1 : Front(s)[i] = s[1 + i - 1]
    BY <1>1, <2>1, <2>2, Stretch, SMT
  <2>4. \A i \in 1 .. n - 1 : Front(s)[i] = s[i]
    BY <2>1, <2>3
  <2> QED
    BY <2>4, <2>1, <2>3, LenProperties
<1> HIDE DEF n
<1>4. n \in 1 .. n /\ \A i \in 1 .. n - 1 : i \in 1 .. n /\ i # n
  BY <1>1, <1>2
<1>5. at \in [1 .. n - 1 -> 1 .. n] /\ \A i, j \in 1 .. n - 1 : at[i] = at[j] => i = j
  BY <1>4
<1>6. \A i \in 1 .. n - 1 : s[at[i]] \in T \ {Last(s)}
  BY <1>1, <1>2, <1>4
<1>7. \A p \in 1 .. n : s[p] \in T \ {Last(s)} => \E i \in 1 .. n - 1 : at[i] = p
  <2> SUFFICES ASSUME NEW p \in 1 .. n, p # n
               PROVE  \E i \in 1 .. n - 1 : at[i] = p
    BY <1>2
  <2>1. p \in 1 .. n - 1 /\ at[p] = p
    BY <1>1
  <2> QED
    BY <2>1
<1>8. \A i \in 1 .. n - 1 : Front(s)[i] = s[at[i]]
  BY <1>3
<1> HIDE DEF at
<1>9. ListOf(Front(s), T \ {Last(s)})
  <2>1. Picks(Front(s), n - 1, at, s, T, T \ {Last(s)})
    BY <1>2, <1>3, <1>5, <1>6, <1>7, <1>8 DEF n, Picks
  <2> QED
    BY <2>1, ListPicked, Zenon
<1> QED
  BY <1>1, <1>2, <1>4, <1>9

\* Whoever s has besides x, w has no later.
NoLater(s, w, x) ==
  \A i \in 1 .. Len(s) : s[i] # x => \E j \in 1 .. Len(w) : j <= i /\ w[j] = s[i]

\* q has x somewhere before y.
Before(q, x, y) == \E i, j \in 1 .. Len(q) : i < j /\ q[i] = x /\ q[j] = y

\* What w has in some order, s has in that order.
KeepsOrder(s, w) == \A i, j \in 1 .. Len(w) : i < j => Before(s, w[i], w[j])

\* Deleting x leaves the rest in its order, and nobody moves towards the end.
LEMMA ListRemove ==
  ASSUME NEW T, NEW s, ListOf(s, T), NEW x
  PROVE  /\ ListOf(RemoveFirst(s, x), T \ {x}) /\ NoLater(s, RemoveFirst(s, x), x)
         /\ KeepsOrder(s, RemoveFirst(s, x))
<1>1. /\ Len(s) \in Nat /\ s \in Seq(T)
      /\ \A i \in 1 .. Len(s) : s[i] \in T
      /\ \A i, j \in 1 .. Len(s) : s[i] = s[j] => i = j
      /\ \A y \in T : \E i \in 1 .. Len(s) : s[i] = y
  BY ListPlaces, Zenon
<1>2. CASE x \notin T
  <2>1. RemoveFirst(s, x) = s
    BY <1>1, <1>2 DEF RemoveFirst
  <2>2. T \ {x} = T
    BY <1>2
  <2>3. NoLater(s, s, x) /\ KeepsOrder(s, s)
    BY <1>1 DEF NoLater, KeepsOrder, Before
  <2> QED
    BY <2>1, <2>2, <2>3
<1>3. CASE x \in T
  <2> DEFINE n == Len(s)
             w == RemoveFirst(s, x)
  <2>1. PICK k \in 1 .. n : s[k] = x
    BY <1>1, <1>3
  <2> DEFINE I  == {i \in 1 .. n : s[i] = x}
             at == [i \in 1 .. n - 1 |-> IF i < k THEN i ELSE i + 1]
  <2>2. I = {k} /\ k \in Nat
    BY <1>1, <2>1
  <2>3. Min(I) = k
    <3>1. I \subseteq Nat /\ I # {}
      BY <2>2
    <3>2. Min(I) \in I
      BY <3>1, MinIsLeast, Zenon
    <3> QED
      BY <2>2, <3>2
  <2>4. SelectInSeq(s, LAMBDA v : v = x) = k
    BY <2>2, <2>3 DEF SelectInSeq
  <2>5. w = SubSeq(s, 1, k - 1) \o SubSeq(s, k + 1, n)
    BY <2>1, <2>4 DEF RemoveFirst, RemoveAt
  <2>6. w \in [1 .. n - 1 -> T] /\ \A i \in 1 .. n - 1 : w[i] = IF i < k THEN s[i] ELSE s[i + 1]
    <3> DEFINE a == SubSeq(s, 1, k - 1)
               b == SubSeq(s, k + 1, n)
    <3>1. /\ 1 \in Int /\ k - 1 \in Int /\ k + 1 \in Int /\ n \in Int /\ 1 <= 1 /\ n <= n
          /\ 1 <= k - 1 + 1 /\ k - 1 <= n /\ k - 1 - 1 + 1 = k - 1
          /\ 1 <= k + 1 /\ k + 1 <= n + 1 /\ n - (k + 1) + 1 = n - k
      BY <1>1, <2>1, <2>2
    <3>2. a \in Seq(T) /\ Len(a) = k - 1 - 1 + 1 /\ \A i \in 1 .. k - 1 - 1 + 1 : a[i] = s[1 + i - 1]
      BY <1>1, <3>1, Stretch, SMT
    <3>3. b \in Seq(T) /\ Len(b) = n - (k + 1) + 1
          /\ \A i \in 1 .. n - (k + 1) + 1 : b[i] = s[k + 1 + i - 1]
      <4>1. PICK c \in Int : c = k + 1
        BY <3>1
      <4>2. 1 <= c /\ c <= n + 1
        BY <3>1, <4>1
      <4>3. SubSeq(s, c, n) \in Seq(T) /\ Len(SubSeq(s, c, n)) = n - c + 1
            /\ \A i \in 1 .. n - c + 1 : SubSeq(s, c, n)[i] = s[c + i - 1]
        BY <1>1, <3>1, <4>2, Stretch
      <4> QED
        BY <4>1, <4>3
    <3> HIDE DEF a, b, n
    <3>4. a \in Seq(T) /\ Len(a) = k - 1 /\ \A i \in 1 .. k - 1 : a[i] = s[i]
      BY <2>2, <3>1, <3>2
    <3>5. b \in Seq(T) /\ Len(b) = n - k /\ \A i \in 1 .. n - k : b[i] = s[k + i]
      <4>1. n - (k + 1) + 1 = n - k
        BY <3>1
      <4>2. \A i \in 1 .. n - k : k + 1 + i - 1 = k + i
        BY <2>2, <3>1
      <4>3. b \in Seq(T) /\ Len(b) = n - k /\ \A i \in 1 .. n - k : b[i] = s[k + 1 + i - 1]
        BY <3>3, <4>1, Zenon
      <4> QED
        BY <4>2, <4>3, Zenon
    <3>6. a \o b \in Seq(T) /\ Len(a \o b) = n - 1
          /\ \A i \in 1 .. n - 1 : (a \o b)[i] = IF i < k THEN a[i] ELSE b[i - (k - 1)]
      <4>1. /\ a \o b \in Seq(T) /\ Len(a \o b) = Len(a) + Len(b)
            /\ \A i \in 1 .. Len(a) + Len(b) : (a \o b)[i] =
                 IF i <= Len(a) THEN a[i] ELSE b[i - Len(a)]
        BY <3>4, <3>5, ConcatProperties, Zenon
      <4> DEFINE c == a \o b
                 la == Len(a)
                 lb == Len(b)
      <4>2. c \in Seq(T) /\ Len(c) = la + lb /\ la = k - 1 /\ lb = n - k
            /\ \A i \in 1 .. la + lb : c[i] = IF i <= la THEN a[i] ELSE b[i - la]
        BY <3>4, <3>5, <4>1, Zenon
      <4> HIDE DEF c, la, lb
      <4>3. c \in Seq(T) /\ Len(c) = n - 1
            /\ \A i \in 1 .. n - 1 : c[i] = IF i < k THEN a[i] ELSE b[i - (k - 1)]
        BY <2>2, <3>1, <4>2
      <4> QED
        BY <4>3 DEF c
    <3>7. \A i \in 1 .. n - 1 : IF i < k THEN i \in 1 .. k - 1
                                ELSE i - (k - 1) \in 1 .. n - k /\ k + (i - (k - 1)) = i + 1
      BY <2>2, <3>1
    <3>8. \A i \in 1 .. n - 1 : (a \o b)[i] = IF i < k THEN s[i] ELSE s[i + 1]
      BY <3>4, <3>5, <3>6, <3>7
    <3>9. a \o b \in [1 .. n - 1 -> T]
      BY <3>6, LenProperties
    <3> QED
      BY <2>5, <3>8, <3>9 DEF a, b
  <2>7. n \in Nat /\ n - 1 \in Nat
    BY <1>1, <2>1
  <2> HIDE DEF w, n
  <2>8. at \in [1 .. n - 1 -> 1 .. n] /\ \A i \in 1 .. n - 1 : at[i] # k
    BY <2>2, <2>7
  <2>9. \A i, j \in 1 .. n - 1 : at[i] = at[j] => i = j
    BY <2>2, <2>7
  <2>10. \A i \in 1 .. n - 1 : w[i] = s[at[i]]
    BY <2>6
  <2>11. \A p \in 1 .. n : p # k => \E j \in 1 .. n - 1 : j <= p /\ at[j] = p
    <3> SUFFICES ASSUME NEW p \in 1 .. n, p # k
                 PROVE  \E j \in 1 .. n - 1 : j <= p /\ at[j] = p
      OBVIOUS
    <3>1. CASE p < k
      <4>1. p \in 1 .. n - 1 /\ p <= p /\ at[p] = p
        BY <2>1, <2>2, <2>7, <3>1
      <4> QED
        BY <4>1, Zenon
    <3>2. CASE ~ (p < k)
      <4>1. p - 1 \in 1 .. n - 1 /\ p - 1 <= p /\ at[p - 1] = p
        BY <2>1, <2>2, <2>7, <3>2
      <4> QED
        BY <4>1, Zenon
    <3> QED
      BY <3>1, <3>2
  <2>12. \A i, j \in 1 .. n - 1 : i < j => at[i] < at[j]
    BY <2>2, <2>7
  <2> HIDE DEF at
  <2>13. \A i \in 1 .. n - 1 : s[at[i]] \in T \ {x}
    BY <1>1, <2>1, <2>8 DEF n
  <2>14. \A p \in 1 .. n : s[p] \in T \ {x} => \E i \in 1 .. n - 1 : at[i] = p
    BY <2>1, <2>11
  <2>15. Picks(w, n - 1, at, s, T, T \ {x})
    BY <2>6, <2>7, <2>8, <2>9, <2>10, <2>13, <2>14 DEF n, Picks
  <2>16. ListOf(w, T \ {x}) /\ Len(w) = n - 1
    BY <2>15, ListPicked, Zenon
  <2>17. \A i \in 1 .. n : s[i] # x => \E j \in 1 .. Len(w) : j <= i /\ w[j] = s[i]
    <3> SUFFICES ASSUME NEW i \in 1 .. n, s[i] # x
                 PROVE  \E j \in 1 .. n - 1 : j <= i /\ w[j] = s[i]
      BY <2>16
    <3>1. PICK j \in 1 .. n - 1 : j <= i /\ at[j] = i
      BY <2>1, <2>11
    <3> QED
      BY <2>10, <3>1
  <2>18. \A i, j \in 1 .. n - 1 : i < j => Before(s, w[i], w[j])
    <3> SUFFICES ASSUME NEW i \in 1 .. n - 1, NEW j \in 1 .. n - 1, i < j
                 PROVE  Before(s, w[i], w[j])
      OBVIOUS
    <3>1. at[i] \in 1 .. n /\ at[j] \in 1 .. n /\ at[i] < at[j] /\ s[at[i]] = w[i] /\ s[at[j]] = w[j]
      BY <2>8, <2>10, <2>12
    <3> QED
      BY <3>1, Zenon DEF Before, n
  <2> QED
    BY <2>16, <2>17, <2>18, Zenon DEF w, n, NoLater, KeepsOrder
<1> QED
  BY <1>2, <1>3

\* The places of a list a step picks.
LEMMA ListAt ==
  ASSUME NEW T, NEW s, ListOf(s, T), NEW K, K \subseteq 1 .. Len(s)
  PROVE  ListOf(ElementsAt(s, K), {s[p] : p \in K})
<1> DEFINE e == ElementsAt(s, K)
<1>1. s \in Seq(T) /\ IsInjective(s)
  BY DEF ListOf
<1>2. e \in Seq(T) /\ IsInjective(e) /\ Elements(e) = {s[p] : p \in K}
  BY <1>1, ElementsAtDistinct
<1>3. e \in Seq(Elements(e))
  <2>1. \A i \in 1 .. Len(e) : e[i] \in Elements(e)
    BY DEF Elements
  <2> HIDE DEF e
  <2> QED
    BY <1>2, <2>1
<1> QED
  BY <1>2, <1>3 DEF ListOf

\* The first components of a list of pairs that differ there.
LEMMA ListFirsts ==
  ASSUME NEW T, NEW s, ListOf(s, T), \A d, e \in T : d[1] = e[1] => d = e
  PROVE  ListOf([i \in 1 .. Len(s) |-> s[i][1]], {e[1] : e \in T})
<1> DEFINE w == [i \in 1 .. Len(s) |-> s[i][1]]
           F == {e[1] : e \in T}
<1>1. /\ Len(s) \in Nat
      /\ \A i \in 1 .. Len(s) : s[i] \in T
      /\ \A i, j \in 1 .. Len(s) : s[i] = s[j] => i = j
      /\ \A x \in T : \E i \in 1 .. Len(s) : s[i] = x
  BY ListPlaces, Zenon
<1>2. \A i \in 1 .. Len(s) : s[i][1] \in F
  BY <1>1, Zenon
<1>3. w \in [1 .. Len(s) -> F]
  BY <1>2, Zenon
<1>4. \A i \in 1 .. Len(s) : w[i] = s[i][1]
  OBVIOUS
<1> HIDE DEF w
<1>5. \A i, j \in 1 .. Len(s) : w[i] = w[j] => i = j
  <2> SUFFICES ASSUME NEW i \in 1 .. Len(s), NEW j \in 1 .. Len(s), w[i] = w[j]
               PROVE  i = j
    BY Zenon
  <2>1. s[i] = s[j]
    BY <1>1, <1>4
  <2> QED
    BY <1>1, <2>1, Zenon
<1>6. \A x \in F : \E i \in 1 .. Len(s) : w[i] = x
  <2> TAKE x \in F
  <2>1. PICK e \in T : x = e[1]
    BY Zenon
  <2>2. PICK i \in 1 .. Len(s) : s[i] = e
    BY <1>1, Zenon
  <2> QED
    BY <1>4, <2>1, <2>2, Zenon
<1>7. ListOf(w, F)
  BY <1>1, <1>3, <1>5, <1>6, PlacesList, Zenon
<1> QED
  BY <1>7 DEF w

\* The free list of a new planner.
LEMMA ListDown ==
  ASSUME NEW n \in Nat
  PROVE  ListOf(Reverse([i \in 1 .. n |-> i]), 1 .. n)
<1> DEFINE s == [i \in 1 .. n |-> i]
           w == Reverse(s)
<1>1. s \in Seq(1 .. n) /\ Len(s) = n
  OBVIOUS
<1>2. w \in Seq(1 .. n) /\ Len(w) = n /\ \A i \in 1 .. n : w[i] = n - i + 1
  BY <1>1 DEF Reverse
<1> HIDE DEF w
<1>3. \A x \in 1 .. n : n - x + 1 \in 1 .. Len(w) /\ w[n - x + 1] = x
  BY <1>2
<1>4. \A i, j \in 1 .. n : w[i] = w[j] => i = j
  BY <1>2
<1>5. \A x \in 1 .. n : \E i \in 1 .. n : w[i] = x
  BY <1>2, <1>3, Zenon
<1>6. w \in [1 .. n -> 1 .. n]
  BY <1>2, LenProperties
<1>7. ListOf(w, 1 .. n)
  BY <1>4, <1>5, <1>6, PlacesList, Zenon
<1> QED
  BY <1>7 DEF w

\* The elements of a longer list.
LEMMA AppendElements ==
  ASSUME NEW T, NEW s \in Seq(T), NEW x
  PROVE  \A e \in Elements(Append(s, x)) : e \in Elements(s) \/ e = x
<1> SUFFICES ASSUME NEW e \in Elements(Append(s, x))
             PROVE  e \in Elements(s) \/ e = x
  OBVIOUS
<1>1. /\ Len(Append(s, x)) = Len(s) + 1 /\ Len(s) \in Nat /\ Append(s, x)[Len(s) + 1] = x
      /\ \A i \in 1 .. Len(s) : Append(s, x)[i] = s[i]
  <2>1. s \in Seq(T \cup {x}) /\ x \in T \cup {x}
    OBVIOUS
  <2> QED
    BY <2>1
<1> DEFINE w == Append(s, x)
<1>2. PICK i \in 1 .. Len(w) : e = w[i]
  BY Zenon DEF Elements
<1> HIDE DEF w
<1>3. Len(w) = Len(s) + 1 /\ w[Len(s) + 1] = x /\ \A j \in 1 .. Len(s) : w[j] = s[j]
  BY <1>1 DEF w
<1>4. i \in 1 .. Len(s) \/ i = Len(s) + 1
  BY <1>1, <1>3
<1> QED
  BY <1>2, <1>3, <1>4, Zenon DEF Elements

-----------------------------------------------------------------------------
(* Walks through a left fold. *)

\* f walks from base with the steps G, and is in R[i] after i of them.
Walks(f, n, base, G, R) ==
  /\ f = [i \in 0 .. n |-> IF i = 0 THEN base ELSE G[i][f[i - 1]]]
  /\ \A i \in 0 .. n : f[i] \in R[i]

\* A walk of n steps exists when no step leaves the sets it should stay in.
LEMMA WalkExists ==
  ASSUME NEW n \in Nat, NEW R, NEW G, NEW base, base \in R[0],
         \A i \in 1 .. n : \A x \in R[i - 1] : G[i][x] \in R[i]
  PROVE  \E f : Walks(f, n, base, G, R)
<1> DEFINE Far == {k \in 0 .. n : ~ \E f : Walks(f, k, base, G, R)}
<1>1. n \in 0 .. n
  OBVIOUS
<1> SUFFICES Far = {}
  BY <1>1, Zenon
<1> SUFFICES ASSUME Far # {}
             PROVE  FALSE
  OBVIOUS
<1> DEFINE m == Min(Far)
<1>2. Far \subseteq Nat
  OBVIOUS
<1>3. m \in Far /\ \A k \in Far : m <= k
  BY <1>2, MinIsLeast, Zenon
<1>4. m \in Nat /\ m \in 0 .. n /\ ~ \E f : Walks(f, m, base, G, R)
  BY <1>2, <1>3, Zenon
<1> HIDE DEF m, Far
<1>5. m # 0
  <2> DEFINE f == [i \in 0 .. 0 |-> base]
  <2>1. Walks(f, 0, base, G, R)
    BY DEF Walks
  <2> QED
    BY <1>4, <2>1
<1>6. m - 1 \in 0 .. n /\ ~ (m <= m - 1)
  BY <1>4, <1>5
<1>7. PICK f : Walks(f, m - 1, base, G, R)
  BY <1>3, <1>6 DEF Far
<1> DEFINE g == [i \in 0 .. m |-> IF i = m THEN G[m][f[m - 1]] ELSE f[i]]
<1>8. /\ \A i \in 0 .. m - 1 : f[i] \in R[i] /\ f[i] = IF i = 0 THEN base ELSE G[i][f[i - 1]]
  BY <1>7, Zenon DEF Walks
<1>9. \A i \in 0 .. m : i # m => i \in 0 .. m - 1
  BY <1>4
<1>10. \A i \in 0 .. m : g[i] \in R[i] /\ g[i] = IF i = 0 THEN base ELSE G[i][g[i - 1]]
  <2> TAKE i \in 0 .. m
  <2>1. CASE i = m
    <3>1. g[i] = G[m][f[m - 1]] /\ m - 1 \in 0 .. m /\ m - 1 # m /\ m \in 1 .. n /\ m - 1 \in 0 .. m - 1
      BY <1>4, <1>5, <2>1
    <3>2. g[m - 1] = f[m - 1] /\ f[m - 1] \in R[m - 1]
      BY <1>8, <3>1
    <3> QED
      BY <1>5, <2>1, <3>1, <3>2
  <2>2. CASE i # m
    <3>1. i \in 0 .. m - 1 /\ g[i] = f[i]
      BY <1>9, <2>2
    <3>2. i # 0 => i - 1 \in 0 .. m /\ i - 1 # m
      BY <1>4
    <3>3. i # 0 => g[i - 1] = f[i - 1]
      BY <3>2
    <3> QED
      BY <1>8, <3>1, <3>3
  <2> QED
    BY <2>1, <2>2
<1>11. g = [i \in 0 .. m |-> IF i = 0 THEN base ELSE G[i][g[i - 1]]]
  <2>1. g = [i \in 0 .. m |-> g[i]]
    OBVIOUS
  <2> HIDE DEF g
  <2> QED
    BY <1>10, <2>1
<1> HIDE DEF g
<1>12. Walks(g, m, base, G, R)
  BY <1>10, <1>11, Zenon DEF Walks
<1> QED
  BY <1>4, <1>12, Zenon

\* Whatever starts in R[0] and moves from each R[i - 1] into R[i] ends in R[n].
LEMMA WalkStays ==
  ASSUME NEW n \in Nat, NEW R, NEW f, f[0] \in R[0],
         \A i \in 1 .. n : f[i - 1] \in R[i - 1] => f[i] \in R[i]
  PROVE  f[n] \in R[n]
<1> DEFINE Out == {k \in 0 .. n : f[k] \notin R[k]}
<1> SUFFICES ASSUME Out # {}
             PROVE  FALSE
  OBVIOUS
<1> DEFINE m == Min(Out)
<1>1. Out \subseteq Nat
  OBVIOUS
<1>2. m \in Out /\ \A k \in Out : m <= k
  BY <1>1, MinIsLeast, Zenon
<1>3. m \in Nat /\ m \in 0 .. n /\ f[m] \notin R[m]
  BY <1>1, <1>2, Zenon
<1> HIDE DEF m
<1>4. m # 0
  BY <1>3
<1>5. m \in 1 .. n /\ m - 1 \in 0 .. n /\ ~ (m <= m - 1)
  BY <1>3, <1>4
<1>6. f[m - 1] \in R[m - 1]
  BY <1>2, <1>5
<1> QED
  BY <1>3, <1>5, <1>6

\* Order kept twice is kept.
LEMMA OrderKept ==
  ASSUME NEW q, NEW w, NEW x, KeepsOrder(q, w), KeepsOrder(w, x)
  PROVE  KeepsOrder(q, x)
<1> SUFFICES ASSUME NEW i \in 1 .. Len(x), NEW j \in 1 .. Len(x), i < j
             PROVE  Before(q, x[i], x[j])
  BY Zenon DEF KeepsOrder
<1>1. Before(w, x[i], x[j])
  BY Zenon DEF KeepsOrder
<1>2. PICK a, b \in 1 .. Len(w) : a < b /\ w[a] = x[i] /\ w[b] = x[j]
  BY <1>1, Zenon DEF Before
<1>3. Before(q, w[a], w[b])
  BY <1>2, Zenon DEF KeepsOrder
<1> QED
  BY <1>2, <1>3, Zenon

\* The queue after the members of s have left it one by one.
LEMMA ListRemoveAll ==
  ASSUME NEW T, NEW queue, ListOf(queue, T), NEW S, NEW s \in Seq(S)
  PROVE  /\ ListOf(OneByOne(RemoveFirst, queue, s), T \ Elements(s))
         /\ KeepsOrder(queue, OneByOne(RemoveFirst, queue, s))
<1> DEFINE n     == Len(s)
           F     == CHOOSE f : f = [i \in 0 .. n |-> IF i = 0 THEN queue ELSE RemoveFirst(f[i - 1], s[i])]
           to(i) == T \ {s[j] : j \in 1 .. i}
           R     == [i \in 0 .. n |-> {q \in Seq(T) : ListOf(q, to(i)) /\ KeepsOrder(queue, q)}]
           G     == [i \in 1 .. n |-> [q \in R[i - 1] |-> RemoveFirst(q, s[i])]]
<1>1. OneByOne(RemoveFirst, queue, s) = F[n]
  BY DEF OneByOne
<1>2. n \in Nat /\ n \in 0 .. n /\ 0 \in 0 .. n /\ \A i \in 1 .. n : i \in 0 .. n /\ i - 1 \in 0 .. n
  OBVIOUS
<1>3. queue \in R[0]
  <2>1. to(0) = T
    OBVIOUS
  <2>2. KeepsOrder(queue, queue)
    BY Zenon DEF KeepsOrder, Before
  <2> QED
    BY <1>2, <2>1, <2>2, Zenon DEF ListOf
<1>4. \A i \in 1 .. n : \A q \in R[i - 1] : RemoveFirst(q, s[i]) \in R[i]
  <2> SUFFICES ASSUME NEW i \in 1 .. n, NEW q \in R[i - 1]
               PROVE  RemoveFirst(q, s[i]) \in R[i]
    OBVIOUS
  <2>1. ListOf(q, to(i - 1)) /\ KeepsOrder(queue, q)
    BY <1>2, Zenon
  <2>2. ListOf(RemoveFirst(q, s[i]), to(i - 1) \ {s[i]}) /\ KeepsOrder(q, RemoveFirst(q, s[i]))
    BY <2>1, ListRemove, Zenon
  <2>3. to(i - 1) \ {s[i]} = to(i)
    BY <1>2
  <2>4. ListOf(RemoveFirst(q, s[i]), to(i))
    BY <2>2, <2>3, Zenon
  <2>5. RemoveFirst(q, s[i]) \in Seq(to(i)) /\ to(i) \subseteq T
    BY <2>4, Zenon DEF ListOf
  <2> HIDE DEF to
  <2>6. RemoveFirst(q, s[i]) \in Seq(T)
    BY <2>5
  <2>7. KeepsOrder(queue, RemoveFirst(q, s[i]))
    BY <2>1, <2>2, OrderKept, Zenon
  <2> QED
    BY <1>2, <2>4, <2>6, <2>7, Zenon
<1>5. \A i \in 1 .. n : \A q \in R[i - 1] : G[i][q] = RemoveFirst(q, s[i])
  BY Zenon
<1> HIDE DEF R, G, n
<1>6. PICK f : Walks(f, n, queue, G, R)
  BY <1>2, <1>3, <1>4, <1>5, WalkExists, Zenon
<1>7. f = [i \in 0 .. n |-> IF i = 0 THEN queue ELSE RemoveFirst(f[i - 1], s[i])]
  BY <1>2, <1>5, <1>6 DEF Walks
<1>8. F = [i \in 0 .. n |-> IF i = 0 THEN queue ELSE RemoveFirst(F[i - 1], s[i])]
  BY <1>7, Zenon
<1> HIDE DEF F
<1>9. F[0] = queue /\ \A i \in 1 .. n : F[i] = RemoveFirst(F[i - 1], s[i])
  BY <1>2, <1>8
<1>10. F[n] \in R[n]
  <2>1. \A i \in 1 .. n : F[i - 1] \in R[i - 1] => F[i] \in R[i]
    BY <1>4, <1>9
  <2>2. F[0] \in R[0]
    BY <1>3, <1>9
  <2> QED
    BY <1>2, <2>1, <2>2, WalkStays, Zenon
<1>11. ListOf(F[n], to(n)) /\ KeepsOrder(queue, F[n])
  BY <1>2, <1>10 DEF R
<1> QED
  BY <1>1, <1>11, Zenon DEF Elements, n

-----------------------------------------------------------------------------
(* Whole blocks of tokens. *)

LEMMA WholeBlocks ==
  ASSUME NEW n \in Int
  PROVE  /\ n \div BlockSize \in Int
         /\ n \in Nat => n \div BlockSize \in Nat /\ (n \div BlockSize) * BlockSize <= n
  BY CacheAssumption, SMT

LEMMA Times ==
  ASSUME NEW a \in Nat, NEW b \in Nat
  PROVE  /\ a * BlockSize \in Nat
         /\ a <= b => a * BlockSize <= b * BlockSize
         /\ a * BlockSize = b * BlockSize => a = b
         /\ a # 0 => a * BlockSize # 0
  BY CacheAssumption, SMT

-----------------------------------------------------------------------------
(* A cache that is in order. *)

\* The records a cache can be, over tokens Tok.
Caches(Tok) ==
  [ref_cnt    : [Blocks -> Nat],
   block_hash : [Blocks -> Seq(Tok)],
   free       : Seq(Blocks),
   index      : SUBSET (Seq(Tok) \X Blocks),
   blocks     : [Requests -> Seq(Blocks)],
   num_cached : [Requests -> Nat],
   hashes     : [Requests -> Seq(Seq(Tok))],
   committed  : [Requests -> Int],
   mapped     : [Requests -> Nat]]

HoldersOf(blocks, b) == {r \in Requests : b \in Elements(blocks[r])}

\* Every block is counted once per holder, and the free queue lists the rest.
PoolInOrder(ref_cnt, free, blocks) ==
  /\ \A r \in Requests : IsInjective(blocks[r])
  /\ \A b \in Blocks : ref_cnt[b] = Cardinality(HoldersOf(blocks, b))
  /\ ListOf(free, {b \in Blocks : ref_cnt[b] = 0})

\* The index and the blocks' own hashes say the same.
IndexInOrder(index, block_hash) ==
  \A e \in index : block_hash[e[2]] = e[1] /\ e[1] # NoHash

\* The i-th hash of a chain digests i whole blocks of tokens.
ChainInOrder(chain) == \A i \in 1 .. Len(chain) : Len(chain[i]) = i * BlockSize

InOrder(c, Tok) ==
  /\ c \in Caches(Tok)
  /\ PoolInOrder(c.ref_cnt, c.free, c.blocks)
  /\ IndexInOrder(c.index, c.block_hash)
  /\ \A r \in Requests : ChainInOrder(c.hashes[r])

\* d has the pool of c: only hashes, cursors and the index may differ.
SamePool(c, d) == d.ref_cnt = c.ref_cnt /\ d.free = c.free /\ d.blocks = c.blocks

LEMMA ExtendInOrder ==
  ASSUME NEW Tok, NEW chain \in Seq(Seq(Tok)), NEW tokens \in Seq(Tok), ChainInOrder(chain)
  PROVE  /\ ExtendHashes(chain, tokens) \in Seq(Seq(Tok))
         /\ ChainInOrder(ExtendHashes(chain, tokens))
<1> DEFINE done == Len(chain)
           whole == Len(tokens) \div BlockSize
           n    == Larger(done, whole)
           parent == IF done = 0 THEN <<>> ELSE Last(chain)
           at(j) == IF j <= done THEN chain[j]
                    ELSE parent \o SubSeq(tokens, done * BlockSize + 1, j * BlockSize)
           w == ExtendHashes(chain, tokens)
<1>1. w = [j \in 1 .. n |-> at(j)]
  BY Zenon DEF ExtendHashes
<1>2. done \in Nat /\ Len(tokens) \in Nat /\ BlockSize \in Nat \ {0}
  BY CacheAssumption
<1>3. whole \in Nat /\ whole * BlockSize <= Len(tokens)
  BY <1>2, WholeBlocks
<1>4. n \in Nat /\ \A j \in 1 .. n : j \in Nat /\ (j <= done \/ j <= whole)
  BY <1>2, <1>3 DEF Larger
<1>5. parent \in Seq(Tok) /\ Len(parent) = done * BlockSize
  <2>1. CASE done = 0
    BY <1>2, <2>1
  <2>2. CASE done # 0
    <3>1. parent = chain[done] /\ done \in 1 .. done
      BY <1>2, <2>2 DEF Last
    <3> QED
      BY <3>1 DEF ChainInOrder
  <2> QED
    BY <2>1, <2>2
<1> HIDE DEF done, whole, n, parent
<1>6. \A j \in 1 .. n : at(j) \in Seq(Tok) /\ Len(at(j)) = j * BlockSize
  <2> TAKE j \in 1 .. n
  <2>1. CASE j <= done
    <3>1. j \in 1 .. Len(chain)
      BY <1>2, <1>4, <2>1 DEF done
    <3> QED
      BY <2>1, <3>1 DEF ChainInOrder
  <2>2. CASE ~ (j <= done)
    <3> DEFINE a == done * BlockSize
               b == j * BlockSize
    <3>1. a \in Nat /\ b \in Nat /\ a <= b /\ b <= Len(tokens)
      <4>1. j \in Nat /\ done <= j /\ j <= whole
        BY <1>2, <1>4, <2>2
      <4>2. b <= whole * BlockSize
        BY <1>3, <4>1, Times
      <4>3. a <= b /\ a \in Nat /\ b \in Nat /\ whole * BlockSize \in Nat
        BY <1>2, <1>3, <4>1, Times
      <4> DEFINE z == whole * BlockSize
      <4>4. z \in Nat /\ z <= Len(tokens) /\ b <= z
        BY <1>3, <4>2, <4>3
      <4> HIDE DEF a, b, z
      <4> QED
        BY <1>2, <4>3, <4>4
    <3>2. at(j) = parent \o SubSeq(tokens, a + 1, b) /\ Len(parent) = a
      BY <1>5, <2>2
    <3> HIDE DEF a, b
    <3> DEFINE t == SubSeq(tokens, a + 1, b)
    <3>3. t \in Seq(Tok) /\ Len(t) = b - a
      BY <3>1
    <3> HIDE DEF at, t
    <3>4. at(j) \in Seq(Tok) /\ Len(at(j)) = Len(parent) + Len(t)
      BY <1>5, <3>2, <3>3, ConcatProperties, Zenon DEF t
    <3>5. Len(at(j)) = b
      BY <3>1, <3>2, <3>3, <3>4
    <3> QED
      BY <3>4, <3>5 DEF b
  <2> QED
    BY <2>1, <2>2
<1> HIDE DEF at
<1>7. w \in Seq(Seq(Tok)) /\ Len(w) = n
  BY <1>1, <1>4, <1>6
<1> QED
  BY <1>1, <1>6, <1>7 DEF ChainInOrder

\* track and observe extend a chain and change nothing else.
LEMMA TrackInOrder ==
  ASSUME NEW Tok, NEW c, InOrder(c, Tok), NEW r \in Requests, NEW tokens \in Seq(Tok)
  PROVE  InOrder(Track(c, r, tokens), Tok) /\ SamePool(c, Track(c, r, tokens))
<1> DEFINE d == Track(c, r, tokens)
           x == ExtendHashes(c.hashes[r], tokens)
<1>1. c \in Caches(Tok) /\ c.hashes[r] \in Seq(Seq(Tok)) /\ ChainInOrder(c.hashes[r])
  BY DEF InOrder, Caches
<1>2. x \in Seq(Seq(Tok)) /\ ChainInOrder(x)
  BY <1>1, ExtendInOrder
<1> HIDE DEF x
<1>3. d = [c EXCEPT !.hashes = [c.hashes EXCEPT ![r] = x]]
  BY DEF Track, x
<1> DEFINE y == [c.hashes EXCEPT ![r] = x]
<1>4. y \in [Requests -> Seq(Seq(Tok))] /\ \A q \in Requests : y[q] = IF q = r THEN x ELSE c.hashes[q]
  BY <1>1, <1>2 DEF Caches
<1> HIDE DEF d, y
<1>5. d = [c EXCEPT !.hashes = y]
  BY <1>3 DEF y
<1>6. /\ d \in Caches(Tok) /\ d.hashes = y
      /\ d.ref_cnt = c.ref_cnt /\ d.free = c.free /\ d.blocks = c.blocks
      /\ d.index = c.index /\ d.block_hash = c.block_hash
  BY <1>1, <1>4, <1>5 DEF Caches
<1>7. \A q \in Requests : ChainInOrder(d.hashes[q])
  <2>1. \A q \in Requests : d.hashes[q] = IF q = r THEN x ELSE c.hashes[q]
    BY <1>6, <1>4
  <2> QED
    BY <1>2, <2>1 DEF InOrder
<1>8. InOrder(d, Tok)
  BY <1>6, <1>7, Zenon DEF InOrder
<1> QED
  BY <1>6, <1>8, Zenon DEF SamePool, d

\* take_table_writes moves a cursor.
LEMMA TakeTableWritesInOrder ==
  ASSUME NEW Tok, NEW c, InOrder(c, Tok), NEW r \in Requests
  PROVE  InOrder(TakeTableWrites(c, r), Tok) /\ SamePool(c, TakeTableWrites(c, r))
<1> DEFINE d == TakeTableWrites(c, r)
<1>1. c \in Caches(Tok) /\ Len(c.blocks[r]) \in Nat
  BY DEF InOrder, Caches
<1>2. /\ d \in Caches(Tok) /\ d.hashes = c.hashes
      /\ d.ref_cnt = c.ref_cnt /\ d.free = c.free /\ d.blocks = c.blocks
      /\ d.index = c.index /\ d.block_hash = c.block_hash
  BY <1>1 DEF Caches, TakeTableWrites
<1> HIDE DEF d
<1> QED
  BY <1>2, Zenon DEF InOrder, SamePool, d

\* A new pool is in order, whatever the order of its queue.
LEMMA NewInOrder ==
  ASSUME NEW Tok, NEW queue, ListOf(queue, Blocks)
  PROVE  InOrder(NewCache(queue), Tok) /\ NewCache(queue).blocks = [r \in Requests |-> <<>>]
<1> DEFINE d == NewCache(queue)
<1>1. <<>> \in Seq(Tok) /\ <<>> \in Seq(Blocks) /\ <<>> \in Seq(Seq(Tok)) /\ queue \in Seq(Blocks)
  BY DEF ListOf
<1>2. /\ d \in Caches(Tok)
      /\ d.ref_cnt = [b \in Blocks |-> 0] /\ d.free = queue
      /\ d.blocks = [r \in Requests |-> <<>>] /\ d.hashes = [r \in Requests |-> <<>>]
      /\ d.index = {}
  BY <1>1 DEF NewCache, Caches, NoHash
<1> HIDE DEF d
<1>3. \A b \in Blocks : HoldersOf(d.blocks, b) = {}
  BY <1>2 DEF HoldersOf, Elements
<1>4. PoolInOrder(d.ref_cnt, d.free, d.blocks)
  <2>1. {b \in Blocks : d.ref_cnt[b] = 0} = Blocks
    BY <1>2
  <2>2. \A r \in Requests : IsInjective(d.blocks[r])
    BY <1>2 DEF IsInjective
  <2>3. \A b \in Blocks : d.ref_cnt[b] = Cardinality(HoldersOf(d.blocks, b))
    BY <1>2, <1>3, FS_EmptySet
  <2> QED
    BY <1>2, <2>1, <2>2, <2>3, Zenon DEF PoolInOrder
<1>5. IndexInOrder(d.index, d.block_hash) /\ \A r \in Requests : ChainInOrder(d.hashes[r])
  BY <1>2 DEF IndexInOrder, ChainInOrder
<1> QED
  BY <1>2, <1>4, <1>5, Zenon DEF InOrder, d

\* cache_full_blocks gives each new block the hash of its place.
LEMMA IndexBlocksInOrder ==
  ASSUME NEW Tok, NEW c, InOrder(c, Tok), NEW r \in Requests, NEW K,
         K \subseteq 1 .. Len(c.blocks[r]), K \subseteq 1 .. Len(c.hashes[r])
  PROVE  InOrder(IndexBlocks(c, r, K), Tok) /\ SamePool(c, IndexBlocks(c, r, K))
<1> DEFINE d   == IndexBlocks(c, r, K)
           own == c.blocks[r]
           ch  == c.hashes[r]
           new == {i \in K : EnableCaching /\ c.block_hash[own[i]] = NoHash}
           h   == [b \in Blocks |-> IF \E i \in new : own[i] = b
                                    THEN ch[CHOOSE i \in new : own[i] = b] ELSE c.block_hash[b]]
           x   == c.index \cup {<<ch[i], own[i]>> : i \in new}
<1>1. /\ c \in Caches(Tok) /\ own \in Seq(Blocks) /\ ch \in Seq(Seq(Tok)) /\ ChainInOrder(ch)
      /\ IsInjective(own) /\ c.block_hash \in [Blocks -> Seq(Tok)] /\ c.index \subseteq Seq(Tok) \X Blocks
      /\ IndexInOrder(c.index, c.block_hash)
  BY DEF InOrder, Caches, PoolInOrder
<1>2. d = [c EXCEPT !.block_hash = h, !.index = x]
  BY <1>1 DEF IndexBlocks, Caches
<1>3. \A i \in new : own[i] \in Blocks /\ ch[i] \in Seq(Tok) /\ ch[i] # NoHash
  <2> TAKE i \in new
  <2>1. i \in 1 .. Len(own) /\ i \in 1 .. Len(ch)
    OBVIOUS
  <2>2. own[i] \in Blocks /\ ch[i] \in Seq(Tok)
    BY <1>1, <2>1
  <2>3. Len(ch[i]) = i * BlockSize /\ i * BlockSize # 0
    BY <1>1, <2>1, Times DEF ChainInOrder
  <2> QED
    BY <2>2, <2>3 DEF NoHash
<1>4. \A i \in new : h[own[i]] = ch[i]
  <2> TAKE i \in new
  <2> DEFINE k == CHOOSE j \in new : own[j] = own[i]
  <2>1. k \in new /\ own[k] = own[i]
    OBVIOUS
  <2>2. k \in DOMAIN own /\ i \in DOMAIN own
    <3>1. k \in 1 .. Len(own) /\ i \in 1 .. Len(own)
      BY <2>1, Zenon
    <3>2. DOMAIN own = 1 .. Len(own)
      BY <1>1
    <3> QED
      BY <3>1, <3>2, Zenon
  <2>3. k = i
    BY <1>1, <2>1, <2>2 DEF IsInjective
  <2> QED
    BY <1>3, <2>3
<1>5. \A b \in Blocks : (~ \E i \in new : own[i] = b) => h[b] = c.block_hash[b]
  OBVIOUS
<1>6. h \in [Blocks -> Seq(Tok)]
  <2>1. \A b \in Blocks : h[b] \in Seq(Tok)
    BY <1>1, <1>3, <1>4, <1>5
  <2> QED
    BY <2>1
<1>7. x \subseteq Seq(Tok) \X Blocks
  BY <1>1, <1>3
<1>8. IndexInOrder(x, h)
  <2> SUFFICES ASSUME NEW e \in x
               PROVE  h[e[2]] = e[1] /\ e[1] # NoHash
    BY DEF IndexInOrder
  <2>1. CASE e \in c.index
    <3>1. e[2] \in Blocks /\ c.block_hash[e[2]] = e[1] /\ e[1] # NoHash
      BY <1>1, <2>1 DEF IndexInOrder
    <3>2. ~ \E i \in new : own[i] = e[2]
      BY <3>1
    <3> QED
      BY <1>5, <3>1, <3>2
  <2>2. CASE e \in {<<ch[i], own[i]>> : i \in new}
    <3>1. PICK i \in new : e = <<ch[i], own[i]>>
      BY <2>2, Zenon
    <3>2. e[1] = ch[i] /\ e[2] = own[i]
      BY <3>1
    <3> HIDE DEF h
    <3>3. ch[i] # NoHash /\ h[own[i]] = ch[i]
      BY <1>3, <1>4
    <3> QED
      BY <3>2, <3>3
  <2> QED
    BY <2>1, <2>2
<1> HIDE DEF h, x
<1>9. /\ d \in Caches(Tok) /\ d.block_hash = h /\ d.index = x
      /\ d.ref_cnt = c.ref_cnt /\ d.free = c.free /\ d.blocks = c.blocks /\ d.hashes = c.hashes
  BY <1>1, <1>2, <1>6, <1>7 DEF Caches
<1> HIDE DEF d
<1> QED
  BY <1>8, <1>9, Zenon DEF InOrder, SamePool, d

\* commit indexes and moves cursors.
LEMMA CommitInOrder ==
  ASSUME NEW Tok, NEW c, InOrder(c, Tok), NEW r \in Requests, NEW n \in Int
  PROVE  InOrder(Commit(c, r, n), Tok) /\ SamePool(c, Commit(c, r, n))
<1> DEFINE d     == Commit(c, r, n)
           full  == Smaller(FullBlocks(n), Len(c.hashes[r]))
           start == c.num_cached[r]
           ready == full > start /\ Len(c.blocks[r]) >= full
           i     == IndexBlocks(c, r, start + 1 .. full)
           e     == IF ready THEN [i EXCEPT !.num_cached[r] = full] ELSE c
<1>1. CASE n <= c.committed[r]
  BY <1>1 DEF Commit, SamePool
<1>2. CASE ~ (n <= c.committed[r])
  <2>1. d = [e EXCEPT !.committed[r] = n]
    BY <1>2, Zenon DEF Commit
  <2>2. /\ c \in Caches(Tok) /\ start \in Nat /\ Len(c.blocks[r]) \in Nat /\ Len(c.hashes[r]) \in Nat
        /\ FullBlocks(n) \in Int
    <3>1. c \in Caches(Tok)
      BY DEF InOrder
    <3>2. FullBlocks(n) \in Int
      BY WholeBlocks DEF FullBlocks
    <3>3. start \in Nat /\ c.blocks[r] \in Seq(Blocks) /\ c.hashes[r] \in Seq(Seq(Tok))
      BY <3>1 DEF Caches
    <3>4. Len(c.blocks[r]) \in Nat /\ Len(c.hashes[r]) \in Nat
      BY <3>3
    <3> QED
      BY <3>1, <3>2, <3>3, <3>4
  <2>3. full \in Int /\ full <= Len(c.hashes[r])
    BY <2>2 DEF Smaller
  <2> HIDE DEF full, start
  <2>4. ready => full \in Nat /\ start + 1 .. full \subseteq 1 .. Len(c.blocks[r])
                 /\ start + 1 .. full \subseteq 1 .. Len(c.hashes[r])
    BY <2>2, <2>3
  <2>5. ready => InOrder(i, Tok) /\ SamePool(c, i)
    BY <2>4, IndexBlocksInOrder, Zenon
  <2> HIDE DEF i
  <2>6. InOrder(e, Tok) /\ SamePool(c, e)
    <3>1. CASE ready
      <4> DEFINE f == [i EXCEPT !.num_cached[r] = full]
      <4>1. i \in Caches(Tok) /\ full \in Nat
        BY <2>4, <2>5, <3>1 DEF InOrder
      <4>2. /\ f \in Caches(Tok) /\ f.hashes = i.hashes
            /\ f.ref_cnt = i.ref_cnt /\ f.free = i.free /\ f.blocks = i.blocks
            /\ f.index = i.index /\ f.block_hash = i.block_hash
        BY <4>1 DEF Caches
      <4> HIDE DEF f
      <4>3. InOrder(f, Tok) /\ SamePool(c, f)
        BY <2>5, <3>1, <4>2, Zenon DEF InOrder, SamePool
      <4> QED
        BY <3>1, <4>3, Zenon DEF f
    <3>2. CASE ~ ready
      BY <3>2 DEF SamePool
    <3> QED
      BY <3>1, <3>2
  <2> HIDE DEF e
  <2>7. /\ d \in Caches(Tok) /\ d.hashes = e.hashes
        /\ d.ref_cnt = e.ref_cnt /\ d.free = e.free /\ d.blocks = e.blocks
        /\ d.index = e.index /\ d.block_hash = e.block_hash
    <3> HIDE DEF d
    <3>1. e \in Caches(Tok)
      BY <2>6, Zenon DEF InOrder
    <3> DEFINE y == [e.committed EXCEPT ![r] = n]
    <3>2. y \in [Requests -> Int]
      BY <3>1 DEF Caches
    <3>3. d = [e EXCEPT !.committed = y]
      BY <2>1
    <3> HIDE DEF y
    <3> QED
      BY <3>1, <3>2, <3>3 DEF Caches
  <2> HIDE DEF d
  <2> QED
    BY <2>6, <2>7, Zenon DEF InOrder, SamePool, d
<1> QED
  BY <1>1, <1>2

-----------------------------------------------------------------------------
(* References taken and given back. *)

\* One holder more or less changes the count by one.
LEMMA OneHolderMore ==
  ASSUME NEW H \in SUBSET Requests, NEW r \in Requests, r \notin H
  PROVE  Cardinality(H) \in Nat /\ Cardinality(H \cup {r}) = Cardinality(H) + 1
  BY CacheAssumption, FS_Subset, FS_CardinalityType, FS_AddElement

LEMMA OneHolderLess ==
  ASSUME NEW H \in SUBSET Requests, NEW r \in H
  PROVE  /\ Cardinality(H) \in Nat /\ Cardinality(H) >= 1
         /\ Cardinality(H \ {r}) = Cardinality(H) - 1
<1>1. IsFiniteSet(H) /\ H # {}
  BY CacheAssumption, FS_Subset
<1>2. Cardinality(H) \in Nat /\ Cardinality(H \ {r}) = Cardinality(H) - 1 /\ Cardinality(H) # 0
  BY <1>1, FS_RemoveElement, FS_CardinalityType, FS_EmptySet
<1> QED
  BY <1>2

\* The holders of b once r has the list s.
LEMMA HoldersAfter ==
  ASSUME NEW blocks \in [Requests -> Seq(Blocks)], NEW r \in Requests, NEW s, NEW b
  PROVE  HoldersOf([blocks EXCEPT ![r] = s], b) =
           IF b \in Elements(s) THEN HoldersOf(blocks, b) \cup {r} ELSE HoldersOf(blocks, b) \ {r}
  BY DEF HoldersOf

\* A request that holds nothing takes the list s: its free members leave the
\* queue, and each gains a reference.
LEMMA PoolTakes ==
  ASSUME NEW ref_cnt \in [Blocks -> Nat], NEW free, NEW blocks \in [Requests -> Seq(Blocks)],
         PoolInOrder(ref_cnt, free, blocks), NEW r \in Requests, NEW s \in Seq(Blocks),
         IsInjective(s), Elements(s) \cap Elements(blocks[r]) = {}, NEW t \in Seq(Blocks),
         IsInjective(t), Elements(t) = Elements(blocks[r]) \cup Elements(s),
         NEW left, ListOf(left, {b \in Blocks : ref_cnt[b] = 0} \ Elements(s))
  PROVE  PoolInOrder([b \in Blocks |-> ref_cnt[b] + IF b \in Elements(s) THEN 1 ELSE 0], left,
                     [blocks EXCEPT ![r] = t])
<1> DEFINE new == [b \in Blocks |-> ref_cnt[b] + IF b \in Elements(s) THEN 1 ELSE 0]
           own == [blocks EXCEPT ![r] = t]
<1>1. \A b \in Blocks : new[b] = Cardinality(HoldersOf(own, b))
  <2> TAKE b \in Blocks
  <2>1. ref_cnt[b] = Cardinality(HoldersOf(blocks, b)) /\ HoldersOf(blocks, b) \in SUBSET Requests
    BY DEF PoolInOrder, HoldersOf
  <2>2. r \in HoldersOf(blocks, b) <=> b \in Elements(blocks[r])
    BY DEF HoldersOf
  <2>3. CASE b \in Elements(s)
    <3>1. HoldersOf(own, b) = HoldersOf(blocks, b) \cup {r} /\ r \notin HoldersOf(blocks, b)
      BY <2>2, <2>3, HoldersAfter
    <3>2. new[b] = ref_cnt[b] + 1
      BY <2>3
    <3> QED
      BY <2>1, <3>1, <3>2, OneHolderMore
  <2>4. CASE b \notin Elements(s)
    <3>1. HoldersOf(own, b) = HoldersOf(blocks, b)
      <4>1. HoldersOf(own, b) = IF b \in Elements(t) THEN HoldersOf(blocks, b) \cup {r}
                                ELSE HoldersOf(blocks, b) \ {r}
        BY HoldersAfter, Zenon
      <4>2. b \in Elements(t) <=> r \in HoldersOf(blocks, b)
        BY <2>2, <2>4, Zenon
      <4> QED
        BY <4>1, <4>2
    <3>2. new[b] = ref_cnt[b]
      BY <2>4
    <3> QED
      BY <2>1, <3>1, <3>2
  <2> QED
    BY <2>3, <2>4
<1>2. {b \in Blocks : new[b] = 0} = {b \in Blocks : ref_cnt[b] = 0} \ Elements(s)
  BY SMT
<1>3. \A q \in Requests : IsInjective(own[q])
  BY DEF PoolInOrder
<1> HIDE DEF new, own
<1>4. PoolInOrder(new, left, own)
  BY <1>1, <1>2, <1>3, Zenon DEF PoolInOrder
<1> QED
  BY <1>4 DEF new, own

\* A request gives back its list: what nobody else holds enters the queue.
LEMMA PoolGivesBack ==
  ASSUME NEW ref_cnt \in [Blocks -> Nat], NEW free, NEW blocks \in [Requests -> Seq(Blocks)],
         PoolInOrder(ref_cnt, free, blocks), NEW r \in Requests, NEW back,
         ListOf(back, {b \in Blocks : ref_cnt[b] = 0} \cup {b \in Elements(blocks[r]) : ref_cnt[b] = 1})
  PROVE  LET new == [b \in Blocks |-> ref_cnt[b] - IF b \in Elements(blocks[r]) THEN 1 ELSE 0]
         IN  /\ new \in [Blocks -> Nat]
             /\ PoolInOrder(new, back, [blocks EXCEPT ![r] = <<>>])
<1> DEFINE new == [b \in Blocks |-> ref_cnt[b] - IF b \in Elements(blocks[r]) THEN 1 ELSE 0]
           own == [blocks EXCEPT ![r] = <<>>]
<1>1. \A b \in Blocks : /\ new[b] \in Nat /\ new[b] = Cardinality(HoldersOf(own, b))
                        /\ b \in Elements(blocks[r]) => ref_cnt[b] >= 1 /\ new[b] = ref_cnt[b] - 1
                        /\ b \notin Elements(blocks[r]) => new[b] = ref_cnt[b]
  <2> TAKE b \in Blocks
  <2>1. /\ ref_cnt[b] = Cardinality(HoldersOf(blocks, b)) /\ HoldersOf(blocks, b) \in SUBSET Requests
        /\ ref_cnt[b] \in Nat
    BY DEF PoolInOrder, HoldersOf
  <2>2. r \in HoldersOf(blocks, b) <=> b \in Elements(blocks[r])
    BY DEF HoldersOf
  <2>3. HoldersOf(own, b) = HoldersOf(blocks, b) \ {r}
    <3>1. b \notin Elements(<<>>)
      BY DEF Elements
    <3>2. HoldersOf(own, b) = IF b \in Elements(<<>>) THEN HoldersOf(blocks, b) \cup {r}
                              ELSE HoldersOf(blocks, b) \ {r}
      BY HoldersAfter, Zenon
    <3> QED
      BY <3>1, <3>2, Zenon
  <2>4. CASE b \in Elements(blocks[r])
    <3>1. new[b] = ref_cnt[b] - 1
      BY <2>4
    <3> DEFINE H == HoldersOf(blocks, b)
    <3>2. Cardinality(H) >= 1 /\ Cardinality(H \ {r}) = Cardinality(H) - 1
      BY <2>1, <2>2, <2>4, OneHolderLess, Zenon
    <3> HIDE DEF H
    <3>3. ref_cnt[b] = Cardinality(H) /\ HoldersOf(own, b) = H \ {r}
      BY <2>1, <2>3 DEF H
    <3> HIDE DEF new, own
    <3> QED
      BY <2>1, <2>4, <3>1, <3>2, <3>3
  <2>5. CASE b \notin Elements(blocks[r])
    <3>1. new[b] = ref_cnt[b]
      BY <2>1, <2>5
    <3>2. HoldersOf(own, b) = HoldersOf(blocks, b)
      BY <2>2, <2>3, <2>5
    <3> HIDE DEF new, own
    <3> QED
      BY <2>1, <2>5, <3>1, <3>2
  <2> QED
    BY <2>4, <2>5
<1>2. new \in [Blocks -> Nat]
  BY <1>1
<1>3. Elements(blocks[r]) \subseteq Blocks
  BY DEF Elements
<1>4. \A q \in Requests : IsInjective(own[q])
  BY DEF PoolInOrder, IsInjective
<1> HIDE DEF new, own
<1>5. {b \in Blocks : new[b] = 0} =
        {b \in Blocks : ref_cnt[b] = 0} \cup {b \in Elements(blocks[r]) : ref_cnt[b] = 1}
  BY <1>1, <1>3
<1>6. PoolInOrder(new, back, own)
  BY <1>1, <1>4, <1>5, Zenon DEF PoolInOrder
<1> QED
  BY <1>2, <1>6 DEF new, own

\* The queue after free_blocks.
Entered(ref_cnt, block_hash, queue, s) ==
  LET enter(q, b) == IF ref_cnt[b] # 1 THEN q
                     ELSE IF block_hash[b] = NoHash THEN <<b>> \o q ELSE Append(q, b)
  IN  OneByOne(enter, queue, s)

\* The queue has the hash-less blocks before the cached ones.
HashlessFirst(queue, block_hash) ==
  \A i, j \in 1 .. Len(queue) : i < j /\ block_hash[queue[j]] = NoHash => block_hash[queue[i]] = NoHash

LEMMA OrderKeepsHashless ==
  ASSUME NEW queue, NEW w, NEW block_hash, HashlessFirst(queue, block_hash), KeepsOrder(queue, w)
  PROVE  HashlessFirst(w, block_hash)
<1> SUFFICES ASSUME NEW i \in 1 .. Len(w), NEW j \in 1 .. Len(w), i < j, block_hash[w[j]] = NoHash
             PROVE  block_hash[w[i]] = NoHash
  BY Zenon DEF HashlessFirst
<1>1. Before(queue, w[i], w[j])
  BY Zenon DEF KeepsOrder
<1>2. PICK a, b \in 1 .. Len(queue) : a < b /\ queue[a] = w[i] /\ queue[b] = w[j]
  BY <1>1, Zenon DEF Before
<1> QED
  BY <1>2, Zenon DEF HashlessFirst

\* One more at the end.
LEMMA OrderAppend ==
  ASSUME NEW S, NEW q \in Seq(S), NEW b
  PROVE  /\ \A x, y : Before(q, x, y) => Before(Append(q, b), x, y)
         /\ \A x \in Elements(q) : Before(Append(q, b), x, b)
         /\ \A h : HashlessFirst(q, h) /\ h[b] # NoHash => HashlessFirst(Append(q, b), h)
<1> DEFINE w == Append(q, b)
           n == Len(q)
<1>1. n \in Nat /\ Len(w) = n + 1 /\ w[n + 1] = b /\ \A i \in 1 .. n : w[i] = q[i]
  OBVIOUS
<1> HIDE DEF w
<1>2. \A i \in 1 .. n : i \in 1 .. Len(w) /\ i < n + 1 /\ n + 1 \in 1 .. Len(w)
  BY <1>1
<1>3. \A i \in 1 .. Len(w) : i # n + 1 => i \in 1 .. n
  BY <1>1
<1>4. \A i \in 1 .. Len(w) : ~ (n + 1 < i)
  BY <1>1
<1>5. ASSUME NEW x, NEW y, Before(q, x, y)
      PROVE  Before(w, x, y)
  <2>1. PICK i, j \in 1 .. n : i < j /\ q[i] = x /\ q[j] = y
    BY <1>5, Zenon DEF Before
  <2> QED
    BY <1>1, <1>2, <2>1, Zenon DEF Before
<1>6. ASSUME NEW x \in Elements(q)
      PROVE  Before(w, x, b)
  <2>1. PICK i \in 1 .. n : q[i] = x
    BY Zenon DEF Elements
  <2> QED
    BY <1>1, <1>2, <2>1, Zenon DEF Before
<1>7. ASSUME NEW h, HashlessFirst(q, h), h[b] # NoHash
      PROVE  HashlessFirst(w, h)
  <2> SUFFICES ASSUME NEW i \in 1 .. Len(w), NEW j \in 1 .. Len(w), i < j, h[w[j]] = NoHash
               PROVE  h[w[i]] = NoHash
    BY Zenon DEF HashlessFirst
  <2>1. j # n + 1 /\ i # n + 1
    BY <1>1, <1>4, <1>7, Zenon
  <2>2. i \in 1 .. n /\ j \in 1 .. n
    BY <1>3, <2>1, Zenon
  <2> QED
    BY <1>1, <1>7, <2>2, Zenon DEF HashlessFirst
<1> QED
  BY <1>5, <1>6, <1>7, Zenon DEF w

\* One more in front.
LEMMA OrderPush ==
  ASSUME NEW S, NEW q \in Seq(S), NEW b
  PROVE  /\ \A x, y : Before(q, x, y) => Before(<<b>> \o q, x, y)
         /\ \A h : HashlessFirst(q, h) /\ h[b] = NoHash => HashlessFirst(<<b>> \o q, h)
<1> DEFINE w == <<b>> \o q
           n == Len(q)
<1>1. n \in Nat /\ Len(w) = n + 1 /\ w[1] = b /\ \A i \in 1 .. n : w[i + 1] = q[i]
  OBVIOUS
<1> HIDE DEF w
<1>2. /\ \A i \in 1 .. n : i + 1 \in 1 .. Len(w)
      /\ \A i, j \in 1 .. n : i < j => i + 1 < j + 1
  BY <1>1
<1>3. \A i \in 1 .. Len(w) : i # 1 => i - 1 \in 1 .. n /\ w[i] = q[i - 1]
  <2> SUFFICES ASSUME NEW i \in 1 .. Len(w), i # 1
               PROVE  i - 1 \in 1 .. n /\ w[i] = q[i - 1]
    OBVIOUS
  <2>1. i - 1 \in 1 .. n /\ (i - 1) + 1 = i
    BY <1>1
  <2> QED
    BY <1>1, <2>1, Zenon
<1>4. ASSUME NEW x, NEW y, Before(q, x, y)
      PROVE  Before(w, x, y)
  <2>1. PICK i, j \in 1 .. n : i < j /\ q[i] = x /\ q[j] = y
    BY <1>4, Zenon DEF Before
  <2> QED
    BY <1>1, <1>2, <2>1, Zenon DEF Before
<1>5. ASSUME NEW h, HashlessFirst(q, h), h[b] = NoHash
      PROVE  HashlessFirst(w, h)
  <2> SUFFICES ASSUME NEW i \in 1 .. Len(w), NEW j \in 1 .. Len(w), i < j, h[w[j]] = NoHash
               PROVE  h[w[i]] = NoHash
    BY Zenon DEF HashlessFirst
  <2>1. CASE i = 1
    BY <1>1, <1>5, <2>1, Zenon
  <2>2. CASE i # 1
    <3>1. j # 1 /\ i - 1 < j - 1
      BY <1>1, <2>2
    <3> QED
      BY <1>3, <1>5, <2>2, <3>1, Zenon DEF HashlessFirst
  <2> QED
    BY <2>1, <2>2
<1> QED
  BY <1>4, <1>5, Zenon DEF w

\* How q, the queue once the first n members of s have entered, is ordered:
\* the blocks that were in the queue keep their order, and a cached block is
\* behind them and behind those that entered before it.
EntryOrder(q, n, queue, s, T, ref_cnt, block_hash) ==
  /\ HashlessFirst(queue, block_hash) => HashlessFirst(q, block_hash)
  /\ \A x, y \in T : Before(queue, x, y) => Before(q, x, y)
  /\ \A j \in 1 .. n : ref_cnt[s[j]] = 1 /\ block_hash[s[j]] # NoHash =>
       /\ \A x \in T : Before(q, x, s[j])
       /\ \A i \in 1 .. j - 1 : ref_cnt[s[i]] = 1 => Before(q, s[i], s[j])

LEMMA EntryStep ==
  ASSUME NEW S, NEW q \in Seq(S), NEW n \in Nat, NEW queue, NEW s, NEW T, NEW ref_cnt, NEW block_hash,
         EntryOrder(q, n, queue, s, T, ref_cnt, block_hash), T \subseteq Elements(q),
         \A i \in 1 .. n : ref_cnt[s[i]] = 1 => s[i] \in Elements(q)
  PROVE  EntryOrder(IF ref_cnt[s[n + 1]] # 1 THEN q
                    ELSE IF block_hash[s[n + 1]] = NoHash THEN <<s[n + 1]>> \o q ELSE Append(q, s[n + 1]),
                    n + 1, queue, s, T, ref_cnt, block_hash)
<1> DEFINE b == s[n + 1]
           w == IF ref_cnt[b] # 1 THEN q ELSE IF block_hash[b] = NoHash THEN <<b>> \o q ELSE Append(q, b)
<1>1. \A x, y : Before(q, x, y) => Before(w, x, y)
  BY OrderAppend, OrderPush, Zenon
<1>2. HashlessFirst(q, block_hash) => HashlessFirst(w, block_hash)
  BY OrderAppend, OrderPush, Zenon
<1>3. ref_cnt[b] = 1 /\ block_hash[b] # NoHash => \A x \in Elements(q) : Before(w, x, b)
  BY OrderAppend, Zenon
<1>4. \A j \in 1 .. n + 1 : j \in 1 .. n \/ j = n + 1
  OBVIOUS
<1>5. \A i \in 1 .. (n + 1) - 1 : i \in 1 .. n
  OBVIOUS
<1> HIDE DEF w
<1>6. ASSUME NEW j \in 1 .. n + 1, ref_cnt[s[j]] = 1, block_hash[s[j]] # NoHash
      PROVE  /\ \A x \in T : Before(w, x, s[j])
             /\ \A i \in 1 .. j - 1 : ref_cnt[s[i]] = 1 => Before(w, s[i], s[j])
  <2>1. CASE j \in 1 .. n
    BY <1>1, <1>6, <2>1, Zenon DEF EntryOrder
  <2>2. CASE j = n + 1
    BY <1>3, <1>5, <1>6, <2>2, Zenon
  <2> QED
    BY <1>4, <2>1, <2>2, Zenon
<1>7. EntryOrder(w, n + 1, queue, s, T, ref_cnt, block_hash)
  BY <1>1, <1>2, <1>6, Zenon DEF EntryOrder
<1> QED
  BY <1>7 DEF w

\* What free_blocks does with a list of different blocks, none of them free:
\* those with one reference enter the queue.
LEMMA FreedEnter ==
  ASSUME NEW ref_cnt, NEW block_hash, NEW T, NEW queue, ListOf(queue, T),
         NEW U, NEW s, ListOf(s, U), U \cap T = {}
  PROVE  /\ ListOf(Entered(ref_cnt, block_hash, queue, s), T \cup {b \in U : ref_cnt[b] = 1})
         /\ EntryOrder(Entered(ref_cnt, block_hash, queue, s), Len(s), queue, s, T, ref_cnt, block_hash)
<1> DEFINE enter(q, b) == IF ref_cnt[b] # 1 THEN q
                          ELSE IF block_hash[b] = NoHash THEN <<b>> \o q ELSE Append(q, b)
           n     == Len(s)
           F     == CHOOSE f : f = [i \in 0 .. n |-> IF i = 0 THEN queue ELSE enter(f[i - 1], s[i])]
           to(i) == T \cup {b \in {s[j] : j \in 1 .. i} : ref_cnt[b] = 1}
           R     == [i \in 0 .. n |-> {q \in Seq(T \cup U) :
                      ListOf(q, to(i)) /\ EntryOrder(q, i, queue, s, T, ref_cnt, block_hash)}]
           G     == [i \in 1 .. n |-> [q \in R[i - 1] |-> enter(q, s[i])]]
<1>1. Entered(ref_cnt, block_hash, queue, s) = F[n]
  BY DEF Entered, OneByOne
<1>2. /\ n \in Nat /\ n \in 0 .. n /\ 0 \in 0 .. n /\ \A i \in 1 .. n : i \in 0 .. n /\ i - 1 \in 0 .. n
      /\ \A i \in 1 .. n : s[i] \in U
      /\ \A i, j \in 1 .. n : s[i] = s[j] => i = j
      /\ \A x \in U : \E i \in 1 .. n : s[i] = x
  <2>1. /\ n \in Nat /\ \A i \in 1 .. n : s[i] \in U
        /\ \A i, j \in 1 .. n : s[i] = s[j] => i = j
        /\ \A x \in U : \E i \in 1 .. n : s[i] = x
    BY ListPlaces
  <2> QED
    BY <2>1
<1>3. queue \in R[0]
  <2>1. to(0) = T
    OBVIOUS
  <2>2. queue \in Seq(T \cup U)
    BY DEF ListOf
  <2>3. EntryOrder(queue, 0, queue, s, T, ref_cnt, block_hash)
    <3>1. 1 .. 0 = {}
      OBVIOUS
    <3> QED
      BY <3>1, Zenon DEF EntryOrder
  <2> QED
    BY <1>2, <2>1, <2>2, <2>3, Zenon
<1>4. \A i \in 1 .. n : \A q \in R[i - 1] : enter(q, s[i]) \in R[i]
  <2> SUFFICES ASSUME NEW i \in 1 .. n, NEW q \in R[i - 1]
               PROVE  enter(q, s[i]) \in R[i]
    OBVIOUS
  <2>1. /\ ListOf(q, to(i - 1)) /\ s[i] \in U /\ q \in Seq(T \cup U)
        /\ EntryOrder(q, i - 1, queue, s, T, ref_cnt, block_hash)
    BY <1>2, Zenon
  <2>2. s[i] \notin to(i - 1)
    <3>1. s[i] \notin T
      BY <2>1
    <3>2. \A j \in 1 .. i - 1 : j \in 1 .. n /\ j # i
      BY <1>2
    <3> QED
      BY <1>2, <3>1, <3>2
  <2>3. ListOf(enter(q, s[i]), to(i))
    <3>1. CASE ref_cnt[s[i]] = 1
      <4>1. to(i) = to(i - 1) \cup {s[i]}
        BY <1>2, <3>1
      <4>2. ListOf(Append(q, s[i]), to(i - 1) \cup {s[i]}) /\ ListOf(<<s[i]>> \o q, to(i - 1) \cup {s[i]})
        BY <2>1, <2>2, ListAppend, Zenon
      <4> HIDE DEF to
      <4> QED
        BY <3>1, <4>1, <4>2, Zenon
    <3>2. CASE ref_cnt[s[i]] # 1
      <4>1. to(i) = to(i - 1)
        BY <1>2, <3>2
      <4> HIDE DEF to
      <4> QED
        BY <2>1, <3>2, <4>1, Zenon
    <3> QED
      BY <3>1, <3>2
  <2>4. to(i) \subseteq T \cup U
    BY <1>2
  <2>5. enter(q, s[i]) \in Seq(to(i))
    BY <2>3, Zenon DEF ListOf
  <2>6. EntryOrder(enter(q, s[i]), i, queue, s, T, ref_cnt, block_hash)
    <3>1. Elements(q) = to(i - 1)
      BY <2>1, Zenon DEF ListOf
    <3>2. i - 1 \in Nat /\ (i - 1) + 1 = i
      BY <1>2
    <3>3. T \subseteq Elements(q) /\ \A j \in 1 .. i - 1 : ref_cnt[s[j]] = 1 => s[j] \in Elements(q)
      BY <3>1, Zenon
    <3>4. EntryOrder(enter(q, s[(i - 1) + 1]), (i - 1) + 1, queue, s, T, ref_cnt, block_hash)
      BY <2>1, <3>2, <3>3, EntryStep, Zenon
    <3> QED
      BY <3>2, <3>4, Zenon
  <2> HIDE DEF to, enter
  <2>7. enter(q, s[i]) \in Seq(T \cup U)
    BY <2>4, <2>5
  <2> QED
    BY <1>2, <2>3, <2>7, <2>6, Zenon
<1>5. \A i \in 1 .. n : \A q \in R[i - 1] : G[i][q] = enter(q, s[i])
  BY Zenon
<1>6. to(n) = T \cup {b \in U : ref_cnt[b] = 1}
  BY <1>2
<1> HIDE DEF R, G, n, enter, to
<1>7. PICK f : Walks(f, n, queue, G, R)
  <2>1. \A i \in 1 .. n : \A q \in R[i - 1] : G[i][q] \in R[i]
    BY <1>4, <1>5
  <2> QED
    BY <1>2, <1>3, <2>1, WalkExists, Zenon
<1>8. f = [i \in 0 .. n |-> IF i = 0 THEN queue ELSE enter(f[i - 1], s[i])]
  BY <1>2, <1>5, <1>7 DEF Walks
<1>9. F = [i \in 0 .. n |-> IF i = 0 THEN queue ELSE enter(F[i - 1], s[i])]
  BY <1>8, Zenon
<1> HIDE DEF F
<1>10. F[0] = queue /\ \A i \in 1 .. n : F[i] = enter(F[i - 1], s[i])
  BY <1>2, <1>9
<1>11. F[n] \in R[n]
  <2>1. \A i \in 1 .. n : F[i - 1] \in R[i - 1] => F[i] \in R[i]
    BY <1>4, <1>10
  <2>2. F[0] \in R[0]
    BY <1>3, <1>10
  <2> QED
    BY <1>2, <2>1, <2>2, WalkStays, Zenon
<1>12. ListOf(F[n], to(n)) /\ EntryOrder(F[n], n, queue, s, T, ref_cnt, block_hash)
  BY <1>2, <1>11 DEF R
<1> QED
  BY <1>1, <1>6, <1>12, Zenon DEF n

\* A list read backwards lists the same.
LEMMA ListBackwards ==
  ASSUME NEW T, NEW s, ListOf(s, T)
  PROVE  ListOf(Reverse(s), T)
<1> DEFINE n == Len(s)
           w == Reverse(s)
<1>1. /\ n \in Nat /\ \A i \in 1 .. n : s[i] \in T
      /\ \A i, j \in 1 .. n : s[i] = s[j] => i = j
      /\ \A x \in T : \E i \in 1 .. n : s[i] = x
  BY ListPlaces
<1>2. w = [i \in 1 .. n |-> s[(n - i) + 1]]
  BY DEF Reverse
<1> HIDE DEF w, n
<1>3. \A i \in 1 .. n : (n - i) + 1 \in 1 .. n
  BY <1>1
<1>4. w \in [1 .. n -> T] /\ \A i \in 1 .. n : w[i] = s[(n - i) + 1]
  BY <1>1, <1>2, <1>3
<1>5. \A i, j \in 1 .. n : w[i] = w[j] => i = j
  <2> SUFFICES ASSUME NEW i \in 1 .. n, NEW j \in 1 .. n, w[i] = w[j]
               PROVE  i = j
    OBVIOUS
  <2>1. s[(n - i) + 1] = s[(n - j) + 1]
    BY <1>4
  <2>2. (n - i) + 1 \in 1 .. n /\ (n - j) + 1 \in 1 .. n
    BY <1>3, Zenon
  <2>3. (n - i) + 1 = (n - j) + 1
    BY <1>1, <2>1, <2>2, Zenon
  <2> QED
    BY <1>1, <2>3
<1>6. \A x \in T : \E i \in 1 .. n : w[i] = x
  <2> TAKE x \in T
  <2>1. PICK i \in 1 .. n : s[i] = x
    BY <1>1, Zenon
  <2>2. (n - i) + 1 \in 1 .. n /\ (n - ((n - i) + 1)) + 1 = i
    BY <1>1
  <2>3. w[(n - i) + 1] = x
    BY <1>4, <2>1, <2>2
  <2> QED
    BY <2>2, <2>3, Zenon
<1>7. ListOf(w, T)
  BY <1>1, <1>4, <1>5, <1>6, PlacesList, Zenon
<1> QED
  BY <1>7 DEF w

\* The coordinator's free gives back what r holds.
LEMMA CoordinatorFreeInOrder ==
  ASSUME NEW Tok, NEW c, InOrder(c, Tok), NEW r \in Requests
  PROVE  /\ InOrder(CoordinatorFree(c, r), Tok)
         /\ CoordinatorFree(c, r).blocks = [c.blocks EXCEPT ![r] = <<>>]
<1> DEFINE d    == CoordinatorFree(c, r)
           own  == c.blocks[r]
           s    == Reverse(own)
           ref  == c.ref_cnt
           bh   == c.block_hash
           q    == Entered(ref, bh, c.free, s)
           new  == [b \in Blocks |-> ref[b] - IF b \in Elements(own) THEN 1 ELSE 0]
           gone == [c.blocks EXCEPT ![r] = <<>>]
           zero == [c.num_cached EXCEPT ![r] = 0]
<1>1. /\ c \in Caches(Tok) /\ PoolInOrder(ref, c.free, c.blocks)
      /\ IndexInOrder(c.index, bh) /\ \A p \in Requests : ChainInOrder(c.hashes[p])
  BY DEF InOrder
<1>2. /\ ref \in [Blocks -> Nat] /\ c.blocks \in [Requests -> Seq(Blocks)]
      /\ c.num_cached \in [Requests -> Nat]
  BY <1>1 DEF Caches
<1>3. ListOf(own, Elements(own)) /\ ListOf(c.free, {b \in Blocks : ref[b] = 0})
  <2>1. own \in Seq(Blocks) /\ IsInjective(own) /\ ListOf(c.free, {b \in Blocks : ref[b] = 0})
    BY <1>1, <1>2 DEF PoolInOrder
  <2>2. own \in Seq(Elements(own))
    BY <2>1 DEF Elements
  <2> QED
    BY <2>1, <2>2 DEF ListOf
<1>4. ListOf(s, Elements(own))
  BY <1>3, ListBackwards, Zenon
<1>5. Elements(s) = Elements(own)
  BY <1>4, Zenon DEF ListOf
<1>6. \A b \in Elements(own) : b \in Blocks /\ ref[b] # 0
  <2> TAKE b \in Elements(own)
  <2>1. b \in Blocks
    BY <1>2 DEF Elements
  <2>2. r \in HoldersOf(c.blocks, b) /\ HoldersOf(c.blocks, b) \in SUBSET Requests
    BY DEF HoldersOf
  <2>3. Cardinality(HoldersOf(c.blocks, b)) >= 1 /\ Cardinality(HoldersOf(c.blocks, b)) \in Nat
    BY <2>2, OneHolderLess, Zenon
  <2>4. ref[b] = Cardinality(HoldersOf(c.blocks, b))
    BY <1>1, <2>1, Zenon DEF PoolInOrder
  <2> QED
    BY <2>1, <2>3, <2>4
<1>7. ListOf(q, {b \in Blocks : ref[b] = 0} \cup {b \in Elements(own) : ref[b] = 1})
  <2>1. Elements(own) \cap {b \in Blocks : ref[b] = 0} = {}
    BY <1>6
  <2> HIDE DEF s, ref, bh, own
  <2> QED
    BY <1>3, <1>4, <2>1, FreedEnter, Zenon
<1>8. new \in [Blocks -> Nat] /\ PoolInOrder(new, q, gone)
  <2> HIDE DEF q
  <2> QED
    BY <1>1, <1>2, <1>7, PoolGivesBack, Zenon
<1>9. q \in Seq(Blocks) /\ gone \in [Requests -> Seq(Blocks)] /\ zero \in [Requests -> Nat]
  <2> HIDE DEF q
  <2>1. q \in Seq({b \in Blocks : ref[b] = 0} \cup {b \in Elements(own) : ref[b] = 1})
    BY <1>7, Zenon DEF ListOf
  <2>2. q \in Seq(Blocks)
    BY <1>6, <2>1
  <2> QED
    BY <1>2, <2>2
<1>10. d = [c EXCEPT !.ref_cnt = new, !.free = q, !.blocks = gone, !.num_cached = zero]
  <2>1. FreeBlocks(c, s) = [c EXCEPT !.ref_cnt = [b \in Blocks |-> ref[b] - IF b \in Elements(s) THEN 1 ELSE 0],
                                     !.free = q]
    BY <1>1, Zenon DEF FreeBlocks, Entered
  <2>2. FreeBlocks(c, s) = [c EXCEPT !.ref_cnt = new, !.free = q]
    BY <1>5, <2>1, Zenon
  <2>3. d = [FreeBlocks(c, s) EXCEPT !.blocks[r] = <<>>, !.num_cached[r] = 0]
    BY Zenon DEF CoordinatorFree
  <2> HIDE DEF d, new, q
  <2> QED
    BY <1>1, <2>2, <2>3 DEF Caches
<1> HIDE DEF d, new, q, gone, zero
<1>11. /\ d \in Caches(Tok) /\ d.ref_cnt = new /\ d.free = q /\ d.blocks = gone
       /\ d.block_hash = c.block_hash /\ d.index = c.index /\ d.hashes = c.hashes
  BY <1>1, <1>8, <1>9, <1>10 DEF Caches
<1>12. InOrder(d, Tok)
  BY <1>1, <1>8, <1>11, Zenon DEF InOrder
<1> QED
  BY <1>11, <1>12, Zenon DEF d, gone

\* free: r holds nothing and is tracked no more.
LEMMA FreeInOrder ==
  ASSUME NEW Tok, NEW c, InOrder(c, Tok), NEW r \in Requests
  PROVE  InOrder(Free(c, r), Tok) /\ Free(c, r).blocks = [c.blocks EXCEPT ![r] = <<>>]
<1> DEFINE e == CoordinatorFree(c, r)
           d == Free(c, r)
           x == [e.hashes EXCEPT ![r] = <<>>]
           y == [e.committed EXCEPT ![r] = 0]
           z == [e.mapped EXCEPT ![r] = 0]
<1>1. InOrder(e, Tok) /\ e.blocks = [c.blocks EXCEPT ![r] = <<>>]
  BY CoordinatorFreeInOrder, Zenon
<1>2. d = [e EXCEPT !.hashes[r] = <<>>, !.committed[r] = 0, !.mapped[r] = 0]
  BY Zenon DEF Free
<1> HIDE DEF d, e
<1>3. e \in Caches(Tok) /\ \A q \in Requests : ChainInOrder(e.hashes[q])
  BY <1>1, Zenon DEF InOrder
<1>4. /\ x \in [Requests -> Seq(Seq(Tok))] /\ y \in [Requests -> Int] /\ z \in [Requests -> Nat]
      /\ \A q \in Requests : x[q] = IF q = r THEN <<>> ELSE e.hashes[q]
  BY <1>3 DEF Caches
<1>5. d = [e EXCEPT !.hashes = x, !.committed = y, !.mapped = z]
  BY <1>2
<1> HIDE DEF x, y, z
<1>6. /\ d \in Caches(Tok) /\ d.hashes = x
      /\ d.ref_cnt = e.ref_cnt /\ d.free = e.free /\ d.blocks = e.blocks
      /\ d.index = e.index /\ d.block_hash = e.block_hash
  BY <1>3, <1>4, <1>5 DEF Caches
<1>7. \A q \in Requests : ChainInOrder(x[q])
  <2>1. ChainInOrder(<<>>)
    BY DEF ChainInOrder
  <2> QED
    BY <1>3, <1>4, <2>1
<1>8. InOrder(d, Tok)
  BY <1>1, <1>6, <1>7, Zenon DEF InOrder
<1> QED
  BY <1>1, <1>6, <1>8, Zenon DEF d

-----------------------------------------------------------------------------
(* Admission: a match is adopted, then the missing blocks are drawn. *)

\* The length of a hit is that of a cached run of the chain.
LEMMA HitIsRun ==
  ASSUME NEW c, NEW T, NEW chain \in Seq(T), NEW n \in Nat
  PROVE  /\ HitLength(c, chain, n) \in Nat
         /\ HitLength(c, chain, n) <= Len(chain)
         /\ HitLength(c, chain, n) <= n \div BlockSize
<1> DEFINE bound == Smaller(n \div BlockSize, Len(chain))
           runs  == {k \in 0 .. bound : \A i \in 1 .. k : Cached(c, chain[i]) # {}}
           k     == HitLength(c, chain, n)
<1>1. k = CHOOSE x \in runs : \A j \in runs : j <= x
  BY Zenon DEF HitLength
<1>2. n \div BlockSize \in Nat /\ Len(chain) \in Nat
  BY WholeBlocks
<1>3. bound \in Nat /\ bound <= Len(chain) /\ bound <= n \div BlockSize
  BY <1>2 DEF Smaller
<1> HIDE DEF bound
<1>4. 0 \in runs /\ runs \subseteq 0 .. bound
  BY <1>3
<1> HIDE DEF runs
<1>5. Max(runs) \in runs /\ \A y \in runs : Max(runs) >= y
  BY <1>3, <1>4, MaxIsGreatest, Zenon
<1>6. \A y \in runs : y <= Max(runs)
  BY <1>4, <1>5
<1>7. k \in runs
  BY <1>1, <1>5, <1>6, Zenon
<1> HIDE DEF k
<1>8. k \in 0 .. bound
  BY <1>4, <1>7, Zenon
<1> DEFINE whole == n \div BlockSize
           all   == Len(chain)
<1>9. whole \in Nat /\ all \in Nat /\ bound <= all /\ bound <= whole
  BY <1>2, <1>3
<1> HIDE DEF whole, all
<1>10. k \in Nat /\ k <= all /\ k <= whole
  BY <1>3, <1>8, <1>9
<1> QED
  BY <1>10, Zenon DEF k, whole, all

\* What a lookup returns: different blocks, each cached under the hash of its
\* place.
IsMatch(c, r, m) ==
  /\ m \in Seq(Blocks) /\ IsInjective(m) /\ Len(m) <= Len(c.hashes[r])
  /\ \A i \in 1 .. Len(m) : <<c.hashes[r][i], m[i]>> \in c.index

LEMMA LookupMatches ==
  ASSUME NEW Tok, NEW c, InOrder(c, Tok), NEW r \in Requests, NEW n \in Nat, n # 0,
         NEW m \in Lookup(c, r, n)
  PROVE  IsMatch(c, r, m)
<1> DEFINE chain == c.hashes[r]
           k     == IF EnableCaching THEN HitLength(c, chain, MaxHit(n)) ELSE 0
<1>1. m \in [1 .. k -> Blocks] /\ \A i \in 1 .. k : m[i] \in Cached(c, chain[i])
  BY Zenon DEF Lookup
<1>2. /\ chain \in Seq(Seq(Tok)) /\ ChainInOrder(chain) /\ c.index \subseteq Seq(Tok) \X Blocks
      /\ IndexInOrder(c.index, c.block_hash)
  BY DEF InOrder, Caches
<1>3. MaxHit(n) \in Nat
  BY DEF MaxHit
<1>4. k \in Nat /\ k <= Len(chain)
  BY <1>2, <1>3, HitIsRun
<1> HIDE DEF k, chain
<1>5. m \in Seq(Blocks) /\ Len(m) = k /\ DOMAIN m = 1 .. k
  BY <1>1, <1>4
<1>6. ASSUME NEW i \in 1 .. k
      PROVE  <<chain[i], m[i]>> \in c.index /\ c.block_hash[m[i]] = chain[i] /\ Len(chain[i]) = i * BlockSize
  <2>1. m[i] \in Cached(c, chain[i])
    BY <1>1
  <2>2. PICK e \in c.index : e[1] = chain[i] /\ e[2] = m[i]
    BY <2>1, Zenon DEF Cached
  <2>3. e = <<chain[i], m[i]>> /\ c.block_hash[m[i]] = chain[i]
    BY <1>2, <2>2 DEF IndexInOrder
  <2>4. i \in 1 .. Len(chain)
    BY <1>2, <1>4
  <2> QED
    BY <1>2, <2>2, <2>3, <2>4 DEF ChainInOrder
<1>7. IsInjective(m)
  <2> SUFFICES ASSUME NEW i \in 1 .. k, NEW j \in 1 .. k, m[i] = m[j]
               PROVE  i = j
    BY <1>5 DEF IsInjective
  <2>1. i * BlockSize = j * BlockSize
    BY <1>6
  <2>2. i \in Nat /\ j \in Nat
    BY <1>4
  <2> QED
    BY <2>1, <2>2, Times
<1> QED
  BY <1>4, <1>5, <1>6, <1>7 DEF IsMatch, chain

\* A list cut in two.
LEMMA ListSplit ==
  ASSUME NEW T, NEW s, ListOf(s, T), NEW n \in Nat, n <= Len(s)
  PROVE  LET front == SubSeq(s, 1, n) IN
         /\ ListOf(front, Elements(front)) /\ Elements(front) \subseteq T
         /\ ListOf(SubSeq(s, n + 1, Len(s)), T \ Elements(front))
<1> DEFINE m     == Len(s)
           front == SubSeq(s, 1, n)
           rest  == SubSeq(s, n + 1, m)
           U     == {s[i] : i \in 1 .. n}
           at    == [i \in 1 .. n |-> i]
           up    == [i \in 1 .. m - n |-> n + i]
<1>1. /\ m \in Nat /\ s \in Seq(T) /\ \A i \in 1 .. m : s[i] \in T
      /\ \A i, j \in 1 .. m : s[i] = s[j] => i = j
      /\ \A x \in T : \E i \in 1 .. m : s[i] = x
  BY ListPlaces
<1>2. n <= m /\ n \in Int /\ n + 1 \in Int /\ m \in Int /\ 1 <= n + 1 /\ n + 1 <= m + 1 /\ m <= m
  BY <1>1
<1>3. /\ front \in Seq(T) /\ Len(front) = n /\ \A i \in 1 .. n : front[i] = s[i]
  <2>1. /\ front \in Seq(T) /\ Len(front) = n - 1 + 1
        /\ \A i \in 1 .. n - 1 + 1 : front[i] = s[1 + i - 1]
    BY <1>1, <1>2, Stretch
  <2>2. n - 1 + 1 = n /\ \A i \in 1 .. n : 1 + i - 1 = i
    OBVIOUS
  <2> HIDE DEF front
  <2> QED
    BY <2>1, <2>2
<1>4. /\ rest \in Seq(T) /\ Len(rest) = m - n /\ \A i \in 1 .. m - n : rest[i] = s[n + i]
  <2>1. /\ rest \in Seq(T) /\ Len(rest) = m - (n + 1) + 1
        /\ \A i \in 1 .. m - (n + 1) + 1 : rest[i] = s[(n + 1) + i - 1]
    <3> DEFINE a == n + 1
    <3>1. a \in Int /\ m \in Int /\ 1 <= a /\ a <= m + 1 /\ m <= Len(s)
      BY <1>2
    <3> HIDE DEF a, m
    <3>2. /\ SubSeq(s, a, m) \in Seq(T) /\ Len(SubSeq(s, a, m)) = m - a + 1
          /\ \A i \in 1 .. m - a + 1 : SubSeq(s, a, m)[i] = s[a + i - 1]
      BY <1>1, <3>1, Stretch
    <3> QED
      BY <3>2, Zenon DEF a
  <2>2. m - (n + 1) + 1 = m - n /\ \A i \in 1 .. m - n : (n + 1) + i - 1 = n + i
    BY <1>1
  <2> HIDE DEF rest, m
  <2> QED
    BY <2>1, <2>2
<1>5. Elements(front) = U
  BY <1>3 DEF Elements
<1>6. ListOf(front, U)
  <2>1. front \in [1 .. n -> U]
    <3>1. DOMAIN front = 1 .. n /\ front = [i \in DOMAIN front |-> front[i]]
      BY <1>3
    <3> QED
      BY <1>3, <3>1
  <2>2. \A i, j \in 1 .. n : front[i] = front[j] => i = j
    <3>1. \A i \in 1 .. n : i \in 1 .. m
      BY <1>1
    <3> QED
      BY <1>1, <1>3, <3>1
  <2>3. \A x \in U : \E i \in 1 .. n : front[i] = x
    BY <1>3
  <2> QED
    BY <2>1, <2>2, <2>3, PlacesList, Zenon
<1>7. U \subseteq T
  BY <1>1
<1>8. ListOf(rest, T \ U)
  <2>1. /\ m - n \in Nat
        /\ \A i \in 1 .. m - n : n + i \in 1 .. m /\ \A j \in 1 .. n : j \in 1 .. m /\ n + i # j
        /\ \A i, j \in 1 .. m - n : n + i = n + j => i = j
        /\ \A i \in 1 .. m : i \notin 1 .. n => i - n \in 1 .. m - n /\ n + (i - n) = i
    BY <1>1
  <2>2. rest \in [1 .. m - n -> T \ U]
    <3> HIDE DEF rest, m
    <3>1. DOMAIN rest = 1 .. m - n /\ rest = [i \in DOMAIN rest |-> rest[i]]
      BY <1>4
    <3>2. \A i \in 1 .. m - n : rest[i] \in T \ U
      <4> TAKE i \in 1 .. m - n
      <4>1. rest[i] = s[n + i] /\ n + i \in 1 .. m /\ \A j \in 1 .. n : j \in 1 .. m /\ n + i # j
        BY <1>4, <2>1, Zenon
      <4>2. \A j \in 1 .. n : s[j] # s[n + i]
        BY <1>1, <4>1, Zenon
      <4> QED
        BY <1>1, <4>1, <4>2, Zenon
    <3> QED
      BY <3>1, <3>2
  <2>3. \A i, j \in 1 .. m - n : rest[i] = rest[j] => i = j
    <3> SUFFICES ASSUME NEW i \in 1 .. m - n, NEW j \in 1 .. m - n, rest[i] = rest[j]
                 PROVE  i = j
      OBVIOUS
    <3>1. n + i \in 1 .. m /\ n + j \in 1 .. m /\ s[n + i] = s[n + j]
      BY <1>4, <2>1
    <3>2. n + i = n + j
      BY <1>1, <3>1, Zenon
    <3> QED
      BY <2>1, <3>2
  <2>4. \A x \in T \ U : \E i \in 1 .. m - n : rest[i] = x
    <3> TAKE x \in T \ U
    <3>1. PICK i \in 1 .. m : s[i] = x
      BY <1>1, Zenon
    <3>2. i \notin 1 .. n
      BY <3>1
    <3>3. i - n \in 1 .. m - n /\ n + (i - n) = i
      BY <2>1, <3>2, Zenon
    <3>4. rest[i - n] = x
      BY <1>4, <3>1, <3>3
    <3> QED
      BY <3>3, <3>4, Zenon
  <2> DEFINE k == m - n
  <2> HIDE DEF rest, m, U
  <2>5. k \in Nat /\ rest \in [1 .. k -> T \ U] /\ (\A i, j \in 1 .. k : rest[i] = rest[j] => i = j)
        /\ \A x \in T \ U : \E i \in 1 .. k : rest[i] = x
    BY <2>1, <2>2, <2>3, <2>4, Zenon
  <2> HIDE DEF k
  <2> QED
    BY <2>5, PlacesList, Zenon
<1> QED
  BY <1>5, <1>6, <1>7, <1>8, Zenon DEF m

\* touch and the adoption of a match by a request that holds nothing.
LEMMA AdoptInOrder ==
  ASSUME NEW Tok, NEW c, InOrder(c, Tok), NEW r \in Requests, NEW m,
         m = <<>> \/ IsMatch(c, r, m), MayAdopt(c, r, m)
  PROVE  /\ InOrder(Adopt(c, r, m), Tok)
         /\ Adopt(c, r, m).blocks = [c.blocks EXCEPT ![r] = IF m = <<>> THEN c.blocks[r] ELSE m]
         /\ Adopt(c, r, m).hashes = c.hashes
<1> DEFINE ref  == c.ref_cnt
           own  == c.blocks[r]
           new  == [b \in Blocks |-> ref[b] + IF b \in Elements(m) THEN 1 ELSE 0]
           q    == OneByOne(RemoveFirst, c.free, m)
           have == [c.blocks EXCEPT ![r] = m]
           hit  == [c.num_cached EXCEPT ![r] = Len(m)]
           d    == Adopt(c, r, m)
<1>1. /\ c \in Caches(Tok) /\ PoolInOrder(ref, c.free, c.blocks)
      /\ IndexInOrder(c.index, c.block_hash) /\ \A p \in Requests : ChainInOrder(c.hashes[p])
  BY DEF InOrder
<1>2. /\ ref \in [Blocks -> Nat] /\ c.blocks \in [Requests -> Seq(Blocks)]
      /\ c.num_cached \in [Requests -> Nat]
  BY <1>1 DEF Caches
<1>3. CASE m = <<>>
  <2>1. d = c
    BY <1>3 DEF Adopt
  <2>2. c.blocks = [c.blocks EXCEPT ![r] = c.blocks[r]]
    BY <1>2
  <2> QED
    BY <1>3, <2>1, <2>2
<1>4. CASE m # <<>>
  <2>1. own = <<>> /\ m \in Seq(Blocks) /\ IsInjective(m)
    BY <1>4, Zenon DEF MayAdopt, IsMatch
  <2>2. ListOf(c.free, {b \in Blocks : ref[b] = 0})
    BY <1>1 DEF PoolInOrder
  <2>3. ListOf(q, {b \in Blocks : ref[b] = 0} \ Elements(m))
    <3> DEFINE Z == {b \in Blocks : ref[b] = 0}
    <3> HIDE DEF Z
    <3>1. ListOf(c.free, Z)
      BY <2>2 DEF Z
    <3>2. ListOf(q, Z \ Elements(m))
      BY <2>1, <3>1, ListRemoveAll, Zenon
    <3> QED
      BY <3>2 DEF Z
  <2>4. Elements(m) \cap Elements(own) = {} /\ Elements(m) = Elements(own) \cup Elements(m)
    BY <2>1 DEF Elements
  <2>5. PoolInOrder(new, q, have)
    <3> HIDE DEF q
    <3> QED
      BY <1>1, <1>2, <2>1, <2>3, <2>4, PoolTakes, Zenon
  <2>6. q \in Seq(Blocks) /\ have \in [Requests -> Seq(Blocks)] /\ hit \in [Requests -> Nat]
        /\ new \in [Blocks -> Nat]
    <3> HIDE DEF q
    <3>1. q \in Seq({b \in Blocks : ref[b] = 0} \ Elements(m))
      BY <2>3, Zenon DEF ListOf
    <3>2. q \in Seq(Blocks)
      BY <3>1
    <3> QED
      BY <1>2, <2>1, <3>2
  <2>7. d = [c EXCEPT !.ref_cnt = new, !.free = q, !.blocks = have, !.num_cached = hit]
    <3>1. Touch(c, m) = [c EXCEPT !.ref_cnt = new, !.free = q]
      BY <1>1, Zenon DEF Touch
    <3>2. d = [Touch(c, m) EXCEPT !.blocks[r] = m, !.num_cached[r] = Len(m)]
      BY <1>4, Zenon DEF Adopt
    <3> HIDE DEF d, new, q
    <3> QED
      BY <1>1, <3>1, <3>2 DEF Caches
  <2> HIDE DEF d, new, q, have, hit
  <2>8. /\ d \in Caches(Tok) /\ d.ref_cnt = new /\ d.free = q /\ d.blocks = have
        /\ d.block_hash = c.block_hash /\ d.index = c.index /\ d.hashes = c.hashes
    BY <1>1, <2>6, <2>7 DEF Caches
  <2>9. InOrder(d, Tok)
    BY <1>1, <2>5, <2>8, Zenon DEF InOrder
  <2>10. have = [c.blocks EXCEPT ![r] = IF m = <<>> THEN c.blocks[r] ELSE m]
    BY <1>4 DEF have
  <2> QED
    BY <2>8, <2>9, <2>10, Zenon DEF d
<1> QED
  BY <1>3, <1>4, Zenon

\* r draws n blocks off the front of the queue.
Draw(c, r, n) == [TakeNewBlocks(c, n) EXCEPT !.blocks[r] = @ \o NewBlocks(c, n)]

LEMMA DrawInOrder ==
  ASSUME NEW Tok, NEW c, InOrder(c, Tok), NEW r \in Requests, NEW n \in Nat, n <= Len(c.free)
  PROVE  /\ InOrder(Draw(c, r, n), Tok)
         /\ \A p \in Requests : p # r => Draw(c, r, n).blocks[p] = c.blocks[p]
<1> DEFINE ref   == c.ref_cnt
           own   == c.blocks[r]
           fresh == NewBlocks(c, n)
           taken == Elements(fresh)
           Z     == {b \in Blocks : ref[b] = 0}
           new   == [b \in Blocks |-> IF b \in taken THEN 1 ELSE ref[b]]
           h     == [b \in Blocks |-> IF b \in taken THEN NoHash ELSE c.block_hash[b]]
           x     == {e \in c.index : e[2] \notin taken}
           q     == SubSeq(c.free, n + 1, Len(c.free))
           t     == own \o fresh
           have  == [c.blocks EXCEPT ![r] = t]
           d     == Draw(c, r, n)
<1>1. /\ c \in Caches(Tok) /\ PoolInOrder(ref, c.free, c.blocks)
      /\ IndexInOrder(c.index, c.block_hash) /\ \A p \in Requests : ChainInOrder(c.hashes[p])
  BY DEF InOrder
<1>2. /\ ref \in [Blocks -> Nat] /\ c.blocks \in [Requests -> Seq(Blocks)]
      /\ c.block_hash \in [Blocks -> Seq(Tok)] /\ c.index \subseteq Seq(Tok) \X Blocks
      /\ own \in Seq(Blocks) /\ c.hashes \in [Requests -> Seq(Seq(Tok))]
  BY <1>1 DEF Caches
<1>3. ListOf(c.free, Z) /\ IsInjective(own)
  BY <1>1, Zenon DEF PoolInOrder
<1>4. ListOf(fresh, taken) /\ taken \subseteq Z /\ ListOf(q, Z \ taken)
  <2> HIDE DEF Z
  <2> QED
    BY <1>3, ListSplit, Zenon DEF NewBlocks
<1>5. ListOf(own, Elements(own))
  <2>1. own \in Seq(Blocks)
    BY <1>2
  <2> HIDE DEF own
  <2>2. own \in Seq(Elements(own))
    BY <2>1 DEF Elements
  <2> QED
    BY <1>3, <2>2, Zenon DEF ListOf
<1>6. \A b \in Elements(own) : b \in Blocks /\ ref[b] # 0
  <2> TAKE b \in Elements(own)
  <2>1. b \in Blocks
    BY <1>2 DEF Elements
  <2>2. r \in HoldersOf(c.blocks, b) /\ HoldersOf(c.blocks, b) \in SUBSET Requests
    BY DEF HoldersOf
  <2>3. Cardinality(HoldersOf(c.blocks, b)) >= 1 /\ Cardinality(HoldersOf(c.blocks, b)) \in Nat
    BY <2>2, OneHolderLess, Zenon
  <2>4. ref[b] = Cardinality(HoldersOf(c.blocks, b))
    BY <1>1, <2>1, Zenon DEF PoolInOrder
  <2> QED
    BY <2>1, <2>3, <2>4
<1> HIDE DEF fresh, q
<1>7. taken \cap Elements(own) = {}
  BY <1>4, <1>6, Zenon
<1>8. ListOf(t, Elements(own) \cup taken)
  <2>1. Elements(own) \cap taken = {}
    BY <1>7, Zenon
  <2> HIDE DEF taken
  <2> QED
    BY <1>4, <1>5, <2>1, ListConcat, Zenon
<1>9. /\ t \in Seq(Blocks) /\ IsInjective(t) /\ Elements(t) = Elements(own) \cup taken
      /\ fresh \in Seq(Blocks) /\ IsInjective(fresh) /\ q \in Seq(Blocks)
  <2>1. t \in Seq(Elements(own) \cup taken) /\ fresh \in Seq(taken) /\ q \in Seq(Z \ taken)
    BY <1>4, <1>8, Zenon DEF ListOf
  <2>2. Elements(own) \cup taken \subseteq Blocks /\ taken \subseteq Blocks /\ Z \ taken \subseteq Blocks
    BY <1>4, <1>6, Zenon
  <2> DEFINE U == Elements(own) \cup taken
             V == Z \ taken
  <2> HIDE DEF t, taken, Z, own, U, V
  <2>3. t \in Seq(U) /\ q \in Seq(V) /\ U \subseteq Blocks /\ V \subseteq Blocks
    BY <2>1, <2>2 DEF U, V
  <2>4. t \in Seq(Blocks) /\ fresh \in Seq(Blocks) /\ q \in Seq(Blocks)
    BY <2>1, <2>2, <2>3
  <2> QED
    BY <1>4, <1>8, <2>4, Zenon DEF ListOf
<1>10. new = [b \in Blocks |-> ref[b] + IF b \in taken THEN 1 ELSE 0]
  <2>1. \A b \in Blocks : (IF b \in taken THEN 1 ELSE ref[b]) = ref[b] + IF b \in taken THEN 1 ELSE 0
    <3> HIDE DEF taken
    <3> QED
      BY <1>2, <1>4
  <2> QED
    BY <2>1
<1>11. PoolInOrder(new, q, have)
  <2> HIDE DEF new, t
  <2>1. PoolInOrder([b \in Blocks |-> ref[b] + IF b \in Elements(fresh) THEN 1 ELSE 0], q,
                    [c.blocks EXCEPT ![r] = t])
    BY <1>1, <1>2, <1>4, <1>7, <1>9, PoolTakes, Zenon
  <2> QED
    BY <1>10, <2>1, Zenon
<1>12. /\ new \in [Blocks -> Nat] /\ h \in [Blocks -> Seq(Tok)] /\ x \subseteq Seq(Tok) \X Blocks
       /\ have \in [Requests -> Seq(Blocks)]
  <2> HIDE DEF t, taken
  <2> QED
    BY <1>2, <1>9 DEF NoHash
<1>13. IndexInOrder(x, h)
  <2> SUFFICES ASSUME NEW e \in x
               PROVE  h[e[2]] = e[1] /\ e[1] # NoHash
    BY DEF IndexInOrder
  <2> HIDE DEF taken
  <2>1. e \in c.index /\ e[2] \notin taken /\ e[2] \in Blocks
    BY <1>2
  <2> QED
    BY <1>1, <2>1 DEF IndexInOrder
<1>14. d = [c EXCEPT !.ref_cnt = new, !.block_hash = h, !.index = x, !.free = q, !.blocks = have]
  <2>1. TakeNewBlocks(c, n) = [c EXCEPT !.ref_cnt = new, !.block_hash = h, !.index = x, !.free = q]
    BY <1>1, Zenon DEF TakeNewBlocks, fresh, q
  <2>2. d = [TakeNewBlocks(c, n) EXCEPT !.blocks[r] = @ \o fresh]
    BY Zenon DEF Draw, fresh
  <2> HIDE DEF d, new, h, x
  <2> QED
    BY <1>1, <2>1, <2>2 DEF Caches
<1>15. \A p \in Requests : p # r => have[p] = c.blocks[p]
  BY <1>2
<1> HIDE DEF d, new, h, x, have, t
<1>16. /\ d \in Caches(Tok) /\ d.ref_cnt = new /\ d.free = q /\ d.blocks = have
       /\ d.block_hash = h /\ d.index = x /\ d.hashes = c.hashes
  BY <1>1, <1>9, <1>12, <1>14 DEF Caches
<1>17. InOrder(d, Tok)
  BY <1>1, <1>11, <1>13, <1>16, Zenon DEF InOrder
<1> QED
  BY <1>15, <1>16, <1>17, Zenon DEF d

\* The blocks still to draw are a number of blocks.
LEMMA NeededIsNat ==
  ASSUME NEW Tok, NEW c, InOrder(c, Tok), NEW r \in Requests, NEW n \in Int, NEW m,
         m = <<>> \/ m \in Seq(Blocks)
  PROVE  Needed(c, r, n, m) \in Nat
<1> DEFINE have  == IF m = <<>> THEN Len(c.blocks[r]) ELSE Len(m)
           total == NumBlocksFor(n)
<1>1. have \in Nat
  BY DEF InOrder, Caches
<1>2. total \in Int
  <2>1. n + BlockSize - 1 \in Int
    BY CacheAssumption
  <2> DEFINE k == n + BlockSize - 1
  <2> HIDE DEF k
  <2>2. k \div BlockSize \in Int
    BY <2>1, WholeBlocks DEF k
  <2> QED
    BY <2>2, Zenon DEF k, NumBlocksFor
<1> HIDE DEF have, total
<1>3. Larger(total - have, 0) \in Nat
  BY <1>1, <1>2 DEF Larger
<1> QED
  BY <1>3, Zenon DEF Needed, have, total

\* allocate: only what r holds changes among the holdings.
LEMMA AllocateInOrder ==
  ASSUME NEW Tok, NEW c, InOrder(c, Tok), NEW r \in Requests, NEW n \in Int, NEW m,
         m = <<>> \/ IsMatch(c, r, m), MayAdopt(c, r, m), Fits(c, r, n, m)
  PROVE  /\ InOrder(Allocate(c, r, n, m), Tok)
         /\ \A q \in Requests : q # r => Allocate(c, r, n, m).blocks[q] = c.blocks[q]
<1> DEFINE a == Adopt(c, r, m)
           k == Needed(c, r, n, m)
           d == Allocate(c, r, n, m)
<1>1. /\ InOrder(a, Tok) /\ a.blocks = [c.blocks EXCEPT ![r] = IF m = <<>> THEN c.blocks[r] ELSE m]
      /\ c.blocks \in [Requests -> Seq(Blocks)]
  <2>1. c.blocks \in [Requests -> Seq(Blocks)]
    BY DEF InOrder, Caches
  <2> QED
    BY <2>1, AdoptInOrder
<1>2. k \in Nat /\ k <= Len(a.free)
  <2>1. m = <<>> \/ m \in Seq(Blocks)
    BY Zenon DEF IsMatch
  <2> QED
    BY <2>1, NeededIsNat, Zenon DEF Fits
<1>3. d = Draw(a, r, k)
  BY Zenon DEF Allocate, Draw
<1> HIDE DEF a, k, d
<1>4. InOrder(d, Tok) /\ \A q \in Requests : q # r => d.blocks[q] = a.blocks[q]
  <2>1. /\ InOrder(Draw(a, r, k), Tok)
        /\ \A q \in Requests : q # r => Draw(a, r, k).blocks[q] = a.blocks[q]
    BY <1>1, <1>2, DrawInOrder
  <2> QED
    BY <1>3, <2>1
<1>5. \A q \in Requests : q # r => d.blocks[q] = c.blocks[q]
  BY <1>1, <1>4
<1> QED
  BY <1>4, <1>5, Zenon DEF d

\* allocate on a short pool leaves the holdings as they were, but for those
\* of r, which it gives back with the match.
LEMMA RefuseInOrder ==
  ASSUME NEW Tok, NEW c, InOrder(c, Tok), NEW r \in Requests, NEW m,
         m = <<>> \/ IsMatch(c, r, m), MayAdopt(c, r, m)
  PROVE  /\ InOrder(RefuseAllocation(c, r, m), Tok)
         /\ \A q \in Requests : q # r => RefuseAllocation(c, r, m).blocks[q] = c.blocks[q]
<1> DEFINE a == Adopt(c, r, m)
           d == CoordinatorFree(a, r)
<1>1. /\ InOrder(a, Tok) /\ a.blocks = [c.blocks EXCEPT ![r] = IF m = <<>> THEN c.blocks[r] ELSE m]
      /\ c.blocks \in [Requests -> Seq(Blocks)]
  <2>1. c.blocks \in [Requests -> Seq(Blocks)]
    BY DEF InOrder, Caches
  <2> QED
    BY <2>1, AdoptInOrder
<1> HIDE DEF a
<1>2. InOrder(d, Tok) /\ d.blocks = [a.blocks EXCEPT ![r] = <<>>]
  BY <1>1, CoordinatorFreeInOrder, Zenon
<1>3. RefuseAllocation(c, r, m) = IF m = <<>> THEN c ELSE d
  BY Zenon DEF RefuseAllocation, a
<1> HIDE DEF d
<1>4. \A q \in Requests : q # r => d.blocks[q] = c.blocks[q]
  BY <1>1, <1>2
<1> QED
  BY <1>2, <1>3, <1>4

-----------------------------------------------------------------------------
(* What each operation changes. *)

\* g is f, but r has v.
Only(f, g, r, v) == g[r] = v /\ \A p \in Requests : p # r => g[p] = f[p]

\* The hashes and their index are left alone.
SameHashes(c, d) ==
  d.block_hash = c.block_hash /\ d.index = c.index /\ d.hashes = c.hashes /\ d.mapped = c.mapped

\* r, which held nothing, has adopted the match m.
HasAdopted(c, d, r, m) ==
  /\ \A b \in Blocks : d.ref_cnt[b] = c.ref_cnt[b] + IF b \in Elements(m) THEN 1 ELSE 0
  /\ ListOf(d.free, {b \in Blocks : c.ref_cnt[b] = 0} \ Elements(m)) /\ KeepsOrder(c.free, d.free)
  /\ Only(c.blocks, d.blocks, r, m) /\ Only(c.num_cached, d.num_cached, r, Len(m))
  /\ SameHashes(c, d)

\* r has drawn n blocks, which were at the front of the queue.
HasDrawn(c, d, r, n) ==
  LET taken == Elements(NewBlocks(c, n)) IN
  /\ \A b \in Blocks : d.ref_cnt[b] = c.ref_cnt[b] + IF b \in taken THEN 1 ELSE 0
  /\ \A b \in Blocks : d.block_hash[b] = IF b \in taken THEN NoHash ELSE c.block_hash[b]
  /\ d.index = {e \in c.index : e[2] \notin taken}
  /\ d.free = SubSeq(c.free, n + 1, Len(c.free))
  /\ Only(c.blocks, d.blocks, r, c.blocks[r] \o NewBlocks(c, n))
  /\ d.num_cached = c.num_cached /\ d.hashes = c.hashes /\ d.mapped = c.mapped

\* r has given its blocks back.
HasGivenBack(c, d, r) ==
  /\ \A b \in Blocks : d.ref_cnt[b] = c.ref_cnt[b] - IF b \in Elements(c.blocks[r]) THEN 1 ELSE 0
  /\ d.free = Entered(c.ref_cnt, c.block_hash, c.free, Reverse(c.blocks[r]))
  /\ Only(c.blocks, d.blocks, r, <<>>) /\ Only(c.num_cached, d.num_cached, r, 0)
  /\ SameHashes(c, d)

LEMMA AdoptEffect ==
  ASSUME NEW Tok, NEW c, InOrder(c, Tok), NEW r \in Requests, NEW m, m # <<>>,
         IsMatch(c, r, m), MayAdopt(c, r, m)
  PROVE  HasAdopted(c, Adopt(c, r, m), r, m)
<1> DEFINE ref  == c.ref_cnt
           new  == [b \in Blocks |-> ref[b] + IF b \in Elements(m) THEN 1 ELSE 0]
           q    == OneByOne(RemoveFirst, c.free, m)
           have == [c.blocks EXCEPT ![r] = m]
           hit  == [c.num_cached EXCEPT ![r] = Len(m)]
           d    == Adopt(c, r, m)
<1>1. c \in Caches(Tok) /\ PoolInOrder(ref, c.free, c.blocks)
  BY DEF InOrder
<1>2. c.blocks \in [Requests -> Seq(Blocks)] /\ c.num_cached \in [Requests -> Nat]
  BY <1>1 DEF Caches
<1>3. ListOf(c.free, {b \in Blocks : ref[b] = 0}) /\ m \in Seq(Blocks)
  BY <1>1, Zenon DEF PoolInOrder, IsMatch
<1>4. ListOf(q, {b \in Blocks : ref[b] = 0} \ Elements(m)) /\ KeepsOrder(c.free, q)
  <2> DEFINE Z == {b \in Blocks : ref[b] = 0}
  <2> HIDE DEF Z
  <2>1. ListOf(c.free, Z)
    BY <1>3 DEF Z
  <2>2. ListOf(q, Z \ Elements(m)) /\ KeepsOrder(c.free, q)
    BY <1>3, <2>1, ListRemoveAll, Zenon
  <2> QED
    BY <2>2 DEF Z
<1>5. d = [c EXCEPT !.ref_cnt = new, !.free = q, !.blocks = have, !.num_cached = hit]
  <2>1. Touch(c, m) = [c EXCEPT !.ref_cnt = new, !.free = q]
    BY <1>1, Zenon DEF Touch
  <2>2. d = [Touch(c, m) EXCEPT !.blocks[r] = m, !.num_cached[r] = Len(m)]
    BY Zenon DEF Adopt
  <2> HIDE DEF d, new, q
  <2> QED
    BY <1>1, <2>1, <2>2 DEF Caches
<1>6. /\ \A b \in Blocks : new[b] = ref[b] + IF b \in Elements(m) THEN 1 ELSE 0
      /\ Only(c.blocks, have, r, m) /\ Only(c.num_cached, hit, r, Len(m))
  BY <1>2, Zenon DEF Only
<1> HIDE DEF d, new, q, have, hit
<1>7. d.ref_cnt = new /\ d.free = q /\ d.blocks = have /\ d.num_cached = hit /\ SameHashes(c, d)
  BY <1>1, <1>5 DEF Caches, SameHashes
<1> QED
  BY <1>4, <1>6, <1>7, Zenon DEF HasAdopted, d

LEMMA DrawEffect ==
  ASSUME NEW Tok, NEW c, InOrder(c, Tok), NEW r \in Requests, NEW n \in Nat, n <= Len(c.free)
  PROVE  HasDrawn(c, Draw(c, r, n), r, n)
<1> DEFINE ref   == c.ref_cnt
           fresh == NewBlocks(c, n)
           taken == Elements(fresh)
           Z     == {b \in Blocks : ref[b] = 0}
           new   == [b \in Blocks |-> IF b \in taken THEN 1 ELSE ref[b]]
           h     == [b \in Blocks |-> IF b \in taken THEN NoHash ELSE c.block_hash[b]]
           x     == {e \in c.index : e[2] \notin taken}
           q     == SubSeq(c.free, n + 1, Len(c.free))
           have  == [c.blocks EXCEPT ![r] = c.blocks[r] \o fresh]
           d     == Draw(c, r, n)
<1>1. c \in Caches(Tok) /\ PoolInOrder(ref, c.free, c.blocks)
  BY DEF InOrder
<1>2. ref \in [Blocks -> Nat] /\ c.blocks \in [Requests -> Seq(Blocks)]
  BY <1>1 DEF Caches
<1>3. ListOf(c.free, Z)
  BY <1>1, Zenon DEF PoolInOrder
<1>4. taken \subseteq Z
  <2> HIDE DEF Z
  <2> QED
    BY <1>3, ListSplit, Zenon DEF NewBlocks
<1>5. d = [c EXCEPT !.ref_cnt = new, !.block_hash = h, !.index = x, !.free = q, !.blocks = have]
  <2>1. TakeNewBlocks(c, n) = [c EXCEPT !.ref_cnt = new, !.block_hash = h, !.index = x, !.free = q]
    BY <1>1, Zenon DEF TakeNewBlocks
  <2>2. d = [TakeNewBlocks(c, n) EXCEPT !.blocks[r] = @ \o fresh]
    BY Zenon DEF Draw
  <2> HIDE DEF d, new, h, x, fresh, q
  <2> QED
    BY <1>1, <2>1, <2>2 DEF Caches
<1>6. /\ \A b \in Blocks : new[b] = ref[b] + IF b \in taken THEN 1 ELSE 0
      /\ \A b \in Blocks : h[b] = IF b \in taken THEN NoHash ELSE c.block_hash[b]
  <2> HIDE DEF taken
  <2> QED
    BY <1>2, <1>4
<1>7. Only(c.blocks, have, r, c.blocks[r] \o fresh)
  BY <1>2, Zenon DEF Only
<1> HIDE DEF d, new, h, x, q, have
<1>8. /\ d.ref_cnt = new /\ d.block_hash = h /\ d.index = x /\ d.free = q /\ d.blocks = have
      /\ d.num_cached = c.num_cached /\ d.hashes = c.hashes /\ d.mapped = c.mapped
  BY <1>1, <1>5 DEF Caches
<1> QED
  BY <1>6, <1>7, <1>8, Zenon DEF HasDrawn, d, x, q

LEMMA GiveBackEffect ==
  ASSUME NEW Tok, NEW c, InOrder(c, Tok), NEW r \in Requests
  PROVE  HasGivenBack(c, CoordinatorFree(c, r), r)
<1> DEFINE d    == CoordinatorFree(c, r)
           own  == c.blocks[r]
           s    == Reverse(own)
           ref  == c.ref_cnt
           q    == Entered(ref, c.block_hash, c.free, s)
           new  == [b \in Blocks |-> ref[b] - IF b \in Elements(own) THEN 1 ELSE 0]
           gone == [c.blocks EXCEPT ![r] = <<>>]
           zero == [c.num_cached EXCEPT ![r] = 0]
<1>1. c \in Caches(Tok) /\ PoolInOrder(ref, c.free, c.blocks)
  BY DEF InOrder
<1>2. c.blocks \in [Requests -> Seq(Blocks)] /\ c.num_cached \in [Requests -> Nat] /\ own \in Seq(Blocks)
  BY <1>1 DEF Caches
<1>3. Elements(s) = Elements(own)
  <2>1. own \in Seq(Elements(own))
    <3>1. own \in Seq(Blocks)
      BY <1>2
    <3> HIDE DEF own
    <3> QED
      BY <3>1 DEF Elements
  <2>2. ListOf(own, Elements(own))
    BY <1>1, <2>1, Zenon DEF PoolInOrder, ListOf
  <2>3. ListOf(s, Elements(own))
    BY <2>2, ListBackwards, Zenon
  <2> QED
    BY <2>3, Zenon DEF ListOf
<1>4. d = [c EXCEPT !.ref_cnt = new, !.free = q, !.blocks = gone, !.num_cached = zero]
  <2>1. FreeBlocks(c, s) = [c EXCEPT !.ref_cnt = [b \in Blocks |-> ref[b] - IF b \in Elements(s) THEN 1 ELSE 0],
                                     !.free = q]
    BY <1>1, Zenon DEF FreeBlocks, Entered
  <2>2. FreeBlocks(c, s) = [c EXCEPT !.ref_cnt = new, !.free = q]
    BY <1>3, <2>1, Zenon
  <2>3. d = [FreeBlocks(c, s) EXCEPT !.blocks[r] = <<>>, !.num_cached[r] = 0]
    BY Zenon DEF CoordinatorFree
  <2> HIDE DEF d, new, q
  <2> QED
    BY <1>1, <2>2, <2>3 DEF Caches
<1>5. /\ \A b \in Blocks : new[b] = ref[b] - IF b \in Elements(own) THEN 1 ELSE 0
      /\ Only(c.blocks, gone, r, <<>>) /\ Only(c.num_cached, zero, r, 0)
  BY <1>2, Zenon DEF Only
<1> HIDE DEF d, new, q, gone, zero
<1>6. d.ref_cnt = new /\ d.free = q /\ d.blocks = gone /\ d.num_cached = zero /\ SameHashes(c, d)
  BY <1>1, <1>4 DEF Caches, SameHashes
<1> QED
  BY <1>5, <1>6, Zenon DEF HasGivenBack, d, q
\* The chain of r is now x.
HasChain(c, d, r, x) ==
  /\ SamePool(c, d) /\ d.block_hash = c.block_hash /\ d.index = c.index /\ d.num_cached = c.num_cached
  /\ Only(c.hashes, d.hashes, r, x)

LEMMA TrackEffect ==
  ASSUME NEW Tok, NEW c, InOrder(c, Tok), NEW r \in Requests, NEW tokens
  PROVE  HasChain(c, Track(c, r, tokens), r, ExtendHashes(c.hashes[r], tokens)) /\ Track(c, r, tokens).mapped = c.mapped
<1> DEFINE x == ExtendHashes(c.hashes[r], tokens)
           y == [c.hashes EXCEPT ![r] = x]
           d == Track(c, r, tokens)
<1>1. c \in Caches(Tok)
  BY DEF InOrder
<1>2. d = [c EXCEPT !.hashes = y]
  BY DEF Track
<1> HIDE DEF x
<1>3. Only(c.hashes, y, r, x)
  BY <1>1 DEF Only, Caches
<1> HIDE DEF d, y
<1>4. /\ SamePool(c, d) /\ d.block_hash = c.block_hash /\ d.index = c.index
      /\ d.num_cached = c.num_cached /\ d.hashes = y /\ d.mapped = c.mapped
  BY <1>1, <1>2 DEF Caches, SamePool
<1> QED
  BY <1>3, <1>4, Zenon DEF HasChain, d, x

\* free is CoordinatorFree and the end of the tracking.
LEMMA FreeEffect ==
  ASSUME NEW Tok, NEW c, InOrder(c, Tok), NEW r \in Requests
  PROVE  /\ HasChain(CoordinatorFree(c, r), Free(c, r), r, <<>>)
         /\ Only(CoordinatorFree(c, r).mapped, Free(c, r).mapped, r, 0)
<1> DEFINE e == CoordinatorFree(c, r)
           d == Free(c, r)
           x == [e.hashes EXCEPT ![r] = <<>>]
           y == [e.committed EXCEPT ![r] = 0]
           z == [e.mapped EXCEPT ![r] = 0]
<1>1. e \in Caches(Tok)
  BY CoordinatorFreeInOrder, Zenon DEF InOrder
<1>2. d = [e EXCEPT !.hashes[r] = <<>>, !.committed[r] = 0, !.mapped[r] = 0]
  BY Zenon DEF Free
<1> HIDE DEF d, e
<1>3. d = [e EXCEPT !.hashes = x, !.committed = y, !.mapped = z]
  BY <1>2
<1>4. Only(e.hashes, x, r, <<>>) /\ Only(e.mapped, z, r, 0)
  BY <1>1 DEF Caches, Only
<1> HIDE DEF x, y, z
<1>5. /\ SamePool(e, d) /\ d.block_hash = e.block_hash /\ d.index = e.index
      /\ d.num_cached = e.num_cached /\ d.hashes = x /\ d.mapped = z
  BY <1>1, <1>3 DEF Caches, SamePool
<1> QED
  BY <1>4, <1>5, Zenon DEF HasChain, d, e

\* The blocks of r at the places K have entered the index.
HasIndexed(c, d, r, K) ==
  /\ SamePool(c, d) /\ d.hashes = c.hashes /\ d.mapped = c.mapped
  /\ \A i \in K : /\ i \in 1 .. Len(c.blocks[r]) /\ i \in 1 .. Len(c.hashes[r])
                  /\ c.block_hash[c.blocks[r][i]] = NoHash
                  /\ d.block_hash[c.blocks[r][i]] = c.hashes[r][i]
  /\ \A b \in Blocks : (\A i \in K : c.blocks[r][i] # b) => d.block_hash[b] = c.block_hash[b]
  /\ d.index = c.index \cup {<<c.hashes[r][i], c.blocks[r][i]>> : i \in K}

\* The places up to full the index does not have yet.
Due(c, r, full) ==
  {i \in c.num_cached[r] + 1 .. full : EnableCaching /\ c.block_hash[c.blocks[r][i]] = NoHash}

LEMMA IndexEffect ==
  ASSUME NEW Tok, NEW c, InOrder(c, Tok), NEW r \in Requests, NEW full \in Nat,
         full <= Len(c.blocks[r]), full <= Len(c.hashes[r])
  PROVE  /\ HasIndexed(c, IndexBlocks(c, r, c.num_cached[r] + 1 .. full), r, Due(c, r, full))
         /\ IndexBlocks(c, r, c.num_cached[r] + 1 .. full).num_cached = c.num_cached
         /\ IndexBlocks(c, r, c.num_cached[r] + 1 .. full) \in Caches(Tok)
<1> DEFINE K   == c.num_cached[r] + 1 .. full
           d   == IndexBlocks(c, r, K)
           own == c.blocks[r]
           ch  == c.hashes[r]
           new == {i \in K : EnableCaching /\ c.block_hash[own[i]] = NoHash}
           h   == [b \in Blocks |-> IF \E i \in new : own[i] = b
                                    THEN ch[CHOOSE i \in new : own[i] = b] ELSE c.block_hash[b]]
           x   == c.index \cup {<<ch[i], own[i]>> : i \in new}
<1>1. /\ c \in Caches(Tok) /\ own \in Seq(Blocks) /\ ch \in Seq(Seq(Tok)) /\ IsInjective(own)
      /\ c.num_cached[r] \in Nat
  BY DEF InOrder, Caches, PoolInOrder
<1>2. d = [c EXCEPT !.block_hash = h, !.index = x]
  BY <1>1 DEF IndexBlocks, Caches
<1>3. new = Due(c, r, full)
  BY Zenon DEF Due
<1>4. \A i \in new : /\ i \in 1 .. Len(own) /\ i \in 1 .. Len(ch) /\ own[i] \in Blocks
                     /\ c.block_hash[own[i]] = NoHash
  BY <1>1
<1>5. \A i \in new : h[own[i]] = ch[i]
  <2> TAKE i \in new
  <2> DEFINE k == CHOOSE j \in new : own[j] = own[i]
  <2>1. k \in new /\ own[k] = own[i]
    OBVIOUS
  <2>2. k \in DOMAIN own /\ i \in DOMAIN own
    <3>1. k \in 1 .. Len(own) /\ i \in 1 .. Len(own)
      BY <1>4, <2>1, Zenon
    <3>2. DOMAIN own = 1 .. Len(own)
      BY <1>1
    <3> QED
      BY <3>1, <3>2, Zenon
  <2>3. k = i
    BY <1>1, <2>1, <2>2 DEF IsInjective
  <2> QED
    BY <1>4, <2>3
<1>6. \A b \in Blocks : (\A i \in new : own[i] # b) => h[b] = c.block_hash[b]
  BY Zenon
<1>7. SamePool(c, d) /\ d \in Caches(Tok)
  <2>1. K \subseteq 1 .. Len(c.blocks[r]) /\ K \subseteq 1 .. Len(c.hashes[r])
    BY <1>1
  <2> QED
    BY <2>1, IndexBlocksInOrder, Zenon DEF InOrder
<1> HIDE DEF h, x
<1>8. d.block_hash = h /\ d.index = x /\ d.hashes = c.hashes /\ d.mapped = c.mapped /\ d.num_cached = c.num_cached
  BY <1>1, <1>2 DEF Caches
<1> HIDE DEF d, new, own, ch
<1>9. HasIndexed(c, d, r, new)
  BY <1>4, <1>5, <1>6, <1>7, <1>8, Zenon DEF HasIndexed, own, ch, x
<1> QED
  BY <1>3, <1>7, <1>8, <1>9, Zenon DEF d, K
\* What commit changed, if anything: the blocks of r up to full are indexed.
HasCommitted(c, d, r, full, n) ==
  /\ full > c.num_cached[r] /\ full <= Len(c.blocks[r]) /\ full <= Len(c.hashes[r]) /\ full <= FullBlocks(n)
  /\ HasIndexed(c, d, r, Due(c, r, full)) /\ Only(c.num_cached, d.num_cached, r, full)

\* Hashes, index, pool and cursors are those of c.
SameCache(c, d) == SamePool(c, d) /\ SameHashes(c, d) /\ d.num_cached = c.num_cached

LEMMA CommitEffect ==
  ASSUME NEW Tok, NEW c, InOrder(c, Tok), NEW r \in Requests, NEW n \in Int
  PROVE  SameCache(c, Commit(c, r, n)) \/ \E full \in Nat : HasCommitted(c, Commit(c, r, n), r, full, n)
<1> DEFINE d     == Commit(c, r, n)
           full  == Smaller(FullBlocks(n), Len(c.hashes[r]))
           start == c.num_cached[r]
           ready == full > start /\ Len(c.blocks[r]) >= full
           i     == IndexBlocks(c, r, start + 1 .. full)
           e     == IF ready THEN [i EXCEPT !.num_cached[r] = full] ELSE c
<1>1. CASE n <= c.committed[r]
  BY <1>1, Zenon DEF Commit, SamePool, SameHashes, SameCache
<1>2. CASE ~ (n <= c.committed[r])
  <2>1. d = [e EXCEPT !.committed[r] = n]
    BY <1>2, Zenon DEF Commit
  <2>2. /\ c \in Caches(Tok) /\ start \in Nat /\ Len(c.blocks[r]) \in Nat /\ Len(c.hashes[r]) \in Nat
        /\ FullBlocks(n) \in Int
    <3>1. c \in Caches(Tok)
      BY DEF InOrder
    <3>2. FullBlocks(n) \in Int
      BY WholeBlocks DEF FullBlocks
    <3>3. start \in Nat /\ c.blocks[r] \in Seq(Blocks) /\ c.hashes[r] \in Seq(Seq(Tok))
      BY <3>1 DEF Caches
    <3>4. Len(c.blocks[r]) \in Nat /\ Len(c.hashes[r]) \in Nat
      BY <3>3
    <3> QED
      BY <3>1, <3>2, <3>3, <3>4
  <2>3. full \in Int /\ full <= Len(c.hashes[r]) /\ full <= FullBlocks(n)
    BY <2>2 DEF Smaller
  <2> HIDE DEF d
  <2>4. CASE ~ ready
    <3>1. d = [c EXCEPT !.committed = [c.committed EXCEPT ![r] = n]]
      BY <2>1, <2>4
    <3> DEFINE y == [c.committed EXCEPT ![r] = n]
    <3> HIDE DEF y
    <3>2. d = [c EXCEPT !.committed = y]
      BY <3>1 DEF y
    <3>3. SameCache(c, d)
      BY <2>2, <3>2 DEF Caches, SameCache, SamePool, SameHashes
    <3> QED
      BY <3>3 DEF d
  <2>5. CASE ready
    <3> HIDE DEF full
    <3>1. full \in Nat /\ full > start /\ full <= Len(c.blocks[r])
      BY <2>2, <2>3, <2>5
    <3>2. HasIndexed(c, i, r, Due(c, r, full)) /\ i.num_cached = c.num_cached /\ i \in Caches(Tok)
      BY <2>3, <3>1, IndexEffect, Zenon
    <3> HIDE DEF i
    <3>3. d = [[i EXCEPT !.num_cached[r] = full] EXCEPT !.committed[r] = n]
      BY <2>1, <2>5, Zenon
    <3> DEFINE y == [i.num_cached EXCEPT ![r] = full]
               z == [i.committed EXCEPT ![r] = n]
    <3>4. d = [i EXCEPT !.num_cached = y, !.committed = z]
      BY <3>2, <3>3 DEF Caches
    <3>5. Only(c.num_cached, y, r, full)
      BY <3>2 DEF Only, Caches
    <3> HIDE DEF y, z
    <3>6. /\ d.ref_cnt = i.ref_cnt /\ d.free = i.free /\ d.blocks = i.blocks /\ d.hashes = i.hashes
          /\ d.mapped = i.mapped /\ d.block_hash = i.block_hash /\ d.index = i.index /\ d.num_cached = y
      BY <3>2, <3>4 DEF Caches
    <3>7. HasIndexed(c, d, r, Due(c, r, full))
      BY <3>2, <3>6, Zenon DEF HasIndexed, SamePool
    <3>8. HasCommitted(c, d, r, full, n)
      BY <2>3, <3>1, <3>5, <3>6, <3>7, Zenon DEF HasCommitted
    <3> QED
      BY <3>1, <3>8, Zenon DEF d
  <2> QED
    BY <2>4, <2>5, Zenon
<1> QED
  BY <1>1, <1>2, Zenon

\* reset: no block is cached, and no chain is tracked.
HasReset(c, d) ==
  /\ SamePool(c, d) /\ d.num_cached = c.num_cached /\ d.index = {}
  /\ d.block_hash = [b \in Blocks |-> NoHash] /\ d.hashes = [r \in Requests |-> <<>>]
  /\ d.mapped = [r \in Requests |-> 0]

LEMMA ResetEffect ==
  ASSUME NEW Tok, NEW c, InOrder(c, Tok)
  PROVE  HasReset(c, Reset(c)) /\ InOrder(Reset(c), Tok)
<1> DEFINE h == [b \in Blocks |-> NoHash]
           x == [r \in Requests |-> <<>>]
           y == [r \in Requests |-> 0]
           d == Reset(c)
<1>1. c \in Caches(Tok)
  BY DEF InOrder
<1>2. h \in [Blocks -> Seq(Tok)] /\ x \in [Requests -> Seq(Seq(Tok))] /\ y \in [Requests -> Nat]
      /\ y \in [Requests -> Int] /\ \A r \in Requests : ChainInOrder(x[r])
  BY DEF NoHash, ChainInOrder
<1>3. d = [c EXCEPT !.block_hash = h, !.index = {}, !.hashes = x, !.committed = y, !.mapped = y]
  BY Zenon DEF Reset
<1> HIDE DEF d, h, x, y
<1>4. /\ d \in Caches(Tok) /\ d.ref_cnt = c.ref_cnt /\ d.free = c.free /\ d.blocks = c.blocks
      /\ d.num_cached = c.num_cached /\ d.index = {} /\ d.block_hash = h /\ d.hashes = x /\ d.mapped = y
  BY <1>1, <1>2, <1>3 DEF Caches
<1>5. IndexInOrder({}, h)
  BY Zenon DEF IndexInOrder
<1>6. InOrder(d, Tok)
  BY <1>2, <1>4, <1>5, Zenon DEF InOrder
<1> QED
  BY <1>4, <1>6, Zenon DEF HasReset, SamePool, d, h, x, y

-----------------------------------------------------------------------------
(* Where cached blocks may be. *)

\* The cached blocks of r are its first ones, up to its cursor, and each is
\* cached under the hash of its place.
CachedInFront(own, n, chain, block_hash) ==
  /\ n <= Len(own)
  /\ \A i \in 1 .. Len(own) :
       /\ block_hash[own[i]] # NoHash =>
            i <= n /\ i <= Len(chain) /\ block_hash[own[i]] = chain[i]
       /\ EnableCaching /\ i <= n => block_hash[own[i]] # NoHash

\* Two requests share cached blocks only.
SharedAreCached(blocks, block_hash) ==
  \A r, s \in Requests : \A b \in Blocks :
    r # s /\ b \in Elements(blocks[r]) /\ b \in Elements(blocks[s]) => block_hash[b] # NoHash

\* The index knows every cached block.
HashedAreIndexed(index, block_hash) ==
  \A b \in Blocks : block_hash[b] # NoHash => <<block_hash[b], b>> \in index

\* The prefix that ends one block earlier.
Parent(h) == SubSeq(h, 1, Len(h) - BlockSize)

Nested(chain) == \A i \in 2 .. Len(chain) : chain[i - 1] = Parent(chain[i])

Tidy(c) ==
  /\ HashlessFirst(c.free, c.block_hash)
  /\ \A r \in Requests : CachedInFront(c.blocks[r], c.num_cached[r], c.hashes[r], c.block_hash)
  /\ SharedAreCached(c.blocks, c.block_hash)
  /\ HashedAreIndexed(c.index, c.block_hash)
  /\ \A r \in Requests : Nested(c.hashes[r])

\* Every cached prefix of several blocks has its parent cached in a block
\* that is held, or that leaves the queue later.
Anchored(c) ==
  /\ c.index # {} => EnableCaching
  /\ \A e \in c.index : Len(e[1]) > BlockSize =>
       \E w \in c.index : /\ w[1] = Parent(e[1])
                          /\ c.ref_cnt[w[2]] # 0 \/ Before(c.free, e[2], w[2])
\* A block has a holder exactly when it is not free.
LEMMA HeldCounts ==
  ASSUME NEW Tok, NEW c, InOrder(c, Tok)
  PROVE  /\ \A r \in Requests : \A b \in Elements(c.blocks[r]) : b \in Blocks /\ c.ref_cnt[b] # 0
         /\ \A b \in Blocks : c.ref_cnt[b] # 0 => \E r \in Requests : b \in Elements(c.blocks[r])
         /\ \A r \in Requests : \A i \in 1 .. Len(c.blocks[r]) :
              c.blocks[r][i] \in Elements(c.blocks[r]) /\ c.blocks[r][i] \in Blocks /\ c.ref_cnt[c.blocks[r][i]] # 0
<1>1. c.blocks \in [Requests -> Seq(Blocks)] /\ c.ref_cnt \in [Blocks -> Nat]
  BY DEF InOrder, Caches
<1>2. \A b \in Blocks : c.ref_cnt[b] = Cardinality(HoldersOf(c.blocks, b))
  BY Zenon DEF InOrder, PoolInOrder
<1>3. ASSUME NEW r \in Requests, NEW b \in Elements(c.blocks[r])
      PROVE  b \in Blocks /\ c.ref_cnt[b] # 0
  <2>1. b \in Blocks
    BY <1>1 DEF Elements
  <2>2. r \in HoldersOf(c.blocks, b) /\ HoldersOf(c.blocks, b) \in SUBSET Requests
    BY DEF HoldersOf
  <2>3. Cardinality(HoldersOf(c.blocks, b)) >= 1 /\ Cardinality(HoldersOf(c.blocks, b)) \in Nat
    BY <2>2, OneHolderLess, Zenon
  <2>4. c.ref_cnt[b] = Cardinality(HoldersOf(c.blocks, b))
    BY <1>2, <2>1, Zenon
  <2> QED
    BY <2>1, <2>3, <2>4
<1>4. ASSUME NEW b \in Blocks, c.ref_cnt[b] # 0
      PROVE  \E r \in Requests : b \in Elements(c.blocks[r])
  <2>1. Cardinality(HoldersOf(c.blocks, b)) # 0
    BY <1>2, <1>4, Zenon
  <2>2. HoldersOf(c.blocks, b) # {}
    BY <2>1, FS_EmptySet, Zenon
  <2> QED
    BY <2>2, Zenon DEF HoldersOf
<1>5. \A r \in Requests : \A i \in 1 .. Len(c.blocks[r]) : c.blocks[r][i] \in Elements(c.blocks[r])
  BY Zenon DEF Elements
<1> QED
  BY <1>3, <1>4, <1>5, Zenon

\* Adoption: the blocks r takes are cached under the hashes of its chain.
LEMMA AdoptTidy ==
  ASSUME NEW Tok, NEW c, InOrder(c, Tok), Tidy(c), NEW r \in Requests, NEW m, IsMatch(c, r, m),
         NEW d, HasAdopted(c, d, r, m)
  PROVE  Tidy(d)
<1>1. /\ d.block_hash = c.block_hash /\ d.index = c.index /\ d.hashes = c.hashes
      /\ d.blocks[r] = m /\ d.num_cached[r] = Len(m)
      /\ \A p \in Requests : p # r => d.blocks[p] = c.blocks[p] /\ d.num_cached[p] = c.num_cached[p]
  BY Zenon DEF HasAdopted, SameHashes, Only
<1>2. m \in Seq(Blocks) /\ Len(m) <= Len(c.hashes[r]) /\ Len(m) \in Nat /\ Len(c.hashes[r]) \in Nat
  BY DEF IsMatch, InOrder, Caches
<1>3. \A i \in 1 .. Len(m) : /\ c.block_hash[m[i]] = c.hashes[r][i] /\ c.block_hash[m[i]] # NoHash
                             /\ i <= Len(m) /\ i <= Len(c.hashes[r])
  <2> SUFFICES ASSUME NEW i \in 1 .. Len(m)
               PROVE  /\ c.block_hash[m[i]] = c.hashes[r][i] /\ c.block_hash[m[i]] # NoHash
                      /\ i <= Len(m) /\ i <= Len(c.hashes[r])
    OBVIOUS
  <2> DEFINE e == <<c.hashes[r][i], m[i]>>
  <2>1. e \in c.index
    BY Zenon DEF IsMatch
  <2>2. e[1] = c.hashes[r][i] /\ e[2] = m[i]
    OBVIOUS
  <2>3. c.block_hash[e[2]] = e[1] /\ e[1] # NoHash
    BY <2>1, Zenon DEF InOrder, IndexInOrder
  <2>4. i <= Len(m) /\ i <= Len(c.hashes[r])
    BY <1>2
  <2> QED
    BY <2>2, <2>3, <2>4, Zenon
<1>4. HashlessFirst(d.free, c.block_hash)
  BY OrderKeepsHashless, Zenon DEF HasAdopted, Tidy
<1>5. CachedInFront(m, Len(m), c.hashes[r], c.block_hash)
  <2>1. Len(m) <= Len(m)
    BY <1>2
  <2> QED
    BY <1>3, <2>1, Zenon DEF CachedInFront
<1>6. \A p \in Requests : CachedInFront(d.blocks[p], d.num_cached[p], d.hashes[p], d.block_hash)
  BY <1>1, <1>5, Zenon DEF Tidy
<1>7. \A b \in Elements(m) : c.block_hash[b] # NoHash
  BY <1>3, Zenon DEF Elements
<1>8. SharedAreCached(d.blocks, c.block_hash)
  <2> SUFFICES ASSUME NEW p \in Requests, NEW s \in Requests, NEW b \in Blocks, p # s,
                      b \in Elements(d.blocks[p]), b \in Elements(d.blocks[s])
               PROVE  c.block_hash[b] # NoHash
    BY Zenon DEF SharedAreCached
  <2>1. CASE p = r \/ s = r
    BY <1>1, <1>7, <2>1, Zenon
  <2>2. CASE p # r /\ s # r
    BY <1>1, <2>2, Zenon DEF Tidy, SharedAreCached
  <2> QED
    BY <2>1, <2>2
<1> QED
  BY <1>1, <1>4, <1>6, <1>8, Zenon DEF Tidy

\* A draw: the blocks it takes were free, and are no longer cached.
LEMMA DrawTidy ==
  ASSUME NEW Tok, NEW c, InOrder(c, Tok), Tidy(c), NEW r \in Requests, NEW n \in Nat, n <= Len(c.free),
         NEW d, HasDrawn(c, d, r, n)
  PROVE  Tidy(d)
<1> DEFINE fresh == NewBlocks(c, n)
           taken == Elements(fresh)
           m     == Len(c.free)
<1>1. /\ \A b \in Blocks : d.block_hash[b] = IF b \in taken THEN NoHash ELSE c.block_hash[b]
      /\ d.index = {e \in c.index : e[2] \notin taken} /\ d.free = SubSeq(c.free, n + 1, m)
      /\ d.hashes = c.hashes /\ d.num_cached = c.num_cached /\ d.blocks[r] = c.blocks[r] \o fresh
      /\ \A p \in Requests : p # r => d.blocks[p] = c.blocks[p]
  BY Zenon DEF HasDrawn, Only
<1>2. /\ c.blocks \in [Requests -> Seq(Blocks)] /\ c.free \in Seq(Blocks) /\ m \in Nat
      /\ c.index \subseteq Seq(Tok) \X Blocks /\ c.num_cached \in [Requests -> Nat]
  BY DEF InOrder, Caches
<1>3. /\ ListOf(c.free, {b \in Blocks : c.ref_cnt[b] = 0}) /\ fresh = SubSeq(c.free, 1, n)
  BY Zenon DEF InOrder, PoolInOrder, NewBlocks
<1>4. /\ taken \subseteq {b \in Blocks : c.ref_cnt[b] = 0} /\ ListOf(fresh, taken)
      /\ ListOf(d.free, {b \in Blocks : c.ref_cnt[b] = 0} \ taken)
  <2> DEFINE Z == {b \in Blocks : c.ref_cnt[b] = 0}
  <2> HIDE DEF Z, fresh, m
  <2>1. ListOf(c.free, Z)
    BY <1>3 DEF Z
  <2> DEFINE front == SubSeq(c.free, 1, n)
  <2>2. /\ Elements(front) \subseteq Z /\ ListOf(front, Elements(front))
        /\ ListOf(SubSeq(c.free, n + 1, Len(c.free)), Z \ Elements(front))
    BY <2>1, ListSplit, Zenon
  <2>3. taken \subseteq Z /\ ListOf(fresh, taken) /\ ListOf(d.free, Z \ taken)
    BY <1>1, <1>3, <2>2, Zenon DEF m
  <2> QED
    BY <2>3 DEF Z
<1>5. \A p \in Requests : \A b \in Elements(c.blocks[p]) : b \in Blocks /\ b \notin taken /\ d.block_hash[b] = c.block_hash[b]
  <2> TAKE p \in Requests
  <2> TAKE b \in Elements(c.blocks[p])
  <2>1. b \in Blocks /\ c.ref_cnt[b] # 0
    BY HeldCounts, Zenon
  <2>2. b \notin taken
    BY <1>4, <2>1, Zenon
  <2> QED
    BY <1>1, <2>1, <2>2, Zenon
<1> HIDE DEF fresh
<1>6. HashlessFirst(d.free, d.block_hash)
  <2>1. Len(d.free) = m - n /\ \A i \in 1 .. m - n : n + i \in 1 .. m /\ d.free[i] = c.free[n + i]
    BY <1>1, <1>2
  <2> SUFFICES ASSUME NEW i \in 1 .. Len(d.free), NEW j \in 1 .. Len(d.free), i < j, d.block_hash[d.free[j]] = NoHash
               PROVE  d.block_hash[d.free[i]] = NoHash
    BY Zenon DEF HashlessFirst
  <2>2. \A k \in 1 .. Len(d.free) : d.free[k] \in {b \in Blocks : c.ref_cnt[b] = 0} \ taken
    BY <1>4, ListPlaces, Zenon
  <2>3. d.block_hash[d.free[i]] = c.block_hash[d.free[i]] /\ d.block_hash[d.free[j]] = c.block_hash[d.free[j]]
    BY <1>1, <2>2, Zenon
  <2>4. n + i < n + j
    BY <1>2, <2>1
  <2>5. n + i \in 1 .. m /\ n + j \in 1 .. m /\ d.free[i] = c.free[n + i] /\ d.free[j] = c.free[n + j]
    BY <2>1, Zenon
  <2>6. HashlessFirst(c.free, c.block_hash)
    BY Zenon DEF Tidy
  <2> QED
    BY <2>3, <2>4, <2>5, <2>6, Zenon DEF HashlessFirst
<1>7. ASSUME NEW p \in Requests
      PROVE  CachedInFront(d.blocks[p], d.num_cached[p], d.hashes[p], d.block_hash)
  <2> DEFINE own == c.blocks[p]
             k   == c.num_cached[p]
  <2>1. CachedInFront(own, k, c.hashes[p], c.block_hash)
    BY Zenon DEF Tidy
  <2>2. \A i \in 1 .. Len(own) : d.block_hash[own[i]] = c.block_hash[own[i]]
    BY <1>5, Zenon DEF Elements
  <2>3. CASE p # r
    <3>1. CachedInFront(own, k, c.hashes[p], d.block_hash)
      <4> HIDE DEF own, k
      <4> QED
        BY <2>1, <2>2, Zenon DEF CachedInFront
    <3> QED
      BY <1>1, <2>3, <3>1, Zenon
  <2>4. CASE p = r
    <3> DEFINE t == own \o fresh
    <3>1. own \in Seq(Blocks) /\ Len(own) \in Nat /\ k \in Nat
      BY <1>2
    <3>2. fresh \in Seq(taken) /\ Len(fresh) \in Nat /\ \A i \in 1 .. Len(fresh) : fresh[i] \in taken
      BY <1>4, ListPlaces, Zenon
    <3> HIDE DEF own, k, taken
    <3>3. /\ Len(t) = Len(own) + Len(fresh)
          /\ \A i \in 1 .. Len(own) + Len(fresh) : t[i] = IF i <= Len(own) THEN own[i] ELSE fresh[i - Len(own)]
      BY <3>1, <3>2
    <3> HIDE DEF t
    <3>4. Len(t) \in Nat /\ \A i \in 1 .. Len(t) : IF i <= Len(own) THEN i \in 1 .. Len(own) /\ t[i] = own[i]
                                                   ELSE t[i] \in taken
      <4> SUFFICES ASSUME NEW i \in 1 .. Len(t)
                   PROVE  IF i <= Len(own) THEN i \in 1 .. Len(own) /\ t[i] = own[i] ELSE t[i] \in taken
        BY <3>1, <3>2, <3>3
      <4>1. CASE i <= Len(own)
        BY <3>1, <3>2, <3>3, <4>1
      <4>2. CASE ~ (i <= Len(own))
        <5>1. i - Len(own) \in 1 .. Len(fresh) /\ t[i] = fresh[i - Len(own)]
          BY <3>1, <3>2, <3>3, <4>2
        <5> QED
          BY <3>2, <4>2, <5>1, Zenon
      <4> QED
        BY <4>1, <4>2
    <3>5. \A i \in 1 .. Len(t) : ~ (i <= Len(own)) => d.block_hash[t[i]] = NoHash
      BY <1>1, <1>4, <3>4, Zenon
    <3>6. k <= Len(own) /\ k <= Len(t) /\ \A i \in 1 .. Len(t) : i <= k => i <= Len(own)
      <4>1. k <= Len(own)
        BY <2>1, Zenon DEF CachedInFront
      <4> QED
        BY <3>1, <3>2, <3>3, <4>1
    <3>7. ASSUME NEW i \in 1 .. Len(t)
          PROVE  /\ d.block_hash[t[i]] # NoHash =>
                      i <= k /\ i <= Len(c.hashes[p]) /\ d.block_hash[t[i]] = c.hashes[p][i]
                 /\ EnableCaching /\ i <= k => d.block_hash[t[i]] # NoHash
      <4>1. CASE i <= Len(own)
        BY <2>1, <2>2, <3>4, <4>1, Zenon DEF CachedInFront
      <4>2. CASE ~ (i <= Len(own))
        BY <3>5, <3>6, <4>2, Zenon
      <4> QED
        BY <4>1, <4>2
    <3>8. CachedInFront(t, k, c.hashes[p], d.block_hash)
      BY <3>6, <3>7, Zenon DEF CachedInFront
    <3> QED
      BY <1>1, <2>4, <3>8, Zenon DEF t, own, k
  <2> QED
    BY <2>3, <2>4
<1>8. SharedAreCached(d.blocks, d.block_hash)
  <2>1. \A p \in Requests : \A b \in Elements(d.blocks[p]) : b \in Elements(c.blocks[p]) \/ (p = r /\ b \in taken)
    <3> SUFFICES ASSUME NEW b \in Elements(d.blocks[r])
                 PROVE  b \in Elements(c.blocks[r]) \/ b \in taken
      BY <1>1, Zenon
    <3> DEFINE own == c.blocks[r]
    <3>1. own \in Seq(Blocks)
      BY <1>2
    <3>2. fresh \in Seq(taken)
      BY <1>4, Zenon DEF ListOf
    <3> HIDE DEF own
    <3>3. b \in Elements(own \o fresh)
      BY <1>1 DEF own
    <3>4. PICK i \in 1 .. Len(own \o fresh) : (own \o fresh)[i] = b
      BY <3>3, Zenon DEF Elements
    <3>5. CASE i <= Len(own)
      <4>1. i \in 1 .. Len(own) /\ own[i] = b
        BY <3>1, <3>2, <3>4, <3>5
      <4> QED
        BY <4>1, Zenon DEF own, Elements
    <3>6. CASE ~ (i <= Len(own))
      <4>1. i - Len(own) \in 1 .. Len(fresh) /\ fresh[i - Len(own)] = b
        <5> HIDE DEF taken
        <5> QED
          BY <3>1, <3>2, <3>4, <3>6
      <4> QED
        BY <4>1, Zenon DEF Elements
    <3> QED
      BY <3>5, <3>6 DEF own
  <2> SUFFICES ASSUME NEW p \in Requests, NEW s \in Requests, NEW b \in Blocks, p # s,
                      b \in Elements(d.blocks[p]), b \in Elements(d.blocks[s])
               PROVE  d.block_hash[b] # NoHash
    BY Zenon DEF SharedAreCached
  <2>2. b \in Elements(c.blocks[p]) /\ b \in Elements(c.blocks[s])
    BY <1>5, <2>1, Zenon
  <2>3. c.block_hash[b] # NoHash
    BY <2>2, Zenon DEF Tidy, SharedAreCached
  <2> QED
    BY <1>5, <2>2, <2>3, Zenon
<1>9. HashedAreIndexed(d.index, d.block_hash)
  <2> SUFFICES ASSUME NEW b \in Blocks, d.block_hash[b] # NoHash
               PROVE  <<d.block_hash[b], b>> \in d.index
    BY Zenon DEF HashedAreIndexed
  <2>1. b \notin taken /\ d.block_hash[b] = c.block_hash[b]
    BY <1>1, Zenon
  <2>2. <<c.block_hash[b], b>> \in c.index
    BY <2>1, Zenon DEF Tidy, HashedAreIndexed
  <2>3. <<c.block_hash[b], b>>[2] = b
    OBVIOUS
  <2> QED
    BY <1>1, <2>1, <2>2, <2>3, Zenon
<1> QED
  BY <1>1, <1>6, <1>7, <1>8, <1>9, Zenon DEF Tidy
\* What a release puts in the queue, and where.
LEMMA GiveBackQueue ==
  ASSUME NEW Tok, NEW c, InOrder(c, Tok), NEW r \in Requests, NEW d, HasGivenBack(c, d, r)
  PROVE  /\ ListOf(d.free, {b \in Blocks : c.ref_cnt[b] = 0} \cup {b \in Elements(c.blocks[r]) : c.ref_cnt[b] = 1})
         /\ EntryOrder(d.free, Len(Reverse(c.blocks[r])), c.free, Reverse(c.blocks[r]),
                       {b \in Blocks : c.ref_cnt[b] = 0}, c.ref_cnt, c.block_hash)
<1> DEFINE own == c.blocks[r]
           s   == Reverse(own)
           Z   == {b \in Blocks : c.ref_cnt[b] = 0}
           U   == Elements(own)
<1>1. own \in Seq(Blocks) /\ IsInjective(own) /\ ListOf(c.free, Z)
  BY DEF InOrder, Caches, PoolInOrder
<1>2. ListOf(own, U)
  <2> HIDE DEF own
  <2>1. own \in Seq(Elements(own))
    BY <1>1 DEF Elements
  <2> QED
    BY <1>1, <2>1, Zenon DEF ListOf
<1>3. ListOf(s, U)
  BY <1>2, ListBackwards, Zenon
<1>4. U \cap Z = {}
  BY HeldCounts, Zenon
<1> HIDE DEF s, U, Z
<1>5. /\ ListOf(Entered(c.ref_cnt, c.block_hash, c.free, s), Z \cup {b \in U : c.ref_cnt[b] = 1})
      /\ EntryOrder(Entered(c.ref_cnt, c.block_hash, c.free, s), Len(s), c.free, s, Z, c.ref_cnt, c.block_hash)
  BY <1>1, <1>3, <1>4, FreedEnter, Zenon
<1> QED
  BY <1>5, Zenon DEF HasGivenBack, s, U, Z

LEMMA GiveBackTidy ==
  ASSUME NEW Tok, NEW c, InOrder(c, Tok), Tidy(c), NEW r \in Requests, NEW d, HasGivenBack(c, d, r)
  PROVE  Tidy(d)
<1>1. /\ d.block_hash = c.block_hash /\ d.index = c.index /\ d.hashes = c.hashes
      /\ d.blocks[r] = <<>> /\ d.num_cached[r] = 0
      /\ \A p \in Requests : p # r => d.blocks[p] = c.blocks[p] /\ d.num_cached[p] = c.num_cached[p]
  BY Zenon DEF HasGivenBack, SameHashes, Only
<1>2. HashlessFirst(d.free, c.block_hash)
  BY GiveBackQueue, Zenon DEF EntryOrder, Tidy
<1>3. \A x : CachedInFront(<<>>, 0, x, c.block_hash)
  <2>1. 0 <= Len(<<>>) /\ 1 .. Len(<<>>) = {}
    OBVIOUS
  <2> QED
    BY <2>1, Zenon DEF CachedInFront
<1>4. \A p \in Requests : CachedInFront(d.blocks[p], d.num_cached[p], d.hashes[p], d.block_hash)
  BY <1>1, <1>3, Zenon DEF Tidy
<1>5. Elements(<<>>) = {}
  BY DEF Elements
<1>6. SharedAreCached(d.blocks, c.block_hash)
  <2> SUFFICES ASSUME NEW p \in Requests, NEW s \in Requests, NEW b \in Blocks, p # s,
                      b \in Elements(d.blocks[p]), b \in Elements(d.blocks[s])
               PROVE  c.block_hash[b] # NoHash
    BY Zenon DEF SharedAreCached
  <2>1. p # r /\ s # r
    BY <1>1, <1>5, Zenon
  <2> QED
    BY <1>1, <2>1, Zenon DEF Tidy, SharedAreCached
<1> QED
  BY <1>1, <1>2, <1>4, <1>6, Zenon DEF Tidy

\* x continues the chain y.
Continues(x, y) == Len(y) <= Len(x) /\ \A i \in 1 .. Len(y) : x[i] = y[i]

\* The chain of r may grow, and may go when r holds nothing.
LEMMA ChainTidy ==
  ASSUME NEW Tok, NEW c, InOrder(c, Tok), Tidy(c), NEW r \in Requests, NEW x, Nested(x), Len(x) \in Nat,
         Continues(x, c.hashes[r]) \/ c.blocks[r] = <<>>, NEW d, HasChain(c, d, r, x)
  PROVE  Tidy(d)
<1>1. /\ d.block_hash = c.block_hash /\ d.index = c.index /\ d.hashes[r] = x
      /\ d.blocks = c.blocks /\ d.num_cached = c.num_cached /\ d.free = c.free
      /\ \A p \in Requests : p # r => d.hashes[p] = c.hashes[p]
  BY Zenon DEF HasChain, SamePool, Only
<1>2. Len(c.hashes[r]) \in Nat /\ Len(c.blocks[r]) \in Nat
  BY DEF InOrder, Caches
<1>3. CachedInFront(c.blocks[r], c.num_cached[r], c.hashes[r], c.block_hash)
  BY Zenon DEF Tidy
<1>4. CachedInFront(c.blocks[r], c.num_cached[r], x, c.block_hash)
  <2>1. CASE Continues(x, c.hashes[r])
    <3> DEFINE own == c.blocks[r]
               old == c.hashes[r]
    <3>1. \A i \in 1 .. Len(own) : i <= Len(old) => i \in 1 .. Len(old) /\ i <= Len(x)
      BY <1>2, <2>1 DEF Continues
    <3> HIDE DEF own, old
    <3>2. \A i \in 1 .. Len(own) : i <= Len(old) => i <= Len(x) /\ x[i] = old[i]
      BY <2>1, <3>1, Zenon DEF Continues, old
    <3> QED
      BY <1>3, <3>2, Zenon DEF CachedInFront, own, old
  <2>2. CASE c.blocks[r] = <<>>
    <3>1. 1 .. Len(c.blocks[r]) = {}
      BY <2>2
    <3> QED
      BY <1>3, <3>1, Zenon DEF CachedInFront
  <2> QED
    BY <2>1, <2>2
<1>5. \A p \in Requests : CachedInFront(d.blocks[p], d.num_cached[p], d.hashes[p], d.block_hash)
  BY <1>1, <1>4, Zenon DEF Tidy
<1>6. \A p \in Requests : Nested(d.hashes[p])
  BY <1>1, Zenon DEF Tidy
<1> QED
  BY <1>1, <1>5, <1>6, Zenon DEF Tidy
\* A commit: every place up to the new cursor is cached now, each under the
\* hash of the chain, and only blocks nobody else holds were touched.
LEMMA CommitTidy ==
  ASSUME NEW Tok, NEW c, InOrder(c, Tok), Tidy(c), NEW r \in Requests, NEW full \in Nat, NEW n,
         NEW d, HasCommitted(c, d, r, full, n)
  PROVE  Tidy(d)
<1> DEFINE K   == Due(c, r, full)
           own == c.blocks[r]
           ch  == c.hashes[r]
           k   == c.num_cached[r]
<1>1. /\ d.free = c.free /\ d.blocks = c.blocks /\ d.hashes = c.hashes
      /\ d.index = c.index \cup {<<ch[i], own[i]>> : i \in K}
      /\ d.num_cached[r] = full /\ \A p \in Requests : p # r => d.num_cached[p] = c.num_cached[p]
  BY Zenon DEF HasCommitted, HasIndexed, SamePool, Only
<1>2. /\ \A i \in K : /\ i \in 1 .. Len(own) /\ i \in 1 .. Len(ch)
                      /\ c.block_hash[own[i]] = NoHash /\ d.block_hash[own[i]] = ch[i]
      /\ \A b \in Blocks : (\A i \in K : own[i] # b) => d.block_hash[b] = c.block_hash[b]
      /\ full > k /\ full <= Len(own) /\ full <= Len(ch)
  BY Zenon DEF HasCommitted, HasIndexed
<1>3. /\ own \in Seq(Blocks) /\ ch \in Seq(Seq(Tok)) /\ ChainInOrder(ch) /\ Len(own) \in Nat /\ Len(ch) \in Nat
      /\ k \in Nat /\ IsInjective(own) /\ DOMAIN own = 1 .. Len(own)
  <2>1. /\ own \in Seq(Blocks) /\ ch \in Seq(Seq(Tok)) /\ ChainInOrder(ch) /\ k \in Nat /\ IsInjective(own)
    BY DEF InOrder, Caches, PoolInOrder
  <2> QED
    BY <2>1
<1>4. CachedInFront(own, k, ch, c.block_hash)
  BY Zenon DEF Tidy
<1>5. \A i \in 1 .. Len(ch) : ch[i] # NoHash
  <2> TAKE i \in 1 .. Len(ch)
  <2>1. Len(ch[i]) = i * BlockSize /\ i \in Nat /\ i # 0 /\ 0 \in Nat
    BY <1>3 DEF ChainInOrder
  <2>2. i * BlockSize # 0
    BY <2>1, Times, Zenon
  <2> QED
    BY <2>1, <2>2 DEF NoHash
<1>6. \A i \in K : own[i] \in Elements(own) /\ own[i] \in Blocks /\ c.ref_cnt[own[i]] # 0 /\ d.block_hash[own[i]] # NoHash
  <2> TAKE i \in K
  <2>1. own[i] \in Elements(own) /\ own[i] \in Blocks /\ c.ref_cnt[own[i]] # 0
    <3>1. i \in 1 .. Len(c.blocks[r])
      BY <1>2, Zenon
    <3> QED
      BY <3>1, HeldCounts, Zenon
  <2>2. d.block_hash[own[i]] = ch[i] /\ ch[i] # NoHash
    BY <1>2, <1>5, Zenon
  <2> QED
    BY <2>1, <2>2, Zenon
<1>7. \A b \in Blocks : c.block_hash[b] # NoHash => d.block_hash[b] = c.block_hash[b]
  BY <1>2, Zenon
<1>8. \A p \in Requests : \A b \in Blocks : p # r /\ b \in Elements(c.blocks[p]) => d.block_hash[b] = c.block_hash[b]
  <2> SUFFICES ASSUME NEW p \in Requests, NEW b \in Blocks, p # r, b \in Elements(c.blocks[p])
               PROVE  d.block_hash[b] = c.block_hash[b]
    BY Zenon
  <2>1. ASSUME NEW i \in K, own[i] = b
        PROVE  FALSE
    <3>1. b \in Elements(own) /\ c.block_hash[b] = NoHash
      BY <1>2, <1>6, <2>1, Zenon
    <3> QED
      BY <3>1, Zenon DEF Tidy, SharedAreCached
  <2> QED
    BY <1>2, <2>1, Zenon
<1>9. \A b \in Blocks : c.ref_cnt[b] = 0 => d.block_hash[b] = c.block_hash[b]
  BY <1>2, <1>6, Zenon
<1>10. HashlessFirst(c.free, d.block_hash)
  <2>1. \A i \in 1 .. Len(c.free) : c.free[i] \in {b \in Blocks : c.ref_cnt[b] = 0}
    <3>1. ListOf(c.free, {b \in Blocks : c.ref_cnt[b] = 0})
      BY Zenon DEF InOrder, PoolInOrder
    <3> QED
      BY <3>1, ListPlaces, Zenon
  <2>2. \A i \in 1 .. Len(c.free) : d.block_hash[c.free[i]] = c.block_hash[c.free[i]]
    BY <1>9, <2>1, Zenon
  <2>3. HashlessFirst(c.free, c.block_hash)
    BY Zenon DEF Tidy
  <2> QED
    BY <2>2, <2>3, Zenon DEF HashlessFirst
<1>11. CachedInFront(own, full, ch, d.block_hash)
  <2>1. ASSUME NEW i \in 1 .. Len(own)
        PROVE  /\ d.block_hash[own[i]] # NoHash =>
                    i <= full /\ i <= Len(ch) /\ d.block_hash[own[i]] = ch[i]
               /\ EnableCaching /\ i <= full => d.block_hash[own[i]] # NoHash
    <3>1. own[i] \in Blocks /\ i \in Nat
      BY <1>3
    <3>2. CASE i \in K
      <4>1. i <= full /\ i <= Len(ch)
        BY <1>2, <1>3, <3>2 DEF Due
      <4> QED
        BY <1>2, <1>6, <3>2, <4>1, Zenon
    <3>3. CASE i \notin K
      <4>1. \A j \in K : own[j] # own[i]
        <5> SUFFICES ASSUME NEW j \in K, own[j] = own[i]
                     PROVE  FALSE
          OBVIOUS
        <5>1. j \in DOMAIN own /\ i \in DOMAIN own
          BY <1>2, <1>3, Zenon
        <5>2. j = i
          BY <1>3, <5>1, Zenon DEF IsInjective
        <5> QED
          BY <3>3, <5>2, Zenon
      <4>2. d.block_hash[own[i]] = c.block_hash[own[i]]
        BY <1>2, <3>1, <4>1, Zenon
      <4>3. i <= k => i <= full
        BY <1>2, <1>3, <3>1
      <4>4. ASSUME EnableCaching, i <= full
            PROVE  c.block_hash[own[i]] # NoHash
        <5>1. CASE i <= k
          BY <1>4, <4>4, <5>1, Zenon DEF CachedInFront
        <5>2. CASE ~ (i <= k)
          <6>1. i \in k + 1 .. full
            BY <1>3, <3>1, <4>4, <5>2
          <6> QED
            BY <3>3, <4>4, <6>1, Zenon DEF Due
        <5> QED
          BY <5>1, <5>2
      <4> QED
        BY <1>4, <4>2, <4>3, <4>4, Zenon DEF CachedInFront
    <3> QED
      BY <3>2, <3>3
  <2> QED
    BY <1>2, <2>1, Zenon DEF CachedInFront
<1>12. \A p \in Requests : CachedInFront(d.blocks[p], d.num_cached[p], d.hashes[p], d.block_hash)
  <2> TAKE p \in Requests
  <2>1. CASE p = r
    BY <1>1, <1>11, <2>1, Zenon
  <2>2. CASE p # r
    <3> DEFINE theirs == c.blocks[p]
    <3>1. \A i \in 1 .. Len(theirs) : d.block_hash[theirs[i]] = c.block_hash[theirs[i]]
      BY <1>8, <2>2, HeldCounts, Zenon
    <3>2. CachedInFront(theirs, c.num_cached[p], c.hashes[p], c.block_hash)
      BY Zenon DEF Tidy
    <3> HIDE DEF theirs
    <3>3. CachedInFront(theirs, c.num_cached[p], c.hashes[p], d.block_hash)
      BY <3>1, <3>2, Zenon DEF CachedInFront
    <3> QED
      BY <1>1, <2>2, <3>3, Zenon DEF theirs
  <2> QED
    BY <2>1, <2>2
<1>13. SharedAreCached(c.blocks, d.block_hash)
  BY <1>7, Zenon DEF Tidy, SharedAreCached
<1>14. HashedAreIndexed(d.index, d.block_hash)
  <2> SUFFICES ASSUME NEW b \in Blocks, d.block_hash[b] # NoHash
               PROVE  <<d.block_hash[b], b>> \in d.index
    BY Zenon DEF HashedAreIndexed
  <2>1. CASE \E i \in K : own[i] = b
    <3>1. PICK i \in K : own[i] = b
      BY <2>1
    <3>2. d.block_hash[b] = ch[i]
      BY <1>2, <3>1, Zenon
    <3> HIDE DEF K, own, ch
    <3> QED
      BY <1>1, <3>1, <3>2, Zenon
  <2>2. CASE ~ \E i \in K : own[i] = b
    <3>1. d.block_hash[b] = c.block_hash[b]
      BY <1>2, <2>2, Zenon
    <3>2. <<c.block_hash[b], b>> \in c.index
      BY <3>1, Zenon DEF Tidy, HashedAreIndexed
    <3> QED
      BY <1>1, <3>1, <3>2, Zenon
  <2> QED
    BY <2>1, <2>2
<1> QED
  BY <1>1, <1>10, <1>12, <1>13, <1>14, Zenon DEF Tidy

\* A cache nobody uses, with nothing cached.
LEMMA BlankTidy ==
  ASSUME NEW d, d.block_hash = [b \in Blocks |-> NoHash], d.hashes = [r \in Requests |-> <<>>],
         \A i \in 1 .. Len(d.free) : d.free[i] \in Blocks,
         \A r \in Requests : d.blocks[r] = <<>> /\ d.num_cached[r] <= 0
  PROVE  Tidy(d)
<1>1. \A b \in Blocks : d.block_hash[b] = NoHash
  OBVIOUS
<1>2. HashlessFirst(d.free, d.block_hash)
  BY <1>1, Zenon DEF HashlessFirst
<1>3. Len(<<>>) = 0 /\ 1 .. Len(<<>>) = {} /\ Elements(<<>>) = {} /\ 2 .. Len(<<>>) = {}
  BY DEF Elements
<1>4. \A r \in Requests : CachedInFront(d.blocks[r], d.num_cached[r], d.hashes[r], d.block_hash)
  BY <1>3, Zenon DEF CachedInFront
<1>5. SharedAreCached(d.blocks, d.block_hash)
  BY <1>3, Zenon DEF SharedAreCached
<1>6. HashedAreIndexed(d.index, d.block_hash)
  BY <1>1, Zenon DEF HashedAreIndexed
<1>7. \A r \in Requests : Nested(d.hashes[r])
  BY <1>3, Zenon DEF Nested
<1> QED
  BY <1>2, <1>4, <1>5, <1>6, <1>7, Zenon DEF Tidy
-----------------------------------------------------------------------------
(* Chains of hashes. *)

LEMMA Joined ==
  ASSUME NEW S, NEW p \in Seq(S), NEW t, NEW u \in Seq(S), NEW a \in Nat, NEW l \in Nat,
         Len(p) = a, Len(u) = l - a, a <= l, \A i \in 1 .. l - a : u[i] = t[a + i]
  PROVE  /\ p \o u \in Seq(S) /\ Len(p \o u) = l
         /\ \A i \in 1 .. l : (p \o u)[i] = IF i <= a THEN p[i] ELSE t[i]
<1> DEFINE w == p \o u
<1>1. /\ w \in Seq(S) /\ Len(w) = Len(p) + Len(u)
      /\ \A i \in 1 .. Len(p) + Len(u) : w[i] = IF i <= Len(p) THEN p[i] ELSE u[i - Len(p)]
  BY ConcatProperties, Zenon
<1> HIDE DEF w
<1>2. Len(p) + Len(u) = l
  OBVIOUS
<1>3. ASSUME NEW i \in 1 .. l
      PROVE  w[i] = IF i <= a THEN p[i] ELSE t[i]
  <2>1. w[i] = IF i <= a THEN p[i] ELSE u[i - a]
    BY <1>1, <1>2, Zenon
  <2>2. CASE ~ (i <= a)
    <3>1. i - a \in 1 .. l - a /\ a + (i - a) = i
      BY <2>2
    <3> QED
      BY <2>1, <2>2, <3>1, Zenon
  <2> QED
    BY <2>1, <2>2
<1> QED
  BY <1>1, <1>2, <1>3 DEF w

\* x is w up to place k.
CutAt(w, k, x) == SubSeq(w, 1, k) = x

\* A prefix of a prefix with its continuation.
LEMMA Glue ==
  ASSUME NEW S, NEW p \in Seq(S), NEW t \in Seq(S), NEW a \in Nat, NEW k \in Nat, NEW l \in Nat,
         Len(p) = a, a <= k, k <= l, l <= Len(t)
  PROVE  /\ p \o SubSeq(t, a + 1, l) \in Seq(S) /\ Len(p \o SubSeq(t, a + 1, l)) = l
         /\ CutAt(p \o SubSeq(t, a + 1, l), k, p \o SubSeq(t, a + 1, k))
         /\ k = a => p \o SubSeq(t, a + 1, k) = p
         /\ p = SubSeq(t, 1, a) => p \o SubSeq(t, a + 1, l) = SubSeq(t, 1, l)
<1> DEFINE u == SubSeq(t, a + 1, l)
           v == SubSeq(t, a + 1, k)
           w == p \o u
           x == p \o v
           y == SubSeq(w, 1, k)
           z == SubSeq(t, 1, l)
<1>1. u \in Seq(S) /\ Len(u) = l - a /\ \A i \in 1 .. l - a : u[i] = t[a + i]
  OBVIOUS
<1>2. v \in Seq(S) /\ Len(v) = k - a /\ \A i \in 1 .. k - a : v[i] = t[a + i]
  OBVIOUS
<1>3. z \in Seq(S) /\ Len(z) = l /\ \A i \in 1 .. l : z[i] = t[i]
  OBVIOUS
<1> HIDE DEF u, v, z
<1>4. w \in Seq(S) /\ Len(w) = l /\ \A i \in 1 .. l : w[i] = IF i <= a THEN p[i] ELSE t[i]
  BY <1>1, Joined
<1>5. x \in Seq(S) /\ Len(x) = k /\ \A i \in 1 .. k : x[i] = IF i <= a THEN p[i] ELSE t[i]
  BY <1>2, Joined
<1> HIDE DEF w, x
<1>6. y \in Seq(S) /\ Len(y) = k /\ \A i \in 1 .. k : y[i] = w[i]
  BY <1>4
<1> HIDE DEF y
<1>7. y = x
  <2>1. \A i \in 1 .. Len(y) : y[i] = x[i]
    BY <1>4, <1>5, <1>6
  <2> QED
    BY <1>5, <1>6, <2>1, SeqEqual, Zenon
<1>8. k = a => x = p
  <2> SUFFICES ASSUME k = a PROVE x = p
    OBVIOUS
  <2>1. \A i \in 1 .. Len(x) : x[i] = p[i]
    BY <1>5
  <2> QED
    BY <1>5, <2>1, SeqEqual, Zenon
<1>9. p = SubSeq(t, 1, a) => w = z
  <2> SUFFICES ASSUME p = SubSeq(t, 1, a) PROVE w = z
    OBVIOUS
  <2>1. \A i \in 1 .. a : p[i] = t[i]
    OBVIOUS
  <2>2. \A i \in 1 .. Len(w) : w[i] = z[i]
    BY <1>3, <1>4, <2>1
  <2> QED
    BY <1>3, <1>4, <2>2, SeqEqual, Zenon
<1>10. CutAt(w, k, x)
  BY <1>7, Zenon DEF CutAt, y
<1> QED
  BY <1>4, <1>8, <1>9, <1>10, Zenon DEF u, v, w, x, z
\* The j-th of the whole blocks of a sequence ends within it.
LEMMA BlockEnds ==
  ASSUME NEW n \in Nat, NEW j \in Nat, j <= n \div BlockSize
  PROVE  j * BlockSize \in Nat /\ j * BlockSize <= n
<1> DEFINE w == n \div BlockSize
<1>1. w \in Nat /\ w * BlockSize <= n
  BY WholeBlocks
<1> HIDE DEF w
<1>2. j * BlockSize \in Nat /\ w * BlockSize \in Nat /\ j * BlockSize <= w * BlockSize
  BY <1>1, Times DEF w
<1> QED
  BY <1>1, <1>2

LEMMA SameInterval ==
  ASSUME NEW m \in Nat, NEW n \in Nat, 1 .. m = 1 .. n
  PROVE  m = n
  OBVIOUS

\* What extend_block_hashes appends, place by place.
LastOf(chain) == IF Len(chain) = 0 THEN <<>> ELSE chain[Len(chain)]

Extension(x, chain, tokens, Tok) ==
  /\ Len(x) \in Nat /\ x = [j \in 1 .. Len(x) |-> x[j]]
  /\ Len(x) = Larger(Len(chain), Len(tokens) \div BlockSize)
  /\ LastOf(chain) \in Seq(Tok) /\ Len(LastOf(chain)) = Len(chain) * BlockSize
  /\ \A j \in 1 .. Len(x) :
       IF j <= Len(chain) THEN x[j] = chain[j]
       ELSE /\ j <= Len(tokens) \div BlockSize
            /\ x[j] = LastOf(chain) \o SubSeq(tokens, Len(chain) * BlockSize + 1, j * BlockSize)

LEMMA ExtendAt ==
  ASSUME NEW Tok, NEW chain \in Seq(Seq(Tok)), NEW tokens \in Seq(Tok), ChainInOrder(chain)
  PROVE  Extension(ExtendHashes(chain, tokens), chain, tokens, Tok)
<1> DEFINE done   == Len(chain)
           whole  == Len(tokens) \div BlockSize
           n      == Larger(done, whole)
           parent == IF done = 0 THEN <<>> ELSE Last(chain)
           at(j)  == IF j <= done THEN chain[j] ELSE parent \o SubSeq(tokens, done * BlockSize + 1, j * BlockSize)
           x      == ExtendHashes(chain, tokens)
<1>1. x = [j \in 1 .. n |-> at(j)]
  BY Zenon DEF ExtendHashes
<1>2. done \in Nat /\ Len(tokens) \in Nat
  OBVIOUS
<1>3. whole \in Nat
  BY <1>2, WholeBlocks
<1> HIDE DEF whole
<1>4. n \in Nat /\ \A j \in 1 .. n : ~ (j <= done) => j <= whole
  BY <1>2, <1>3 DEF Larger
<1>5. parent \in Seq(Tok) /\ Len(parent) = done * BlockSize /\ parent = LastOf(chain)
  <2>1. CASE done = 0
    BY <2>1, CacheAssumption DEF LastOf
  <2>2. CASE done # 0
    <3>1. Last(chain) = chain[done] /\ done \in 1 .. done
      BY <1>2, <2>2 DEF Last
    <3>2. chain[done] \in Seq(Tok) /\ Len(chain[done]) = done * BlockSize
      BY <3>1 DEF ChainInOrder
    <3> QED
      BY <2>2, <3>1, <3>2, Zenon DEF LastOf
  <2> QED
    BY <2>1, <2>2
<1> HIDE DEF x, at, n
<1>6. Len(x) = n /\ \A j \in 1 .. n : x[j] = at(j)
  <2>1. x \in Seq(Seq(Tok))
    BY ExtendInOrder, Zenon DEF x
  <2>2. DOMAIN x = 1 .. Len(x) /\ Len(x) \in Nat
    BY <2>1
  <2>3. DOMAIN x = 1 .. n /\ \A j \in 1 .. n : x[j] = at(j)
    BY <1>1, Zenon
  <2>4. Len(x) = n
    BY <1>4, <2>2, <2>3, SameInterval, Zenon
  <2> QED
    BY <2>3, <2>4
<1>7. x = [j \in 1 .. Len(x) |-> x[j]]
  BY <1>1, <1>6, Zenon
<1>8. \A j \in 1 .. Len(x) :
        IF j <= done THEN x[j] = chain[j]
        ELSE j <= whole /\ x[j] = parent \o SubSeq(tokens, done * BlockSize + 1, j * BlockSize)
  <2> TAKE j \in 1 .. Len(x)
  <2>1. x[j] = at(j) /\ (~ (j <= done) => j <= whole)
    BY <1>4, <1>6, Zenon
  <2> QED
    BY <2>1, Zenon DEF at
<1> HIDE DEF parent
<1>9. Len(x) \in Nat /\ Len(x) = Larger(done, whole)
  BY <1>4, <1>6, Zenon DEF n
<1> QED
  BY <1>5, <1>7, <1>8, <1>9, Zenon DEF x, whole, Extension

\* A chain that is extended is continued, and its hashes stay nested.
LEMMA ExtendNested ==
  ASSUME NEW Tok, NEW chain \in Seq(Seq(Tok)), NEW tokens \in Seq(Tok), ChainInOrder(chain), Nested(chain)
  PROVE  /\ Nested(ExtendHashes(chain, tokens)) /\ Len(ExtendHashes(chain, tokens)) \in Nat
         /\ Continues(ExtendHashes(chain, tokens), chain)
<1> DEFINE x      == ExtendHashes(chain, tokens)
           done   == Len(chain)
           whole  == Len(tokens) \div BlockSize
           parent == LastOf(chain)
           B(j)   == j * BlockSize
<1>1. /\ Len(x) \in Nat /\ Len(x) = Larger(done, whole) /\ parent \in Seq(Tok) /\ Len(parent) = B(done)
      /\ \A j \in 1 .. Len(x) : IF j <= done THEN x[j] = chain[j]
                                ELSE j <= whole /\ x[j] = parent \o SubSeq(tokens, B(done) + 1, B(j))
  <2>1. Extension(x, chain, tokens, Tok)
    BY ExtendAt, Zenon
  <2> HIDE DEF x
  <2> QED
    BY <2>1, Zenon DEF Extension
<1>2. done \in Nat /\ Len(tokens) \in Nat /\ whole \in Nat
  BY WholeBlocks
<1> HIDE DEF x, whole
<1>3. done <= Len(x) /\ \A j \in 1 .. done : j \in 1 .. Len(x) /\ j <= done
  BY <1>1, <1>2 DEF Larger
<1>4. Continues(x, chain)
  BY <1>1, <1>3, Zenon DEF Continues
<1>5. ASSUME NEW j \in 2 .. Len(x)
      PROVE  x[j - 1] = Parent(x[j])
  <2>1. j \in Nat /\ j - 1 \in Nat /\ j \in 1 .. Len(x) /\ j - 1 \in 1 .. Len(x) /\ 2 <= j /\ j - 1 <= j
    BY <1>1
  <2>2. CASE j <= done
    <3>1. j \in 2 .. done /\ j - 1 <= done
      BY <1>2, <2>1, <2>2
    <3>2. x[j] = chain[j] /\ x[j - 1] = chain[j - 1]
      BY <1>1, <2>1, <2>2, <3>1, Zenon
    <3> QED
      BY <3>1, <3>2, Zenon DEF Nested
  <2>3. CASE ~ (j <= done)
    <3> DEFINE a == B(done)
               k == B(j - 1)
               l == B(j)
    <3>1. j <= whole /\ x[j] = parent \o SubSeq(tokens, a + 1, l)
      BY <1>1, <2>1, <2>3, Zenon
    <3>2. done <= j - 1 /\ j - 1 <= whole
      BY <1>2, <2>1, <2>3, <3>1
    <3>3. a \in Nat /\ k \in Nat /\ l \in Nat /\ a <= k /\ k <= l
      BY <1>2, <2>1, <3>2, Times, Zenon
    <3>4. l <= Len(tokens)
      BY <1>2, <2>1, <3>1, BlockEnds, Zenon DEF whole
    <3>5. l - BlockSize = k
      BY <2>1, CacheAssumption
    <3> HIDE DEF parent
    <3>6. Len(parent) = a /\ (done = j - 1 => k = a)
      BY <1>1, Zenon
    <3> HIDE DEF a, k, l
    <3>7. /\ Len(x[j]) = l
          /\ SubSeq(x[j], 1, k) = parent \o SubSeq(tokens, a + 1, k)
          /\ k = a => parent \o SubSeq(tokens, a + 1, k) = parent
      <4>1. parent \in Seq(Tok)
        BY <1>1
      <4>2. tokens \in Seq(Tok) /\ Len(parent) = a
        BY <3>6
      <4>3. Len(parent \o SubSeq(tokens, a + 1, l)) = l
        BY <3>3, <3>4, <4>1, <4>2, Glue
      <4>4. SubSeq(parent \o SubSeq(tokens, a + 1, l), 1, k) = parent \o SubSeq(tokens, a + 1, k)
        <5>1. CutAt(parent \o SubSeq(tokens, a + 1, l), k, parent \o SubSeq(tokens, a + 1, k))
          BY <3>3, <3>4, <4>1, <4>2, Glue, Zenon
        <5> QED
          BY <5>1, Zenon DEF CutAt
      <4>5. k = a => parent \o SubSeq(tokens, a + 1, k) = parent
        BY <3>3, <3>4, <4>1, <4>2, Glue
      <4> QED
        BY <3>1, <4>3, <4>4, <4>5, Zenon
    <3>8. Parent(x[j]) = parent \o SubSeq(tokens, a + 1, k)
      BY <3>5, <3>7, Zenon DEF Parent
    <3>9. CASE done = j - 1
      <4>1. x[j - 1] = parent
        <5>1. j - 1 <= done /\ done # 0
          BY <1>2, <2>1, <3>9
        <5>2. x[j - 1] = chain[j - 1]
          BY <1>1, <2>1, <5>1, Zenon
        <5> QED
          BY <3>9, <5>1, <5>2, Zenon DEF parent, LastOf
      <4> QED
        BY <3>6, <3>7, <3>8, <3>9, <4>1, Zenon
    <3>10. CASE done # j - 1
      <4>1. ~ (j - 1 <= done)
        BY <1>2, <2>1, <3>2, <3>10
      <4>2. x[j - 1] = parent \o SubSeq(tokens, a + 1, k)
        BY <1>1, <2>1, <4>1, Zenon DEF a, k
      <4> QED
        BY <3>8, <4>2, Zenon
    <3> QED
      BY <3>9, <3>10
  <2> QED
    BY <2>2, <2>3
<1> QED
  BY <1>1, <1>4, <1>5, Zenon DEF Nested, x

\* The chain of a token sequence: the prefixes of whole blocks.
Canon(t) == [j \in 1 .. Len(t) \div BlockSize |-> SubSeq(t, 1, j * BlockSize)]

\* h is how far the chain of t has been built.
ChainOf(h, t) ==
  Len(h) <= Len(t) \div BlockSize /\ \A j \in 1 .. Len(h) : h[j] = SubSeq(t, 1, j * BlockSize)

LEMMA ExtendIsCanon ==
  ASSUME NEW Tok, NEW h \in Seq(Seq(Tok)), NEW t \in Seq(Tok), ChainOf(h, t), ChainInOrder(h)
  PROVE  ExtendHashes(h, t) = Canon(t)
<1> DEFINE x      == ExtendHashes(h, t)
           done   == Len(h)
           whole  == Len(t) \div BlockSize
           parent == LastOf(h)
           B(j)   == j * BlockSize
<1>1. /\ Len(x) \in Nat /\ Len(x) = Larger(done, whole) /\ parent \in Seq(Tok) /\ Len(parent) = B(done)
      /\ x = [j \in 1 .. Len(x) |-> x[j]]
      /\ \A j \in 1 .. Len(x) : IF j <= done THEN x[j] = h[j]
                                ELSE j <= whole /\ x[j] = parent \o SubSeq(t, B(done) + 1, B(j))
  <2>1. Extension(x, h, t, Tok)
    BY ExtendAt, Zenon
  <2> HIDE DEF x
  <2> QED
    BY <2>1, Zenon DEF Extension
<1>2. done \in Nat /\ Len(t) \in Nat /\ whole \in Nat /\ done <= whole
  BY WholeBlocks DEF ChainOf
<1>3. parent = SubSeq(t, 1, B(done))
  <2>1. CASE done = 0
    <3>1. B(done) = 0 /\ SubSeq(t, 1, 0) = <<>>
      BY <2>1, CacheAssumption
    <3> QED
      BY <2>1, <3>1 DEF LastOf
  <2>2. CASE done # 0
    <3>1. done \in 1 .. done
      BY <1>2, <2>2
    <3> QED
      BY <2>2, <3>1, Zenon DEF ChainOf, LastOf
  <2> QED
    BY <2>1, <2>2
<1> HIDE DEF x, whole, parent
<1>4. Len(x) = whole
  BY <1>1, <1>2 DEF Larger
<1>5. ASSUME NEW j \in 1 .. whole
      PROVE  x[j] = SubSeq(t, 1, B(j))
  <2>1. CASE j <= done
    <3>1. j \in 1 .. done
      BY <1>2, <2>1
    <3> QED
      BY <1>1, <1>4, <2>1, <3>1, Zenon DEF ChainOf
  <2>2. CASE ~ (j <= done)
    <3> DEFINE a == B(done)
               l == B(j)
    <3>1. j \in Nat /\ j <= whole /\ done <= j
      BY <1>2, <2>2
    <3>2. a \in Nat /\ l \in Nat /\ a <= l
      BY <1>2, <3>1, Times, Zenon
    <3>3. l <= Len(t)
      BY <1>2, <3>1, BlockEnds, Zenon DEF whole
    <3>4. x[j] = parent \o SubSeq(t, a + 1, l) /\ parent = SubSeq(t, 1, a) /\ Len(parent) = a
      BY <1>1, <1>3, <1>4, <2>2, Zenon
    <3> HIDE DEF a, l
    <3>5. l <= l
      BY <3>2
    <3>6. parent \o SubSeq(t, a + 1, l) = SubSeq(t, 1, l)
      <4>1. parent \in Seq(Tok)
        BY <1>1
      <4> QED
        BY <3>2, <3>3, <3>4, <3>5, <4>1, Glue
    <3> QED
      BY <3>4, <3>6, Zenon DEF l
  <2> QED
    BY <2>1, <2>2
<1> QED
  BY <1>1, <1>4, <1>5, Zenon DEF Canon, x, whole

LEMMA CanonIsChain ==
  ASSUME NEW Tok, NEW t \in Seq(Tok)
  PROVE  /\ Canon(t) = ExtendHashes(<<>>, t)
         /\ Len(Canon(t)) = Len(t) \div BlockSize /\ ChainOf(Canon(t), t)
         /\ Canon(t) \in Seq(Seq(Tok)) /\ ChainInOrder(Canon(t)) /\ Nested(Canon(t))
<1>1. <<>> \in Seq(Seq(Tok)) /\ Len(<<>>) = 0 /\ 1 .. Len(<<>>) = {} /\ 2 .. Len(<<>>) = {}
  OBVIOUS
<1>2. Len(t) \in Nat /\ Len(t) \div BlockSize \in Nat
  BY WholeBlocks
<1>3. ChainInOrder(<<>>) /\ Nested(<<>>) /\ ChainOf(<<>>, t)
  <2>1. Len(<<>>) <= Len(t) \div BlockSize
    BY <1>1, <1>2
  <2> QED
    BY <1>1, <2>1, Zenon DEF ChainInOrder, Nested, ChainOf
<1>4. Canon(t) = ExtendHashes(<<>>, t)
  BY <1>1, <1>3, ExtendIsCanon, Zenon
<1>5. Canon(t) \in Seq(Seq(Tok)) /\ ChainInOrder(Canon(t)) /\ Nested(Canon(t))
  BY <1>1, <1>3, <1>4, ExtendInOrder, ExtendNested, Zenon
<1>6. Len(Canon(t)) = Len(t) \div BlockSize
  <2> DEFINE n == Len(t) \div BlockSize
  <2>1. DOMAIN Canon(t) = 1 .. n
    BY Zenon DEF Canon
  <2>2. DOMAIN Canon(t) = 1 .. Len(Canon(t)) /\ Len(Canon(t)) \in Nat
    BY <1>5
  <2> HIDE DEF n
  <2> QED
    BY <1>2, <2>1, <2>2 DEF n
<1>7. ChainOf(Canon(t), t)
  <2>1. Len(Canon(t)) <= Len(t) \div BlockSize
    BY <1>2, <1>6
  <2>2. \A j \in 1 .. Len(Canon(t)) : Canon(t)[j] = SubSeq(t, 1, j * BlockSize)
    BY <1>6, Zenon DEF Canon
  <2> QED
    BY <2>1, <2>2, Zenon DEF ChainOf
<1> QED
  BY <1>4, <1>5, <1>6, <1>7
-----------------------------------------------------------------------------
(* No cached prefix loses its parent. *)

\* w is the parent of e, and is held or leaves the queue later.
Anchors(c, w, e) ==
  w \in c.index /\ w[1] = Parent(e[1]) /\ (c.ref_cnt[w[2]] # 0 \/ Before(c.free, e[2], w[2]))

\* A cached block in a list: its place, the hash there and the one before.
LEMMA CachedPlace ==
  ASSUME NEW Tok, NEW c, InOrder(c, Tok), Tidy(c), NEW e \in c.index, NEW r \in Requests,
         NEW i \in 1 .. Len(c.blocks[r]), c.blocks[r][i] = e[2]
  PROVE  /\ i <= c.num_cached[r] /\ i <= Len(c.hashes[r]) /\ e[1] = c.hashes[r][i] /\ Len(e[1]) = i * BlockSize
         /\ Len(e[1]) > BlockSize => i - 1 \in 1 .. Len(c.blocks[r]) /\ Parent(e[1]) = c.hashes[r][i - 1]
<1>1. c.block_hash[e[2]] = e[1] /\ e[1] # NoHash
  BY Zenon DEF InOrder, IndexInOrder
<1>2. i <= c.num_cached[r] /\ i <= Len(c.hashes[r]) /\ e[1] = c.hashes[r][i]
  BY <1>1, Zenon DEF Tidy, CachedInFront
<1>3. c.hashes[r] \in Seq(Seq(Tok)) /\ c.blocks[r] \in Seq(Blocks)
  <2>1. c.hashes \in [Requests -> Seq(Seq(Tok))] /\ c.blocks \in [Requests -> Seq(Blocks)]
    BY DEF InOrder, Caches
  <2> QED
    BY <2>1
<1>4. i \in Nat /\ i >= 1 /\ i \in 1 .. Len(c.hashes[r])
  BY <1>2, <1>3
<1>5. Len(e[1]) = i * BlockSize
  BY <1>2, <1>4 DEF InOrder, ChainInOrder
<1>6. ASSUME Len(e[1]) > BlockSize
      PROVE  i - 1 \in 1 .. Len(c.blocks[r]) /\ Parent(e[1]) = c.hashes[r][i - 1]
  <2>1. i # 1
    BY CacheAssumption, <1>5, <1>6
  <2>2. i \in 2 .. Len(c.hashes[r]) /\ i - 1 \in 1 .. Len(c.blocks[r])
    BY <1>3, <1>4, <2>1
  <2> QED
    BY <1>2, <2>2 DEF Tidy, Nested
<1> QED
  BY <1>2, <1>5, <1>6

\* The parent of a block that is held is held by the same request.
LEMMA HeldAnchor ==
  ASSUME NEW Tok, NEW c, InOrder(c, Tok), Tidy(c), EnableCaching, NEW e \in c.index,
         c.ref_cnt[e[2]] # 0, Len(e[1]) > BlockSize
  PROVE  \E w : Anchors(c, w, e)
<1>1. e[2] \in Blocks
  <2>1. c.index \subseteq Seq(Tok) \X Blocks
    BY DEF InOrder, Caches
  <2> QED
    BY <2>1
<1>2. PICK r \in Requests : e[2] \in Elements(c.blocks[r])
  BY <1>1, HeldCounts
<1>3. PICK i \in 1 .. Len(c.blocks[r]) : c.blocks[r][i] = e[2]
  BY <1>2 DEF Elements
<1>4. /\ i <= c.num_cached[r] /\ i <= Len(c.hashes[r])
      /\ i - 1 \in 1 .. Len(c.blocks[r]) /\ Parent(e[1]) = c.hashes[r][i - 1]
  BY <1>3, CachedPlace
<1> DEFINE j == i - 1
           b == c.blocks[r][j]
<1>5. j \in 1 .. Len(c.blocks[r]) /\ j <= c.num_cached[r]
  <2>1. c.num_cached \in [Requests -> Nat]
    BY DEF InOrder, Caches
  <2> QED
    BY <1>3, <1>4, <2>1
<1> HIDE DEF j
<1>6. c.block_hash[b] # NoHash /\ c.block_hash[b] = c.hashes[r][j]
  BY <1>5, Zenon DEF Tidy, CachedInFront
<1>7. b \in Blocks /\ c.ref_cnt[b] # 0
  BY <1>5, HeldCounts
<1>8. <<c.block_hash[b], b>> \in c.index
  BY <1>6, <1>7, Zenon DEF Tidy, HashedAreIndexed
<1> DEFINE w == <<c.block_hash[b], b>>
<1>9. w \in c.index /\ w[1] = Parent(e[1]) /\ w[2] = b
  BY <1>4, <1>6, <1>8 DEF j
<1> HIDE DEF w, b
<1> QED
  BY <1>7, <1>9 DEF Anchors

\* It is enough to look at what is free.
LEMMA FreeAnchored ==
  ASSUME NEW Tok, NEW c, InOrder(c, Tok), Tidy(c), c.index # {} => EnableCaching,
         \A e \in c.index : c.ref_cnt[e[2]] = 0 /\ Len(e[1]) > BlockSize => \E w : Anchors(c, w, e)
  PROVE  Anchored(c)
<1>1. ASSUME NEW e \in c.index, Len(e[1]) > BlockSize
      PROVE  \E w : Anchors(c, w, e)
  BY <1>1, HeldAnchor
<1> QED
  BY <1>1 DEF Anchored, Anchors

LEMMA OrderReflects ==
  ASSUME NEW T, NEW s, ListOf(s, T), NEW w, KeepsOrder(s, w), NEW x \in Elements(w), NEW y \in Elements(w),
         Len(w) \in Nat, Before(s, x, y)
  PROVE  Before(w, x, y)
<1>1. PICK a, b \in 1 .. Len(s) : a < b /\ s[a] = x /\ s[b] = y
  BY Zenon DEF Before
<1>2. PICK i \in 1 .. Len(w) : w[i] = x
  BY DEF Elements
<1>3. PICK j \in 1 .. Len(w) : w[j] = y
  BY DEF Elements
<1>4. Len(s) \in Nat /\ \A k, l \in 1 .. Len(s) : s[k] = s[l] => k = l
  BY ListPlaces
<1>5. i # j
  BY <1>1, <1>2, <1>3, <1>4
<1>6. ~ j < i
  <2> SUFFICES ASSUME j < i PROVE FALSE
    OBVIOUS
  <2>1. Before(s, y, x)
    BY <1>2, <1>3 DEF KeepsOrder
  <2>2. PICK k, l \in 1 .. Len(s) : k < l /\ s[k] = y /\ s[l] = x
    BY <2>1, Zenon DEF Before
  <2>3. k = b /\ l = a
    BY <1>1, <1>4, <2>2
  <2> QED
    BY <1>1, <1>4, <2>2, <2>3
<1>7. i < j
  BY <1>5, <1>6
<1> QED
  BY <1>2, <1>3, <1>7 DEF Before
\* The anchor an entry had, and what kind it is.
LEMMA OldAnchor ==
  ASSUME NEW Tok, NEW c, InOrder(c, Tok), Anchored(c), NEW e \in c.index, Len(e[1]) > BlockSize
  PROVE  /\ EnableCaching /\ e[2] \in Blocks
         /\ \E w : /\ Anchors(c, w, e) /\ w[2] \in Blocks /\ c.block_hash[w[2]] = w[1] /\ w[1] # NoHash
                   /\ c.ref_cnt[w[2]] = 0 => Before(c.free, e[2], w[2])
<1>1. c.index \subseteq Seq(Tok) \X Blocks
  BY DEF InOrder, Caches
<1>2. EnableCaching /\ e[2] \in Blocks
  BY <1>1 DEF Anchored
<1>3. PICK w \in c.index : Anchors(c, w, e)
  BY DEF Anchored, Anchors
<1>4. w[2] \in Blocks /\ c.block_hash[w[2]] = w[1] /\ w[1] # NoHash
  <2>1. w[2] \in Blocks
    BY <1>1, <1>3
  <2>2. c.block_hash[w[2]] = w[1] /\ w[1] # NoHash
    BY <1>3, Zenon DEF InOrder, IndexInOrder
  <2> QED
    BY <2>1, <2>2
<1>5. c.ref_cnt[w[2]] = 0 => Before(c.free, e[2], w[2])
  BY <1>3, Zenon DEF Anchors
<1> QED
  BY <1>2, <1>3, <1>4, <1>5

LEMMA AdoptAnchored ==
  ASSUME NEW Tok, NEW c, InOrder(c, Tok), Anchored(c), NEW r \in Requests, NEW m,
         NEW d, HasAdopted(c, d, r, m), InOrder(d, Tok), Tidy(d)
  PROVE  Anchored(d)
<1>1. /\ \A b \in Blocks : d.ref_cnt[b] = c.ref_cnt[b] + IF b \in Elements(m) THEN 1 ELSE 0
      /\ KeepsOrder(c.free, d.free) /\ d.index = c.index
  BY Zenon DEF HasAdopted, SameHashes
<1>2. ListOf(c.free, {b \in Blocks : c.ref_cnt[b] = 0}) /\ ListOf(d.free, {b \in Blocks : d.ref_cnt[b] = 0})
  BY Zenon DEF InOrder, PoolInOrder
<1>3. c.ref_cnt \in [Blocks -> Nat] /\ d.free \in Seq(Blocks)
  BY DEF InOrder, Caches
<1>4. d.index # {} => EnableCaching
  BY <1>1, Zenon DEF Anchored
<1>5. ASSUME NEW e \in d.index, d.ref_cnt[e[2]] = 0, Len(e[1]) > BlockSize
      PROVE  \E w : Anchors(d, w, e)
  <2>1. PICK w : /\ Anchors(c, w, e) /\ w[2] \in Blocks
                 /\ c.ref_cnt[w[2]] = 0 => Before(c.free, e[2], w[2])
    BY <1>1, <1>5, OldAnchor
  <2>2. e[2] \in Blocks /\ w \in d.index /\ w[1] = Parent(e[1])
    BY <1>1, <1>5, <2>1, OldAnchor DEF Anchors
  <2>3. CASE d.ref_cnt[w[2]] # 0
    BY <2>2, <2>3 DEF Anchors
  <2>4. CASE d.ref_cnt[w[2]] = 0
    <3>1. c.ref_cnt[w[2]] = 0
      BY <1>1, <1>3, <2>1, <2>4
    <3>2. Before(c.free, e[2], w[2])
      BY <2>1, <3>1
    <3>3. e[2] \in Elements(d.free) /\ w[2] \in Elements(d.free)
      BY <1>2, <1>5, <2>1, <2>2, <2>4 DEF ListOf
    <3>4. Len(d.free) \in Nat
      BY <1>3
    <3>5. Before(d.free, e[2], w[2])
      BY <1>1, <1>2, <3>2, <3>3, <3>4, OrderReflects
    <3> QED
      BY <2>2, <3>5 DEF Anchors
  <2> QED
    BY <2>3, <2>4
<1> QED
  BY <1>4, <1>5, FreeAnchored

LEMMA DrawAnchored ==
  ASSUME NEW Tok, NEW c, InOrder(c, Tok), Anchored(c), NEW r \in Requests, NEW n \in Nat, n <= Len(c.free),
         NEW d, HasDrawn(c, d, r, n), InOrder(d, Tok), Tidy(d)
  PROVE  Anchored(d)
<1> DEFINE q     == c.free
           fresh == NewBlocks(c, n)
           taken == Elements(fresh)
           k     == Len(q)
<1>1. /\ \A b \in Blocks : d.ref_cnt[b] = c.ref_cnt[b] + IF b \in taken THEN 1 ELSE 0
      /\ d.index = {e \in c.index : e[2] \notin taken} /\ d.free = SubSeq(q, n + 1, k)
  BY Zenon DEF HasDrawn
<1>2. q \in Seq(Blocks) /\ k \in Nat /\ c.ref_cnt \in [Blocks -> Nat]
  <2>1. c.free \in Seq(Blocks) /\ c.ref_cnt \in [Blocks -> Nat]
    BY DEF InOrder, Caches
  <2> QED
    BY <2>1
<1>3. Len(fresh) = n /\ \A i \in 1 .. n : fresh[i] = q[i]
  BY <1>2, Stretch DEF NewBlocks
<1> HIDE DEF q, fresh, k
<1>4. Len(d.free) = k - n /\ \A i \in 1 .. k - n : d.free[i] = q[n + i]
  <2>1. /\ Len(SubSeq(q, n + 1, k)) = k - (n + 1) + 1
        /\ \A i \in 1 .. k - (n + 1) + 1 : SubSeq(q, n + 1, k)[i] = q[n + 1 + i - 1]
    <3>1. n + 1 \in Int /\ k \in Int /\ 1 <= n + 1 /\ n + 1 <= k + 1 /\ k <= Len(q) /\ q \in Seq(Blocks)
      BY <1>2 DEF k, q
    <3> QED
      BY <3>1, Stretch
  <2> QED
    BY <1>1, <1>2, <2>1
<1>5. \A i \in 1 .. n : q[i] \in taken
  BY <1>3 DEF Elements
<1> HIDE DEF taken
<1>6. d.index # {} => EnableCaching
  BY <1>1 DEF Anchored
<1>7. ASSUME NEW e \in d.index, d.ref_cnt[e[2]] = 0, Len(e[1]) > BlockSize
      PROVE  \E w : Anchors(d, w, e)
  <2>1. e \in c.index /\ e[2] \notin taken
    BY <1>1, <1>7
  <2>2. PICK w : /\ Anchors(c, w, e) /\ w[2] \in Blocks
                 /\ c.ref_cnt[w[2]] = 0 => Before(c.free, e[2], w[2])
    BY <1>7, <2>1, OldAnchor
  <2>3. w \in c.index /\ w[1] = Parent(e[1])
    BY <2>2, Zenon DEF Anchors
  <2>4. CASE c.ref_cnt[w[2]] # 0
    <3>1. d.ref_cnt[w[2]] # 0
      BY <1>1, <1>2, <2>2, <2>4
    <3>2. w[2] \notin taken
      <4>1. taken \subseteq {b \in Blocks : c.ref_cnt[b] = 0}
        <5>1. ListOf(c.free, {b \in Blocks : c.ref_cnt[b] = 0})
          BY Zenon DEF InOrder, PoolInOrder
        <5> QED
          BY <5>1, ListSplit, Zenon DEF NewBlocks, taken, fresh
      <4> QED
        BY <2>4, <4>1
    <3> QED
      BY <1>1, <2>3, <3>1, <3>2 DEF Anchors
  <2>5. CASE c.ref_cnt[w[2]] = 0
    <3>1. PICK i, j \in 1 .. k : i < j /\ q[i] = e[2] /\ q[j] = w[2]
      BY <2>2, <2>5, Zenon DEF Before, q, k
    <3>2. ~ i <= n
      BY <1>5, <2>1, <3>1
    <3>3. i - n \in 1 .. k - n /\ j - n \in 1 .. k - n /\ i - n < j - n /\ n + (i - n) = i /\ n + (j - n) = j
      BY <1>2, <3>1, <3>2
    <3>4. d.free[i - n] = e[2] /\ d.free[j - n] = w[2]
      BY <1>4, <3>1, <3>3
    <3>5. Before(d.free, e[2], w[2])
      BY <1>4, <3>3, <3>4 DEF Before
    <3>6. w[2] \notin taken
      <4> SUFFICES ASSUME w[2] \in taken PROVE FALSE
        OBVIOUS
      <4>1. PICK l \in 1 .. n : q[l] = w[2]
        BY <1>3 DEF taken, Elements
      <4>2. \A a, b \in 1 .. k : q[a] = q[b] => a = b
        <5>1. ListOf(c.free, {b \in Blocks : c.ref_cnt[b] = 0})
          BY Zenon DEF InOrder, PoolInOrder
        <5> QED
          BY <5>1, ListPlaces DEF q, k
      <4>3. l \in 1 .. k
        BY <1>2 DEF q, k
      <4>4. l = j
        BY <3>1, <4>1, <4>2, <4>3
      <4> QED
        BY <1>2, <3>1, <3>2, <4>4
    <3> QED
      BY <1>1, <2>3, <3>5, <3>6 DEF Anchors
  <2> QED
    BY <2>4, <2>5
<1> QED
  BY <1>6, <1>7, FreeAnchored
LEMMA GiveBackAnchored ==
  ASSUME NEW Tok, NEW c, InOrder(c, Tok), Tidy(c), Anchored(c), NEW r \in Requests,
         NEW d, HasGivenBack(c, d, r), InOrder(d, Tok), Tidy(d)
  PROVE  Anchored(d)
<1> DEFINE own == c.blocks[r]
           L   == Len(own)
           s   == Reverse(own)
           Z   == {b \in Blocks : c.ref_cnt[b] = 0}
<1>1. /\ \A b \in Blocks : d.ref_cnt[b] = c.ref_cnt[b] - IF b \in Elements(own) THEN 1 ELSE 0
      /\ d.index = c.index
  BY Zenon DEF HasGivenBack, SameHashes
<1>2. own \in Seq(Blocks) /\ L \in Nat /\ c.ref_cnt \in [Blocks -> Nat]
  <2>1. c.blocks \in [Requests -> Seq(Blocks)] /\ c.ref_cnt \in [Blocks -> Nat]
    BY DEF InOrder, Caches
  <2> QED
    BY <2>1
<1>3. Len(s) = L /\ \A i \in 1 .. L : s[i] = own[L + 1 - i]
  <2> HIDE DEF own
  <2> QED
    BY <1>2 DEF Reverse
<1>4. EntryOrder(d.free, L, c.free, s, Z, c.ref_cnt, c.block_hash)
  <2>1. EntryOrder(d.free, Len(s), c.free, s, Z, c.ref_cnt, c.block_hash)
    BY GiveBackQueue, Zenon
  <2> QED
    BY <1>3, <2>1
<1> HIDE DEF own, s, L, Z
<1>5. /\ \A x, y \in Z : Before(c.free, x, y) => Before(d.free, x, y)
      /\ \A j \in 1 .. L : c.ref_cnt[s[j]] = 1 /\ c.block_hash[s[j]] # NoHash =>
           /\ \A x \in Z : Before(d.free, x, s[j])
           /\ \A i \in 1 .. j - 1 : c.ref_cnt[s[i]] = 1 => Before(d.free, s[i], s[j])
  BY <1>4, Zenon DEF EntryOrder
<1>6. d.index # {} => EnableCaching
  BY <1>1 DEF Anchored
<1>7. ASSUME NEW e \in d.index, d.ref_cnt[e[2]] = 0, Len(e[1]) > BlockSize
      PROVE  \E w : Anchors(d, w, e)
  <2>1. e \in c.index /\ e[2] \in Blocks
    BY <1>1, <1>7, OldAnchor
  <2>2. PICK w : /\ Anchors(c, w, e) /\ w[2] \in Blocks /\ c.block_hash[w[2]] = w[1] /\ w[1] # NoHash
                 /\ c.ref_cnt[w[2]] = 0 => Before(c.free, e[2], w[2])
    BY <1>7, <2>1, OldAnchor
  <2>3. w \in c.index /\ w \in d.index /\ w[1] = Parent(e[1])
    BY <1>1, <2>2, Zenon DEF Anchors
  <2>4. SUFFICES ASSUME d.ref_cnt[w[2]] = 0
                 PROVE  Before(d.free, e[2], w[2])
    BY <2>3 DEF Anchors
  <2>5. CASE c.ref_cnt[w[2]] = 0
    <3>1. Before(c.free, e[2], w[2])
      BY <2>2, <2>5
    <3>2. e[2] \in Z /\ w[2] \in Z
      <4>1. ListOf(c.free, Z)
        BY Zenon DEF InOrder, PoolInOrder, Z
      <4>2. \A i \in 1 .. Len(c.free) : c.free[i] \in Z
        BY <4>1, ListPlaces
      <4> QED
        BY <3>1, <4>2, Zenon DEF Before
    <3> QED
      BY <1>5, <3>1, <3>2
  <2>6. CASE c.ref_cnt[w[2]] # 0
    <3>1. c.ref_cnt[w[2]] = 1 /\ w[2] \in Elements(own)
      BY <1>1, <1>2, <2>2, <2>4, <2>6
    <3>2. PICK a \in 1 .. L : own[a] = w[2]
      BY <3>1 DEF Elements, L
    <3>3. L + 1 - a \in 1 .. L /\ s[L + 1 - a] = w[2]
      <4>1. L + 1 - a \in 1 .. L /\ L + 1 - (L + 1 - a) = a
        BY <1>2
      <4> QED
        BY <1>3, <3>2, <4>1
    <3>4. /\ \A x \in Z : Before(d.free, x, w[2])
          /\ \A i \in 1 .. (L + 1 - a) - 1 : c.ref_cnt[s[i]] = 1 => Before(d.free, s[i], w[2])
      <4> DEFINE j == L + 1 - a
      <4> HIDE DEF j
      <4>1. j \in 1 .. L /\ c.ref_cnt[s[j]] = 1 /\ c.block_hash[s[j]] # NoHash /\ s[j] = w[2]
        BY <2>2, <3>1, <3>3 DEF j
      <4>2. /\ \A x \in Z : Before(d.free, x, s[j])
            /\ \A i \in 1 .. j - 1 : c.ref_cnt[s[i]] = 1 => Before(d.free, s[i], s[j])
        BY <1>5, <4>1
      <4> QED
        BY <4>1, <4>2 DEF j
    <3>5. CASE c.ref_cnt[e[2]] = 0
      BY <2>1, <3>4, <3>5 DEF Z
    <3>6. CASE c.ref_cnt[e[2]] # 0
      <4>1. c.ref_cnt[e[2]] = 1 /\ e[2] \in Elements(own)
        BY <1>1, <1>2, <1>7, <2>1, <3>6
      <4>2. PICK i \in 1 .. L : own[i] = e[2]
        BY <4>1 DEF Elements, L
      <4>3. e[1] = c.hashes[r][i] /\ i - 1 \in 1 .. L /\ Parent(e[1]) = c.hashes[r][i - 1] /\ i <= Len(c.hashes[r])
        BY <1>7, <2>1, <4>2, CachedPlace DEF own, L
      <4>4. w[1] = c.hashes[r][a] /\ Len(w[1]) = a * BlockSize
        BY <2>3, <3>2, CachedPlace DEF own, L
      <4>5. a = i - 1
        <5>1. Len(c.hashes[r][i - 1]) = (i - 1) * BlockSize
          <6>1. c.hashes[r] \in Seq(Seq(Tok))
            <7>1. c.hashes \in [Requests -> Seq(Seq(Tok))]
              BY DEF InOrder, Caches
            <7> QED
              BY <7>1
          <6>2. i - 1 \in 1 .. Len(c.hashes[r])
            BY <1>2, <4>3, <6>1
          <6> QED
            BY <6>2 DEF InOrder, ChainInOrder
        <5>2. a \in Nat /\ i - 1 \in Nat /\ a * BlockSize = (i - 1) * BlockSize
          BY <1>2, <2>3, <4>3, <4>4, <5>1
        <5> QED
          BY <5>2, Times
      <4>6. L + 1 - i \in 1 .. L /\ L + 1 - i \in 1 .. (L + 1 - a) - 1 /\ L + 1 - (L + 1 - i) = i
        BY <1>2, <4>5
      <4>7. s[L + 1 - i] = e[2]
        BY <1>3, <4>2, <4>6
      <4> QED
        BY <3>4, <4>1, <4>6, <4>7
    <3> QED
      BY <3>5, <3>6
  <2> QED
    BY <2>5, <2>6
<1> QED
  BY <1>6, <1>7, FreeAnchored

\* The chains of the requests do not matter.
LEMMA ChainAnchored ==
  ASSUME NEW c, Anchored(c), NEW d, SamePool(c, d), d.index = c.index
  PROVE  Anchored(d)
  BY DEF Anchored, SamePool

LEMMA CommitAnchored ==
  ASSUME NEW Tok, NEW c, InOrder(c, Tok), Anchored(c), NEW r \in Requests, NEW full \in Nat, NEW n,
         NEW d, HasCommitted(c, d, r, full, n), InOrder(d, Tok), Tidy(d)
  PROVE  Anchored(d)
<1> DEFINE K   == Due(c, r, full)
           new == {<<c.hashes[r][i], c.blocks[r][i]>> : i \in K}
<1>1. /\ d.ref_cnt = c.ref_cnt /\ d.free = c.free
      /\ \A i \in K : i \in 1 .. Len(c.blocks[r])
      /\ d.index = c.index \cup new
  <2>1. HasIndexed(c, d, r, K)
    BY Zenon DEF HasCommitted
  <2> HIDE DEF K
  <2> QED
    BY <2>1, Zenon DEF HasIndexed, SamePool
<1>2. \A i \in K : EnableCaching
  BY Zenon DEF Due
<1> HIDE DEF K
<1>3. d.index # {} => EnableCaching
  BY <1>1, <1>2 DEF Anchored
<1>4. \A e \in new : c.ref_cnt[e[2]] # 0
  <2> SUFFICES ASSUME NEW i \in K PROVE c.ref_cnt[c.blocks[r][i]] # 0
    OBVIOUS
  <2> QED
    BY <1>1, HeldCounts
<1> HIDE DEF new
<1>5. ASSUME NEW e \in d.index, d.ref_cnt[e[2]] = 0, Len(e[1]) > BlockSize
      PROVE  \E w : Anchors(d, w, e)
  <2>1. e \in c.index
    BY <1>1, <1>4, <1>5
  <2>2. PICK w : Anchors(c, w, e)
    BY <1>5, <2>1, OldAnchor
  <2> QED
    BY <1>1, <2>2 DEF Anchors
<1> QED
  BY <1>3, <1>5, FreeAnchored

-----------------------------------------------------------------------------
(* Blocks and rows. *)


LEMMA Division ==
  ASSUME NEW n \in Int, NEW d \in Int, d > 0
  PROVE  n = (n \div d) * d + (n % d)
  BY Z3

LEMMA Quotient ==
  ASSUME NEW n \in Nat
  PROVE  /\ n \div BlockSize \in Nat /\ (n \div BlockSize) * BlockSize \in Nat
         /\ n % BlockSize \in Nat /\ n % BlockSize < BlockSize
         /\ n = (n \div BlockSize) * BlockSize + (n % BlockSize)
<1>1. n \div BlockSize \in Nat /\ (n \div BlockSize) * BlockSize \in Nat
  BY CacheAssumption, SMT
<1>2. n % BlockSize \in Nat /\ n % BlockSize < BlockSize
  BY CacheAssumption, SMT
<1>3. n = (n \div BlockSize) * BlockSize + (n % BlockSize)
  <2>1. BlockSize \in Int /\ BlockSize > 0 /\ n \in Int
    BY CacheAssumption
  <2> QED
    BY <2>1, Division, Zenon
<1> QED
  BY <1>1, <1>2, <1>3, Zenon

LEMMA QuotientIs ==
  ASSUME NEW n \in Nat, NEW k \in Nat, k * BlockSize <= n, n < k * BlockSize + BlockSize
  PROVE  n \div BlockSize = k
  BY CacheAssumption, SMT

\* The row after the first e of them, and the block it is in.
LEMMA NextRow ==
  ASSUME NEW e \in Nat
  PROVE  /\ e \div BlockSize \in Nat
         /\ NumBlocksFor(e + 1) = e \div BlockSize + 1
         /\ (e + 1) % BlockSize = 0 => /\ (e + 1) \div BlockSize = e \div BlockSize + 1
                                       /\ e + 1 = (e \div BlockSize + 1) * BlockSize
         /\ (e + 1) % BlockSize # 0 => (e + 1) \div BlockSize = e \div BlockSize
<1>1. e \div BlockSize \in Nat
  BY CacheAssumption, SMT
<1>2. NumBlocksFor(e + 1) = e \div BlockSize + 1
  BY CacheAssumption, SMT DEF NumBlocksFor
<1>3. (e + 1) % BlockSize = 0 => /\ (e + 1) \div BlockSize = e \div BlockSize + 1
                                 /\ e + 1 = (e \div BlockSize + 1) * BlockSize
  <2> SUFFICES ASSUME (e + 1) % BlockSize = 0
               PROVE  /\ (e + 1) \div BlockSize = e \div BlockSize + 1
                      /\ e + 1 = (e \div BlockSize + 1) * BlockSize
    OBVIOUS
  <2> DEFINE q == (e + 1) \div BlockSize
  <2>1. q \in Nat /\ e + 1 = q * BlockSize
    <3>1. e + 1 \in Nat
      OBVIOUS
    <3>2. q \in Nat /\ q * BlockSize \in Nat /\ e + 1 = q * BlockSize + ((e + 1) % BlockSize)
      BY <3>1, Quotient, Zenon
    <3> HIDE DEF q
    <3> QED
      BY <3>2
  <2> HIDE DEF q
  <2>2. BlockSize \in Nat /\ BlockSize > 0 /\ q # 0
    BY CacheAssumption, <2>1
  <2>3. (q - 1) * BlockSize = q * BlockSize - BlockSize
    BY <2>1, <2>2, SMT
  <2>4. q - 1 \in Nat /\ (q - 1) * BlockSize <= e /\ e < (q - 1) * BlockSize + BlockSize
    BY <2>1, <2>2, <2>3, SMT
  <2>5. e \div BlockSize = q - 1
    BY <2>4, QuotientIs
  <2> QED
    BY <2>1, <2>5 DEF q
<1>4. (e + 1) % BlockSize # 0 => (e + 1) \div BlockSize = e \div BlockSize
  BY CacheAssumption, SMT
<1> QED
  BY <1>1, <1>2, <1>3, <1>4, Zenon

LEMMA WithinBlocks ==
  ASSUME NEW i \in Nat, NEW n \in Nat, i * BlockSize <= n
  PROVE  i <= n \div BlockSize
  BY CacheAssumption, SMT

\* A chain built over tokens is one built over more of them.
LEMMA AppendChain ==
  ASSUME NEW Tok, NEW t \in Seq(Tok), NEW x \in Tok, NEW h, Len(h) \in Nat, ChainOf(h, t)
  PROVE  ChainOf(h, Append(t, x))
<1> DEFINE n == Len(t)
           w == Append(t, x)
<1>1. n \in Nat /\ w \in Seq(Tok) /\ Len(w) = n + 1 /\ \A i \in 1 .. n : w[i] = t[i]
  OBVIOUS
<1>2. Len(h) <= n \div BlockSize /\ \A j \in 1 .. Len(h) : h[j] = SubSeq(t, 1, j * BlockSize)
  BY DEF ChainOf
<1>3. n \div BlockSize \in Nat /\ (n + 1) \div BlockSize \in Nat /\ n \div BlockSize <= (n + 1) \div BlockSize
  <2>1. n \div BlockSize \in Nat /\ (n \div BlockSize) * BlockSize <= n
    BY <1>1, WholeBlocks
  <2>2. (n \div BlockSize) * BlockSize \in Nat
    BY <1>1, Quotient, Zenon
  <2> HIDE DEF n
  <2>3. n + 1 \in Nat /\ (n \div BlockSize) * BlockSize <= n + 1 /\ (n + 1) \div BlockSize \in Nat
    BY <1>1, <2>1, <2>2, WholeBlocks
  <2> QED
    BY <2>1, <2>3, WithinBlocks
<1> HIDE DEF n, w
<1>4. ASSUME NEW j \in 1 .. Len(h)
      PROVE  h[j] = SubSeq(w, 1, j * BlockSize)
  <2> DEFINE l == j * BlockSize
  <2>1. l \in Nat /\ l <= n
    <3>1. j \in Nat /\ j <= n \div BlockSize
      BY <1>2, <1>3
    <3> QED
      BY <1>1, <3>1, BlockEnds
  <2> HIDE DEF l
  <2>2. SubSeq(t, 1, l) = SubSeq(w, 1, l)
    <3>1. \A i \in 1 .. l : t[i] = w[i]
      BY <1>1, <2>1
    <3> QED
      BY <1>1, <2>1, <3>1 DEF n
  <2> QED
    BY <1>2, <2>2 DEF l
<1>5. Len(h) <= Len(w) \div BlockSize
  BY <1>1, <1>2, <1>3
<1> QED
  BY <1>4, <1>5, Zenon DEF ChainOf, w

LEMMA CanonAt ==
  ASSUME NEW Tok, NEW t \in Seq(Tok), NEW h, Len(h) \in Nat, h = [j \in 1 .. Len(h) |-> h[j]],
         Len(h) = Len(t) \div BlockSize, ChainOf(h, t)
  PROVE  h = Canon(t)
<1>1. \A j \in 1 .. Len(h) : h[j] = SubSeq(t, 1, j * BlockSize)
  BY DEF ChainOf
<1>2. h = [j \in 1 .. Len(h) |-> SubSeq(t, 1, j * BlockSize)]
  BY <1>1, Zenon
<1> QED
  BY <1>2, Zenon DEF Canon

-----------------------------------------------------------------------------
(* What the operations do to a cache that is in order and neat. *)

Neat(c) == Tidy(c) /\ Anchored(c)

\* The free queue lists what nobody references.
LEMMA FreeSet ==
  ASSUME NEW Tok, NEW c, InOrder(c, Tok)
  PROVE  Elements(c.free) = {b \in Blocks : c.ref_cnt[b] = 0}
  BY Zenon DEF InOrder, PoolInOrder, ListOf

LEMMA CacheTypes ==
  ASSUME NEW Tok, NEW c, InOrder(c, Tok)
  PROVE  /\ c.ref_cnt \in [Blocks -> Nat] /\ c.block_hash \in [Blocks -> Seq(Tok)] /\ c.free \in Seq(Blocks)
         /\ c.index \subseteq Seq(Tok) \X Blocks /\ c.blocks \in [Requests -> Seq(Blocks)]
         /\ c.num_cached \in [Requests -> Nat] /\ c.hashes \in [Requests -> Seq(Seq(Tok))]
         /\ c.mapped \in [Requests -> Nat]
  BY DEF InOrder, Caches

\* The length of a list of blocks.
LEMMA ListCount ==
  ASSUME NEW T, T \subseteq Blocks, NEW s, ListOf(s, T)
  PROVE  Len(s) <= Cardinality(Blocks) /\ (Len(s) = Cardinality(Blocks) => T = Blocks)
<1>1. s \in Bijection(1 .. Len(s), T) /\ Len(s) \in Nat
  <2>1. /\ Len(s) \in Nat /\ DOMAIN s = 1 .. Len(s) /\ s \in Seq(T)
        /\ \A i, j \in 1 .. Len(s) : s[i] = s[j] => i = j
        /\ \A x \in T : \E i \in 1 .. Len(s) : s[i] = x
    BY ListPlaces
  <2>2. s \in [1 .. Len(s) -> T]
    BY <2>1
  <2> QED
    BY <2>1, <2>2, Zenon DEF Bijection, Injection, Surjection, IsInjective
<1>2. Cardinality(T) = Len(s)
  BY <1>1, FS_CountingElements DEF ExistsBijection
<1> QED
  BY CacheAssumption, <1>2, FS_Subset

\* r holds nothing and is not tracked any more.
HasFreed(c, d, r) ==
  /\ \A b \in Blocks : d.ref_cnt[b] = c.ref_cnt[b] - IF b \in Elements(c.blocks[r]) THEN 1 ELSE 0
  /\ Only(c.blocks, d.blocks, r, <<>>) /\ Only(c.hashes, d.hashes, r, <<>>) /\ Only(c.mapped, d.mapped, r, 0)
  /\ d.block_hash = c.block_hash /\ d.index = c.index

LEMMA FreeTidy ==
  ASSUME NEW Tok, NEW c, InOrder(c, Tok), Neat(c), NEW r \in Requests
  PROVE  InOrder(Free(c, r), Tok) /\ Neat(Free(c, r)) /\ HasFreed(c, Free(c, r), r)
<1> DEFINE e == CoordinatorFree(c, r)
           d == Free(c, r)
<1>1. HasGivenBack(c, e, r)
  BY GiveBackEffect
<1>2. InOrder(e, Tok) /\ Tidy(e) /\ Anchored(e)
  BY <1>1, GiveBackTidy, GiveBackAnchored, CoordinatorFreeInOrder DEF Neat
<1>3. HasChain(e, d, r, <<>>) /\ Only(e.mapped, d.mapped, r, 0)
  BY FreeEffect
<1>4. InOrder(d, Tok)
  BY FreeInOrder
<1> HIDE DEF e, d
<1>5. Nested(<<>>) /\ Len(<<>>) \in Nat /\ e.blocks[r] = <<>>
  <2>1. Len(<<>>) = 0
    OBVIOUS
  <2>2. \A i \in 2 .. 0 : FALSE
    OBVIOUS
  <2> QED
    BY <1>1, <2>1, <2>2 DEF Nested, HasGivenBack, Only
<1>6. Neat(d)
  BY <1>2, <1>3, <1>5, ChainTidy, ChainAnchored DEF HasChain, Neat
<1>7. HasFreed(c, d, r)
  BY <1>1, <1>3, Zenon DEF HasGivenBack, HasChain, SamePool, SameHashes, HasFreed, Only
<1> QED
  BY <1>4, <1>6, <1>7, Zenon DEF d

\* Following the tokens t of r: the chain is that of t.
LEMMA TrackTidy ==
  ASSUME NEW Tok, NEW c, InOrder(c, Tok), Neat(c), NEW r \in Requests, NEW t \in Seq(Tok), ChainOf(c.hashes[r], t)
  PROVE  /\ InOrder(Track(c, r, t), Tok) /\ Neat(Track(c, r, t))
         /\ HasChain(c, Track(c, r, t), r, Canon(t)) /\ Track(c, r, t).mapped = c.mapped
<1> DEFINE d == Track(c, r, t)
           h == c.hashes[r]
<1>1. h \in Seq(Seq(Tok)) /\ ChainInOrder(h) /\ Nested(h)
  <2>1. c.hashes \in [Requests -> Seq(Seq(Tok))]
    BY CacheTypes
  <2>2. ChainInOrder(h) /\ Nested(h)
    BY Zenon DEF InOrder, Tidy, Neat
  <2> QED
    BY <2>1, <2>2
<1>2. ExtendHashes(h, t) = Canon(t)
  BY <1>1, ExtendIsCanon
<1>3. Nested(Canon(t)) /\ Len(Canon(t)) \in Nat /\ Continues(Canon(t), h)
  BY <1>1, <1>2, ExtendNested
<1>4. HasChain(c, d, r, Canon(t)) /\ d.mapped = c.mapped
  BY <1>2, TrackEffect
<1>5. InOrder(d, Tok)
  BY TrackInOrder
<1> HIDE DEF d
<1>6. Neat(d)
  BY <1>3, <1>4, ChainTidy, ChainAnchored DEF HasChain, Neat
<1> QED
  BY <1>4, <1>5, <1>6, Zenon DEF d

LEMMA CommitStaysTidy ==
  ASSUME NEW Tok, NEW c, InOrder(c, Tok), Neat(c), NEW r \in Requests, NEW n \in Int
  PROVE  InOrder(Commit(c, r, n), Tok) /\ Neat(Commit(c, r, n))
<1> DEFINE d == Commit(c, r, n)
<1>1. InOrder(d, Tok)
  BY CommitInOrder
<1>2. SameCache(c, d) \/ \E full \in Nat : HasCommitted(c, d, r, full, n)
  BY CommitEffect
<1> HIDE DEF d
<1>3. Neat(d)
  <2>1. CASE SameCache(c, d)
    <3>1. /\ d.block_hash = c.block_hash /\ d.index = c.index /\ d.hashes = c.hashes
          /\ d.free = c.free /\ d.blocks = c.blocks /\ d.num_cached = c.num_cached
      BY <2>1, Zenon DEF SameCache, SamePool, SameHashes
    <3>2. Tidy(d)
      BY <3>1 DEF Neat, Tidy
    <3> QED
      BY <2>1, <3>1, <3>2, ChainAnchored DEF Neat, SameCache
  <2>2. CASE \E full \in Nat : HasCommitted(c, d, r, full, n)
    <3>1. PICK full \in Nat : HasCommitted(c, d, r, full, n)
      BY <2>2
    <3>2. Tidy(d)
      BY <3>1, CommitTidy DEF Neat
    <3> QED
      BY <1>1, <3>1, <3>2, CommitAnchored DEF Neat
  <2> QED
    BY <1>2, <2>1, <2>2
<1> QED
  BY <1>1, <1>3 DEF d

\* What r has once it has adopted m.
Base(c, r, m) == IF m = <<>> THEN c.blocks[r] ELSE m

\* Adoption, of nothing too.
Took(c, a, r, m) ==
  /\ \A b \in Blocks : a.ref_cnt[b] = c.ref_cnt[b] + IF b \in Elements(m) THEN 1 ELSE 0
  /\ Only(c.blocks, a.blocks, r, Base(c, r, m)) /\ SameHashes(c, a)

LEMMA AdoptStaysTidy ==
  ASSUME NEW Tok, NEW c, InOrder(c, Tok), Neat(c), NEW r \in Requests, NEW m,
         m = <<>> \/ IsMatch(c, r, m), MayAdopt(c, r, m)
  PROVE  InOrder(Adopt(c, r, m), Tok) /\ Neat(Adopt(c, r, m)) /\ Took(c, Adopt(c, r, m), r, m)
<1>1. CASE m = <<>>
  <2>1. Adopt(c, r, m) = c
    BY <1>1 DEF Adopt
  <2>2. c.ref_cnt \in [Blocks -> Nat]
    BY CacheTypes
  <2>3. \A b : b \notin Elements(m)
    BY <1>1 DEF Elements
  <2>4. \A b \in Blocks : c.ref_cnt[b] = c.ref_cnt[b] + IF b \in Elements(m) THEN 1 ELSE 0
    BY <2>2, <2>3
  <2>5. Took(c, c, r, m)
    BY <1>1, <2>4, Zenon DEF Took, Only, SameHashes, Base
  <2> QED
    BY <2>1, <2>5
<1>2. CASE m # <<>>
  <2> DEFINE d == Adopt(c, r, m)
  <2>1. IsMatch(c, r, m)
    BY <1>2
  <2>2. HasAdopted(c, d, r, m)
    BY <1>2, <2>1, AdoptEffect
  <2>3. InOrder(d, Tok)
    BY <2>1, AdoptInOrder
  <2> HIDE DEF d
  <2>4. Neat(d)
    <3>1. Tidy(d)
      BY <2>1, <2>2, AdoptTidy DEF Neat
    <3> QED
      BY <2>2, <2>3, <3>1, AdoptAnchored DEF Neat
  <2>5. Took(c, d, r, m)
    BY <1>2, <2>2, Zenon DEF HasAdopted, Took, Base
  <2> QED
    BY <2>3, <2>4, <2>5 DEF d
<1> QED
  BY <1>1, <1>2

\* fresh are n blocks of the set avail, the hash-less ones first.
FreshOf(fresh, n, avail, block_hash) ==
  /\ fresh \in [1 .. n -> avail] /\ Len(fresh) = n
  /\ \A i, j \in 1 .. n : fresh[i] = fresh[j] => i = j
  /\ (\E b \in Elements(fresh) : block_hash[b] # NoHash) =>
       {b \in avail : block_hash[b] = NoHash} \subseteq Elements(fresh)

LEMMA DrawnAreFresh ==
  ASSUME NEW Tok, NEW c, InOrder(c, Tok), Neat(c), NEW n \in Nat, n <= Len(c.free)
  PROVE  FreshOf(NewBlocks(c, n), n, Elements(c.free), c.block_hash)
<1> DEFINE q == c.free
           f == NewBlocks(c, n)
<1>1. ListOf(q, {b \in Blocks : c.ref_cnt[b] = 0})
  BY Zenon DEF InOrder, PoolInOrder
<1>2. /\ Len(q) \in Nat /\ q \in Seq(Blocks)
      /\ \A i, j \in 1 .. Len(q) : q[i] = q[j] => i = j
  <2>1. c.free \in Seq(Blocks)
    BY CacheTypes
  <2> QED
    BY <1>1, <2>1, ListPlaces
<1>3. f \in Seq(Blocks) /\ Len(f) = n /\ \A i \in 1 .. n : f[i] = q[i]
  BY <1>2, Stretch DEF NewBlocks
<1>4. HashlessFirst(q, c.block_hash)
  BY Zenon DEF Tidy, Neat
<1> HIDE DEF q, f
<1>5. f \in [1 .. n -> Elements(q)]
  BY <1>2, <1>3 DEF Elements, q
<1>6. \A i, j \in 1 .. n : f[i] = f[j] => i = j
  BY <1>2, <1>3 DEF q
<1>7. ASSUME NEW b \in Elements(f), c.block_hash[b] # NoHash, NEW x \in Elements(q), c.block_hash[x] = NoHash
      PROVE  x \in Elements(f)
  <2>1. PICK i \in 1 .. n : b = f[i]
    BY <1>3, <1>7 DEF Elements
  <2>2. PICK j \in 1 .. Len(q) : x = q[j]
    BY <1>7 DEF Elements
  <2>3. i \in 1 .. Len(q) /\ ~ i < j
    BY <1>2, <1>3, <1>4, <1>7, <2>1, <2>2 DEF HashlessFirst, q
  <2>4. j \in 1 .. n
    BY <1>2, <2>3
  <2> QED
    BY <1>3, <2>2, <2>4 DEF Elements
<1> QED
  BY <1>3, <1>5, <1>6, <1>7, Zenon DEF FreshOf, q, f

\* r has adopted m and drawn n fresh blocks.
HasAllocated(c, d, r, m, n, fresh) ==
  /\ FreshOf(fresh, n, Elements(c.free) \ Elements(m), c.block_hash) /\ n <= Cardinality(Blocks)
  /\ \A b \in Blocks : d.ref_cnt[b] = c.ref_cnt[b] + IF b \in Elements(m) \cup Elements(fresh) THEN 1 ELSE 0
  /\ \A b \in Blocks : d.block_hash[b] = IF b \in Elements(fresh) THEN NoHash ELSE c.block_hash[b]
  /\ d.index = {e \in c.index : e[2] \notin Elements(fresh)}
  /\ Only(c.blocks, d.blocks, r, Base(c, r, m) \o fresh)
  /\ d.hashes = c.hashes /\ d.mapped = c.mapped

LEMMA AllocateTidy ==
  ASSUME NEW Tok, NEW c, InOrder(c, Tok), Neat(c), NEW r \in Requests, NEW k \in Int, NEW m,
         m = <<>> \/ IsMatch(c, r, m), MayAdopt(c, r, m), Fits(c, r, k, m)
  PROVE  /\ InOrder(Allocate(c, r, k, m), Tok) /\ Neat(Allocate(c, r, k, m))
         /\ Needed(c, r, k, m) \in Nat
         /\ \E fresh : HasAllocated(c, Allocate(c, r, k, m), r, m, Needed(c, r, k, m), fresh)
<1> DEFINE a == Adopt(c, r, m)
           n == Needed(c, r, k, m)
           d == Allocate(c, r, k, m)
           f == NewBlocks(a, n)
<1>1. InOrder(a, Tok) /\ Neat(a) /\ Took(c, a, r, m)
  BY AdoptStaysTidy
<1>2. n \in Nat /\ n <= Len(a.free)
  <2>1. m = <<>> \/ m \in Seq(Blocks)
    BY Zenon DEF IsMatch
  <2> QED
    BY <2>1, NeededIsNat, Zenon DEF Fits
<1>3. d = Draw(a, r, n)
  BY Zenon DEF Allocate, Draw
<1> HIDE DEF a, n, d
<1>4. InOrder(d, Tok) /\ HasDrawn(a, d, r, n)
  BY <1>1, <1>2, <1>3, DrawInOrder, DrawEffect
<1>5. Neat(d)
  <2>1. Tidy(d)
    BY <1>1, <1>2, <1>4, DrawTidy DEF Neat
  <2> QED
    BY <1>1, <1>2, <1>4, <2>1, DrawAnchored DEF Neat
<1>6. FreshOf(f, n, Elements(a.free), a.block_hash)
  BY <1>1, <1>2, DrawnAreFresh
<1>7. /\ \A b \in Blocks : d.ref_cnt[b] = a.ref_cnt[b] + IF b \in Elements(f) THEN 1 ELSE 0
      /\ \A b \in Blocks : d.block_hash[b] = IF b \in Elements(f) THEN NoHash ELSE a.block_hash[b]
      /\ d.index = {e \in a.index : e[2] \notin Elements(f)}
      /\ Only(a.blocks, d.blocks, r, a.blocks[r] \o f)
      /\ d.hashes = a.hashes /\ d.mapped = a.mapped
  BY <1>4, Zenon DEF HasDrawn
<1>8. /\ \A b \in Blocks : a.ref_cnt[b] = c.ref_cnt[b] + IF b \in Elements(m) THEN 1 ELSE 0
      /\ Only(c.blocks, a.blocks, r, Base(c, r, m))
      /\ a.block_hash = c.block_hash /\ a.index = c.index /\ a.hashes = c.hashes /\ a.mapped = c.mapped
  BY <1>1, Zenon DEF Took, SameHashes
<1>9. c.ref_cnt \in [Blocks -> Nat] /\ a.ref_cnt \in [Blocks -> Nat]
  BY <1>1, CacheTypes
<1>10. Elements(c.free) = {b \in Blocks : c.ref_cnt[b] = 0} /\ Elements(a.free) = {b \in Blocks : a.ref_cnt[b] = 0}
  BY <1>1, FreeSet
<1>11. Elements(a.free) = Elements(c.free) \ Elements(m)
  <2>1. \A b \in Blocks : a.ref_cnt[b] = 0 <=> c.ref_cnt[b] = 0 /\ b \notin Elements(m)
    BY <1>8, <1>9
  <2> QED
    BY <1>10, <2>1, Zenon
<1> HIDE DEF f
<1>12. Elements(f) \subseteq Elements(a.free)
  BY <1>6 DEF FreshOf, Elements
<1>13. \A b \in Blocks : d.ref_cnt[b] = c.ref_cnt[b] + IF b \in Elements(m) \cup Elements(f) THEN 1 ELSE 0
  <2>1. \A b \in Elements(f) : b \notin Elements(m)
    BY <1>11, <1>12
  <2> QED
    BY <1>7, <1>8, <1>9, <2>1
<1>14. Only(c.blocks, d.blocks, r, Base(c, r, m) \o f)
  BY <1>7, <1>8, Zenon DEF Only
<1>15. n <= Cardinality(Blocks)
  <2>1. ListOf(a.free, {b \in Blocks : a.ref_cnt[b] = 0})
    BY <1>1, Zenon DEF InOrder, PoolInOrder
  <2>2. Len(a.free) <= Cardinality(Blocks) /\ Cardinality(Blocks) \in Nat /\ Len(a.free) \in Nat
    <3>1. a.free \in Seq(Blocks)
      BY <1>1, CacheTypes
    <3> QED
      BY CacheAssumption, <2>1, <3>1, ListCount, FS_CardinalityType
  <2> QED
    BY <1>2, <2>2
<1>16. HasAllocated(c, d, r, m, n, f)
  BY <1>6, <1>7, <1>8, <1>11, <1>13, <1>14, <1>15 DEF HasAllocated
<1> QED
  BY <1>2, <1>4, <1>5, <1>16, Zenon DEF d, n

\* A request that holds nothing needs a block for its first token.
LEMMA NeedsSome ==
  ASSUME NEW c, NEW r \in Requests, c.blocks[r] = <<>>, NEW k \in Nat, k # 0
  PROVE  Needed(c, r, k, <<>>) # 0
<1>1. PICK e \in Nat : k = e + 1
  BY k - 1 \in Nat
<1>2. NumBlocksFor(k) = e \div BlockSize + 1 /\ e \div BlockSize \in Nat
  BY <1>1, NextRow
<1>3. Needed(c, r, k, <<>>) = Larger(NumBlocksFor(k) - 0, 0)
  BY DEF Needed
<1> QED
  BY <1>2, <1>3 DEF Larger

\* d has what c has: only the order of the free queue and the cursors of a
\* request without blocks may differ.
SameLedger(c, d) ==
  /\ d.ref_cnt = c.ref_cnt /\ d.blocks = c.blocks /\ d.block_hash = c.block_hash /\ d.index = c.index
  /\ d.hashes = c.hashes /\ d.mapped = c.mapped

\* A match that is adopted and given back leaves the ledger as it was.
LEMMA RefuseTidy ==
  ASSUME NEW Tok, NEW c, InOrder(c, Tok), Neat(c), NEW r \in Requests, c.blocks[r] = <<>>, NEW m, IsMatch(c, r, m)
  PROVE  LET d == RefuseAllocation(c, r, m)
         IN  InOrder(d, Tok) /\ Neat(d) /\ SameLedger(c, d)
<1>1. CASE m = <<>>
  <2>1. RefuseAllocation(c, r, m) = c
    BY <1>1 DEF RefuseAllocation
  <2> QED
    BY <2>1 DEF SameLedger
<1>2. CASE m # <<>>
  <2> DEFINE a == Adopt(c, r, m)
             d == CoordinatorFree(a, r)
  <2>1. InOrder(a, Tok) /\ Neat(a) /\ Took(c, a, r, m)
    BY AdoptStaysTidy DEF MayAdopt
  <2>2. InOrder(d, Tok) /\ Neat(d) /\ HasGivenBack(a, d, r)
    BY <2>1, CoordinatorFreeInOrder, GiveBackEffect, GiveBackTidy, GiveBackAnchored DEF Neat
  <2>3. RefuseAllocation(c, r, m) = d
    BY <1>2 DEF RefuseAllocation
  <2> HIDE DEF a, d
  <2>4. /\ \A b \in Blocks : a.ref_cnt[b] = c.ref_cnt[b] + IF b \in Elements(m) THEN 1 ELSE 0
        /\ a.blocks[r] = m /\ \A p \in Requests : p # r => a.blocks[p] = c.blocks[p]
        /\ a.block_hash = c.block_hash /\ a.index = c.index /\ a.hashes = c.hashes /\ a.mapped = c.mapped
    BY <1>2, <2>1, Zenon DEF Took, SameHashes, Only, Base
  <2>5. /\ \A b \in Blocks : d.ref_cnt[b] = a.ref_cnt[b] - IF b \in Elements(m) THEN 1 ELSE 0
        /\ d.blocks[r] = <<>> /\ \A p \in Requests : p # r => d.blocks[p] = a.blocks[p]
        /\ d.block_hash = a.block_hash /\ d.index = a.index /\ d.hashes = a.hashes /\ d.mapped = a.mapped
    BY <2>2, <2>4, Zenon DEF HasGivenBack, SameHashes, Only
  <2>6. /\ c.ref_cnt \in [Blocks -> Nat] /\ d.ref_cnt \in [Blocks -> Nat]
        /\ c.blocks \in [Requests -> Seq(Blocks)] /\ d.blocks \in [Requests -> Seq(Blocks)]
    BY <2>2, CacheTypes
  <2>7. \A b \in Blocks : d.ref_cnt[b] = c.ref_cnt[b]
    BY <2>4, <2>5, <2>6
  <2>8. \A p \in Requests : d.blocks[p] = c.blocks[p]
    BY <2>4, <2>5, Zenon
  <2>9. d.ref_cnt = c.ref_cnt /\ d.blocks = c.blocks
    BY <2>6, <2>7, <2>8
  <2> QED
    BY <2>2, <2>3, <2>4, <2>5, <2>9 DEF SameLedger
<1> QED
  BY <1>1, <1>2

\* Free leaves r without blocks and the others with theirs.
LEMMA FreeBlocksOf ==
  ASSUME NEW Tok, NEW c, InOrder(c, Tok), NEW r \in Requests
  PROVE  /\ InOrder(Free(c, r), Tok) /\ Free(c, r).blocks[r] = <<>>
         /\ \A q \in Requests : q # r => Free(c, r).blocks[q] = c.blocks[q]
<1>1. c.blocks \in [Requests -> Seq(Blocks)]
  BY DEF InOrder, Caches
<1>2. InOrder(Free(c, r), Tok) /\ Free(c, r).blocks = [c.blocks EXCEPT ![r] = <<>>]
  BY FreeInOrder
<1> DEFINE d == Free(c, r)
<1> HIDE DEF d
<1>3. d.blocks = [c.blocks EXCEPT ![r] = <<>>]
  BY <1>2 DEF d
<1>4. d.blocks[r] = <<>> /\ \A q \in Requests : q # r => d.blocks[q] = c.blocks[q]
  BY <1>1, <1>3
<1> QED
  BY <1>2, <1>4 DEF d

\* A free forgets what the executor was told of the request.
LEMMA FreeMapped ==
  ASSUME NEW Tok, NEW c, InOrder(c, Tok), NEW r \in Requests
  PROVE  /\ Free(c, r).mapped[r] = 0 /\ \A q \in Requests : q # r => Free(c, r).mapped[q] = c.mapped[q]
         /\ CoordinatorFree(c, r).mapped = c.mapped
<1> DEFINE e == CoordinatorFree(c, r)
<1>1. e.mapped = c.mapped
  <2>1. c \in Caches(Tok)
    BY DEF InOrder
  <2> DEFINE f == FreeBlocks(c, Reverse(c.blocks[r]))
  <2>2. f.mapped = c.mapped /\ f = [f EXCEPT !.mapped = c.mapped]
    BY <2>1 DEF FreeBlocks, Caches
  <2>3. DOMAIN f = DOMAIN c
    BY <2>1 DEF FreeBlocks, Caches
  <2>4. e = [f EXCEPT !.blocks[r] = <<>>, !.num_cached[r] = 0]
    BY DEF CoordinatorFree
  <2>5. "mapped" \in DOMAIN c
    BY <2>1 DEF Caches
  <2> HIDE DEF f
  <2> QED
    BY <2>2, <2>3, <2>4, <2>5
<1>2. Only(e.mapped, Free(c, r).mapped, r, 0)
  BY FreeEffect
<1> QED
  BY <1>1, <1>2 DEF Only

\* A match leaves at least the last token of the prompt to run.
LEMMA HitLeavesOne ==
  ASSUME NEW Tok, NEW c, InOrder(c, Tok), NEW r \in Requests, NEW n \in Nat \ {0}, NEW m \in Lookup(c, r, n)
  PROVE  Len(m) \in Nat /\ Len(m) * BlockSize \in Nat /\ Len(m) * BlockSize < n /\ Len(m) <= Len(c.hashes[r])
<1> DEFINE l == MaxHit(n)
           q == l \div BlockSize
<1>1. BlockSize \in Nat /\ BlockSize > 0 /\ l \in Nat /\ l < n
  BY CacheAssumption DEF MaxHit
<1>2. Len(c.hashes[r]) \in Nat
  BY DEF InOrder, Caches
<1> HIDE DEF l
<1>3. q \in Nat /\ q * BlockSize \in Nat /\ q * BlockSize <= l
  <2>1. q \in Nat /\ q * BlockSize \in Nat /\ l % BlockSize \in Nat /\ l = q * BlockSize + (l % BlockSize)
    BY <1>1, Quotient, Zenon
  <2> DEFINE y == q * BlockSize
             z == l % BlockSize
  <2>2. y \in Nat /\ z \in Nat /\ l = y + z
    BY <2>1
  <2> HIDE DEF y, z
  <2>3. y <= l
    BY <2>2
  <2> QED
    BY <2>1, <2>3 DEF y
<1>4. Len(m) \in Nat /\ Len(m) <= q /\ Len(m) <= Len(c.hashes[r])
  <2>1. PICK k : m \in [1 .. k -> Blocks] /\ k \in Nat /\ k <= q /\ k <= Len(c.hashes[r])
    <3>1. CASE EnableCaching
      <4> DEFINE k == HitLength(c, c.hashes[r], l)
      <4>1. m \in [1 .. k -> Blocks]
        BY <3>1 DEF Lookup, l
      <4>2. k \in Nat /\ k <= q /\ k <= Len(c.hashes[r])
        <5>1. c.hashes[r] \in Seq(Seq(Tok))
          BY DEF InOrder, Caches
        <5> QED
          BY <1>1, <1>2, <1>3, <5>1, HitIsRun
      <4> QED
        BY <4>1, <4>2, Zenon
    <3>2. CASE ~EnableCaching
      <4>1. m \in [1 .. 0 -> Blocks]
        BY <3>2 DEF Lookup
      <4>2. 0 \in Nat /\ 0 <= q /\ 0 <= Len(c.hashes[r])
        BY <1>2, <1>3
      <4> QED
        BY <4>1, <4>2, Zenon
    <3> QED
      BY <3>1, <3>2
  <2>2. Len(m) = k
    BY <2>1
  <2> QED
    BY <2>1, <2>2
<1>5. Len(m) * BlockSize \in Nat /\ Len(m) * BlockSize <= q * BlockSize
  BY <1>3, <1>4, Times
<1> DEFINE x == Len(m) * BlockSize
           y == q * BlockSize
<1>6. x \in Nat /\ x <= y /\ y <= l /\ y \in Nat
  BY <1>3, <1>5
<1> HIDE DEF x, y
<1>7. x < n
  BY <1>1, <1>6
<1> QED
  BY <1>4, <1>6, <1>7 DEF x

-----------------------------------------------------------------------------
(* Rows. *)

\* The row of position p of a sequence that holds the blocks own.
RowOf(own, p) == <<own[NumBlocksFor(p)], (p - 1) % BlockSize>>

\* The block and the offset of a position.
LEMMA RowPlace ==
  ASSUME NEW p \in Nat \ {0}
  PROVE  /\ NumBlocksFor(p) \in Nat \ {0} /\ (p - 1) % BlockSize \in 0 .. BlockSize - 1
         /\ p = (NumBlocksFor(p) - 1) * BlockSize + ((p - 1) % BlockSize) + 1
         /\ \A n \in Nat : p <= n * BlockSize <=> NumBlocksFor(p) <= n
<1> DEFINE e == p - 1
           q == e \div BlockSize
           k == e % BlockSize
<1>1. e \in Nat /\ p = e + 1 /\ BlockSize \in Nat /\ BlockSize > 0
  BY CacheAssumption
<1> HIDE DEF e
<1>2. q \in Nat /\ q * BlockSize \in Nat /\ k \in Nat /\ k < BlockSize /\ e = q * BlockSize + k
  BY <1>1, Quotient, Zenon
<1>3. NumBlocksFor(p) = q + 1
  BY <1>1, NextRow
<1> HIDE DEF q, k
<1>4. ASSUME NEW n \in Nat PROVE p <= n * BlockSize <=> q + 1 <= n
  <2>1. n * BlockSize \in Nat /\ (n <= q => n * BlockSize <= q * BlockSize)
    BY <1>2, Times
  <2>2. (q + 1) * BlockSize = q * BlockSize + BlockSize
    BY <1>1, <1>2, SMT
  <2>3. q + 1 \in Nat /\ (q + 1) * BlockSize \in Nat /\ (q + 1 <= n => (q + 1) * BlockSize <= n * BlockSize)
    <3>1. q + 1 \in Nat
      BY <1>2
    <3> QED
      BY <3>1, Times
  <2> DEFINE x == n * BlockSize
             y == q * BlockSize
             z == (q + 1) * BlockSize
  <2>4. x \in Nat /\ y \in Nat /\ (n <= q => x <= y) /\ z = y + BlockSize /\ (q + 1 <= n => z <= x) /\ e = y + k
    BY <1>2, <2>1, <2>2, <2>3
  <2> HIDE DEF x, y, z
  <2>5. p <= x <=> q + 1 <= n
    BY <1>1, <1>2, <2>4
  <2> QED
    BY <2>5 DEF x
<1>5. (q + 1) - 1 = q
  BY <1>2
<1> DEFINE y == q * BlockSize
<1>6. y \in Nat /\ e = y + k
  BY <1>2
<1> HIDE DEF y
<1>7. p = y + k + 1 /\ k \in 0 .. BlockSize - 1 /\ q + 1 \in Nat \ {0}
  BY <1>1, <1>2, <1>6
<1> QED
  BY <1>3, <1>4, <1>5, <1>7 DEF y, k, e

\* The position of an offset of a block.
LEMMA PlaceRow ==
  ASSUME NEW i \in Nat \ {0}, NEW j \in 1 .. BlockSize
  PROVE  LET p == (i - 1) * BlockSize + j
         IN  /\ p \in Nat \ {0} /\ NumBlocksFor(p) = i /\ (p - 1) % BlockSize = j - 1
             /\ p <= i * BlockSize /\ p = i * BlockSize - BlockSize + j
<1> DEFINE y == (i - 1) * BlockSize
           p == y + j
           n == NumBlocksFor(p)
           k == (p - 1) % BlockSize
           z == (n - 1) * BlockSize
<1>1. i - 1 \in Nat /\ BlockSize \in Nat /\ BlockSize > 0 /\ j \in Nat /\ j >= 1 /\ j <= BlockSize
  BY CacheAssumption
<1>2. y \in Nat /\ i * BlockSize = y + BlockSize
  <2>1. y \in Nat
    BY <1>1, Times
  <2>2. i * BlockSize = y + BlockSize
    BY <1>1, SMT
  <2> QED
    BY <2>1, <2>2
<1> HIDE DEF y
<1>3. p \in Nat \ {0} /\ p <= i * BlockSize
  BY <1>1, <1>2
<1>4. n \in Nat \ {0} /\ k \in 0 .. BlockSize - 1 /\ p = z + k + 1 /\ n <= i
  BY <1>3, RowPlace
<1>5. ~ (n <= i - 1)
  <2>1. ~ (p <= y)
    BY <1>1, <1>2
  <2> QED
    BY <1>1, <1>3, <2>1, RowPlace DEF y
<1> HIDE DEF n
<1>6. n = i
  BY <1>1, <1>4, <1>5
<1>7. z = y
  BY <1>6 DEF y
<1> HIDE DEF z
<1>8. k = j - 1
  <2> HIDE DEF k
  <2> QED
    BY <1>1, <1>2, <1>4, <1>7
<1>9. p = i * BlockSize - BlockSize + j
  BY <1>1, <1>2
<1> QED
  BY <1>3, <1>6, <1>8, <1>9 DEF y, n

\* A prefix of a prefix.
LEMMA PrefixOfPrefix ==
  ASSUME NEW S, NEW t \in Seq(S), NEW l \in Nat, NEW p \in Nat, p <= l, l <= Len(t)
  PROVE  /\ SubSeq(SubSeq(t, 1, l), 1, p) = SubSeq(t, 1, p) /\ Len(SubSeq(t, 1, l)) = l
         /\ SubSeq(t, 1, l) \in Seq(S)
<1> DEFINE u == SubSeq(t, 1, l)
<1>1. u \in Seq(S) /\ Len(u) = l /\ \A i \in 1 .. l : u[i] = t[i]
  OBVIOUS
<1> HIDE DEF u
<1>2. SubSeq(u, 1, p) = SubSeq(t, 1, p)
  BY <1>1
<1> QED
  BY <1>1, <1>2 DEF u

-----------------------------------------------------------------------------
(* A cache whose requests have the tokens seq, done of them computed. *)

Store(c, Tok, seq, done) ==
  /\ InOrder(c, Tok) /\ Neat(c)
  /\ seq \in [Requests -> Seq(Tok)] /\ done \in [Requests -> Nat]
  /\ \A r \in Requests :
       /\ ChainOf(c.hashes[r], seq[r])
       /\ c.num_cached[r] * BlockSize <= done[r] /\ done[r] <= Len(c.blocks[r]) * BlockSize
       /\ done[r] <= Len(seq[r])

\* The rows of the first n tokens of t are in the blocks own.
Holding(rows, own, t, n) == \A p \in 1 .. n : rows[RowOf(own, p)] = SubSeq(t, 1, p)

\* The rows of block b are those of the last block of h.
Carries(rows, b, h) == \A j \in 1 .. BlockSize : rows[<<b, j - 1>>] = SubSeq(h, 1, Len(h) - BlockSize + j)

\* The rows computed are there, and those the index promises too.
RowsHold(c, seq, done, rows) ==
  /\ \A r \in Requests : Holding(rows, c.blocks[r], seq[r], done[r])
  /\ \A e \in c.index : Carries(rows, e[2], e[1])

\* What the step from c to d has to keep.
Keeps(c, d, Tok, seq, done, new) ==
  Store(d, Tok, seq, new) /\ \A rows : RowsHold(c, seq, done, rows) => RowsHold(d, seq, new, rows)

\* A block that is full of computed rows carries the hash of its place.
LEMMA FullBlockCarries ==
  ASSUME NEW Tok, NEW t \in Seq(Tok), NEW n \in Nat, n <= Len(t), NEW rows, NEW own, Holding(rows, own, t, n),
         NEW i \in Nat \ {0}, i * BlockSize <= n
  PROVE  Carries(rows, own[i], SubSeq(t, 1, i * BlockSize))
<1> DEFINE l == i * BlockSize
           h == SubSeq(t, 1, l)
<1>1. l \in Nat /\ BlockSize \in Nat
  BY Times, CacheAssumption
<1> SUFFICES ASSUME NEW j \in 1 .. BlockSize PROVE rows[<<own[i], j - 1>>] = SubSeq(h, 1, Len(h) - BlockSize + j)
  BY DEF Carries
<1> DEFINE p == (i - 1) * BlockSize + j
<1>2. p \in Nat \ {0} /\ NumBlocksFor(p) = i /\ (p - 1) % BlockSize = j - 1 /\ p <= l /\ p = l - BlockSize + j
  BY PlaceRow
<1> HIDE DEF p, l
<1>3. l <= n
  BY DEF l
<1>4. p \in 1 .. n /\ l <= Len(t)
  BY <1>1, <1>2, <1>3
<1>5. rows[RowOf(own, p)] = SubSeq(t, 1, p)
  BY <1>4 DEF Holding
<1>6. RowOf(own, p) = <<own[i], j - 1>>
  BY <1>2 DEF RowOf
<1>7. SubSeq(h, 1, p) = SubSeq(t, 1, p) /\ Len(h) = l
  BY <1>1, <1>2, <1>4, PrefixOfPrefix
<1> QED
  BY <1>2, <1>5, <1>6, <1>7

\* The other way round: blocks that carry the hashes of the first k places
\* hold the rows of k * BlockSize tokens.
LEMMA CarriedBlocksHold ==
  ASSUME NEW Tok, NEW t \in Seq(Tok), NEW k \in Nat, k * BlockSize <= Len(t), NEW rows, NEW own,
         \A i \in 1 .. k : Carries(rows, own[i], SubSeq(t, 1, i * BlockSize))
  PROVE  Holding(rows, own, t, k * BlockSize)
<1>1. k * BlockSize \in Nat /\ BlockSize \in Nat
  BY Times, CacheAssumption
<1> SUFFICES ASSUME NEW p \in 1 .. k * BlockSize PROVE rows[RowOf(own, p)] = SubSeq(t, 1, p)
  BY DEF Holding
<1> DEFINE i == NumBlocksFor(p)
           j == ((p - 1) % BlockSize) + 1
           l == i * BlockSize
           h == SubSeq(t, 1, l)
<1>2. p \in Nat \ {0} /\ p <= k * BlockSize
  BY <1>1
<1>3. i \in Nat \ {0} /\ (p - 1) % BlockSize \in 0 .. BlockSize - 1 /\ i <= k
      /\ p = (i - 1) * BlockSize + ((p - 1) % BlockSize) + 1
  BY <1>2, RowPlace
<1>4. j \in 1 .. BlockSize /\ j - 1 = (p - 1) % BlockSize /\ i \in 1 .. k
  <2> DEFINE x == (p - 1) % BlockSize
  <2>1. x \in 0 .. BlockSize - 1
    BY <1>3
  <2> HIDE DEF x, i
  <2> QED
    BY <1>1, <1>3, <2>1 DEF x
<1>5. p = (i - 1) * BlockSize + j
  <2> DEFINE x == (p - 1) % BlockSize
             y == (i - 1) * BlockSize
  <2>1. y \in Nat
    <3>1. i - 1 \in Nat
      BY <1>3
    <3> QED
      BY <3>1, Times
  <2>2. x \in 0 .. BlockSize - 1 /\ p = y + x + 1
    BY <1>3
  <2> HIDE DEF x, y
  <2>3. p = y + (x + 1)
    BY <1>1, <2>1, <2>2
  <2> QED
    BY <2>3 DEF x, y
<1> HIDE DEF i, j
<1>6. p = l - BlockSize + j /\ p <= l /\ l \in Nat
  BY <1>3, <1>4, <1>5, PlaceRow, Times
<1>7. l <= k * BlockSize
  BY <1>3, Times
<1> HIDE DEF l
<1>8. l <= Len(t)
  BY <1>1, <1>6, <1>7
<1>9. SubSeq(h, 1, p) = SubSeq(t, 1, p) /\ Len(h) = l
  BY <1>2, <1>6, <1>8, PrefixOfPrefix
<1>10. rows[<<own[i], j - 1>>] = SubSeq(h, 1, Len(h) - BlockSize + j)
  BY <1>4 DEF Carries, l
<1> QED
  BY <1>4, <1>6, <1>9, <1>10 DEF RowOf, i

\* Neither the blocks of a request nor the index change.
LEMMA SameFilled ==
  ASSUME NEW c, NEW d, d.blocks = c.blocks, d.index = c.index, NEW seq, NEW done, NEW rows, RowsHold(c, seq, done, rows)
  PROVE  RowsHold(d, seq, done, rows)
  BY DEF RowsHold

\* Following the tokens of r.
LEMMA TrackKeeps ==
  ASSUME NEW Tok, NEW c, NEW seq, NEW done, Store(c, Tok, seq, done), NEW r \in Requests
  PROVE  Keeps(c, Track(c, r, seq[r]), Tok, seq, done, done) /\ Track(c, r, seq[r]).mapped = c.mapped
         /\ SamePool(c, Track(c, r, seq[r])) /\ Len(Track(c, r, seq[r]).hashes[r]) = Len(seq[r]) \div BlockSize
<1> DEFINE t == seq[r]
           d == Track(c, r, t)
<1>1. InOrder(c, Tok) /\ Neat(c) /\ seq \in [Requests -> Seq(Tok)] /\ ChainOf(c.hashes[r], t) /\ t \in Seq(Tok)
  BY DEF Store
<1>2. InOrder(d, Tok) /\ Neat(d) /\ HasChain(c, d, r, Canon(t)) /\ d.mapped = c.mapped
  BY <1>1, TrackTidy
<1>3. ChainOf(Canon(t), t) /\ Len(Canon(t)) = Len(t) \div BlockSize
  BY <1>1, CanonIsChain
<1> HIDE DEF d, t
<1>4. /\ d.blocks = c.blocks /\ d.index = c.index /\ d.num_cached = c.num_cached /\ d.hashes[r] = Canon(t)
      /\ \A q \in Requests : q # r => d.hashes[q] = c.hashes[q]
  BY <1>2 DEF HasChain, SamePool, Only
<1>5. Store(d, Tok, seq, done)
  BY <1>2, <1>3, <1>4 DEF Store, t
<1>6. \A rows : RowsHold(c, seq, done, rows) => RowsHold(d, seq, done, rows)
  BY <1>4, SameFilled
<1> QED
  BY <1>2, <1>3, <1>4, <1>5, <1>6 DEF Keeps, d, t, HasChain

\* Indexing the blocks that the computed tokens of r fill.
LEMMA CommitKeeps ==
  ASSUME NEW Tok, NEW c, NEW seq, NEW done, Store(c, Tok, seq, done), NEW r \in Requests, NEW n \in Int,
         n <= done[r]
  PROVE  Keeps(c, Commit(c, r, n), Tok, seq, done, done) /\ SamePool(c, Commit(c, r, n))
         /\ Commit(c, r, n).mapped = c.mapped
<1> DEFINE t == seq[r]
           d == Commit(c, r, n)
<1>1. /\ InOrder(c, Tok) /\ Neat(c) /\ t \in Seq(Tok) /\ ChainOf(c.hashes[r], t)
      /\ done[r] \in Nat /\ done[r] <= Len(t) /\ done \in [Requests -> Nat]
  BY DEF Store
<1>2. InOrder(d, Tok) /\ Neat(d)
  BY <1>1, CommitStaysTidy
<1>3. SameCache(c, d) \/ \E full \in Nat : HasCommitted(c, d, r, full, n)
  BY <1>1, CommitEffect
<1> HIDE DEF d
<1>4. CASE SameCache(c, d)
  <2>1. /\ d.blocks = c.blocks /\ d.index = c.index /\ d.num_cached = c.num_cached /\ d.hashes = c.hashes
        /\ SamePool(c, d) /\ d.mapped = c.mapped
    BY <1>4 DEF SameCache, SamePool, SameHashes
  <2>2. Store(d, Tok, seq, done)
    BY <1>2, <2>1 DEF Store
  <2> QED
    BY <2>1, <2>2, SameFilled DEF Keeps, d
<1>5. CASE \E full \in Nat : HasCommitted(c, d, r, full, n)
  <2>1. PICK full \in Nat : HasCommitted(c, d, r, full, n)
    BY <1>5
  <2> DEFINE K == Due(c, r, full)
  <2>2. /\ HasIndexed(c, d, r, K) /\ Only(c.num_cached, d.num_cached, r, full)
        /\ full <= n \div BlockSize /\ full > c.num_cached[r]
    BY <2>1 DEF HasCommitted, FullBlocks
  <2>3. \A i \in K : i \in Nat \ {0} /\ i <= full
    <3>1. c.num_cached[r] \in Nat
      BY <1>1, CacheTypes
    <3> QED
      BY <3>1 DEF Due
  <2> HIDE DEF K
  <2>4. /\ SamePool(c, d) /\ d.mapped = c.mapped /\ d.hashes = c.hashes /\ d.blocks = c.blocks
        /\ d.index = c.index \cup {<<c.hashes[r][i], c.blocks[r][i]>> : i \in K}
        /\ \A i \in K : i \in 1 .. Len(c.hashes[r])
        /\ d.num_cached[r] = full /\ \A q \in Requests : q # r => d.num_cached[q] = c.num_cached[q]
    BY <2>2 DEF HasIndexed, SamePool, Only
  <2>5. \A i \in Nat : i <= full => i * BlockSize \in Nat /\ i * BlockSize <= done[r]
    <3>1. n \in Nat
      <4>1. n \div BlockSize \in Int /\ n \div BlockSize >= 0
        BY <2>2, WholeBlocks, CacheTypes, <1>1
      <4> QED
        BY <4>1, CacheAssumption, SMT
    <3> SUFFICES ASSUME NEW i \in Nat, i <= full PROVE i * BlockSize \in Nat /\ i * BlockSize <= done[r]
      OBVIOUS
    <3>2. i <= n \div BlockSize
      <4>1. n \div BlockSize \in Nat
        BY <3>1, WholeBlocks
      <4> DEFINE w == n \div BlockSize
      <4> HIDE DEF w
      <4>2. i <= w
        BY <2>2, <4>1 DEF w
      <4> QED
        BY <4>2 DEF w
    <3>3. i * BlockSize \in Nat /\ i * BlockSize <= n
      BY <3>1, <3>2, BlockEnds
    <3> DEFINE x == i * BlockSize
    <3> HIDE DEF x
    <3>4. x \in Nat /\ x <= done[r]
      BY <1>1, <3>3 DEF x
    <3> QED
      BY <3>4 DEF x
  <2>6. Store(d, Tok, seq, done)
    <3>1. full * BlockSize <= done[r]
      BY <2>5
    <3> QED
      BY <1>2, <2>4, <3>1 DEF Store
  <2>7. ASSUME NEW rows, RowsHold(c, seq, done, rows) PROVE RowsHold(d, seq, done, rows)
    <3>1. Holding(rows, c.blocks[r], t, done[r])
      BY <2>7 DEF RowsHold
    <3>2. ASSUME NEW i \in K PROVE Carries(rows, c.blocks[r][i], c.hashes[r][i])
      <4>1. i \in Nat \ {0} /\ i * BlockSize <= done[r]
        BY <2>3, <2>5, <3>2
      <4>2. Carries(rows, c.blocks[r][i], SubSeq(t, 1, i * BlockSize))
        BY <1>1, <3>1, <4>1, FullBlockCarries
      <4>3. c.hashes[r][i] = SubSeq(t, 1, i * BlockSize)
        BY <1>1, <2>4, <3>2 DEF ChainOf
      <4> QED
        BY <4>2, <4>3
    <3>3. ASSUME NEW e \in d.index PROVE Carries(rows, e[2], e[1])
      <4>1. CASE e \in c.index
        BY <2>7, <4>1 DEF RowsHold
      <4>2. CASE e \notin c.index
        <5>1. PICK i \in K : e = <<c.hashes[r][i], c.blocks[r][i]>>
          BY <2>4, <3>3, <4>2
        <5> QED
          BY <3>2, <5>1
      <4> QED
        BY <4>1, <4>2
    <3> QED
      BY <2>4, <2>7, <3>3 DEF RowsHold
  <2> QED
    BY <2>4, <2>6, <2>7 DEF Keeps, d
<1> QED
  BY <1>3, <1>4, <1>5

\* Giving back the blocks of r.
LEMMA FreeKeeps ==
  ASSUME NEW Tok, NEW c, NEW seq, NEW done, Store(c, Tok, seq, done), NEW r \in Requests
  PROVE  /\ Keeps(c, Free(c, r), Tok, seq, done, [done EXCEPT ![r] = 0])
         /\ Only(c.blocks, Free(c, r).blocks, r, <<>>) /\ Only(c.mapped, Free(c, r).mapped, r, 0)
         /\ Only(c.hashes, Free(c, r).hashes, r, <<>>)
<1> DEFINE d   == Free(c, r)
           e   == CoordinatorFree(c, r)
           new == [done EXCEPT ![r] = 0]
<1>1. InOrder(c, Tok) /\ Neat(c) /\ seq \in [Requests -> Seq(Tok)] /\ done \in [Requests -> Nat]
  BY DEF Store
<1>2. InOrder(d, Tok) /\ Neat(d) /\ HasFreed(c, d, r)
  BY <1>1, FreeTidy
<1>3. HasGivenBack(c, e, r) /\ HasChain(e, d, r, <<>>)
  BY <1>1, GiveBackEffect, FreeEffect
<1> HIDE DEF d, e
<1>4. Only(c.num_cached, d.num_cached, r, 0)
  BY <1>3 DEF HasGivenBack, HasChain, Only
<1>5. Only(c.blocks, d.blocks, r, <<>>) /\ Only(c.mapped, d.mapped, r, 0) /\ Only(c.hashes, d.hashes, r, <<>>)
      /\ d.index = c.index
  BY <1>2 DEF HasFreed
<1>6. new \in [Requests -> Nat] /\ new[r] = 0 /\ \A q \in Requests : q # r => new[q] = done[q]
  BY <1>1
<1> HIDE DEF new
<1>7. Store(d, Tok, seq, new)
  <2>1. ASSUME NEW q \in Requests
        PROVE  /\ ChainOf(d.hashes[q], seq[q])
               /\ d.num_cached[q] * BlockSize <= new[q] /\ new[q] <= Len(d.blocks[q]) * BlockSize
               /\ new[q] <= Len(seq[q])
    <3>1. CASE q = r
      <4>1. d.hashes[q] = <<>> /\ d.num_cached[q] = 0 /\ d.blocks[q] = <<>> /\ new[q] = 0
        BY <1>4, <1>5, <1>6, <3>1 DEF Only
      <4>2. Len(seq[q]) \in Nat /\ Len(seq[q]) \div BlockSize \in Nat /\ Len(<<>>) = 0
        BY <1>1, WholeBlocks
      <4>3. ChainOf(<<>>, seq[q])
        <5>1. Len(<<>>) <= Len(seq[q]) \div BlockSize
          BY <4>2
        <5>2. \A j \in 1 .. Len(<<>>) : FALSE
          BY <4>2
        <5> QED
          BY <5>1, <5>2 DEF ChainOf
      <4>4. 0 * BlockSize = 0
        BY CacheAssumption
      <4> QED
        BY <4>1, <4>2, <4>3, <4>4
    <3>2. CASE q # r
      BY <1>4, <1>5, <1>6, <3>2 DEF Store, Only
    <3> QED
      BY <3>1, <3>2
  <2> QED
    BY <1>1, <1>2, <1>6, <2>1 DEF Store
<1>8. ASSUME NEW rows, RowsHold(c, seq, done, rows) PROVE RowsHold(d, seq, new, rows)
  <2>1. ASSUME NEW q \in Requests PROVE Holding(rows, d.blocks[q], seq[q], new[q])
    <3>1. CASE q = r
      <4>1. 1 .. new[q] = {}
        BY <1>6, <3>1
      <4> QED
        BY <4>1 DEF Holding
    <3>2. CASE q # r
      BY <1>5, <1>6, <1>8, <3>2 DEF Only, RowsHold
    <3> QED
      BY <3>1, <3>2
  <2> QED
    BY <1>5, <1>8, <2>1 DEF RowsHold
<1> QED
  BY <1>5, <1>7, <1>8 DEF Keeps, d, new

\* The hit of a match: the rows r need not compute.
Hit(n, m) == IF m = <<>> THEN n ELSE Len(m) * BlockSize

\* What taking the blocks of k tokens makes of c: a request takes what the
\* match m has of its tokens, and nobody else's blocks change.
Takes(c, d, Tok, seq, done, r, k, m) ==
  /\ Keeps(c, d, Tok, seq, done, [done EXCEPT ![r] = Hit(done[r], m)])
  /\ \A q \in Requests : q # r => d.blocks[q] = c.blocks[q]
  /\ d.mapped = c.mapped
  /\ Len(d.blocks[r]) = Larger(Len(Base(c, r, m)), NumBlocksFor(k))
  /\ Len(Base(c, r, m)) \in Nat /\ NumBlocksFor(k) \in Int
  /\ \A i \in 1 .. Len(Base(c, r, m)) : d.blocks[r][i] = Base(c, r, m)[i]

\* A request takes what a match has of its tokens, and the blocks of k of them.
LEMMA AllocateKeeps ==
  ASSUME NEW Tok, NEW c, NEW seq, NEW done, Store(c, Tok, seq, done), NEW r \in Requests, NEW k \in Int, NEW m,
         m = <<>> \/ IsMatch(c, r, m), MayAdopt(c, r, m), Fits(c, r, k, m)
  PROVE  Takes(c, Allocate(c, r, k, m), Tok, seq, done, r, k, m)
<1> DEFINE d    == Allocate(c, r, k, m)
           new  == [done EXCEPT ![r] = Hit(done[r], m)]
           a    == Adopt(c, r, m)
           n    == Needed(c, r, k, m)
           own  == Base(c, r, m)
           t    == seq[r]
<1>1. /\ InOrder(c, Tok) /\ Neat(c) /\ seq \in [Requests -> Seq(Tok)] /\ done \in [Requests -> Nat]
      /\ t \in Seq(Tok) /\ ChainOf(c.hashes[r], t)
  BY DEF Store
<1>2. InOrder(d, Tok) /\ Neat(d) /\ n \in Nat /\ \E fresh : HasAllocated(c, d, r, m, n, fresh)
  BY <1>1, AllocateTidy
<1>3. PICK fresh : HasAllocated(c, d, r, m, n, fresh)
  BY <1>2
<1>4. Only(c.num_cached, d.num_cached, r, IF m = <<>> THEN c.num_cached[r] ELSE Len(m))
  <2>1. d = Draw(a, r, n)
    BY Zenon DEF Allocate, Draw
  <2>2. InOrder(a, Tok) /\ Only(c.num_cached, a.num_cached, r, IF m = <<>> THEN c.num_cached[r] ELSE Len(m))
    <3>1. CASE m = <<>>
      <4>1. a = c
        BY <3>1 DEF Adopt
      <4> QED
        BY <1>1, <3>1, <4>1 DEF Only
    <3>2. CASE m # <<>>
      <4>1. HasAdopted(c, a, r, m) /\ InOrder(a, Tok)
        BY <1>1, <3>2, AdoptEffect, AdoptInOrder
      <4> QED
        BY <3>2, <4>1 DEF HasAdopted
    <3> QED
      BY <3>1, <3>2
  <2>3. n <= Len(a.free)
    BY DEF Fits
  <2> HIDE DEF d, a, n
  <2>4. HasDrawn(a, d, r, n)
    BY <1>2, <2>1, <2>2, <2>3, DrawEffect
  <2>5. d.num_cached = a.num_cached
    BY <2>4 DEF HasDrawn
  <2> QED
    BY <2>2, <2>5 DEF Only
<1>5. /\ Only(c.blocks, d.blocks, r, own \o fresh) /\ d.hashes = c.hashes /\ d.mapped = c.mapped
      /\ d.index = {e \in c.index : e[2] \notin Elements(fresh)}
      /\ fresh \in [1 .. n -> Elements(c.free) \ Elements(m)] /\ Len(fresh) = n
  BY <1>3 DEF HasAllocated, FreshOf
<1>6. n = Larger(NumBlocksFor(k) - Len(own), 0)
  BY DEF Needed, Base
<1>7. own \in Seq(Blocks) /\ fresh \in Seq(Blocks)
  <2>1. c.blocks[r] \in Seq(Blocks) /\ c.free \in Seq(Blocks)
    <3>1. c.blocks \in [Requests -> Seq(Blocks)] /\ c.free \in Seq(Blocks)
      BY <1>1, CacheTypes
    <3> QED
      BY <3>1
  <2>2. Elements(c.free) \subseteq Blocks
    BY <2>1 DEF Elements
  <2>3. fresh \in [1 .. n -> Blocks]
    BY <1>5, <2>2
  <2> HIDE DEF n
  <2> QED
    BY <1>2, <2>1, <2>3 DEF Base, IsMatch
<1> HIDE DEF d, n, own
<1>8. NumBlocksFor(k) \in Int /\ Len(own) \in Nat
  <2>1. k + BlockSize - 1 \in Int
    BY CacheAssumption
  <2> DEFINE x == k + BlockSize - 1
  <2> HIDE DEF x
  <2>2. x \div BlockSize \in Int
    BY <2>1, WholeBlocks DEF x
  <2> QED
    BY <1>7, <2>2 DEF NumBlocksFor, x
<1>9. /\ d.blocks[r] = own \o fresh /\ Len(d.blocks[r]) = Len(own) + n
      /\ \A i \in 1 .. Len(own) : d.blocks[r][i] = own[i]
  <2>1. d.blocks[r] = own \o fresh
    BY <1>5 DEF Only
  <2>2. Len(own \o fresh) = Len(own) + n /\ \A i \in 1 .. Len(own) : (own \o fresh)[i] = own[i]
    BY <1>5, <1>7
  <2> QED
    BY <2>1, <2>2
<1>10. Len(d.blocks[r]) = Larger(Len(own), NumBlocksFor(k))
  <2> DEFINE x == Len(own)
             y == NumBlocksFor(k)
             z == Len(d.blocks[r])
  <2>1. x \in Nat /\ y \in Int /\ n = Larger(y - x, 0) /\ z = x + n
    BY <1>6, <1>8, <1>9
  <2> HIDE DEF x, y, z
  <2>2. z = Larger(x, y)
    BY <2>1 DEF Larger
  <2> QED
    BY <2>2 DEF x, y, z
<1>11. m # <<>> => /\ Len(m) \in Nat /\ Len(m) * BlockSize \in Nat /\ Len(m) * BlockSize <= Len(t)
                   /\ \A i \in 1 .. Len(m) : <<SubSeq(t, 1, i * BlockSize), m[i]>> \in c.index
  <2> SUFFICES ASSUME m # <<>>
               PROVE  /\ Len(m) \in Nat /\ Len(m) * BlockSize \in Nat /\ Len(m) * BlockSize <= Len(t)
                      /\ \A i \in 1 .. Len(m) : <<SubSeq(t, 1, i * BlockSize), m[i]>> \in c.index
    OBVIOUS
  <2> DEFINE h == c.hashes[r]
  <2>1. /\ m \in Seq(Blocks) /\ Len(m) <= Len(h) /\ \A i \in 1 .. Len(m) : <<h[i], m[i]>> \in c.index
    BY DEF IsMatch
  <2>2. Len(h) <= Len(t) \div BlockSize /\ \A j \in 1 .. Len(h) : h[j] = SubSeq(t, 1, j * BlockSize)
    BY <1>1 DEF ChainOf
  <2>3. Len(h) \in Nat /\ Len(m) \in Nat /\ Len(t) \in Nat /\ Len(t) \div BlockSize \in Nat
    <3>1. c.hashes \in [Requests -> Seq(Seq(Tok))]
      BY <1>1, CacheTypes
    <3>2. h \in Seq(Seq(Tok))
      BY <3>1
    <3>3. Len(h) \in Nat /\ Len(m) \in Nat /\ Len(t) \in Nat
      BY <1>1, <2>1, <3>2
    <3>4. \A x \in Nat : x \div BlockSize \in Nat
      BY WholeBlocks
    <3> HIDE DEF t
    <3>5. Len(t) \div BlockSize \in Nat
      BY <3>3, <3>4, Zenon
    <3> QED
      BY <3>3, <3>5, Zenon
  <2>4. Len(m) <= Len(t) \div BlockSize
    <3> DEFINE x == Len(t) \div BlockSize
               y == Len(h)
               z == Len(m)
    <3>1. x \in Nat /\ y \in Nat /\ z \in Nat /\ z <= y /\ y <= x
      BY <2>1, <2>2, <2>3
    <3> HIDE DEF x, y, z
    <3>2. z <= x
      BY <3>1
    <3> QED
      BY <3>2 DEF x, z
  <2>5. Len(m) * BlockSize \in Nat /\ Len(m) * BlockSize <= Len(t)
    BY <2>3, <2>4, BlockEnds
  <2>6. \A i \in 1 .. Len(m) : i \in 1 .. Len(h)
    BY <2>1, <2>3
  <2> QED
    BY <2>1, <2>2, <2>3, <2>5, <2>6
<1>12. m # <<>> => own = m
  BY DEF own, Base
<1>13. /\ new \in [Requests -> Nat] /\ new[r] = Hit(done[r], m)
       /\ \A q \in Requests : q # r => new[q] = done[q]
  BY <1>1, <1>11 DEF Hit
<1> HIDE DEF new
<1>14. new[r] \in Nat /\ new[r] <= Len(own) * BlockSize /\ new[r] <= Len(t)
  <2>1. CASE m = <<>>
    BY <1>1, <1>13, <2>1 DEF Hit, own, Base, Store
  <2>2. CASE m # <<>>
    <3>1. new[r] = Len(m) * BlockSize
      BY <1>13, <2>2 DEF Hit
    <3> DEFINE x == Len(m) * BlockSize
    <3> HIDE DEF x
    <3>2. x \in Nat /\ x <= x /\ x <= Len(t)
      BY <1>11, <2>2 DEF x
    <3> QED
      BY <1>12, <2>2, <3>1, <3>2 DEF x
  <2> QED
    BY <2>1, <2>2
<1>15. new[r] <= Len(d.blocks[r]) * BlockSize
  <2>1. Len(own) \in Nat /\ Len(d.blocks[r]) \in Nat /\ Len(own) <= Len(d.blocks[r])
    BY <1>2, <1>8, <1>9
  <2>2. Len(own) * BlockSize \in Nat /\ Len(d.blocks[r]) * BlockSize \in Nat
        /\ Len(own) * BlockSize <= Len(d.blocks[r]) * BlockSize
    BY <2>1, Times
  <2> DEFINE x == Len(own) * BlockSize
             y == Len(d.blocks[r]) * BlockSize
  <2>3. x \in Nat /\ y \in Nat /\ x <= y /\ new[r] <= x /\ new[r] \in Nat
    BY <1>14, <2>2
  <2> HIDE DEF x, y
  <2>4. new[r] <= y
    BY <2>3
  <2> QED
    BY <2>4 DEF y
<1>16. d.num_cached[r] * BlockSize <= new[r]
  <2>1. CASE m = <<>>
    BY <1>4, <1>13, <2>1 DEF Hit, Only, Store
  <2>2. CASE m # <<>>
    <3>1. d.num_cached[r] = Len(m) /\ new[r] = Len(m) * BlockSize /\ new[r] \in Nat
      BY <1>4, <1>13, <1>14, <2>2 DEF Hit, Only
    <3> DEFINE x == Len(m) * BlockSize
    <3> HIDE DEF x
    <3>2. new[r] = x /\ x <= new[r]
      BY <3>1 DEF x
    <3> QED
      BY <3>1, <3>2 DEF x
  <2> QED
    BY <2>1, <2>2
<1>17. Store(d, Tok, seq, new)
  <2>1. ASSUME NEW q \in Requests
        PROVE  /\ ChainOf(d.hashes[q], seq[q])
               /\ d.num_cached[q] * BlockSize <= new[q] /\ new[q] <= Len(d.blocks[q]) * BlockSize
               /\ new[q] <= Len(seq[q])
    <3>1. CASE q = r
      BY <1>1, <1>5, <1>14, <1>15, <1>16, <3>1
    <3>2. CASE q # r
      BY <1>4, <1>5, <1>13, <3>2 DEF Store, Only
    <3> QED
      BY <3>1, <3>2
  <2> QED
    BY <1>1, <1>2, <1>13, <2>1 DEF Store
<1>18. ASSUME NEW rows, RowsHold(c, seq, done, rows) PROVE RowsHold(d, seq, new, rows)
  <2>1. Holding(rows, own, t, new[r])
    <3>1. CASE m = <<>>
      <4>1. own = c.blocks[r] /\ new[r] = done[r]
        BY <1>13, <3>1 DEF own, Base, Hit
      <4> QED
        BY <1>18, <4>1 DEF RowsHold
    <3>2. CASE m # <<>>
      <4>1. ASSUME NEW i \in 1 .. Len(m) PROVE Carries(rows, m[i], SubSeq(t, 1, i * BlockSize))
        <5> DEFINE e == <<SubSeq(t, 1, i * BlockSize), m[i]>>
        <5>1. e \in c.index
          BY <1>11, <3>2, <4>1
        <5>2. e[1] = SubSeq(t, 1, i * BlockSize) /\ e[2] = m[i]
          OBVIOUS
        <5> HIDE DEF e
        <5> QED
          BY <1>18, <5>1, <5>2 DEF RowsHold
      <4>2. Holding(rows, m, t, Len(m) * BlockSize)
        BY <1>1, <1>11, <3>2, <4>1, CarriedBlocksHold
      <4> QED
        BY <1>12, <1>13, <3>2, <4>2 DEF Hit
    <3> QED
      BY <3>1, <3>2
  <2>2. Holding(rows, d.blocks[r], t, new[r])
    <3> SUFFICES ASSUME NEW p \in 1 .. new[r] PROVE rows[RowOf(d.blocks[r], p)] = SubSeq(t, 1, p)
      BY DEF Holding
    <3>1. p \in Nat \ {0} /\ p <= Len(own) * BlockSize
      <4>1. Len(own) * BlockSize \in Nat
        BY <1>8, Times
      <4> DEFINE x == Len(own) * BlockSize
      <4>2. x \in Nat /\ new[r] <= x
        BY <1>14, <4>1
      <4> HIDE DEF x
      <4>3. p \in Nat \ {0} /\ p <= x
        BY <1>14, <4>2
      <4> QED
        BY <4>3 DEF x
    <3>2. NumBlocksFor(p) \in 1 .. Len(own)
      <4>1. NumBlocksFor(p) \in Nat \ {0} /\ NumBlocksFor(p) <= Len(own)
        BY <1>8, <3>1, RowPlace
      <4> QED
        BY <1>8, <4>1
    <3>3. RowOf(d.blocks[r], p) = RowOf(own, p)
      BY <1>9, <3>2 DEF RowOf
    <3>4. rows[RowOf(own, p)] = SubSeq(t, 1, p)
      BY <2>1, Zenon DEF Holding
    <3> QED
      BY <3>3, <3>4, Zenon
  <2>3. ASSUME NEW q \in Requests PROVE Holding(rows, d.blocks[q], seq[q], new[q])
    <3>1. CASE q = r
      BY <2>2, <3>1
    <3>2. CASE q # r
      BY <1>5, <1>13, <1>18, <3>2 DEF Only, RowsHold
    <3> QED
      BY <3>1, <3>2
  <2>4. \A e \in d.index : Carries(rows, e[2], e[1])
    BY <1>5, <1>18 DEF RowsHold
  <2> QED
    BY <2>3, <2>4 DEF RowsHold
<1>19. \A q \in Requests : q # r => d.blocks[q] = c.blocks[q]
  BY <1>5 DEF Only
<1>20. Keeps(c, d, Tok, seq, done, new)
  BY <1>17, <1>18 DEF Keeps
<1> QED
  BY <1>5, <1>8, <1>9, <1>10, <1>19, <1>20 DEF d, own, new, Takes

\* A refusal leaves the rows where they were.
LEMMA RefuseKeeps ==
  ASSUME NEW Tok, NEW c, NEW seq, NEW done, Store(c, Tok, seq, done), NEW r \in Requests, c.blocks[r] = <<>>,
         NEW m, IsMatch(c, r, m)
  PROVE  LET d == RefuseAllocation(c, r, m)
         IN  Keeps(c, d, Tok, seq, done, done) /\ d.blocks = c.blocks /\ d.mapped = c.mapped
<1> DEFINE d == RefuseAllocation(c, r, m)
<1>1. InOrder(c, Tok) /\ Neat(c)
  BY DEF Store
<1>2. InOrder(d, Tok) /\ Neat(d) /\ SameLedger(c, d)
  BY <1>1, RefuseTidy
<1>3. \A q \in Requests : q # r => d.num_cached[q] = c.num_cached[q]
  <2>1. CASE m = <<>>
    BY <2>1 DEF RefuseAllocation
  <2>2. CASE m # <<>>
    <3> DEFINE a == Adopt(c, r, m)
               e == CoordinatorFree(a, r)
    <3>1. HasAdopted(c, a, r, m) /\ InOrder(a, Tok)
      BY <1>1, <2>2, AdoptEffect, AdoptInOrder DEF MayAdopt
    <3> HIDE DEF a
    <3>2. HasGivenBack(a, e, r)
      BY <3>1, GiveBackEffect
    <3>3. d = e
      BY <2>2 DEF RefuseAllocation, a
    <3> HIDE DEF d, e
    <3> QED
      BY <3>1, <3>2, <3>3 DEF HasAdopted, HasGivenBack, Only
  <2> QED
    BY <2>1, <2>2
<1> HIDE DEF d
<1>4. d.blocks = c.blocks /\ d.index = c.index /\ d.hashes = c.hashes /\ d.mapped = c.mapped
  BY <1>2 DEF SameLedger
<1>5. d.num_cached[r] = 0
  <2>1. CachedInFront(d.blocks[r], d.num_cached[r], d.hashes[r], d.block_hash)
    BY <1>2 DEF Neat, Tidy
  <2>2. d.num_cached[r] <= Len(<<>>) /\ d.num_cached[r] \in Nat /\ Len(<<>>) = 0
    <3>1. d.num_cached \in [Requests -> Nat]
      BY <1>2, CacheTypes
    <3> QED
      BY <1>4, <2>1, <3>1 DEF CachedInFront
  <2> QED
    BY <2>2
<1>6. Store(d, Tok, seq, done)
  <2>1. done[r] \in Nat /\ 0 * BlockSize = 0
    BY CacheAssumption DEF Store
  <2>2. ASSUME NEW q \in Requests PROVE d.num_cached[q] * BlockSize <= done[q]
    <3>1. CASE q = r
      BY <1>5, <2>1, <3>1
    <3>2. CASE q # r
      BY <1>3, <3>2 DEF Store
    <3> QED
      BY <3>1, <3>2
  <2> QED
    BY <1>2, <1>4, <2>2 DEF Store
<1> QED
  BY <1>4, <1>6, SameFilled DEF Keeps, d

\* Telling the executor of the blocks of r.
LEMMA TakeTableWritesKeeps ==
  ASSUME NEW Tok, NEW c, NEW seq, NEW done, Store(c, Tok, seq, done), NEW r \in Requests
  PROVE  LET d == TakeTableWrites(c, r)
         IN  /\ Keeps(c, d, Tok, seq, done, done) /\ d.blocks = c.blocks
             /\ Only(c.mapped, d.mapped, r, Len(c.blocks[r]))
<1> DEFINE d == TakeTableWrites(c, r)
           x == [c.mapped EXCEPT ![r] = Len(c.blocks[r])]
<1>1. InOrder(c, Tok) /\ c \in Caches(Tok) /\ c.mapped \in [Requests -> Nat]
  BY DEF Store, InOrder, Caches
<1>2. InOrder(d, Tok)
  BY <1>1, TakeTableWritesInOrder
<1>3. d = [c EXCEPT !.mapped = x]
  BY DEF TakeTableWrites
<1>4. Only(c.mapped, x, r, Len(c.blocks[r]))
  BY <1>1 DEF Only
<1> HIDE DEF d, x
<1>5. /\ d.ref_cnt = c.ref_cnt /\ d.block_hash = c.block_hash /\ d.free = c.free /\ d.index = c.index
      /\ d.blocks = c.blocks /\ d.num_cached = c.num_cached /\ d.hashes = c.hashes /\ d.mapped = x
  BY <1>1, <1>3 DEF Caches
<1>6. Neat(d)
  BY <1>5 DEF Store, Neat, Tidy, Anchored
<1>7. Store(d, Tok, seq, done)
  BY <1>2, <1>5, <1>6 DEF Store
<1> QED
  BY <1>4, <1>5, <1>7, SameFilled DEF Keeps, d

\* Steps follow one another.
LEMMA KeepsKeeps ==
  ASSUME NEW Tok, NEW c, NEW d, NEW e, NEW seq, NEW done, NEW new, NEW last,
         Keeps(c, d, Tok, seq, done, new), Keeps(d, e, Tok, seq, new, last)
  PROVE  Keeps(c, e, Tok, seq, done, last)
  BY DEF Keeps

\* Doing nothing keeps a cache that is in order.
LEMMA KeepsItself ==
  ASSUME NEW Tok, NEW c, NEW seq, NEW done, Store(c, Tok, seq, done)
  PROVE  Keeps(c, c, Tok, seq, done, done)
  BY DEF Keeps

\* The same rows serve the sequences more as well.
Follows(c, Tok, seq, more, done) ==
  Store(c, Tok, more, done) /\ \A rows : RowsHold(c, seq, done, rows) => RowsHold(c, more, done, rows)

\* One more token of r.
LEMMA AppendKeeps ==
  ASSUME NEW Tok, NEW c, NEW seq, NEW done, Store(c, Tok, seq, done), NEW r \in Requests, NEW x \in Tok,
         NEW more, more = [seq EXCEPT ![r] = Append(seq[r], x)]
  PROVE  Follows(c, Tok, seq, more, done)
<1> DEFINE t == seq[r]
           w == Append(t, x)
<1>1. /\ seq \in [Requests -> Seq(Tok)] /\ t \in Seq(Tok) /\ ChainOf(c.hashes[r], t) /\ InOrder(c, Tok)
      /\ done[r] \in Nat /\ done[r] <= Len(t)
  BY DEF Store
<1>2. Len(c.hashes[r]) \in Nat
  <2>1. c.hashes \in [Requests -> Seq(Seq(Tok))]
    BY <1>1, CacheTypes
  <2>2. c.hashes[r] \in Seq(Seq(Tok))
    BY <2>1
  <2> QED
    BY <2>2
<1>3. ChainOf(c.hashes[r], w)
  BY <1>1, <1>2, AppendChain
<1>4. w \in Seq(Tok) /\ Len(w) = Len(t) + 1 /\ \A p \in 1 .. Len(t) : SubSeq(w, 1, p) = SubSeq(t, 1, p)
  <2>1. w \in Seq(Tok) /\ Len(w) = Len(t) + 1 /\ \A p \in 1 .. Len(t) : w[p] = t[p]
    BY <1>1
  <2> HIDE DEF w
  <2>2. \A p \in 1 .. Len(t) : SubSeq(w, 1, p) = SubSeq(t, 1, p)
    <3> HIDE DEF t
    <3> QED
      BY <1>1, <2>1
  <2> QED
    BY <2>1, <2>2
<1> HIDE DEF t, w
<1>5. more \in [Requests -> Seq(Tok)] /\ more[r] = w /\ \A q \in Requests : q # r => more[q] = seq[q]
  BY <1>1, <1>4 DEF w, t
<1>6. done[r] <= Len(w)
  BY <1>1, <1>4
<1>7. Store(c, Tok, more, done)
  <2>1. ASSUME NEW q \in Requests PROVE ChainOf(c.hashes[q], more[q]) /\ done[q] <= Len(more[q])
    <3>1. CASE q = r
      BY <1>3, <1>5, <1>6, <3>1
    <3>2. CASE q # r
      BY <1>5, <3>2 DEF Store
    <3> QED
      BY <3>1, <3>2
  <2> QED
    BY <1>5, <2>1 DEF Store
<1>8. ASSUME NEW rows, RowsHold(c, seq, done, rows) PROVE RowsHold(c, more, done, rows)
  <2>1. ASSUME NEW q \in Requests PROVE Holding(rows, c.blocks[q], more[q], done[q])
    <3>1. Holding(rows, c.blocks[q], seq[q], done[q])
      BY <1>8 DEF RowsHold
    <3>2. CASE q = r
      <4>1. \A p \in 1 .. done[r] : p \in 1 .. Len(t)
        BY <1>1
      <4> QED
        BY <1>4, <1>5, <3>1, <3>2, <4>1 DEF Holding, t
    <3>3. CASE q # r
      BY <1>5, <3>1, <3>3
    <3> QED
      BY <3>2, <3>3
  <2> QED
    BY <1>8, <2>1 DEF RowsHold
<1> QED
  BY <1>7, <1>8 DEF Follows

\* A new request brings its tokens.
LEMMA BringKeeps ==
  ASSUME NEW Tok, NEW c, NEW seq, NEW done, Store(c, Tok, seq, done), NEW r \in Requests, seq[r] = <<>>,
         NEW t \in Seq(Tok), NEW more, more = [seq EXCEPT ![r] = t]
  PROVE  Follows(c, Tok, seq, more, done)
<1>1. /\ seq \in [Requests -> Seq(Tok)] /\ ChainOf(c.hashes[r], seq[r]) /\ InOrder(c, Tok)
      /\ done[r] \in Nat /\ done[r] <= Len(seq[r]) /\ Len(seq[r]) = 0
  BY DEF Store
<1>2. done[r] = 0
  BY <1>1
<1>3. Len(c.hashes[r]) = 0
  <2>1. c.hashes \in [Requests -> Seq(Seq(Tok))]
    BY <1>1, CacheTypes
  <2>2. c.hashes[r] \in Seq(Seq(Tok)) /\ Len(c.hashes[r]) \in Nat
    BY <2>1
  <2>3. 0 \div BlockSize = 0
    BY CacheAssumption, QuotientIs
  <2> QED
    BY <1>1, <2>2, <2>3 DEF ChainOf
<1>4. ChainOf(c.hashes[r], t)
  <2>1. Len(t) \div BlockSize \in Nat
    BY WholeBlocks
  <2>2. \A j \in 1 .. 0 : FALSE
    OBVIOUS
  <2> QED
    BY <1>3, <2>1, <2>2 DEF ChainOf
<1>5. more \in [Requests -> Seq(Tok)] /\ more[r] = t /\ \A q \in Requests : q # r => more[q] = seq[q]
  BY <1>1
<1>6. Store(c, Tok, more, done)
  <2>1. ASSUME NEW q \in Requests PROVE ChainOf(c.hashes[q], more[q]) /\ done[q] <= Len(more[q])
    <3>1. CASE q = r
      BY <1>2, <1>4, <1>5, <3>1
    <3>2. CASE q # r
      BY <1>5, <3>2 DEF Store
    <3> QED
      BY <3>1, <3>2
  <2> QED
    BY <1>5, <2>1 DEF Store
<1>7. ASSUME NEW rows, RowsHold(c, seq, done, rows) PROVE RowsHold(c, more, done, rows)
  <2>1. ASSUME NEW q \in Requests PROVE Holding(rows, c.blocks[q], more[q], done[q])
    <3>1. CASE q = r
      <4>1. 1 .. done[q] = {}
        BY <1>2, <3>1
      <4> QED
        BY <4>1 DEF Holding
    <3>2. CASE q # r
      BY <1>5, <1>7, <3>2 DEF RowsHold
    <3> QED
      BY <3>1, <3>2
  <2> QED
    BY <1>7, <2>1 DEF RowsHold
<1> QED
  BY <1>6, <1>7 DEF Follows

\* A row that is not computed yet is in a block of nobody else, which nobody
\* else can find.
LEMMA PrivatePlace ==
  ASSUME NEW Tok, NEW c, NEW seq, NEW done, Store(c, Tok, seq, done), NEW r \in Requests, NEW p \in Nat,
         p > done[r], NumBlocksFor(p) <= Len(c.blocks[r])
  PROVE  LET b == c.blocks[r][NumBlocksFor(p)]
         IN  c.ref_cnt[b] = 1 /\ c.block_hash[b] = NoHash /\ b \in Blocks
             /\ \A q \in Requests : b \in Elements(c.blocks[q]) => q = r
<1> DEFINE i == NumBlocksFor(p)
           own == c.blocks[r]
           b == own[i]
<1>1. InOrder(c, Tok) /\ Tidy(c) /\ done[r] \in Nat /\ c.num_cached[r] * BlockSize <= done[r]
  BY DEF Store, Neat
<1>2. c.num_cached[r] \in Nat /\ own \in Seq(Blocks)
  <2>1. c.num_cached \in [Requests -> Nat] /\ c.blocks \in [Requests -> Seq(Blocks)]
    BY <1>1, CacheTypes
  <2> QED
    BY <2>1
<1>3. p \in Nat \ {0} /\ ~ (p <= c.num_cached[r] * BlockSize)
  <2> DEFINE x == c.num_cached[r] * BlockSize
  <2>1. x \in Nat /\ x <= done[r]
    BY <1>1, <1>2, Times
  <2> HIDE DEF x
  <2>2. p \in Nat \ {0} /\ ~ (p <= x)
    BY <1>1, <2>1
  <2> QED
    BY <2>2 DEF x
<1>4. i \in Nat \ {0} /\ ~ (i <= c.num_cached[r])
  BY <1>2, <1>3, RowPlace
<1>5. i \in 1 .. Len(own)
  <2>1. i <= Len(own)
    OBVIOUS
  <2> HIDE DEF i
  <2> QED
    BY <1>2, <1>4, <2>1
<1> HIDE DEF i
<1>6. b \in Blocks /\ b \in Elements(own)
  BY <1>2, <1>5 DEF Elements
<1>7. c.block_hash[b] = NoHash
  BY <1>1, <1>4, <1>5, Zenon DEF Tidy, CachedInFront
<1>8. \A q \in Requests : b \in Elements(c.blocks[q]) => q = r
  BY <1>1, <1>6, <1>7, Zenon DEF Tidy, SharedAreCached
<1>9. HoldersOf(c.blocks, b) = {r}
  BY <1>6, <1>8, Zenon DEF HoldersOf
<1>10. c.ref_cnt[b] = 1
  <2>1. c.ref_cnt[b] = Cardinality(HoldersOf(c.blocks, b))
    BY <1>1, <1>6, Zenon DEF InOrder, PoolInOrder
  <2> QED
    BY <1>9, <2>1, FS_Singleton
<1> QED
  BY <1>6, <1>7, <1>8, <1>10 DEF i

-----------------------------------------------------------------------------
(* Counting. *)

\* The i-th place of the s-th of rows that are w places long.
PlaceOf(w, s, i) == (s - 1) * w + i

LEMMA PlacesDiffer ==
  ASSUME NEW w \in Nat, NEW n \in Nat
  PROVE  \A s, t \in 1 .. n : \A i, j \in 1 .. w :
           /\ PlaceOf(w, s, i) \in 1 .. n * w
           /\ PlaceOf(w, s, i) = PlaceOf(w, t, j) => s = t /\ i = j
<1> SUFFICES ASSUME NEW s \in 1 .. n, NEW t \in 1 .. n, NEW i \in 1 .. w, NEW j \in 1 .. w
             PROVE  /\ PlaceOf(w, s, i) \in 1 .. n * w
                    /\ PlaceOf(w, s, i) = PlaceOf(w, t, j) => s = t /\ i = j
  OBVIOUS
<1>1. ASSUME NEW x \in 1 .. n
      PROVE  /\ (x - 1) * w \in Nat /\ x * w \in Nat /\ n * w \in Nat
             /\ x * w = (x - 1) * w + w /\ x * w <= n * w
  <2>1. x * w = (x - 1) * w + w /\ (x - 1) * w \in Nat /\ x * w \in Nat /\ n * w \in Nat
    OBVIOUS
  <2>2. x <= n /\ x \in Nat
    OBVIOUS
  <2>3. x * w <= n * w
    BY <2>2, SMTT(20)
  <2> QED
    BY <2>1, <2>3
<1>2. ASSUME NEW x \in 1 .. n, NEW y \in 1 .. n, x < y
      PROVE  x * w <= (y - 1) * w
  <2> DEFINE z == y - 1
  <2>1. z \in Nat /\ x \in Nat /\ x <= z
    BY <1>2
  <2> HIDE DEF z
  <2>2. x * w <= z * w
    BY <2>1, SMTT(20)
  <2> QED
    BY <2>2 DEF z
<1> DEFINE a == (s - 1) * w
           b == (t - 1) * w
           a2 == s * w
           b2 == t * w
           m == n * w
<1>3. a \in Nat /\ b \in Nat /\ a2 = a + w /\ b2 = b + w /\ a2 <= m /\ b2 <= m /\ m \in Nat
  BY <1>1
<1>4. (s < t => a2 <= b) /\ (t < s => b2 <= a)
  BY <1>2
<1>5. PlaceOf(w, s, i) = a + i /\ PlaceOf(w, t, j) = b + j
  BY DEF PlaceOf
<1> HIDE DEF a, b, a2, b2, m
<1>6. a + i \in 1 .. m
  BY <1>3
<1>7. a + i = b + j => s = t
  BY <1>3, <1>4
<1>8. s = t => a = b
  BY DEF a, b
<1>9. a + i = b + j => s = t /\ i = j
  BY <1>3, <1>7, <1>8
<1> QED
  BY <1>5, <1>6, <1>9 DEF m

\* A pool with room for every holder's w blocks has the blocks one of them
\* lacks: the holders sit at different places.
LEMMA RoomLeft ==
  ASSUME NEW Tok, NEW c, InOrder(c, Tok), NEW n \in Nat, NEW w \in Nat,
         n * w <= Cardinality(Blocks),
         NEW at, NEW r \in Requests, at[r] \in 1 .. n,
         \A q \in Requests : Len(c.blocks[q]) <= w /\ (c.blocks[q] # <<>> => at[q] \in 1 .. n),
         \A q, p \in Requests : at[q] = at[p] /\ at[q] \in 1 .. n => q = p
  PROVE  w - Len(c.blocks[r]) <= Len(c.free)
<1>a. PICK have, left : have = Len(c.blocks[r]) /\ left = Len(c.free)
  OBVIOUS
<1> DEFINE Z == {b \in Blocks : c.ref_cnt[b] = 0}
           At(b, s, i) ==
             \/ \E q \in Requests : at[q] = s /\ i \in 1 .. Len(c.blocks[q]) /\ c.blocks[q][i] = b
             \/ s = at[r] /\ \E j \in 1 .. left : i = have + j /\ c.free[j] = b
           f == [b \in Blocks |-> CHOOSE k \in 1 .. n * w :
                  \E s \in 1 .. n, i \in 1 .. w : At(b, s, i) /\ k = PlaceOf(w, s, i)]
           top == PlaceOf(w, at[r], w)
           T == (1 .. n * w) \ {top}
<1>0. /\ c.blocks \in [Requests -> Seq(Blocks)] /\ c.free \in Seq(Blocks)
      /\ \A q \in Requests : IsInjective(c.blocks[q])
      /\ \A b \in Blocks : c.ref_cnt[b] = Cardinality(HoldersOf(c.blocks, b))
      /\ ListOf(c.free, Z)
  BY DEF InOrder, PoolInOrder, Caches
<1>b. \A s, t \in 1 .. n : \A i, j \in 1 .. w :
        /\ PlaceOf(w, s, i) \in 1 .. n * w
        /\ PlaceOf(w, s, i) = PlaceOf(w, t, j) => s = t /\ i = j
  BY PlacesDiffer, Zenon
<1>1. have \in Nat /\ left \in Nat /\ have <= w
  BY <1>0, <1>a
<1>2. \A q \in Requests : Len(c.blocks[q]) \in Nat /\ Len(c.blocks[q]) <= w /\ (1 \in 1 .. Len(c.blocks[q]) => c.blocks[q] # <<>>)
  BY <1>0
<1> SUFFICES ASSUME have + left < w PROVE FALSE
  <2>1. w - have <= left
    BY <1>1
  <2> QED
    BY <1>a, <2>1
<1>3. ASSUME NEW b \in Blocks
      PROVE  \E s \in 1 .. n, i \in 1 .. w : At(b, s, i)
  <2>1. CASE c.ref_cnt[b] = 0
    <3>1. PICK j \in 1 .. left : c.free[j] = b
      <4>1. b \in Z
        BY <2>1
      <4> HIDE DEF Z
      <4>2. \A x \in Z : \E j \in 1 .. Len(c.free) : c.free[j] = x
        BY <1>0, ListPlaces, Zenon
      <4> QED
        BY <1>a, <4>1, <4>2, Zenon
    <3>2. have + j \in 1 .. w
      <4>1. j \in Nat \ {0} /\ j <= left
        BY <1>1
      <4> QED
        BY <1>1, <4>1
    <3> QED
      BY <3>1, <3>2
  <2>2. CASE c.ref_cnt[b] # 0
    <3>1. HoldersOf(c.blocks, b) # {}
      BY <1>0, <2>2, FS_EmptySet
    <3>2. PICK q \in Requests : b \in Elements(c.blocks[q])
      BY <3>1 DEF HoldersOf
    <3>3. PICK i \in 1 .. Len(c.blocks[q]) : c.blocks[q][i] = b
      BY <3>2, Zenon DEF Elements
    <3>4. i \in 1 .. w /\ c.blocks[q] # <<>>
      BY <1>2, <3>3
    <3> QED
      BY <3>3, <3>4
  <2> QED
    BY <2>1, <2>2
<1>4. ASSUME NEW b \in Blocks, NEW d \in Blocks, NEW s \in 1 .. n, NEW i \in 1 .. w,
             At(b, s, i), At(d, s, i)
      PROVE  b = d
  <2>1. ASSUME NEW q \in Requests, at[q] = s, i \in 1 .. Len(c.blocks[q]),
               NEW j \in 1 .. left, s = at[r], i = have + j
        PROVE  FALSE
    <3>1. q = r
      BY <2>1
    <3> QED
      BY <1>1, <1>a, <2>1, <3>1
  <2>2. ASSUME NEW q \in Requests, at[q] = s, NEW p \in Requests, at[p] = s PROVE q = p
    BY <2>2
  <2>3. ASSUME NEW j \in 1 .. left, NEW k \in 1 .. left, i = have + j, i = have + k PROVE j = k
    BY <1>1, <2>3
  <2> QED
    BY <1>4, <2>1, <2>2, <2>3
<1>5. ASSUME NEW b \in Blocks, NEW s \in 1 .. n, NEW i \in 1 .. w, At(b, s, i)
      PROVE  PlaceOf(w, s, i) # top
  <2>1. w \in 1 .. w
    BY <1>1
  <2>2. ASSUME s = at[r] PROVE i # w
    <3>1. ASSUME NEW q \in Requests, at[q] = s, i \in 1 .. Len(c.blocks[q]) PROVE i # w
      <4>1. q = r
        BY <2>2, <3>1
      <4>2. Len(c.blocks[q]) = have
        BY <1>a, <4>1, Zenon
      <4>3. i \in 1 .. have
        BY <3>1, <4>2, Zenon
      <4> QED
        BY <1>1, <4>3
    <3>2. ASSUME NEW j \in 1 .. left, i = have + j PROVE i # w
      BY <1>1, <3>2
    <3> QED
      BY <1>5, <3>1, <3>2
  <2> QED
    BY <2>1, <2>2, <1>b
<1>6. ASSUME NEW b \in Blocks
      PROVE  \E s \in 1 .. n, i \in 1 .. w : At(b, s, i) /\ f[b] = PlaceOf(w, s, i)
  <2>1. PICK s \in 1 .. n, i \in 1 .. w : At(b, s, i)
    BY <1>3
  <2>2. PlaceOf(w, s, i) \in 1 .. n * w
    BY <1>b
  <2> HIDE DEF At
  <2>3. \E k \in 1 .. n * w : \E y \in 1 .. n, x \in 1 .. w : At(b, y, x) /\ k = PlaceOf(w, y, x)
    BY <2>1, <2>2, Zenon
  <2> QED
    BY <2>3, Zenon
<1> HIDE DEF At, f, top
<1>7. f \in Injection(Blocks, T)
  <2>1. \A b \in Blocks : f[b] \in T
    <3> SUFFICES ASSUME NEW b \in Blocks PROVE f[b] \in T
      OBVIOUS
    <3>1. PICK s \in 1 .. n, i \in 1 .. w : At(b, s, i) /\ f[b] = PlaceOf(w, s, i)
      BY <1>6
    <3>2. f[b] \in 1 .. n * w
      BY <3>1, <1>b
    <3>3. f[b] # top
      BY <1>5, <3>1
    <3> QED
      BY <3>2, <3>3
  <2>2. ASSUME NEW b \in Blocks, NEW d \in Blocks, f[b] = f[d] PROVE b = d
    <3>1. PICK s \in 1 .. n, i \in 1 .. w : At(b, s, i) /\ f[b] = PlaceOf(w, s, i)
      BY <1>6
    <3>2. PICK t \in 1 .. n, j \in 1 .. w : At(d, t, j) /\ f[d] = PlaceOf(w, t, j)
      BY <1>6
    <3>3. s = t /\ i = j
      <4>1. PlaceOf(w, s, i) = PlaceOf(w, t, j)
        BY <2>2, <3>1, <3>2, Zenon
      <4> QED
        BY <1>b, <4>1, Zenon
    <3> QED
      BY <1>4, <3>1, <3>2, <3>3
  <2>3. DOMAIN f = Blocks /\ f = [b \in Blocks |-> f[b]]
    BY DEF f
  <2> QED
    BY <2>1, <2>2, <2>3, Zenon DEF Injection, IsInjective
<1>8. n * w \in Nat /\ top \in 1 .. n * w
  BY <1>1, <1>b DEF top
<1> DEFINE m == n * w
<1>9. IsFiniteSet(1 .. m) /\ Cardinality(1 .. m) = m
  <2>1. m \in Nat /\ m # 0
    BY <1>8
  <2> HIDE DEF m
  <2>2. IsFiniteSet(1 .. m) /\ Cardinality(1 .. m) = IF 1 > m THEN 0 ELSE m - 1 + 1
    <3>1. 1 \in Int /\ m \in Int
      BY <2>1
    <3> QED
      BY <3>1, FS_Interval, Zenon
  <2>3. ~ (1 > m) /\ m - 1 + 1 = m
    BY <2>1
  <2> QED
    BY <2>2, <2>3
<1>10. IsFiniteSet(T) /\ Cardinality(T) = m - 1
  BY <1>8, <1>9, FS_RemoveElement
<1>11. Cardinality(Blocks) <= m - 1
  BY <1>7, <1>10, FS_Injection
<1>12. Cardinality(Blocks) \in Nat
  BY CacheAssumption, FS_CardinalityType
<1> QED
  BY <1>8, <1>11, <1>12

\* A list whose elements have different first parts has as many of them.
LEMMA FirstsCount ==
  ASSUME NEW p, ListOf(p, Elements(p)), \A d, e \in Elements(p) : d[1] = e[1] => d = e
  PROVE  Len(p) \in Nat /\ Cardinality({p[i][1] : i \in 1 .. Len(p)}) = Len(p)
<1> DEFINE F == {p[i][1] : i \in 1 .. Len(p)}
           f == [i \in 1 .. Len(p) |-> p[i][1]]
<1>1. /\ Len(p) \in Nat
      /\ \A i \in 1 .. Len(p) : p[i] \in Elements(p)
      /\ \A i, j \in 1 .. Len(p) : p[i] = p[j] => i = j
  BY ListPlaces, Zenon
<1>2. f \in [1 .. Len(p) -> F] /\ \A x \in F : \E i \in 1 .. Len(p) : f[i] = x
  OBVIOUS
<1>3. \A i, j \in 1 .. Len(p) : f[i] = f[j] => i = j
  <2> SUFFICES ASSUME NEW i \in 1 .. Len(p), NEW j \in 1 .. Len(p), f[i] = f[j] PROVE i = j
    OBVIOUS
  <2>1. p[i][1] = p[j][1]
    OBVIOUS
  <2> QED
    BY <1>1, <2>1, Zenon
<1>4. DOMAIN f = 1 .. Len(p)
  OBVIOUS
<1> HIDE DEF f, F
<1>5. f \in Bijection(1 .. Len(p), F)
  BY <1>2, <1>3, <1>4, Zenon DEF Bijection, Injection, Surjection, IsInjective
<1>6. Cardinality(F) = Len(p)
  BY <1>1, <1>5, FS_CountingElements DEF ExistsBijection
<1> QED
  BY <1>1, <1>6 DEF F

\* Smaller factors, smaller product.
LEMMA ProductGrows ==
  ASSUME NEW a \in Nat, NEW b \in Nat, NEW c \in Nat, NEW d \in Nat, a <= c, b <= d
  PROVE  a * b \in Nat /\ a * b <= c * d
<1>1. a * b <= c * b /\ a * b \in Nat /\ c * b \in Nat /\ c * d \in Nat
  BY SMTT(20)
<1>2. c * b <= c * d
  BY SMTT(20)
<1> QED
  BY <1>1, <1>2

-----------------------------------------------------------------------------
(***************************************************************************)
(* The rows of a pass.  A pass computes the tokens of some requests from   *)
(* those done to those new, and nothing of the others.                     *)
(***************************************************************************)
PoolRows == Blocks \X (0 .. BlockSize - 1)

Advances(c, seq, done, new, those) ==
  /\ new \in [Requests -> Nat] /\ those \subseteq Requests
  /\ \A r \in those : done[r] <= new[r] /\ new[r] <= Len(seq[r]) /\ new[r] <= Len(c.blocks[r]) * BlockSize
  /\ \A r \in Requests : r \notin those => new[r] = done[r]

\* The blocks of r reach as far as position p, which is not computed.
Beyond(c, done, r, p) == p \in Nat /\ p > done[r] /\ NumBlocksFor(p) <= Len(c.blocks[r])

\* A store that a pass has been run over is a store.
LEMMA AdvancedStore ==
  ASSUME NEW Tok, NEW c, NEW seq, NEW done, NEW new, NEW those, Store(c, Tok, seq, done),
         Advances(c, seq, done, new, those)
  PROVE  Store(c, Tok, seq, new)
<1>1. ASSUME NEW r \in Requests
      PROVE  c.num_cached[r] * BlockSize <= new[r] /\ new[r] <= Len(c.blocks[r]) * BlockSize /\ new[r] <= Len(seq[r])
  <2> DEFINE x == c.num_cached[r] * BlockSize
             y == Len(c.blocks[r]) * BlockSize
  <2>1. x <= done[r] /\ done[r] <= y /\ done[r] <= Len(seq[r]) /\ done[r] \in Nat /\ new[r] \in Nat
    BY DEF Store, Advances
  <2>2. x \in Nat
    <3>1. c.num_cached \in [Requests -> Nat]
      BY CacheTypes DEF Store
    <3>2. c.num_cached[r] \in Nat
      BY <3>1
    <3> QED
      BY <3>2, Times
  <2> HIDE DEF x, y
  <2>3. CASE r \in those
    <3>1. done[r] <= new[r] /\ new[r] <= Len(seq[r]) /\ new[r] <= y
      BY <2>3 DEF Advances, y
    <3>2. x <= new[r]
      BY <2>1, <2>2, <3>1
    <3> QED
      BY <3>1, <3>2 DEF x, y
  <2>4. CASE r \notin those
    <3>1. new[r] = done[r]
      BY <2>4 DEF Advances
    <3> QED
      BY <2>1, <3>1 DEF x, y
  <2> QED
    BY <2>3, <2>4
<1>2. new \in [Requests -> Nat]
  BY DEF Advances
<1> QED
  BY <1>1, <1>2 DEF Store

\* The row of a position that is not computed is the row of nothing else.
LEMMA OwnRow ==
  ASSUME NEW Tok, NEW c, NEW seq, NEW done, Store(c, Tok, seq, done), NEW r \in Requests, NEW p, Beyond(c, done, r, p)
  PROVE  /\ RowOf(c.blocks[r], p) \in PoolRows
         /\ \A q \in Requests : \A s \in Nat \ {0} : NumBlocksFor(s) <= Len(c.blocks[q]) /\ RowOf(c.blocks[q], s) = RowOf(c.blocks[r], p)
                 => q = r /\ s = p
         /\ \A e \in c.index : e[2] # RowOf(c.blocks[r], p)[1]
<1> DEFINE own == c.blocks[r]
           i == NumBlocksFor(p)
           b == own[i]
<1>1. InOrder(c, Tok) /\ done[r] \in Nat /\ p \in Nat /\ p > done[r] /\ i <= Len(own)
  BY DEF Store, Beyond
<1>2. b \in Blocks /\ c.block_hash[b] = NoHash /\ \A q \in Requests : b \in Elements(c.blocks[q]) => q = r
  BY <1>1, PrivatePlace
<1>3. p \in Nat \ {0}
  BY <1>1
<1>4. i \in Nat \ {0} /\ (p - 1) % BlockSize \in 0 .. BlockSize - 1
  BY <1>3, RowPlace
<1>5. RowOf(own, p) = <<b, (p - 1) % BlockSize>>
  BY DEF RowOf
<1>6. \A q \in Requests : c.blocks[q] \in Seq(Blocks) /\ IsInjective(c.blocks[q])
  <2>1. c.blocks \in [Requests -> Seq(Blocks)]
    BY <1>1, CacheTypes
  <2> QED
    BY <1>1, <2>1 DEF InOrder, PoolInOrder
<1>7. ASSUME NEW q \in Requests, NEW s \in Nat \ {0}, NumBlocksFor(s) <= Len(c.blocks[q]), RowOf(c.blocks[q], s) = RowOf(own, p)
      PROVE  q = r /\ s = p
  <2> DEFINE k == NumBlocksFor(s)
             x == (s - 1) % BlockSize
             y == (p - 1) % BlockSize
             own2 == c.blocks[q]
  <2>1. k \in Nat \ {0} /\ x \in 0 .. BlockSize - 1 /\ s = (k - 1) * BlockSize + x + 1 /\ p = (i - 1) * BlockSize + y + 1
    BY <1>3, RowPlace
  <2>2. k \in 1 .. Len(own2) /\ i \in 1 .. Len(own)
    <3>1. k <= Len(own2) /\ i <= Len(own) /\ Len(own2) \in Nat /\ Len(own) \in Nat
      BY <1>1, <1>6, <1>7
    <3> HIDE DEF k, i, own, own2
    <3> QED
      BY <1>4, <2>1, <3>1
  <2>3. own2[k] = b /\ x = y
    BY <1>5, <1>7 DEF RowOf
  <2>4. q = r
    <3>1. own2[k] \in Elements(own2)
      BY <2>2, Zenon DEF Elements
    <3> QED
      BY <1>2, <2>3, <3>1, Zenon
  <2>5. k = i
    <3>1. own \in Seq(Blocks) /\ IsInjective(own) /\ own[k] = own[i] /\ k \in 1 .. Len(own)
      BY <1>6, <2>2, <2>3, <2>4
    <3>2. DOMAIN own = 1 .. Len(own)
      BY <3>1, LenProperties
    <3> HIDE DEF k, i, own, b
    <3> QED
      BY <2>2, <3>1, <3>2 DEF IsInjective
  <2>6. s = p
    BY <2>1, <2>3, <2>5
  <2> QED
    BY <2>4, <2>6
<1>8. ASSUME NEW e \in c.index PROVE e[2] # b
  <2>1. c.block_hash[e[2]] = e[1] /\ e[1] # NoHash
    BY <1>1 DEF InOrder, IndexInOrder
  <2> QED
    BY <1>2, <2>1
<1>9. RowOf(own, p) \in PoolRows
  BY <1>2, <1>4, <1>5 DEF PoolRows
<1> QED
  BY <1>5, <1>7, <1>8, <1>9

\* The rows a pass may touch: those behind what is computed, in the blocks of
\* the requests it runs.
Touched(c, done, those, row) == \E r \in those : \E p \in Nat : Beyond(c, done, r, p) /\ row = RowOf(c.blocks[r], p)

\* After the pass the rows up to what is new are there.
LEMMA PassHolds ==
  ASSUME NEW Tok, NEW c, NEW seq, NEW done, NEW new, NEW those, Store(c, Tok, seq, done),
         Advances(c, seq, done, new, those), NEW rows, RowsHold(c, seq, done, rows), NEW after,
         \A r \in those : \A p \in done[r] + 1 .. new[r] : after[RowOf(c.blocks[r], p)] = SubSeq(seq[r], 1, p),
         \A row \in PoolRows : after[row] # rows[row] => Touched(c, done, those, row)
  PROVE  RowsHold(c, seq, new, after)
<1>1. ASSUME NEW q \in Requests, NEW p \in 1 .. new[q]
      PROVE  after[RowOf(c.blocks[q], p)] = SubSeq(seq[q], 1, p)
  <2>1. new[q] \in Nat /\ done[q] \in Nat /\ (q \notin those => new[q] = done[q]) /\ done[q] <= Len(c.blocks[q]) * BlockSize
    BY DEF Store, Advances
  <2>2. p \in Nat \ {0}
    BY <2>1
  <2>3. CASE p <= done[q]
    <3> DEFINE own == c.blocks[q]
               row == RowOf(own, p)
               b == NumBlocksFor(p)
    <3>1. own \in Seq(Blocks)
      <4>1. c.blocks \in [Requests -> Seq(Blocks)]
        BY CacheTypes DEF Store
      <4> QED
        BY <4>1
    <3>2. b <= Len(own) /\ b \in Nat \ {0} /\ (p - 1) % BlockSize \in 0 .. BlockSize - 1
      <4> DEFINE n == Len(own)
                 x == n * BlockSize
      <4>1. n \in Nat
        BY <3>1
      <4>2. x \in Nat
        BY <4>1, Times
      <4>3. (p <= n * BlockSize <=> b <= n) /\ b \in Nat \ {0} /\ (p - 1) % BlockSize \in 0 .. BlockSize - 1
        BY <2>2, <4>1, RowPlace
      <4>4. done[q] <= x
        BY <2>1
      <4> HIDE DEF x
      <4>5. p <= x
        BY <2>1, <2>2, <2>3, <4>2, <4>4
      <4> QED
        BY <4>3, <4>5 DEF x
    <3>3. row \in PoolRows
      <4>1. b \in 1 .. Len(own)
        <5> HIDE DEF b, own
        <5> QED
          BY <3>1, <3>2
      <4>2. own[b] \in Blocks
        BY <3>1, <4>1
      <4> QED
        BY <3>2, <4>2 DEF PoolRows, RowOf
    <3>4. rows[row] = SubSeq(seq[q], 1, p)
      <4>1. p \in 1 .. done[q]
        BY <2>1, <2>2, <2>3
      <4> QED
        BY <4>1 DEF RowsHold, Holding
    <3>5. ~Touched(c, done, those, row)
      <4> SUFFICES ASSUME NEW r \in those, NEW s \in Nat, Beyond(c, done, r, s), row = RowOf(c.blocks[r], s)
                   PROVE  FALSE
        BY DEF Touched
      <4>1. r \in Requests
        BY DEF Advances
      <4>2. q = r /\ p = s
        BY <2>2, <3>2, <4>1, OwnRow
      <4>3. s > done[q]
        BY <4>2 DEF Beyond
      <4> QED
        BY <2>1, <2>2, <2>3, <4>2, <4>3
    <3>6. after[row] = rows[row]
      <4> HIDE DEF row
      <4> QED
        BY <3>3, <3>5
    <3> QED
      BY <3>4, <3>6
  <2>4. CASE ~(p <= done[q])
    <3>1. q \in those /\ p \in done[q] + 1 .. new[q]
      BY <2>1, <2>2, <2>4
    <3> QED
      BY <3>1
  <2> QED
    BY <2>3, <2>4
<1>2. ASSUME NEW e \in c.index, NEW j \in 1 .. BlockSize
      PROVE  after[<<e[2], j - 1>>] = SubSeq(e[1], 1, Len(e[1]) - BlockSize + j)
  <2> DEFINE row == <<e[2], j - 1>>
  <2>1. row \in PoolRows
    <3>1. e[2] \in Blocks
      BY DEF Store, InOrder, Caches
    <3>2. j - 1 \in 0 .. BlockSize - 1
      BY CacheAssumption
    <3> QED
      BY <3>1, <3>2 DEF PoolRows
  <2>2. rows[row] = SubSeq(e[1], 1, Len(e[1]) - BlockSize + j)
    BY DEF RowsHold, Carries
  <2>3. ~Touched(c, done, those, row)
    <3> SUFFICES ASSUME NEW r \in those, NEW s \in Nat, Beyond(c, done, r, s), row = RowOf(c.blocks[r], s)
                 PROVE  FALSE
      BY DEF Touched
    <3>1. r \in Requests
      BY DEF Advances
    <3>2. e[2] # RowOf(c.blocks[r], s)[1]
      BY <3>1, OwnRow
    <3>3. row[1] = e[2]
      OBVIOUS
    <3> HIDE DEF row
    <3> QED
      BY <3>2, <3>3
  <2> HIDE DEF row
  <2>4. after[row] = rows[row]
    BY <2>1, <2>3
  <2> QED
    BY <2>2, <2>4 DEF row
<1> QED
  BY <1>1, <1>2 DEF RowsHold, Holding, Carries
=============================================================================
