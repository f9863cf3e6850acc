-------------------------- MODULE Scheduler_proofs --------------------------
(***************************************************************************)
(* Safety of the synchronous engine's bookkeeping, for any number of       *)
(* requests, slots, blocks and tokens: where a request is, which slot it   *)
(* has, that a step samples at most one token for it, and how much it may  *)
(* generate, whatever the cache answers; from what the cache does (module  *)
(* CacheLemmas), who holds its blocks; and, from both, what the device's   *)
(* rows hold and what a pass reads of them, when a plan keeps to its token *)
(* budget and when nobody is evicted.                                      *)
(***************************************************************************)
EXTENDS Scheduler, CacheLemmas

Token == Nat \cup Generated

InState(st) == {r \in Requests : status[r] = st}

\* The fields of the requests and the locals of plan() stay in their domains.
Fields ==
  /\ status \in [Requests -> {"new", "waiting", "running", "finished"}]
  /\ prompt \in [Requests -> Seq(Token)] /\ output \in [Requests -> Seq(Token)]
  /\ max_new_tokens \in [Requests -> Int] /\ asked \in [Requests -> Nat]

Locals == current \in Requests \cup {NoRequest} /\ cursor \in Nat \ {0}

\* A queue lists the requests of one status, each once.
Queues == ListOf(waiting, InState("waiting")) /\ ListOf(running, InState("running"))

\* A slot is held by at most one request, which runs, and the free list has
\* the rest.
Seats ==
  /\ slot \in [Requests -> Slots \cup {NoSlot}]
  /\ \A r \in Requests : slot[r] # NoSlot <=> status[r] = "running"
  /\ \A r, q \in Requests : slot[r] = slot[q] /\ slot[r] # NoSlot => r = q
  /\ ListOf(free_slots, Slots \ {slot[r] : r \in Requests})

\* The tokens a prompt of n tokens may be given.
Cap(n) == IF MaxGenLen = 0 THEN MaxSeqLen - n ELSE Smaller(MaxGenLen, MaxSeqLen - n)

\* What was generated before the last eviction and what may still be is within
\* the cap, and a live request has a token left.
Allowance(r) ==
  /\ asked[r] <= Len(prompt[r])
  /\ Len(prompt[r]) - asked[r] + max_new_tokens[r] <= Cap(asked[r])
  /\ Len(output[r]) <= max_new_tokens[r]
  /\ status[r] \in {"waiting", "running"} => Len(output[r]) < max_new_tokens[r]
  /\ status[r] = "new" => output[r] = <<>>

Allowances == \A r \in Requests : Allowance(r)

\* The request admission has evicted somebody for is still at its turn.
Candidacy == pc = "admit" /\ current # NoRequest => status[current] = "waiting"

\* The chunks granted so far belong to different requests, which run.
Grants ==
  pc \in {"resume", "admit", "batch", "grow", "execute"} =>
    /\ ListOf(prefill, Elements(prefill))
    /\ \A d, e \in Elements(prefill) : d[1] = e[1] => d = e
    /\ Granted \subseteq InState("running")

\* Stage 1 has walked past whoever it granted a chunk or is trying to serve.
Behind(r, place) == \E i \in 1 .. Len(running) : i < place /\ running[i] = r

Walk ==
  pc = "resume" =>
    /\ \A r \in Granted : Behind(r, cursor)
    /\ current # NoRequest => Behind(current, cursor) /\ current \notin Granted

\* The decode batch is apart from the prefills, and complete it runs.
Batch ==
  pc \in {"grow", "execute"} =>
    /\ ListOf(decode, Elements(decode)) /\ Elements(decode) \subseteq Requests
    /\ Elements(decode) \cap Granted = {}

BatchRuns == pc = "execute" => Elements(decode) \subseteq InState("running")

\* A step samples one token at most for a request, which still runs.
Emission ==
  pc = "harvest" =>
    ListOf(emitted, Elements(emitted)) /\ Elements(emitted) \subseteq InState("running")

\* What is true of the requests and their places at any moment, and of the
\* plan in the making.
Places   == Fields /\ Queues /\ Seats /\ Allowances
PlanInv  == Locals /\ Candidacy /\ Grants /\ Walk /\ Batch /\ BatchRuns /\ Emission

\* The inductive invariant.
IInv == Places /\ PlanInv

-----------------------------------------------------------------------------
(***************************************************************************)
(* What the operations on requests do to their places.                     *)
(***************************************************************************)
LEMMA ListWithout ==
  ASSUME NEW T, NEW s, ListOf(s, T), NEW x
  PROVE  ListOf(Without(s, x), T \ {x}) /\ NoLater(s, Without(s, x), x)
  BY ListRemove, Zenon DEF Without

coreVars == <<status, prompt, output, max_new_tokens, slot, waiting, running, free_slots, asked>>

\* A step that touches no request and no queue keeps every place.
LEMMA SamePlaces ==
  ASSUME Places, UNCHANGED coreVars
  PROVE  Places'
  BY DEF Places, coreVars, Fields, Queues, InState, Seats, Allowances, Allowance

\* The victim of an eviction runs and is not protected.
LEMMA VictimRuns ==
  ASSUME Queues, NEW P, Victim(P) # NoRequest
  PROVE  Victim(P) \in InState("running") /\ Victim(P) \notin P
<1> DEFINE E == {i \in 1 .. Len(running) :
        /\ PrefillDone(running[i])
        /\ running[i] \notin P
        /\ output[running[i]] # <<>>}
<1>1. E # {} /\ Victim(P) = running[Max(E)]
  BY Zenon DEF Victim
<1>2. Len(running) \in Nat /\ \A i \in 1 .. Len(running) : running[i] \in InState("running")
  BY ListPlaces, Zenon DEF Queues
<1>3. E \subseteq 0 .. Len(running)
  BY <1>2
<1>4. Max(E) \in E
  BY <1>1, <1>2, <1>3, MaxIsGreatest, Zenon
<1> QED
  BY <1>1, <1>2, <1>4, Zenon

\* Slots are numbered from 1, so 0 is none of them.
LEMMA SlotsAreNumbered ==
  Cardinality(Slots) \in Nat /\ Slots = 1 .. Cardinality(Slots) /\ NoSlot \notin Slots
<1>1. Cardinality(Slots) \in Nat /\ Slots = 1 .. Cardinality(Slots)
  BY PlannerAssumption, FS_CardinalityType, Zenon
<1>2. \A n \in Nat : 0 \notin 1 .. n
  OBVIOUS
<1> QED
  BY <1>1, <1>2, Zenon DEF NoSlot

\* A request that gives back its slot leaves it to the free list.
LEMMA Vacates ==
  ASSUME Seats, Fields, NEW r \in Requests, NEW st \in {"waiting", "finished"},
         status' = [status EXCEPT ![r] = st],
         slot' = [slot EXCEPT ![r] = NoSlot],
         free_slots' = ReleaseSlot(r)
  PROVE  Seats'
<1>1. NoSlot \notin Slots
  BY SlotsAreNumbered
<1>2. /\ slot' \in [Requests -> Slots \cup {NoSlot}]
      /\ \A q \in Requests : slot'[q] # NoSlot <=> status'[q] = "running"
      /\ \A p, q \in Requests : slot'[p] = slot'[q] /\ slot'[p] # NoSlot => p = q
  BY DEF Seats, Fields
<1> DEFINE Taken  == {slot[q] : q \in Requests}
           Taken2 == {slot'[q] : q \in Requests}
<1>3. ListOf(free_slots', Slots \ Taken2)
  <2>1. CASE slot[r] = NoSlot
    <3>1. slot' = slot /\ free_slots' = free_slots
      BY <2>1 DEF Seats, ReleaseSlot
    <3> QED
      BY <3>1 DEF Seats
  <2>2. CASE slot[r] # NoSlot
    <3>1. free_slots' = Append(free_slots, slot[r]) /\ slot[r] \notin Slots \ Taken
      BY <2>2, Zenon DEF ReleaseSlot
    <3>2. ListOf(free_slots, Slots \ Taken)
      BY Zenon DEF Seats
    <3>3. ListOf(free_slots', (Slots \ Taken) \cup {slot[r]})
      <4> HIDE DEF Taken
      <4>1. ListOf(Append(free_slots, slot[r]), (Slots \ Taken) \cup {slot[r]})
        BY <3>1, <3>2, ListAppend, Zenon
      <4> QED
        BY <3>1, <4>1, Zenon
    <3>4. ASSUME NEW x \in Slots
          PROVE  x \in Taken2 <=> x \in Taken /\ x # slot[r]
      <4>1. ASSUME x \in Taken2
            PROVE  x \in Taken /\ x # slot[r]
        <5>1. PICK q \in Requests : x = slot'[q]
          BY <4>1, Zenon
        <5>2. q # r /\ slot[q] = x
          BY <1>1, <5>1 DEF Seats
        <5> QED
          BY <2>2, <5>2, Zenon DEF Seats
      <4>2. ASSUME x \in Taken, x # slot[r]
            PROVE  x \in Taken2
        <5>1. PICK q \in Requests : x = slot[q]
          BY <4>2, Zenon
        <5>2. q # r /\ slot'[q] = x
          BY <4>2, <5>1 DEF Seats
        <5> QED
          BY <5>2, Zenon
      <4> QED
        BY <4>1, <4>2
    <3>5. slot[r] \in Slots
      BY <2>2, SMT DEF Seats
    <3> HIDE DEF Taken, Taken2
    <3>6. Slots \ Taken2 = (Slots \ Taken) \cup {slot[r]}
      BY <3>4, <3>5
    <3> QED
      BY <3>3, <3>6, Zenon
  <2> QED
    BY <2>1, <2>2
<1> QED
  BY <1>2, <1>3, Zenon DEF Seats

\* _preempt moves its victim from the running list to the head of the waiting
\* queue, and nobody moves towards the end of the running list.
LEMMA PreemptPlaces ==
  ASSUME Places, NEW c, NEW v \in InState("running"), Preempt(c, v), UNCHANGED asked
  PROVE  /\ Places'
         /\ InState("running")' = InState("running") \ {v}
         /\ InState("waiting")' = InState("waiting") \cup {v}
         /\ \A r, place : Behind(r, place) /\ place \in Nat /\ r # v => Behind(r, place)'
<1> USE DEF Places
<1>1. /\ status' = [status EXCEPT ![v] = "waiting"]
      /\ prompt' = [prompt EXCEPT ![v] = prompt[v] \o output[v]]
      /\ output' = [output EXCEPT ![v] = <<>>]
      /\ max_new_tokens' = [max_new_tokens EXCEPT ![v] = max_new_tokens[v] - Len(output[v])]
      /\ running' = Without(running, v)
      /\ waiting' = <<v>> \o waiting
      /\ v \in Requests /\ status[v] = "running"
  BY DEF Preempt, DiscardRunning, CapLeft, InState
<1>2. Fields'
  <2>1. prompt[v] \o output[v] \in Seq(Token) /\ <<>> \in Seq(Token) /\ Len(output[v]) \in Nat
    BY <1>1 DEF Fields
  <2> QED
    BY <1>1, <2>1 DEF Fields
<1>3. /\ InState("running")' = InState("running") \ {v}
      /\ InState("waiting")' = InState("waiting") \cup {v}
      /\ v \notin InState("waiting")
  BY <1>1 DEF InState, Fields
<1>4. Queues'
  BY <1>1, <1>3, ListWithout, ListAppend DEF Queues
<1>5. Seats'
  BY <1>1, Vacates DEF Preempt
<1>6. Allowances'
  <2> SUFFICES ASSUME NEW r \in Requests
               PROVE  Allowance(r)'
    BY DEF Allowances
  <2>1. Allowance(r)
    BY DEF Allowances
  <2>2. CASE r # v
    <3>1. /\ status'[r] = status[r] /\ prompt'[r] = prompt[r] /\ output'[r] = output[r]
          /\ max_new_tokens'[r] = max_new_tokens[r] /\ asked'[r] = asked[r]
      BY <1>1, <2>2 DEF Fields
    <3> QED
      BY <2>1, <3>1, Zenon DEF Allowance
  <2>3. CASE r = v
    <3>1. /\ status[r] = "running" /\ status'[r] = "waiting"
          /\ prompt'[r] = prompt[r] \o output[r] /\ output'[r] = <<>>
          /\ max_new_tokens'[r] = max_new_tokens[r] - Len(output[r]) /\ asked'[r] = asked[r]
      BY <1>1, <2>3 DEF Fields
    <3>2. /\ prompt[r] \in Seq(Token) /\ output[r] \in Seq(Token)
          /\ max_new_tokens[r] \in Int /\ asked[r] \in Nat
      BY DEF Fields
    <3>3. Len(prompt'[r]) = Len(prompt[r]) + Len(output[r]) /\ Len(output'[r]) = 0
          /\ Len(prompt[r]) \in Nat /\ Len(output[r]) \in Nat
      BY <3>1, <3>2
    <3>4. /\ asked[r] <= Len(prompt[r])
          /\ Len(prompt[r]) - asked[r] + max_new_tokens[r] <= Cap(asked[r])
          /\ Len(output[r]) < max_new_tokens[r]
      BY <2>1, <3>1, Zenon DEF Allowance
    <3>5. /\ asked[r] <= Len(prompt'[r])
          /\ Len(prompt'[r]) - asked[r] + max_new_tokens'[r] <= Cap(asked[r])
          /\ 0 < max_new_tokens'[r]
      <4> DEFINE a == Len(prompt[r])
                 b == Len(output[r])
                 a2 == Len(prompt'[r])
                 k == Cap(asked[r])
      <4>1. a \in Nat /\ b \in Nat /\ a2 = a + b /\ asked[r] <= a /\ b < max_new_tokens[r]
            /\ a - asked[r] + max_new_tokens[r] <= k
        BY <3>3, <3>4
      <4> HIDE DEF a, b, a2, k
      <4>2. /\ asked[r] <= a2 /\ a2 - asked[r] + (max_new_tokens[r] - b) <= k
            /\ 0 < max_new_tokens[r] - b
        <5>1. a2 - asked[r] + (max_new_tokens[r] - b) = a - asked[r] + max_new_tokens[r]
          BY <3>2, <4>1
        <5> QED
          BY <3>2, <4>1, <5>1
      <4> QED
        BY <3>1, <4>2, Zenon DEF a, b, a2, k
    <3>6. Len(output'[r]) <= max_new_tokens'[r] /\ Len(output'[r]) < max_new_tokens'[r]
      BY <3>1, <3>2, <3>3, <3>5
    <3>7. Len(prompt'[r]) - asked'[r] + max_new_tokens'[r] <= Cap(asked'[r])
          /\ asked'[r] <= Len(prompt'[r])
      BY <3>1, <3>5, Zenon
    <3> QED
      BY <3>1, <3>6, <3>7, Zenon DEF Allowance
  <2> QED
    BY <2>2, <2>3
<1>7. ASSUME NEW r, NEW place \in Nat, Behind(r, place), r # v
      PROVE  Behind(r, place)'
  <2>1. PICK i \in 1 .. Len(running) : i < place /\ running[i] = r
    BY <1>7, Zenon DEF Behind
  <2>2. ListOf(running, InState("running"))
    BY DEF Queues
  <2>3. NoLater(running, running', v)
    BY <1>1, <2>2, ListWithout, Zenon
  <2>4. PICK j \in 1 .. Len(running') : j <= i /\ running'[j] = r
    BY <1>7, <2>1, <2>3, Zenon DEF NoLater
  <2>5. Len(running) \in Nat /\ Len(running') \in Nat
    BY <1>4, ListPlaces, Zenon DEF Queues
  <2>6. j < place
    BY <2>1, <2>4, <2>5
  <2> QED
    BY <2>4, <2>6, Zenon DEF Behind
<1> QED
  BY <1>2, <1>3, <1>4, <1>5, <1>6, <1>7

\* finish takes its request from both queues and gives back its slot.
LEMMA FinishPlaces ==
  ASSUME Fields, Queues, Seats, NEW r \in Requests, NEW sequence, Finish(r, sequence)
  PROVE  /\ status' = [status EXCEPT ![r] = "finished"]
         /\ Queues' /\ Seats'
         /\ InState("running")' = InState("running") \ {r}
<1>1. /\ status' = [status EXCEPT ![r] = "finished"]
      /\ running' = Without(running, r) /\ waiting' = Without(waiting, r)
  BY DEF Finish, DiscardRunning
<1>2. /\ InState("running")' = InState("running") \ {r}
      /\ InState("waiting")' = InState("waiting") \ {r}
  BY <1>1 DEF InState, Fields
<1>3. Queues'
  BY <1>1, <1>2, ListWithout DEF Queues
<1>4. Seats'
  BY <1>1, Vacates DEF Finish
<1> QED
  BY <1>1, <1>2, <1>3, <1>4

-----------------------------------------------------------------------------
(***************************************************************************)
(* The steps of the planner.                                               *)
(***************************************************************************)
\* The chunks granted belong to different requests.
Apart == ListOf(prefill, Elements(prefill)) /\ \A d, e \in Elements(prefill) : d[1] = e[1] => d = e

LEMMA GrantedFirsts == Granted = {e[1] : e \in Elements(prefill)}
<1>1. Granted \subseteq {e[1] : e \in Elements(prefill)}
  BY Zenon DEF Granted, Elements
<1>2. {e[1] : e \in Elements(prefill)} \subseteq Granted
  BY Zenon DEF Granted, Elements
<1> QED
  BY <1>1, <1>2, Zenon

\* One more chunk, for somebody who has none.
LEMMA GrantMore ==
  ASSUME Apart, NEW r, r \notin Granted, NEW n, prefill' = Append(prefill, <<r, n>>)
  PROVE  Apart' /\ Granted' = Granted \cup {r}
<1> DEFINE E == Elements(prefill)
           g == <<r, n>>
<1>1. \A e \in E : e[1] # r
  BY GrantedFirsts, Zenon
<1>2. g \notin E /\ g[1] = r
  <2>1. g[1] = r
    OBVIOUS
  <2> QED
    BY <1>1, <2>1, Zenon
<1>3. ListOf(prefill', E \cup {g})
  <2>1. ListOf(prefill, E)
    BY DEF Apart
  <2> HIDE DEF E, g
  <2>2. ListOf(Append(prefill, g), E \cup {g})
    BY <1>2, <2>1, ListAppend, Zenon
  <2> QED
    BY <2>2, Zenon DEF g
<1>4. Elements(prefill') = E \cup {g}
  BY <1>3, Zenon DEF ListOf
<1>5. \A d, e \in E : d[1] = e[1] => d = e
  BY Zenon DEF Apart
<1> HIDE DEF g
<1>6. \A d, e \in E \cup {g} : d[1] = e[1] => d = e
  BY <1>1, <1>2, <1>5, Zenon
<1>7. Apart'
  BY <1>3, <1>4, <1>6, Zenon DEF Apart
<1>8. Granted' = {e[1] : e \in E \cup {g}}
  <2>1. Granted' = {e[1] : e \in Elements(prefill')}
    <3>1. Granted' \subseteq {e[1] : e \in Elements(prefill')}
      BY Zenon DEF Granted, Elements
    <3>2. {e[1] : e \in Elements(prefill')} \subseteq Granted'
      BY Zenon DEF Granted, Elements
    <3> QED
      BY <3>1, <3>2, Zenon
  <2> QED
    BY <1>4, <2>1, Zenon
<1>9. {e[1] : e \in E \cup {g}} = {e[1] : e \in E} \cup {r}
  BY <1>2, Zenon
<1> QED
  BY <1>7, <1>8, <1>9, GrantedFirsts, Zenon

\* Whom Stage 1 is at: a running request it has no chunk for yet.
LEMMA ResumingRuns ==
  ASSUME Queues, Locals, Walk, pc = "resume", current # NoRequest \/ ToResume # {}
  PROVE  /\ Resuming \in InState("running") /\ Resuming \notin Granted
         /\ AfterResume \in Nat \ {0} /\ cursor <= AfterResume
         /\ Behind(Resuming, AfterResume)
<1>1. /\ Len(running) \in Nat
      /\ \A i \in 1 .. Len(running) : running[i] \in InState("running")
      /\ \A i, j \in 1 .. Len(running) : running[i] = running[j] => i = j
  BY ListPlaces, Zenon DEF Queues
<1>2. /\ \A r \in Granted : Behind(r, cursor)
      /\ current # NoRequest => Behind(current, cursor) /\ current \notin Granted
      /\ cursor \in Nat \ {0}
  BY DEF Walk, Locals
<1>3. CASE current # NoRequest
  <2>1. Resuming = current /\ AfterResume = cursor
    BY <1>3 DEF Resuming, AfterResume
  <2>2. Behind(current, cursor) /\ current \notin Granted
    BY <1>2, <1>3
  <2>3. current \in InState("running")
    BY <1>1, <2>2, Zenon DEF Behind
  <2>4. cursor <= cursor
    BY <1>2
  <2> QED
    BY <1>2, <2>1, <2>2, <2>3, <2>4, Zenon
<1>4. CASE current = NoRequest
  <2> DEFINE m == Min(ToResume)
  <2>1. ToResume # {} /\ Resuming = running[m] /\ AfterResume = m + 1
    BY <1>4 DEF Resuming, AfterResume
  <2>2. \A i \in ToResume : i \in Nat /\ i \in 1 .. Len(running) /\ cursor <= i
    BY <1>1, <1>2 DEF ToResume
  <2>3. m \in ToResume
    BY <2>1, <2>2, MinIsLeast, Zenon
  <2> HIDE DEF m
  <2>4. m \in Nat /\ m \in 1 .. Len(running) /\ cursor <= m
    BY <2>2, <2>3, Zenon
  <2>5. running[m] \in InState("running")
    BY <1>1, <2>4, Zenon
  <2>6. running[m] \notin Granted
    <3> SUFFICES ASSUME running[m] \in Granted PROVE FALSE
      OBVIOUS
    <3>1. PICK i \in 1 .. Len(running) : i < cursor /\ running[i] = running[m]
      BY <1>2, Zenon DEF Behind
    <3>2. i = m
      BY <1>1, <2>4, <3>1, Zenon
    <3> QED
      BY <1>1, <1>2, <2>4, <3>1, <3>2
  <2>7. m + 1 \in Nat \ {0} /\ cursor <= m + 1 /\ m < m + 1
    BY <1>2, <2>4
  <2>8. Behind(running[m], m + 1)
    BY <2>4, <2>7, Zenon DEF Behind
  <2> QED
    BY <2>1, <2>5, <2>6, <2>7, <2>8, Zenon
<1> QED
  BY <1>3, <1>4

\* What is behind a place is behind every later one.
LEMMA BehindLater ==
  ASSUME Queues, NEW r, NEW p \in Nat, NEW q \in Nat, Behind(r, p), p <= q
  PROVE  Behind(r, q)
<1>1. Len(running) \in Nat
  BY ListPlaces, Zenon DEF Queues
<1>2. PICK i \in 1 .. Len(running) : i < p /\ running[i] = r
  BY Zenon DEF Behind
<1>3. i < q
  BY <1>1, <1>2
<1> QED
  BY <1>2, <1>3, Zenon DEF Behind

\* Between two steps nothing is planned.
LEMMA IdlePlan ==
  ASSUME pc' = "idle", current' \in Requests \cup {NoRequest}, cursor' \in Nat \ {0}
  PROVE  PlanInv'
  BY DEF PlanInv, Locals, Candidacy, Grants, Walk, Batch, BatchRuns, Emission

\* A plan starts with no chunk granted.
LEMMA BeginPlanStep ==
  ASSUME IInv, BeginPlan, UNCHANGED loopVars
  PROVE  IInv'
<1>1. /\ pc' = "resume" /\ cursor' = 1 /\ current' = NoRequest /\ prefill' = <<>>
      /\ UNCHANGED coreVars
  BY DEF BeginPlan, reqVars, coreVars, loopVars
<1>2. Places'
  BY <1>1, SamePlaces DEF IInv
<1>3. Elements(prefill') = {} /\ Granted' = {}
  <2>1. 1 .. Len(prefill') = {}
    BY <1>1
  <2> QED
    BY <2>1, Zenon DEF Elements, Granted
<1>4. Locals'
  BY <1>1 DEF Locals
<1>5. Grants' /\ Walk'
  BY <1>1, <1>3, ListEmpty DEF Grants, Walk
<1>6. Candidacy' /\ Batch' /\ BatchRuns' /\ Emission'
  BY <1>1 DEF Candidacy, Batch, BatchRuns, Emission
<1> QED
  BY <1>2, <1>4, <1>5, <1>6 DEF IInv, PlanInv

LEMMA ResumeGrantStep ==
  ASSUME IInv, ResumeGrant, UNCHANGED loopVars
  PROVE  IInv'
<1> DEFINE r == Resuming
<1>1. /\ pc = "resume" /\ pc' = "resume" /\ cursor' = AfterResume /\ current' = NoRequest
      /\ current # NoRequest \/ ToResume # {}
      /\ prefill' = Append(prefill, <<r, ResumeReach(r) - num_computed[r]>>)
      /\ UNCHANGED coreVars
  BY DEF ResumeGrant, coreVars, loopVars
<1>2. Places'
  BY <1>1, SamePlaces DEF IInv
<1>3. /\ r \in InState("running") /\ r \notin Granted
      /\ AfterResume \in Nat \ {0} /\ cursor <= AfterResume
      /\ Behind(r, AfterResume)
  BY <1>1, ResumingRuns DEF IInv, Places, PlanInv
<1> HIDE DEF r
<1>4. Apart /\ Granted \subseteq InState("running")
  BY <1>1 DEF IInv, PlanInv, Grants, Apart
<1>5. Apart' /\ Granted' = Granted \cup {r}
  BY <1>1, <1>3, <1>4, GrantMore, Zenon
<1>6. InState("running")' = InState("running")
  BY <1>1 DEF InState, coreVars
<1>7. Locals'
  BY <1>1, <1>3 DEF Locals
<1>8. Grants'
  <2>1. Granted' \subseteq InState("running")'
    BY <1>3, <1>4, <1>5, <1>6, Zenon
  <2> QED
    BY <1>5, <2>1, Zenon DEF Grants, Apart
<1>9. \A g \in Granted' : Behind(g, cursor)'
  <2> SUFFICES ASSUME NEW g \in Granted'
               PROVE  Behind(g, AfterResume)
    BY <1>1, Zenon DEF Behind, coreVars
  <2>1. CASE g = r
    BY <1>3, <2>1
  <2>2. CASE g # r
    <3>1. Behind(g, cursor) /\ cursor \in Nat
      BY <1>1, <1>5, <2>2 DEF IInv, PlanInv, Walk, Locals
    <3>2. AfterResume \in Nat
      BY <1>3
    <3> QED
      BY <1>3, <3>1, <3>2, BehindLater DEF IInv, Places
  <2> QED
    BY <2>1, <2>2
<1>10. Walk'
  BY <1>1, <1>9, Zenon DEF Walk
<1>11. Candidacy' /\ Batch' /\ BatchRuns' /\ Emission'
  BY <1>1 DEF Candidacy, Batch, BatchRuns, Emission
<1> QED
  BY <1>2, <1>7, <1>8, <1>10, <1>11 DEF IInv, PlanInv

LEMMA ResumeEvictStep ==
  ASSUME IInv, ResumeEvict, UNCHANGED loopVars
  PROVE  IInv'
<1> DEFINE r == Resuming
           v == Victim(Granted \cup {r})
<1>1. /\ pc = "resume" /\ pc' = "resume" /\ cursor' = AfterResume /\ current' = r
      /\ current # NoRequest \/ ToResume # {}
      /\ v # NoRequest /\ Preempt(cache, v)
      /\ prefill' = prefill /\ asked' = asked
  BY DEF ResumeEvict, loopVars
<1>2. /\ r \in InState("running") /\ r \notin Granted
      /\ AfterResume \in Nat \ {0} /\ cursor <= AfterResume
      /\ Behind(r, AfterResume)
  BY <1>1, ResumingRuns DEF IInv, Places, PlanInv
<1>3. v \in InState("running") /\ v \notin Granted /\ v # r
  <2>1. Queues
    BY DEF IInv, Places
  <2>2. v \in InState("running") /\ v \notin Granted \cup {r}
    BY <1>1, <2>1, VictimRuns, Zenon
  <2> QED
    BY <2>2, Zenon
<1> HIDE DEF r, v
<1>4. /\ Places'
      /\ InState("running")' = InState("running") \ {v}
      /\ \A q, place : Behind(q, place) /\ place \in Nat /\ q # v => Behind(q, place)'
  BY <1>1, <1>3, PreemptPlaces, Zenon DEF IInv
<1>5. Granted' = Granted /\ Elements(prefill') = Elements(prefill)
  BY <1>1, Zenon DEF Granted, Elements
<1>6. Locals'
  BY <1>1, <1>2 DEF Locals, InState
<1>7. Grants'
  <2>1. Apart /\ Granted \subseteq InState("running")
    BY <1>1 DEF IInv, PlanInv, Grants, Apart
  <2>2. Granted' \subseteq InState("running")'
    BY <1>3, <1>4, <1>5, <2>1, Zenon
  <2> QED
    BY <1>1, <1>5, <2>1, <2>2, Zenon DEF Grants, Apart
<1>8. \A g \in Granted \cup {r} : \E i \in 1 .. Len(running') : i < AfterResume /\ running'[i] = g
  <2> TAKE g \in Granted \cup {r}
  <2>1. g # v
    BY <1>3, Zenon
  <2>2. cursor \in Nat /\ AfterResume \in Nat
    BY <1>2 DEF IInv, PlanInv, Locals
  <2>3. Behind(g, AfterResume)
    <3>1. CASE g = r
      BY <1>2, <3>1
    <3>2. CASE g # r
      <4>1. Behind(g, cursor)
        BY <1>1, <3>2 DEF IInv, PlanInv, Walk
      <4> QED
        BY <1>2, <2>2, <4>1, BehindLater DEF IInv, Places
    <3> QED
      BY <3>1, <3>2
  <2>4. PICK place : place = AfterResume
    BY Zenon
  <2>5. Behind(g, place)'
    BY <1>4, <2>1, <2>2, <2>3, <2>4, Zenon
  <2> QED
    BY <2>4, <2>5, Zenon DEF Behind
<1>9. Walk'
  <2>1. \A g \in Granted \cup {r} : Behind(g, cursor)'
    BY <1>1, <1>8, Zenon DEF Behind
  <2>2. Behind(current, cursor)'
    BY <1>1, <1>8, Zenon DEF Behind
  <2> QED
    BY <1>1, <1>2, <1>5, <2>1, <2>2, Zenon DEF Walk
<1>10. Candidacy' /\ Batch' /\ BatchRuns' /\ Emission'
  BY <1>1 DEF Candidacy, Batch, BatchRuns, Emission
<1> QED
  BY <1>4, <1>6, <1>7, <1>9, <1>10 DEF IInv, PlanInv

LEMMA ResumeStallStep ==
  ASSUME IInv, ResumeStall, UNCHANGED loopVars
  PROVE  IInv'
<1>1. /\ pc = "resume" /\ pc' = "resume" /\ cursor' = AfterResume /\ current' = NoRequest
      /\ current # NoRequest \/ ToResume # {}
      /\ prefill' = prefill
      /\ UNCHANGED coreVars
  BY DEF ResumeStall, coreVars, loopVars, queueVars
<1>2. Places'
  BY <1>1, SamePlaces DEF IInv
<1>3. AfterResume \in Nat \ {0} /\ cursor <= AfterResume
  BY <1>1, ResumingRuns DEF IInv, Places, PlanInv
<1>4. Granted' = Granted /\ InState("running")' = InState("running")
  BY <1>1, Zenon DEF Granted, InState, coreVars
<1>5. Locals'
  BY <1>1, <1>3 DEF Locals
<1>6. Grants'
  BY <1>1, <1>4, Zenon DEF IInv, PlanInv, Grants
<1>7. \A g \in Granted' : Behind(g, cursor)'
  <2> SUFFICES ASSUME NEW g \in Granted
               PROVE  Behind(g, AfterResume)
    BY <1>1, <1>4, Zenon DEF Behind, coreVars
  <2>1. Behind(g, cursor) /\ cursor \in Nat /\ AfterResume \in Nat
    BY <1>1, <1>3 DEF IInv, PlanInv, Walk, Locals
  <2> QED
    BY <1>3, <2>1, BehindLater DEF IInv, Places
<1>8. Walk'
  BY <1>1, <1>7, Zenon DEF Walk
<1>9. Candidacy' /\ Batch' /\ BatchRuns' /\ Emission'
  BY <1>1 DEF Candidacy, Batch, BatchRuns, Emission
<1> QED
  BY <1>2, <1>5, <1>6, <1>8, <1>9 DEF IInv, PlanInv

LEMMA EndResumeStep ==
  ASSUME IInv, EndResume, UNCHANGED loopVars
  PROVE  IInv'
<1>1. /\ pc = "resume" /\ pc' \in {"batch", "admit"} /\ current = NoRequest
      /\ UNCHANGED <<current, cursor, prefill>>
      /\ UNCHANGED coreVars
  BY DEF EndResume, coreVars, loopVars, reqVars
<1>2. Places'
  BY <1>1, SamePlaces DEF IInv
<1>3. Granted' = Granted /\ InState("running")' = InState("running")
  BY <1>1, Zenon DEF Granted, InState, coreVars
<1>4. Locals'
  BY <1>1 DEF IInv, PlanInv, Locals
<1>5. Grants'
  BY <1>1, <1>3 DEF IInv, PlanInv, Grants
<1>6. Candidacy' /\ Walk' /\ Batch' /\ BatchRuns' /\ Emission'
  BY <1>1 DEF Candidacy, Walk, Batch, BatchRuns, Emission
<1> QED
  BY <1>2, <1>4, <1>5, <1>6 DEF IInv, PlanInv

\* Whom admission is at: a waiting request.
LEMMA CandidateWaits ==
  ASSUME Queues, Locals, Candidacy, pc = "admit", waiting # <<>>
  PROVE  Candidate \in InState("waiting")
<1>1. CASE current # NoRequest
  <2>1. Candidate = current /\ current \in Requests /\ status[current] = "waiting"
    BY <1>1 DEF Candidate, Locals, Candidacy
  <2> QED
    BY <2>1, Zenon DEF InState
<1>2. CASE current = NoRequest
  <2>1. Candidate = Head(waiting)
    BY <1>2 DEF Candidate
  <2> QED
    BY <2>1, ListTail, Zenon DEF Queues
<1> QED
  BY <1>1, <1>2

\* An admitted request gets a slot of the free list.
LEMMA Occupies ==
  ASSUME Seats, Fields, NEW r \in InState("waiting"), free_slots # <<>>,
         status' = [status EXCEPT ![r] = "running"],
         slot' = [slot EXCEPT ![r] = Last(free_slots)],
         free_slots' = Front(free_slots)
  PROVE  Seats'
<1> DEFINE Taken  == {slot[q] : q \in Requests}
           Taken2 == {slot'[q] : q \in Requests}
           l      == Last(free_slots)
<1>1. NoSlot \notin Slots
  BY SlotsAreNumbered
<1>2. r \in Requests /\ status[r] = "waiting" /\ slot[r] = NoSlot
  BY DEF InState, Seats
<1>3. l \in Slots \ Taken /\ ListOf(free_slots', (Slots \ Taken) \ {l})
  BY ListFront, Zenon DEF Seats
<1> HIDE DEF l
<1>4. l # NoSlot /\ l \in Slots /\ \A q \in Requests : slot[q] # l
  BY <1>1, <1>3, Zenon
<1>5. slot' = [slot EXCEPT ![r] = l]
  BY DEF l
<1>6. /\ slot' \in [Requests -> Slots \cup {NoSlot}]
      /\ \A q \in Requests : slot'[q] # NoSlot <=> status'[q] = "running"
      /\ \A p, q \in Requests : slot'[p] = slot'[q] /\ slot'[p] # NoSlot => p = q
  BY <1>2, <1>4, <1>5 DEF Seats, Fields
<1>7. ASSUME NEW x \in Slots
      PROVE  x \in Taken2 <=> x \in Taken \/ x = l
  <2>1. ASSUME x \in Taken2
        PROVE  x \in Taken \/ x = l
    <3>1. PICK q \in Requests : x = slot'[q]
      BY <2>1, Zenon
    <3>2. slot[q] = x \/ x = l
      BY <1>5, <3>1 DEF Seats
    <3> QED
      BY <3>2, Zenon
  <2>2. ASSUME x \in Taken
        PROVE  x \in Taken2
    <3>1. PICK q \in Requests : x = slot[q]
      BY <2>2, Zenon
    <3>2. q # r /\ slot'[q] = x
      BY <1>1, <1>2, <1>5, <3>1 DEF Seats
    <3> QED
      BY <3>2, Zenon
  <2>3. ASSUME x = l
        PROVE  x \in Taken2
    <3>1. slot'[r] = x
      BY <1>2, <1>5, <2>3 DEF Seats
    <3> QED
      BY <1>2, <3>1, Zenon
  <2> QED
    BY <2>1, <2>2, <2>3
<1> HIDE DEF Taken, Taken2
<1>8. Slots \ Taken2 = (Slots \ Taken) \ {l}
  BY <1>7
<1> QED
  BY <1>3, <1>6, <1>8, Zenon DEF Seats, Taken2

LEMMA AdmitStopStep ==
  ASSUME IInv, AdmitStop, UNCHANGED loopVars
  PROVE  IInv'
<1>1. /\ pc = "admit" /\ pc' = "batch"
      /\ UNCHANGED <<current, cursor, prefill>>
      /\ UNCHANGED coreVars
  BY DEF AdmitStop, coreVars, loopVars, reqVars
<1>2. Places'
  BY <1>1, SamePlaces DEF IInv
<1>3. Granted' = Granted /\ InState("running")' = InState("running")
  BY <1>1, Zenon DEF Granted, InState, coreVars
<1>4. Locals'
  BY <1>1 DEF IInv, PlanInv, Locals
<1>5. Grants'
  BY <1>1, <1>3 DEF IInv, PlanInv, Grants
<1>6. Candidacy' /\ Walk' /\ Batch' /\ BatchRuns' /\ Emission'
  BY <1>1 DEF Candidacy, Walk, Batch, BatchRuns, Emission
<1> QED
  BY <1>2, <1>4, <1>5, <1>6 DEF IInv, PlanInv

\* Evicting somebody outside the granted chunks leaves them alone.
LEMMA EvictionKeepsGrants ==
  ASSUME Apart, Granted \subseteq InState("running"), NEW v, v \notin Granted,
         InState("running")' = InState("running") \ {v}, prefill' = prefill
  PROVE  Apart' /\ Granted' = Granted /\ Granted' \subseteq InState("running")'
<1>1. Granted' = Granted /\ Elements(prefill') = Elements(prefill)
  BY Zenon DEF Granted, Elements
<1>2. Apart'
  BY <1>1, Zenon DEF Apart
<1> QED
  BY <1>1, <1>2, Zenon

LEMMA AdmitEvictStep ==
  ASSUME IInv, AdmitEvict, UNCHANGED loopVars
  PROVE  IInv'
<1> DEFINE v == PolicyVictim
           r == Candidate
<1>1. /\ pc = "admit" /\ pc' = "admit" /\ current' = r /\ waiting # <<>>
      /\ v # NoRequest /\ Preempt(Tracked(r), v)
      /\ prefill' = prefill /\ cursor' = cursor /\ asked' = asked
  BY DEF AdmitEvict, loopVars
<1>2. r \in InState("waiting")
  BY <1>1, CandidateWaits DEF IInv, Places, PlanInv
<1>3. v \in InState("running") /\ v \notin Granted
  <2>1. v = Victim(Granted)
    BY <1>1 DEF PolicyVictim
  <2> QED
    BY <1>1, <2>1, VictimRuns DEF IInv, Places
<1> HIDE DEF r, v
<1>4. /\ Places'
      /\ InState("running")' = InState("running") \ {v}
      /\ InState("waiting")' = InState("waiting") \cup {v}
  BY <1>1, <1>3, PreemptPlaces, Zenon DEF IInv
<1>5. Apart /\ Granted \subseteq InState("running")
  BY <1>1 DEF IInv, PlanInv, Grants, Apart
<1>6. Apart' /\ Granted' \subseteq InState("running")'
  BY <1>1, <1>3, <1>4, <1>5, EvictionKeepsGrants
<1>7. Locals'
  BY <1>1, <1>2 DEF IInv, PlanInv, Locals, InState
<1>8. Grants'
  BY <1>6 DEF Grants, Apart
<1>9. Candidacy'
  <2>1. r \in InState("waiting")'
    BY <1>2, <1>4, Zenon
  <2> QED
    BY <1>1, <2>1 DEF Candidacy, InState
<1>10. Walk' /\ Batch' /\ BatchRuns' /\ Emission'
  BY <1>1 DEF Walk, Batch, BatchRuns, Emission
<1> QED
  BY <1>4, <1>7, <1>8, <1>9, <1>10 DEF IInv, PlanInv

LEMMA AdmitRefuseStep ==
  ASSUME IInv, AdmitRefuse, UNCHANGED loopVars
  PROVE  IInv'
<1> DEFINE v == PolicyVictim
<1>1. /\ pc = "admit" /\ pc' = "batch" /\ current' = NoRequest
      /\ prefill' = prefill /\ cursor' = cursor /\ asked' = asked
      /\ \/ UNCHANGED <<reqVars, waiting, running, free_slots>>
         \/ v # NoRequest /\ \E c : Preempt(c, v)
  BY DEF AdmitRefuse, Admissible, loopVars
<1>2. Apart /\ Granted \subseteq InState("running")
  BY <1>1 DEF IInv, PlanInv, Grants, Apart
<1>3. Places' /\ Apart' /\ Granted' \subseteq InState("running")'
  <2>1. CASE UNCHANGED <<reqVars, waiting, running, free_slots>>
    <3>1. UNCHANGED coreVars
      BY <1>1, <2>1 DEF coreVars, reqVars
    <3>2. Granted' = Granted /\ InState("running")' = InState("running") /\ Apart'
      BY <1>1, <1>2, <3>1, Zenon DEF Granted, InState, coreVars, Apart
    <3> QED
      BY <1>2, <3>1, <3>2, SamePlaces DEF IInv
  <2>2. CASE v # NoRequest /\ \E c : Preempt(c, v)
    <3>1. v \in InState("running") /\ v \notin Granted
      <4>1. v = Victim(Granted)
        BY <2>2 DEF PolicyVictim
      <4> QED
        BY <2>2, <4>1, VictimRuns DEF IInv, Places
    <3>2. PICK c : Preempt(c, v)
      BY <2>2
    <3> HIDE DEF v
    <3>3. Places' /\ InState("running")' = InState("running") \ {v}
      BY <1>1, <3>1, <3>2, PreemptPlaces, Zenon DEF IInv
    <3> QED
      BY <1>1, <1>2, <3>1, <3>3, EvictionKeepsGrants
  <2> QED
    BY <1>1, <2>1, <2>2
<1>4. Locals'
  BY <1>1 DEF IInv, PlanInv, Locals
<1>5. Grants'
  BY <1>3 DEF Grants, Apart
<1>6. Candidacy' /\ Walk' /\ Batch' /\ BatchRuns' /\ Emission'
  BY <1>1 DEF Candidacy, Walk, Batch, BatchRuns, Emission
<1> QED
  BY <1>3, <1>4, <1>5, <1>6 DEF IInv, PlanInv

LEMMA AdmitGrantStep ==
  ASSUME IInv, AdmitGrant, UNCHANGED loopVars
  PROVE  IInv'
<1> DEFINE r == Candidate
<1>1. /\ pc = "admit" /\ pc' \in {"batch", "admit"} /\ current' = NoRequest
      /\ cursor' = cursor /\ waiting # <<>> /\ free_slots # <<>>
      /\ waiting' = Without(waiting, r)
      /\ slot' = [slot EXCEPT ![r] = Last(free_slots)]
      /\ free_slots' = Front(free_slots)
      /\ status' = [status EXCEPT ![r] = "running"]
      /\ running' = Append(running, r)
      /\ \E chunk : prefill' = Append(prefill, <<r, chunk>>)
      /\ UNCHANGED <<prompt, output, max_new_tokens, asked>>
  BY DEF AdmitGrant, Admissible, loopVars
<1>2. r \in InState("waiting")
  BY <1>1, CandidateWaits DEF IInv, Places, PlanInv
<1> HIDE DEF r
<1>3. Apart /\ Granted \subseteq InState("running")
  BY <1>1 DEF IInv, PlanInv, Grants, Apart
<1>4. r \in Requests /\ status[r] = "waiting" /\ r \notin InState("running") /\ r \notin Granted
  BY <1>2, <1>3 DEF InState
<1>5. PICK chunk : prefill' = Append(prefill, <<r, chunk>>)
  BY <1>1
<1>6. Apart' /\ Granted' = Granted \cup {r}
  BY <1>3, <1>4, <1>5, GrantMore, Zenon
<1>7. Fields /\ Queues /\ Seats /\ Allowances
  BY DEF IInv, Places
<1>8. Fields'
  BY <1>1, <1>7 DEF Fields
<1>9. InState("running")' = InState("running") \cup {r}
      /\ InState("waiting")' = InState("waiting") \ {r}
  BY <1>1, <1>4, <1>7 DEF InState, Fields
<1>10. Queues'
  <2>1. ListOf(Without(waiting, r), InState("waiting") \ {r})
    BY <1>7, ListWithout, Zenon DEF Queues
  <2>2. ListOf(Append(running, r), InState("running") \cup {r})
    BY <1>4, <1>7, ListAppend, Zenon DEF Queues
  <2> QED
    BY <1>1, <1>9, <2>1, <2>2, Zenon DEF Queues
<1>11. Seats'
  BY <1>1, <1>2, <1>7, Occupies, Zenon
<1>12. Allowances'
  <2> SUFFICES ASSUME NEW q \in Requests
               PROVE  Allowance(q)'
    BY DEF Allowances
  <2>1. Allowance(q)
    BY <1>7 DEF Allowances
  <2>2. /\ status'[q] \in {"waiting", "running"} => status[q] \in {"waiting", "running"}
        /\ status'[q] = "new" => status[q] = "new"
    BY <1>1, <1>4, <1>7 DEF Fields
  <2> QED
    BY <1>1, <2>1, <2>2, Zenon DEF Allowance
<1>13. Locals'
  BY <1>1 DEF IInv, PlanInv, Locals
<1>14. Grants'
  <2>1. Granted' \subseteq InState("running")'
    BY <1>3, <1>6, <1>9, Zenon
  <2> QED
    BY <1>6, <2>1, Zenon DEF Grants, Apart
<1>15. Candidacy' /\ Walk' /\ Batch' /\ BatchRuns' /\ Emission'
  BY <1>1 DEF Candidacy, Walk, Batch, BatchRuns, Emission
<1> QED
  BY <1>8, <1>10, <1>11, <1>12, <1>13, <1>14, <1>15 DEF IInv, Places, PlanInv

LEMMA FormDecodeStep ==
  ASSUME IInv, FormDecode, UNCHANGED loopVars
  PROVE  IInv'
<1> DEFINE K == {i \in 1 .. Len(running) : PrefillDone(running[i]) /\ running[i] \notin Granted}
<1>1. /\ pc = "batch" /\ pc' = "grow" /\ cursor' = 1 /\ current' = current /\ prefill' = prefill
      /\ decode' = ElementsAt(running, K)
      /\ UNCHANGED coreVars
  BY DEF FormDecode, coreVars, loopVars, reqVars, queueVars
<1>2. Places'
  BY <1>1, SamePlaces DEF IInv
<1>3. Granted' = Granted /\ InState("running")' = InState("running")
  BY <1>1, Zenon DEF Granted, InState, coreVars
<1>4. Locals'
  BY <1>1 DEF IInv, PlanInv, Locals
<1>5. Grants'
  BY <1>1, <1>3 DEF IInv, PlanInv, Grants
<1>6. ListOf(running, InState("running"))
  BY DEF IInv, Places, Queues
<1>7. ListOf(decode', {running[p] : p \in K})
  <2>1. K \subseteq 1 .. Len(running)
    BY Zenon
  <2> HIDE DEF K
  <2> QED
    BY <1>1, <1>6, <2>1, ListAt, Zenon
<1>8. Elements(decode') = {running[p] : p \in K}
  BY <1>7, Zenon DEF ListOf
<1>9. \A p \in K : running[p] \in Requests /\ running[p] \notin Granted
  <2>1. \A p \in 1 .. Len(running) : running[p] \in InState("running")
    BY <1>6, ListPlaces, Zenon
  <2> QED
    BY <2>1, Zenon DEF InState
<1> HIDE DEF K
<1>10. Elements(decode') \subseteq Requests /\ Elements(decode') \cap Granted = {}
  BY <1>8, <1>9, Zenon
<1>11. Batch'
  BY <1>3, <1>7, <1>8, <1>10, Zenon DEF Batch
<1>12. Candidacy' /\ Walk' /\ BatchRuns' /\ Emission'
  BY <1>1 DEF Candidacy, Walk, BatchRuns, Emission
<1> QED
  BY <1>2, <1>4, <1>5, <1>11, <1>12 DEF IInv, PlanInv

\* Whom Stage 3 is at: a running request of the batch.
LEMMA GrowingRuns ==
  ASSUME Locals, Batch, pc = "grow", ToGrow # {}
  PROVE  /\ Growing \in Elements(decode) /\ Growing \in InState("running")
         /\ Min(ToGrow) \in Nat
<1>1. ListOf(decode, Elements(decode)) /\ Elements(decode) \subseteq Requests /\ cursor \in Nat \ {0}
  BY DEF Batch, Locals
<1>2. Len(decode) \in Nat /\ \A i \in 1 .. Len(decode) : decode[i] \in Elements(decode)
  BY <1>1, ListPlaces, Zenon
<1>3. \A i \in ToGrow : i \in Nat /\ i \in 1 .. Len(decode) /\ status[decode[i]] = "running"
  BY <1>1, <1>2 DEF ToGrow
<1>4. Min(ToGrow) \in ToGrow
  BY <1>3, MinIsLeast, Zenon
<1>5. Min(ToGrow) \in Nat /\ Growing \in Elements(decode) /\ status[Growing] = "running"
  BY <1>2, <1>3, <1>4, Zenon DEF Growing
<1> QED
  BY <1>1, <1>5, Zenon DEF InState

LEMMA GrowGrantStep ==
  ASSUME IInv, GrowGrant, UNCHANGED loopVars
  PROVE  IInv'
<1>1. /\ pc = "grow" /\ pc' = "grow" /\ ToGrow # {} /\ cursor' = Min(ToGrow) + 1
      /\ UNCHANGED <<current, prefill, decode>>
      /\ UNCHANGED coreVars
  BY DEF GrowGrant, coreVars, loopVars
<1>2. Places'
  BY <1>1, SamePlaces DEF IInv
<1>3. Granted' = Granted /\ InState("running")' = InState("running")
  BY <1>1, Zenon DEF Granted, InState, coreVars
<1>4. Min(ToGrow) \in Nat
  BY <1>1, GrowingRuns DEF IInv, PlanInv
<1>5. Locals'
  BY <1>1, <1>4 DEF IInv, PlanInv, Locals
<1>6. Grants'
  BY <1>1, <1>3 DEF IInv, PlanInv, Grants
<1>7. Batch'
  BY <1>1, <1>3, Zenon DEF IInv, PlanInv, Batch
<1>8. Candidacy' /\ Walk' /\ BatchRuns' /\ Emission'
  BY <1>1 DEF Candidacy, Walk, BatchRuns, Emission
<1> QED
  BY <1>2, <1>5, <1>6, <1>7, <1>8 DEF IInv, PlanInv

LEMMA GrowEvictStep ==
  ASSUME IInv, GrowEvict, UNCHANGED loopVars
  PROVE  IInv'
<1> DEFINE v == IF Victim(GrowProtects(Growing)) # NoRequest
                THEN Victim(GrowProtects(Growing)) ELSE Growing
<1>1. /\ pc = "grow" /\ pc' = "grow" /\ ToGrow # {}
      /\ Preempt(cache, v)
      /\ UNCHANGED <<current, cursor, prefill, decode, asked>>
  BY DEF GrowEvict, loopVars
<1>2. Apart /\ Granted \subseteq InState("running")
  BY <1>1 DEF IInv, PlanInv, Grants, Apart
<1>3. /\ ListOf(decode, Elements(decode)) /\ Elements(decode) \subseteq Requests
      /\ Elements(decode) \cap Granted = {}
  BY <1>1 DEF IInv, PlanInv, Batch
<1>4. v \in InState("running") /\ v \notin Granted
  <2>1. CASE Victim(GrowProtects(Growing)) # NoRequest
    <3>1. v \in InState("running") /\ v \notin GrowProtects(Growing)
      BY <2>1, VictimRuns DEF IInv, Places
    <3> QED
      BY <3>1, Zenon DEF GrowProtects
  <2>2. CASE Victim(GrowProtects(Growing)) = NoRequest
    <3>1. v = Growing
      BY <2>2
    <3>2. Growing \in Elements(decode) /\ Growing \in InState("running")
      BY <1>1, GrowingRuns DEF IInv, PlanInv
    <3> QED
      BY <1>3, <3>1, <3>2, Zenon
  <2> QED
    BY <2>1, <2>2
<1> HIDE DEF v
<1>5. Places' /\ InState("running")' = InState("running") \ {v}
  BY <1>1, <1>4, PreemptPlaces, Zenon DEF IInv
<1>6. Apart' /\ Granted' = Granted /\ Granted' \subseteq InState("running")'
  BY <1>1, <1>2, <1>4, <1>5, EvictionKeepsGrants
<1>7. Locals'
  BY <1>1 DEF IInv, PlanInv, Locals
<1>8. Grants'
  BY <1>6 DEF Grants, Apart
<1>9. Batch'
  BY <1>1, <1>3, <1>6, Zenon DEF Batch
<1>10. Candidacy' /\ Walk' /\ BatchRuns' /\ Emission'
  BY <1>1 DEF Candidacy, Walk, BatchRuns, Emission
<1> QED
  BY <1>5, <1>7, <1>8, <1>9, <1>10 DEF IInv, PlanInv

LEMMA EndPlanStep ==
  ASSUME IInv, EndPlan, UNCHANGED loopVars
  PROVE  IInv'
<1> DEFINE K == {i \in 1 .. Len(decode) : status[decode[i]] = "running"}
<1>1. /\ pc = "grow" /\ pc' = "execute"
      /\ UNCHANGED <<current, cursor, prefill>>
      /\ decode' = ElementsAt(decode, K)
      /\ UNCHANGED coreVars
  BY DEF EndPlan, coreVars, loopVars, reqVars, queueVars
<1>2. Places'
  BY <1>1, SamePlaces DEF IInv
<1>3. Granted' = Granted /\ InState("running")' = InState("running")
  BY <1>1, Zenon DEF Granted, InState, coreVars
<1>4. Locals'
  BY <1>1 DEF IInv, PlanInv, Locals
<1>5. Grants'
  BY <1>1, <1>3 DEF IInv, PlanInv, Grants
<1>6. /\ ListOf(decode, Elements(decode)) /\ Elements(decode) \subseteq Requests
      /\ Elements(decode) \cap Granted = {}
  BY <1>1 DEF IInv, PlanInv, Batch
<1>7. ListOf(decode', {decode[p] : p \in K})
  <2>1. K \subseteq 1 .. Len(decode)
    BY Zenon
  <2> HIDE DEF K
  <2> QED
    BY <1>1, <1>6, <2>1, ListAt, Zenon
<1>8. Elements(decode') = {decode[p] : p \in K}
  BY <1>7, Zenon DEF ListOf
<1>9. \A p \in K : decode[p] \in Elements(decode) /\ decode[p] \in InState("running")
  <2>1. \A p \in 1 .. Len(decode) : decode[p] \in Elements(decode)
    BY <1>6, ListPlaces, Zenon
  <2> QED
    BY <1>6, <2>1, Zenon DEF InState
<1> HIDE DEF K
<1>10. Elements(decode') \subseteq Elements(decode) /\ Elements(decode') \subseteq InState("running")
  BY <1>8, <1>9, Zenon
<1>11. Elements(decode') \subseteq Requests /\ Elements(decode') \cap Granted = {}
  BY <1>6, <1>10, Zenon
<1>12. Batch'
  BY <1>3, <1>7, <1>8, <1>11, Zenon DEF Batch
<1>13. BatchRuns'
  BY <1>3, <1>10, Zenon DEF BatchRuns
<1>14. Candidacy' /\ Walk' /\ Emission'
  BY <1>1 DEF Candidacy, Walk, Emission
<1> QED
  BY <1>2, <1>4, <1>5, <1>12, <1>13, <1>14 DEF IInv, PlanInv

-----------------------------------------------------------------------------
(***************************************************************************)
(* The steps of the scheduler.                                             *)
(***************************************************************************)
LEMMA SubmitStep ==
  ASSUME IInv, NEW r \in Requests, NEW p \in Prompts, Submit(r, p)
  PROVE  IInv'
<1> DEFINE cap == Cap(Len(p))
<1>1. /\ pc = "idle" /\ pc' = "idle" /\ current' = current /\ cursor' = cursor
      /\ status[r] = "new" /\ MaxSeqLen - Len(p) > 0
      /\ status' = [status EXCEPT ![r] = "waiting"]
      /\ prompt' = [prompt EXCEPT ![r] = p]
      /\ max_new_tokens' = [max_new_tokens EXCEPT ![r] = cap]
      /\ asked' = [asked EXCEPT ![r] = Len(p)]
      /\ waiting' = Append(waiting, r)
      /\ UNCHANGED <<output, slot, running, free_slots>>
  BY DEF Submit, AddRequest, planVars, Cap
<1>2. Fields /\ Queues /\ Seats /\ Allowances /\ Locals
  BY DEF IInv, Places, PlanInv
<1>3. p \in Seq(Token) /\ Len(p) \in Nat /\ MaxSeqLen \in Nat /\ MaxGenLen \in Nat
  BY PlannerAssumption DEF Token
<1>4. cap \in Int /\ cap > 0
  BY <1>1, <1>3 DEF Cap, Smaller
<1> HIDE DEF cap
<1>5. Fields'
  BY <1>1, <1>2, <1>3, <1>4 DEF Fields
<1>6. /\ InState("running")' = InState("running")
      /\ InState("waiting")' = InState("waiting") \cup {r}
      /\ r \notin InState("waiting")
  BY <1>1, <1>2 DEF InState, Fields
<1>7. Queues'
  <2>1. ListOf(Append(waiting, r), InState("waiting") \cup {r})
    BY <1>2, <1>6, ListAppend, Zenon DEF Queues
  <2> QED
    BY <1>1, <1>2, <1>6, <2>1, Zenon DEF Queues
<1>8. Seats'
  <2>1. \A q \in Requests : status'[q] = "running" <=> status[q] = "running"
    BY <1>1, <1>2 DEF Fields
  <2> QED
    BY <1>1, <1>2, <2>1, Zenon DEF Seats
<1>9. Allowances'
  <2> SUFFICES ASSUME NEW q \in Requests
               PROVE  Allowance(q)'
    BY DEF Allowances
  <2>1. Allowance(q)
    BY <1>2 DEF Allowances
  <2>2. CASE q # r
    <3>1. /\ status'[q] = status[q] /\ prompt'[q] = prompt[q] /\ output'[q] = output[q]
          /\ max_new_tokens'[q] = max_new_tokens[q] /\ asked'[q] = asked[q]
      BY <1>1, <1>2, <2>2 DEF Fields
    <3> QED
      BY <2>1, <3>1, Zenon DEF Allowance
  <2>3. CASE q = r
    <3>1. /\ status'[q] = "waiting" /\ prompt'[q] = p /\ output'[q] = <<>>
          /\ max_new_tokens'[q] = cap /\ asked'[q] = Len(p)
      BY <1>1, <1>2, <2>1, <2>3 DEF Fields, Allowance
    <3>2. Len(p) <= Len(p) /\ Len(p) - Len(p) + cap <= cap
      BY <1>3, <1>4
    <3>3. Len(output'[q]) <= cap /\ Len(output'[q]) < cap
      BY <1>4, <3>1
    <3> QED
      BY <3>1, <3>2, <3>3 DEF Allowance, cap
  <2> QED
    BY <2>2, <2>3
<1>10. PlanInv'
  BY <1>1, <1>2, IdlePlan DEF Locals
<1> QED
  BY <1>5, <1>7, <1>8, <1>9, <1>10 DEF IInv, Places

\* A request that ends, its output as it was or one token longer.
LEMMA FinishAllowances ==
  ASSUME Fields, Allowances, NEW r \in Requests, status' = [status EXCEPT ![r] = "finished"],
         UNCHANGED <<prompt, max_new_tokens, asked>>,
         output' \in [Requests -> Seq(Token)],
         \A q \in Requests : q # r => output'[q] = output[q],
         Len(output'[r]) <= max_new_tokens[r]
  PROVE  Fields' /\ Allowances'
<1>1. Fields'
  BY DEF Fields
<1>2. Allowances'
  <2> SUFFICES ASSUME NEW q \in Requests
               PROVE  Allowance(q)'
    BY DEF Allowances
  <2>1. Allowance(q)
    BY DEF Allowances
  <2>2. CASE q # r
    <3>1. status'[q] = status[q] /\ output'[q] = output[q]
      BY <2>2 DEF Fields
    <3> QED
      BY <2>1, <3>1, Zenon DEF Allowance
  <2>3. CASE q = r
    <3>1. status'[q] = "finished"
      BY <2>3 DEF Fields
    <3>2. Len(output'[q]) <= max_new_tokens'[q]
      BY <2>3
    <3>3. status'[q] # "new" /\ status'[q] \notin {"waiting", "running"}
      BY <3>1
    <3> QED
      BY <2>1, <3>2, <3>3, Zenon DEF Allowance
  <2> QED
    BY <2>2, <2>3
<1> QED
  BY <1>1, <1>2

LEMMA AbortStep ==
  ASSUME IInv, NEW r \in Requests, AbortRequest(r)
  PROVE  IInv'
<1>1. /\ pc = "idle" /\ pc' = "idle" /\ current' = current /\ cursor' = cursor
      /\ Finish(r, prompt[r] \o output[r])
      /\ UNCHANGED <<prompt, output, max_new_tokens, asked>>
  BY DEF AbortRequest, Abort, planVars
<1>2. Fields /\ Queues /\ Seats /\ Allowances /\ Locals
  BY DEF IInv, Places, PlanInv
<1>3. status' = [status EXCEPT ![r] = "finished"] /\ Queues' /\ Seats'
  BY <1>1, <1>2, FinishPlaces
<1>4. output' \in [Requests -> Seq(Token)] /\ Len(output'[r]) <= max_new_tokens[r]
  BY <1>1, <1>2 DEF Fields, Allowances, Allowance
<1>5. Fields' /\ Allowances'
  BY <1>1, <1>2, <1>3, <1>4, FinishAllowances
<1>6. PlanInv'
  BY <1>1, <1>2, IdlePlan DEF Locals
<1> QED
  BY <1>3, <1>5, <1>6 DEF IInv, Places

LEMMA SkipEmptyStep ==
  ASSUME IInv, SkipEmpty
  PROVE  IInv'
<1>1. pc' = "idle" /\ current' = NoRequest /\ cursor' = 1 /\ UNCHANGED coreVars
  BY DEF SkipEmpty, EndStep, coreVars, reqVars, queueVars, loopVars
<1>2. Places'
  BY <1>1, SamePlaces DEF IInv
<1>3. PlanInv'
  BY <1>1, IdlePlan
<1> QED
  BY <1>2, <1>3 DEF IInv

LEMMA PublishStep ==
  ASSUME IInv, Publish
  PROVE  IInv'
<1>1. pc' = "idle" /\ current' = NoRequest /\ cursor' = 1 /\ UNCHANGED coreVars
  BY DEF Publish, EndStep, coreVars, reqVars, queueVars
<1>2. Places'
  BY <1>1, SamePlaces DEF IInv
<1>3. PlanInv'
  BY <1>1, IdlePlan
<1> QED
  BY <1>2, <1>3 DEF IInv

\* A prefill pass samples one token at most for a request, all of the plan.
LEMMA SampledList ==
  ASSUME Apart, NEW P, P \subseteq 1 .. Len(prefill)
  PROVE  \E T : /\ ListOf(Sampled(P), T) /\ T \subseteq Granted
                /\ \A x \in T : \E i \in P : prefill[i][1] = x
<1> DEFINE K    == {i \in P : num_computed[prefill[i][1]] = Len(prompt[prefill[i][1]])}
           done == ElementsAt(prefill, K)
           D    == {prefill[i] : i \in K}
           T    == {e[1] : e \in D}
<1>1. ListOf(prefill, Elements(prefill))
      /\ \A d, e \in Elements(prefill) : d[1] = e[1] => d = e
  BY DEF Apart
<1>2. K \subseteq 1 .. Len(prefill) /\ K \subseteq P
  BY Zenon
<1>3. Sampled(P) = [i \in 1 .. Len(done) |-> done[i][1]]
  BY Zenon DEF Sampled
<1> HIDE DEF K
<1>4. ListOf(done, D)
  BY <1>1, <1>2, ListAt, Zenon
<1>5. D \subseteq Elements(prefill)
  BY <1>2, Zenon DEF Elements
<1>6. \A d, e \in D : d[1] = e[1] => d = e
  BY <1>1, <1>5, Zenon
<1>7. ListOf([i \in 1 .. Len(done) |-> done[i][1]], {e[1] : e \in D})
  <2> HIDE DEF done, D
  <2> QED
    BY <1>4, <1>6, ListFirsts, Zenon
<1>8. ListOf(Sampled(P), T)
  BY <1>3, <1>7, Zenon
<1>9. T \subseteq Granted
  BY <1>5, GrantedFirsts, Zenon
<1>10. \A x \in T : \E i \in P : prefill[i][1] = x
  BY <1>2, Zenon
<1> HIDE DEF T
<1> QED
  BY <1>8, <1>9, <1>10, Zenon

LEMMA ExecuteStep ==
  ASSUME IInv, Execute
  PROVE  IInv'
<1>1. /\ pc = "execute" /\ pc' = "harvest"
      /\ UNCHANGED <<current, cursor, prefill, decode>>
      /\ emitted' = Sampled(FreshPlaces) \o Sampled(ResumedPlaces) \o decode
      /\ UNCHANGED coreVars
  BY DEF Execute, RunPasses, coreVars, reqVars, queueVars
<1>2. Places'
  BY <1>1, SamePlaces DEF IInv
<1>3. InState("running")' = InState("running")
  BY <1>1, Zenon DEF InState, coreVars
<1>4. Apart /\ Granted \subseteq InState("running")
  BY <1>1 DEF IInv, PlanInv, Grants, Apart
<1>5. /\ ListOf(decode, Elements(decode)) /\ Elements(decode) \cap Granted = {}
      /\ Elements(decode) \subseteq InState("running")
  BY <1>1 DEF IInv, PlanInv, Batch, BatchRuns
<1>6. FreshPlaces \subseteq 1 .. Len(prefill) /\ ResumedPlaces \subseteq 1 .. Len(prefill)
      /\ FreshPlaces \cap ResumedPlaces = {}
  BY Zenon DEF FreshPlaces, ResumedPlaces
<1>7. PICK F : /\ ListOf(Sampled(FreshPlaces), F) /\ F \subseteq Granted
               /\ \A x \in F : \E i \in FreshPlaces : prefill[i][1] = x
  BY <1>4, <1>6, SampledList, Zenon
<1>8. PICK R : /\ ListOf(Sampled(ResumedPlaces), R) /\ R \subseteq Granted
               /\ \A x \in R : \E i \in ResumedPlaces : prefill[i][1] = x
  BY <1>4, <1>6, SampledList, Zenon
<1>9. F \cap R = {}
  <2> SUFFICES ASSUME NEW x, x \in F, x \in R PROVE FALSE
    BY Zenon
  <2>1. PICK i \in FreshPlaces : prefill[i][1] = x
    BY <1>7, Zenon
  <2>2. PICK j \in ResumedPlaces : prefill[j][1] = x
    BY <1>8, Zenon
  <2>3. i \in 1 .. Len(prefill) /\ j \in 1 .. Len(prefill) /\ i # j
    BY <1>6, Zenon
  <2>4. prefill[i] = prefill[j]
    <3>1. prefill[i] \in Elements(prefill) /\ prefill[j] \in Elements(prefill)
      BY <2>3, Zenon DEF Elements
    <3> QED
      BY <1>4, <2>1, <2>2, <3>1, Zenon DEF Apart
  <2>5. ListOf(prefill, Elements(prefill))
    BY <1>4 DEF Apart
  <2> QED
    BY <2>3, <2>4, <2>5, ListPlaces, Zenon
<1>10. ListOf(Sampled(FreshPlaces) \o Sampled(ResumedPlaces), F \cup R)
  BY <1>7, <1>8, <1>9, ListConcat, Zenon
<1>11. (F \cup R) \cap Elements(decode) = {}
  BY <1>5, <1>7, <1>8, Zenon
<1>12. ListOf(emitted', (F \cup R) \cup Elements(decode))
  BY <1>1, <1>5, <1>10, <1>11, ListConcat, Zenon
<1>13. Elements(emitted') = (F \cup R) \cup Elements(decode)
  BY <1>12, Zenon DEF ListOf
<1>14. Elements(emitted') \subseteq InState("running")
  BY <1>4, <1>5, <1>7, <1>8, <1>13, Zenon
<1>15. Emission'
  BY <1>3, <1>12, <1>13, <1>14, Zenon DEF Emission
<1>16. Locals'
  BY <1>1 DEF IInv, PlanInv, Locals
<1>17. Candidacy' /\ Grants' /\ Walk' /\ Batch' /\ BatchRuns'
  BY <1>1 DEF Candidacy, Grants, Walk, Batch, BatchRuns
<1> QED
  BY <1>2, <1>15, <1>16, <1>17 DEF IInv, PlanInv

\* The head of the sampled tokens is that of a running request, and the rest
\* are of others.
LEMMA HarvestHead ==
  ASSUME Emission, pc = "harvest", emitted # <<>>
  PROVE  /\ Head(emitted) \in InState("running")
         /\ ListOf(Tail(emitted), Elements(Tail(emitted)))
         /\ Elements(Tail(emitted)) \subseteq InState("running") \ {Head(emitted)}
<1>1. ListOf(emitted, Elements(emitted)) /\ Elements(emitted) \subseteq InState("running")
  BY DEF Emission
<1>2. Head(emitted) \in Elements(emitted)
      /\ ListOf(Tail(emitted), Elements(emitted) \ {Head(emitted)})
  BY <1>1, ListTail, Zenon
<1>3. Elements(Tail(emitted)) = Elements(emitted) \ {Head(emitted)}
  BY <1>2, Zenon DEF ListOf
<1> QED
  BY <1>1, <1>2, <1>3, Zenon

\* While a step is harvested the locals of plan() matter to nobody.
LEMMA HarvestPlan ==
  ASSUME Locals, pc' = "harvest", current' = current, cursor' = cursor, Emission'
  PROVE  PlanInv'
  BY DEF PlanInv, Locals, Candidacy, Grants, Walk, Batch, BatchRuns

LEMMA HarvestStopStep ==
  ASSUME IInv, HarvestStop
  PROVE  IInv'
<1> DEFINE r == Head(emitted)
<1>1. /\ pc = "harvest" /\ pc' = "harvest" /\ current' = current /\ cursor' = cursor
      /\ emitted # <<>> /\ emitted' = Tail(emitted)
      /\ Finish(r, Sequence(r))
      /\ UNCHANGED <<prompt, output, max_new_tokens, asked>>
  BY DEF HarvestStop, TakeStop, planVars
<1>2. Fields /\ Queues /\ Seats /\ Allowances /\ Locals /\ Emission
  BY DEF IInv, Places, PlanInv
<1>3. /\ r \in InState("running")
      /\ ListOf(emitted', Elements(emitted'))
      /\ Elements(emitted') \subseteq InState("running") \ {r}
  BY <1>1, <1>2, HarvestHead
<1> HIDE DEF r
<1>4. r \in Requests
  BY <1>3 DEF InState
<1>5. /\ status' = [status EXCEPT ![r] = "finished"] /\ Queues' /\ Seats'
      /\ InState("running")' = InState("running") \ {r}
  BY <1>1, <1>2, <1>4, FinishPlaces
<1>6. output' \in [Requests -> Seq(Token)] /\ Len(output'[r]) <= max_new_tokens[r]
  BY <1>1, <1>2, <1>4 DEF Fields, Allowances, Allowance
<1>7. Fields' /\ Allowances'
  BY <1>1, <1>2, <1>4, <1>5, <1>6, FinishAllowances
<1>8. Emission'
  BY <1>3, <1>5, Zenon DEF Emission
<1>9. PlanInv'
  BY <1>1, <1>2, <1>8, HarvestPlan
<1> QED
  BY <1>5, <1>7, <1>9 DEF IInv, Places

LEMMA HarvestTokenStep ==
  ASSUME IInv, NEW tok \in Generated, HarvestToken(tok)
  PROVE  IInv'
<1> DEFINE r == Head(emitted)
<1>1. /\ pc = "harvest" /\ pc' = "harvest" /\ current' = current /\ cursor' = cursor
      /\ emitted # <<>> /\ emitted' = Tail(emitted)
      /\ output' = [output EXCEPT ![r] = Append(output[r], tok)]
      /\ \/ Finish(r, Append(Sequence(r), tok))
         \/ /\ ~LastToken(r)
            /\ UNCHANGED <<status, free_slots, slot, running, waiting>>
      /\ UNCHANGED <<prompt, max_new_tokens, asked>>
  BY DEF HarvestToken, TakeToken, planVars
<1>2. Fields /\ Queues /\ Seats /\ Allowances /\ Locals /\ Emission
  BY DEF IInv, Places, PlanInv
<1>3. /\ r \in InState("running")
      /\ ListOf(emitted', Elements(emitted'))
      /\ Elements(emitted') \subseteq InState("running") \ {r}
  BY <1>1, <1>2, HarvestHead
<1> HIDE DEF r
<1>4. r \in Requests /\ status[r] = "running"
  BY <1>3 DEF InState
<1>5. /\ output[r] \in Seq(Token) /\ prompt[r] \in Seq(Token) /\ max_new_tokens[r] \in Int
      /\ Len(output[r]) < max_new_tokens[r]
  BY <1>2, <1>4 DEF Fields, Allowances, Allowance
<1>6. /\ Append(output[r], tok) \in Seq(Token) /\ Len(Append(output[r], tok)) = Len(output[r]) + 1
      /\ Len(output[r]) \in Nat
  BY <1>5 DEF Token
<1>7. /\ output' \in [Requests -> Seq(Token)] /\ output'[r] = Append(output[r], tok)
      /\ \A q \in Requests : q # r => output'[q] = output[q]
  BY <1>1, <1>2, <1>4, <1>6 DEF Fields
<1>8. Len(output'[r]) = Len(output[r]) + 1 /\ Len(output'[r]) <= max_new_tokens[r]
  BY <1>5, <1>6, <1>7
<1>9. CASE Finish(r, Append(Sequence(r), tok))
  <2>1. /\ status' = [status EXCEPT ![r] = "finished"] /\ Queues' /\ Seats'
        /\ InState("running")' = InState("running") \ {r}
    BY <1>2, <1>4, <1>9, FinishPlaces
  <2>2. Fields' /\ Allowances'
    BY <1>1, <1>2, <1>4, <1>7, <1>8, <2>1, FinishAllowances
  <2>3. Emission'
    BY <1>3, <2>1, Zenon DEF Emission
  <2>4. PlanInv'
    BY <1>1, <1>2, <2>3, HarvestPlan
  <2> QED
    BY <2>1, <2>2, <2>4 DEF IInv, Places
<1>10. CASE ~LastToken(r) /\ UNCHANGED <<status, free_slots, slot, running, waiting>>
  <2>1. InState("running")' = InState("running") /\ InState("waiting")' = InState("waiting")
    BY <1>10, Zenon DEF InState
  <2>2. Queues' /\ Seats'
    BY <1>2, <1>10, <2>1, Zenon DEF Queues, Seats
  <2>3. Fields'
    BY <1>1, <1>2, <1>7, <1>10 DEF Fields
  <2>4. Len(output'[r]) < max_new_tokens[r]
    BY <1>5, <1>6, <1>8, <1>10 DEF LastToken
  <2>5. Allowances'
    <3> SUFFICES ASSUME NEW q \in Requests
                 PROVE  Allowance(q)'
      BY DEF Allowances
    <3>1. Allowance(q) /\ status'[q] = status[q]
      BY <1>2, <1>10 DEF Allowances
    <3>2. CASE q # r
      BY <1>1, <1>7, <3>1, <3>2, Zenon DEF Allowance
    <3>3. CASE q = r
      <4>1. Len(output'[q]) <= max_new_tokens'[q] /\ Len(output'[q]) < max_new_tokens'[q]
        BY <1>1, <1>8, <2>4, <3>3
      <4>2. status'[q] # "new"
        BY <1>4, <1>10, <3>3
      <4> QED
        BY <1>1, <3>1, <4>1, <4>2, Zenon DEF Allowance
    <3> QED
      BY <3>2, <3>3
  <2>6. Emission'
    BY <1>3, <2>1, Zenon DEF Emission
  <2>7. PlanInv'
    BY <1>1, <1>2, <2>6, HarvestPlan
  <2> QED
    BY <2>2, <2>3, <2>5, <2>7 DEF IInv, Places
<1> QED
  BY <1>1, <1>9, <1>10

-----------------------------------------------------------------------------
LEMMA InitIInv == Init => IInv
<1> SUFFICES ASSUME Init PROVE IInv
  OBVIOUS
<1>1. /\ status = [r \in Requests |-> "new"]
      /\ prompt = [r \in Requests |-> <<>>] /\ output = [r \in Requests |-> <<>>]
      /\ max_new_tokens = [r \in Requests |-> 0] /\ asked = [r \in Requests |-> 0]
      /\ slot = [r \in Requests |-> NoSlot]
      /\ waiting = <<>> /\ running = <<>>
      /\ free_slots = Reverse([i \in 1 .. Cardinality(Slots) |-> i])
      /\ pc = "idle" /\ cursor = 1 /\ current = NoRequest
  BY DEF Init, PlannerInit
<1>2. Fields
  BY <1>1 DEF Fields
<1>3. InState("waiting") = {} /\ InState("running") = {}
  BY <1>1 DEF InState
<1>4. Queues
  BY <1>1, <1>3, ListEmpty DEF Queues
<1>5. Seats
  <2>1. Cardinality(Slots) \in Nat /\ Slots = 1 .. Cardinality(Slots)
    BY SlotsAreNumbered
  <2>2. NoSlot \notin Slots
    BY SlotsAreNumbered
  <2>3. ListOf(free_slots, Slots)
    BY <1>1, <2>1, ListDown, Zenon
  <2>4. Slots \ {slot[r] : r \in Requests} = Slots
    BY <1>1, <2>2, SMT
  <2>5. /\ slot \in [Requests -> Slots \cup {NoSlot}]
        /\ \A r \in Requests : slot[r] = NoSlot /\ status[r] # "running"
    BY <1>1
  <2> QED
    BY <2>3, <2>4, <2>5, Zenon DEF Seats
<1>6. Allowances
  <2> SUFFICES ASSUME NEW r \in Requests
               PROVE  Allowance(r)
    BY DEF Allowances
  <2>1. MaxSeqLen \in Nat /\ MaxGenLen \in Nat
    BY PlannerAssumption
  <2>2. 0 <= Cap(0)
    BY <2>1 DEF Cap, Smaller
  <2>3. Len(<<>>) = 0 /\ Len(<<>>) - 0 + 0 = 0
    OBVIOUS
  <2> QED
    BY <1>1, <2>2, <2>3 DEF Allowance
<1>7. PlanInv
  BY <1>1 DEF PlanInv, Locals, Candidacy, Grants, Walk, Batch, BatchRuns, Emission
<1> QED
  BY <1>2, <1>4, <1>5, <1>6, <1>7 DEF IInv, Places

LEMMA NextIInv == IInv /\ [Next]_vars => IInv'
<1> SUFFICES ASSUME IInv, [Next]_vars PROVE IInv'
  OBVIOUS
<1>1. ASSUME NEW r \in Requests, NEW p \in Prompts, Submit(r, p) PROVE IInv'
  BY <1>1, SubmitStep
<1>2. ASSUME NEW r \in Requests, AbortRequest(r) PROVE IInv'
  BY <1>2, AbortStep
<1>3. CASE UNCHANGED vars
  <2>1. UNCHANGED <<coreVars, planVars, emitted>>
    BY <1>3 DEF vars, plannerVars, reqVars, queueVars, planVars, loopVars, coreVars
  <2>2. Places'
    BY <2>1, SamePlaces DEF IInv
  <2>3. InState("running")' = InState("running") /\ Granted' = Granted
    BY <2>1, Zenon DEF InState, Granted, coreVars, planVars
  <2>4. Locals' /\ Candidacy' /\ Grants'
    BY <2>1, <2>3 DEF IInv, PlanInv, Locals, Candidacy, Grants, coreVars, planVars
  <2>5. Walk'
    BY <2>1, <2>3 DEF IInv, PlanInv, Walk, Behind, coreVars, planVars
  <2>6. Batch' /\ BatchRuns' /\ Emission'
    BY <2>1, <2>3 DEF IInv, PlanInv, Batch, BatchRuns, Emission, coreVars, planVars
  <2> QED
    BY <2>2, <2>4, <2>5, <2>6 DEF IInv, PlanInv
<1>4. CASE Plan
  <2>1. UNCHANGED loopVars
    BY <1>4 DEF Plan
  <2>2. CASE BeginPlan BY <2>1, <2>2, BeginPlanStep
  <2>3. CASE ResumeGrant BY <2>1, <2>3, ResumeGrantStep
  <2>4. CASE ResumeEvict BY <2>1, <2>4, ResumeEvictStep
  <2>5. CASE ResumeStall BY <2>1, <2>5, ResumeStallStep
  <2>6. CASE EndResume BY <2>1, <2>6, EndResumeStep
  <2>7. CASE AdmitStop BY <2>1, <2>7, AdmitStopStep
  <2>8. CASE AdmitEvict BY <2>1, <2>8, AdmitEvictStep
  <2>9. CASE AdmitGrant BY <2>1, <2>9, AdmitGrantStep
  <2>10. CASE AdmitRefuse BY <2>1, <2>10, AdmitRefuseStep
  <2>11. CASE FormDecode BY <2>1, <2>11, FormDecodeStep
  <2>12. CASE GrowGrant BY <2>1, <2>12, GrowGrantStep
  <2>13. CASE GrowEvict BY <2>1, <2>13, GrowEvictStep
  <2>14. CASE EndPlan BY <2>1, <2>14, EndPlanStep
  <2> QED
    BY <1>4, <2>2, <2>3, <2>4, <2>5, <2>6, <2>7, <2>8, <2>9, <2>10, <2>11, <2>12, <2>13, <2>14
       DEF Plan, PlanStep
<1>5. CASE SkipEmpty BY <1>5, SkipEmptyStep
<1>6. CASE Execute BY <1>6, ExecuteStep
<1>7. CASE HarvestStop BY <1>7, HarvestStopStep
<1>8. ASSUME NEW tok \in Generated, HarvestToken(tok) PROVE IInv'
  BY <1>8, HarvestTokenStep
<1>9. CASE Publish BY <1>9, PublishStep
<1>10. CASE Poll BY <1>3, <1>10 DEF Poll
<1> QED
  BY <1>1, <1>2, <1>3, <1>4, <1>5, <1>6, <1>7, <1>8, <1>9, <1>10 DEF Next, EngineStep

\* What the invariant says of the places is what the property says.
LEMMA PlacesFromIInv == IInv => PlacesPartition
<1> SUFFICES ASSUME IInv PROVE PlacesPartition
  OBVIOUS
<1>1. Queues /\ Seats
  BY DEF IInv, Places
<1> DEFINE Owners(s) == {r \in Requests : slot[r] = s}
<1>2. NoSlot \notin Slots
  BY SlotsAreNumbered
<1>3. ListOf(free_slots, Slots \ {slot[r] : r \in Requests})
  BY <1>1, Zenon DEF Seats
<1>4. IsInjective(free_slots) /\ Elements(free_slots) = Slots \ {slot[r] : r \in Requests}
  BY <1>3, Zenon DEF ListOf
<1>5. ASSUME NEW s \in Slots
      PROVE  Cardinality(Owners(s)) + (IF s \in Elements(free_slots) THEN 1 ELSE 0) = 1
  <2>1. CASE s \in Elements(free_slots)
    <3>1. Owners(s) = {}
      BY <1>4, <2>1, Zenon
    <3>2. Cardinality(Owners(s)) = 0
      BY <3>1, FS_EmptySet, Zenon
    <3> HIDE DEF Owners
    <3> QED
      BY <2>1, <3>2
  <2>2. CASE s \notin Elements(free_slots)
    <3>1. PICK r \in Requests : slot[r] = s
      BY <1>4, <2>2, Zenon
    <3>2. Owners(s) = {r}
      BY <1>1, <1>2, <3>1, Zenon DEF Seats
    <3>3. Cardinality(Owners(s)) = 1
      BY <3>2, FS_Singleton, Zenon
    <3> HIDE DEF Owners
    <3> QED
      BY <2>2, <3>3
  <2> QED
    BY <2>1, <2>2
<1>6. SlotsPartition
  BY <1>1, <1>4, <1>5, Zenon DEF SlotsPartition, Seats
<1> QED
  BY <1>1, <1>6, Zenon DEF PlacesPartition, Queues, ListOf, InState

\* The allowance bounds what was generated before and after evictions.
LEMMA BoundFromIInv == IInv => GenerationBounded
<1> SUFFICES ASSUME IInv, NEW r \in Requests
             PROVE  Len(GeneratedBy(r)) <= Cap(asked[r])
  BY DEF GenerationBounded, Cap
<1>1. /\ prompt[r] \in Seq(Token) /\ output[r] \in Seq(Token)
      /\ max_new_tokens[r] \in Int /\ asked[r] \in Nat
      /\ asked[r] <= Len(prompt[r])
      /\ Len(prompt[r]) - asked[r] + max_new_tokens[r] <= Cap(asked[r])
      /\ Len(output[r]) <= max_new_tokens[r]
  BY DEF IInv, Places, Fields, Allowances, Allowance
<1> DEFINE q == prompt[r] \o output[r]
           a == Len(prompt[r])
           b == Len(output[r])
           c == Cap(asked[r])
<1>2. q \in Seq(Token) /\ Len(q) = a + b /\ a \in Nat /\ b \in Nat
  BY <1>1
<1>3. GeneratedBy(r) = SubSeq(q, asked[r] + 1, a + b)
  BY DEF GeneratedBy, Sequence, SeqLen
<1>4. MaxSeqLen \in Nat /\ MaxGenLen \in Nat
  BY PlannerAssumption
<1>5. c \in Int
  BY <1>1, <1>4 DEF Cap, Smaller
<1>6. asked[r] <= a /\ a - asked[r] + max_new_tokens[r] <= c /\ b <= max_new_tokens[r]
  BY <1>1
<1> HIDE DEF q, a, b, c
<1>7. /\ asked[r] + 1 \in Int /\ a + b \in Int /\ 1 <= asked[r] + 1
      /\ asked[r] + 1 <= a + b + 1 /\ a + b <= Len(q)
  BY <1>1, <1>2, <1>6
<1>8. Len(SubSeq(q, asked[r] + 1, a + b)) = a + b - (asked[r] + 1) + 1
  BY <1>2, <1>7, Stretch, SMT
<1>9. a + b - (asked[r] + 1) + 1 <= c
  BY <1>1, <1>2, <1>5, <1>6
<1> QED
  BY <1>3, <1>8, <1>9, Zenon DEF c

\* A request is in exactly the queue its status names, once, or in none, and a
\* slot is free or held by exactly one running request, whatever the planner,
\* the harvest and the clients do (_waiting, _running, _free_slots).
THEOREM PlacesPartitionTheorem == Spec => []PlacesPartition
<1>1. Init => IInv
  BY InitIInv
<1>2. IInv /\ [Next]_vars => IInv'
  BY NextIInv
<1>3. IInv => PlacesPartition
  BY PlacesFromIInv
<1> QED
  BY <1>1, <1>2, <1>3, PTL DEF Spec

\* However often a request is evicted and resumed, it generates no more tokens
\* than it was allowed when submitted (_preempt, _harvest).
THEOREM GenerationBoundedTheorem == Spec => []GenerationBounded
<1>1. Init => IInv
  BY InitIInv
<1>2. IInv /\ [Next]_vars => IInv'
  BY NextIInv
<1>3. IInv => GenerationBounded
  BY BoundFromIInv
<1> QED
  BY <1>1, <1>2, <1>3, PTL DEF Spec
-----------------------------------------------------------------------------
(***************************************************************************)
(* The blocks.  The cache is in order, and only running requests hold      *)
(* blocks; what the planner asks of the cache is a number of tokens, for a *)
(* sequence that is not empty.                                             *)
(***************************************************************************)
Registered == Seq(Requests \X Int)

Asks ==
  /\ num_computed \in [Requests -> Int] /\ pending_tokens \in [Requests -> Int]
  /\ pending_blocks \in Registered
  /\ \A r \in Requests : status[r] # "new" => prompt[r] # <<>>

\* Whoever does not run holds no block of c.
Lent(c) == \A r \in Requests : status[r] # "running" => c.blocks[r] = <<>>

BlockInv == Asks /\ InOrder(cache, Token) /\ Lent(cache)

LEMMA CommitBlocksInOrder ==
  ASSUME NEW c, InOrder(c, Token), NEW r \in Requests, NEW sequence \in Seq(Token), NEW n \in Int
  PROVE  /\ InOrder(CommitBlocks(c, r, sequence, n), Token) /\ SamePool(c, CommitBlocks(c, r, sequence, n))
         /\ CommitBlocks(c, r, sequence, n).mapped = c.mapped
<1> DEFINE t == IF n \div BlockSize > Len(c.hashes[r]) THEN Track(c, r, sequence) ELSE c
<1>1. InOrder(t, Token) /\ SamePool(c, t)
  <2>1. SamePool(c, c)
    BY DEF SamePool
  <2> QED
    BY <2>1, TrackInOrder, Zenon
<1>2. CommitBlocks(c, r, sequence, n) = Commit(t, r, n)
  BY Zenon DEF CommitBlocks
<1> HIDE DEF t
<1>3. InOrder(Commit(t, r, n), Token) /\ SamePool(t, Commit(t, r, n))
  BY <1>1, CommitInOrder, Zenon
<1>4. t.mapped = c.mapped /\ Commit(t, r, n).mapped = t.mapped
  <2>1. Track(c, r, sequence).mapped = c.mapped
    BY DEF Track
  <2>2. Commit(t, r, n).mapped = t.mapped
    BY DEF Commit, IndexBlocks
  <2> QED
    BY <2>1, <2>2 DEF t
<1> QED
  BY <1>1, <1>2, <1>3, <1>4, Zenon DEF SamePool

\* Registrations cashed in change no reference and no holding.
LEMMA CommitAllInOrder ==
  ASSUME NEW c, InOrder(c, Token), pending_blocks \in Registered, NEW those, NEW sequences,
         \A r \in those : r \in Requests => sequences[r] \in Seq(Token)
  PROVE  /\ InOrder(CommitAll(c, those, sequences), Token) /\ SamePool(c, CommitAll(c, those, sequences))
         /\ CommitAll(c, those, sequences).mapped = c.mapped
<1> DEFINE commit(d, e) ==
             IF e[1] \in those THEN CommitBlocks(d, e[1], sequences[e[1]], e[2]) ELSE d
           s == pending_blocks
           n == Len(s)
           F == CHOOSE f : f = [i \in 0 .. n |-> IF i = 0 THEN c ELSE commit(f[i - 1], s[i])]
           D == {d \in Caches(Token) : InOrder(d, Token) /\ SamePool(c, d) /\ d.mapped = c.mapped}
           R == [i \in 0 .. n |-> D]
           G == [i \in 1 .. n |-> [d \in D |-> commit(d, s[i])]]
<1>1. CommitAll(c, those, sequences) = F[n]
  BY DEF CommitAll, OneByOne
<1>2. /\ n \in Nat /\ n \in 0 .. n /\ 0 \in 0 .. n
      /\ \A i \in 1 .. n : i \in 0 .. n /\ i - 1 \in 0 .. n /\ s[i] \in Requests \X Int
  BY DEF Registered
<1>3. c \in D
  BY DEF InOrder, SamePool
<1>4. \A i \in 1 .. n : \A d \in D : commit(d, s[i]) \in D
  <2> SUFFICES ASSUME NEW i \in 1 .. n, NEW d \in D
               PROVE  commit(d, s[i]) \in D
    OBVIOUS
  <2> DEFINE e == s[i]
             g == CommitBlocks(d, e[1], sequences[e[1]], e[2])
  <2>1. e[1] \in Requests /\ e[2] \in Int
    BY <1>2
  <2> HIDE DEF e
  <2>2. CASE e[1] \in those
    <3>1. sequences[e[1]] \in Seq(Token)
      BY <2>1, <2>2
    <3>2. InOrder(g, Token) /\ SamePool(d, g) /\ g.mapped = d.mapped
      BY <2>1, <3>1, CommitBlocksInOrder, Zenon
    <3>3. g \in D
      <4> HIDE DEF g
      <4> QED
        BY <3>2, Zenon DEF InOrder, SamePool
    <3> QED
      BY <2>2, <3>3, Zenon DEF e
  <2>3. CASE e[1] \notin those
    BY <2>3, Zenon DEF e
  <2> QED
    BY <2>2, <2>3
<1>5. \A i \in 1 .. n : \A d \in D : G[i][d] = commit(d, s[i])
  BY Zenon
<1>6. \A i \in 0 .. n : R[i] = D
  BY Zenon
<1> HIDE DEF R, G, n, commit, D, s
<1>7. PICK f : Walks(f, n, c, G, R)
  <2>1. \A i \in 1 .. n : \A d \in R[i - 1] : G[i][d] \in R[i]
    BY <1>2, <1>4, <1>5, <1>6
  <2>2. c \in R[0]
    BY <1>2, <1>3, <1>6
  <2> QED
    BY <1>2, <2>1, <2>2, WalkExists, Zenon
<1>8. f = [i \in 0 .. n |-> IF i = 0 THEN c ELSE commit(f[i - 1], s[i])]
  BY <1>2, <1>5, <1>6, <1>7 DEF Walks
<1>9. F = [i \in 0 .. n |-> IF i = 0 THEN c ELSE commit(F[i - 1], s[i])]
  BY <1>8, Zenon
<1> HIDE DEF F
<1>10. F[0] = c /\ \A i \in 1 .. n : F[i] = commit(F[i - 1], s[i])
  <2>1. \A i \in 0 .. n : F[i] = IF i = 0 THEN c ELSE commit(F[i - 1], s[i])
    BY <1>9, Zenon
  <2>2. \A i \in 1 .. n : i \in 0 .. n /\ i # 0
    BY <1>2
  <2> QED
    BY <1>2, <2>1, <2>2, Zenon
<1>11. F[n] \in R[n]
  <2>1. \A i \in 1 .. n : F[i - 1] \in R[i - 1] => F[i] \in R[i]
    BY <1>2, <1>4, <1>6, <1>10
  <2>2. F[0] \in R[0]
    BY <1>2, <1>3, <1>6, <1>10
  <2> QED
    BY <1>2, <2>1, <2>2, WalkStays, Zenon
<1> QED
  BY <1>1, <1>2, <1>6, <1>11, Zenon DEF D

\* The registrations left once those of r are dropped are the others.
LEMMA DropPendingRegistered ==
  ASSUME pending_blocks \in Registered, NEW r
  PROVE  /\ DropPending(r) \in Registered
         /\ \A e \in Elements(DropPending(r)) : e \in Elements(pending_blocks) /\ e[1] # r
<1> DEFINE keep(entries, e) == IF e[1] = r THEN entries ELSE Append(entries, e)
           s == pending_blocks
           n == Len(s)
           F == CHOOSE f : f = [i \in 0 .. n |-> IF i = 0 THEN <<>> ELSE keep(f[i - 1], s[i])]
           Others == {e \in Elements(s) : e[1] # r}
           D == Seq(Others)
           R == [i \in 0 .. n |-> D]
           G == [i \in 1 .. n |-> [d \in D |-> keep(d, s[i])]]
<1>1. DropPending(r) = F[n]
  BY DEF DropPending, OneByOne
<1>2. /\ n \in Nat /\ n \in 0 .. n /\ 0 \in 0 .. n
      /\ \A i \in 1 .. n : i \in 0 .. n /\ i - 1 \in 0 .. n /\ s[i] \in Elements(s)
  BY DEF Registered, Elements
<1>3. <<>> \in D
  OBVIOUS
<1>4. \A i \in 1 .. n : \A d \in D : keep(d, s[i]) \in D
  <2> SUFFICES ASSUME NEW i \in 1 .. n, NEW d \in D
               PROVE  keep(d, s[i]) \in D
    OBVIOUS
  <2> DEFINE e == s[i]
  <2>1. e \in Elements(s)
    BY <1>2
  <2> HIDE DEF e
  <2>2. CASE e[1] = r
    BY <2>2 DEF e
  <2>3. CASE e[1] # r
    <3>1. e \in Others
      BY <2>1, <2>3
    <3> HIDE DEF Others
    <3>2. Append(d, e) \in D
      BY <3>1
    <3> QED
      BY <2>3, <3>2, Zenon DEF e
  <2> QED
    BY <2>2, <2>3
<1>5. \A i \in 1 .. n : \A d \in D : G[i][d] = keep(d, s[i])
  BY Zenon
<1>6. \A i \in 0 .. n : R[i] = D
  BY Zenon
<1>13. \A i \in 1 .. Len(s) : s[i] \in Requests \X Int
  BY DEF Registered
<1>14. D \subseteq Registered
  <2>1. \A e \in Elements(s) : e \in Requests \X Int
    BY <1>13, Zenon DEF Elements, n
  <2>2. Others \subseteq Requests \X Int
    BY <2>1, Zenon
  <2> HIDE DEF Others
  <2> QED
    BY <2>2 DEF Registered
<1>15. \A w \in D : \A e \in Elements(w) : e \in Elements(s) /\ e[1] # r
  <2> HIDE DEF Others
  <2>1. ASSUME NEW w \in D, NEW e \in Elements(w) PROVE e \in Others
    <3>1. PICK i \in 1 .. Len(w) : e = w[i]
      BY Zenon DEF Elements
    <3> QED
      BY <3>1
  <2> QED
    BY <2>1 DEF Others
<1> HIDE DEF R, G, n, keep, D, s
<1>7. PICK f : Walks(f, n, <<>>, G, R)
  <2>1. \A i \in 1 .. n : \A d \in R[i - 1] : G[i][d] \in R[i]
    BY <1>2, <1>4, <1>5, <1>6
  <2>2. <<>> \in R[0]
    BY <1>2, <1>3, <1>6
  <2> QED
    BY <1>2, <2>1, <2>2, WalkExists, Zenon
<1>8. f = [i \in 0 .. n |-> IF i = 0 THEN <<>> ELSE keep(f[i - 1], s[i])]
  <2>1. /\ f = [i \in 0 .. n |-> IF i = 0 THEN <<>> ELSE G[i][f[i - 1]]]
        /\ \A i \in 0 .. n : f[i] \in D
    BY <1>6, <1>7, Zenon DEF Walks
  <2>2. \A i \in 0 .. n : i # 0 => i \in 1 .. n /\ i - 1 \in 0 .. n
    BY <1>2
  <2>3. \A i \in 0 .. n : i # 0 => G[i][f[i - 1]] = keep(f[i - 1], s[i])
    BY <1>5, <2>1, <2>2, Zenon
  <2> QED
    BY <2>1, <2>3
<1>9. F = [i \in 0 .. n |-> IF i = 0 THEN <<>> ELSE keep(F[i - 1], s[i])]
  BY <1>8, Zenon
<1> HIDE DEF F
<1>10. F[0] = <<>> /\ \A i \in 1 .. n : F[i] = keep(F[i - 1], s[i])
  BY <1>2, <1>9
<1>11. F[n] \in R[n]
  <2>1. \A i \in 1 .. n : F[i - 1] \in R[i - 1] => F[i] \in R[i]
    BY <1>2, <1>4, <1>6, <1>10
  <2>2. F[0] \in R[0]
    BY <1>2, <1>3, <1>6, <1>10
  <2> QED
    BY <1>2, <2>1, <2>2, WalkStays, Zenon
<1>12. F[n] \in D
  BY <1>2, <1>6, <1>11, Zenon
<1> QED
  BY <1>1, <1>12, <1>15, <1>14, Zenon DEF s

blockVars == <<status, prompt, num_computed, pending_tokens, pending_blocks, cache>>

\* A step that touches no block.
LEMMA SameBlocks ==
  ASSUME BlockInv, UNCHANGED blockVars
  PROVE  BlockInv'
<1>1. Asks'
  BY DEF BlockInv, Asks, blockVars
<1>2. InOrder(cache, Token)' /\ Lent(cache)'
  BY DEF BlockInv, Lent, blockVars
<1> QED
  BY <1>1, <1>2 DEF BlockInv

\* A chain that is tracked changes no holding.
LEMMA TrackedBlocks ==
  ASSUME Fields, BlockInv, NEW r \in Requests
  PROVE  /\ InOrder(Tracked(r), Token) /\ Lent(Tracked(r))
         /\ \A q \in Requests : Tracked(r).blocks[q] = cache.blocks[q]
<1>1. prompt[r] \in Seq(Token) /\ InOrder(cache, Token)
  BY DEF Fields, BlockInv
<1>2. InOrder(Tracked(r), Token) /\ SamePool(cache, Tracked(r))
  BY <1>1, TrackInOrder, Zenon DEF Tracked
<1> QED
  BY <1>2, Zenon DEF SamePool, Lent, BlockInv

\* _preempt gives back what its victim holds.
LEMMA PreemptBlocks ==
  ASSUME Fields, Asks, NEW c, InOrder(c, Token), Lent(c), NEW v \in InState("running"), Preempt(c, v)
  PROVE  BlockInv'
<1>1. /\ status' = [status EXCEPT ![v] = "waiting"]
      /\ prompt' = [prompt EXCEPT ![v] = prompt[v] \o output[v]]
      /\ num_computed' = [num_computed EXCEPT ![v] = 0]
      /\ pending_tokens' = [pending_tokens EXCEPT ![v] = 0]
      /\ pending_blocks' = DropPending(v)
      /\ cache' = Free(c, v)
      /\ v \in Requests /\ status[v] = "running"
  BY DEF Preempt, InState
<1>2. /\ InOrder(cache', Token) /\ cache'.blocks[v] = <<>>
      /\ \A q \in Requests : q # v => cache'.blocks[q] = c.blocks[q]
  BY <1>1, FreeBlocksOf
<1>3. Lent(cache)'
  <2>1. \A q \in Requests : q # v => status'[q] = status[q]
    BY <1>1 DEF Fields
  <2> QED
    BY <1>2, <2>1 DEF Lent
<1>4. Asks'
  <2>1. pending_blocks' \in Registered
    BY <1>1, DropPendingRegistered DEF Asks
  <2>2. prompt[v] # <<>> /\ prompt[v] \in Seq(Token) /\ output[v] \in Seq(Token)
    BY <1>1 DEF Asks, Fields
  <2>3. prompt[v] \o output[v] # <<>>
    <3>1. Len(prompt[v]) # 0 /\ Len(prompt[v]) \in Nat /\ Len(output[v]) \in Nat
      BY <2>2
    <3>2. Len(prompt[v] \o output[v]) = Len(prompt[v]) + Len(output[v])
      BY <2>2
    <3> DEFINE w == prompt[v] \o output[v]
               a == Len(prompt[v])
               b == Len(output[v])
    <3>3. Len(w) = a + b /\ a # 0 /\ a \in Nat /\ b \in Nat
      BY <3>1, <3>2
    <3> HIDE DEF w, a, b
    <3>4. w # <<>>
      BY <3>3
    <3> QED
      BY <3>4, Zenon DEF w
  <2>4. \A r \in Requests : status'[r] # "new" => prompt'[r] # <<>>
    BY <1>1, <2>3 DEF Asks, Fields
  <2>5. num_computed' \in [Requests -> Int] /\ pending_tokens' \in [Requests -> Int]
    BY <1>1 DEF Asks
  <2> QED
    BY <2>1, <2>4, <2>5 DEF Asks, Registered
<1> QED
  BY <1>2, <1>3, <1>4 DEF BlockInv, Token

\* finish cashes in and gives back.
LEMMA FinishBlocks ==
  ASSUME Fields, BlockInv, NEW r \in Requests, NEW sequence \in Seq(Token), Finish(r, sequence),
         status[r] # "new", UNCHANGED <<prompt, num_computed, pending_tokens>>
  PROVE  BlockInv'
<1> DEFINE c == CommitAll(cache, {r}, [q \in {r} |-> sequence])
<1>1. /\ status' = [status EXCEPT ![r] = "finished"]
      /\ pending_blocks' = DropPending(r)
      /\ cache' = Free(c, r)
  BY DEF Finish, SettleAndFree
<1>2. InOrder(cache, Token) /\ Lent(cache) /\ Asks /\ pending_blocks \in Registered
  BY DEF BlockInv, Asks
<1>3. InOrder(c, Token) /\ SamePool(cache, c)
  <2>1. \A q \in {r} : q \in Requests => [p \in {r} |-> sequence][q] \in Seq(Token)
    OBVIOUS
  <2> QED
    BY <1>2, <2>1, CommitAllInOrder, Zenon
<1> HIDE DEF c
<1>4. /\ InOrder(cache', Token) /\ cache'.blocks[r] = <<>>
      /\ \A q \in Requests : q # r => cache'.blocks[q] = cache.blocks[q]
  <2>1. /\ InOrder(cache', Token) /\ cache'.blocks[r] = <<>>
        /\ \A q \in Requests : q # r => cache'.blocks[q] = c.blocks[q]
    BY <1>1, <1>3, FreeBlocksOf
  <2> QED
    BY <1>3, <2>1, Zenon DEF SamePool
<1>5. Lent(cache)'
  <2>1. \A q \in Requests : q # r => status'[q] = status[q]
    BY <1>1 DEF Fields
  <2> QED
    BY <1>2, <1>4, <2>1 DEF Lent
<1>6. Asks'
  <2>1. pending_blocks' \in Registered
    BY <1>1, <1>2, DropPendingRegistered
  <2>2. \A q \in Requests : status'[q] # "new" => prompt'[q] # <<>>
    BY <1>1, <1>2 DEF Asks, Fields
  <2> QED
    BY <1>2, <2>1, <2>2 DEF Asks, Registered
<1> QED
  BY <1>4, <1>5, <1>6 DEF BlockInv, Token

\* A grant: r gets the blocks of n tokens, and runs.
LEMMA GrantBlocks ==
  ASSUME NEW c, InOrder(c, Token), Lent(c), NEW r \in Requests, NEW n \in Int, NEW m,
         m = <<>> \/ IsMatch(c, r, m), MayAdopt(c, r, m), Fits(c, r, n, m),
         cache' = TakeTableWrites(Allocate(c, r, n, m), r),
         status'[r] = "running", \A q \in Requests : q # r => status'[q] = status[q]
  PROVE  InOrder(cache, Token)' /\ Lent(cache)'
<1> DEFINE d == Allocate(c, r, n, m)
<1>1. InOrder(d, Token) /\ \A q \in Requests : q # r => d.blocks[q] = c.blocks[q]
  BY AllocateInOrder
<1> HIDE DEF d
<1>2. InOrder(cache', Token) /\ SamePool(d, cache')
  <2>1. cache' = TakeTableWrites(d, r)
    BY DEF d
  <2> QED
    BY <1>1, <2>1, TakeTableWritesInOrder, Zenon
<1>3. \A q \in Requests : q # r => cache'.blocks[q] = c.blocks[q]
  BY <1>1, <1>2, Zenon DEF SamePool
<1> QED
  BY <1>2, <1>3 DEF Lent, Token

\* One more registration.
LEMMA RegisterMore ==
  ASSUME pending_blocks \in Registered, NEW r \in Requests, NEW n \in Int
  PROVE  Append(pending_blocks, <<r, n>>) \in Registered
  BY DEF Registered

\* A chunk has a length.
LEMMA ChunkIsInt ==
  ASSUME Fields, NEW r \in Requests, NEW k \in Int
  PROVE  ChunkOf(r, k) \in Int
<1> DEFINE remaining == Len(prompt[r]) - k
           S == {remaining, MaxChunkSize, MaxNumBatchedTokens}
<1>1. remaining \in Int /\ MaxChunkSize \in Int /\ MaxNumBatchedTokens \in Int
  BY PlannerAssumption DEF Fields
<1>2. \E x \in S : \A y \in S : x <= y
  <2> HIDE DEF remaining
  <2> QED
    BY <1>1
<1>3. Min(S) \in S
  BY <1>2, Zenon DEF Min
<1>4. ChunkOf(r, k) = IF MaxChunkSize = 0 THEN remaining ELSE Min(S)
  BY Zenon DEF ChunkOf
<1> HIDE DEF remaining
<1> QED
  BY <1>1, <1>3, <1>4

\* Stage 0 cashes in the registrations of the last step.
LEMMA BeginPlanBlocks ==
  ASSUME Fields, BlockInv, BeginPlan
  PROVE  BlockInv'
<1> DEFINE those == {r \in Requests : status[r] = "running"}
           all   == [r \in Requests |-> prompt[r] \o output[r]]
<1>1. /\ cache' = CommitAll(cache, those, all) /\ pending_blocks' = <<>>
      /\ UNCHANGED <<status, prompt, num_computed, pending_tokens>>
  BY DEF BeginPlan, reqVars
<1>2. InOrder(cache, Token) /\ Lent(cache) /\ Asks /\ pending_blocks \in Registered
  BY DEF BlockInv, Asks
<1>3. \A r \in those : r \in Requests => all[r] \in Seq(Token)
  BY DEF Fields
<1> HIDE DEF those, all
<1>4. InOrder(cache', Token) /\ SamePool(cache, cache')
  BY <1>1, <1>2, <1>3, CommitAllInOrder, Zenon
<1>5. Lent(cache)'
  BY <1>1, <1>2, <1>4 DEF Lent, SamePool
<1>6. Asks'
  BY <1>1, <1>2 DEF Asks, Registered
<1> QED
  BY <1>4, <1>5, <1>6 DEF BlockInv, Token

\* A grant without a match to a request that runs.
LEMMA MoreBlocks ==
  ASSUME Fields, BlockInv, NEW r \in InState("running"), NEW n \in Int, NEW k \in Int,
         Fits(cache, r, n, <<>>), cache' = TakeTableWrites(Allocate(cache, r, n, <<>>), r),
         pending_blocks' = Append(pending_blocks, <<r, k>>),
         num_computed' \in [Requests -> Int], UNCHANGED <<status, prompt, pending_tokens>>
  PROVE  BlockInv'
<1>1. r \in Requests /\ status'[r] = "running" /\ \A q \in Requests : q # r => status'[q] = status[q]
  BY DEF InState
<1>2. InOrder(cache, Token) /\ Lent(cache) /\ Asks /\ pending_blocks \in Registered
  BY DEF BlockInv, Asks
<1>3. MayAdopt(cache, r, <<>>)
  BY DEF MayAdopt
<1>4. InOrder(cache, Token)' /\ Lent(cache)'
  BY <1>1, <1>2, <1>3, GrantBlocks
<1>5. pending_blocks' \in Registered
  BY <1>1, <1>2, RegisterMore
<1>6. Asks'
  BY <1>2, <1>5 DEF Asks, Registered
<1> QED
  BY <1>4, <1>6 DEF BlockInv

LEMMA ResumeGrantBlocks ==
  ASSUME IInv, BlockInv, ResumeGrant
  PROVE  BlockInv'
<1> DEFINE r     == Resuming
           reach == ResumeReach(r)
<1>1. /\ pc = "resume"
      /\ current # NoRequest \/ ToResume # {}
      /\ Fits(cache, r, reach, <<>>)
      /\ cache' = TakeTableWrites(Allocate(cache, r, reach, <<>>), r)
      /\ num_computed' = [num_computed EXCEPT ![r] = reach]
      /\ pending_blocks' = Append(pending_blocks, <<r, reach>>)
      /\ UNCHANGED <<status, prompt, pending_tokens>>
  BY DEF ResumeGrant
<1>2. r \in InState("running") /\ Fields
  BY <1>1, ResumingRuns DEF IInv, Places, PlanInv
<1>3. r \in Requests /\ num_computed \in [Requests -> Int]
  BY <1>2 DEF InState, BlockInv, Asks
<1> HIDE DEF r
<1>4. reach \in Int
  <2>1. num_computed[r] \in Int
    BY <1>3
  <2>2. ChunkOf(r, num_computed[r]) \in Int
    BY <1>2, <1>3, <2>1, ChunkIsInt
  <2> QED
    BY <2>1, <2>2 DEF ResumeReach
<1> HIDE DEF reach
<1>5. num_computed' \in [Requests -> Int]
  BY <1>1, <1>3, <1>4
<1> QED
  BY <1>1, <1>2, <1>4, <1>5, MoreBlocks

LEMMA GrowGrantBlocks ==
  ASSUME IInv, BlockInv, GrowGrant
  PROVE  BlockInv'
<1> DEFINE r    == Growing
           n    == GrowReach(r)
           upto == DecodedUpto(r)
<1>1. /\ pc = "grow" /\ ToGrow # {}
      /\ Fits(cache, r, n, <<>>)
      /\ cache' = TakeTableWrites(Allocate(cache, r, n, <<>>), r)
      /\ pending_blocks' = Append(pending_blocks, <<r, upto>>)
      /\ UNCHANGED <<status, prompt, num_computed, pending_tokens>>
  BY DEF GrowGrant
<1>2. r \in InState("running") /\ Fields
  BY <1>1, GrowingRuns DEF IInv, Places, PlanInv
<1>3. r \in Requests /\ num_computed \in [Requests -> Int] /\ pending_tokens \in [Requests -> Int]
  BY <1>2 DEF InState, BlockInv, Asks
<1> HIDE DEF r
<1>4. n \in Int /\ upto \in Int
  <2>1. Len(prompt[r]) \in Nat /\ Len(output[r]) \in Nat /\ pending_tokens[r] \in Int /\ MaxSeqLen \in Nat
    BY <1>2, <1>3, PlannerAssumption DEF Fields
  <2> DEFINE a == Len(prompt[r])
             b == Len(output[r])
  <2> HIDE DEF a, b
  <2>2. SeqLen(r) = a + b /\ a \in Nat /\ b \in Nat
    BY <2>1, Zenon DEF SeqLen, a, b
  <2> QED
    BY <2>1, <2>2 DEF GrowReach, DecodedUpto, Smaller
<1> HIDE DEF n, upto
<1> QED
  BY <1>1, <1>2, <1>3, <1>4, MoreBlocks

LEMMA ResumeEvictBlocks ==
  ASSUME IInv, BlockInv, ResumeEvict
  PROVE  BlockInv'
<1> DEFINE v == Victim(Granted \cup {Resuming})
<1>1. v # NoRequest /\ Preempt(cache, v)
  BY DEF ResumeEvict
<1>2. v \in InState("running") /\ Fields
  BY <1>1, VictimRuns, Zenon DEF IInv, Places
<1> HIDE DEF v
<1> QED
  BY <1>1, <1>2, PreemptBlocks, Zenon DEF BlockInv

LEMMA GrowEvictBlocks ==
  ASSUME IInv, BlockInv, GrowEvict
  PROVE  BlockInv'
<1> DEFINE v == IF Victim(GrowProtects(Growing)) # NoRequest
                THEN Victim(GrowProtects(Growing)) ELSE Growing
<1>1. pc = "grow" /\ ToGrow # {} /\ Preempt(cache, v)
  BY DEF GrowEvict
<1>2. v \in InState("running") /\ Fields
  BY <1>1, VictimRuns, GrowingRuns, Zenon DEF IInv, Places, PlanInv
<1> HIDE DEF v
<1> QED
  BY <1>1, <1>2, PreemptBlocks, Zenon DEF BlockInv

\* Admission tracks the chain of its candidate, whatever comes of it.
LEMMA AdmitStopBlocks ==
  ASSUME IInv, BlockInv, AdmitStop
  PROVE  BlockInv'
<1>1. UNCHANGED <<status, prompt, num_computed, pending_tokens, pending_blocks>> /\ pc = "admit"
  BY DEF AdmitStop, reqVars
<1>2. CASE UNCHANGED cache
  BY <1>1, <1>2, SameBlocks DEF blockVars
<1>3. CASE waiting # <<>> /\ cache' = Tracked(Candidate)
  <2>1. Candidate \in Requests /\ Fields
    <3>1. Candidate \in InState("waiting")
      BY <1>1, <1>3, CandidateWaits DEF IInv, Places, PlanInv
    <3> QED
      BY <3>1 DEF InState, IInv, Places
  <2>2. InOrder(cache', Token) /\ Lent(cache')
    BY <1>3, <2>1, TrackedBlocks, Zenon
  <2>3. Lent(cache)'
    BY <1>1, <2>2 DEF Lent
  <2>4. Asks'
    BY <1>1 DEF BlockInv, Asks, Registered
  <2> QED
    BY <2>2, <2>3, <2>4 DEF BlockInv, Token
<1> QED
  BY <1>2, <1>3 DEF AdmitStop

LEMMA AdmitEvictBlocks ==
  ASSUME IInv, BlockInv, AdmitEvict
  PROVE  BlockInv'
<1> DEFINE v == PolicyVictim
<1>1. pc = "admit" /\ waiting # <<>> /\ v # NoRequest /\ Preempt(Tracked(Candidate), v)
  BY DEF AdmitEvict
<1>2. Candidate \in Requests /\ Fields
  <2>1. Candidate \in InState("waiting")
    BY <1>1, CandidateWaits DEF IInv, Places, PlanInv
  <2> QED
    BY <2>1 DEF InState, IInv, Places
<1>3. v \in InState("running")
  <2>1. v = Victim(Granted)
    BY <1>1 DEF PolicyVictim
  <2> QED
    BY <1>1, <2>1, VictimRuns DEF IInv, Places
<1>4. InOrder(Tracked(Candidate), Token) /\ Lent(Tracked(Candidate))
  BY <1>2, TrackedBlocks
<1> HIDE DEF v
<1> QED
  BY <1>1, <1>2, <1>3, <1>4, PreemptBlocks, Zenon DEF BlockInv

\* The candidate of an admission holds nothing yet, and its lookups match.
LEMMA CandidateBlocks ==
  ASSUME IInv, BlockInv, pc = "admit", waiting # <<>>,
         NEW m \in Lookup(Tracked(Candidate), Candidate, Len(prompt[Candidate]))
  PROVE  /\ Candidate \in InState("waiting") /\ Candidate \in Requests /\ Fields
         /\ InOrder(Tracked(Candidate), Token) /\ Lent(Tracked(Candidate))
         /\ MayAdopt(Tracked(Candidate), Candidate, m) /\ IsMatch(Tracked(Candidate), Candidate, m)
         /\ Len(m) \in Nat
<1> DEFINE r == Candidate
           c == Tracked(r)
<1>1. r \in InState("waiting") /\ Fields /\ r \in Requests /\ status[r] = "waiting"
  <2>1. r \in InState("waiting")
    BY CandidateWaits DEF IInv, Places, PlanInv
  <2> QED
    BY <2>1 DEF InState, IInv, Places
<1> HIDE DEF r
<1>2. InOrder(c, Token) /\ Lent(c)
  BY <1>1, TrackedBlocks
<1>3. Len(prompt[r]) \in Nat /\ Len(prompt[r]) # 0
  <2>1. prompt[r] # <<>> /\ prompt[r] \in Seq(Token)
    BY <1>1 DEF Fields, BlockInv, Asks
  <2> QED
    BY <2>1
<1> HIDE DEF c
<1>4. m \in Lookup(c, r, Len(prompt[r]))
  BY DEF c, r
<1>5. IsMatch(c, r, m)
  BY <1>1, <1>2, <1>3, <1>4, LookupMatches
<1>6. c.blocks[r] = <<>>
  BY <1>1, <1>2 DEF Lent
<1>7. MayAdopt(c, r, m) /\ Len(m) \in Nat
  BY <1>5, <1>6 DEF MayAdopt, IsMatch
<1> QED
  BY <1>1, <1>2, <1>5, <1>7, Zenon DEF c, r

LEMMA AdmitGrantBlocks ==
  ASSUME IInv, BlockInv, AdmitGrant
  PROVE  BlockInv'
<1> DEFINE r == Candidate
           c == Tracked(r)
<1>1. /\ pc = "admit" /\ waiting # <<>>
      /\ UNCHANGED <<prompt, pending_tokens>>
  BY DEF AdmitGrant, Admissible
<1>2. PICK m \in Lookup(c, r, Len(prompt[r])) :
        LET hit == Len(m) * BlockSize
            n   == hit + ChunkOf(r, hit)
        IN  /\ Fits(c, r, n, m)
            /\ cache' = TakeTableWrites(Allocate(c, r, n, m), r)
            /\ status' = [status EXCEPT ![r] = "running"]
            /\ num_computed' = [num_computed EXCEPT ![r] = n]
            /\ pending_blocks' = Append(pending_blocks, <<r, n>>)
  BY DEF AdmitGrant
<1> DEFINE hit == Len(m) * BlockSize
           n   == hit + ChunkOf(r, hit)
<1>3. /\ r \in InState("waiting") /\ r \in Requests /\ Fields
      /\ InOrder(c, Token) /\ Lent(c) /\ MayAdopt(c, r, m) /\ IsMatch(c, r, m) /\ Len(m) \in Nat
  BY <1>1, CandidateBlocks
<1>4. /\ Fits(c, r, n, m) /\ cache' = TakeTableWrites(Allocate(c, r, n, m), r)
      /\ status' = [status EXCEPT ![r] = "running"]
      /\ num_computed' = [num_computed EXCEPT ![r] = n]
      /\ pending_blocks' = Append(pending_blocks, <<r, n>>)
  BY <1>2
<1> HIDE DEF r, c
<1>5. n \in Int
  <2>1. hit \in Int
    <3>1. hit \in Nat
      BY <1>3, Times
    <3> QED
      BY <3>1
  <2> HIDE DEF hit
  <2>2. ChunkOf(r, hit) \in Int
    BY <1>3, <2>1, ChunkIsInt
  <2> QED
    BY <2>1, <2>2
<1> HIDE DEF n
<1>6. status'[r] = "running" /\ \A q \in Requests : q # r => status'[q] = status[q]
  BY <1>3, <1>4 DEF Fields
<1>7. InOrder(cache, Token)' /\ Lent(cache)'
  BY <1>3, <1>4, <1>5, <1>6, GrantBlocks
<1>8. Asks'
  <2>1. pending_blocks' \in Registered
    BY <1>3, <1>4, <1>5, RegisterMore DEF BlockInv, Asks
  <2>2. num_computed' \in [Requests -> Int]
    BY <1>4, <1>5 DEF BlockInv, Asks
  <2>3. \A q \in Requests : status'[q] # "new" => prompt'[q] # <<>>
    <3>1. status[r] = "waiting"
      BY <1>3 DEF InState
    <3> QED
      BY <1>1, <1>6, <3>1 DEF BlockInv, Asks
  <2> QED
    BY <1>1, <2>1, <2>2, <2>3 DEF BlockInv, Asks, Registered
<1> QED
  BY <1>7, <1>8 DEF BlockInv

LEMMA AdmitRefuseBlocks ==
  ASSUME IInv, BlockInv, AdmitRefuse
  PROVE  BlockInv'
<1> DEFINE r == Candidate
           c == Tracked(r)
           v == PolicyVictim
<1>1. pc = "admit" /\ waiting # <<>>
  BY DEF AdmitRefuse, Admissible
<1>2. PICK m \in Lookup(c, r, Len(prompt[r])) :
        LET refused == Free(RefuseAllocation(c, r, m), r)
        IN  \/ cache' = refused /\ UNCHANGED <<status, prompt, num_computed, pending_tokens, pending_blocks>>
            \/ v # NoRequest /\ Preempt(refused, v)
  BY DEF AdmitRefuse, reqVars
<1> DEFINE given   == RefuseAllocation(c, r, m)
           refused == Free(given, r)
<1>3. /\ r \in InState("waiting") /\ r \in Requests /\ Fields
      /\ InOrder(c, Token) /\ Lent(c) /\ MayAdopt(c, r, m) /\ IsMatch(c, r, m)
  BY <1>1, CandidateBlocks
<1>4. \/ cache' = refused /\ UNCHANGED <<status, prompt, num_computed, pending_tokens, pending_blocks>>
      \/ v # NoRequest /\ Preempt(refused, v)
  BY <1>2
<1> HIDE DEF r, c
<1>5. InOrder(given, Token) /\ \A q \in Requests : q # r => given.blocks[q] = c.blocks[q]
  BY <1>3, RefuseInOrder
<1> HIDE DEF given
<1>6. /\ InOrder(refused, Token) /\ refused.blocks[r] = <<>>
      /\ \A q \in Requests : q # r => refused.blocks[q] = given.blocks[q]
  BY <1>3, <1>5, FreeBlocksOf
<1> HIDE DEF refused
<1>7. Lent(refused)
  BY <1>3, <1>5, <1>6 DEF Lent
<1>8. CASE cache' = refused /\ UNCHANGED <<status, prompt, num_computed, pending_tokens, pending_blocks>>
  <2>1. Lent(cache)'
    BY <1>7, <1>8 DEF Lent
  <2>2. Asks'
    BY <1>8 DEF BlockInv, Asks, Registered
  <2> QED
    BY <1>6, <1>8, <2>1, <2>2 DEF BlockInv, Token
<1>9. CASE v # NoRequest /\ Preempt(refused, v)
  <2>1. v \in InState("running")
    <3>1. v = Victim(Granted)
      BY <1>9 DEF PolicyVictim
    <3> QED
      BY <1>9, <3>1, VictimRuns DEF IInv, Places
  <2> HIDE DEF v
  <2> QED
    BY <1>3, <1>6, <1>7, <1>9, <2>1, PreemptBlocks, Zenon DEF BlockInv
<1> QED
  BY <1>4, <1>8, <1>9

LEMMA SubmitBlocks ==
  ASSUME Fields, BlockInv, NEW r \in Requests, NEW p, Submit(r, p)
  PROVE  BlockInv'
<1>1. /\ status[r] = "new" /\ p # <<>>
      /\ status' = [status EXCEPT ![r] = "waiting"] /\ prompt' = [prompt EXCEPT ![r] = p]
      /\ UNCHANGED <<num_computed, pending_tokens, pending_blocks, cache>>
  BY DEF Submit, AddRequest
<1>2. \A q \in Requests : status'[q] # "new" => prompt'[q] # <<>>
  BY <1>1 DEF Fields, BlockInv, Asks
<1>3. Asks'
  BY <1>1, <1>2 DEF BlockInv, Asks, Registered
<1>4. Lent(cache)'
  BY <1>1 DEF Fields, BlockInv, Lent
<1> QED
  BY <1>1, <1>3, <1>4 DEF BlockInv

LEMMA AbortBlocks ==
  ASSUME Fields, BlockInv, NEW r \in Requests, AbortRequest(r)
  PROVE  BlockInv'
<1>1. /\ status[r] # "new" /\ Finish(r, prompt[r] \o output[r])
      /\ UNCHANGED <<prompt, num_computed, pending_tokens>>
  BY DEF AbortRequest, Abort
<1>2. prompt[r] \o output[r] \in Seq(Token)
  BY DEF Fields
<1> QED
  BY <1>1, <1>2, FinishBlocks

LEMMA HarvestStopBlocks ==
  ASSUME IInv, BlockInv, HarvestStop
  PROVE  BlockInv'
<1> DEFINE r == Head(emitted)
<1>1. /\ pc = "harvest" /\ emitted # <<>> /\ Finish(r, Sequence(r))
      /\ UNCHANGED <<prompt, num_computed, pending_tokens>>
  BY DEF HarvestStop, TakeStop
<1>2. r \in InState("running") /\ Fields
  BY <1>1, HarvestHead DEF IInv, Places, PlanInv
<1> HIDE DEF r
<1>3. r \in Requests /\ status[r] # "new"
  BY <1>2 DEF InState
<1>4. Sequence(r) \in Seq(Token)
  BY <1>2, <1>3 DEF Fields, Sequence
<1> QED
  BY <1>1, <1>2, <1>3, <1>4, FinishBlocks

LEMMA HarvestTokenBlocks ==
  ASSUME IInv, BlockInv, NEW tok \in Generated, HarvestToken(tok)
  PROVE  BlockInv'
<1> DEFINE r == Head(emitted)
<1>1. /\ pc = "harvest" /\ emitted # <<>>
      /\ Finish(r, Append(Sequence(r), tok)) \/ UNCHANGED <<status, pending_blocks, cache>>
      /\ UNCHANGED <<prompt, num_computed, pending_tokens>>
  BY DEF HarvestToken, TakeToken
<1>2. r \in InState("running") /\ Fields
  BY <1>1, HarvestHead DEF IInv, Places, PlanInv
<1> HIDE DEF r
<1>3. r \in Requests /\ status[r] # "new"
  BY <1>2 DEF InState
<1>4. Append(Sequence(r), tok) \in Seq(Token)
  <2>1. Sequence(r) \in Seq(Token) /\ tok \in Token
    BY <1>2, <1>3 DEF Fields, Sequence, Token
  <2> QED
    BY <2>1
<1>5. CASE Finish(r, Append(Sequence(r), tok))
  BY <1>1, <1>2, <1>3, <1>4, <1>5, FinishBlocks
<1>6. CASE UNCHANGED <<status, pending_blocks, cache>>
  BY <1>1, <1>6, SameBlocks DEF blockVars
<1> QED
  BY <1>1, <1>5, <1>6

LEMMA InitBlocks == Init => BlockInv
<1> SUFFICES ASSUME Init PROVE BlockInv
  OBVIOUS
<1> USE DEF Init, PlannerInit
<1> DEFINE n     == Cardinality(Blocks)
           queue == [i \in 1 .. n |-> i]
<1>1. n \in Nat /\ Blocks = 1 .. n
  BY CacheAssumption, PlannerAssumption, FS_CardinalityType, Zenon
<1>2. ListOf(queue, Blocks)
  <2> HIDE DEF n
  <2>1. /\ queue \in [1 .. n -> 1 .. n]
        /\ \A i, j \in 1 .. n : queue[i] = queue[j] => i = j
        /\ \A x \in 1 .. n : \E i \in 1 .. n : queue[i] = x
    OBVIOUS
  <2> HIDE DEF queue
  <2>2. ListOf(queue, 1 .. n)
    BY <1>1, <2>1, PlacesList, Zenon
  <2> QED
    BY <1>1, <2>2, Zenon
<1>3. cache = NewCache(queue)
  BY Zenon
<1> HIDE DEF queue, Init, PlannerInit
<1>4. InOrder(cache, Token) /\ cache.blocks = [r \in Requests |-> <<>>]
  BY <1>2, <1>3, NewInOrder
<1>5. Lent(cache)
  BY <1>4 DEF Lent
<1>6. Asks
  BY DEF Asks, Registered, Init, PlannerInit
<1> QED
  BY <1>4, <1>5, <1>6 DEF BlockInv

\* Every step of the engine keeps the cache in order.
LEMMA NextBlocks == IInv /\ BlockInv /\ [Next]_vars => BlockInv'
<1> SUFFICES ASSUME IInv, BlockInv, [Next]_vars PROVE BlockInv'
  OBVIOUS
<1>1. Fields
  BY DEF IInv, Places
<1>2. ASSUME NEW r \in Requests, NEW p \in Prompts, Submit(r, p) PROVE BlockInv'
  BY <1>1, <1>2, SubmitBlocks
<1>3. ASSUME NEW r \in Requests, AbortRequest(r) PROVE BlockInv'
  BY <1>1, <1>3, AbortBlocks
<1>4. CASE UNCHANGED vars
  BY <1>4, SameBlocks DEF vars, plannerVars, reqVars, queueVars, blockVars
<1>5. CASE Plan
  <2>1. CASE BeginPlan BY <1>1, <2>1, BeginPlanBlocks
  <2>2. CASE ResumeGrant BY <2>2, ResumeGrantBlocks
  <2>3. CASE ResumeEvict BY <2>3, ResumeEvictBlocks
  <2>4. CASE ResumeStall BY <2>4, SameBlocks DEF ResumeStall, queueVars, blockVars
  <2>5. CASE EndResume BY <2>5, SameBlocks DEF EndResume, reqVars, blockVars
  <2>6. CASE AdmitStop BY <2>6, AdmitStopBlocks
  <2>7. CASE AdmitEvict BY <2>7, AdmitEvictBlocks
  <2>8. CASE AdmitGrant BY <2>8, AdmitGrantBlocks
  <2>9. CASE AdmitRefuse BY <2>9, AdmitRefuseBlocks
  <2>10. CASE FormDecode BY <2>10, SameBlocks DEF FormDecode, reqVars, queueVars, blockVars
  <2>11. CASE GrowGrant BY <2>11, GrowGrantBlocks
  <2>12. CASE GrowEvict BY <2>12, GrowEvictBlocks
  <2>13. CASE EndPlan BY <2>13, SameBlocks DEF EndPlan, reqVars, queueVars, blockVars
  <2> QED
    BY <1>5, <2>1, <2>2, <2>3, <2>4, <2>5, <2>6, <2>7, <2>8, <2>9, <2>10, <2>11, <2>12, <2>13
       DEF Plan, PlanStep
<1>6. CASE SkipEmpty
  BY <1>6, SameBlocks DEF SkipEmpty, reqVars, queueVars, blockVars
<1>7. CASE Execute
  BY <1>7, SameBlocks DEF Execute, RunPasses, reqVars, queueVars, blockVars
<1>8. CASE HarvestStop BY <1>8, HarvestStopBlocks
<1>9. ASSUME NEW tok \in Generated, HarvestToken(tok) PROVE BlockInv'
  BY <1>9, HarvestTokenBlocks
<1>10. CASE Publish
  BY <1>10, SameBlocks DEF Publish, reqVars, queueVars, blockVars
<1>11. CASE Poll BY <1>4, <1>11 DEF Poll
<1> QED
  BY <1>2, <1>3, <1>4, <1>5, <1>6, <1>7, <1>8, <1>9, <1>10, <1>11 DEF Next, EngineStep

LEMMA LeakFromBlocks == BlockInv => NoBlockLeak
<1> SUFFICES ASSUME BlockInv PROVE NoBlockLeak
  OBVIOUS
<1>1. Lent(cache) /\ PoolInOrder(cache.ref_cnt, cache.free, cache.blocks)
  BY DEF BlockInv, InOrder
<1>2. ListOf(cache.free, {b \in Blocks : cache.ref_cnt[b] = 0})
  BY <1>1 DEF PoolInOrder
<1>3. /\ IsInjective(cache.free)
      /\ \A b \in Blocks : cache.ref_cnt[b] = 0 <=> b \in Elements(cache.free)
  BY <1>2 DEF ListOf
<1>4. \A b \in Blocks : cache.ref_cnt[b] = Cardinality({r \in Requests : b \in Holds(r)})
  BY <1>1, Zenon DEF PoolInOrder, HoldersOf, Holds
<1> QED
  BY <1>1, <1>3, <1>4 DEF NoBlockLeak, Lent

\* No path through admission, refusal, eviction, finish and abort leaks a
\* block or frees one twice: only running requests hold blocks, each block
\* counts its holders, and the free queue lists the others, each once.
THEOREM NoBlockLeakTheorem == Spec => []NoBlockLeak
<1>1. Init => IInv /\ BlockInv
  BY InitIInv, InitBlocks
<1>2. IInv /\ BlockInv /\ [Next]_vars => IInv' /\ BlockInv'
  BY NextIInv, NextBlocks
<1>3. BlockInv => NoBlockLeak
  BY LeakFromBlocks
<1> QED
  BY <1>1, <1>2, <1>3, PTL DEF Spec

-----------------------------------------------------------------------------
(***************************************************************************)
(* Progress.  How far a request is computed, and who is owed a token.      *)
(***************************************************************************)
Planning == pc \in {"resume", "admit", "batch", "grow", "execute"}

\* A request is computed within its prompt, from nothing when it waits, and
\* one that has been sampled a token has all of its prompt computed.
Counted(r) ==
  /\ pending_tokens[r] = 0 /\ num_computed[r] \in 0 .. Len(prompt[r])
  /\ status[r] \in {"new", "waiting"} => num_computed[r] = 0 /\ output[r] = <<>>
  /\ status[r] = "new" => prompt[r] = <<>>
  /\ status[r] = "running" /\ output[r] # <<>> => num_computed[r] = Len(prompt[r])

\* The first token of r is still to be sampled from its completed prompt.
Owed(r) == status[r] = "running" /\ num_computed[r] = Len(prompt[r]) /\ output[r] = <<>>

Counts == \A r \in Requests : Counted(r)

\* Nobody's first token is forgotten: it comes out of this step.
Sampling ==
  \A r \in Requests : Owed(r) =>
    (Planning /\ r \in Granted) \/ (pc = "harvest" /\ r \in Elements(emitted))

\* Tokens are sampled for completed prompts.
Completed == pc = "harvest" => \A r \in Elements(emitted) : num_computed[r] = Len(prompt[r])

\* A granted chunk is a stretch of the prompt that ends where its request is
\* computed to.
Chunks ==
  Planning => \A e \in Elements(prefill) :
    e[2] \in Nat \ {0} /\ e[2] <= num_computed[e[1]] /\ output[e[1]] = <<>>

\* Whoever Stage 1 makes room for still has a chunk to run.
Unfilled == pc = "resume" /\ current # NoRequest => num_computed[current] < Len(prompt[current])

\* A request of the decode batch has a token to feed.
Decodes ==
  pc \in {"grow", "execute"} => \A r \in Elements(decode) : status[r] = "running" => output[r] # <<>>

Progress == Counts /\ Sampling /\ Completed /\ Chunks /\ Unfilled /\ Decodes

\* The next chunk of a prompt that is not computed is at least a token long and
\* at most the rest of it, within the limits on a chunk.
LEMMA ChunkBounds ==
  ASSUME Fields, NEW r \in Requests, NEW k \in Nat, k < Len(prompt[r])
  PROVE  /\ ChunkOf(r, k) \in Nat \ {0} /\ k + ChunkOf(r, k) <= Len(prompt[r])
         /\ MaxChunkSize # 0 => ChunkOf(r, k) <= MaxChunkSize /\ ChunkOf(r, k) <= MaxNumBatchedTokens
<1> DEFINE remaining == Len(prompt[r]) - k
           S == {remaining, MaxChunkSize, MaxNumBatchedTokens}
<1>1. /\ remaining \in Nat \ {0} /\ MaxChunkSize \in Nat /\ MaxNumBatchedTokens \in Nat \ {0}
      /\ k + remaining = Len(prompt[r]) /\ Len(prompt[r]) \in Nat
  BY PlannerAssumption DEF Fields
<1>2. \E x \in S : \A y \in S : x <= y
  <2> HIDE DEF remaining
  <2> QED
    BY <1>1
<1>3. Min(S) \in S /\ \A y \in S : Min(S) <= y
  BY <1>2, Zenon DEF Min
<1>4. ChunkOf(r, k) = IF MaxChunkSize = 0 THEN remaining ELSE Min(S)
  BY Zenon DEF ChunkOf
<1> HIDE DEF remaining
<1>5. CASE MaxChunkSize = 0
  BY <1>1, <1>4, <1>5
<1>6. CASE MaxChunkSize # 0
  <2> DEFINE m == Min(S)
  <2>1. m \in S /\ m <= remaining /\ m <= MaxChunkSize /\ m <= MaxNumBatchedTokens /\ ChunkOf(r, k) = m
    BY <1>3, <1>4, <1>6, Zenon
  <2> HIDE DEF m
  <2>2. m \in Nat \ {0}
    BY <1>1, <1>6, <2>1
  <2> QED
    BY <1>1, <2>1, <2>2
<1> QED
  BY <1>5, <1>6

countVars == <<status, prompt, output, num_computed, pending_tokens>>

\* A step that leaves the requests alone.
LEMMA SameCounts ==
  ASSUME Counts, UNCHANGED countVars
  PROVE  Counts' /\ \A r \in Requests : Owed(r)' => Owed(r)
  BY DEF Counts, Counted, Owed, countVars

\* An eviction: the victim starts over with what it has as its prompt.
LEMMA EvictCounts ==
  ASSUME Fields, Asks, Counts, NEW c, NEW v \in InState("running"), Preempt(c, v)
  PROVE  /\ Counts' /\ \A r \in Requests : Owed(r)' => Owed(r)
         /\ \A r \in Requests : r # v => num_computed'[r] = num_computed[r] /\ prompt'[r] = prompt[r]
                                         /\ output'[r] = output[r] /\ status'[r] = status[r]
         /\ status'[v] = "waiting"
<1>1. /\ v \in Requests /\ status' = [status EXCEPT ![v] = "waiting"]
      /\ num_computed' = [num_computed EXCEPT ![v] = 0]
      /\ pending_tokens' = [pending_tokens EXCEPT ![v] = 0]
      /\ prompt' = [prompt EXCEPT ![v] = prompt[v] \o output[v]]
      /\ output' = [output EXCEPT ![v] = <<>>]
  BY DEF Preempt, InState
<1>2. /\ status'[v] = "waiting" /\ num_computed'[v] = 0 /\ pending_tokens'[v] = 0
      /\ prompt'[v] = prompt[v] \o output[v] /\ output'[v] = <<>>
  BY <1>1 DEF Fields, Asks
<1>3. ASSUME NEW r \in Requests, r # v
      PROVE  /\ num_computed'[r] = num_computed[r] /\ prompt'[r] = prompt[r] /\ pending_tokens'[r] = pending_tokens[r]
             /\ output'[r] = output[r] /\ status'[r] = status[r]
  BY <1>1, <1>3 DEF Fields, Asks
<1>4. Len(prompt[v] \o output[v]) \in Nat
  <2>1. prompt[v] \in Seq(Token) /\ output[v] \in Seq(Token)
    BY <1>1 DEF Fields
  <2>2. \A s, t \in Seq(Token) : Len(s \o t) \in Nat
    OBVIOUS
  <2> QED
    BY <2>1, <2>2, Zenon
<1>5. Counted(v)'
  <2>1. \A n \in Nat : 0 \in 0 .. n
    OBVIOUS
  <2>2. num_computed'[v] \in 0 .. Len(prompt'[v])
    BY <1>2, <1>4, <2>1, Zenon
  <2> QED
    BY <1>2, <2>2 DEF Counted
<1>6. ASSUME NEW r \in Requests, r # v PROVE Counted(r)' /\ (Owed(r)' => Owed(r))
  BY <1>3, <1>6, Zenon DEF Counts, Counted, Owed
<1>7. Owed(v)' => Owed(v)
  BY <1>2 DEF Owed
<1> QED
  BY <1>2, <1>3, <1>5, <1>6, <1>7, Zenon DEF Counts

\* A request is owed a token only if the plan or the harvest has it.
LEMMA SameSampling ==
  ASSUME Sampling, \A r \in Requests : Owed(r)' => Owed(r), Planning, Planning',
         \A r \in Granted : r \in Granted'
  PROVE  Sampling'
<1> SUFFICES ASSUME NEW r \in Requests, Owed(r)' PROVE Planning' /\ r \in Granted'
  BY Zenon DEF Sampling
<1>1. Owed(r) /\ pc # "harvest"
  BY DEF Planning
<1> QED
  BY <1>1, Zenon DEF Sampling

\* The chunks of an eviction's step are as they were.
LEMMA EvictProgress ==
  ASSUME IInv, Asks, Progress, NEW c, NEW v \in InState("running"), v \notin Granted, Preempt(c, v),
         Planning, Planning', prefill' = prefill
  PROVE  Counts' /\ Sampling' /\ Completed' /\ Chunks'
<1>1. Fields
  BY DEF IInv, Places
<1>2. /\ Counts' /\ \A r \in Requests : Owed(r)' => Owed(r)
      /\ \A r \in Requests : r # v => num_computed'[r] = num_computed[r] /\ prompt'[r] = prompt[r]
                                      /\ output'[r] = output[r] /\ status'[r] = status[r]
  BY <1>1, EvictCounts, Zenon DEF Progress
<1>3. Granted' = Granted /\ Elements(prefill') = Elements(prefill)
  BY Zenon DEF Granted, Elements
<1>4. Sampling'
  BY <1>2, <1>3, SameSampling DEF Progress
<1>5. Completed'
  BY DEF Planning, Completed
<1>6. Chunks'
  <2> SUFFICES ASSUME NEW e \in Elements(prefill)
               PROVE  e[2] \in Nat \ {0} /\ e[2] <= num_computed'[e[1]] /\ output'[e[1]] = <<>>
    BY <1>3, Zenon DEF Chunks
  <2>1. e[1] \in Granted
    BY GrantedFirsts, Zenon
  <2>2. e[1] \in Requests /\ e[1] # v
    BY <2>1 DEF IInv, PlanInv, Grants, Planning, InState
  <2>3. e[2] \in Nat \ {0} /\ e[2] <= num_computed[e[1]] /\ output[e[1]] = <<>>
    BY Zenon DEF Progress, Chunks
  <2> QED
    BY <1>2, <2>2, <2>3
<1> QED
  BY <1>2, <1>4, <1>5, <1>6

\* A grant: r, who has none, gets the chunk that ends at n.
LEMMA GrantProgress ==
  ASSUME IInv, Asks, Progress, NEW r \in Requests, r \notin Granted, output[r] = <<>>,
         NEW k \in Nat \ {0}, NEW n \in 0 .. Len(prompt[r]), k <= n,
         Planning, Planning', prefill' = Append(prefill, <<r, k>>),
         num_computed' = [num_computed EXCEPT ![r] = n], status'[r] = "running",
         \A q \in Requests : q # r => status'[q] = status[q],
         UNCHANGED <<prompt, output, pending_tokens>>
  PROVE  Counts' /\ Sampling' /\ Completed' /\ Chunks'
<1>1. Fields /\ Apart
  BY DEF IInv, Places, PlanInv, Grants, Apart, Planning
<1>2. Apart' /\ Granted' = Granted \cup {r}
  BY <1>1, GrantMore
<1>3. num_computed'[r] = n /\ \A q \in Requests : q # r => num_computed'[q] = num_computed[q]
  BY DEF Asks
<1>4. ASSUME NEW q \in Requests, q # r PROVE Counted(q)' /\ (Owed(q)' => Owed(q))
  <2>1. Counted(q)
    BY DEF Progress, Counts
  <2> QED
    BY <1>3, <1>4, <2>1, Zenon DEF Counted, Owed
<1>5. Counted(r)'
  <2>1. Counted(r)
    BY DEF Progress, Counts
  <2> QED
    BY <1>3, <2>1 DEF Counted
<1>6. Counts'
  BY <1>4, <1>5 DEF Counts
<1>7. Sampling'
  <2> SUFFICES ASSUME NEW q \in Requests, Owed(q)' PROVE q \in Granted'
    BY Zenon DEF Sampling
  <2>1. CASE q = r
    BY <1>2, <2>1
  <2>2. CASE q # r
    <3>1. Owed(q) /\ pc # "harvest"
      BY <1>4, <2>2 DEF Planning
    <3> QED
      BY <1>2, <3>1, Zenon DEF Progress, Sampling
  <2> QED
    BY <2>1, <2>2
<1>8. Completed'
  BY DEF Planning, Completed
<1>9. Chunks'
  <2> SUFFICES ASSUME NEW e \in Elements(prefill')
               PROVE  e[2] \in Nat \ {0} /\ e[2] <= num_computed'[e[1]] /\ output'[e[1]] = <<>>
    BY Zenon DEF Chunks
  <2>1. e \in Elements(prefill) \/ e = <<r, k>>
    <3>1. prefill \in Seq(Elements(prefill))
      BY <1>1 DEF Apart, ListOf
    <3> DEFINE g == <<r, k>>
    <3> HIDE DEF g
    <3>2. PICK i \in 1 .. Len(Append(prefill, g)) : e = Append(prefill, g)[i]
      BY DEF Elements, g
    <3>3. (i \in 1 .. Len(prefill) /\ e = prefill[i]) \/ e = g
      BY <3>1, <3>2
    <3> QED
      BY <3>3, Zenon DEF Elements, g
  <2>2. CASE e = <<r, k>>
    BY <1>3, <2>2
  <2>3. CASE e \in Elements(prefill)
    <3>1. e[1] \in Granted
      BY <2>3, GrantedFirsts, Zenon
    <3>2. e[1] \in Requests /\ e[1] # r
      BY <3>1 DEF IInv, PlanInv, Grants, Planning, InState
    <3>3. e[2] \in Nat \ {0} /\ e[2] <= num_computed[e[1]] /\ output[e[1]] = <<>>
      BY <2>3, Zenon DEF Progress, Chunks
    <3> QED
      BY <1>3, <3>2, <3>3
  <2> QED
    BY <2>1, <2>2, <2>3
<1> QED
  BY <1>6, <1>7, <1>8, <1>9

-----------------------------------------------------------------------------
(* The steps of plan(), and the progress. *)

\* Stage 1 is at a request that still has a chunk to run.
LEMMA ResumingUnfilled ==
  ASSUME IInv, Asks, Progress, pc = "resume", current # NoRequest \/ ToResume # {}
  PROVE  LET r == Resuming
         IN  /\ r \in InState("running") /\ r \in Requests /\ r \notin Granted
             /\ num_computed[r] \in Nat /\ num_computed[r] < Len(prompt[r]) /\ output[r] = <<>>
<1> DEFINE r == Resuming
<1>1. r \in InState("running") /\ r \notin Granted /\ Fields /\ cursor \in Nat \ {0}
  BY ResumingRuns DEF IInv, Places, PlanInv, Locals
<1>2. /\ Len(running) \in Nat
      /\ \A i \in 1 .. Len(running) : running[i] \in InState("running")
  BY ListPlaces, Zenon DEF IInv, Places, Queues
<1>3. r \in Requests /\ status[r] = "running"
  BY <1>1 DEF InState
<1>4. Len(prompt[r]) \in Nat /\ num_computed[r] \in 0 .. Len(prompt[r])
      /\ (output[r] # <<>> => num_computed[r] = Len(prompt[r]))
  <2> HIDE DEF r
  <2>1. Counted(r) /\ prompt[r] \in Seq(Token)
    BY <1>1, <1>3 DEF Progress, Counts, Fields
  <2> QED
    BY <1>3, <2>1 DEF Counted
<1>5. num_computed[r] < Len(prompt[r])
  <2>1. CASE current # NoRequest
    <3>1. r = current
      BY <2>1 DEF Resuming
    <3> HIDE DEF r
    <3> QED
      BY <2>1, <3>1 DEF Progress, Unfilled
  <2>2. CASE current = NoRequest
    <3> DEFINE m == Min(ToResume)
    <3>1. ToResume # {} /\ r = running[m]
      BY <2>2 DEF Resuming
    <3>2. \A i \in ToResume : i \in Nat /\ ~PrefillDone(running[i])
      BY <1>1, <1>2 DEF ToResume
    <3>3. m \in ToResume
      BY <3>1, <3>2, MinIsLeast, Zenon
    <3> HIDE DEF m
    <3>4. ~PrefillDone(r)
      BY <3>1, <3>2, <3>3, Zenon
    <3> HIDE DEF r
    <3> QED
      BY <1>4, <3>4 DEF PrefillDone
  <2> QED
    BY <2>1, <2>2
<1> HIDE DEF r
<1>6. num_computed[r] \in Nat /\ output[r] = <<>>
  BY <1>4, <1>5
<1> QED
  BY <1>1, <1>3, <1>5, <1>6 DEF r

\* plan() starts: nothing is granted yet (scheduler.py plan).
LEMMA BeginPlanProgress ==
  ASSUME IInv, Progress, BeginPlan
  PROVE  Progress'
<1>1. /\ pc = "idle" /\ pc' = "resume" /\ current' = NoRequest /\ prefill' = <<>>
      /\ UNCHANGED countVars
  BY DEF BeginPlan, reqVars, countVars
<1>2. Counts' /\ \A r \in Requests : Owed(r)' => Owed(r)
  BY <1>1, SameCounts DEF Progress
<1>3. \A r \in Requests : ~Owed(r)
  BY <1>1 DEF Progress, Sampling, Planning
<1>4. Elements(prefill') = {}
  <2>1. 1 .. Len(prefill') = {}
    BY <1>1
  <2> QED
    BY <2>1, Zenon DEF Elements
<1>5. Sampling' /\ Completed' /\ Chunks' /\ Unfilled' /\ Decodes'
  BY <1>1, <1>2, <1>3, <1>4 DEF Sampling, Completed, Chunks, Unfilled, Decodes
<1> QED
  BY <1>2, <1>5 DEF Progress

\* Stage 1 grants a running request its next chunk: it counts the chunk as
\* computed before it runs, and the chunk is the last thing on the list.
LEMMA ResumeGrantProgress ==
  ASSUME IInv, Asks, Progress, ResumeGrant
  PROVE  Progress'
<1> DEFINE r == Resuming
           n == num_computed[r]
           k == ChunkOf(r, n)
<1>1. /\ pc = "resume" /\ pc' = "resume" /\ current' = NoRequest
      /\ current # NoRequest \/ ToResume # {}
      /\ prefill' = Append(prefill, <<r, (n + k) - n>>)
      /\ num_computed' = [num_computed EXCEPT ![r] = n + k]
      /\ UNCHANGED <<status, prompt, output, pending_tokens>>
  BY DEF ResumeGrant, ResumeReach
<1>2. /\ r \in InState("running") /\ r \in Requests /\ r \notin Granted
      /\ n \in Nat /\ n < Len(prompt[r]) /\ output[r] = <<>>
  BY <1>1, ResumingUnfilled
<1> HIDE DEF r
<1>3. Fields /\ Len(prompt[r]) \in Nat
  BY <1>2 DEF IInv, Places, Fields
<1> HIDE DEF n
<1>4. k \in Nat \ {0} /\ n + k <= Len(prompt[r])
  BY <1>2, <1>3, ChunkBounds
<1> HIDE DEF k
<1>5. n + k \in 0 .. Len(prompt[r]) /\ k <= n + k /\ (n + k) - n = k
  BY <1>2, <1>3, <1>4
<1>6. prefill' = Append(prefill, <<r, k>>)
  BY <1>1, <1>5, Zenon
<1>7. Planning /\ Planning' /\ status'[r] = "running" /\ \A q \in Requests : q # r => status'[q] = status[q]
  BY <1>1, <1>2 DEF Planning, InState
<1>8. Counts' /\ Sampling' /\ Completed' /\ Chunks'
  BY <1>1, <1>2, <1>4, <1>5, <1>6, <1>7, GrantProgress
<1>9. Unfilled' /\ Decodes'
  BY <1>1 DEF Unfilled, Decodes
<1> QED
  BY <1>8, <1>9 DEF Progress

\* Stage 1 preempts a request, which is then counted from nothing.
LEMMA ResumeEvictProgress ==
  ASSUME IInv, Asks, Progress, ResumeEvict
  PROVE  Progress'
<1> DEFINE r == Resuming
           v == Victim(Granted \cup {r})
<1>1. /\ pc = "resume" /\ pc' = "resume" /\ current' = r
      /\ current # NoRequest \/ ToResume # {}
      /\ v # NoRequest /\ Preempt(cache, v) /\ prefill' = prefill
  BY DEF ResumeEvict
<1>2. /\ r \in InState("running") /\ r \in Requests /\ r \notin Granted
      /\ num_computed[r] \in Nat /\ num_computed[r] < Len(prompt[r])
  BY <1>1, ResumingUnfilled
<1>3. v \in InState("running") /\ v \notin Granted /\ v # r
  <2>1. Queues
    BY DEF IInv, Places
  <2>2. v \in InState("running") /\ v \notin Granted \cup {r}
    BY <1>1, <2>1, VictimRuns, Zenon
  <2> QED
    BY <2>2, Zenon
<1> HIDE DEF r, v
<1>4. Planning /\ Planning' /\ Fields
  BY <1>1 DEF Planning, IInv, Places
<1>5. Counts' /\ Sampling' /\ Completed' /\ Chunks'
  BY <1>1, <1>3, <1>4, EvictProgress
<1>6. num_computed'[r] = num_computed[r] /\ prompt'[r] = prompt[r]
  BY <1>1, <1>2, <1>3, <1>4, EvictCounts DEF Progress
<1>7. Unfilled' /\ Decodes'
  BY <1>1, <1>2, <1>6 DEF Unfilled, Decodes
<1> QED
  BY <1>5, <1>7 DEF Progress

\* A step of the plan that leaves the requests and the chunks alone, and makes
\* room for nobody.
LEMMA PlanProgress ==
  ASSUME Progress, UNCHANGED countVars, prefill' = prefill, Planning, Planning',
         pc' = "resume" => current' = NoRequest
  PROVE  Counts' /\ Sampling' /\ Completed' /\ Chunks' /\ Unfilled'
<1>1. Counts' /\ \A r \in Requests : Owed(r)' => Owed(r)
  BY SameCounts DEF Progress
<1>2. Granted' = Granted /\ Elements(prefill') = Elements(prefill)
  BY Zenon DEF Granted, Elements
<1>3. Sampling'
  BY <1>1, <1>2, SameSampling DEF Progress
<1>4. Completed' /\ Unfilled'
  BY DEF Planning, Completed, Unfilled
<1>5. Chunks'
  BY <1>2, Zenon DEF Progress, Chunks, countVars
<1> QED
  BY <1>1, <1>3, <1>4, <1>5

\* Stage 1 leaves a request without a chunk.
LEMMA ResumeStallProgress ==
  ASSUME Progress, ResumeStall
  PROVE  Progress'
<1>1. pc = "resume" /\ pc' = "resume" /\ current' = NoRequest /\ prefill' = prefill /\ UNCHANGED countVars
  BY DEF ResumeStall, countVars
<1>2. Counts' /\ Sampling' /\ Completed' /\ Chunks' /\ Unfilled'
  BY <1>1, PlanProgress DEF Planning
<1> QED
  BY <1>1, <1>2 DEF Progress, Decodes

\* Stage 1 is done.
LEMMA EndResumeProgress ==
  ASSUME Progress, EndResume
  PROVE  Progress'
<1>1. pc = "resume" /\ pc' \in {"batch", "admit"} /\ prefill' = prefill /\ UNCHANGED countVars
  BY DEF EndResume, countVars, reqVars
<1>2. Counts' /\ Sampling' /\ Completed' /\ Chunks' /\ Unfilled'
  BY <1>1, PlanProgress DEF Planning
<1> QED
  BY <1>1, <1>2 DEF Progress, Decodes

\* Admission stops: no candidate, no slot, or no budget.
LEMMA AdmitStopProgress ==
  ASSUME Progress, AdmitStop
  PROVE  Progress'
<1>1. pc = "admit" /\ pc' = "batch" /\ prefill' = prefill /\ UNCHANGED countVars
  BY DEF AdmitStop, countVars, reqVars
<1>2. Counts' /\ Sampling' /\ Completed' /\ Chunks' /\ Unfilled'
  BY <1>1, PlanProgress DEF Planning
<1> QED
  BY <1>1, <1>2 DEF Progress, Decodes

\* Admission preempts a request to make room.
LEMMA AdmitEvictProgress ==
  ASSUME IInv, Asks, Progress, AdmitEvict
  PROVE  Progress'
<1> DEFINE v == PolicyVictim
<1>1. /\ pc = "admit" /\ pc' = "admit" /\ prefill' = prefill
      /\ v # NoRequest /\ Preempt(Tracked(Candidate), v)
  BY DEF AdmitEvict
<1>2. v \in InState("running") /\ v \notin Granted
  <2>1. v = Victim(Granted)
    BY <1>1 DEF PolicyVictim
  <2> QED
    BY <1>1, <2>1, VictimRuns DEF IInv, Places
<1> HIDE DEF v
<1>3. Counts' /\ Sampling' /\ Completed' /\ Chunks'
  BY <1>1, <1>2, EvictProgress DEF Planning
<1> QED
  BY <1>1, <1>3 DEF Progress, Unfilled, Decodes

\* Admission finds no room, even after its preemptions.
LEMMA AdmitRefuseProgress ==
  ASSUME IInv, Asks, Progress, AdmitRefuse
  PROVE  Progress'
<1> DEFINE v == PolicyVictim
<1>1. /\ pc = "admit" /\ pc' = "batch" /\ prefill' = prefill
      /\ \/ UNCHANGED reqVars
         \/ v # NoRequest /\ \E c : Preempt(c, v)
  BY DEF AdmitRefuse, Admissible
<1>2. Counts' /\ Sampling' /\ Completed' /\ Chunks'
  <2>1. CASE UNCHANGED reqVars
    <3>1. UNCHANGED countVars
      BY <2>1 DEF countVars, reqVars
    <3> QED
      BY <1>1, <3>1, PlanProgress DEF Planning
  <2>2. CASE v # NoRequest /\ \E c : Preempt(c, v)
    <3>1. v \in InState("running") /\ v \notin Granted
      <4>1. v = Victim(Granted)
        BY <2>2 DEF PolicyVictim
      <4> QED
        BY <2>2, <4>1, VictimRuns DEF IInv, Places
    <3>2. PICK c : Preempt(c, v)
      BY <2>2
    <3> HIDE DEF v
    <3> QED
      BY <1>1, <3>1, <3>2, EvictProgress DEF Planning
  <2> QED
    BY <1>1, <2>1, <2>2
<1> QED
  BY <1>1, <1>2 DEF Progress, Unfilled, Decodes

\* Admission runs the first chunk of a waiting request, after its cache hit.
LEMMA AdmitGrantProgress ==
  ASSUME IInv, BlockInv, Progress, AdmitGrant
  PROVE  Progress'
<1> DEFINE r == Candidate
           c == Tracked(r)
<1>1. /\ pc = "admit" /\ pc' \in {"admit", "batch"} /\ waiting # <<>>
      /\ UNCHANGED <<prompt, output, pending_tokens>>
  BY DEF AdmitGrant, Admissible
<1>2. PICK m \in Lookup(c, r, Len(prompt[r])) :
        LET hit == Len(m) * BlockSize
            k   == ChunkOf(r, hit)
        IN  /\ status' = [status EXCEPT ![r] = "running"]
            /\ num_computed' = [num_computed EXCEPT ![r] = hit + k]
            /\ prefill' = Append(prefill, <<r, k>>)
  BY DEF AdmitGrant
<1>3. r \in InState("waiting") /\ r \in Requests /\ Fields /\ InOrder(c, Token)
  BY <1>1, CandidateBlocks
<1> DEFINE hit == Len(m) * BlockSize
           k   == ChunkOf(r, hit)
<1>4. /\ status' = [status EXCEPT ![r] = "running"]
      /\ num_computed' = [num_computed EXCEPT ![r] = hit + k]
      /\ prefill' = Append(prefill, <<r, k>>)
  BY <1>2
<1> HIDE DEF c
<1>5. Len(prompt[r]) \in Nat \ {0} /\ status[r] = "waiting" /\ output[r] = <<>>
  <2>1. status[r] = "waiting" /\ prompt[r] \in Seq(Token)
    BY <1>3 DEF InState, Fields
  <2>2. prompt[r] # <<>> /\ output[r] = <<>>
    BY <1>3, <2>1 DEF BlockInv, Asks, Progress, Counts, Counted
  <2> HIDE DEF r
  <2> QED
    BY <2>1, <2>2
<1>6. hit \in Nat /\ hit < Len(prompt[r])
  BY <1>3, <1>5, HitLeavesOne
<1> HIDE DEF hit, r
<1>7. k \in Nat \ {0} /\ hit + k <= Len(prompt[r])
  BY <1>3, <1>6, ChunkBounds
<1> HIDE DEF k
<1>8. hit + k \in 0 .. Len(prompt[r]) /\ k <= hit + k
  BY <1>5, <1>6, <1>7
<1>9. r \notin Granted
  BY <1>1, <1>5 DEF IInv, PlanInv, Grants, InState
<1>10. status'[r] = "running" /\ \A q \in Requests : q # r => status'[q] = status[q]
  BY <1>3, <1>4 DEF Fields
<1>11. Counts' /\ Sampling' /\ Completed' /\ Chunks'
  BY <1>1, <1>3, <1>4, <1>5, <1>7, <1>8, <1>9, <1>10, GrantProgress DEF Planning, BlockInv
<1>12. Unfilled' /\ Decodes'
  BY <1>1 DEF Unfilled, Decodes
<1> QED
  BY <1>11, <1>12 DEF Progress

\* The batch is made of those who have been sampled a token.
LEMMA FormDecodeProgress ==
  ASSUME IInv, Progress, FormDecode
  PROVE  Progress'
<1> DEFINE K == {i \in 1 .. Len(running) : PrefillDone(running[i]) /\ running[i] \notin Granted}
<1>1. /\ pc = "batch" /\ pc' = "grow" /\ prefill' = prefill
      /\ decode' = ElementsAt(running, K) /\ UNCHANGED countVars
  BY DEF FormDecode, countVars, reqVars
<1>2. Counts' /\ Sampling' /\ Completed' /\ Chunks' /\ Unfilled'
  BY <1>1, PlanProgress DEF Planning
<1>3. ListOf(running, InState("running")) /\ Fields
  BY DEF IInv, Places, Queues
<1>4. Elements(decode') = {running[p] : p \in K}
  <2>1. K \subseteq 1 .. Len(running)
    BY Zenon
  <2> HIDE DEF K
  <2>2. ListOf(decode', {running[p] : p \in K})
    BY <1>1, <1>3, <2>1, ListAt, Zenon
  <2> QED
    BY <2>2, Zenon DEF ListOf
<1>5. ASSUME NEW p \in K PROVE output[running[p]] # <<>>
  <2> DEFINE r == running[p]
  <2>1. r \in Requests /\ status[r] = "running" /\ PrefillDone(r) /\ r \notin Granted
    <3>1. \A i \in 1 .. Len(running) : running[i] \in InState("running")
      BY <1>3, ListPlaces, Zenon
    <3> QED
      BY <3>1 DEF InState
  <2> HIDE DEF r, K
  <2>2. num_computed[r] = Len(prompt[r])
    <3>1. Counted(r) /\ prompt[r] \in Seq(Token)
      BY <1>3, <2>1 DEF Progress, Counts, Fields
    <3> QED
      BY <2>1, <3>1 DEF Counted, PrefillDone
  <2>3. ~Owed(r)
    BY <1>1, <2>1 DEF Progress, Sampling
  <2> QED
    BY <2>1, <2>2, <2>3 DEF Owed, r
<1> HIDE DEF K
<1>6. Decodes'
  BY <1>1, <1>4, <1>5, Zenon DEF Decodes, countVars
<1> QED
  BY <1>2, <1>6 DEF Progress

\* A decode of the batch gets its block.
LEMMA GrowGrantProgress ==
  ASSUME Progress, GrowGrant
  PROVE  Progress'
<1>1. pc = "grow" /\ pc' = "grow" /\ prefill' = prefill /\ decode' = decode /\ UNCHANGED countVars
  BY DEF GrowGrant, countVars
<1>2. Counts' /\ Sampling' /\ Completed' /\ Chunks' /\ Unfilled'
  BY <1>1, PlanProgress DEF Planning
<1>3. Decodes'
  BY <1>1, Zenon DEF Progress, Decodes, countVars
<1> QED
  BY <1>2, <1>3 DEF Progress

\* Whom Stage 3 evicts: a running request that no chunk was granted to.
LEMMA GrowVictim ==
  ASSUME IInv, pc = "grow", ToGrow # {}
  PROVE  LET v == IF Victim(GrowProtects(Growing)) # NoRequest
                  THEN Victim(GrowProtects(Growing)) ELSE Growing
         IN  v \in InState("running") /\ v \notin Granted
<1>1. Elements(decode) \cap Granted = {}
  BY DEF IInv, PlanInv, Batch
<1>2. CASE Victim(GrowProtects(Growing)) # NoRequest
  <2>1. Victim(GrowProtects(Growing)) \in InState("running")
        /\ Victim(GrowProtects(Growing)) \notin GrowProtects(Growing)
    BY <1>2, VictimRuns DEF IInv, Places
  <2>2. Granted \subseteq GrowProtects(Growing)
    BY Zenon DEF GrowProtects
  <2> QED
    BY <1>2, <2>1, <2>2, Zenon
<1>3. CASE Victim(GrowProtects(Growing)) = NoRequest
  <2>1. Growing \in Elements(decode) /\ Growing \in InState("running")
    BY GrowingRuns DEF IInv, PlanInv
  <2> QED
    BY <1>1, <1>3, <2>1, Zenon
<1> QED
  BY <1>2, <1>3

\* A decode of the batch is given up, or another one for it.
LEMMA GrowEvictProgress ==
  ASSUME IInv, Asks, Progress, GrowEvict
  PROVE  Progress'
<1> DEFINE v == IF Victim(GrowProtects(Growing)) # NoRequest
                THEN Victim(GrowProtects(Growing)) ELSE Growing
<1>1. /\ pc = "grow" /\ pc' = "grow" /\ ToGrow # {} /\ Preempt(cache, v)
      /\ prefill' = prefill /\ decode' = decode
  BY DEF GrowEvict
<1>2. v \in InState("running") /\ v \notin Granted
  BY <1>1, GrowVictim
<1> HIDE DEF v
<1>3. Counts' /\ Sampling' /\ Completed' /\ Chunks'
  BY <1>1, <1>2, EvictProgress DEF Planning
<1>4. /\ \A r \in Requests : r # v => output'[r] = output[r] /\ status'[r] = status[r]
      /\ status'[v] = "waiting"
  BY <1>1, <1>2, EvictCounts DEF Progress, IInv, Places
<1>5. Elements(decode) \subseteq Requests
  BY <1>1 DEF IInv, PlanInv, Batch
<1>6. Decodes'
  <2> SUFFICES ASSUME NEW r \in Elements(decode), status'[r] = "running" PROVE output'[r] # <<>>
    BY <1>1, Zenon DEF Decodes
  <2>1. r # v /\ r \in Requests
    BY <1>4, <1>5
  <2> QED
    BY <1>1, <1>4, <2>1 DEF Progress, Decodes
<1> QED
  BY <1>1, <1>3, <1>6 DEF Progress, Unfilled

\* The batch of the complete plan: those of it who still run.
LEMMA EndPlanBatch ==
  ASSUME IInv, EndPlan
  PROVE  Elements(decode') = {r \in Elements(decode) : status[r] = "running"}
<1> DEFINE K == {i \in 1 .. Len(decode) : status[decode[i]] = "running"}
<1>1. pc = "grow" /\ decode' = ElementsAt(decode, K)
  BY DEF EndPlan
<1>2. ListOf(decode, Elements(decode))
  BY <1>1 DEF IInv, PlanInv, Batch
<1>3. K \subseteq 1 .. Len(decode)
  BY Zenon
<1>4. {decode[p] : p \in K} = {r \in Elements(decode) : status[r] = "running"}
  BY Zenon DEF Elements
<1> HIDE DEF K
<1>5. ListOf(decode', {decode[p] : p \in K})
  BY <1>1, <1>2, <1>3, ListAt, Zenon
<1> QED
  BY <1>4, <1>5, Zenon DEF ListOf

\* The plan is complete.
LEMMA EndPlanProgress ==
  ASSUME IInv, Progress, EndPlan
  PROVE  Progress'
<1>1. pc = "grow" /\ pc' = "execute" /\ prefill' = prefill /\ UNCHANGED countVars
  BY DEF EndPlan, countVars, reqVars
<1>2. Counts' /\ Sampling' /\ Completed' /\ Chunks' /\ Unfilled'
  BY <1>1, PlanProgress DEF Planning
<1>3. Decodes'
  BY <1>1, EndPlanBatch, Zenon DEF Progress, Decodes, countVars
<1> QED
  BY <1>2, <1>3 DEF Progress

\* Who a prefill pass samples a token for.
LEMMA SampledElements ==
  ASSUME Apart, NEW P, P \subseteq 1 .. Len(prefill)
  PROVE  Elements(Sampled(P)) =
           {prefill[i][1] : i \in {i \in P : num_computed[prefill[i][1]] = Len(prompt[prefill[i][1]])}}
<1> DEFINE K    == {i \in P : num_computed[prefill[i][1]] = Len(prompt[prefill[i][1]])}
           done == ElementsAt(prefill, K)
           D    == {prefill[i] : i \in K}
<1>1. ListOf(prefill, Elements(prefill))
      /\ \A d, e \in Elements(prefill) : d[1] = e[1] => d = e
  BY DEF Apart
<1>2. K \subseteq 1 .. Len(prefill)
  BY Zenon
<1>3. Sampled(P) = [i \in 1 .. Len(done) |-> done[i][1]]
  BY Zenon DEF Sampled
<1> HIDE DEF K
<1>4. ListOf(done, D)
  BY <1>1, <1>2, ListAt, Zenon
<1>5. \A d, e \in D : d[1] = e[1] => d = e
  <2>1. D \subseteq Elements(prefill)
    BY <1>2, Zenon DEF Elements
  <2> QED
    BY <1>1, <2>1, Zenon
<1>6. ListOf([i \in 1 .. Len(done) |-> done[i][1]], {e[1] : e \in D})
  <2> HIDE DEF done, D
  <2> QED
    BY <1>4, <1>5, ListFirsts, Zenon
<1>7. {e[1] : e \in D} = {prefill[i][1] : i \in K}
  BY Zenon
<1> QED
  BY <1>3, <1>6, <1>7, Zenon DEF ListOf, K

\* Who the step samples a token for.
LEMMA ExecuteEmits ==
  ASSUME IInv, Execute
  PROVE  \A r \in Requests : r \in Elements(emitted') <=>
           (r \in Granted /\ num_computed[r] = Len(prompt[r])) \/ r \in Elements(decode)
<1> DEFINE F == Sampled(FreshPlaces)
           R == Sampled(ResumedPlaces)
<1>1. pc = "execute" /\ emitted' = F \o R \o decode
  BY DEF Execute, RunPasses
<1>2. Apart /\ ListOf(decode, Elements(decode))
  BY <1>1 DEF IInv, PlanInv, Grants, Apart, Batch
<1>3. FreshPlaces \subseteq 1 .. Len(prefill) /\ ResumedPlaces \subseteq 1 .. Len(prefill)
      /\ FreshPlaces \cup ResumedPlaces = 1 .. Len(prefill)
  BY Zenon DEF FreshPlaces, ResumedPlaces
<1>4. (\E T : ListOf(F, T)) /\ (\E T : ListOf(R, T))
  BY <1>2, <1>3, SampledList, Zenon
<1> DEFINE Done(i) == num_computed[prefill[i][1]] = Len(prompt[prefill[i][1]])
<1>5. /\ Elements(F) = {prefill[i][1] : i \in {i \in FreshPlaces : Done(i)}}
      /\ Elements(R) = {prefill[i][1] : i \in {i \in ResumedPlaces : Done(i)}}
  BY <1>2, <1>3, SampledElements, Zenon
<1>6. Elements(F) \cup Elements(R) = {prefill[i][1] : i \in {i \in 1 .. Len(prefill) : Done(i)}}
  BY <1>3, <1>5, Zenon
<1>7. \A r : r \in Elements(F) \cup Elements(R) <=> r \in Granted /\ num_computed[r] = Len(prompt[r])
  BY <1>6, Zenon DEF Granted
<1> HIDE DEF F, R
<1>8. (\E T : F \in Seq(T)) /\ (\E T : R \in Seq(T)) /\ (\E T : decode \in Seq(T))
  BY <1>2, <1>4, Zenon DEF ListOf
<1>9. Elements(emitted') = Elements(F) \cup Elements(R) \cup Elements(decode)
  <2>1. ASSUME NEW T, NEW U, NEW s \in Seq(T), NEW w \in Seq(U)
        PROVE  (\E V : s \o w \in Seq(V)) /\ Elements(s \o w) = Elements(s) \cup Elements(w)
    <3>1. s \in Seq(T \cup U) /\ w \in Seq(T \cup U)
      OBVIOUS
    <3>2. /\ s \o w \in Seq(T \cup U) /\ Len(s \o w) = Len(s) + Len(w) /\ Len(s) \in Nat /\ Len(w) \in Nat
          /\ \A i \in 1 .. Len(s) + Len(w) : (s \o w)[i] = IF i <= Len(s) THEN s[i] ELSE w[i - Len(s)]
      BY <3>1
    <3> DEFINE x == s \o w
               a == Len(s)
               b == Len(w)
    <3> HIDE DEF x
    <3>3. ASSUME NEW i \in 1 .. Len(x) PROVE x[i] \in Elements(s) \cup Elements(w)
      <4>1. CASE i <= a
        <5>1. i \in 1 .. a /\ x[i] = s[i]
          BY <3>2, <3>3, <4>1 DEF x
        <5> QED
          BY <5>1, Zenon DEF Elements
      <4>2. CASE ~(i <= a)
        <5>1. i - a \in 1 .. b /\ x[i] = w[i - a]
          BY <3>2, <3>3, <4>2 DEF x
        <5> QED
          BY <5>1, Zenon DEF Elements
      <4> QED
        BY <4>1, <4>2
    <3>4. ASSUME NEW i \in 1 .. a PROVE s[i] \in Elements(x)
      <4>1. i \in 1 .. Len(x) /\ x[i] = s[i]
        BY <3>2, <3>4 DEF x
      <4> QED
        BY <4>1, Zenon DEF Elements
    <3>5. ASSUME NEW i \in 1 .. b PROVE w[i] \in Elements(x)
      <4>1. i + a \in 1 .. Len(x) /\ x[i + a] = w[i]
        <5>1. (i + a) - a = i /\ i + a \in 1 .. a + b /\ ~(i + a <= a)
          BY <3>2, <3>5
        <5> QED
          BY <3>2, <5>1 DEF x
      <4> QED
        BY <4>1, Zenon DEF Elements
    <3>6. Elements(x) = Elements(s) \cup Elements(w)
      BY <3>3, <3>4, <3>5, Zenon DEF Elements
    <3> QED
      BY <3>2, <3>6, Zenon DEF x
  <2>2. (\E V : F \o R \in Seq(V)) /\ Elements(F \o R) = Elements(F) \cup Elements(R)
    <3>1. PICK T : F \in Seq(T)
      BY <1>8
    <3>2. PICK U : R \in Seq(U)
      BY <1>8
    <3> QED
      BY <2>1, <3>1, <3>2
  <2> DEFINE g == F \o R
  <2>3. (\E V : g \in Seq(V)) /\ Elements(g) = Elements(F) \cup Elements(R) /\ emitted' = g \o decode
    BY <1>1, <2>2
  <2> HIDE DEF g
  <2>4. Elements(g \o decode) = Elements(g) \cup Elements(decode)
    <3>1. PICK T : g \in Seq(T)
      BY <2>3
    <3>2. PICK U : decode \in Seq(U)
      BY <1>8
    <3> QED
      BY <2>1, <3>1, <3>2
  <2> QED
    BY <2>3, <2>4, Zenon
<1> QED
  BY <1>7, <1>9, Zenon

-----------------------------------------------------------------------------
(* The device and the harvest, and the progress. *)

\* The device runs the plan: it samples for those whose prompt is complete.
LEMMA ExecuteProgress ==
  ASSUME IInv, Progress, Execute
  PROVE  Progress'
<1>1. pc = "execute" /\ pc' = "harvest" /\ UNCHANGED countVars
  BY DEF Execute, RunPasses, countVars, reqVars
<1>2. Counts' /\ \A r \in Requests : Owed(r)' => Owed(r)
  BY <1>1, SameCounts DEF Progress
<1>3. \A r \in Requests : r \in Elements(emitted') <=>
           (r \in Granted /\ num_computed[r] = Len(prompt[r])) \/ r \in Elements(decode)
  BY ExecuteEmits
<1>4. Elements(emitted') \subseteq Requests
  <2>1. IInv'
    BY ExecuteStep
  <2> QED
    BY <1>1, <2>1 DEF IInv, PlanInv, Emission, InState
<1>5. Sampling'
  <2> SUFFICES ASSUME NEW r \in Requests, Owed(r)' PROVE r \in Elements(emitted')
    BY <1>1, Zenon DEF Sampling
  <2>1. Owed(r)
    BY <1>2
  <2>2. r \in Granted /\ num_computed[r] = Len(prompt[r])
    BY <1>1, <2>1 DEF Progress, Sampling, Owed
  <2> QED
    BY <1>3, <2>2
<1>6. Completed'
  <2> SUFFICES ASSUME NEW r \in Elements(emitted') PROVE num_computed[r] = Len(prompt[r])
    BY <1>1, Zenon DEF Completed, countVars
  <2>1. r \in Requests
    BY <1>4
  <2>2. CASE r \in Elements(decode)
    <3>1. status[r] = "running" /\ output[r] # <<>>
      BY <1>1, <2>2 DEF IInv, PlanInv, BatchRuns, InState, Progress, Decodes
    <3> QED
      BY <2>1, <3>1 DEF Progress, Counts, Counted
  <2> QED
    BY <1>3, <2>1, <2>2
<1>7. Chunks' /\ Unfilled' /\ Decodes'
  BY <1>1 DEF Planning, Chunks, Unfilled, Decodes
<1> QED
  BY <1>2, <1>5, <1>6, <1>7 DEF Progress

\* An empty plan is not run.
LEMMA SkipEmptyProgress ==
  ASSUME Progress, SkipEmpty
  PROVE  Progress'
<1>1. pc = "execute" /\ pc' = "idle" /\ prefill = <<>> /\ UNCHANGED countVars
  BY DEF SkipEmpty, EndStep, countVars, reqVars
<1>2. Counts' /\ \A r \in Requests : Owed(r)' => Owed(r)
  BY <1>1, SameCounts DEF Progress
<1>3. Granted = {}
  <2>1. 1 .. Len(prefill) = {}
    BY <1>1
  <2> QED
    BY <2>1, Zenon DEF Granted
<1>4. \A r \in Requests : ~Owed(r)
  BY <1>1, <1>3 DEF Progress, Sampling
<1>5. Sampling' /\ Completed' /\ Chunks' /\ Unfilled' /\ Decodes'
  BY <1>1, <1>2, <1>4 DEF Planning, Sampling, Completed, Chunks, Unfilled, Decodes
<1> QED
  BY <1>2, <1>5 DEF Progress

\* The full blocks of the prompts that ran are registered.
LEMMA PublishProgress ==
  ASSUME Progress, Publish
  PROVE  Progress'
<1>1. pc = "harvest" /\ pc' = "idle" /\ emitted = <<>> /\ UNCHANGED countVars
  BY DEF Publish, EndStep, countVars, reqVars
<1>2. Counts' /\ \A r \in Requests : Owed(r)' => Owed(r)
  BY <1>1, SameCounts DEF Progress
<1>3. Elements(emitted) = {}
  <2>1. 1 .. Len(emitted) = {}
    BY <1>1
  <2> QED
    BY <2>1, Zenon DEF Elements
<1>4. \A r \in Requests : ~Owed(r)
  BY <1>1, <1>3 DEF Progress, Sampling, Planning
<1>5. Sampling' /\ Completed' /\ Chunks' /\ Unfilled' /\ Decodes'
  BY <1>1, <1>2, <1>4 DEF Planning, Sampling, Completed, Chunks, Unfilled, Decodes
<1> QED
  BY <1>2, <1>5 DEF Progress

\* A harvested token: r, at the head of the sampled tokens, has ended or has
\* output, and the others are as they were.
LEMMA HarvestProgress ==
  ASSUME IInv, Progress, NEW r \in Requests, pc = "harvest", pc' = "harvest", emitted # <<>>,
         r = Head(emitted), emitted' = Tail(emitted),
         status'[r] = "finished" \/ (status'[r] = "running" /\ output'[r] # <<>>),
         \A q \in Requests : q # r => status'[q] = status[q] /\ output'[q] = output[q],
         UNCHANGED <<prompt, num_computed, pending_tokens>>
  PROVE  Progress'
<1>1. /\ ListOf(emitted, Elements(emitted)) /\ Elements(emitted) \subseteq InState("running")
  BY DEF IInv, PlanInv, Emission
<1>2. r \in Elements(emitted) /\ Elements(emitted') = Elements(emitted) \ {r}
  <2>1. Head(emitted) \in Elements(emitted)
        /\ ListOf(Tail(emitted), Elements(emitted) \ {Head(emitted)})
    BY <1>1, ListTail, Zenon
  <2> QED
    BY <2>1, Zenon DEF ListOf
<1>3. num_computed[r] = Len(prompt[r])
  BY <1>2 DEF Progress, Completed
<1>4. ASSUME NEW q \in Requests, q # r PROVE Counted(q)' /\ (Owed(q)' => Owed(q))
  <2>1. Counted(q) /\ status'[q] = status[q] /\ output'[q] = output[q]
    BY <1>4 DEF Progress, Counts
  <2> QED
    BY <2>1, Zenon DEF Counted, Owed
<1>5. Counted(r)' /\ ~Owed(r)'
  <2>1. Counted(r)
    BY DEF Progress, Counts
  <2> QED
    BY <1>3, <2>1 DEF Counted, Owed
<1>6. Counts'
  BY <1>4, <1>5 DEF Counts
<1>7. Sampling'
  <2> SUFFICES ASSUME NEW q \in Requests, Owed(q)' PROVE q \in Elements(emitted')
    BY Zenon DEF Sampling
  <2>1. q # r /\ Owed(q)
    BY <1>4, <1>5
  <2> QED
    BY <1>2, <2>1 DEF Progress, Sampling, Planning
<1>8. Completed'
  BY <1>2, Zenon DEF Progress, Completed
<1>9. Chunks' /\ Unfilled' /\ Decodes'
  BY DEF Planning, Chunks, Unfilled, Decodes
<1> QED
  BY <1>6, <1>7, <1>8, <1>9 DEF Progress

\* The token ends the request.
LEMMA HarvestStopProgress ==
  ASSUME IInv, Progress, HarvestStop
  PROVE  Progress'
<1> DEFINE r == Head(emitted)
<1>1. /\ pc = "harvest" /\ pc' = "harvest" /\ emitted # <<>> /\ emitted' = Tail(emitted)
      /\ status' = [status EXCEPT ![r] = "finished"]
      /\ UNCHANGED <<prompt, output, num_computed, pending_tokens>>
  BY DEF HarvestStop, TakeStop, Finish, planVars
<1>2. r \in Requests
  BY <1>1, HarvestHead DEF IInv, PlanInv, InState
<1> HIDE DEF r
<1>3. /\ status'[r] = "finished"
      /\ \A q \in Requests : q # r => status'[q] = status[q] /\ output'[q] = output[q]
  BY <1>1, <1>2 DEF IInv, Places, Fields
<1>4. r = Head(emitted) /\ emitted' = Tail(emitted)
  BY <1>1 DEF r
<1>5. UNCHANGED <<prompt, num_computed, pending_tokens>>
  BY <1>1
<1> QED
  BY <1>1, <1>2, <1>3, <1>4, <1>5, HarvestProgress, Zenon

\* The token is appended, and the request goes on.
LEMMA HarvestTokenProgress ==
  ASSUME IInv, Progress, NEW tok \in Generated, HarvestToken(tok)
  PROVE  Progress'
<1> DEFINE r == Head(emitted)
<1>1. /\ pc = "harvest" /\ pc' = "harvest" /\ emitted # <<>> /\ emitted' = Tail(emitted)
      /\ output' = [output EXCEPT ![r] = Append(output[r], tok)]
      /\ status' = [status EXCEPT ![r] = "finished"] \/ status' = status
      /\ UNCHANGED <<prompt, num_computed, pending_tokens>>
  BY DEF HarvestToken, TakeToken, Finish, planVars
<1>2. r \in Requests /\ status[r] = "running"
  BY <1>1, HarvestHead DEF IInv, PlanInv, InState
<1> HIDE DEF r
<1>3. /\ status'[r] = "finished" \/ status'[r] = "running"
      /\ \A q \in Requests : q # r => status'[q] = status[q] /\ output'[q] = output[q]
      /\ output'[r] = Append(output[r], tok) /\ output[r] \in Seq(Token)
  BY <1>1, <1>2 DEF IInv, Places, Fields
<1>4. output'[r] # <<>>
  <2>1. tok \in Token
    BY DEF Token
  <2>2. ASSUME NEW s \in Seq(Token) PROVE Append(s, tok) # <<>>
    <3>1. Len(Append(s, tok)) = Len(s) + 1 /\ Len(s) \in Nat
      BY <2>1
    <3> DEFINE w == Append(s, tok)
    <3> HIDE DEF w
    <3>2. w # <<>>
      BY <3>1 DEF w
    <3> QED
      BY <3>2 DEF w
  <2> QED
    BY <1>3, <2>2, Zenon
<1> QED
  BY <1>1, <1>2, <1>3, <1>4, HarvestProgress DEF r

\* A request arrives.
LEMMA SubmitProgress ==
  ASSUME IInv, Progress, NEW r \in Requests, NEW p \in Prompts, Submit(r, p)
  PROVE  Progress'
<1>1. /\ pc = "idle" /\ pc' = "idle" /\ status[r] = "new"
      /\ status' = [status EXCEPT ![r] = "waiting"] /\ prompt' = [prompt EXCEPT ![r] = p]
      /\ UNCHANGED <<output, num_computed, pending_tokens>>
  BY DEF Submit, AddRequest, planVars
<1>2. p \in Seq(Token)
  BY PlannerAssumption DEF Token
<1>3. /\ status'[r] = "waiting" /\ prompt'[r] = p
      /\ \A q \in Requests : q # r => status'[q] = status[q] /\ prompt'[q] = prompt[q]
  BY <1>1 DEF IInv, Places, Fields
<1>4. ASSUME NEW q \in Requests, q # r PROVE Counted(q)' /\ ~Owed(q)'
  <2>1. Counted(q) /\ ~Owed(q)
    BY <1>1 DEF Progress, Counts, Sampling, Planning
  <2> QED
    BY <1>1, <1>3, <1>4, <2>1, Zenon DEF Counted, Owed
<1>5. Counted(r)' /\ ~Owed(r)'
  <2>1. Counted(r)
    BY DEF Progress, Counts
  <2>2. Len(p) \in Nat
    BY <1>2
  <2> QED
    BY <1>1, <1>3, <2>1, <2>2 DEF Counted, Owed
<1>6. Counts' /\ Sampling'
  BY <1>4, <1>5 DEF Counts, Sampling
<1>7. Completed' /\ Chunks' /\ Unfilled' /\ Decodes'
  BY <1>1 DEF Planning, Completed, Chunks, Unfilled, Decodes
<1> QED
  BY <1>6, <1>7 DEF Progress

\* A request is aborted between two steps.
LEMMA AbortProgress ==
  ASSUME IInv, Progress, NEW r \in Requests, AbortRequest(r)
  PROVE  Progress'
<1>1. /\ pc = "idle" /\ pc' = "idle"
      /\ status' = [status EXCEPT ![r] = "finished"]
      /\ UNCHANGED <<prompt, output, num_computed, pending_tokens>>
  BY DEF AbortRequest, Abort, Finish, planVars
<1>2. status'[r] = "finished" /\ \A q \in Requests : q # r => status'[q] = status[q]
  BY <1>1 DEF IInv, Places, Fields
<1>3. ASSUME NEW q \in Requests PROVE Counted(q)' /\ ~Owed(q)'
  <2>1. Counted(q) /\ ~Owed(q)
    BY <1>1 DEF Progress, Counts, Sampling, Planning
  <2>2. CASE q = r
    <3>1. status'[q] = "finished"
      BY <1>2, <2>2
    <3>2. status'[q] \notin {"new", "waiting"} /\ status'[q] # "new" /\ status'[q] # "running"
      BY <3>1
    <3> QED
      BY <1>1, <2>1, <3>2, Zenon DEF Counted, Owed
  <2>3. CASE q # r
    BY <1>1, <1>2, <2>1, <2>3, Zenon DEF Counted, Owed
  <2> QED
    BY <2>2, <2>3
<1>4. Counts' /\ Sampling'
  BY <1>3 DEF Counts, Sampling
<1>5. Completed' /\ Chunks' /\ Unfilled' /\ Decodes'
  BY <1>1 DEF Planning, Completed, Chunks, Unfilled, Decodes
<1> QED
  BY <1>4, <1>5 DEF Progress

\* Nothing is computed at first.
LEMMA InitProgress == Init => Progress
<1> SUFFICES ASSUME Init PROVE Progress
  OBVIOUS
<1>1. /\ status = [r \in Requests |-> "new"]
      /\ prompt = [r \in Requests |-> <<>>] /\ output = [r \in Requests |-> <<>>]
      /\ num_computed = [r \in Requests |-> 0] /\ pending_tokens = [r \in Requests |-> 0]
      /\ pc = "idle" /\ prefill = <<>>
  BY DEF Init, PlannerInit
<1>2. ASSUME NEW r \in Requests PROVE Counted(r) /\ ~Owed(r)
  <2>1. /\ status[r] = "new" /\ prompt[r] = <<>> /\ output[r] = <<>>
        /\ num_computed[r] = 0 /\ pending_tokens[r] = 0
    BY <1>1
  <2> QED
    BY <2>1 DEF Counted, Owed
<1>3. Counts /\ Sampling
  BY <1>2 DEF Counts, Sampling
<1>4. Completed /\ Chunks /\ Unfilled /\ Decodes
  BY <1>1 DEF Planning, Completed, Chunks, Unfilled, Decodes
<1> QED
  BY <1>3, <1>4 DEF Progress

\* Every step keeps the progress.
LEMMA NextProgress == IInv /\ BlockInv /\ Progress /\ [Next]_vars => Progress'
<1> SUFFICES ASSUME IInv, BlockInv, Progress, [Next]_vars PROVE Progress'
  OBVIOUS
<1> Asks
  BY DEF BlockInv
<1>1. ASSUME NEW r \in Requests, NEW p \in Prompts, Submit(r, p) PROVE Progress'
  BY <1>1, SubmitProgress
<1>2. ASSUME NEW r \in Requests, AbortRequest(r) PROVE Progress'
  BY <1>2, AbortProgress
<1>3. CASE UNCHANGED vars
  <2>1. UNCHANGED <<countVars, planVars, emitted>>
    BY <1>3 DEF vars, plannerVars, reqVars, planVars, loopVars, countVars
  <2>2. Counts' /\ (\A r \in Requests : Owed(r)' => Owed(r)) /\ Granted' = Granted
    BY <2>1, SameCounts DEF Progress, planVars, Granted
  <2>3. Sampling'
    BY <2>1, <2>2 DEF Progress, Sampling, Planning, planVars
  <2>4. Completed' /\ Chunks' /\ Unfilled' /\ Decodes'
    BY <2>1 DEF Progress, Planning, Completed, Chunks, Unfilled, Decodes, planVars, countVars
  <2> QED
    BY <2>2, <2>3, <2>4 DEF Progress
<1>4. CASE Plan
  <2>2. CASE BeginPlan BY <2>2, BeginPlanProgress
  <2>3. CASE ResumeGrant BY <2>3, ResumeGrantProgress
  <2>4. CASE ResumeEvict BY <2>4, ResumeEvictProgress
  <2>5. CASE ResumeStall BY <2>5, ResumeStallProgress
  <2>6. CASE EndResume BY <2>6, EndResumeProgress
  <2>7. CASE AdmitStop BY <2>7, AdmitStopProgress
  <2>8. CASE AdmitEvict BY <2>8, AdmitEvictProgress
  <2>9. CASE AdmitGrant BY <2>9, AdmitGrantProgress
  <2>10. CASE AdmitRefuse BY <2>10, AdmitRefuseProgress
  <2>11. CASE FormDecode BY <2>11, FormDecodeProgress
  <2>12. CASE GrowGrant BY <2>12, GrowGrantProgress
  <2>13. CASE GrowEvict BY <2>13, GrowEvictProgress
  <2>14. CASE EndPlan BY <2>14, EndPlanProgress
  <2> QED
    BY <1>4, <2>2, <2>3, <2>4, <2>5, <2>6, <2>7, <2>8, <2>9, <2>10, <2>11, <2>12, <2>13, <2>14
       DEF Plan, PlanStep
<1>5. CASE SkipEmpty BY <1>5, SkipEmptyProgress
<1>6. CASE Execute BY <1>6, ExecuteProgress
<1>7. CASE HarvestStop BY <1>7, HarvestStopProgress
<1>8. ASSUME NEW tok \in Generated, HarvestToken(tok) PROVE Progress'
  BY <1>8, HarvestTokenProgress
<1>9. CASE Publish BY <1>9, PublishProgress
<1>10. CASE Poll BY <1>3, <1>10 DEF Poll
<1> QED
  BY <1>1, <1>2, <1>3, <1>4, <1>5, <1>6, <1>7, <1>8, <1>9, <1>10 DEF Next, EngineStep

-----------------------------------------------------------------------------
(***************************************************************************)
(* The stock of rows.  What is computed of each request, and what its      *)
(* blocks and the index promise of it.                                     *)
(***************************************************************************)
\* The chunk the plan has granted to r and not yet run.
Ahead(r) == IF Planning /\ r \in Granted THEN (CHOOSE e \in Elements(prefill) : e[1] = r)[2] ELSE 0

\* The tokens of r whose rows have been written.
ComputedOf(r) ==
  IF status[r] # "running" THEN 0
  ELSE IF output[r] = <<>> THEN num_computed[r] - Ahead(r)
  ELSE IF pc = "harvest" /\ r \in Elements(emitted) THEN SeqLen(r) ELSE SeqLen(r) - 1

Computed  == [r \in Requests |-> ComputedOf(r)]
Sequences == [r \in Requests |-> Sequence(r)]

\* Whom the plan has named, and the tokens of such a request whose rows are
\* there once the plan has run.
Named(r)    == r \in Granted \/ (pc \in {"grow", "execute"} /\ r \in Elements(decode))
Promised(r) == IF r \in Granted THEN num_computed[r] ELSE SeqLen(r)

\* Whom the plan has given the blocks it needs.
Served(r) ==
  \/ r \in Granted
  \/ pc = "grow" /\ \E i \in 1 .. Len(decode) : i < cursor /\ decode[i] = r
  \/ pc = "execute" /\ r \in Elements(decode)

\* No registration runs ahead of what its request has computed, or will have
\* once the plan has run.
Registrations ==
  \A e \in Elements(pending_blocks) :
    /\ status[e[1]] = "running"
    /\ IF Planning THEN Named(e[1]) /\ e[2] <= Promised(e[1]) ELSE e[2] <= Computed[e[1]]

\* What the plan promises has its blocks.
Coverage ==
  Planning => \A r \in Requests :
    status[r] = "running" /\ Served(r) => Promised(r) <= Len(cache.blocks[r]) * BlockSize

Stocked == Store(cache, Token, Sequences, Computed)

Stock == Stocked /\ Registrations /\ Coverage

\* What the rows hold stays true of them.
Undisturbed ==
  \A rows : RowsHold(cache, Sequences, Computed, rows) => RowsHold(cache', Sequences', Computed', rows)

\* A registration cashed in, of rows that have been written.
LEMMA CommitBlocksKeeps ==
  ASSUME NEW c, NEW seq, NEW done, Store(c, Token, seq, done), NEW r \in Requests, NEW n \in Int, n <= done[r]
  PROVE  LET d == CommitBlocks(c, r, seq[r], n)
         IN  Keeps(c, d, Token, seq, done, done) /\ SamePool(c, d) /\ d.mapped = c.mapped
<1> DEFINE t == IF n \div BlockSize > Len(c.hashes[r]) THEN Track(c, r, seq[r]) ELSE c
<1>1. Keeps(c, t, Token, seq, done, done) /\ SamePool(c, t) /\ t.mapped = c.mapped
  <2>1. Keeps(c, c, Token, seq, done, done) /\ SamePool(c, c)
    BY KeepsItself, Zenon DEF SamePool
  <2>2. /\ Keeps(c, Track(c, r, seq[r]), Token, seq, done, done) /\ SamePool(c, Track(c, r, seq[r]))
        /\ Track(c, r, seq[r]).mapped = c.mapped
    BY TrackKeeps, Zenon
  <2> QED
    BY <2>1, <2>2, Zenon
<1>2. CommitBlocks(c, r, seq[r], n) = Commit(t, r, n)
  BY Zenon DEF CommitBlocks
<1> HIDE DEF t
<1> DEFINE d == Commit(t, r, n)
<1>3. Keeps(t, d, Token, seq, done, done) /\ SamePool(t, d) /\ d.mapped = t.mapped
  <2>1. Store(t, Token, seq, done)
    BY <1>1, Zenon DEF Keeps
  <2> QED
    BY <2>1, CommitKeeps, Zenon
<1> HIDE DEF d
<1>4. Keeps(c, d, Token, seq, done, done) /\ SamePool(c, d) /\ d.mapped = c.mapped
  BY <1>1, <1>3, KeepsKeeps, Zenon DEF SamePool
<1> QED
  BY <1>2, <1>4, Zenon DEF d

\* All of them.
LEMMA CommitAllKeeps ==
  ASSUME NEW c, NEW seq, NEW done, Store(c, Token, seq, done), pending_blocks \in Registered,
         NEW those, NEW sequences,
         \A e \in Elements(pending_blocks) :
           e[1] \in those => sequences[e[1]] = seq[e[1]] /\ e[2] <= done[e[1]]
  PROVE  LET d == CommitAll(c, those, sequences)
         IN  Keeps(c, d, Token, seq, done, done) /\ SamePool(c, d) /\ d.mapped = c.mapped
<1> DEFINE commit(d, e) ==
             IF e[1] \in those THEN CommitBlocks(d, e[1], sequences[e[1]], e[2]) ELSE d
           s == pending_blocks
           n == Len(s)
           F == CHOOSE f : f = [i \in 0 .. n |-> IF i = 0 THEN c ELSE commit(f[i - 1], s[i])]
           Fine(d) == Keeps(c, d, Token, seq, done, done) /\ SamePool(c, d) /\ d.mapped = c.mapped
           D == {d \in Caches(Token) : Fine(d)}
           R == [i \in 0 .. n |-> D]
           G == [i \in 1 .. n |-> [d \in D |-> commit(d, s[i])]]
<1>1. CommitAll(c, those, sequences) = F[n]
  BY DEF CommitAll, OneByOne
<1>2. /\ n \in Nat /\ n \in 0 .. n /\ 0 \in 0 .. n
      /\ \A i \in 1 .. n : i \in 0 .. n /\ i - 1 \in 0 .. n /\ s[i] \in Requests \X Int /\ s[i] \in Elements(s)
  BY DEF Registered, Elements
<1>3. c \in D
  BY KeepsItself, Zenon DEF InOrder, SamePool, Store
<1>4. \A i \in 1 .. n : \A d \in D : commit(d, s[i]) \in D
  <2> SUFFICES ASSUME NEW i \in 1 .. n, NEW d \in D
               PROVE  commit(d, s[i]) \in D
    OBVIOUS
  <2> DEFINE e == s[i]
             g == CommitBlocks(d, e[1], sequences[e[1]], e[2])
  <2>1. e[1] \in Requests /\ e[2] \in Int /\ e \in Elements(s)
    BY <1>2
  <2>2. Fine(d)
    OBVIOUS
  <2> HIDE DEF e, Fine
  <2>3. CASE e[1] \in those
    <3>1. sequences[e[1]] = seq[e[1]] /\ e[2] <= done[e[1]]
      BY <2>1, <2>3, Zenon
    <3>2. Store(d, Token, seq, done)
      BY <2>2, Zenon DEF Keeps, Fine
    <3>3. Keeps(d, g, Token, seq, done, done) /\ SamePool(d, g) /\ g.mapped = d.mapped
      <4> DEFINE h == CommitBlocks(d, e[1], seq[e[1]], e[2])
      <4>1. Keeps(d, h, Token, seq, done, done) /\ SamePool(d, h) /\ h.mapped = d.mapped
        BY <2>1, <3>1, <3>2, CommitBlocksKeeps
      <4>2. g = h
        BY <3>1, Zenon
      <4> HIDE DEF g, h
      <4> QED
        BY <4>1, <4>2, Zenon
    <3> HIDE DEF g
    <3>4. Fine(g)
      BY <2>2, <3>3, KeepsKeeps, Zenon DEF SamePool, Fine
    <3>5. g \in D
      BY <3>4, Zenon DEF InOrder, Keeps, Store, Fine
    <3> QED
      BY <2>3, <3>5, Zenon DEF e, g
  <2>4. CASE e[1] \notin those
    BY <2>4, Zenon DEF e
  <2> QED
    BY <2>3, <2>4
<1>5. \A i \in 1 .. n : \A d \in D : G[i][d] = commit(d, s[i])
  BY Zenon
<1>6. \A i \in 0 .. n : R[i] = D
  BY Zenon
<1> HIDE DEF R, G, n, commit, D, s
<1>7. PICK f : Walks(f, n, c, G, R)
  <2>1. \A i \in 1 .. n : \A d \in R[i - 1] : G[i][d] \in R[i]
    BY <1>2, <1>4, <1>5, <1>6
  <2>2. c \in R[0]
    BY <1>2, <1>3, <1>6
  <2> QED
    BY <1>2, <2>1, <2>2, WalkExists, Zenon
<1>8. f = [i \in 0 .. n |-> IF i = 0 THEN c ELSE commit(f[i - 1], s[i])]
  BY <1>2, <1>5, <1>6, <1>7 DEF Walks
<1>9. F = [i \in 0 .. n |-> IF i = 0 THEN c ELSE commit(F[i - 1], s[i])]
  BY <1>8, Zenon
<1> HIDE DEF F
<1>10. F[0] = c /\ \A i \in 1 .. n : F[i] = commit(F[i - 1], s[i])
  <2>1. \A i \in 0 .. n : F[i] = IF i = 0 THEN c ELSE commit(F[i - 1], s[i])
    BY <1>9, Zenon
  <2>2. \A i \in 1 .. n : i \in 0 .. n /\ i # 0
    BY <1>2
  <2> QED
    BY <1>2, <2>1, <2>2, Zenon
<1>11. F[n] \in R[n]
  <2>1. \A i \in 1 .. n : F[i - 1] \in R[i - 1] => F[i] \in R[i]
    BY <1>2, <1>4, <1>6, <1>10
  <2>2. F[0] \in R[0]
    BY <1>2, <1>3, <1>6, <1>10
  <2> QED
    BY <1>2, <2>1, <2>2, WalkStays, Zenon
<1> QED
  BY <1>1, <1>2, <1>6, <1>11, Zenon DEF D

-----------------------------------------------------------------------------
(* What a step leaves as it was: what is computed, and what is granted. *)

\* What the plan has granted a request is the length of its chunk.
LEMMA AheadOf ==
  ASSUME Apart, Planning, NEW e \in Elements(prefill)
  PROVE  Ahead(e[1]) = e[2] /\ e[1] \in Granted
<1> DEFINE r == e[1]
           d == CHOOSE d \in Elements(prefill) : d[1] = r
<1>1. r \in Granted
  BY GrantedFirsts, Zenon
<1>2. d \in Elements(prefill) /\ d[1] = r
  BY Zenon
<1> HIDE DEF d
<1>3. d = e
  BY <1>2, Zenon DEF Apart
<1>4. Ahead(r) = d[2]
  BY <1>1, Zenon DEF Ahead, d
<1> QED
  BY <1>1, <1>3, <1>4, Zenon

\* A granted request has such a chunk.
LEMMA GrantedChunk ==
  ASSUME NEW r \in Granted
  PROVE  \E e \in Elements(prefill) : e[1] = r
  BY GrantedFirsts, Zenon

\* What is computed is a number of tokens of the sequence.
LEMMA ComputedTyped ==
  ASSUME Stocked
  PROVE  /\ Computed \in [Requests -> Nat] /\ Sequences \in [Requests -> Seq(Token)]
         /\ \A r \in Requests : Computed[r] = ComputedOf(r) /\ Sequences[r] = Sequence(r)
  BY DEF Stocked, Store, Computed, Sequences

\* A request that has not been planned has what it had.
LEMMA ComputedSame ==
  ASSUME NEW r \in Requests, status'[r] = status[r], output'[r] = output[r], prompt'[r] = prompt[r],
         num_computed'[r] = num_computed[r], Ahead(r)' = Ahead(r), pc # "harvest", pc' # "harvest"
  PROVE  ComputedOf(r)' = ComputedOf(r)
  BY DEF ComputedOf, SeqLen

\* A step of the plan that grants nothing.
LEMMA AheadSame ==
  ASSUME Planning, Planning', prefill' = prefill
  PROVE  Granted' = Granted /\ \A r : Ahead(r)' = Ahead(r)
<1>1. Granted' = Granted /\ Elements(prefill') = Elements(prefill)
  BY Zenon DEF Granted, Elements
<1>2. ASSUME NEW r PROVE Ahead(r)' = Ahead(r)
  <2>1. CASE r \in Granted
    <3>1. Ahead(r)' = (CHOOSE e \in Elements(prefill') : e[1] = r)[2]
      BY <1>1, <2>1, Zenon DEF Ahead
    <3>2. Ahead(r) = (CHOOSE e \in Elements(prefill) : e[1] = r)[2]
      BY <2>1, Zenon DEF Ahead
    <3> QED
      BY <1>1, <3>1, <3>2, Zenon
  <2>2. CASE r \notin Granted
    BY <1>1, <2>2 DEF Ahead
  <2> QED
    BY <2>1, <2>2
<1> QED
  BY <1>1, <1>2, Zenon

\* A grant.
LEMMA AheadGrant ==
  ASSUME Apart, Planning, Planning', NEW r, r \notin Granted, NEW k, prefill' = Append(prefill, <<r, k>>)
  PROVE  /\ Ahead(r) = 0 /\ Ahead(r)' = k /\ \A q : q # r => Ahead(q)' = Ahead(q)
         /\ Granted' = Granted \cup {r}
<1>1. Apart' /\ Granted' = Granted \cup {r}
  BY GrantMore
<1>2. Ahead(r) = 0
  BY DEF Ahead
<1>3. <<r, k>> \in Elements(prefill') /\ \A e \in Elements(prefill) : e \in Elements(prefill')
  <2>1. prefill \in Seq(Elements(prefill))
    BY DEF Apart, ListOf
  <2> DEFINE g == <<r, k>>
  <2>2. prefill' = Append(prefill, g)
    OBVIOUS
  <2> HIDE DEF g
  <2>3. /\ Len(prefill') = Len(prefill) + 1 /\ Len(prefill) \in Nat /\ prefill'[Len(prefill) + 1] = g
        /\ \A i \in 1 .. Len(prefill) : prefill'[i] = prefill[i]
    <3>1. ASSUME NEW T, NEW s \in Seq(T), NEW x
          PROVE  /\ Len(Append(s, x)) = Len(s) + 1 /\ Len(s) \in Nat /\ Append(s, x)[Len(s) + 1] = x
                 /\ \A i \in 1 .. Len(s) : Append(s, x)[i] = s[i]
      <4>1. s \in Seq(T \cup {x}) /\ x \in T \cup {x}
        OBVIOUS
      <4> QED
        BY <4>1
    <3>2. /\ Len(Append(prefill, g)) = Len(prefill) + 1 /\ Len(prefill) \in Nat
          /\ Append(prefill, g)[Len(prefill) + 1] = g
          /\ \A i \in 1 .. Len(prefill) : Append(prefill, g)[i] = prefill[i]
      BY <2>1, <3>1
    <3> DEFINE w == Append(prefill, g)
    <3>3. prefill' = w
      BY <2>2
    <3> HIDE DEF w
    <3> QED
      BY <3>2, <3>3, Zenon DEF w
  <2>4. Len(prefill) + 1 \in 1 .. Len(prefill') /\ \A i \in 1 .. Len(prefill) : i \in 1 .. Len(prefill')
    BY <2>3
  <2> QED
    BY <2>3, <2>4, Zenon DEF Elements, g
<1>4. Ahead(r)' = k
  <2> DEFINE g == <<r, k>>
             d == CHOOSE d \in Elements(prefill') : d[1] = r
  <2>1. g \in Elements(prefill') /\ g[1] = r /\ g[2] = k
    BY <1>3
  <2> HIDE DEF g
  <2>2. d \in Elements(prefill') /\ d[1] = r
    BY <2>1, Zenon
  <2>3. d = g
    <3> HIDE DEF d
    <3> QED
      BY <1>1, <2>1, <2>2, Zenon DEF Apart
  <2>4. Ahead(r)' = d[2]
    BY <1>1, Zenon DEF Ahead
  <2> QED
    BY <2>1, <2>3, <2>4, Zenon
<1>5. ASSUME NEW q, q # r PROVE Ahead(q)' = Ahead(q)
  <2>1. CASE q \notin Granted
    BY <1>1, <1>5, <2>1 DEF Ahead
  <2>2. CASE q \in Granted
    <3>1. PICK e \in Elements(prefill) : e[1] = q
      BY <2>2, GrantedChunk, Zenon
    <3>2. Ahead(q) = e[2]
      BY <3>1, AheadOf, Zenon
    <3> DEFINE d == CHOOSE d \in Elements(prefill') : d[1] = q
    <3>3. d \in Elements(prefill') /\ d[1] = q
      BY <1>3, <3>1, Zenon
    <3>4. d = e
      <4> HIDE DEF d
      <4> QED
        BY <1>1, <1>3, <3>1, <3>3, Zenon DEF Apart
    <3>5. Ahead(q)' = d[2]
      BY <1>1, <2>2, Zenon DEF Ahead
    <3> QED
      BY <3>2, <3>4, <3>5, Zenon
  <2> QED
    BY <2>1, <2>2
<1> QED
  BY <1>1, <1>2, <1>4, <1>5, Zenon

\* An eviction moves the output of its victim into the prompt, and nothing of it
\* is computed any more.
LEMMA EvictComputed ==
  ASSUME IInv, Asks, Progress, NEW c, NEW v \in InState("running"), v \notin Granted, Preempt(c, v),
         Planning, Planning', prefill' = prefill, Stocked
  PROVE  Sequences' = Sequences /\ Computed' = [Computed EXCEPT ![v] = 0]
<1>1. Fields /\ v \in Requests
  BY DEF IInv, Places, InState
<1>2. /\ \A r \in Requests : r # v => num_computed'[r] = num_computed[r] /\ prompt'[r] = prompt[r]
                                      /\ output'[r] = output[r] /\ status'[r] = status[r]
      /\ status'[v] = "waiting"
  BY <1>1, EvictCounts DEF Progress
<1>3. prompt'[v] = prompt[v] \o output[v] /\ output'[v] = <<>> /\ prompt[v] \in Seq(Token) /\ output[v] \in Seq(Token)
  BY <1>1 DEF Preempt, Fields
<1>4. ASSUME NEW r \in Requests PROVE Sequence(r)' = Sequence(r)
  <2>1. CASE r = v
    <3>1. \A s, t \in Seq(Token) : s \o t \in Seq(Token)
      OBVIOUS
    <3>2. \A s \in Seq(Token) : s \o <<>> = s
      OBVIOUS
    <3>3. (prompt[v] \o output[v]) \o <<>> = prompt[v] \o output[v]
      BY <1>3, <3>1, <3>2, Zenon
    <3> QED
      BY <1>3, <2>1, <3>3, Zenon DEF Sequence
  <2>2. CASE r # v
    BY <1>2, <2>2, Zenon DEF Sequence
  <2> QED
    BY <2>1, <2>2
<1>5. Sequences' = Sequences
  BY <1>4, Zenon DEF Sequences
<1>6. Computed \in [Requests -> Nat] /\ \A r \in Requests : Computed[r] = ComputedOf(r)
  BY ComputedTyped
<1>7. ASSUME NEW r \in Requests PROVE ComputedOf(r)' = IF r = v THEN 0 ELSE Computed[r]
  <2>1. CASE r = v
    BY <1>2, <2>1 DEF ComputedOf
  <2>2. CASE r # v
    <3>1. Ahead(r)' = Ahead(r)
      BY AheadSame
    <3>2. ComputedOf(r)' = ComputedOf(r)
      <4>1. pc # "harvest" /\ pc' # "harvest"
        BY DEF Planning
      <4> QED
        BY <1>2, <2>2, <3>1, <4>1, ComputedSame, Zenon
    <3> QED
      BY <1>6, <2>2, <3>2
  <2> QED
    BY <2>1, <2>2
<1>8. Computed' = [r \in Requests |-> IF r = v THEN 0 ELSE Computed[r]]
  BY <1>7, Zenon DEF Computed
<1>9. [r \in Requests |-> IF r = v THEN 0 ELSE Computed[r]] = [Computed EXCEPT ![v] = 0]
  <2> DEFINE f == Computed
  <2>1. f \in [Requests -> Nat]
    BY <1>6
  <2> HIDE DEF f
  <2>2. [r \in Requests |-> IF r = v THEN 0 ELSE f[r]] = [f EXCEPT ![v] = 0]
    BY <1>1, <2>1
  <2> QED
    BY <2>2 DEF f
<1> QED
  BY <1>5, <1>8, <1>9, Zenon

\* An eviction, from the cache c that the step has made so far.
LEMMA EvictStock ==
  ASSUME IInv, BlockInv, Progress, Stock, NEW c, Keeps(cache, c, Token, Sequences, Computed, Computed),
         \A q \in Requests : c.blocks[q] = cache.blocks[q],
         NEW v \in InState("running"), v \notin Granted, Preempt(c, v),
         Planning, Planning', prefill' = prefill,
         \A r \in Requests : (Named(r) => Named(r)') /\ (Served(r)' => Served(r))
  PROVE  Stock' /\ Undisturbed
<1>1. Asks /\ Stocked /\ Fields /\ v \in Requests /\ pending_blocks \in Registered
  BY DEF BlockInv, Asks, Stock, IInv, Places, InState
<1>2. Sequences' = Sequences /\ Computed' = [Computed EXCEPT ![v] = 0]
  BY <1>1, EvictComputed
<1>3. cache' = Free(c, v) /\ pending_blocks' = DropPending(v)
  BY DEF Preempt
<1>4. Store(c, Token, Sequences, Computed)
  BY DEF Keeps
<1> DEFINE d == Free(c, v)
           new == [Computed EXCEPT ![v] = 0]
<1>5. Keeps(c, d, Token, Sequences, Computed, new) /\ Only(c.blocks, d.blocks, v, <<>>)
  BY <1>1, <1>4, FreeKeeps
<1> HIDE DEF d
<1>6. Keeps(cache, d, Token, Sequences, Computed, new)
  BY <1>5, KeepsKeeps, Zenon
<1>7. Stocked'
  <2>1. Store(cache', Token, Sequences', Computed')
    BY <1>2, <1>3, <1>6, Zenon DEF Keeps, d
  <2> QED
    BY <2>1 DEF Stocked, Token
<1>8. Undisturbed
  BY <1>2, <1>3, <1>6, Zenon DEF Undisturbed, Keeps, d
<1>9. Granted' = Granted
  BY AheadSame
<1>10. \A r \in Requests : r # v => num_computed'[r] = num_computed[r] /\ prompt'[r] = prompt[r]
                                      /\ output'[r] = output[r] /\ status'[r] = status[r]
  BY <1>1, EvictCounts DEF Progress
<1>11. \A r \in Requests : r # v => Promised(r)' = Promised(r)
  BY <1>9, <1>10, Zenon DEF Promised, SeqLen
<1>12. Registrations'
  <2> SUFFICES ASSUME NEW e \in Elements(pending_blocks')
               PROVE  status'[e[1]] = "running" /\ Named(e[1])' /\ e[2] <= Promised(e[1])'
    BY Zenon DEF Registrations
  <2>1. e \in Elements(pending_blocks) /\ e[1] # v
    BY <1>1, <1>3, DropPendingRegistered
  <2>2. e[1] \in Requests
    <3>1. pending_blocks \in Seq(Requests \X Int)
      BY <1>1 DEF Registered
    <3>2. PICK i \in 1 .. Len(pending_blocks) : e = pending_blocks[i]
      BY <2>1, Zenon DEF Elements
    <3> QED
      BY <3>1, <3>2
  <2>3. status[e[1]] = "running" /\ Named(e[1]) /\ e[2] <= Promised(e[1])
    BY <2>1, Zenon DEF Stock, Registrations
  <2> QED
    BY <1>10, <1>11, <2>1, <2>2, <2>3, Zenon
<1>13. Coverage'
  <2> SUFFICES ASSUME NEW r \in Requests, status'[r] = "running", Served(r)'
               PROVE  Promised(r)' <= Len(cache'.blocks[r]) * BlockSize
    BY Zenon DEF Coverage
  <2>1. r # v
    <3>1. status'[v] = "waiting"
      BY <1>1, EvictCounts DEF Progress
    <3> QED
      BY <3>1
  <2>2. status[r] = "running" /\ Served(r) /\ Promised(r)' = Promised(r)
    BY <1>10, <1>11, <2>1, Zenon
  <2>3. cache'.blocks[r] = cache.blocks[r]
    BY <1>3, <1>5, <2>1, Zenon DEF Only, d
  <2>4. Promised(r) <= Len(cache.blocks[r]) * BlockSize
    BY <2>2, Zenon DEF Stock, Coverage
  <2> QED
    BY <2>2, <2>3, <2>4, Zenon
<1> QED
  BY <1>7, <1>8, <1>12, <1>13 DEF Stock

\* A grant, from the cache c that the step has made so far: r gets the blocks
\* of n tokens.
LEMMA GrantStock ==
  ASSUME NEW c, Keeps(cache, c, Token, Sequences, Computed, Computed),
         \A q \in Requests : c.blocks[q] = cache.blocks[q],
         NEW r \in Requests, NEW n \in Nat \ {0}, NEW m,
         m = <<>> \/ IsMatch(c, r, m), MayAdopt(c, r, m), Fits(c, r, n, m),
         cache' = TakeTableWrites(Allocate(c, r, n, m), r),
         Sequences' = Sequences, Computed' = [Computed EXCEPT ![r] = Hit(Computed[r], m)]
  PROVE  /\ Stocked' /\ Undisturbed
         /\ \A q \in Requests : q # r => cache'.blocks[q] = cache.blocks[q]
         /\ n <= Len(cache'.blocks[r]) * BlockSize
<1> DEFINE d   == Allocate(c, r, n, m)
           new == [Computed EXCEPT ![r] = Hit(Computed[r], m)]
           e   == TakeTableWrites(d, r)
           b   == Len(Base(c, r, m))
<1>1. Store(c, Token, Sequences, Computed)
  BY DEF Keeps
<1>2. /\ Keeps(c, d, Token, Sequences, Computed, new)
      /\ \A q \in Requests : q # r => d.blocks[q] = c.blocks[q]
      /\ Len(d.blocks[r]) = Larger(b, NumBlocksFor(n)) /\ b \in Nat
  <2>1. n \in Int
    OBVIOUS
  <2> HIDE DEF d, new
  <2>2. Takes(c, d, Token, Sequences, Computed, r, n, m)
    BY <1>1, <2>1, AllocateKeeps, Zenon DEF d
  <2> QED
    BY <2>2, Zenon DEF Takes, new
<1> HIDE DEF d, b
<1>3. Store(d, Token, Sequences, new)
  BY <1>2 DEF Keeps
<1> HIDE DEF new
<1>4. Keeps(d, e, Token, Sequences, new, new) /\ e.blocks = d.blocks
  BY <1>3, TakeTableWritesKeeps
<1> HIDE DEF e
<1>5. Keeps(cache, e, Token, Sequences, Computed, new)
  BY <1>2, <1>4, KeepsKeeps, Zenon
<1>6. cache' = e /\ Computed' = new
  BY DEF e, d, new
<1>7. Stocked'
  <2>1. Store(cache', Token, Sequences', Computed')
    BY <1>5, <1>6, Zenon DEF Keeps
  <2> QED
    BY <2>1 DEF Stocked, Token
<1>8. Undisturbed
  BY <1>5, <1>6, Zenon DEF Undisturbed, Keeps
<1>9. n <= Len(e.blocks[r]) * BlockSize
  <2> DEFINE l == Len(d.blocks[r])
             k == NumBlocksFor(n)
  <2>1. k \in Nat \ {0} /\ \A i \in Nat : n <= i * BlockSize <=> k <= i
    BY RowPlace
  <2> HIDE DEF k
  <2>2. l \in Nat /\ k <= l
    BY <1>2, <2>1 DEF Larger, k
  <2> HIDE DEF l
  <2>3. n <= l * BlockSize
    BY <2>1, <2>2
  <2> QED
    BY <1>4, <2>3 DEF l
<1> QED
  BY <1>2, <1>4, <1>6, <1>7, <1>8, <1>9, Zenon

\* What is computed is the same as long as nobody moves.
LEMMA SameComputed ==
  ASSUME Stocked, UNCHANGED <<status, prompt, output, num_computed>>, \A r \in Requests : Ahead(r)' = Ahead(r),
         pc # "harvest", pc' # "harvest"
  PROVE  Sequences' = Sequences /\ Computed' = Computed /\ \A r : SeqLen(r)' = SeqLen(r)
<1>1. status' = status /\ prompt' = prompt /\ output' = output /\ num_computed' = num_computed
  OBVIOUS
<1>2. \A r \in Requests : ComputedOf(r)' = ComputedOf(r)
  BY <1>1, ComputedSame, Zenon
<1> QED
  BY <1>1, <1>2, Zenon DEF Sequences, Sequence, Computed, SeqLen

\* The cache of a step that leaves what is computed alone, or makes it new.
LEMMA KeepStocked ==
  ASSUME NEW new, NEW d, Keeps(cache, d, Token, Sequences, Computed, new), cache' = d,
         Sequences' = Sequences, Computed' = new
  PROVE  Stocked' /\ Undisturbed
<1>1. Store(d, Token, Sequences, new)
  BY Zenon DEF Keeps
<1>2. Stocked'
  <2>1. Store(cache', Token, Sequences', Computed')
    BY <1>1, Zenon
  <2> QED
    BY <2>1 DEF Stocked, Token
<1>3. Undisturbed
  BY Zenon DEF Undisturbed, Keeps
<1> QED
  BY <1>2, <1>3

\* A step of the plan that grants nothing and evicts nobody.
LEMMA SameStock ==
  ASSUME Stock, Planning, Planning', prefill' = prefill,
         UNCHANGED <<status, prompt, output, num_computed, pending_blocks>>,
         NEW d, cache' = d, Keeps(cache, d, Token, Sequences, Computed, Computed),
         \A q \in Requests : d.blocks[q] = cache.blocks[q],
         pending_blocks \in Registered,
         \A r \in Requests : status[r] = "running" => (Named(r) => Named(r)') /\ (Served(r)' => Served(r))
  PROVE  Stock' /\ Undisturbed
<1>1. status' = status /\ prompt' = prompt /\ output' = output /\ num_computed' = num_computed
      /\ pending_blocks' = pending_blocks
  OBVIOUS
<1>2. Stocked /\ pc # "harvest" /\ pc' # "harvest"
  BY DEF Stock, Planning
<1>3. Granted' = Granted /\ \A r : Ahead(r)' = Ahead(r)
  BY AheadSame
<1>4. Sequences' = Sequences /\ Computed' = Computed /\ \A r : SeqLen(r)' = SeqLen(r)
  <2>1. \A r \in Requests : Ahead(r)' = Ahead(r)
    BY <1>3, Zenon
  <2> QED
    BY <1>2, <2>1, SameComputed
<1>5. Stocked' /\ Undisturbed
  <2> DEFINE new == Computed
  <2>1. Keeps(cache, d, Token, Sequences, Computed, new) /\ Computed' = new
    BY <1>4
  <2> HIDE DEF new
  <2> QED
    BY <1>4, <2>1, KeepStocked
<1>6. \A r : Promised(r)' = Promised(r)
  BY <1>1, <1>3, <1>4, Zenon DEF Promised
<1>7. Registrations'
  <2> SUFFICES ASSUME NEW e \in Elements(pending_blocks')
               PROVE  status'[e[1]] = "running" /\ Named(e[1])' /\ e[2] <= Promised(e[1])'
    BY Zenon DEF Registrations
  <2>1. e \in Elements(pending_blocks)
    BY <1>1, Zenon
  <2>2. e[1] \in Requests
    <3>1. PICK i \in 1 .. Len(pending_blocks) : e = pending_blocks[i]
      BY <2>1, Zenon DEF Elements
    <3> QED
      BY <3>1 DEF Registered
  <2>3. status[e[1]] = "running" /\ Named(e[1]) /\ e[2] <= Promised(e[1])
    BY <2>1, Zenon DEF Stock, Registrations
  <2> QED
    BY <1>1, <1>6, <2>2, <2>3, Zenon
<1>8. Coverage'
  <2> SUFFICES ASSUME NEW r \in Requests, status'[r] = "running", Served(r)'
               PROVE  Promised(r)' <= Len(cache'.blocks[r]) * BlockSize
    BY Zenon DEF Coverage
  <2>1. status[r] = "running" /\ Served(r) /\ Promised(r)' = Promised(r) /\ cache'.blocks[r] = cache.blocks[r]
    BY <1>1, <1>6, Zenon
  <2>2. Promised(r) <= Len(cache.blocks[r]) * BlockSize
    BY <2>1, Zenon DEF Stock, Coverage
  <2> QED
    BY <2>1, <2>2, Zenon
<1> QED
  BY <1>5, <1>7, <1>8 DEF Stock

\* Nobody is ahead outside the plan, or when it has granted nothing.
LEMMA NobodyAhead ==
  ASSUME ~Planning \/ Granted = {}
  PROVE  \A r : Ahead(r) = 0
  BY DEF Ahead

\* plan() starts: what was computed stays so.
LEMMA BeginPlanStock ==
  ASSUME IInv, BlockInv, Progress, Stock, BeginPlan
  PROVE  Stock' /\ Undisturbed
<1> DEFINE those == {r \in Requests : status[r] = "running"}
           d == CommitAll(cache, those, [r \in Requests |-> prompt[r] \o output[r]])
<1>1. /\ pc = "idle" /\ pc' = "resume" /\ cache' = d /\ pending_blocks' = <<>> /\ prefill' = <<>>
      /\ status' = status /\ prompt' = prompt /\ output' = output /\ num_computed' = num_computed
  BY DEF BeginPlan, reqVars
<1>2. [r \in Requests |-> prompt[r] \o output[r]] = Sequences
  BY Zenon DEF Sequences, Sequence
<1>3. Stocked /\ pending_blocks \in Registered
  BY DEF Stock, BlockInv, Asks
<1>4. Keeps(cache, d, Token, Sequences, Computed, Computed)
  <2> DEFINE done == Computed
  <2>1. Store(cache, Token, Sequences, done)
    BY <1>3 DEF Stocked
  <2>2. \A e \in Elements(pending_blocks) :
           e[1] \in those => Sequences[e[1]] = Sequences[e[1]] /\ e[2] <= done[e[1]]
    BY <1>1 DEF Stock, Registrations, Planning
  <2> HIDE DEF done, those
  <2>3. Keeps(cache, CommitAll(cache, those, Sequences), Token, Sequences, done, done)
    BY <1>3, <2>1, <2>2, CommitAllKeeps, Zenon
  <2> QED
    BY <1>2, <2>3, Zenon DEF done
<1> HIDE DEF d
<1>5. Granted' = {}
  BY <1>1 DEF Granted
<1>6. \A r \in Requests : Ahead(r)' = Ahead(r)
  <2>1. \A r : Ahead(r) = 0
    BY <1>1, NobodyAhead DEF Planning
  <2>2. \A r : Ahead(r)' = 0
    BY <1>5 DEF Ahead
  <2> QED
    BY <2>1, <2>2, Zenon
<1>7. Sequences' = Sequences /\ Computed' = Computed
  BY <1>1, <1>3, <1>6, SameComputed
<1>8. Stocked' /\ Undisturbed
  <2> DEFINE new == Computed
  <2>1. Keeps(cache, d, Token, Sequences, Computed, new) /\ Computed' = new
    BY <1>4, <1>7
  <2> HIDE DEF new
  <2> QED
    BY <1>1, <1>7, <2>1, KeepStocked
<1>9. Registrations'
  <2>1. Elements(pending_blocks') = {}
    BY <1>1 DEF Elements
  <2> QED
    BY <2>1, Zenon DEF Registrations
<1>10. Coverage'
  BY <1>1, <1>5 DEF Coverage, Served
<1> QED
  BY <1>8, <1>9, <1>10 DEF Stock

\* Stage 1 leaves a request without a chunk.
LEMMA ResumeStallStock ==
  ASSUME IInv, BlockInv, Progress, Stock, ResumeStall
  PROVE  Stock' /\ Undisturbed
<1>1. /\ pc = "resume" /\ pc' = pc /\ prefill' = prefill /\ decode' = decode /\ cache' = cache
      /\ UNCHANGED <<status, prompt, output, num_computed, pending_blocks>>
  BY DEF ResumeStall, queueVars
<1>2. Planning /\ Planning' /\ Stocked /\ pending_blocks \in Registered
  BY <1>1 DEF Planning, Stock, BlockInv, Asks
<1>3. Keeps(cache, cache, Token, Sequences, Computed, Computed)
  <2> DEFINE done == Computed
  <2>1. Store(cache, Token, Sequences, done)
    BY <1>2 DEF Stocked
  <2> HIDE DEF done
  <2>2. Keeps(cache, cache, Token, Sequences, done, done)
    BY <2>1, KeepsItself, Zenon
  <2> QED
    BY <2>2 DEF done
<1>4. Granted' = Granted
  BY <1>1 DEF Granted
<1>5. \A r \in Requests : status[r] = "running" => (Named(r) => Named(r)') /\ (Served(r)' => Served(r))
  BY <1>1, <1>4 DEF Named, Served
<1> DEFINE d == cache
<1>6. cache' = d /\ Keeps(cache, d, Token, Sequences, Computed, Computed)
      /\ \A q \in Requests : d.blocks[q] = cache.blocks[q]
  BY <1>1, <1>3
<1> HIDE DEF d
<1> QED
  BY <1>1, <1>2, <1>5, <1>6, SameStock

-----------------------------------------------------------------------------
(* The steps of plan(), and the stock. *)

\* The cache as it is.
LEMMA CacheItself ==
  ASSUME Stocked
  PROVE  Keeps(cache, cache, Token, Sequences, Computed, Computed)
<1> DEFINE done == Computed
<1>1. Store(cache, Token, Sequences, done)
  BY DEF Stocked
<1> HIDE DEF done
<1>2. Keeps(cache, cache, Token, Sequences, done, done)
  BY <1>1, KeepsItself, Zenon
<1> QED
  BY <1>2 DEF done

\* The cache once a candidate is tracked.
LEMMA TrackedKeeps ==
  ASSUME Stocked, IInv, Progress, NEW r \in InState("waiting")
  PROVE  /\ Keeps(cache, Tracked(r), Token, Sequences, Computed, Computed)
         /\ \A q \in Requests : Tracked(r).blocks[q] = cache.blocks[q]
         /\ Sequences[r] = prompt[r] /\ Computed[r] = 0
<1> DEFINE done == Computed
           d == Track(cache, r, prompt[r])
<1>1. r \in Requests /\ status[r] = "waiting" /\ prompt[r] \in Seq(Token)
  BY DEF InState, IInv, Places, Fields
<1>2. output[r] = <<>>
  BY <1>1 DEF Progress, Counts, Counted
<1>3. prompt[r] \o output[r] = prompt[r]
  <2>1. ASSUME NEW s \in Seq(Token) PROVE s \o <<>> = s
    OBVIOUS
  <2> QED
    BY <1>1, <1>2, <2>1, Zenon
<1>4. Sequences[r] = prompt[r]
  BY <1>1, <1>3, Zenon DEF Sequences, Sequence
<1>5. Store(cache, Token, Sequences, done)
  BY DEF Stocked
<1>6. Computed[r] = 0
  BY <1>1 DEF Computed, ComputedOf
<1> HIDE DEF done
<1>7. Keeps(cache, Track(cache, r, Sequences[r]), Token, Sequences, done, done)
      /\ SamePool(cache, Track(cache, r, Sequences[r]))
  BY <1>1, <1>5, TrackKeeps, Zenon
<1>8. Keeps(cache, d, Token, Sequences, done, done) /\ SamePool(cache, d)
  BY <1>4, <1>7, Zenon
<1> HIDE DEF d
<1>9. d.blocks = cache.blocks
  BY <1>8 DEF SamePool
<1>10. Tracked(r) = d
  BY DEF Tracked, d
<1> QED
  BY <1>4, <1>6, <1>8, <1>9, <1>10 DEF done

\* Stage 1 is done.
LEMMA EndResumeStock ==
  ASSUME IInv, BlockInv, Progress, Stock, EndResume
  PROVE  Stock' /\ Undisturbed
<1>1. /\ pc = "resume" /\ pc' \in {"batch", "admit"} /\ prefill' = prefill /\ decode' = decode /\ cache' = cache
      /\ UNCHANGED <<status, prompt, output, num_computed, pending_blocks>>
  BY DEF EndResume, reqVars
<1>2. Planning /\ Planning' /\ Stocked /\ pending_blocks \in Registered
  BY <1>1 DEF Planning, Stock, BlockInv, Asks
<1>3. Granted' = Granted
  BY <1>1 DEF Granted
<1>4. \A r \in Requests : status[r] = "running" => (Named(r) => Named(r)') /\ (Served(r)' => Served(r))
  BY <1>1, <1>3 DEF Named, Served
<1> DEFINE d == cache
<1>5. cache' = d /\ Keeps(cache, d, Token, Sequences, Computed, Computed)
      /\ \A q \in Requests : d.blocks[q] = cache.blocks[q]
  BY <1>1, <1>2, CacheItself
<1> HIDE DEF d
<1> QED
  BY <1>1, <1>2, <1>4, <1>5, SameStock

\* Admission stops; a cleared candidate gives nothing back.
LEMMA AdmitStopStock ==
  ASSUME IInv, BlockInv, Progress, Stock, AdmitStop
  PROVE  Stock' /\ Undisturbed
<1>1. /\ pc = "admit" /\ pc' = "batch" /\ prefill' = prefill /\ decode' = decode
      /\ UNCHANGED <<status, prompt, output, num_computed, pending_blocks>>
      /\ cache' = cache \/ (waiting # <<>> /\ cache' = Tracked(Candidate))
  BY DEF AdmitStop, reqVars
<1>2. Planning /\ Planning' /\ Stocked /\ pending_blocks \in Registered
  BY <1>1 DEF Planning, Stock, BlockInv, Asks
<1>3. Granted' = Granted
  BY <1>1 DEF Granted
<1>4. \A r \in Requests : status[r] = "running" => (Named(r) => Named(r)') /\ (Served(r)' => Served(r))
  BY <1>1, <1>3 DEF Named, Served
<1> DEFINE d == cache'
<1>5. Keeps(cache, d, Token, Sequences, Computed, Computed)
      /\ \A q \in Requests : d.blocks[q] = cache.blocks[q]
  <2>1. CASE cache' = cache
    BY <1>2, <2>1, CacheItself
  <2>2. CASE waiting # <<>> /\ cache' = Tracked(Candidate)
    <3>1. Candidate \in InState("waiting")
      BY <1>1, <2>2, CandidateWaits DEF IInv, Places, PlanInv
    <3> QED
      BY <1>2, <2>2, <3>1, TrackedKeeps
  <2> QED
    BY <1>1, <2>1, <2>2
<1>6. \E e : cache' = e /\ Keeps(cache, e, Token, Sequences, Computed, Computed)
             /\ \A q \in Requests : e.blocks[q] = cache.blocks[q]
  BY <1>5, Zenon
<1> HIDE DEF d
<1>7. PICK e : cache' = e /\ Keeps(cache, e, Token, Sequences, Computed, Computed)
             /\ \A q \in Requests : e.blocks[q] = cache.blocks[q]
  BY <1>6
<1> QED
  BY <1>1, <1>2, <1>4, <1>7, SameStock

\* Stage 3 lists the decodes: none of them has its row yet.
LEMMA FormDecodeStock ==
  ASSUME IInv, BlockInv, Progress, Stock, FormDecode
  PROVE  Stock' /\ Undisturbed
<1>1. /\ pc = "batch" /\ pc' = "grow" /\ prefill' = prefill /\ cursor' = 1 /\ cache' = cache
      /\ UNCHANGED <<status, prompt, output, num_computed, pending_blocks>>
  BY DEF FormDecode, reqVars, queueVars
<1>2. Planning /\ Planning' /\ Stocked /\ pending_blocks \in Registered
  BY <1>1 DEF Planning, Stock, BlockInv, Asks
<1>3. Granted' = Granted
  BY <1>1 DEF Granted
<1>4. ASSUME NEW r \in Requests PROVE (Named(r) => Named(r)') /\ (Served(r)' => Served(r))
  <2>1. Named(r) => r \in Granted
    BY <1>1 DEF Named
  <2>2. r \in Granted => Named(r)' /\ Served(r)
    BY <1>3 DEF Named, Served
  <2>3. Served(r)' => r \in Granted
    <3>1. Served(r)' <=> (r \in Granted \/ \E i \in 1 .. Len(decode') : i < 1 /\ decode'[i] = r)
      BY <1>1, <1>3 DEF Served
    <3>2. ASSUME NEW i \in 1 .. Len(decode'), i < 1 PROVE FALSE
      <4>1. i \in Int /\ i >= 1
        OBVIOUS
      <4> HIDE <3>2
      <4> QED
        BY <3>2, <4>1
    <3> QED
      BY <3>1, <3>2, Zenon
  <2> QED
    BY <2>1, <2>2, <2>3
<1> DEFINE d == cache
<1>5. cache' = d /\ Keeps(cache, d, Token, Sequences, Computed, Computed)
      /\ \A q \in Requests : d.blocks[q] = cache.blocks[q]
  BY <1>1, <1>2, CacheItself
<1> HIDE DEF d
<1> QED
  BY <1>1, <1>2, <1>4, <1>5, SameStock

\* The plan is complete: every decode of it has its row.
LEMMA EndPlanStock ==
  ASSUME IInv, BlockInv, Progress, Stock, EndPlan
  PROVE  Stock' /\ Undisturbed
<1>1. /\ pc = "grow" /\ pc' = "execute" /\ prefill' = prefill /\ cache' = cache /\ ToGrow = {}
      /\ UNCHANGED <<status, prompt, output, num_computed, pending_blocks>>
  BY DEF EndPlan, reqVars, queueVars
<1>2. Planning /\ Planning' /\ Stocked /\ pending_blocks \in Registered
  BY <1>1 DEF Planning, Stock, BlockInv, Asks
<1>3. Granted' = Granted
  BY <1>1 DEF Granted
<1>4. Elements(decode') = {r \in Elements(decode) : status[r] = "running"}
  BY EndPlanBatch
<1>5. ASSUME NEW r \in Requests, status[r] = "running"
      PROVE  (Named(r) => Named(r)') /\ (Served(r)' => Served(r))
  <2>1. Named(r) => Named(r)'
    BY <1>1, <1>3, <1>4, <1>5 DEF Named
  <2>2. ASSUME r \in Elements(decode)
        PROVE  \E i \in 1 .. Len(decode) : i < cursor /\ decode[i] = r
    <3>1. PICK i \in 1 .. Len(decode) : r = decode[i]
      BY <2>2, Zenon DEF Elements
    <3>2. cursor \in Nat /\ Len(decode) \in Nat
      BY <1>1 DEF IInv, PlanInv, Locals, Batch, ListOf
    <3>3. i \notin cursor .. Len(decode)
      BY <1>1, <1>5, <3>1 DEF ToGrow
    <3>4. i < cursor
      BY <3>2, <3>3
    <3> QED
      BY <3>1, <3>4, Zenon
  <2>3. Served(r)' => r \in Granted \/ r \in Elements(decode)
    BY <1>1, <1>3, <1>4 DEF Served
  <2> QED
    BY <1>1, <2>1, <2>2, <2>3, Zenon DEF Served
<1> DEFINE d == cache
<1>6. cache' = d /\ Keeps(cache, d, Token, Sequences, Computed, Computed)
      /\ \A q \in Requests : d.blocks[q] = cache.blocks[q]
  BY <1>1, <1>2, CacheItself
<1> HIDE DEF d
<1> QED
  BY <1>1, <1>2, <1>5, <1>6, SameStock

\* Stage 1 preempts a request: its full blocks stay carried by the index.
LEMMA ResumeEvictStock ==
  ASSUME IInv, BlockInv, Progress, Stock, ResumeEvict
  PROVE  Stock' /\ Undisturbed
<1> DEFINE v == Victim(Granted \cup {Resuming})
<1>1. /\ pc = "resume" /\ pc' = pc /\ prefill' = prefill /\ decode' = decode
      /\ v # NoRequest /\ Preempt(cache, v)
  BY DEF ResumeEvict
<1>2. Planning /\ Planning' /\ Stocked
  BY <1>1 DEF Planning, Stock
<1>3. v \in InState("running") /\ v \notin Granted
  <2> DEFINE P == Granted \cup {Resuming}
  <2>1. Queues
    BY DEF IInv, Places
  <2>2. Victim(P) \in InState("running") /\ Victim(P) \notin P
    BY <1>1, <2>1, VictimRuns
  <2> QED
    BY <2>2
<1>4. Granted' = Granted
  BY <1>1 DEF Granted
<1>5. \A r \in Requests : (Named(r) => Named(r)') /\ (Served(r)' => Served(r))
  BY <1>1, <1>4 DEF Named, Served
<1>6. Keeps(cache, cache, Token, Sequences, Computed, Computed)
  BY <1>2, CacheItself
<1> DEFINE c == cache
<1>7. Keeps(cache, c, Token, Sequences, Computed, Computed) /\ Preempt(c, v)
      /\ \A q \in Requests : c.blocks[q] = cache.blocks[q]
  BY <1>1, <1>6
<1> HIDE DEF c, v
<1> QED
  BY <1>1, <1>2, <1>3, <1>5, <1>7, EvictStock

\* Admission preempts a request.
LEMMA AdmitEvictStock ==
  ASSUME IInv, BlockInv, Progress, Stock, AdmitEvict
  PROVE  Stock' /\ Undisturbed
<1> DEFINE v == PolicyVictim
           c == Tracked(Candidate)
<1>1. /\ pc = "admit" /\ pc' = pc /\ prefill' = prefill /\ decode' = decode /\ waiting # <<>>
      /\ v # NoRequest /\ Preempt(c, v)
  BY DEF AdmitEvict
<1>2. Planning /\ Planning' /\ Stocked
  BY <1>1 DEF Planning, Stock
<1>3. v \in InState("running") /\ v \notin Granted
  <2>1. Queues /\ Victim(Granted) # NoRequest /\ v = Victim(Granted)
    BY <1>1 DEF IInv, Places, PolicyVictim
  <2> QED
    BY <2>1, VictimRuns
<1>4. Granted' = Granted
  BY <1>1 DEF Granted
<1>5. \A r \in Requests : (Named(r) => Named(r)') /\ (Served(r)' => Served(r))
  BY <1>1, <1>4 DEF Named, Served
<1>6. Candidate \in InState("waiting")
  BY <1>1, CandidateWaits DEF IInv, Places, PlanInv
<1>7. Keeps(cache, c, Token, Sequences, Computed, Computed)
      /\ \A q \in Requests : c.blocks[q] = cache.blocks[q]
  BY <1>2, <1>6, TrackedKeeps
<1> HIDE DEF c, v
<1> QED
  BY <1>1, <1>2, <1>3, <1>5, <1>7, EvictStock

\* A decode of the batch is given up, or another one for it.
LEMMA GrowEvictStock ==
  ASSUME IInv, BlockInv, Progress, Stock, GrowEvict
  PROVE  Stock' /\ Undisturbed
<1> DEFINE v == IF Victim(GrowProtects(Growing)) # NoRequest
                THEN Victim(GrowProtects(Growing)) ELSE Growing
<1>1. /\ pc = "grow" /\ pc' = pc /\ prefill' = prefill /\ decode' = decode /\ cursor' = cursor
      /\ Preempt(cache, v) /\ ToGrow # {}
  BY DEF GrowEvict
<1>2. Planning /\ Planning' /\ Stocked
  BY <1>1 DEF Planning, Stock
<1>3. v \in InState("running") /\ v \notin Granted
  BY <1>1, GrowVictim
<1>4. Granted' = Granted
  BY <1>1 DEF Granted
<1>5. \A r \in Requests : (Named(r) => Named(r)') /\ (Served(r)' => Served(r))
  BY <1>1, <1>4 DEF Named, Served
<1>6. Keeps(cache, cache, Token, Sequences, Computed, Computed)
  BY <1>2, CacheItself
<1> DEFINE c == cache
<1>7. Keeps(cache, c, Token, Sequences, Computed, Computed) /\ Preempt(c, v)
      /\ \A q \in Requests : c.blocks[q] = cache.blocks[q]
  BY <1>1, <1>6
<1> HIDE DEF c, v
<1> QED
  BY <1>1, <1>2, <1>3, <1>5, <1>7, EvictStock

\* Admission finds no room: the blocks it took are given back.
LEMMA AdmitRefuseStock ==
  ASSUME IInv, BlockInv, Progress, Stock, AdmitRefuse
  PROVE  Stock' /\ Undisturbed
<1> DEFINE r == Candidate
           c == Tracked(r)
           v == PolicyVictim
           done == Computed
<1>1. pc = "admit" /\ pc' = "batch" /\ waiting # <<>> /\ prefill' = prefill /\ decode' = decode
  BY DEF AdmitRefuse, Admissible
<1>2. PICK m \in Lookup(c, r, Len(prompt[r])) :
        LET refused == Free(RefuseAllocation(c, r, m), r)
        IN  \/ /\ cache' = refused
               /\ UNCHANGED <<status, prompt, output, num_computed, pending_blocks>>
            \/ v # NoRequest /\ Preempt(refused, v)
  BY DEF AdmitRefuse, reqVars
<1> DEFINE given   == RefuseAllocation(c, r, m)
           refused == Free(given, r)
<1>3. /\ r \in InState("waiting") /\ r \in Requests /\ Lent(c) /\ IsMatch(c, r, m) /\ status[r] = "waiting"
  BY <1>1, CandidateBlocks DEF InState
<1>4. \/ cache' = refused /\ UNCHANGED <<status, prompt, output, num_computed, pending_blocks>>
      \/ v # NoRequest /\ Preempt(refused, v)
  BY <1>2
<1>5. Stocked /\ Planning /\ Planning' /\ pending_blocks \in Registered
  BY <1>1 DEF Planning, Stock, BlockInv, Asks
<1>6. /\ Keeps(cache, c, Token, Sequences, done, done) /\ done[r] = 0
      /\ \A q \in Requests : c.blocks[q] = cache.blocks[q]
  <2> HIDE DEF r, c
  <2> QED
    BY <1>3, <1>5, TrackedKeeps DEF r, c
<1>7. Granted' = Granted
  BY <1>1 DEF Granted
<1>8. \A q \in Requests : (Named(q) => Named(q)') /\ (Served(q)' => Served(q))
  BY <1>1, <1>7 DEF Named, Served
<1>9. done \in [Requests -> Nat]
  BY <1>5, ComputedTyped
<1> HIDE DEF r, c, done
<1>10. c.blocks[r] = <<>>
  BY <1>3 DEF Lent
<1>11. Keeps(c, given, Token, Sequences, done, done) /\ given.blocks = c.blocks
  <2>1. Store(c, Token, Sequences, done)
    BY <1>6 DEF Keeps
  <2> QED
    BY <1>3, <1>10, <2>1, RefuseKeeps
<1> HIDE DEF given
<1>12. Keeps(given, refused, Token, Sequences, done, done) /\ Only(given.blocks, refused.blocks, r, <<>>)
  <2>1. Store(given, Token, Sequences, done)
    BY <1>11 DEF Keeps
  <2>2. /\ Keeps(given, refused, Token, Sequences, done, [done EXCEPT ![r] = 0])
        /\ Only(given.blocks, refused.blocks, r, <<>>)
    BY <1>3, <2>1, FreeKeeps
  <2>3. [done EXCEPT ![r] = 0] = done
    BY <1>3, <1>6, <1>9
  <2> QED
    BY <2>2, <2>3
<1> HIDE DEF refused
<1>13. Keeps(cache, refused, Token, Sequences, done, done)
  BY <1>6, <1>11, <1>12, KeepsKeeps, Zenon
<1>14. \A q \in Requests : refused.blocks[q] = cache.blocks[q]
  BY <1>6, <1>10, <1>11, <1>12 DEF Only
<1>15. Keeps(cache, refused, Token, Sequences, Computed, Computed)
  BY <1>13 DEF done
<1>16. CASE cache' = refused /\ UNCHANGED <<status, prompt, output, num_computed, pending_blocks>>
  BY <1>1, <1>5, <1>8, <1>14, <1>15, <1>16, SameStock
<1>17. CASE v # NoRequest /\ Preempt(refused, v)
  <2>1. v \in InState("running") /\ v \notin Granted
    <3>1. Queues /\ Victim(Granted) # NoRequest /\ v = Victim(Granted)
      BY <1>17 DEF IInv, Places, PolicyVictim
    <3> QED
      BY <3>1, VictimRuns
  <2> HIDE DEF v
  <2> QED
    BY <1>1, <1>5, <1>8, <1>14, <1>15, <1>17, <2>1, EvictStock
<1> QED
  BY <1>4, <1>16, <1>17

\* A grant registers what it promises.
LEMMA RegisterStock ==
  ASSUME Stock, Planning, Planning', NEW r \in Requests, Stocked', Undisturbed,
         status'[r] = "running", \A q \in Requests : q # r => status'[q] = status[q],
         NEW k \in Int, pending_blocks' = Append(pending_blocks, <<r, k>>), pending_blocks \in Registered,
         \A q \in Requests : q # r => cache'.blocks[q] = cache.blocks[q],
         Named(r)', k <= Promised(r)', Promised(r)' <= Len(cache'.blocks[r]) * BlockSize,
         \A q \in Requests : q # r /\ status[q] = "running" =>
           (Named(q) => Named(q)') /\ (Served(q)' => Served(q)) /\ Promised(q)' = Promised(q),
         status[r] = "running" /\ Named(r) => Promised(r)' = Promised(r)
  PROVE  Stock' /\ Undisturbed
<1>1. Registrations'
  <2> SUFFICES ASSUME NEW e \in Elements(pending_blocks')
               PROVE  status'[e[1]] = "running" /\ Named(e[1])' /\ e[2] <= Promised(e[1])'
    BY Zenon DEF Registrations
  <2> DEFINE x == <<r, k>>
  <2>1. x[1] = r /\ x[2] = k
    OBVIOUS
  <2>2. e \in Elements(pending_blocks) \/ e = x
    <3> HIDE DEF x
    <3>1. pending_blocks \in Seq(Requests \X Int) /\ e \in Elements(Append(pending_blocks, x))
      BY DEF Registered, x
    <3> QED
      BY <3>1, AppendElements, Zenon
  <2>3. CASE e = x
    BY <2>1, <2>3
  <2>4. CASE e \in Elements(pending_blocks)
    <3>1. e[1] \in Requests
      <4>1. PICK i \in 1 .. Len(pending_blocks) : e = pending_blocks[i]
        BY <2>4, Zenon DEF Elements
      <4> QED
        BY <4>1 DEF Registered
    <3>2. status[e[1]] = "running" /\ Named(e[1]) /\ e[2] <= Promised(e[1])
      BY <2>4, Zenon DEF Stock, Registrations
    <3>3. CASE e[1] = r
      BY <3>2, <3>3, Zenon
    <3>4. CASE e[1] # r
      BY <3>1, <3>2, <3>4, Zenon
    <3> QED
      BY <3>3, <3>4
  <2> QED
    BY <2>2, <2>3, <2>4
<1>2. Coverage'
  <2> SUFFICES ASSUME NEW q \in Requests, status'[q] = "running", Served(q)'
               PROVE  Promised(q)' <= Len(cache'.blocks[q]) * BlockSize
    BY Zenon DEF Coverage
  <2>1. CASE q = r
    BY <2>1
  <2>2. CASE q # r
    <3>1. status[q] = "running" /\ Served(q) /\ Promised(q)' = Promised(q) /\ cache'.blocks[q] = cache.blocks[q]
      BY <2>2, Zenon
    <3>2. Promised(q) <= Len(cache.blocks[q]) * BlockSize
      BY <3>1, Zenon DEF Stock, Coverage
    <3> QED
      BY <3>1, <3>2, Zenon
  <2> QED
    BY <2>1, <2>2
<1> QED
  BY <1>1, <1>2 DEF Stock

\* A prefill grant, from the cache c that the step has made so far: r gets the
\* blocks of the first n tokens of its prompt, of which the last k are to run.
LEMMA ChunkStock ==
  ASSUME IInv, BlockInv, Progress, Stock, Planning, Planning', pc' \notin {"grow", "execute"}, pc \notin {"grow", "execute"},
         NEW c, Keeps(cache, c, Token, Sequences, Computed, Computed),
         \A q \in Requests : c.blocks[q] = cache.blocks[q],
         NEW r \in Requests, r \notin Granted, output[r] = <<>>,
         NEW k \in Nat \ {0}, NEW n \in Nat \ {0}, NEW m,
         m = <<>> \/ IsMatch(c, r, m), MayAdopt(c, r, m), Fits(c, r, n, m),
         n - k = Hit(Computed[r], m),
         cache' = TakeTableWrites(Allocate(c, r, n, m), r),
         prefill' = Append(prefill, <<r, k>>), num_computed' = [num_computed EXCEPT ![r] = n],
         pending_blocks' = Append(pending_blocks, <<r, n>>),
         status'[r] = "running", \A q \in Requests : q # r => status'[q] = status[q],
         UNCHANGED <<prompt, output>>
  PROVE  Stock' /\ Undisturbed
<1>1. Fields /\ Stocked /\ pending_blocks \in Registered /\ Apart /\ pc # "harvest" /\ pc' # "harvest"
      /\ num_computed \in [Requests -> Int] /\ n \in Int
  BY DEF IInv, Places, PlanInv, Grants, Apart, Planning, Stock, BlockInv, Asks
<1>2. /\ Ahead(r)' = k /\ \A q : q # r => Ahead(q)' = Ahead(q)
      /\ Granted' = Granted \cup {r}
  BY <1>1, AheadGrant
<1>3. Sequences' = Sequences
  BY DEF Sequences, Sequence
<1>4. Computed \in [Requests -> Nat] /\ \A q \in Requests : Computed[q] = ComputedOf(q)
  BY <1>1, ComputedTyped
<1>5. /\ num_computed'[r] = n /\ \A q \in Requests : q # r => num_computed'[q] = num_computed[q]
      /\ output' = output /\ prompt' = prompt
  BY <1>1
<1> DEFINE done == Computed
           h == Hit(done[r], m)
<1>6. ComputedOf(r)' = h
  BY <1>1, <1>2, <1>5 DEF ComputedOf
<1>7. ASSUME NEW q \in Requests, q # r PROVE ComputedOf(q)' = done[q]
  <2>1. ComputedOf(q)' = ComputedOf(q)
    BY <1>1, <1>2, <1>5, <1>7, ComputedSame, Zenon
  <2> QED
    BY <1>4, <2>1
<1>8. Computed' = [done EXCEPT ![r] = h]
  <2>1. Computed' = [q \in Requests |-> IF q = r THEN h ELSE done[q]]
    BY <1>6, <1>7, Zenon DEF Computed
  <2>2. done \in [Requests -> Nat]
    BY <1>4
  <2> HIDE DEF done, h
  <2>3. [q \in Requests |-> IF q = r THEN h ELSE done[q]] = [done EXCEPT ![r] = h]
    BY <2>2
  <2> QED
    BY <2>1, <2>3
<1>9. Computed' = [Computed EXCEPT ![r] = Hit(Computed[r], m)]
  BY <1>8
<1>10. /\ Stocked' /\ Undisturbed
       /\ \A q \in Requests : q # r => cache'.blocks[q] = cache.blocks[q]
       /\ n <= Len(cache'.blocks[r]) * BlockSize
  BY <1>3, <1>9, GrantStock
<1>11. Promised(r)' = n /\ Named(r)'
  BY <1>2, <1>5 DEF Promised, Named
<1>12. ~Named(r)
  BY DEF Named
<1>13. ASSUME NEW q \in Requests, q # r
       PROVE  (Named(q) => Named(q)') /\ (Served(q)' => Served(q)) /\ Promised(q)' = Promised(q)
  <2>1. q \in Granted' <=> q \in Granted
    BY <1>2, <1>13
  <2>2. SeqLen(q)' = SeqLen(q)
    BY <1>5 DEF SeqLen
  <2>3. Promised(q)' = Promised(q)
    BY <1>5, <1>13, <2>1, <2>2 DEF Promised
  <2> QED
    BY <2>1, <2>3 DEF Named, Served
<1>14. n <= n
  BY <1>1
<1> HIDE DEF done, h
<1> QED
  BY <1>1, <1>10, <1>11, <1>12, <1>13, <1>14, RegisterStock

\* Stage 1 grants a running request its next chunk, with the blocks for it.
LEMMA ResumeGrantStock ==
  ASSUME IInv, BlockInv, Progress, Stock, ResumeGrant
  PROVE  Stock' /\ Undisturbed
<1> DEFINE r == Resuming
           n == num_computed[r]
           k == ChunkOf(r, n)
           c == cache
           m == <<>>
<1>1. /\ pc = "resume" /\ pc' = "resume"
      /\ current # NoRequest \/ ToResume # {}
      /\ Fits(c, r, n + k, m)
      /\ cache' = TakeTableWrites(Allocate(c, r, n + k, m), r)
      /\ prefill' = Append(prefill, <<r, (n + k) - n>>)
      /\ num_computed' = [num_computed EXCEPT ![r] = n + k]
      /\ pending_blocks' = Append(pending_blocks, <<r, n + k>>)
      /\ UNCHANGED <<status, prompt, output>>
  BY DEF ResumeGrant, ResumeReach
<1>2. /\ r \in InState("running") /\ r \in Requests /\ r \notin Granted
      /\ n \in Nat /\ n < Len(prompt[r]) /\ output[r] = <<>>
  BY <1>1, ResumingUnfilled DEF BlockInv
<1>3. Fields /\ Stocked /\ Planning /\ Planning'
  BY <1>1 DEF IInv, Places, Stock, Planning
<1>4. Ahead(r) = 0
  BY <1>2 DEF Ahead
<1>5. Computed[r] = n
  <2>1. ComputedOf(r) = n - 0
    BY <1>2, <1>4 DEF ComputedOf, InState
  <2> QED
    BY <1>2, <2>1 DEF Computed
<1>6. Keeps(cache, c, Token, Sequences, Computed, Computed) /\ \A q \in Requests : c.blocks[q] = cache.blocks[q]
  BY <1>3, CacheItself
<1>7. MayAdopt(c, r, m) /\ m = <<>> /\ Hit(Computed[r], m) = n
  BY <1>5 DEF MayAdopt, Hit
<1> HIDE DEF r, c, m
<1> HIDE DEF n
<1>8. k \in Nat \ {0}
  BY <1>2, <1>3, ChunkBounds
<1> HIDE DEF k
<1>9. n + k \in Nat \ {0} /\ (n + k) - n = k /\ (n + k) - k = n
  BY <1>2, <1>8
<1>10. status'[r] = "running" /\ \A q \in Requests : q # r => status'[q] = status[q]
  BY <1>1, <1>2 DEF InState
<1> DEFINE s == n + k
<1>11. s \in Nat \ {0} /\ s - k = Hit(Computed[r], m) /\ Fits(c, r, s, m)
       /\ cache' = TakeTableWrites(Allocate(c, r, s, m), r)
       /\ prefill' = Append(prefill, <<r, k>>)
       /\ num_computed' = [num_computed EXCEPT ![r] = s]
       /\ pending_blocks' = Append(pending_blocks, <<r, s>>)
  BY <1>1, <1>7, <1>9
<1> HIDE DEF s
<1> QED
  BY <1>1, <1>2, <1>3, <1>6, <1>7, <1>8, <1>10, <1>11, ChunkStock

\* Admission runs the first chunk of a waiting request: the rows of the hit are
\* there, whoever computed them.
LEMMA AdmitGrantStock ==
  ASSUME IInv, BlockInv, Progress, Stock, AdmitGrant
  PROVE  Stock' /\ Undisturbed
<1> DEFINE r == Candidate
           c == Tracked(r)
<1>1. /\ pc = "admit" /\ pc' \in {"admit", "batch"} /\ waiting # <<>>
      /\ UNCHANGED <<prompt, output>>
  BY DEF AdmitGrant, Admissible
<1>2. PICK m \in Lookup(c, r, Len(prompt[r])) :
        LET hit == Len(m) * BlockSize
            k   == ChunkOf(r, hit)
        IN  /\ Fits(c, r, hit + k, m)
            /\ cache' = TakeTableWrites(Allocate(c, r, hit + k, m), r)
            /\ status' = [status EXCEPT ![r] = "running"]
            /\ num_computed' = [num_computed EXCEPT ![r] = hit + k]
            /\ prefill' = Append(prefill, <<r, k>>)
            /\ pending_blocks' = Append(pending_blocks, <<r, hit + k>>)
  BY DEF AdmitGrant
<1>3. /\ r \in InState("waiting") /\ r \in Requests /\ Fields
      /\ InOrder(c, Token) /\ MayAdopt(c, r, m) /\ IsMatch(c, r, m)
  BY <1>1, CandidateBlocks
<1> DEFINE hit == Len(m) * BlockSize
           k   == ChunkOf(r, hit)
           s   == hit + k
<1>4. /\ Fits(c, r, s, m) /\ cache' = TakeTableWrites(Allocate(c, r, s, m), r)
      /\ status' = [status EXCEPT ![r] = "running"]
      /\ num_computed' = [num_computed EXCEPT ![r] = s]
      /\ prefill' = Append(prefill, <<r, k>>)
      /\ pending_blocks' = Append(pending_blocks, <<r, s>>)
  BY <1>2
<1>5. Stocked /\ Planning /\ Planning'
  BY <1>1 DEF Stock, Planning
<1>6. /\ Keeps(cache, c, Token, Sequences, Computed, Computed) /\ Computed[r] = 0
      /\ \A q \in Requests : c.blocks[q] = cache.blocks[q]
  <2> HIDE DEF r, c
  <2> QED
    BY <1>3, <1>5, TrackedKeeps DEF r, c
<1> HIDE DEF c
<1>7. Len(prompt[r]) \in Nat \ {0} /\ status[r] = "waiting" /\ output[r] = <<>>
  <2>1. status[r] = "waiting" /\ prompt[r] \in Seq(Token)
    BY <1>3 DEF InState, Fields
  <2>2. prompt[r] # <<>> /\ output[r] = <<>>
    BY <1>3, <2>1 DEF BlockInv, Asks, Progress, Counts, Counted
  <2> HIDE DEF r
  <2> QED
    BY <2>1, <2>2
<1>8. hit \in Nat /\ hit < Len(prompt[r])
  BY <1>3, <1>7, HitLeavesOne
<1>9. Hit(Computed[r], m) = hit
  <2>1. CASE m = <<>>
    <3>1. Len(m) = 0 /\ 0 * BlockSize = 0
      BY <2>1, CacheAssumption
    <3> QED
      BY <1>6, <2>1, <3>1 DEF Hit
  <2>2. CASE m # <<>>
    BY <2>2 DEF Hit
  <2> QED
    BY <2>1, <2>2
<1> HIDE DEF hit, r
<1>10. k \in Nat \ {0}
  BY <1>3, <1>8, ChunkBounds
<1> HIDE DEF k
<1>11. s \in Nat \ {0} /\ s - k = hit
  BY <1>8, <1>10
<1> HIDE DEF s
<1>12. r \notin Granted
  BY <1>1, <1>7 DEF IInv, PlanInv, Grants, InState
<1>13. status'[r] = "running" /\ \A q \in Requests : q # r => status'[q] = status[q]
  BY <1>3, <1>4 DEF Fields
<1>14. s - k = Hit(Computed[r], m) /\ pc' \notin {"grow", "execute"} /\ pc \notin {"grow", "execute"}
  BY <1>1, <1>9, <1>11
<1>15. m = <<>> \/ IsMatch(c, r, m)
  BY <1>3
<1> QED
  BY <1>1, <1>3, <1>4, <1>5, <1>6, <1>7, <1>10, <1>11, <1>12, <1>13, <1>14, <1>15, ChunkStock

\* No live request has filled the context window.
LEMMA WithinWindow ==
  ASSUME Fields, Allowances, NEW r \in Requests, status[r] \in {"waiting", "running"}
  PROVE  SeqLen(r) \in Nat /\ SeqLen(r) < MaxSeqLen
<1> DEFINE a == asked[r]
           p == Len(prompt[r])
           o == Len(output[r])
           x == max_new_tokens[r]
<1>1. a \in Nat /\ p \in Nat /\ o \in Nat /\ x \in Int /\ MaxSeqLen \in Nat /\ MaxGenLen \in Nat
  BY PlannerAssumption DEF Fields
<1>2. p - a + x <= Cap(a) /\ o < x
  BY DEF Allowances, Allowance
<1>3. SeqLen(r) = p + o
  BY DEF SeqLen
<1> HIDE DEF a, p, o, x
<1>4. Cap(a) <= MaxSeqLen - a
  BY <1>1 DEF Cap, Smaller
<1>5. Cap(a) \in Int
  BY <1>1 DEF Cap, Smaller
<1> QED
  BY <1>1, <1>2, <1>3, <1>4, <1>5

\* A decode of the batch gets the block of its row.
LEMMA GrowGrantStock ==
  ASSUME IInv, BlockInv, Progress, Stock, GrowGrant
  PROVE  Stock' /\ Undisturbed
<1>0. PICK r : r = Growing
  OBVIOUS
<1> DEFINE n == GrowReach(r)
           u == DecodedUpto(r)
           l == SeqLen(r)
           c == cache
           m == <<>>
<1>1. /\ pc = "grow" /\ pc' = "grow" /\ ToGrow # {} /\ cursor' = Min(ToGrow) + 1
      /\ Fits(c, r, n, m)
      /\ cache' = TakeTableWrites(Allocate(c, r, n, m), r)
      /\ pending_blocks' = Append(pending_blocks, <<r, u>>)
      /\ prefill' = prefill /\ decode' = decode
      /\ status' = status /\ prompt' = prompt /\ output' = output /\ num_computed' = num_computed
  BY <1>0 DEF GrowGrant
<1>2. r \in Elements(decode) /\ r \in InState("running") /\ Min(ToGrow) \in Nat
  BY <1>0, <1>1, GrowingRuns DEF IInv, PlanInv
<1>3. /\ Fields /\ Allowances /\ Stocked /\ Planning /\ Planning' /\ pending_blocks \in Registered
      /\ pc # "harvest" /\ pc' # "harvest"
  BY <1>1 DEF IInv, Places, Stock, Planning, BlockInv, Asks
<1>4. r \in Requests /\ status[r] = "running" /\ r \notin Granted /\ output[r] # <<>> /\ pending_tokens[r] = 0
  BY <1>1, <1>2 DEF InState, IInv, PlanInv, Batch, Progress, Decodes, Counts, Counted
<1>5. l \in Nat /\ l < MaxSeqLen
  BY <1>3, <1>4, WithinWindow
<1>6. Granted' = Granted /\ \A q : Ahead(q)' = Ahead(q)
  BY <1>1, <1>3, AheadSame
<1>7. Sequences' = Sequences /\ Computed' = Computed /\ \A q : SeqLen(q)' = SeqLen(q)
  <2>1. \A q \in Requests : Ahead(q)' = Ahead(q)
    BY <1>6, Zenon
  <2> QED
    BY <1>1, <1>3, <2>1, SameComputed
<1>8. Keeps(cache, c, Token, Sequences, Computed, Computed) /\ \A q \in Requests : c.blocks[q] = cache.blocks[q]
  BY <1>3, CacheItself
<1>9. MayAdopt(c, r, m) /\ (m = <<>> \/ IsMatch(c, r, m)) /\ Hit(Computed[r], m) = Computed[r]
  BY DEF MayAdopt, Hit
<1>10. n \in Nat \ {0} /\ l <= n /\ u <= l /\ u \in Int
  <2>1. GrowReach(r) = Smaller(l + 0 + 1, MaxSeqLen) /\ DecodedUpto(r) = Smaller(l, MaxSeqLen)
    BY <1>4 DEF GrowReach, DecodedUpto
  <2> HIDE DEF l
  <2>2. MaxSeqLen \in Nat
    BY PlannerAssumption
  <2> QED
    BY <1>5, <2>1, <2>2 DEF Smaller
<1>11. Computed' = [Computed EXCEPT ![r] = Hit(Computed[r], m)]
  <2> DEFINE done == Computed
  <2>1. done \in [Requests -> Nat]
    BY <1>3, ComputedTyped
  <2>2. Computed' = done /\ Hit(done[r], m) = done[r]
    BY <1>7, <1>9
  <2> HIDE DEF done
  <2>3. [done EXCEPT ![r] = done[r]] = done
    BY <1>4, <2>1
  <2> QED
    BY <2>2, <2>3 DEF done
<1>12. Promised(r)' = l /\ Promised(r) = l /\ Named(r)'
  <2>1. SeqLen(r)' = l
    BY <1>7, Zenon
  <2> QED
    BY <1>1, <1>2, <1>4, <1>6, <2>1 DEF Promised, Named
<1>13. ASSUME NEW q \in Requests, q # r, status[q] = "running"
       PROVE  (Named(q) => Named(q)') /\ (Served(q)' => Served(q)) /\ Promised(q)' = Promised(q)
  <2>1. Promised(q)' = Promised(q)
    BY <1>1, <1>6, <1>7, Zenon DEF Promised
  <2>2. Named(q) => Named(q)'
    BY <1>1, <1>6 DEF Named
  <2>3. ASSUME NEW i \in 1 .. Len(decode), i < Min(ToGrow) + 1, decode[i] = q PROVE i < cursor
    <3>1. i # Min(ToGrow)
      BY <1>0, <1>13, <2>3 DEF Growing
    <3>2. Len(decode) \in Nat /\ cursor \in Nat
      BY <1>1 DEF IInv, PlanInv, Batch, ListOf, Locals
    <3>3. i \in Nat /\ i < Min(ToGrow)
      BY <1>2, <2>3, <3>1, <3>2
    <3>4. i \notin ToGrow
      <4>1. \A j \in ToGrow : Min(ToGrow) <= j
        <5>1. \A j \in ToGrow : j \in Nat
          BY <3>2 DEF ToGrow
        <5>2. ToGrow \subseteq Nat
          BY <5>1
        <5> QED
          BY <1>1, <5>2, MinIsLeast
      <4> QED
        BY <1>2, <3>3, <4>1
    <3>5. i \notin cursor .. Len(decode)
      BY <1>13, <2>3, <3>4 DEF ToGrow
    <3> QED
      BY <3>2, <3>3, <3>5
  <2>4. Served(q)' => Served(q)
    <3>1. Served(q)' => q \in Granted \/ \E i \in 1 .. Len(decode) : i < Min(ToGrow) + 1 /\ decode[i] = q
      BY <1>1, <1>6 DEF Served
    <3> QED
      BY <1>1, <2>3, <3>1 DEF Served
  <2> QED
    BY <2>1, <2>2, <2>4
<1> HIDE DEF n, u, c, m
<1>14. /\ Stocked' /\ Undisturbed
       /\ \A q \in Requests : q # r => cache'.blocks[q] = cache.blocks[q]
       /\ n <= Len(cache'.blocks[r]) * BlockSize
  BY <1>1, <1>4, <1>7, <1>8, <1>9, <1>10, <1>11, GrantStock
<1>15. u <= Promised(r)' /\ Promised(r)' <= Len(cache'.blocks[r]) * BlockSize
  <2> DEFINE b == Len(cache'.blocks[r])
             x == b * BlockSize
  <2>1. x \in Nat
    <3>1. b \in Nat
      <4>1. InOrder(cache', Token')
        BY <1>14 DEF Stocked, Store
      <4>2. cache'.blocks \in [Requests -> Seq(Blocks)]
        BY <4>1, CacheTypes
      <4> QED
        BY <1>4, <4>2
    <3> QED
      BY <3>1, Times
  <2>2. n <= x
    BY <1>14
  <2> HIDE DEF x
  <2>3. l <= x
    BY <1>5, <1>10, <2>1, <2>2
  <2> HIDE DEF l
  <2> QED
    BY <1>10, <1>12, <2>3 DEF x
<1>16. status'[r] = "running" /\ \A q \in Requests : q # r => status'[q] = status[q]
  BY <1>1, <1>4
<1>17. status[r] = "running" /\ Named(r) => Promised(r)' = Promised(r)
  BY <1>12
<1>18. /\ pending_blocks' = Append(pending_blocks, <<r, u>>) /\ Named(r)'
       /\ u \in Int
  BY <1>1, <1>10, <1>12
<1>19. \A q \in Requests : q # r /\ status[q] = "running" =>
           (Named(q) => Named(q)') /\ (Served(q)' => Served(q)) /\ Promised(q)' = Promised(q)
  BY <1>13
<1> HIDE DEF l
<1> QED
  BY <1>3, <1>4, <1>14, <1>15, <1>16, <1>17, <1>18, <1>19, RegisterStock

-----------------------------------------------------------------------------
(* The device, the index and the harvest, and the stock. *)

\* An empty plan is not run.
LEMMA SkipEmptyStock ==
  ASSUME IInv, BlockInv, Progress, Stock, SkipEmpty
  PROVE  Stock' /\ Undisturbed
<1>1. /\ pc = "execute" /\ pc' = "idle" /\ prefill = <<>> /\ decode = <<>> /\ cache' = cache
      /\ status' = status /\ prompt' = prompt /\ output' = output /\ num_computed' = num_computed
      /\ pending_blocks' = pending_blocks
  BY DEF SkipEmpty, EndStep, reqVars, queueVars
<1>2. Granted = {} /\ Elements(decode) = {}
  BY <1>1 DEF Granted, Elements
<1>3. \A r \in Requests : Ahead(r)' = Ahead(r)
  <2>1. \A r : Ahead(r) = 0
    BY <1>2, NobodyAhead
  <2>2. \A r : Ahead(r)' = 0
    BY <1>1 DEF Ahead, Planning
  <2> QED
    BY <2>1, <2>2, Zenon
<1>4. Stocked
  BY DEF Stock
<1>5. Sequences' = Sequences /\ Computed' = Computed
  BY <1>1, <1>3, <1>4, SameComputed
<1>6. Stocked' /\ Undisturbed
  <2> DEFINE new == Computed
             d == cache
  <2>1. Keeps(cache, d, Token, Sequences, Computed, new) /\ Computed' = new /\ cache' = d
    BY <1>1, <1>4, <1>5, CacheItself
  <2> HIDE DEF new, d
  <2> QED
    BY <1>5, <2>1, KeepStocked
<1>7. Registrations'
  <2>1. \A e \in Elements(pending_blocks) : Named(e[1])
    BY <1>1, Zenon DEF Stock, Registrations, Planning
  <2>2. \A r : ~Named(r)
    BY <1>2 DEF Named
  <2>3. Elements(pending_blocks') = {}
    BY <1>1, <2>1, <2>2, Zenon
  <2> QED
    BY <2>3, Zenon DEF Registrations
<1>8. Coverage'
  BY <1>1 DEF Coverage, Planning
<1> QED
  BY <1>6, <1>7, <1>8 DEF Stock

\* The lengths that count.
LEMMA Lengths ==
  ASSUME Fields, NEW r \in Requests
  PROVE  /\ Len(prompt[r]) \in Nat /\ Len(output[r]) \in Nat
         /\ SeqLen(r) = Len(prompt[r]) + Len(output[r]) /\ SeqLen(r) \in Nat
         /\ Sequence(r) \in Seq(Token) /\ Len(Sequence(r)) = SeqLen(r)
         /\ (output[r] = <<>> => Len(output[r]) = 0) /\ (output[r] # <<>> => Len(output[r]) >= 1)
<1>1. prompt[r] \in Seq(Token) /\ output[r] \in Seq(Token)
  BY DEF Fields
<1>2. ASSUME NEW s \in Seq(Token), NEW t \in Seq(Token)
      PROVE  /\ Len(s) \in Nat /\ s \o t \in Seq(Token) /\ Len(s \o t) = Len(s) + Len(t)
             /\ (t = <<>> => Len(t) = 0) /\ (t # <<>> => Len(t) >= 1)
  OBVIOUS
<1>3. /\ Len(prompt[r]) \in Nat /\ Len(output[r]) \in Nat /\ Sequence(r) \in Seq(Token)
      /\ Len(Sequence(r)) = Len(prompt[r]) + Len(output[r])
      /\ (output[r] = <<>> => Len(output[r]) = 0) /\ (output[r] # <<>> => Len(output[r]) >= 1)
  BY <1>1, <1>2, Zenon DEF Sequence
<1>4. SeqLen(r) = Len(prompt[r]) + Len(output[r])
  BY DEF SeqLen
<1> DEFINE p == Len(prompt[r])
           o == Len(output[r])
<1> HIDE DEF p, o
<1>5. p \in Nat /\ o \in Nat => p + o \in Nat
  OBVIOUS
<1> QED
  BY <1>3, <1>4, <1>5 DEF p, o

\* The device has run the plan: what was promised is computed.
LEMMA ExecuteComputed ==
  ASSUME IInv, BlockInv, Progress, Stock, Execute
  PROVE  \A r \in Requests :
           /\ status[r] = "running" /\ Named(r) => /\ Computed'[r] = Promised(r) /\ Computed[r] <= Promised(r)
                                                   /\ Promised(r) \in Nat /\ Promised(r) <= Len(Sequences[r])
                                                   /\ Promised(r) <= Len(cache.blocks[r]) * BlockSize
           /\ ~(status[r] = "running" /\ Named(r)) => Computed'[r] = Computed[r]
<1>1. /\ pc = "execute" /\ pc' = "harvest"
      /\ status' = status /\ prompt' = prompt /\ output' = output /\ num_computed' = num_computed
  BY DEF Execute, RunPasses, reqVars
<1>2. Planning /\ ~Planning' /\ Stocked /\ Fields /\ Apart
  BY <1>1 DEF Planning, Stock, IInv, Places, PlanInv, Grants, Apart
<1>3. SUFFICES ASSUME NEW r \in Requests
               PROVE  /\ status[r] = "running" /\ Named(r) => /\ Computed'[r] = Promised(r) /\ Computed[r] <= Promised(r)
                                                   /\ Promised(r) \in Nat /\ Promised(r) <= Len(Sequences[r])
                                                   /\ Promised(r) <= Len(cache.blocks[r]) * BlockSize
                      /\ ~(status[r] = "running" /\ Named(r)) => Computed'[r] = Computed[r]
  OBVIOUS
<1>4. Computed'[r] = ComputedOf(r)' /\ Computed[r] = ComputedOf(r)
  BY DEF Computed
<1>5. r \in Elements(emitted') <=>
           (r \in Granted /\ num_computed[r] = Len(prompt[r])) \/ r \in Elements(decode)
  BY ExecuteEmits
<1>6. Named(r) <=> r \in Granted \/ r \in Elements(decode)
  BY <1>1 DEF Named
<1>7. Named(r) => Served(r)
  BY <1>1 DEF Named, Served
<1>8. Ahead(r)' = 0
  BY <1>2 DEF Ahead
<1>9. /\ Len(prompt[r]) \in Nat /\ SeqLen(r) \in Nat /\ SeqLen(r) = Len(prompt[r]) + Len(output[r])
      /\ Len(output[r]) \in Nat /\ Len(Sequences[r]) = SeqLen(r)
  BY <1>2, Lengths DEF Sequences
<1>10. SeqLen(r)' = SeqLen(r)
  BY <1>1 DEF SeqLen
<1>11. num_computed[r] \in Nat /\ num_computed[r] <= Len(prompt[r]) /\ num_computed[r] <= SeqLen(r)
  <2> DEFINE a == num_computed[r]
             p == Len(prompt[r])
             o == Len(output[r])
             l == SeqLen(r)
  <2>1. a \in 0 .. p /\ p \in Nat /\ o \in Nat /\ l = p + o
    BY <1>9 DEF Progress, Counts, Counted
  <2> HIDE DEF a, p, o, l
  <2>2. a \in Nat /\ a <= p /\ a <= l
    BY <2>1
  <2> QED
    BY <2>2 DEF a, p, l
<1>12. r \in Granted => Ahead(r) \in Nat /\ Ahead(r) <= num_computed[r] /\ output[r] = <<>>
  <2> SUFFICES ASSUME r \in Granted PROVE Ahead(r) \in Nat /\ Ahead(r) <= num_computed[r] /\ output[r] = <<>>
    OBVIOUS
  <2>1. PICK e \in Elements(prefill) : e[1] = r
    BY GrantedChunk
  <2>2. Ahead(r) = e[2]
    BY <1>2, <2>1, AheadOf
  <2>3. e[2] \in Nat \ {0} /\ e[2] <= num_computed[e[1]] /\ output[e[1]] = <<>>
    BY <1>2 DEF Progress, Chunks
  <2> QED
    BY <2>1, <2>2, <2>3
<1>13. CASE status[r] # "running"
  BY <1>1, <1>4, <1>13 DEF ComputedOf
<1>14. CASE status[r] = "running" /\ r \in Granted
  <2>1. Promised(r) = num_computed[r]
    BY <1>14 DEF Promised
  <2>2. ComputedOf(r)' = num_computed[r] - 0 /\ ComputedOf(r) = num_computed[r] - Ahead(r)
    BY <1>1, <1>8, <1>12, <1>14 DEF ComputedOf
  <2>3. Promised(r) <= Len(cache.blocks[r]) * BlockSize
    BY <1>2, <1>6, <1>7, <1>14 DEF Stock, Coverage
  <2> DEFINE a == num_computed[r]
             g == Ahead(r)
             l == SeqLen(r)
  <2>4. a \in Nat /\ g \in Nat /\ g <= a /\ a <= l /\ Computed'[r] = a - 0 /\ Computed[r] = a - g
        /\ Promised(r) = a /\ Len(Sequences[r]) = l
    BY <1>4, <1>9, <1>11, <1>12, <1>14, <2>1, <2>2
  <2> HIDE DEF a, g, l
  <2>5. a - 0 = a /\ a - g <= a
    BY <2>4
  <2>6. /\ Computed'[r] = Promised(r) /\ Computed[r] <= Promised(r) /\ Promised(r) \in Nat
        /\ Promised(r) <= Len(Sequences[r])
    BY <2>4, <2>5, Zenon
  <2> QED
    BY <1>6, <1>14, <2>3, <2>6, Zenon
<1>15. CASE status[r] = "running" /\ r \notin Granted /\ r \in Elements(decode)
  <2>1. Promised(r) = SeqLen(r) /\ output[r] # <<>>
    BY <1>1, <1>15 DEF Promised, Progress, Decodes
  <2>2. ComputedOf(r)' = SeqLen(r) /\ ComputedOf(r) = SeqLen(r) - 1
    BY <1>1, <1>5, <1>10, <1>15, <2>1 DEF ComputedOf
  <2>3. Promised(r) <= Len(cache.blocks[r]) * BlockSize
    BY <1>2, <1>6, <1>7, <1>15 DEF Stock, Coverage
  <2> DEFINE l == SeqLen(r)
  <2>4. l \in Nat /\ Computed'[r] = l /\ Computed[r] = l - 1 /\ Promised(r) = l /\ Len(Sequences[r]) = l
    BY <1>4, <1>9, <2>1, <2>2
  <2> HIDE DEF l
  <2>5. l - 1 <= l
    BY <2>4
  <2>6. /\ Computed'[r] = Promised(r) /\ Computed[r] <= Promised(r) /\ Promised(r) \in Nat
        /\ Promised(r) <= Len(Sequences[r])
    <3>1. l <= l
      BY <2>4
    <3> QED
      BY <2>4, <2>5, <3>1, Zenon
  <2> QED
    BY <1>6, <1>15, <2>3, <2>6, Zenon
<1>16. CASE status[r] = "running" /\ r \notin Granted /\ r \notin Elements(decode)
  <2>1. CASE output[r] = <<>>
    <3>1. Ahead(r) = 0
      BY <1>16 DEF Ahead
    <3>2. ComputedOf(r)' = num_computed[r] - 0 /\ ComputedOf(r) = num_computed[r] - 0
      BY <1>1, <1>8, <1>16, <2>1, <3>1 DEF ComputedOf
    <3> QED
      BY <1>4, <1>6, <1>16, <3>2
  <2>2. CASE output[r] # <<>>
    <3>1. ComputedOf(r)' = SeqLen(r) - 1 /\ ComputedOf(r) = SeqLen(r) - 1
      BY <1>1, <1>5, <1>10, <1>16, <2>2 DEF ComputedOf
    <3> QED
      BY <1>4, <1>6, <1>16, <3>1
  <2> QED
    BY <2>1, <2>2
<1> QED
  BY <1>13, <1>14, <1>15, <1>16

\* The device runs the plan: what was promised is computed.
LEMMA ExecuteStock ==
  ASSUME IInv, BlockInv, Progress, Stock, Execute
  PROVE  Stock'
<1>1. /\ pc = "execute" /\ pc' = "harvest" /\ cache' = cache /\ pending_blocks' = pending_blocks
      /\ status' = status /\ prompt' = prompt /\ output' = output
  BY DEF Execute, RunPasses, reqVars, queueVars
<1>2. Planning /\ ~Planning' /\ Stocked /\ pending_blocks \in Registered
  BY <1>1 DEF Planning, Stock, BlockInv, Asks
<1>3. Sequences' = Sequences
  BY <1>1 DEF Sequences, Sequence
<1> DEFINE done == Computed
           new == Computed'
           seq == Sequences
<1>4. \A r \in Requests :
           /\ status[r] = "running" /\ Named(r) => /\ new[r] = Promised(r) /\ done[r] <= Promised(r)
                                                   /\ Promised(r) \in Nat /\ Promised(r) <= Len(seq[r])
                                                   /\ Promised(r) <= Len(cache.blocks[r]) * BlockSize
           /\ ~(status[r] = "running" /\ Named(r)) => new[r] = done[r]
  BY ExecuteComputed
<1>5. Store(cache, Token, seq, done)
  BY <1>2 DEF Stocked
<1>6. new = [r \in Requests |-> new[r]]
  BY DEF Computed
<1>7. ASSUME NEW r \in Requests
      PROVE  new[r] \in Nat /\ cache.num_cached[r] * BlockSize <= new[r]
             /\ new[r] <= Len(cache.blocks[r]) * BlockSize /\ new[r] <= Len(seq[r])
  <2> DEFINE x == cache.num_cached[r] * BlockSize
             y == Len(cache.blocks[r]) * BlockSize
  <2>1. x <= done[r] /\ done[r] <= y /\ done[r] <= Len(seq[r]) /\ done[r] \in Nat
    BY <1>5 DEF Store
  <2>2. x \in Nat
    <3>1. cache.num_cached \in [Requests -> Nat]
      BY <1>5, CacheTypes DEF Store
    <3>2. cache.num_cached[r] \in Nat
      BY <3>1
    <3> QED
      BY <3>2, Times
  <2>3. /\ status[r] = "running" /\ Named(r) => new[r] = Promised(r) /\ done[r] <= Promised(r)
              /\ Promised(r) \in Nat /\ Promised(r) <= Len(seq[r]) /\ Promised(r) <= y
        /\ ~(status[r] = "running" /\ Named(r)) => new[r] = done[r]
    BY <1>4
  <2> HIDE DEF x, y, done, new, seq
  <2>4. CASE status[r] = "running" /\ Named(r)
    <3>1. x <= Promised(r)
      BY <2>1, <2>2, <2>3, <2>4
    <3> QED
      BY <2>3, <2>4, <3>1 DEF x, y
  <2>5. CASE ~(status[r] = "running" /\ Named(r))
    BY <2>1, <2>3, <2>5 DEF x, y
  <2> QED
    BY <2>4, <2>5
<1> HIDE DEF done, new
<1>8. Store(cache, Token, seq, new)
  <2>1. new \in [Requests -> Nat]
    BY <1>6, <1>7
  <2> QED
    BY <1>5, <1>7, <2>1 DEF Store
<1>9. Stocked'
  <2>1. Store(cache', Token, Sequences', Computed')
    BY <1>1, <1>3, <1>8, Zenon DEF new
  <2> QED
    BY <2>1 DEF Stocked, Token
<1>10. Registrations'
  <2> SUFFICES ASSUME NEW e \in Elements(pending_blocks)
               PROVE  status[e[1]] = "running" /\ e[2] <= new[e[1]]
    BY <1>1, <1>2, Zenon DEF Registrations, new
  <2>1. e[1] \in Requests
    <3>1. PICK i \in 1 .. Len(pending_blocks) : e = pending_blocks[i]
      BY Zenon DEF Elements
    <3> QED
      BY <1>2, <3>1 DEF Registered
  <2>2. status[e[1]] = "running" /\ Named(e[1]) /\ e[2] <= Promised(e[1])
    BY <1>2, Zenon DEF Stock, Registrations
  <2>3. new[e[1]] = Promised(e[1])
    BY <1>4, <2>1, <2>2, Zenon
  <2> QED
    BY <2>2, <2>3, Zenon
<1>11. Coverage'
  BY <1>2 DEF Coverage
<1> QED
  BY <1>9, <1>10, <1>11 DEF Stock

\* The full blocks of the prompts that ran are registered: they are computed.
LEMMA PublishStock ==
  ASSUME IInv, BlockInv, Progress, Stock, Publish
  PROVE  Stock' /\ Undisturbed
<1>1. /\ pc = "harvest" /\ pc' = "idle" /\ emitted = <<>> /\ cache' = cache /\ pending_blocks' = pending_blocks
      /\ status' = status /\ prompt' = prompt /\ output' = output /\ num_computed' = num_computed
  BY DEF Publish, EndStep, reqVars, queueVars
<1>2. ~Planning /\ ~Planning' /\ Stocked /\ Elements(emitted) = {}
  BY <1>1 DEF Planning, Stock, Elements
<1>3. Sequences' = Sequences
  BY <1>1 DEF Sequences, Sequence
<1>4. ASSUME NEW r \in Requests PROVE ComputedOf(r)' = ComputedOf(r)
  <2>1. Ahead(r) = 0 /\ Ahead(r)' = 0 /\ SeqLen(r)' = SeqLen(r)
    BY <1>1, <1>2 DEF Ahead, SeqLen
  <2> QED
    BY <1>1, <1>2, <2>1 DEF ComputedOf
<1>5. Computed' = Computed
  BY <1>4, Zenon DEF Computed
<1>6. Stocked' /\ Undisturbed
  <2> DEFINE new == Computed
             d == cache
  <2>1. Keeps(cache, d, Token, Sequences, Computed, new) /\ Computed' = new /\ cache' = d
    BY <1>1, <1>2, <1>5, CacheItself
  <2> HIDE DEF new, d
  <2> QED
    BY <1>3, <2>1, KeepStocked
<1>7. Registrations'
  BY <1>1, <1>2, <1>5, Zenon DEF Stock, Registrations
<1>8. Coverage'
  BY <1>2 DEF Coverage
<1> QED
  BY <1>6, <1>7, <1>8 DEF Stock

\* A request retires with the sequence more[r]: what it has registered is cashed
\* in, and its blocks are given back.
LEMMA FinishStock ==
  ASSUME Fields, pending_blocks \in Registered, Stocked, Registrations, ~Planning, ~Planning', NEW r \in Requests,
         NEW more, Store(cache, Token, more, Computed),
         \A rows : RowsHold(cache, Sequences, Computed, rows) => RowsHold(cache, more, Computed, rows),
         NEW sequence, sequence = more[r], Finish(r, sequence), Sequences' = more,
         \A q \in Requests : q # r => ComputedOf(q)' = ComputedOf(q)
  PROVE  Stock' /\ Undisturbed
<1> DEFINE done == Computed
           those == {r}
           given == [q \in {r} |-> sequence]
           c == CommitAll(cache, those, given)
           d == Free(c, r)
           new == [done EXCEPT ![r] = 0]
<1>1. /\ status' = [status EXCEPT ![r] = "finished"]
      /\ pending_blocks' = DropPending(r)
      /\ cache' = d
  BY DEF Finish, SettleAndFree
<1>2. \A q \in Requests : q # r => status'[q] = status[q]
  BY <1>1 DEF Fields
<1>3. status'[r] = "finished"
  BY <1>1 DEF Fields
<1>4. \A e \in Elements(pending_blocks) :
         status[e[1]] = "running" /\ e[2] <= done[e[1]] /\ e[1] \in Requests
  <2>1. \A e \in Elements(pending_blocks) : status[e[1]] = "running" /\ e[2] <= done[e[1]]
    BY Zenon DEF Registrations
  <2>2. ASSUME NEW e \in Elements(pending_blocks) PROVE e[1] \in Requests
    <3>1. PICK i \in 1 .. Len(pending_blocks) : e = pending_blocks[i]
      BY Zenon DEF Elements
    <3> QED
      BY <3>1 DEF Registered
  <2> QED
    BY <2>1, <2>2, Zenon
<1>5. done \in [Requests -> Nat] /\ \A q \in Requests : done[q] = ComputedOf(q)
  BY ComputedTyped
<1>6. Store(cache, Token, more, done)
  OBVIOUS
<1>7. \A rows : RowsHold(cache, Sequences, done, rows) => RowsHold(cache, more, done, rows)
  OBVIOUS
<1>8. given[r] = more[r]
  OBVIOUS
<1>9. Computed' = new
  <2>1. ComputedOf(r)' = 0
    BY <1>3 DEF ComputedOf
  <2>2. \A q \in Requests : ComputedOf(q)' = IF q = r THEN 0 ELSE done[q]
    BY <1>5, <2>1
  <2>3. Computed' = [q \in Requests |-> IF q = r THEN 0 ELSE done[q]]
    BY <2>2, Zenon DEF Computed
  <2> HIDE DEF done
  <2>4. [q \in Requests |-> IF q = r THEN 0 ELSE done[q]] = new
    BY <1>5
  <2> QED
    BY <2>3, <2>4
<1> HIDE DEF done, given
<1>10. Keeps(cache, c, Token, more, done, done)
  <2>1. \A e \in Elements(pending_blocks) :
          e[1] \in those => given[e[1]] = more[e[1]] /\ e[2] <= done[e[1]]
    BY <1>4, <1>8, Zenon
  <2> HIDE DEF those
  <2> QED
    BY <1>6, <2>1, CommitAllKeeps, Zenon
<1> HIDE DEF c
<1>11. Keeps(c, d, Token, more, done, new)
  <2>1. Store(c, Token, more, done)
    BY <1>10, Zenon DEF Keeps
  <2> QED
    BY <2>1, FreeKeeps
<1> HIDE DEF d, new
<1>12. Keeps(cache, d, Token, more, done, new)
  BY <1>10, <1>11, KeepsKeeps, Zenon
<1>13. Stocked'
  <2>1. Store(cache', Token, Sequences', Computed')
    BY <1>1, <1>9, <1>12, Zenon DEF Keeps
  <2> QED
    BY <2>1 DEF Stocked, Token
<1>14. Undisturbed
  <2>1. \A rows : RowsHold(cache, more, done, rows) => RowsHold(cache', Sequences', Computed', rows)
    BY <1>1, <1>9, <1>12, Zenon DEF Keeps
  <2> QED
    BY <1>7, <2>1, Zenon DEF Undisturbed, done
<1>15. Registrations'
  <2> SUFFICES ASSUME NEW e \in Elements(pending_blocks')
               PROVE  status'[e[1]] = "running" /\ e[2] <= Computed'[e[1]]
    BY Zenon DEF Registrations
  <2>1. e \in Elements(pending_blocks) /\ e[1] # r
    BY <1>1, DropPendingRegistered
  <2>2. status[e[1]] = "running" /\ e[2] <= done[e[1]] /\ e[1] \in Requests
    BY <1>4, <2>1, Zenon
  <2>3. new[e[1]] = done[e[1]]
    BY <1>5, <2>1, <2>2 DEF new
  <2> QED
    BY <1>2, <1>9, <2>1, <2>2, <2>3, Zenon
<1>16. Coverage'
  BY DEF Coverage
<1> QED
  BY <1>13, <1>14, <1>15, <1>16 DEF Stock

\* A request is aborted between two steps.
LEMMA AbortStock ==
  ASSUME IInv, BlockInv, Progress, Stock, NEW r \in Requests, AbortRequest(r)
  PROVE  Stock' /\ Undisturbed
<1> DEFINE sequence == prompt[r] \o output[r]
<1>1. /\ pc = "idle" /\ pc' = "idle" /\ Finish(r, sequence)
      /\ prompt' = prompt /\ output' = output /\ num_computed' = num_computed
  BY DEF AbortRequest, Abort, planVars
<1>2. /\ Fields /\ pending_blocks \in Registered /\ Stocked /\ Registrations /\ ~Planning /\ ~Planning'
  BY <1>1 DEF IInv, Places, BlockInv, Asks, Stock, Planning
<1> DEFINE more == Sequences
<1>3. Store(cache, Token, more, Computed) /\ Sequences' = more /\ sequence = more[r]
  BY <1>1, <1>2 DEF Stocked, Sequences, Sequence
<1>4. \A rows : RowsHold(cache, Sequences, Computed, rows) => RowsHold(cache, more, Computed, rows)
  OBVIOUS
<1>5. ASSUME NEW q \in Requests, q # r PROVE ComputedOf(q)' = ComputedOf(q)
  <2>1. status'[q] = status[q]
    BY <1>1, <1>2, <1>5 DEF Finish, Fields
  <2>2. Ahead(q)' = Ahead(q)
    BY <1>2 DEF Ahead
  <2>3. pc # "harvest" /\ pc' # "harvest"
    BY <1>1
  <2> QED
    BY <1>1, <2>1, <2>2, <2>3, ComputedSame, Zenon
<1> HIDE DEF more, sequence
<1> QED
  BY <1>1, <1>2, <1>3, <1>4, <1>5, FinishStock

\* While a step is harvested, the others have what they had.
LEMMA HarvestOthers ==
  ASSUME Emission, pc = "harvest", emitted # <<>>, NEW r \in Requests, r = Head(emitted), emitted' = Tail(emitted), pc' = "harvest",
         NEW q \in Requests, q # r, status'[q] = status[q], output'[q] = output[q],
         prompt' = prompt, num_computed' = num_computed
  PROVE  ComputedOf(q)' = ComputedOf(q)
<1>1. ListOf(emitted, Elements(emitted))
  BY DEF Emission
<1>2. Head(emitted) \in Elements(emitted) /\ ListOf(Tail(emitted), Elements(emitted) \ {Head(emitted)})
  BY <1>1, ListTail, Zenon
<1>3. Elements(emitted') = Elements(emitted) \ {r}
  BY <1>2, Zenon DEF ListOf
<1>4. q \in Elements(emitted') <=> q \in Elements(emitted)
  BY <1>3
<1>5. Ahead(q) = 0 /\ Ahead(q)' = 0 /\ SeqLen(q)' = SeqLen(q)
  BY DEF Ahead, Planning, SeqLen
<1> QED
  BY <1>4, <1>5, Zenon DEF ComputedOf

\* The token ends the request, whose full blocks are registered first.
LEMMA HarvestStopStock ==
  ASSUME IInv, BlockInv, Progress, Stock, HarvestStop
  PROVE  Stock' /\ Undisturbed
<1>1. PICK r : r = Head(emitted)
  OBVIOUS
<1> DEFINE sequence == Sequence(r)
<1>2. /\ pc = "harvest" /\ pc' = "harvest" /\ emitted # <<>> /\ emitted' = Tail(emitted) /\ Finish(r, sequence)
      /\ prompt' = prompt /\ output' = output /\ num_computed' = num_computed
  BY <1>1 DEF HarvestStop, TakeStop, planVars
<1>3. /\ Fields /\ pending_blocks \in Registered /\ Stocked /\ Registrations /\ ~Planning /\ ~Planning' /\ Emission
  BY <1>2 DEF IInv, Places, PlanInv, BlockInv, Asks, Stock, Planning
<1>4. r \in Requests
  BY <1>1, <1>2, <1>3, HarvestHead DEF InState
<1> DEFINE more == Sequences
<1>5. Store(cache, Token, more, Computed) /\ Sequences' = more /\ sequence = more[r]
  BY <1>2, <1>3, <1>4 DEF Stocked, Sequences, Sequence
<1>6. \A rows : RowsHold(cache, Sequences, Computed, rows) => RowsHold(cache, more, Computed, rows)
  OBVIOUS
<1>7. ASSUME NEW q \in Requests, q # r PROVE ComputedOf(q)' = ComputedOf(q)
  <2>1. status'[q] = status[q] /\ output'[q] = output[q]
    BY <1>2, <1>3, <1>7 DEF Finish, Fields
  <2> QED
    BY <1>1, <1>2, <1>3, <1>4, <1>7, <2>1, HarvestOthers
<1> HIDE DEF more, sequence
<1> QED
  BY <1>2, <1>3, <1>4, <1>5, <1>6, <1>7, FinishStock

\* The token is appended, and the request goes on: the row of the new token is
\* not there yet.
LEMMA HarvestTokenStock ==
  ASSUME IInv, BlockInv, Progress, Stock, NEW tok \in Generated, HarvestToken(tok)
  PROVE  Stock' /\ Undisturbed
<1>1. PICK r : r = Head(emitted)
  OBVIOUS
<1> DEFINE sequence == Append(Sequence(r), tok)
<1>2. /\ pc = "harvest" /\ pc' = "harvest" /\ emitted # <<>> /\ emitted' = Tail(emitted)
      /\ output' = [output EXCEPT ![r] = Append(output[r], tok)]
      /\ \/ Finish(r, sequence)
         \/ status' = status /\ pending_blocks' = pending_blocks /\ cache' = cache
      /\ prompt' = prompt /\ num_computed' = num_computed
  BY <1>1 DEF HarvestToken, TakeToken, planVars
<1>3. /\ Fields /\ pending_blocks \in Registered /\ Stocked /\ Registrations /\ ~Planning /\ ~Planning' /\ Emission
  BY <1>2 DEF IInv, Places, PlanInv, BlockInv, Asks, Stock, Planning
<1>4. r \in Requests /\ status[r] = "running" /\ r \in Elements(emitted) /\ r \notin Elements(emitted')
  <2>1. r \in InState("running") /\ Elements(emitted') \subseteq InState("running") \ {r}
    BY <1>1, <1>2, <1>3, HarvestHead
  <2>2. r \in Elements(emitted)
    <3>1. ListOf(emitted, Elements(emitted))
      BY <1>2, <1>3 DEF Emission
    <3> QED
      BY <1>1, <1>2, <3>1, ListTail, Zenon
  <2> QED
    BY <2>1, <2>2 DEF InState
<1>5. /\ output'[r] = Append(output[r], tok) /\ \A q \in Requests : q # r => output'[q] = output[q]
      /\ prompt[r] \in Seq(Token) /\ output[r] \in Seq(Token) /\ tok \in Token
  BY <1>2, <1>3, <1>4 DEF Fields, Token
<1>6. ASSUME NEW s \in Seq(Token), NEW t \in Seq(Token)
      PROVE  /\ s \o Append(t, tok) = Append(s \o t, tok) /\ Len(Append(t, tok)) = Len(t) + 1
             /\ Append(t, tok) # <<>>
  <2>1. tok \in Token
    BY <1>5
  <2>2. Len(Append(t, tok)) = Len(t) + 1 /\ Len(t) \in Nat
    BY <2>1
  <2>3. Append(t, tok) # <<>>
    <3> DEFINE w == Append(t, tok)
    <3>1. Len(w) # 0
      BY <2>2
    <3> HIDE DEF w
    <3>2. w # <<>>
      BY <3>1
    <3> QED
      BY <3>2 DEF w
  <2>4. s \o Append(t, tok) = Append(s \o t, tok)
    BY <2>1
  <2> QED
    BY <2>2, <2>3, <2>4
<1> DEFINE more == [Sequences EXCEPT ![r] = Append(Sequences[r], tok)]
<1>7. Sequences' = more /\ sequence = more[r]
  <2>1. Sequences = [q \in Requests |-> Sequence(q)] /\ Sequences' = [q \in Requests |-> Sequence(q)']
    BY Zenon DEF Sequences
  <2>2. Sequence(r)' = Append(Sequence(r), tok)
    BY <1>2, <1>5, <1>6, Zenon DEF Sequence
  <2>3. \A q \in Requests : q # r => Sequence(q)' = Sequence(q)
    BY <1>2, <1>5, Zenon DEF Sequence
  <2>4. Sequences[r] = Sequence(r)
    BY <1>4, <2>1
  <2>5. more = [q \in Requests |-> IF q = r THEN sequence ELSE Sequence(q)]
    BY <1>4, <2>1, <2>4
  <2>6. Sequences' = [q \in Requests |-> IF q = r THEN sequence ELSE Sequence(q)]
    BY <2>1, <2>2, <2>3
  <2> HIDE DEF more, sequence
  <2>7. more[r] = sequence
    BY <1>4, <2>5
  <2> QED
    BY <2>5, <2>6, <2>7
<1>8. /\ Store(cache, Token, more, Computed)
      /\ \A rows : RowsHold(cache, Sequences, Computed, rows) => RowsHold(cache, more, Computed, rows)
  <2> DEFINE seq == Sequences
             done == Computed
  <2>1. Store(cache, Token, seq, done) /\ more = [seq EXCEPT ![r] = Append(seq[r], tok)]
    BY <1>3 DEF Stocked
  <2> HIDE DEF seq, done, more
  <2>2. Follows(cache, Token, seq, more, done)
    BY <1>4, <1>5, <2>1, AppendKeeps, Zenon
  <2> QED
    BY <2>2, Zenon DEF seq, done, Follows
<1> HIDE DEF more, sequence
<1>9. CASE Finish(r, sequence)
  <2>1. ASSUME NEW q \in Requests, q # r PROVE ComputedOf(q)' = ComputedOf(q)
    <3>1. status'[q] = status[q] /\ output'[q] = output[q]
      BY <1>3, <1>5, <1>9, <2>1 DEF Finish, Fields
    <3> QED
      BY <1>1, <1>2, <1>3, <1>4, <2>1, <3>1, HarvestOthers
  <2> QED
    BY <1>3, <1>4, <1>7, <1>8, <1>9, <2>1, FinishStock
<1>10. CASE status' = status /\ pending_blocks' = pending_blocks /\ cache' = cache
  <2>1. ASSUME NEW q \in Requests, q # r PROVE ComputedOf(q)' = ComputedOf(q)
    <3>1. status'[q] = status[q] /\ output'[q] = output[q]
      BY <1>5, <1>10, <2>1
    <3> QED
      BY <1>1, <1>2, <1>3, <1>4, <2>1, <3>1, HarvestOthers
  <2>2. ComputedOf(r)' = SeqLen(r)
    <3>1. output'[r] # <<>> /\ Len(output'[r]) = Len(output[r]) + 1
      BY <1>5, <1>6, Zenon
    <3>2. ComputedOf(r)' = SeqLen(r)' - 1
      BY <1>4, <1>10, <3>1 DEF ComputedOf
    <3>3. SeqLen(r)' = Len(prompt[r]) + (Len(output[r]) + 1)
      BY <1>2, <3>1, Zenon DEF SeqLen
    <3>4. /\ Len(prompt[r]) \in Nat /\ Len(output[r]) \in Nat /\ SeqLen(r) = Len(prompt[r]) + Len(output[r])
      BY <1>3, <1>4, Lengths
    <3> DEFINE p == Len(prompt[r])
               o == Len(output[r])
    <3> HIDE DEF p, o
    <3>5. p \in Nat /\ o \in Nat => (p + (o + 1)) - 1 = p + o
      OBVIOUS
    <3> QED
      BY <3>2, <3>3, <3>4, <3>5 DEF p, o
  <2>3. ComputedOf(r) = SeqLen(r)
    <3>1. /\ Len(prompt[r]) \in Nat /\ SeqLen(r) = Len(prompt[r]) + Len(output[r]) /\ (output[r] = <<>> => Len(output[r]) = 0)
      BY <1>3, <1>4, Lengths
    <3>2. CASE output[r] = <<>>
      <4>1. num_computed[r] = Len(prompt[r])
        BY <1>2, <1>4 DEF Progress, Completed
      <4>2. Ahead(r) = 0
        BY <1>3 DEF Ahead
      <4>3. ComputedOf(r) = Len(prompt[r]) - 0
        BY <1>4, <3>2, <4>1, <4>2 DEF ComputedOf
      <4> DEFINE p == Len(prompt[r])
      <4> HIDE DEF p
      <4>4. p \in Nat => p - 0 = p /\ p + 0 = p
        OBVIOUS
      <4> QED
        BY <3>1, <3>2, <4>3, <4>4 DEF p
    <3>3. CASE output[r] # <<>>
      BY <1>2, <1>4, <3>3 DEF ComputedOf
    <3> QED
      BY <3>2, <3>3
  <2>4. Computed' = Computed
    <3>1. \A q \in Requests : ComputedOf(q)' = ComputedOf(q)
      BY <2>1, <2>2, <2>3, Zenon
    <3> QED
      BY <3>1, Zenon DEF Computed
  <2>5. Stocked'
    <3>1. Store(cache', Token, Sequences', Computed')
      BY <1>7, <1>8, <1>10, <2>4, Zenon
    <3> QED
      BY <3>1 DEF Stocked, Token
  <2>6. Undisturbed
    BY <1>7, <1>8, <1>10, <2>4, Zenon DEF Undisturbed
  <2>7. Registrations'
    BY <1>3, <1>10, <2>4, Zenon DEF Registrations
  <2>8. Coverage'
    BY <1>3 DEF Coverage
  <2> QED
    BY <2>5, <2>6, <2>7, <2>8 DEF Stock
<1> QED
  BY <1>2, <1>9, <1>10

-----------------------------------------------------------------------------
(* Arrivals, and the theorems. *)

\* A request arrives: nothing of it is computed.
LEMMA SubmitStock ==
  ASSUME IInv, BlockInv, Progress, Stock, NEW r \in Requests, NEW p \in Prompts, Submit(r, p)
  PROVE  Stock' /\ Undisturbed
<1>1. /\ pc = "idle" /\ pc' = "idle" /\ status[r] = "new"
      /\ status' = [status EXCEPT ![r] = "waiting"] /\ prompt' = [prompt EXCEPT ![r] = p]
      /\ output' = output /\ num_computed' = num_computed /\ pending_blocks' = pending_blocks /\ cache' = cache
  BY DEF Submit, AddRequest, planVars
<1>2. p \in Seq(Token)
  BY PlannerAssumption DEF Token
<1>3. /\ Fields /\ Stocked /\ Registrations /\ ~Planning /\ ~Planning' /\ pending_blocks \in Registered
  BY <1>1 DEF IInv, Places, Stock, Planning, BlockInv, Asks
<1>4. /\ status'[r] = "waiting" /\ prompt'[r] = p
      /\ \A q \in Requests : q # r => status'[q] = status[q] /\ prompt'[q] = prompt[q]
  BY <1>1, <1>3 DEF Fields
<1>5. prompt[r] = <<>> /\ output[r] = <<>>
  BY <1>1 DEF Progress, Counts, Counted
<1> DEFINE more == [Sequences EXCEPT ![r] = p]
<1>6. Sequences' = more /\ Sequences[r] = <<>>
  <2>1. Sequences = [q \in Requests |-> Sequence(q)] /\ Sequences' = [q \in Requests |-> Sequence(q)']
    BY Zenon DEF Sequences
  <2>2. ASSUME NEW s \in Seq(Token) PROVE s \o <<>> = s
    OBVIOUS
  <2>3. p \o <<>> = p /\ <<>> \o <<>> = <<>>
    BY <1>2, <2>2
  <2>4. Sequence(r)' = p /\ Sequence(r) = <<>>
    BY <1>1, <1>4, <1>5, <2>3, Zenon DEF Sequence
  <2>5. \A q \in Requests : q # r => Sequence(q)' = Sequence(q)
    BY <1>1, <1>4, Zenon DEF Sequence
  <2>6. more = [q \in Requests |-> IF q = r THEN p ELSE Sequence(q)]
    BY <2>1
  <2>7. Sequences' = [q \in Requests |-> IF q = r THEN p ELSE Sequence(q)]
    BY <2>1, <2>4, <2>5
  <2>8. Sequences[r] = <<>>
    BY <2>1, <2>4
  <2> QED
    BY <2>6, <2>7, <2>8
<1>7. Computed' = Computed
  <2>1. ASSUME NEW q \in Requests PROVE ComputedOf(q)' = ComputedOf(q)
    <3>1. CASE q = r
      BY <1>1, <1>4, <3>1 DEF ComputedOf
    <3>2. CASE q # r
      <4>1. Ahead(q)' = Ahead(q) /\ status'[q] = status[q] /\ prompt'[q] = prompt[q]
            /\ pc # "harvest" /\ pc' # "harvest"
        BY <1>1, <1>3, <1>4, <3>2 DEF Ahead
      <4> QED
        BY <1>1, <4>1, ComputedSame, Zenon
    <3> QED
      BY <3>1, <3>2
  <2> QED
    BY <2>1, Zenon DEF Computed
<1>8. Follows(cache, Token, Sequences, more, Computed)
  <2> DEFINE seq == Sequences
             done == Computed
  <2>1. Store(cache, Token, seq, done) /\ more = [seq EXCEPT ![r] = p] /\ seq[r] = <<>>
    BY <1>3, <1>6 DEF Stocked
  <2> HIDE DEF seq, done, more
  <2>2. Follows(cache, Token, seq, more, done)
    BY <1>2, <2>1, BringKeeps, Zenon
  <2> QED
    BY <2>2 DEF seq, done
<1> HIDE DEF more
<1>9. Stocked'
  <2>1. Store(cache', Token, Sequences', Computed')
    BY <1>1, <1>6, <1>7, <1>8, Zenon DEF Follows
  <2> QED
    BY <2>1 DEF Stocked, Token
<1>10. Undisturbed
  BY <1>1, <1>6, <1>7, <1>8, Zenon DEF Undisturbed, Follows
<1>11. Registrations'
  <2> SUFFICES ASSUME NEW e \in Elements(pending_blocks)
               PROVE  status'[e[1]] = "running" /\ e[2] <= Computed[e[1]]
    BY <1>1, <1>3, <1>7, Zenon DEF Registrations
  <2>1. e[1] \in Requests
    <3>1. PICK i \in 1 .. Len(pending_blocks) : e = pending_blocks[i]
      BY Zenon DEF Elements
    <3> QED
      BY <1>3, <3>1 DEF Registered
  <2>2. status[e[1]] = "running" /\ e[2] <= Computed[e[1]]
    BY <1>3, Zenon DEF Registrations
  <2>3. e[1] # r
    BY <1>1, <2>2
  <2> QED
    BY <1>4, <2>1, <2>2, <2>3, Zenon
<1>12. Coverage'
  BY <1>3 DEF Coverage
<1> QED
  BY <1>9, <1>10, <1>11, <1>12 DEF Stock

\* Nothing is in stock at first.
LEMMA InitStock == Init => Stock
<1> SUFFICES ASSUME Init PROVE Stock
  OBVIOUS
<1> DEFINE n     == Cardinality(Blocks)
           queue == [i \in 1 .. n |-> i]
<1>1. /\ status = [r \in Requests |-> "new"]
      /\ prompt = [r \in Requests |-> <<>>] /\ output = [r \in Requests |-> <<>>]
      /\ pc = "idle" /\ pending_blocks = <<>> /\ cache = NewCache(queue)
  BY DEF Init, PlannerInit
<1>2. n \in Nat /\ Blocks = 1 .. n
  BY CacheAssumption, PlannerAssumption, FS_CardinalityType, Zenon
<1> HIDE DEF n
<1>3. \A i \in 1 .. Len(queue) : queue[i] \in Blocks
  BY <1>2
<1> HIDE DEF queue
<1>4. /\ cache.ref_cnt = [b \in Blocks |-> 0] /\ cache.block_hash = [b \in Blocks |-> NoHash]
      /\ cache.free = queue /\ cache.index = {} /\ cache.blocks = [r \in Requests |-> <<>>]
      /\ cache.num_cached = [r \in Requests |-> 0] /\ cache.hashes = [r \in Requests |-> <<>>]
  BY <1>1 DEF NewCache
<1>5. Neat(cache)
  <2>1. \A r \in Requests : cache.blocks[r] = <<>> /\ cache.num_cached[r] <= 0
    BY <1>4
  <2>2. \A i \in 1 .. Len(cache.free) : cache.free[i] \in Blocks
    BY <1>3, <1>4
  <2> QED
    BY <1>4, <2>1, <2>2, BlankTidy DEF Neat, Anchored
<1>6. InOrder(cache, Token)
  BY InitBlocks DEF BlockInv
<1>7. Sequences \in [Requests -> Seq(Token)] /\ \A r \in Requests : Sequences[r] = <<>>
  <2>1. \A r \in Requests : Sequence(r) = <<>>
    <3>1. <<>> \o <<>> = <<>>
      OBVIOUS
    <3> QED
      BY <1>1, <3>1 DEF Sequence
  <2>2. Sequences = [r \in Requests |-> <<>>]
    BY <2>1 DEF Sequences
  <2> QED
    BY <2>2
<1>8. Computed \in [Requests -> Nat] /\ \A r \in Requests : Computed[r] = 0
  <2>1. \A r \in Requests : ComputedOf(r) = 0
    BY <1>1 DEF ComputedOf
  <2>2. Computed = [r \in Requests |-> 0]
    BY <2>1 DEF Computed
  <2> QED
    BY <2>2
<1>9. Len(<<>>) = 0 /\ 0 \div BlockSize = 0 /\ 0 * BlockSize = 0
  BY CacheAssumption, QuotientIs
<1>10. ChainOf(<<>>, <<>>)
  BY <1>9 DEF ChainOf
<1>11. ASSUME NEW r \in Requests
       PROVE  /\ ChainOf(cache.hashes[r], Sequences[r])
              /\ cache.num_cached[r] * BlockSize <= Computed[r] /\ Computed[r] <= Len(cache.blocks[r]) * BlockSize
              /\ Computed[r] <= Len(Sequences[r])
  BY <1>4, <1>7, <1>8, <1>9, <1>10
<1>12. Stocked
  BY <1>5, <1>6, <1>7, <1>8, <1>11, Zenon DEF Stocked, Store
<1>13. Registrations /\ Coverage
  BY <1>1 DEF Registrations, Coverage, Planning, Elements
<1> QED
  BY <1>12, <1>13 DEF Stock

\* Every step keeps the stock, and every step but the device's leaves the rows
\* as good as they were.
LEMMA NextStock ==
  ASSUME IInv, BlockInv, Progress, Stock, [Next]_vars
  PROVE  Stock' /\ (Execute \/ Undisturbed)
<1>1. ASSUME NEW r \in Requests, NEW p \in Prompts, Submit(r, p) PROVE Stock' /\ Undisturbed
  BY <1>1, SubmitStock
<1>2. ASSUME NEW r \in Requests, AbortRequest(r) PROVE Stock' /\ Undisturbed
  BY <1>2, AbortStock
<1>3. CASE UNCHANGED vars
  <2>1. /\ status' = status /\ prompt' = prompt /\ output' = output /\ num_computed' = num_computed
        /\ pending_blocks' = pending_blocks /\ cache' = cache /\ prefill' = prefill /\ decode' = decode
        /\ pc' = pc /\ cursor' = cursor /\ emitted' = emitted
    BY <1>3 DEF vars, plannerVars, reqVars, queueVars, planVars, loopVars
  <2>2. Granted' = Granted /\ Planning' = Planning /\ Elements(prefill') = Elements(prefill)
    BY <2>1 DEF Granted, Planning
  <2>3. \A r : Ahead(r)' = Ahead(r)
    <3>1. ASSUME NEW r PROVE Ahead(r)' = Ahead(r)
      <4>1. CASE Planning /\ r \in Granted
        <5>1. Planning' /\ r \in Granted'
          BY <2>2, <4>1
        <5>2. Ahead(r)' = (CHOOSE e \in Elements(prefill') : e[1] = r)[2]
          BY <5>1, Zenon DEF Ahead, Elements
        <5>3. Ahead(r) = (CHOOSE e \in Elements(prefill) : e[1] = r)[2]
          BY <4>1, Zenon DEF Ahead
        <5> QED
          BY <2>2, <5>2, <5>3, Zenon
      <4>2. CASE ~(Planning /\ r \in Granted)
        <5>1. ~(Planning' /\ r \in Granted')
          BY <2>2, <4>2
        <5>2. Ahead(r)' = 0
          BY <5>1, Zenon DEF Ahead
        <5>3. Ahead(r) = 0
          BY <4>2, Zenon DEF Ahead
        <5> QED
          BY <5>2, <5>3
      <4> QED
        BY <4>1, <4>2
    <3> QED
      BY <3>1, Zenon
  <2>4. \A r : SeqLen(r)' = SeqLen(r)
    BY <2>1, Zenon DEF SeqLen
  <2>5. \A r : ComputedOf(r)' = ComputedOf(r)
    BY <2>1, <2>3, <2>4, Zenon DEF ComputedOf
  <2>6. Computed' = Computed /\ Sequences' = Sequences
    BY <2>1, <2>5, Zenon DEF Computed, Sequences, Sequence
  <2>7. \A r : Named(r)' = Named(r) /\ Served(r)' = Served(r) /\ Promised(r)' = Promised(r)
    BY <2>1, <2>2, <2>4, Zenon DEF Named, Served, Promised
  <2>8. Stocked'
    <3>1. Store(cache', Token, Sequences', Computed')
      BY <2>1, <2>6, Zenon DEF Stock, Stocked
    <3> QED
      BY <3>1 DEF Stocked, Token
  <2>9. Registrations' /\ Coverage'
    BY <2>1, <2>2, <2>6, <2>7, Zenon DEF Stock, Registrations, Coverage
  <2>10. Undisturbed
    BY <2>1, <2>6, Zenon DEF Undisturbed
  <2> QED
    BY <2>8, <2>9, <2>10 DEF Stock
<1>4. CASE Plan
  <2>2. CASE BeginPlan BY <2>2, BeginPlanStock
  <2>3. CASE ResumeGrant BY <2>3, ResumeGrantStock
  <2>4. CASE ResumeEvict BY <2>4, ResumeEvictStock
  <2>5. CASE ResumeStall BY <2>5, ResumeStallStock
  <2>6. CASE EndResume BY <2>6, EndResumeStock
  <2>7. CASE AdmitStop BY <2>7, AdmitStopStock
  <2>8. CASE AdmitEvict BY <2>8, AdmitEvictStock
  <2>9. CASE AdmitGrant BY <2>9, AdmitGrantStock
  <2>10. CASE AdmitRefuse BY <2>10, AdmitRefuseStock
  <2>11. CASE FormDecode BY <2>11, FormDecodeStock
  <2>12. CASE GrowGrant BY <2>12, GrowGrantStock
  <2>13. CASE GrowEvict BY <2>13, GrowEvictStock
  <2>14. CASE EndPlan BY <2>14, EndPlanStock
  <2> QED
    BY <1>4, <2>2, <2>3, <2>4, <2>5, <2>6, <2>7, <2>8, <2>9, <2>10, <2>11, <2>12, <2>13, <2>14
       DEF Plan, PlanStep
<1>5. CASE SkipEmpty BY <1>5, SkipEmptyStock
<1>6. CASE Execute BY <1>6, ExecuteStock
<1>7. CASE HarvestStop BY <1>7, HarvestStopStock
<1>8. ASSUME NEW tok \in Generated, HarvestToken(tok) PROVE Stock' /\ Undisturbed
  BY <1>8, HarvestTokenStock
<1>9. CASE Publish BY <1>9, PublishStock
<1>10. CASE Poll BY <1>3, <1>10 DEF Poll
<1> QED
  BY <1>1, <1>2, <1>3, <1>4, <1>5, <1>6, <1>7, <1>8, <1>9, <1>10 DEF Next, EngineStep

\* What a complete plan is about to write.
LEMMA WritesCovered ==
  ASSUME IInv, BlockInv, Progress, Stock, pc = "execute", NEW r \in Planned
  PROVE  /\ r \in Requests /\ status[r] = "running" /\ Max(Writes(r)) \in Writes(r)
         /\ \A p \in Writes(r) : p \in Nat \ {0} /\ p > Computed[r] /\ NumBlocksFor(p) <= Len(cache.blocks[r])
<1>1. Planning /\ Fields /\ Apart /\ Stocked
  BY DEF Planning, IInv, Places, PlanInv, Grants, Apart, Stock
<1>2. r \in Granted \/ r \in Elements(decode)
  BY DEF Planned
<1>3. r \in InState("running") /\ r \in Requests /\ status[r] = "running"
  BY <1>2 DEF IInv, PlanInv, Grants, BatchRuns, InState
<1>4. Promised(r) <= Len(cache.blocks[r]) * BlockSize
  BY <1>1, <1>2, <1>3 DEF Stock, Coverage, Served
<1>5. Computed[r] = ComputedOf(r)
  BY <1>3 DEF Computed
<1>6. /\ Promised(r) \in Nat \ {0} /\ Promised(r) \in Writes(r)
      /\ \A p \in Writes(r) : p \in Nat \ {0} /\ p > Computed[r] /\ p <= Promised(r)
  <2>1. CASE r \in Granted
    <3> DEFINE e == CHOOSE e \in Elements(prefill) : e[1] = r
               k == e[2]
               n == num_computed[r]
    <3>1. e \in Elements(prefill) /\ e[1] = r
      BY <2>1, GrantedChunk, Zenon
    <3>2. Writes(r) = n - k + 1 .. n
      BY <2>1 DEF Writes
    <3>3. Ahead(r) = k
      BY <1>1, <2>1 DEF Ahead
    <3> HIDE DEF e
    <3>4. k \in Nat \ {0} /\ k <= n /\ output[r] = <<>>
      <4>1. e[2] \in Nat \ {0} /\ e[2] <= num_computed[e[1]] /\ output[e[1]] = <<>>
        BY <1>1, <3>1 DEF Progress, Chunks
      <4> QED
        BY <3>1, <4>1
    <3>5. Computed[r] = n - k
      BY <1>3, <1>5, <3>3, <3>4 DEF ComputedOf
    <3>6. Promised(r) = n
      BY <2>1 DEF Promised
    <3>7. n \in Int
      BY <1>3 DEF BlockInv, Asks
    <3> HIDE DEF n, k
    <3>8. /\ n \in Nat \ {0} /\ n \in n - k + 1 .. n
          /\ \A p \in n - k + 1 .. n : p \in Nat \ {0} /\ p > n - k /\ p <= n
      BY <3>4, <3>7
    <3> QED
      BY <3>2, <3>5, <3>6, <3>8
  <2>2. CASE r \notin Granted
    <3> DEFINE l == SeqLen(r)
    <3>1. output[r] # <<>>
      BY <1>2, <1>3, <2>2 DEF Progress, Decodes
    <3>2. Computed[r] = l - 1 /\ Promised(r) = l /\ Writes(r) = {l}
      BY <1>3, <1>5, <2>2, <3>1 DEF ComputedOf, Promised, Writes
    <3>3. l \in Nat \ {0}
      <4>1. Len(prompt[r]) \in Nat /\ Len(output[r]) >= 1 /\ Len(output[r]) \in Nat /\ l = Len(prompt[r]) + Len(output[r])
        BY <1>1, <1>3, <3>1, Lengths
      <4> DEFINE p == Len(prompt[r])
                 o == Len(output[r])
      <4>2. p \in Nat /\ o \in Nat /\ o >= 1 /\ l = p + o
        BY <4>1
      <4> HIDE DEF p, o, l
      <4>3. l \in Nat \ {0}
        BY <4>2
      <4> QED
        BY <4>3
    <3> HIDE DEF l
    <3>4. l > l - 1 /\ l <= l
      BY <3>3
    <3> QED
      BY <3>2, <3>3, <3>4
  <2> QED
    BY <2>1, <2>2
<1>7. ASSUME NEW p \in Writes(r) PROVE NumBlocksFor(p) <= Len(cache.blocks[r])
  <2> DEFINE b == Len(cache.blocks[r])
             x == b * BlockSize
             m == Promised(r)
  <2>1. b \in Nat
    <3>1. cache.blocks \in [Requests -> Seq(Blocks)]
      BY <1>1, CacheTypes DEF Stocked, Store
    <3> QED
      BY <1>3, <3>1
  <2>2. x \in Nat
    BY <2>1, Times
  <2>3. m \in Nat /\ m <= x /\ p \in Nat \ {0} /\ p <= m
    BY <1>4, <1>6
  <2>4. p <= b * BlockSize <=> NumBlocksFor(p) <= b
    BY <2>1, <2>3, RowPlace
  <2> HIDE DEF x, m
  <2>5. p <= x
    BY <2>2, <2>3
  <2> QED
    BY <2>4, <2>5 DEF x
<1>8. Max(Writes(r)) \in Writes(r)
  <2> DEFINE m == Promised(r)
  <2>1. m \in Nat /\ Writes(r) # {} /\ \A p \in Writes(r) : p \in Nat /\ p <= m
    BY <1>6
  <2> HIDE DEF m
  <2>2. Writes(r) \subseteq 0 .. m
    BY <2>1
  <2> QED
    BY <2>1, <2>2, MaxIsGreatest
<1> QED
  BY <1>3, <1>6, <1>7, <1>8

\* Writes are private when every row of a write is a row of a private block.
LEMMA PrivateFromStock ==
  ASSUME IInv, BlockInv, Progress, Stock
  PROVE  WritesArePrivate
<1> SUFFICES ASSUME pc = "execute", NEW r \in Planned, NEW p \in Writes(r)
             PROVE  LET b == cache.blocks[r][NumBlocksFor(p)]
                    IN  cache.ref_cnt[b] = 1 /\ cache.block_hash[b] = NoHash
  BY DEF WritesArePrivate
<1>1. /\ r \in Requests /\ p \in Nat /\ p > Computed[r] /\ NumBlocksFor(p) <= Len(cache.blocks[r])
  BY WritesCovered
<1> DEFINE done == Computed
<1>2. Store(cache, Token, Sequences, done) /\ p > done[r]
  BY <1>1 DEF Stock, Stocked
<1> HIDE DEF done
<1> QED
  BY <1>1, <1>2, PrivatePlace

\* A plan is runnable when its rows are covered by blocks of the request.
LEMMA RunnableFromStock ==
  ASSUME IInv, BlockInv, Progress, Stock
  PROVE  PlanIsRunnable
<1> SUFFICES ASSUME pc = "execute"
             PROVE  /\ Granted \cap Elements(decode) = {}
                    /\ \A e \in Elements(prefill) : e[2] >= 1
                    /\ \A r \in Planned :
                         /\ status[r] = "running"
                         /\ Len(cache.blocks[r]) >= NumBlocksFor(Max(Writes(r)))
                    /\ \A r \in Elements(decode) : output[r] # <<>>
  BY DEF PlanIsRunnable
<1>1. Granted \cap Elements(decode) = {}
  BY DEF IInv, PlanInv, Batch
<1>2. \A e \in Elements(prefill) : e[2] >= 1
  <2>1. \A e \in Elements(prefill) : e[2] \in Nat \ {0}
    BY DEF Progress, Chunks, Planning
  <2>2. \A k \in Nat \ {0} : k >= 1
    OBVIOUS
  <2> QED
    BY <2>1, <2>2
<1>3. ASSUME NEW r \in Planned
      PROVE  status[r] = "running" /\ Len(cache.blocks[r]) >= NumBlocksFor(Max(Writes(r)))
  <2>1. /\ status[r] = "running" /\ Max(Writes(r)) \in Writes(r)
        /\ \A p \in Writes(r) : NumBlocksFor(p) <= Len(cache.blocks[r])
    BY WritesCovered
  <2>2. NumBlocksFor(Max(Writes(r))) <= Len(cache.blocks[r])
    BY <2>1
  <2>3. \A a, b : a <= b => b >= a
    OBVIOUS
  <2> QED
    BY <2>1, <2>2, <2>3, Zenon
<1>4. \A r \in Elements(decode) : output[r] # <<>>
  BY DEF Progress, Decodes, IInv, PlanInv, BatchRuns, InState
<1> QED
  BY <1>1, <1>2, <1>3, <1>4

\* A pass never writes a row that another request can read.
THEOREM WritesArePrivateTheorem == Spec => []WritesArePrivate
<1>1. Init => IInv /\ BlockInv /\ Progress /\ Stock
  BY InitIInv, InitBlocks, InitProgress, InitStock
<1>2. IInv /\ BlockInv /\ Progress /\ Stock /\ [Next]_vars => IInv' /\ BlockInv' /\ Progress' /\ Stock'
  BY NextIInv, NextBlocks, NextProgress, NextStock
<1>3. IInv /\ BlockInv /\ Progress /\ Stock => WritesArePrivate
  BY PrivateFromStock
<1> QED
  BY <1>1, <1>2, <1>3, PTL DEF Spec

\* A complete plan can be run as it stands.
THEOREM PlanIsRunnableTheorem == Spec => []PlanIsRunnable
<1>1. Init => IInv /\ BlockInv /\ Progress /\ Stock
  BY InitIInv, InitBlocks, InitProgress, InitStock
<1>2. IInv /\ BlockInv /\ Progress /\ Stock /\ [Next]_vars => IInv' /\ BlockInv' /\ Progress' /\ Stock'
  BY NextIInv, NextBlocks, NextProgress, NextStock
<1>3. IInv /\ BlockInv /\ Progress /\ Stock => PlanIsRunnable
  BY RunnableFromStock
<1> QED
  BY <1>1, <1>2, <1>3, PTL DEF Spec

-----------------------------------------------------------------------------
(***************************************************************************)
(* The block tables.  What the executor has been told of the blocks of a   *)
(* request, and what the plan is about to tell it.                         *)
(***************************************************************************)
\* The plan in the making has the table writes of r.
Telling(r) == Planning /\ Served(r)

\* How many of its blocks the table of r shows.
Shown(r) == IF Telling(r) THEN block_plan[r].start ELSE Len(cache.blocks[r])

\* What is due is the rest.
Mapping(r) ==
  /\ Len(cache.blocks[r]) <= Width
  /\ cache.mapped[r] = Len(cache.blocks[r])
  /\ status[r] = "running" =>
       /\ Shown(r) \in 0 .. Len(cache.blocks[r])
       /\ \A i \in 1 .. Shown(r) : table[slot[r]][i] = cache.blocks[r][i]
       /\ Telling(r) => block_plan[r].blocks = SubSeq(cache.blocks[r], Shown(r) + 1, Len(cache.blocks[r]))

\* The tables are tables of blocks, and in step with what the requests have.
Tables ==
  /\ table \in [Slots -> [1 .. Width -> Blocks \cup {NullBlock}]]
  /\ DOMAIN block_plan = Requests
  /\ \A r \in Requests : Mapping(r)

\* The width of a table holds a context.
LEMMA WidthHolds ==
  /\ Width \in Nat /\ MaxSeqLen <= Width * BlockSize
  /\ \A k \in Nat \ {0} : k <= MaxSeqLen => NumBlocksFor(k) <= Width
<1>1. MaxSeqLen \in Nat \ {0}
  BY PlannerAssumption
<1>2. Width \in Nat \ {0} /\ \A n \in Nat : MaxSeqLen <= n * BlockSize <=> Width <= n
  BY <1>1, RowPlace DEF Width
<1>3. Width * BlockSize \in Nat /\ MaxSeqLen <= Width * BlockSize
  <2>1. Width <= Width /\ Width \in Nat
    BY <1>2
  <2> QED
    BY <1>2, <2>1, Times
<1>4. ASSUME NEW k \in Nat \ {0}, k <= MaxSeqLen PROVE NumBlocksFor(k) <= Width
  <2>1. k <= Width * BlockSize <=> NumBlocksFor(k) <= Width
    BY <1>2, RowPlace
  <2> DEFINE x == Width * BlockSize
  <2> HIDE DEF x
  <2>2. k <= x
    <3>1. x \in Nat /\ MaxSeqLen <= x
      BY <1>3 DEF x
    <3> QED
      BY <1>1, <1>4, <3>1
  <2> QED
    BY <2>1, <2>2 DEF x
<1> QED
  BY <1>2, <1>3, <1>4

\* A request whose blocks, table and writes are left alone.
LEMMA SameMapping ==
  ASSUME NEW r \in Requests, Mapping(r),
         cache'.blocks[r] = cache.blocks[r], cache'.mapped[r] = cache.mapped[r],
         status'[r] = "running" =>
           /\ status[r] = "running" /\ slot'[r] = slot[r] /\ table' = table
           /\ Telling(r)' <=> Telling(r)
           /\ Telling(r) => block_plan'[r] = block_plan[r]
  PROVE  Mapping(r)'
<1>1. ASSUME status'[r] = "running" PROVE Shown(r)' = Shown(r)
  <2>1. CASE Telling(r)
    <3>1. Shown(r)' = block_plan'[r].start /\ Shown(r) = block_plan[r].start
      BY <1>1, <2>1 DEF Shown
    <3> QED
      BY <1>1, <2>1, <3>1
  <2>2. CASE ~Telling(r)
    <3>1. Shown(r)' = Len(cache'.blocks[r]) /\ Shown(r) = Len(cache.blocks[r])
      BY <1>1, <2>2 DEF Shown
    <3> QED
      BY <3>1
  <2> QED
    BY <2>1, <2>2
<1>2. Len(cache'.blocks[r]) <= Width /\ cache'.mapped[r] = Len(cache'.blocks[r])
  BY DEF Mapping
<1>3. ASSUME status'[r] = "running"
      PROVE  /\ Shown(r)' \in 0 .. Len(cache'.blocks[r])
             /\ \A i \in 1 .. Shown(r)' : table'[slot'[r]][i] = cache'.blocks[r][i]
             /\ Telling(r)' => block_plan'[r].blocks = SubSeq(cache'.blocks[r], Shown(r)' + 1, Len(cache'.blocks[r]))
  <2>1. /\ Shown(r) \in 0 .. Len(cache.blocks[r])
        /\ \A i \in 1 .. Shown(r) : table[slot[r]][i] = cache.blocks[r][i]
        /\ Telling(r) => block_plan[r].blocks = SubSeq(cache.blocks[r], Shown(r) + 1, Len(cache.blocks[r]))
    BY <1>3 DEF Mapping
  <2>2. Shown(r)' = Shown(r) /\ table' = table /\ slot'[r] = slot[r] /\ (Telling(r)' <=> Telling(r))
        /\ (Telling(r) => block_plan'[r] = block_plan[r])
    BY <1>1, <1>3
  <2> QED
    BY <2>1, <2>2
<1> QED
  BY <1>2, <1>3 DEF Mapping, Width

\* A request without blocks.
LEMMA NoMapping ==
  ASSUME NEW r \in Requests, cache'.blocks[r] = <<>>, cache'.mapped[r] = 0, status'[r] # "running"
  PROVE  Mapping(r)'
<1>1. Len(cache'.blocks[r]) = 0 /\ 0 <= Width
  BY WidthHolds
<1>2. Len(cache'.blocks[r]) <= Width /\ cache'.mapped[r] = Len(cache'.blocks[r])
  BY <1>1
<1> QED
  BY <1>2 DEF Mapping, Width

\* A step that leaves all blocks and tables alone.
LEMMA SameTables ==
  ASSUME Tables, table' = table, slot' = slot, DOMAIN block_plan' = Requests, \A r \in Requests : status'[r] = "running" => status[r] = "running",
         \A r \in Requests : cache'.blocks[r] = cache.blocks[r] /\ cache'.mapped[r] = cache.mapped[r],
         \A r \in Requests : status[r] = "running" =>
           (Telling(r)' <=> Telling(r)) /\ (Telling(r) => block_plan'[r] = block_plan[r])
  PROVE  Tables'
<1>1. ASSUME NEW r \in Requests PROVE Mapping(r)'
  BY SameMapping DEF Tables
<1> QED
  BY <1>1 DEF Tables, Width

\* A request is evicted: the tables keep the entries of its slot.
LEMMA EvictTables ==
  ASSUME Fields, Tables, NEW c, InOrder(c, Token),
         \A q \in Requests : c.blocks[q] = cache.blocks[q] /\ c.mapped[q] = cache.mapped[q],
         NEW v \in InState("running"), Preempt(c, v), table' = table,
         \A q \in Requests : status[q] = "running" => (Telling(q)' <=> Telling(q))
  PROVE  Tables'
<1>1. /\ v \in Requests /\ status' = [status EXCEPT ![v] = "waiting"] /\ slot' = [slot EXCEPT ![v] = NoSlot]
      /\ block_plan' = [block_plan EXCEPT ![v] = NoWrites] /\ cache' = Free(c, v)
  BY DEF Preempt, InState
<1>2. /\ cache'.blocks[v] = <<>>
      /\ \A q \in Requests : q # v => cache'.blocks[q] = c.blocks[q]
  BY <1>1, FreeBlocksOf
<1>3. cache'.mapped[v] = 0 /\ \A q \in Requests : q # v => cache'.mapped[q] = c.mapped[q]
  BY <1>1, FreeMapped
<1>5. Mapping(v)'
  <2>2. status'[v] = "waiting"
    BY <1>1 DEF Fields
  <2> QED
    BY <1>1, <1>2, <1>3, <2>2, NoMapping
<1>6. ASSUME NEW q \in Requests, q # v PROVE Mapping(q)'
  <2>1. cache'.blocks[q] = cache.blocks[q] /\ cache'.mapped[q] = cache.mapped[q]
    BY <1>2, <1>3, <1>6
  <2>2. status'[q] = status[q] /\ slot'[q] = slot[q] /\ block_plan'[q] = block_plan[q]
    BY <1>1, <1>6 DEF Tables, Fields
  <2>3. Mapping(q)
    BY DEF Tables
  <2> QED
    BY <2>1, <2>2, <2>3, SameMapping
<1> QED
  BY <1>1, <1>5, <1>6 DEF Tables, Width

\* A request is given blocks: its table shows those it had, the rest is due.
LEMMA ChunkTables ==
  ASSUME Fields, Tables, Lent(cache), NEW r \in Requests, NEW c, NEW d, NEW k \in Nat \ {0}, NEW m, NEW seq, NEW done,
         \A q \in Requests : c.blocks[q] = cache.blocks[q] /\ c.mapped[q] = cache.mapped[q],
         MayAdopt(c, r, m), Takes(c, d, Token, seq, done, r, k, m),
         k <= MaxSeqLen, m # <<>> => Len(m) \in Nat /\ Len(m) * BlockSize <= k,
         cache' = TakeTableWrites(d, r), block_plan' = [block_plan EXCEPT ![r] = TableWrites(d, r)],
         table' = table, Telling(r)', status[r] = "running" => ~Telling(r) /\ slot'[r] = slot[r],
         \A q \in Requests : q # r => status'[q] = status[q] /\ slot'[q] = slot[q],
         \A q \in Requests : q # r /\ status[q] = "running" => (Telling(q)' <=> Telling(q))
  PROVE  Tables'
<1> DEFINE n == Len(cache.blocks[r])
           l == Len(d.blocks[r])
           own == Base(c, r, m)
<1>1. /\ \A q \in Requests : q # r => d.blocks[q] = c.blocks[q]
      /\ d.mapped = c.mapped
      /\ l = Larger(Len(own), NumBlocksFor(k))
      /\ Len(own) \in Nat /\ NumBlocksFor(k) \in Int
      /\ \A i \in 1 .. Len(own) : d.blocks[r][i] = own[i]
      /\ InOrder(d, Token)
  BY DEF Takes, Keeps, Store
<1>2. d \in Caches(Token) /\ d.mapped \in [Requests -> Nat] /\ d.blocks \in [Requests -> Seq(Blocks)]
  BY <1>1, CacheTypes DEF InOrder
<1>3. /\ cache'.blocks = d.blocks /\ cache'.mapped[r] = l
      /\ \A q \in Requests : q # r => cache'.mapped[q] = c.mapped[q]
  <2>1. cache' = [d EXCEPT !.mapped = [d.mapped EXCEPT ![r] = l]]
    BY DEF TakeTableWrites
  <2>2. cache'.blocks = d.blocks /\ cache'.mapped = [d.mapped EXCEPT ![r] = l]
    <3> DEFINE x == [d.mapped EXCEPT ![r] = l]
    <3>1. cache' = [d EXCEPT !.mapped = x]
      BY <2>1
    <3> HIDE DEF x
    <3>2. cache'.blocks = d.blocks /\ cache'.mapped = x
      BY <1>2, <3>1 DEF Caches
    <3> QED
      BY <3>2 DEF x
  <2> QED
    BY <1>1, <1>2, <2>2
<1>4. cache.mapped[r] = n /\ n <= Width /\ n \in Nat
  <2>1. Mapping(r)
    BY DEF Tables
  <2>2. cache.blocks[r] = c.blocks[r] /\ cache.mapped[r] = d.mapped[r]
    BY <1>1
  <2>3. d.mapped[r] \in Nat
    BY <1>2
  <2> QED
    BY <2>1, <2>2, <2>3 DEF Mapping
<1>5. /\ block_plan'[r].start = n /\ block_plan'[r].blocks = SubSeq(d.blocks[r], n + 1, l)
      /\ \A q \in Requests : q # r => block_plan'[q] = block_plan[q]
      /\ DOMAIN block_plan' = Requests
  <2>1. DOMAIN block_plan = Requests /\ d.mapped[r] = n
    BY <1>1, <1>4 DEF Tables
  <2>2. TableWrites(d, r) = [start |-> n, blocks |-> SubSeq(d.blocks[r], n + 1, l)]
    BY <2>1 DEF TableWrites
  <2> DEFINE w == TableWrites(d, r)
  <2>3. w.start = n /\ w.blocks = SubSeq(d.blocks[r], n + 1, l)
    BY <2>2
  <2>4. block_plan' = [block_plan EXCEPT ![r] = w]
    OBVIOUS
  <2> HIDE DEF w, n, l
  <2> QED
    BY <2>1, <2>3, <2>4
<1>6. n = 0 \/ (m = <<>> /\ own = cache.blocks[r] /\ Len(own) = n)
  <2>1. CASE m = <<>>
    BY <2>1 DEF Base
  <2>2. CASE m # <<>>
    BY <2>2 DEF MayAdopt
  <2> QED
    BY <2>1, <2>2
<1>7. n <= l /\ l \in Nat
  <2> HIDE DEF n, l, own
  <2> QED
    BY <1>1, <1>4, <1>6 DEF Larger
<1>8. l <= Width
  <2>1. Width \in Nat /\ NumBlocksFor(k) <= Width
    BY WidthHolds
  <2>2. Len(own) <= Width
    <3>1. CASE m = <<>>
      <4>1. Len(own) = n
        BY <3>1 DEF Base
      <4> QED
        BY <1>4, <4>1
    <3>2. CASE m # <<>>
      <4> DEFINE a == Len(m)
                 x == a * BlockSize
                 y == Width * BlockSize
                 z == NumBlocksFor(MaxSeqLen)
      <4>1. own = m /\ a \in Nat /\ x <= k
        BY <3>2 DEF Base
      <4>2. x \in Nat /\ y \in Nat /\ MaxSeqLen <= y /\ MaxSeqLen \in Nat
        BY <2>1, <4>1, Times, WidthHolds, PlannerAssumption
      <4>3. CASE a <= Width
        BY <4>1, <4>3
      <4>4. CASE ~(a <= Width)
        <5>1. Width + 1 <= a /\ Width + 1 \in Nat
          BY <2>1, <4>1, <4>4
        <5>2. (Width + 1) * BlockSize <= x
          BY <4>1, <5>1, Times
        <5>3. (Width + 1) * BlockSize = y + BlockSize /\ BlockSize \in Nat \ {0}
          BY <2>1, CacheAssumption
        <5> HIDE DEF x, y
        <5>4. FALSE
          BY <4>1, <4>2, <5>2, <5>3
        <5> QED
          BY <5>4
      <4> QED
        BY <4>3, <4>4
    <3> QED
      BY <3>1, <3>2
  <2> HIDE DEF l, own
  <2> QED
    BY <1>1, <2>1, <2>2 DEF Larger
<1>9. Mapping(r)'
  <2>1. Shown(r)' = n
    BY <1>5 DEF Shown
  <2>2. Len(cache'.blocks[r]) = l
    BY <1>3
  <2>3. ASSUME NEW i \in 1 .. n PROVE status[r] = "running" /\ table'[slot'[r]][i] = cache'.blocks[r][i]
    <3>1. n # 0
      BY <1>4, <2>3
    <3>2. status[r] = "running"
      <4>1. cache.blocks[r] # <<>>
        BY <3>1
      <4> QED
        BY <4>1 DEF Lent
    <3>3. table[slot[r]][i] = cache.blocks[r][i]
      <4>1. Shown(r) = n
        BY <3>2 DEF Shown
      <4> QED
        BY <3>2, <4>1 DEF Tables, Mapping
    <3>4. d.blocks[r][i] = cache.blocks[r][i]
      BY <1>1, <1>6, <3>1
    <3> QED
      BY <1>3, <3>2, <3>3, <3>4
  <2>4. block_plan'[r].blocks = SubSeq(cache'.blocks[r], n + 1, l)
    BY <1>3, <1>5
  <2>5. n \in 0 .. l
    <3> HIDE DEF n, l
    <3> QED
      BY <1>4, <1>7
  <2>6. l <= Width /\ cache'.mapped[r] = l
    BY <1>3, <1>8
  <2> HIDE DEF n, l
  <2> QED
    BY <2>1, <2>2, <2>3, <2>4, <2>5, <2>6 DEF Mapping, Width
<1>10. ASSUME NEW q \in Requests, q # r PROVE Mapping(q)'
  <2>1. cache'.blocks[q] = cache.blocks[q] /\ cache'.mapped[q] = cache.mapped[q]
    BY <1>1, <1>3, <1>10
  <2>2. status'[q] = status[q] /\ slot'[q] = slot[q] /\ block_plan'[q] = block_plan[q]
    BY <1>5, <1>10
  <2>3. Mapping(q)
    BY DEF Tables
  <2>4. status[q] = "running" => (Telling(q)' <=> Telling(q))
    BY <1>10
  <2> QED
    BY <2>1, <2>2, <2>3, <2>4, SameMapping
<1> QED
  BY <1>5, <1>9, <1>10 DEF Tables, Width

\* Up to the decodes the writes of the chunks are due, and no others.
LEMMA TellingChunks ==
  ASSUME pc \in {"resume", "admit", "batch"}
  PROVE  \A r : Telling(r) <=> r \in Granted
  BY DEF Telling, Planning, Served

\* A plan starts with nothing due.
LEMMA BeginPlanTables ==
  ASSUME IInv, BlockInv, Progress, Tables, BeginPlan, table' = table
  PROVE  Tables'
<1> DEFINE those == {r \in Requests : status[r] = "running"}
           given == [r \in Requests |-> prompt[r] \o output[r]]
<1>1. /\ pc = "idle" /\ pc' = "resume" /\ prefill' = <<>> /\ cache' = CommitAll(cache, those, given)
      /\ status' = status /\ slot' = slot /\ block_plan' = block_plan
  BY DEF BeginPlan, reqVars
<1>2. Fields /\ InOrder(cache, Token) /\ pending_blocks \in Registered
  BY DEF IInv, Places, BlockInv, Asks
<1>3. \A r \in those : r \in Requests => given[r] \in Seq(Token)
  BY <1>2 DEF Fields
<1> HIDE DEF those, given
<1>4. cache'.blocks = cache.blocks /\ cache'.mapped = cache.mapped
  BY <1>1, <1>2, <1>3, CommitAllInOrder DEF SamePool
<1>5. \A r \in Requests : ~Telling(r)' /\ ~Telling(r)
  BY <1>1 DEF Telling, Planning, Served, Granted
<1> QED
  BY <1>1, <1>4, <1>5, SameTables DEF Tables

\* Stage 1 grants a chunk: its table writes are due.
LEMMA ResumeGrantTables ==
  ASSUME IInv, BlockInv, Progress, Stock, Tables, ResumeGrant, table' = table
  PROVE  Tables'
<1>0. PICK r : r = Resuming
  OBVIOUS
<1> DEFINE n == num_computed[r]
           k == ChunkOf(r, n)
           c == cache
           m == <<>>
           s == n + k
           d == Allocate(c, r, s, m)
<1>1. /\ pc = "resume" /\ pc' = "resume"
      /\ current # NoRequest \/ ToResume # {}
      /\ Fits(c, r, s, m)
      /\ cache' = TakeTableWrites(d, r) /\ block_plan' = [block_plan EXCEPT ![r] = TableWrites(d, r)]
      /\ prefill' = Append(prefill, <<r, s - n>>)
      /\ UNCHANGED <<status, prompt, output, slot>>
  BY <1>0 DEF ResumeGrant, ResumeReach
<1>2. /\ r \in InState("running") /\ r \in Requests /\ r \notin Granted
      /\ n \in Nat /\ n < Len(prompt[r]) /\ output[r] = <<>>
  BY <1>0, <1>1, ResumingUnfilled DEF BlockInv
<1>3. Fields /\ Allowances /\ Lent(cache) /\ Apart
  BY <1>1 DEF IInv, Places, PlanInv, Grants, BlockInv, Apart
<1>4. Granted' = Granted \cup {r}
  <2> DEFINE x == s - n
  <2> HIDE DEF x
  <2>1. prefill' = Append(prefill, <<r, x>>)
    BY <1>1 DEF x
  <2> QED
    BY <1>2, <1>3, <2>1, GrantMore
<1>5. \A q : (Telling(q) <=> q \in Granted) /\ (Telling(q)' <=> q \in Granted \cup {r})
  <2>1. \A q : Telling(q) <=> q \in Granted
    BY <1>1, TellingChunks
  <2>2. \A q : Telling(q)' <=> q \in Granted'
    BY <1>1 DEF Telling, Planning, Served
  <2> QED
    BY <1>4, <2>1, <2>2
<1>6. MayAdopt(c, r, m) /\ m = <<>> /\ Store(c, Token, Sequences, Computed)
  BY DEF MayAdopt, Stock, Stocked
<1>7. k \in Nat \ {0} /\ n + k <= Len(prompt[r])
  <2> HIDE DEF k
  <2>1. n \in Nat /\ r \in Requests /\ n < Len(prompt[r])
    BY <1>2
  <2> QED
    BY <1>3, <2>1, ChunkBounds DEF k
<1>8. s \in Nat \ {0} /\ s <= MaxSeqLen
  <2>1. SeqLen(r) < MaxSeqLen /\ SeqLen(r) \in Nat /\ MaxSeqLen \in Nat
    BY <1>2, <1>3, WithinWindow, PlannerAssumption DEF InState
  <2>2. SeqLen(r) = Len(prompt[r])
    <3>1. Len(prompt[r]) \in Nat /\ Len(output[r]) = 0
      BY <1>2, <1>3, Lengths
    <3> DEFINE p == Len(prompt[r])
               o == Len(output[r])
    <3>2. SeqLen(r) = p + o /\ p \in Nat /\ o = 0
      BY <3>1 DEF SeqLen
    <3> HIDE DEF p, o
    <3>3. p + o = p
      BY <3>2
    <3> QED
      BY <3>2, <3>3 DEF p
  <2> DEFINE l == Len(prompt[r])
  <2>3. l < MaxSeqLen /\ l \in Nat /\ MaxSeqLen \in Nat /\ n + k <= l /\ n \in Nat /\ k \in Nat \ {0}
    BY <1>2, <1>7, <2>1, <2>2
  <2> HIDE DEF l, n, k
  <2> QED
    BY <2>3
<1> DEFINE seq == Sequences
           done == Computed
<1>9. Takes(c, d, Token, seq, done, r, s, m)
  <2>1. Store(c, Token, seq, done) /\ r \in Requests /\ s \in Int /\ Fits(c, r, s, m) /\ MayAdopt(c, r, m)
    BY <1>1, <1>2, <1>6, <1>8
  <2>2. m = <<>>
    OBVIOUS
  <2> HIDE DEF c, m, s, seq, done
  <2> QED
    BY <2>1, <2>2, AllocateKeeps DEF d
<1>10. status[r] = "running" /\ ~Telling(r) /\ Telling(r)'
  BY <1>2, <1>5 DEF InState
<1>11. \A q \in Requests : q # r => status'[q] = status[q] /\ slot'[q] = slot[q] /\ (Telling(q)' <=> Telling(q))
  BY <1>1, <1>5
<1>12. \A q \in Requests : c.blocks[q] = cache.blocks[q] /\ c.mapped[q] = cache.mapped[q]
  OBVIOUS
<1>13. m # <<>> => Len(m) \in Nat /\ Len(m) * BlockSize <= s
  OBVIOUS
<1>14. slot'[r] = slot[r] /\ r \in Requests
  BY <1>1, <1>2
<1> HIDE DEF c, d, m, s, seq, done
<1> QED
  BY <1>1, <1>3, <1>6, <1>8, <1>9, <1>10, <1>11, <1>12, <1>13, <1>14, ChunkTables

\* The chain of a candidate is no matter of its blocks.
LEMMA TrackedTables ==
  ASSUME IInv, BlockInv, Progress, Stock, NEW r \in InState("waiting")
  PROVE  /\ \A q \in Requests : Tracked(r).blocks[q] = cache.blocks[q] /\ Tracked(r).mapped[q] = cache.mapped[q]
         /\ InOrder(Tracked(r), Token) /\ Store(Tracked(r), Token, Sequences, Computed)
<1>1. Tracked(r).mapped = cache.mapped
  BY DEF Tracked, Track
<1>2. Stocked
  BY DEF Stock
<1>3. /\ Keeps(cache, Tracked(r), Token, Sequences, Computed, Computed)
      /\ \A q \in Requests : Tracked(r).blocks[q] = cache.blocks[q]
  BY <1>2, TrackedKeeps
<1> QED
  BY <1>1, <1>3 DEF Keeps, Store

\* A request is admitted: its table writes are due, and shown is nothing.
LEMMA AdmitGrantTables ==
  ASSUME IInv, BlockInv, Progress, Stock, Tables, AdmitGrant, table' = table
  PROVE  Tables'
<1>0. PICK r : r = Candidate
  OBVIOUS
<1> DEFINE c == Tracked(r)
<1>1. /\ pc = "admit" /\ pc' \in {"admit", "batch"} /\ waiting # <<>>
  BY DEF AdmitGrant, Admissible
<1>2. PICK m \in Lookup(c, r, Len(prompt[r])) :
        LET hit == Len(m) * BlockSize
            k   == ChunkOf(r, hit)
            d   == Allocate(c, r, hit + k, m)
        IN  /\ Fits(c, r, hit + k, m)
            /\ cache' = TakeTableWrites(d, r)
            /\ block_plan' = [block_plan EXCEPT ![r] = TableWrites(d, r)]
            /\ status' = [status EXCEPT ![r] = "running"]
            /\ slot' = [slot EXCEPT ![r] = Last(free_slots)]
            /\ prefill' = Append(prefill, <<r, k>>)
  BY <1>0 DEF AdmitGrant
<1>3. /\ r \in InState("waiting") /\ r \in Requests /\ Fields /\ status[r] = "waiting"
      /\ InOrder(c, Token) /\ MayAdopt(c, r, m) /\ IsMatch(c, r, m) /\ Len(m) \in Nat
  BY <1>0, <1>1, CandidateBlocks DEF InState
<1> DEFINE hit == Len(m) * BlockSize
           k   == ChunkOf(r, hit)
           s   == hit + k
           d   == Allocate(c, r, s, m)
<1>4. /\ Fits(c, r, s, m) /\ cache' = TakeTableWrites(d, r)
      /\ block_plan' = [block_plan EXCEPT ![r] = TableWrites(d, r)]
      /\ status' = [status EXCEPT ![r] = "running"]
      /\ slot' = [slot EXCEPT ![r] = Last(free_slots)]
      /\ prefill' = Append(prefill, <<r, k>>)
  BY <1>2
<1>5. /\ \A q \in Requests : c.blocks[q] = cache.blocks[q] /\ c.mapped[q] = cache.mapped[q]
      /\ Store(c, Token, Sequences, Computed)
  <2> HIDE DEF c
  <2> QED
    BY <1>3, TrackedTables DEF c
<1>6. Len(prompt[r]) \in Nat \ {0} /\ output[r] = <<>>
  <2>1. prompt[r] \in Seq(Token)
    BY <1>3 DEF Fields
  <2>2. prompt[r] # <<>> /\ output[r] = <<>>
    BY <1>3 DEF BlockInv, Asks, Progress, Counts, Counted
  <2> QED
    BY <2>1, <2>2
<1>7. hit \in Nat /\ hit < Len(prompt[r])
  BY <1>0, <1>1, <1>3, <1>6, HitLeavesOne
<1>8. k \in Nat \ {0} /\ hit + k <= Len(prompt[r])
  <2> HIDE DEF hit, k
  <2> QED
    BY <1>3, <1>7, ChunkBounds DEF k
<1>9. s \in Nat \ {0} /\ s <= MaxSeqLen /\ hit <= s
  <2>1. SeqLen(r) < MaxSeqLen /\ SeqLen(r) \in Nat /\ MaxSeqLen \in Nat
    BY <1>3, WithinWindow, PlannerAssumption DEF IInv, Places
  <2>2. SeqLen(r) >= Len(prompt[r])
    <3> DEFINE p == Len(prompt[r])
               o == Len(output[r])
    <3>1. SeqLen(r) = p + o /\ p \in Nat /\ o \in Nat
      BY <1>3, Lengths
    <3> HIDE DEF p, o
    <3>2. p + o >= p
      BY <3>1
    <3> QED
      BY <3>1, <3>2 DEF p
  <2> DEFINE l == Len(prompt[r])
             z == SeqLen(r)
  <2>3. l <= z /\ z < MaxSeqLen /\ l \in Nat /\ z \in Nat /\ MaxSeqLen \in Nat
        /\ hit + k <= l /\ hit \in Nat /\ k \in Nat \ {0}
    BY <1>6, <1>7, <1>8, <2>1, <2>2
  <2> HIDE DEF l, z, hit, k
  <2> QED
    BY <2>3
<1> DEFINE seq == Sequences
           done == Computed
<1>10. Takes(c, d, Token, seq, done, r, s, m)
  <2>1. Store(c, Token, seq, done) /\ r \in Requests /\ s \in Int /\ Fits(c, r, s, m) /\ MayAdopt(c, r, m)
    BY <1>3, <1>4, <1>5, <1>9
  <2>2. IsMatch(c, r, m)
    BY <1>3
  <2> HIDE DEF c, s, seq, done
  <2> QED
    BY <2>1, <2>2, AllocateKeeps DEF d
<1>11. r \notin Granted /\ Granted' = Granted \cup {r}
  <2>1. r \notin Granted /\ Apart
    BY <1>1, <1>3 DEF IInv, PlanInv, Grants, InState, Apart
  <2> HIDE DEF k
  <2> QED
    BY <1>4, <2>1, GrantMore DEF s
<1>12. \A q : (Telling(q) <=> q \in Granted) /\ (Telling(q)' <=> q \in Granted \cup {r})
  <2>1. \A q : Telling(q) <=> q \in Granted
    BY <1>1, TellingChunks
  <2>2. \A q : Telling(q)' <=> q \in Granted'
    BY <1>1 DEF Telling, Planning, Served
  <2> QED
    BY <1>11, <2>1, <2>2
<1>13. status[r] # "running" /\ Telling(r)'
  BY <1>3, <1>12
<1>14. \A q \in Requests : q # r => status'[q] = status[q] /\ slot'[q] = slot[q] /\ (Telling(q)' <=> Telling(q))
  BY <1>3, <1>4, <1>12 DEF Fields, IInv, Places, Seats
<1>15. m # <<>> => Len(m) \in Nat /\ Len(m) * BlockSize <= s
  BY <1>3, <1>9
<1>16. Tables /\ Fields /\ Lent(cache)
  BY DEF IInv, Places, BlockInv
<1>17. \A q \in Requests : c.blocks[q] = cache.blocks[q] /\ c.mapped[q] = cache.mapped[q]
  BY <1>5
<1>18. MayAdopt(c, r, m) /\ r \in Requests /\ s \in Nat \ {0} /\ s <= MaxSeqLen
  BY <1>3, <1>9
<1>19. cache' = TakeTableWrites(d, r) /\ block_plan' = [block_plan EXCEPT ![r] = TableWrites(d, r)]
  BY <1>4
<1>20. status[r] = "running" => ~Telling(r) /\ slot'[r] = slot[r]
  BY <1>13
<1>21. /\ \A q \in Requests : q # r => status'[q] = status[q] /\ slot'[q] = slot[q]
       /\ \A q \in Requests : q # r /\ status[q] = "running" => (Telling(q)' <=> Telling(q))
  BY <1>14
<1> HIDE DEF c, d, s, seq, done, k, hit
<1> QED
  BY <1>10, <1>13, <1>15, <1>16, <1>17, <1>18, <1>19, <1>20, <1>21, ChunkTables

\* A decode gets the block of its row: the write is due if there is one.
LEMMA GrowGrantTables ==
  ASSUME IInv, BlockInv, Progress, Stock, Tables, GrowGrant, table' = table
  PROVE  Tables'
<1>0. PICK r : r = Growing
  OBVIOUS
<1> DEFINE n == GrowReach(r)
           l == SeqLen(r)
           c == cache
           m == <<>>
           d == Allocate(c, r, n, m)
<1>1. /\ pc = "grow" /\ pc' = "grow" /\ ToGrow # {} /\ cursor' = Min(ToGrow) + 1
      /\ Fits(c, r, n, m)
      /\ cache' = TakeTableWrites(d, r) /\ block_plan' = [block_plan EXCEPT ![r] = TableWrites(d, r)]
      /\ prefill' = prefill /\ decode' = decode
      /\ status' = status /\ slot' = slot
  BY <1>0 DEF GrowGrant
<1>2. r \in Elements(decode) /\ r \in InState("running") /\ Min(ToGrow) \in Nat /\ cursor <= Min(ToGrow)
      /\ Min(ToGrow) \in ToGrow /\ decode[Min(ToGrow)] = r
  <2>1. r \in Elements(decode) /\ r \in InState("running") /\ Min(ToGrow) \in Nat
    BY <1>0, <1>1, GrowingRuns DEF IInv, PlanInv
  <2>2. ToGrow \subseteq Nat /\ cursor \in Nat
    BY <1>1 DEF ToGrow, IInv, PlanInv, Locals
  <2>3. Min(ToGrow) \in ToGrow
    BY <1>1, <2>2, MinIsLeast
  <2>4. Len(decode) \in Nat
    BY <1>1 DEF IInv, PlanInv, Batch, ListOf
  <2> QED
    BY <1>0, <2>1, <2>2, <2>3, <2>4 DEF ToGrow, Growing
<1>3. Fields /\ Allowances /\ Lent(cache) /\ Planning /\ Planning' /\ cursor \in Nat /\ Len(decode) \in Nat
  BY <1>1 DEF IInv, Places, PlanInv, Locals, Batch, ListOf, BlockInv, Planning
<1>4. r \in Requests /\ status[r] = "running" /\ r \notin Granted /\ pending_tokens[r] = 0
  BY <1>1, <1>2 DEF InState, IInv, PlanInv, Batch, Progress, Counts, Counted
<1>5. l \in Nat /\ l < MaxSeqLen
  BY <1>3, <1>4, WithinWindow
<1>6. n \in Nat \ {0} /\ n <= MaxSeqLen
  <2>1. GrowReach(r) = Smaller(l + 0 + 1, MaxSeqLen)
    BY <1>4 DEF GrowReach
  <2> HIDE DEF l
  <2>2. MaxSeqLen \in Nat
    BY PlannerAssumption
  <2> QED
    BY <1>5, <2>1, <2>2 DEF Smaller
<1>7. MayAdopt(c, r, m) /\ m = <<>> /\ Store(c, Token, Sequences, Computed)
  BY DEF MayAdopt, Stock, Stocked
<1> DEFINE seq == Sequences
           done == Computed
<1>8. Takes(c, d, Token, seq, done, r, n, m)
  <2>1. Store(c, Token, seq, done) /\ r \in Requests /\ n \in Int /\ Fits(c, r, n, m) /\ MayAdopt(c, r, m)
    BY <1>1, <1>4, <1>6, <1>7
  <2>2. m = <<>>
    OBVIOUS
  <2> HIDE DEF c, m, n, seq, done
  <2> QED
    BY <2>1, <2>2, AllocateKeeps DEF d
<1>9. Granted' = Granted
  BY <1>1 DEF Granted
<1>10. /\ \A q : Telling(q) <=> q \in Granted \/ \E i \in 1 .. Len(decode) : i < cursor /\ decode[i] = q
       /\ \A q : Telling(q)' <=> q \in Granted \/ \E i \in 1 .. Len(decode) : i < Min(ToGrow) + 1 /\ decode[i] = q
  BY <1>1, <1>9 DEF Telling, Planning, Served
<1>11. Min(ToGrow) \in 1 .. Len(decode) /\ \A i \in ToGrow : Min(ToGrow) <= i
  <2>1. ToGrow \subseteq 1 .. Len(decode) /\ ToGrow \subseteq Nat
    <3>1. cursor >= 1
      BY DEF IInv, PlanInv, Locals
    <3> QED
      BY <1>3, <3>1 DEF ToGrow
  <2> QED
    BY <1>1, <1>2, <2>1, MinIsLeast
<1>12. Telling(r)' /\ ~Telling(r)
  <2>1. Telling(r)'
    BY <1>2, <1>10, <1>11
  <2>2. ASSUME NEW i \in 1 .. Len(decode), i < cursor, decode[i] = r PROVE FALSE
    <3>1. ListOf(decode, Elements(decode))
      BY <1>1 DEF IInv, PlanInv, Batch
    <3>2. IsInjective(decode) /\ DOMAIN decode = 1 .. Len(decode)
      BY <3>1 DEF ListOf
    <3>3. i = Min(ToGrow)
      BY <1>2, <1>11, <2>2, <3>2 DEF IsInjective
    <3> QED
      BY <1>2, <1>3, <2>2, <3>3
  <2> QED
    BY <1>4, <1>10, <2>1, <2>2
<1>13. ASSUME NEW q \in Requests, q # r, status[q] = "running" PROVE Telling(q)' <=> Telling(q)
  <2>1. ASSUME NEW i \in 1 .. Len(decode), i < Min(ToGrow) + 1, decode[i] = q PROVE i < cursor
    <3>1. i # Min(ToGrow)
      BY <1>2, <1>13, <2>1
    <3>2. i \in Nat /\ i < Min(ToGrow)
      BY <1>2, <1>3, <2>1, <3>1
    <3>3. i \notin ToGrow
      BY <1>2, <1>11, <3>2
    <3>4. i \notin cursor .. Len(decode)
      BY <1>13, <2>1, <3>3 DEF ToGrow
    <3> QED
      BY <1>3, <2>1, <3>2, <3>4
  <2>2. ASSUME NEW i \in 1 .. Len(decode), i < cursor PROVE i < Min(ToGrow) + 1
    BY <1>2, <1>3, <2>2
  <2> QED
    BY <1>10, <2>1, <2>2
<1>14. \A q \in Requests : c.blocks[q] = cache.blocks[q] /\ c.mapped[q] = cache.mapped[q]
  OBVIOUS
<1>15. m # <<>> => Len(m) \in Nat /\ Len(m) * BlockSize <= n
  OBVIOUS
<1>16. \A q \in Requests : q # r => status'[q] = status[q] /\ slot'[q] = slot[q]
  BY <1>1
<1>17. slot'[r] = slot[r]
  BY <1>1
<1> HIDE DEF c, d, m, n, seq, done
<1> QED
  BY <1>1, <1>3, <1>4, <1>6, <1>7, <1>8, <1>12, <1>13, <1>14, <1>15, <1>16, <1>17, ChunkTables

\* Stage 1 evicts.
LEMMA ResumeEvictTables ==
  ASSUME IInv, BlockInv, Tables, ResumeEvict, table' = table
  PROVE  Tables'
<1>0. PICK v : v = Victim(Granted \cup {Resuming})
  OBVIOUS
<1>1. /\ pc = "resume" /\ pc' = pc /\ prefill' = prefill
      /\ v # NoRequest /\ Preempt(cache, v)
  BY <1>0 DEF ResumeEvict
<1>2. v \in InState("running")
  <2> DEFINE P == Granted \cup {Resuming}
  <2>1. Queues
    BY DEF IInv, Places
  <2>2. Victim(P) \in InState("running")
    BY <1>0, <1>1, <2>1, VictimRuns
  <2> QED
    BY <1>0, <2>2
<1>3. \A q \in Requests : Telling(q)' <=> Telling(q)
  BY <1>1 DEF Telling, Planning, Served, Granted
<1>4. Fields /\ InOrder(cache, Token)
  BY DEF IInv, Places, BlockInv
<1> DEFINE c == cache
<1>5. InOrder(c, Token) /\ Preempt(c, v) /\ \A q \in Requests : c.blocks[q] = cache.blocks[q] /\ c.mapped[q] = cache.mapped[q]
  BY <1>1, <1>4
<1> HIDE DEF c
<1> QED
  BY <1>2, <1>3, <1>4, <1>5, EvictTables

\* Admission evicts.
LEMMA AdmitEvictTables ==
  ASSUME IInv, BlockInv, Progress, Stock, Tables, AdmitEvict, table' = table
  PROVE  Tables'
<1>0. PICK v : v = PolicyVictim
  OBVIOUS
<1> DEFINE c == Tracked(Candidate)
<1>1. /\ pc = "admit" /\ pc' = pc /\ prefill' = prefill /\ waiting # <<>>
      /\ v # NoRequest /\ Preempt(c, v)
  BY <1>0 DEF AdmitEvict
<1>2. v \in InState("running")
  <2>1. Queues /\ Victim(Granted) # NoRequest /\ v = Victim(Granted)
    BY <1>0, <1>1 DEF IInv, Places, PolicyVictim
  <2> QED
    BY <2>1, VictimRuns
<1>3. \A q \in Requests : Telling(q)' <=> Telling(q)
  BY <1>1 DEF Telling, Planning, Served, Granted
<1>4. Candidate \in InState("waiting")
  BY <1>1, CandidateWaits DEF IInv, Places, PlanInv
<1>5. InOrder(c, Token) /\ \A q \in Requests : c.blocks[q] = cache.blocks[q] /\ c.mapped[q] = cache.mapped[q]
  BY <1>4, TrackedTables
<1>6. Fields
  BY DEF IInv, Places
<1> HIDE DEF c
<1> QED
  BY <1>1, <1>2, <1>3, <1>5, <1>6, EvictTables

\* A decode is given up.
LEMMA GrowEvictTables ==
  ASSUME IInv, BlockInv, Tables, GrowEvict, table' = table
  PROVE  Tables'
<1>0. PICK v : v = IF Victim(GrowProtects(Growing)) # NoRequest
                   THEN Victim(GrowProtects(Growing)) ELSE Growing
  OBVIOUS
<1>1. /\ pc = "grow" /\ pc' = pc /\ prefill' = prefill /\ decode' = decode /\ cursor' = cursor
      /\ Preempt(cache, v) /\ ToGrow # {}
  BY <1>0 DEF GrowEvict
<1>2. v \in InState("running")
  BY <1>0, <1>1, GrowVictim
<1>3. \A q \in Requests : Telling(q)' <=> Telling(q)
  BY <1>1 DEF Telling, Planning, Served, Granted
<1>4. Fields /\ InOrder(cache, Token)
  BY DEF IInv, Places, BlockInv
<1> DEFINE c == cache
<1>5. InOrder(c, Token) /\ Preempt(c, v) /\ \A q \in Requests : c.blocks[q] = cache.blocks[q] /\ c.mapped[q] = cache.mapped[q]
  BY <1>1, <1>4
<1> HIDE DEF c
<1> QED
  BY <1>2, <1>3, <1>4, <1>5, EvictTables

\* Admission finds no room.
LEMMA AdmitRefuseTables ==
  ASSUME IInv, BlockInv, Progress, Stock, Tables, AdmitRefuse, table' = table
  PROVE  Tables'
<1>0. PICK v : v = PolicyVictim
  OBVIOUS
<1> DEFINE r == Candidate
           c == Tracked(r)
<1>1. pc = "admit" /\ pc' = "batch" /\ waiting # <<>> /\ prefill' = prefill
  BY DEF AdmitRefuse, Admissible
<1>2. PICK m \in Lookup(c, r, Len(prompt[r])) :
        LET refused == Free(RefuseAllocation(c, r, m), r)
        IN  \/ cache' = refused /\ UNCHANGED <<status, slot, block_plan>>
            \/ v # NoRequest /\ Preempt(refused, v)
  BY <1>0 DEF AdmitRefuse, reqVars
<1> DEFINE given   == RefuseAllocation(c, r, m)
           refused == Free(given, r)
<1>3. /\ r \in InState("waiting") /\ r \in Requests /\ Lent(c) /\ IsMatch(c, r, m) /\ status[r] = "waiting" /\ Fields
  BY <1>1, CandidateBlocks DEF InState
<1>4. \/ cache' = refused /\ UNCHANGED <<status, slot, block_plan>>
      \/ v # NoRequest /\ Preempt(refused, v)
  BY <1>2
<1>5. /\ \A q \in Requests : c.blocks[q] = cache.blocks[q] /\ c.mapped[q] = cache.mapped[q]
      /\ Store(c, Token, Sequences, Computed)
  <2> HIDE DEF r, c
  <2> QED
    BY <1>3, TrackedTables DEF r, c
<1>6. \A q \in Requests : Telling(q)' <=> Telling(q)
  BY <1>1 DEF Telling, Planning, Served, Granted
<1> DEFINE seq == Sequences
           done == Computed
<1> HIDE DEF r, c, seq, done
<1>7. c.blocks[r] = <<>>
  BY <1>3 DEF Lent
<1>8. InOrder(given, Token) /\ given.blocks = c.blocks /\ given.mapped = c.mapped
  <2>1. Store(c, Token, seq, done)
    BY <1>5 DEF seq, done
  <2>2. Keeps(c, given, Token, seq, done, done) /\ given.blocks = c.blocks /\ given.mapped = c.mapped
    BY <1>3, <1>7, <2>1, RefuseKeeps
  <2> QED
    BY <2>2 DEF Keeps, Store
<1>9. cache.mapped[r] = 0 /\ cache.blocks[r] = <<>>
  <2>1. cache.blocks[r] = <<>>
    BY <1>3, <1>5, <1>7
  <2> QED
    BY <1>3, <2>1 DEF Tables, Mapping
<1> HIDE DEF given
<1>10. /\ InOrder(refused, Token)
       /\ \A q \in Requests : refused.blocks[q] = cache.blocks[q] /\ refused.mapped[q] = cache.mapped[q]
  <2>1. InOrder(refused, Token) /\ refused.blocks[r] = <<>> /\ \A q \in Requests : q # r => refused.blocks[q] = given.blocks[q]
    BY <1>3, <1>8, FreeBlocksOf
  <2>2. refused.mapped[r] = 0 /\ \A q \in Requests : q # r => refused.mapped[q] = given.mapped[q]
    BY <1>3, <1>8, FreeMapped
  <2> HIDE DEF refused
  <2> QED
    BY <1>3, <1>5, <1>8, <1>9, <2>1, <2>2
<1> HIDE DEF refused
<1>11. CASE cache' = refused /\ UNCHANGED <<status, slot, block_plan>>
  BY <1>6, <1>10, <1>11, SameTables DEF Tables
<1>12. CASE v # NoRequest /\ Preempt(refused, v)
  <2>1. v \in InState("running")
    <3>1. Queues /\ Victim(Granted) # NoRequest /\ v = Victim(Granted)
      BY <1>0, <1>12 DEF IInv, Places, PolicyVictim
    <3> QED
      BY <3>1, VictimRuns
  <2> QED
    BY <1>3, <1>6, <1>10, <1>12, <2>1, EvictTables
<1> QED
  BY <1>4, <1>11, <1>12

\* A request without room for its chunk: nothing is due to it.
LEMMA ResumeStallTables ==
  ASSUME IInv, BlockInv, Tables, ResumeStall, table' = table
  PROVE  Tables'
<1>0. PICK r : r = Resuming
  OBVIOUS
<1>1. /\ pc = "resume" /\ pc' = pc /\ prefill' = prefill /\ cache' = cache /\ slot' = slot /\ status' = status
      /\ current # NoRequest \/ ToResume # {}
      /\ block_plan' = [block_plan EXCEPT ![r] = NoWrites]
  BY <1>0 DEF ResumeStall, queueVars
<1>2. r \notin Granted
  BY <1>0, <1>1, ResumingRuns DEF IInv, Places, PlanInv
<1>3. \A q \in Requests : Telling(q)' <=> Telling(q)
  BY <1>1 DEF Telling, Planning, Served, Granted
<1>4. \A q \in Requests : Telling(q) => block_plan'[q] = block_plan[q]
  <2>1. \A q \in Requests : Telling(q) => q # r
    BY <1>1, <1>2, TellingChunks
  <2> QED
    BY <1>1, <2>1 DEF Tables
<1>5. DOMAIN block_plan' = Requests
  BY <1>1 DEF Tables
<1> QED
  BY <1>1, <1>3, <1>4, <1>5, SameTables

\* Stage 1 is done.
LEMMA EndResumeTables ==
  ASSUME Tables, EndResume, table' = table
  PROVE  Tables'
<1>1. /\ pc = "resume" /\ pc' \in {"batch", "admit"} /\ prefill' = prefill /\ cache' = cache
      /\ status' = status /\ slot' = slot /\ block_plan' = block_plan
  BY DEF EndResume, reqVars
<1>2. \A q \in Requests : Telling(q)' <=> Telling(q)
  BY <1>1 DEF Telling, Planning, Served, Granted
<1> QED
  BY <1>1, <1>2, SameTables DEF Tables

\* Admission stops.
LEMMA AdmitStopTables ==
  ASSUME IInv, BlockInv, Progress, Stock, Tables, AdmitStop, table' = table
  PROVE  Tables'
<1>1. /\ pc = "admit" /\ pc' = "batch" /\ prefill' = prefill
      /\ status' = status /\ slot' = slot /\ block_plan' = block_plan
      /\ cache' = cache \/ (waiting # <<>> /\ cache' = Tracked(Candidate))
  BY DEF AdmitStop, reqVars
<1>2. \A q \in Requests : Telling(q)' <=> Telling(q)
  BY <1>1 DEF Telling, Planning, Served, Granted
<1>3. \A q \in Requests : cache'.blocks[q] = cache.blocks[q] /\ cache'.mapped[q] = cache.mapped[q]
  <2>1. CASE cache' = cache
    BY <2>1
  <2>2. CASE waiting # <<>> /\ cache' = Tracked(Candidate)
    <3>1. Candidate \in InState("waiting")
      BY <1>1, <2>2, CandidateWaits DEF IInv, Places, PlanInv
    <3> QED
      BY <2>2, <3>1, TrackedTables
  <2> QED
    BY <1>1, <2>1, <2>2
<1> QED
  BY <1>1, <1>2, <1>3, SameTables DEF Tables

\* The batch is listed: no decode is served yet.
LEMMA FormDecodeTables ==
  ASSUME Tables, FormDecode, table' = table
  PROVE  Tables'
<1>1. /\ pc = "batch" /\ pc' = "grow" /\ prefill' = prefill /\ cursor' = 1 /\ cache' = cache
      /\ status' = status /\ slot' = slot /\ block_plan' = block_plan
  BY DEF FormDecode, reqVars, queueVars
<1>2. Granted' = Granted
  BY <1>1 DEF Granted
<1>3. ASSUME NEW q \in Requests PROVE Telling(q)' <=> Telling(q)
  <2>1. Telling(q) <=> q \in Granted
    BY <1>1, TellingChunks
  <2>2. Telling(q)' <=> (q \in Granted \/ \E i \in 1 .. Len(decode') : i < 1 /\ decode'[i] = q)
    BY <1>1, <1>2 DEF Telling, Planning, Served
  <2>3. ASSUME NEW i \in 1 .. Len(decode'), i < 1 PROVE FALSE
    <3>1. i \in Int /\ i >= 1
      OBVIOUS
    <3> HIDE <2>3
    <3> QED
      BY <2>3, <3>1
  <2> QED
    BY <2>1, <2>2, <2>3, Zenon
<1> QED
  BY <1>1, <1>3, SameTables DEF Tables

\* The plan is complete: everybody in it is served.
LEMMA EndPlanTables ==
  ASSUME IInv, Tables, EndPlan, table' = table
  PROVE  Tables'
<1>1. /\ pc = "grow" /\ pc' = "execute" /\ prefill' = prefill /\ cache' = cache /\ ToGrow = {}
      /\ status' = status /\ slot' = slot /\ block_plan' = block_plan
  BY DEF EndPlan, reqVars, queueVars
<1>2. Granted' = Granted
  BY <1>1 DEF Granted
<1>3. Elements(decode') = {r \in Elements(decode) : status[r] = "running"}
  BY EndPlanBatch
<1>4. ASSUME NEW r \in Requests, status[r] = "running" PROVE Telling(r)' <=> Telling(r)
  <2>1. ASSUME r \in Elements(decode)
        PROVE  \E i \in 1 .. Len(decode) : i < cursor /\ decode[i] = r
    <3>1. PICK i \in 1 .. Len(decode) : r = decode[i]
      BY <2>1, Zenon DEF Elements
    <3>2. cursor \in Nat /\ Len(decode) \in Nat
      BY <1>1 DEF IInv, PlanInv, Locals, Batch, ListOf
    <3>3. i \notin cursor .. Len(decode)
      BY <1>1, <1>4, <3>1 DEF ToGrow
    <3>4. i < cursor
      BY <3>2, <3>3
    <3> QED
      BY <3>1, <3>4, Zenon
  <2>2. ASSUME NEW i \in 1 .. Len(decode), decode[i] = r PROVE r \in Elements(decode)
    BY <2>2, Zenon DEF Elements
  <2>3. Telling(r)' <=> r \in Granted \/ r \in Elements(decode)
    BY <1>1, <1>2, <1>3, <1>4 DEF Telling, Planning, Served
  <2>4. Telling(r) <=> r \in Granted \/ \E i \in 1 .. Len(decode) : i < cursor /\ decode[i] = r
    BY <1>1 DEF Telling, Planning, Served
  <2> QED
    BY <2>1, <2>2, <2>3, <2>4, Zenon
<1> QED
  BY <1>1, <1>4, SameTables DEF Tables

\* A retiring request: between two plans nothing is due.
LEMMA FinishTables ==
  ASSUME Fields, InOrder(cache, Token), pending_blocks \in Registered, Tables, ~Planning, ~Planning', NEW r \in Requests,
         NEW sequence \in Seq(Token), Finish(r, sequence), block_plan' = block_plan, table' = table, Seats
  PROVE  Tables'
<1> DEFINE given == [q \in {r} |-> sequence]
           those == {r}
           c == CommitAll(cache, those, given)
<1>1. /\ status' = [status EXCEPT ![r] = "finished"] /\ slot' = [slot EXCEPT ![r] = NoSlot]
      /\ cache' = Free(c, r)
  BY DEF Finish, SettleAndFree
<1>2. \A q \in those : q \in Requests => given[q] \in Seq(Token)
  OBVIOUS
<1> HIDE DEF those, given
<1>3. InOrder(c, Token) /\ c.blocks = cache.blocks /\ c.mapped = cache.mapped
  BY <1>2, CommitAllInOrder DEF SamePool
<1> HIDE DEF c
<1>4. cache'.blocks[r] = <<>> /\ \A q \in Requests : q # r => cache'.blocks[q] = cache.blocks[q]
  BY <1>1, <1>3, FreeBlocksOf
<1>5. cache'.mapped[r] = 0 /\ \A q \in Requests : q # r => cache'.mapped[q] = cache.mapped[q]
  BY <1>1, <1>3, FreeMapped
<1>6. \A q \in Requests : ~Telling(q) /\ ~Telling(q)'
  BY DEF Telling
<1>7. Mapping(r)'
  BY <1>1, <1>4, <1>5, NoMapping DEF Fields
<1>8. ASSUME NEW q \in Requests, q # r PROVE Mapping(q)'
  <2>1. cache'.blocks[q] = cache.blocks[q] /\ cache'.mapped[q] = cache.mapped[q] /\ Mapping(q)
    BY <1>4, <1>5, <1>8 DEF Tables
  <2>2. status'[q] = status[q] /\ slot'[q] = slot[q] /\ block_plan'[q] = block_plan[q]
    BY <1>1, <1>8 DEF Fields, Seats
  <2> QED
    BY <1>6, <2>1, <2>2, SameMapping
<1> QED
  BY <1>7, <1>8 DEF Tables, Width

\* A step between two plans that leaves the requests' blocks alone.
LEMMA QuietTables ==
  ASSUME Tables, ~Planning, ~Planning', table' = table, slot' = slot, block_plan' = block_plan, cache' = cache,
         \A r \in Requests : status'[r] = "running" => status[r] = "running"
  PROVE  Tables'
<1>1. \A q \in Requests : ~Telling(q) /\ ~Telling(q)'
  BY DEF Telling
<1> QED
  BY <1>1, SameTables DEF Tables

\* The stop token retires its request: nothing is due.
LEMMA HarvestStopTables ==
  ASSUME IInv, BlockInv, Tables, HarvestStop
  PROVE  Tables'
<1>0. PICK r : r = Head(emitted)
  OBVIOUS
<1>1. /\ pc = "harvest" /\ pc' = pc /\ emitted # <<>> /\ Finish(r, Sequence(r)) /\ block_plan' = block_plan /\ table' = table
  BY <1>0 DEF HarvestStop, TakeStop, planVars, deviceVars
<1>2. r \in Requests
  BY <1>0, <1>1, HarvestHead DEF IInv, Places, PlanInv, InState
<1>3. /\ Fields /\ Seats /\ InOrder(cache, Token) /\ pending_blocks \in Registered /\ ~Planning /\ ~Planning'
  BY <1>1 DEF IInv, Places, BlockInv, Asks, Planning
<1>4. Sequence(r) \in Seq(Token)
  BY <1>2, <1>3, Lengths
<1> QED
  BY <1>1, <1>2, <1>3, <1>4, FinishTables

\* A token retires its request or leaves the blocks alone.
LEMMA HarvestTokenTables ==
  ASSUME IInv, BlockInv, Tables, NEW t \in Generated, HarvestToken(t)
  PROVE  Tables'
<1>0. PICK r : r = Head(emitted)
  OBVIOUS
<1>1. /\ pc = "harvest" /\ pc' = pc /\ emitted # <<>> /\ block_plan' = block_plan /\ table' = table
      /\ \/ Finish(r, Append(Sequence(r), t))
         \/ UNCHANGED <<status, slot, cache>>
  BY <1>0 DEF HarvestToken, TakeToken, planVars, deviceVars
<1>2. r \in Requests
  BY <1>0, <1>1, HarvestHead DEF IInv, Places, PlanInv, InState
<1>3. /\ Fields /\ Seats /\ InOrder(cache, Token) /\ pending_blocks \in Registered /\ ~Planning /\ ~Planning'
  BY <1>1 DEF IInv, Places, BlockInv, Asks, Planning
<1>4. Append(Sequence(r), t) \in Seq(Token)
  <2>1. Sequence(r) \in Seq(Token) /\ t \in Token
    BY <1>2, <1>3, Lengths DEF Token
  <2> QED
    BY <2>1
<1>5. CASE Finish(r, Append(Sequence(r), t))
  BY <1>1, <1>2, <1>3, <1>4, <1>5, FinishTables
<1>6. CASE UNCHANGED <<status, slot, cache>>
  BY <1>1, <1>3, <1>6, QuietTables
<1> QED
  BY <1>1, <1>5, <1>6

\* An aborted request gives its blocks back, its slot too.
LEMMA AbortTables ==
  ASSUME IInv, BlockInv, Tables, NEW r \in Requests, AbortRequest(r)
  PROVE  Tables'
<1>1. /\ pc = "idle" /\ pc' = pc /\ Finish(r, prompt[r] \o output[r]) /\ block_plan' = block_plan /\ table' = table
  BY DEF AbortRequest, Abort, planVars, deviceVars
<1>2. /\ Fields /\ Seats /\ InOrder(cache, Token) /\ pending_blocks \in Registered /\ ~Planning /\ ~Planning'
  BY <1>1 DEF IInv, Places, BlockInv, Asks, Planning
<1>3. prompt[r] \o output[r] \in Seq(Token)
  BY <1>2, Lengths DEF Sequence
<1> QED
  BY <1>1, <1>2, <1>3, FinishTables

\* A request arrives with no blocks and no slot.
LEMMA SubmitTables ==
  ASSUME IInv, BlockInv, Tables, NEW r \in Requests, NEW p \in Prompts, Submit(r, p)
  PROVE  Tables'
<1>1. /\ pc = "idle" /\ pc' = "idle" /\ status' = [status EXCEPT ![r] = "waiting"]
      /\ cache' = cache /\ slot' = slot /\ block_plan' = block_plan /\ table' = table
  BY DEF Submit, AddRequest, planVars, deviceVars
<1>2. ~Planning /\ ~Planning' /\ Fields
  BY <1>1 DEF Planning, IInv, Places
<1>3. \A q \in Requests : status'[q] = "running" => status[q] = "running"
  BY <1>1, <1>2 DEF Fields
<1> QED
  BY <1>1, <1>2, <1>3, QuietTables

\* The end of a step leaves blocks and tables alone.
LEMMA PublishTables ==
  ASSUME Tables, Publish
  PROVE  Tables'
<1>1. /\ pc = "harvest" /\ pc' = "idle" /\ status' = status
      /\ cache' = cache /\ slot' = slot /\ block_plan' = block_plan /\ table' = table
  BY DEF Publish, EndStep, reqVars, queueVars, deviceVars
<1>2. ~Planning /\ ~Planning'
  BY <1>1 DEF Planning
<1> QED
  BY <1>1, <1>2, QuietTables

\* Nobody is in an empty plan.
LEMMA SkipEmptyTables ==
  ASSUME Tables, SkipEmpty
  PROVE  Tables'
<1>1. /\ pc = "execute" /\ pc' = "idle" /\ prefill = <<>> /\ decode = <<>> /\ status' = status
      /\ cache' = cache /\ slot' = slot /\ block_plan' = block_plan /\ table' = table
  BY DEF SkipEmpty, EndStep, reqVars, queueVars, deviceVars
<1>2. \A q \in Requests : ~Telling(q) /\ ~Telling(q)'
  BY <1>1 DEF Telling, Planning, Served, Granted, Elements
<1> QED
  BY <1>1, <1>2, SameTables DEF Tables

\* At first no request has blocks.
LEMMA InitTables == Init => Tables
<1> SUFFICES ASSUME Init PROVE Tables
  OBVIOUS
<1>1. /\ table = NewTable /\ status = [r \in Requests |-> "new"] /\ block_plan = [r \in Requests |-> NoWrites]
      /\ cache = NewCache([i \in 1 .. Cardinality(Blocks) |-> i])
  BY DEF Init, PlannerInit
<1>2. table \in [Slots -> [1 .. Width -> Blocks \cup {NullBlock}]]
  BY <1>1 DEF NewTable
<1>3. cache.blocks = [r \in Requests |-> <<>>] /\ cache.mapped = [r \in Requests |-> 0]
  BY <1>1 DEF NewCache
<1>4. ASSUME NEW r \in Requests PROVE Mapping(r)
  <2>1. cache.blocks[r] = <<>> /\ cache.mapped[r] = 0 /\ status[r] = "new"
    BY <1>1, <1>3
  <2>2. Len(cache.blocks[r]) = 0 /\ 0 <= Width
    BY <2>1, WidthHolds
  <2> QED
    BY <2>1, <2>2 DEF Mapping
<1> QED
  BY <1>1, <1>2, <1>4 DEF Tables

-----------------------------------------------------------------------------
\* What a pass runs for r, on the slots sl.
Job(sl, seq, done, new, r) == [slot |-> sl[r], start |-> done[r], tokens |-> SubSeq(seq[r], 1, new[r])]
Jobs(sl, seq, done, new, those) == {Job(sl, seq, done, new, r) : r \in those}

\* The table t shows the blocks of those.
Shows(t, sl, c, those) == \A r \in those : \A i \in 1 .. Len(c.blocks[r]) : t[sl[r]][i] = c.blocks[r][i]

\* The rows of a job, through the table.
LEMMA JobRows ==
  ASSUME NEW Tok, NEW c, NEW seq, NEW done, NEW new, NEW those, Store(c, Tok, seq, done),
         Advances(c, seq, done, new, those), NEW t, NEW sl, Shows(t, sl, c, those), NEW r \in those
  PROVE  LET q == Job(sl, seq, done, new, r)
         IN  /\ q.start = done[r] /\ q.slot = sl[r] /\ Len(q.tokens) = new[r] /\ Chunk(q) = done[r] + 1 .. new[r]
             /\ \A p \in Nat \ {0} : NumBlocksFor(p) <= Len(c.blocks[r]) =>
                     TableRow(t, q.slot, p) = RowOf(c.blocks[r], p) /\ RowOf(c.blocks[r], p) \in Rows
             /\ \A p \in 1 .. new[r] :
                   /\ TableRow(t, q.slot, p) = RowOf(c.blocks[r], p) /\ RowOf(c.blocks[r], p) \in Rows
                   /\ Prefix(q, p) = SubSeq(seq[r], 1, p) /\ p \in Nat \ {0} /\ NumBlocksFor(p) <= Len(c.blocks[r])
             /\ \A p \in done[r] + 1 .. new[r] : Beyond(c, done, r, p) /\ p \in 1 .. new[r]
<1> DEFINE q == Job(sl, seq, done, new, r)
           own == c.blocks[r]
<1>1. /\ r \in Requests /\ done[r] \in Nat /\ new[r] \in Nat /\ done[r] <= new[r] /\ new[r] <= Len(seq[r])
      /\ new[r] <= Len(own) * BlockSize
  BY DEF Store, Advances
<1>2. seq[r] \in Seq(Tok) /\ own \in Seq(Blocks)
  <2>1. c.blocks \in [Requests -> Seq(Blocks)] /\ seq \in [Requests -> Seq(Tok)]
    BY CacheTypes DEF Store
  <2> QED
    BY <1>1, <2>1
<1>3. q.start = done[r] /\ q.slot = sl[r] /\ q.tokens = SubSeq(seq[r], 1, new[r])
  BY DEF Job
<1> HIDE DEF q
<1>4. Len(q.tokens) = new[r]
  <2>1. new[r] <= new[r]
    BY <1>1
  <2> QED
    BY <1>1, <1>2, <1>3, <2>1, PrefixOfPrefix
<1>5. Chunk(q) = done[r] + 1 .. new[r]
  BY <1>3, <1>4 DEF Chunk
<1>6. ASSUME NEW p \in Nat \ {0}, NumBlocksFor(p) <= Len(own)
      PROVE  TableRow(t, q.slot, p) = RowOf(own, p) /\ RowOf(own, p) \in Rows
  <2> DEFINE b == NumBlocksFor(p)
  <2>1. b \in Nat \ {0} /\ (p - 1) % BlockSize \in 0 .. BlockSize - 1
    BY RowPlace
  <2>2. b \in 1 .. Len(own)
    <3>1. b <= Len(own) /\ Len(own) \in Nat
      BY <1>2, <1>6
    <3> HIDE DEF b, own
    <3> QED
      BY <2>1, <3>1
  <2>3. own[b] \in Blocks /\ t[sl[r]][b] = own[b]
    BY <1>2, <2>2 DEF Shows
  <2> QED
    BY <1>3, <2>1, <2>3 DEF TableRow, RowOf, Rows
<1>7. ASSUME NEW p \in 1 .. new[r]
      PROVE  /\ TableRow(t, q.slot, p) = RowOf(own, p) /\ RowOf(own, p) \in Rows
             /\ Prefix(q, p) = SubSeq(seq[r], 1, p) /\ p \in Nat \ {0} /\ NumBlocksFor(p) <= Len(own)
  <2>1. p \in Nat \ {0} /\ p <= new[r]
    BY <1>1
  <2>2. NumBlocksFor(p) <= Len(own)
    <3> DEFINE b == Len(own)
               x == b * BlockSize
    <3>1. b \in Nat
      BY <1>2
    <3>2. x \in Nat /\ new[r] <= x
      BY <1>1, <3>1, Times
    <3>3. p <= b * BlockSize <=> NumBlocksFor(p) <= b
      BY <2>1, <3>1, RowPlace
    <3> HIDE DEF x
    <3>4. p <= x
      BY <1>1, <2>1, <3>2
    <3> QED
      BY <3>3, <3>4 DEF x
  <2>3. Prefix(q, p) = SubSeq(seq[r], 1, p)
    BY <1>1, <1>2, <1>3, <2>1, PrefixOfPrefix DEF Prefix
  <2> QED
    BY <1>6, <2>1, <2>2, <2>3
<1>8. ASSUME NEW p \in done[r] + 1 .. new[r] PROVE Beyond(c, done, r, p) /\ p \in 1 .. new[r]
  <2>1. p \in 1 .. new[r] /\ p > done[r] /\ p \in Nat
    BY <1>1
  <2> QED
    BY <1>7, <2>1 DEF Beyond
<1> QED
  BY <1>3, <1>4, <1>5, <1>6, <1>7, <1>8 DEF q

\* The rows that padding may be written to: no rows of the cache, or rows of the
\* request's own blocks that are still to be computed.
Idle(c, done, new, those, row) ==
  row \notin Rows \/ \E r \in those : \E p \in Nat : Beyond(c, done, r, p) /\ p > new[r] /\ row = RowOf(c.blocks[r], p)

\* Padding beside what a pass computes does no harm.
LEMMA ScatterHolds ==
  ASSUME NEW Tok, NEW c, NEW seq, NEW done, NEW new, NEW those, Store(c, Tok, seq, done),
         Advances(c, seq, done, new, those), NEW t, NEW sl, Shows(t, sl, c, those),
         NEW rows, DOMAIN rows = Rows, RowsHold(c, seq, done, rows),
         NEW padding, \A row \in padding : Idle(c, done, new, those, row), NEW lost \in SUBSET padding
  PROVE  LET w == Scatter(rows, t, Jobs(sl, seq, done, new, those), padding, lost)
         IN  DOMAIN w = Rows /\ RowsHold(c, seq, new, w) /\ w = [row \in Rows |-> w[row]]
<1> DEFINE pass == Jobs(sl, seq, done, new, those)
           w == Scatter(rows, t, pass, padding, lost)
           by(row) == CHOOSE q \in pass : row \in ChunkRows(t, q)
           at(row) == CHOOSE p \in Chunk(by(row)) : TableRow(t, by(row).slot, p) = row
<1>1. /\ w = [row \in Rows |->
               IF row \notin lost /\ \E q \in pass : row \in ChunkRows(t, q) THEN Prefix(by(row), at(row))
               ELSE IF row \in padding THEN Junk ELSE rows[row]]
  BY DEF Scatter
<1>2. those \subseteq Requests
  BY DEF Advances
<1>3. ASSUME NEW q \in pass, NEW row \in ChunkRows(t, q)
      PROVE  \E r \in those : \E p \in done[r] + 1 .. new[r] :
               q = Job(sl, seq, done, new, r) /\ row = RowOf(c.blocks[r], p)
  <2>1. PICK r \in those : q = Job(sl, seq, done, new, r)
    BY Zenon DEF Jobs
  <2>2. PICK p \in Chunk(q) : row = TableRow(t, q.slot, p)
    BY Zenon DEF ChunkRows
  <2>3. p \in done[r] + 1 .. new[r]
    <3>1. Chunk(Job(sl, seq, done, new, r)) = done[r] + 1 .. new[r]
      BY JobRows
    <3> QED
      BY <2>1, <2>2, <3>1, Zenon
  <2>4. TableRow(t, q.slot, p) = RowOf(c.blocks[r], p)
    <3>1. p \in 1 .. new[r]
      BY <2>3, JobRows
    <3>2. TableRow(t, Job(sl, seq, done, new, r).slot, p) = RowOf(c.blocks[r], p)
      BY <3>1, JobRows
    <3> QED
      BY <2>1, <3>2, Zenon
  <2> QED
    BY <2>1, <2>2, <2>3, <2>4, Zenon
<1>4. ASSUME NEW r \in those, NEW p \in done[r] + 1 .. new[r]
      PROVE  w[RowOf(c.blocks[r], p)] = SubSeq(seq[r], 1, p)
  <2> DEFINE row == RowOf(c.blocks[r], p)
             q == Job(sl, seq, done, new, r)
  <2>1. /\ Beyond(c, done, r, p) /\ p \in 1 .. new[r] /\ row \in Rows /\ p \in Nat \ {0}
        /\ TableRow(t, q.slot, p) = row /\ Chunk(q) = done[r] + 1 .. new[r]
        /\ NumBlocksFor(p) <= Len(c.blocks[r])
    BY JobRows
  <2>2. q \in pass /\ row \in ChunkRows(t, q)
    BY <2>1 DEF Jobs, ChunkRows
  <2>3. row \notin padding
    <3> SUFFICES ASSUME NEW r2 \in those, NEW s \in Nat, Beyond(c, done, r2, s), s > new[r2], row = RowOf(c.blocks[r2], s)
                 PROVE  FALSE
      BY <2>1 DEF Idle
    <3>1. r = r2 /\ p = s
      BY <1>2, <2>1, OwnRow
    <3>2. new[r] \in Nat /\ s > new[r] /\ s <= new[r]
      BY <1>2, <2>1, <3>1 DEF Advances
    <3> QED
      BY <3>2
  <2> HIDE DEF row, q
  <2>4. by(row) \in pass /\ row \in ChunkRows(t, by(row))
    <3> HIDE DEF pass
    <3> QED
      BY <2>2, Zenon
  <2>5. PICK r2 \in those : \E s \in done[r2] + 1 .. new[r2] :
                by(row) = Job(sl, seq, done, new, r2) /\ row = RowOf(c.blocks[r2], s)
    <3> HIDE DEF pass, by
    <3> QED
      BY <1>3, <2>4
  <2>6. PICK s \in done[r2] + 1 .. new[r2] : by(row) = Job(sl, seq, done, new, r2) /\ row = RowOf(c.blocks[r2], s)
    BY <2>5
  <2>7. r2 = r
    <3>1. Beyond(c, done, r2, s)
      BY JobRows
    <3> HIDE DEF by
    <3> QED
      BY <1>2, <2>1, <2>6, <3>1, OwnRow DEF row
  <2>8. by(row) = q
    BY <2>6, <2>7 DEF q
  <2> HIDE DEF by
  <2>9. at(row) \in Chunk(q) /\ TableRow(t, q.slot, at(row)) = row
    <3>1. \E s2 \in Chunk(q) : TableRow(t, q.slot, s2) = row
      BY <2>1
    <3> QED
      BY <2>8, <3>1, Zenon
  <2>10. at(row) = p
    <3> DEFINE x == at(row)
    <3> HIDE DEF at
    <3>1. x \in done[r] + 1 .. new[r] /\ TableRow(t, q.slot, x) = row
      BY <2>1, <2>9
    <3> HIDE DEF x
    <3>2. x \in 1 .. new[r]
      BY <3>1, JobRows
    <3>3. row = RowOf(c.blocks[r], x) /\ x \in Nat \ {0} /\ NumBlocksFor(x) <= Len(c.blocks[r])
      BY <3>1, <3>2, JobRows DEF q
    <3>4. x = p
      BY <1>2, <2>1, <3>3, OwnRow DEF row
    <3> QED
      BY <3>4 DEF x
  <2>11. w[row] = Prefix(q, p)
    <3>1. row \notin lost /\ \E q2 \in pass : row \in ChunkRows(t, q2)
      <4> HIDE DEF pass
      <4> QED
        BY <2>2, <2>3
    <3>2. w[row] = Prefix(by(row), at(row))
      <4> HIDE DEF w, pass, by, at
      <4> QED
        BY <1>1, <2>1, <3>1
    <3> QED
      BY <2>8, <2>10, <3>2
  <2>12. Prefix(q, p) = SubSeq(seq[r], 1, p)
    BY <2>1, JobRows DEF q
  <2> QED
    BY <2>11, <2>12 DEF row
<1>5. ASSUME NEW row \in Rows, w[row] # rows[row] PROVE Touched(c, done, those, row)
  <2>1. CASE \E q \in pass : row \in ChunkRows(t, q)
    <3>1. PICK r \in those : \E p \in done[r] + 1 .. new[r] : row = RowOf(c.blocks[r], p)
      <4> HIDE DEF pass
      <4> QED
        BY <1>3, <2>1
    <3>2. PICK p \in done[r] + 1 .. new[r] : row = RowOf(c.blocks[r], p)
      BY <3>1
    <3>3. Beyond(c, done, r, p)
      BY JobRows
    <3>4. p \in Nat
      BY <3>3 DEF Beyond
    <3> QED
      BY <3>2, <3>3, <3>4, Zenon DEF Touched
  <2>2. CASE row \in padding
    BY <1>5, <2>2, Zenon DEF Idle, Touched
  <2>3. CASE row \notin padding /\ ~ \E q \in pass : row \in ChunkRows(t, q)
    <3>1. w[row] = rows[row]
      <4> HIDE DEF w, pass, by, at
      <4> QED
        BY <1>1, <2>3
    <3> QED
      BY <1>5, <3>1
  <2> QED
    BY <2>1, <2>2, <2>3
<1>6. DOMAIN w = Rows /\ w = [row \in Rows |-> w[row]]
  <2> HIDE DEF w, pass, by, at
  <2> QED
    BY <1>1
<1> HIDE DEF w
<1>7. RowsHold(c, seq, new, w)
  BY <1>4, <1>5, PassHolds DEF PoolRows, Rows
<1> QED
  BY <1>6, <1>7 DEF w

\* A pass whose rows have been written and whose attention goes to the rows of
\* its own positions misleads nobody and spoils nothing.
LEMMA WrittenRight ==
  ASSUME NEW Tok, NEW c, NEW seq, NEW done, NEW new, NEW those, Store(c, Tok, seq, done),
         Advances(c, seq, done, new, those), NEW t, NEW sl, Shows(t, sl, c, those),
         NEW w, w = [row \in Rows |-> w[row]], DOMAIN w = Rows, RowsHold(c, seq, new, w),
         NEW at, \A q \in Jobs(sl, seq, done, new, those) : \A p \in 1 .. Len(q.tokens) : at[q][p] = TableRow(t, q.slot, p)
  PROVE  LET bad == Misled(w, Jobs(sl, seq, done, new, those), at)
         IN  bad = {} /\ Spoil(w, t, bad) = w
<1> DEFINE pass == Jobs(sl, seq, done, new, those)
           bad == Misled(w, pass, at)
<1>1. bad = {}
  <2> SUFFICES ASSUME NEW q \in pass, NEW p \in 1 .. Len(q.tokens)
               PROVE  ReadRow(w, at[q][p]) = Prefix(q, p)
    <3> HIDE DEF pass
    <3> QED
      BY DEF Misled
  <2>1. PICK r \in those : q = Job(sl, seq, done, new, r)
    BY Zenon DEF Jobs
  <2>2. Len(q.tokens) = new[r]
    BY <2>1, JobRows
  <2>3. p \in 1 .. new[r]
    BY <2>2
  <2>4. /\ TableRow(t, q.slot, p) = RowOf(c.blocks[r], p) /\ RowOf(c.blocks[r], p) \in Rows
        /\ Prefix(q, p) = SubSeq(seq[r], 1, p)
    <3> DEFINE j == Job(sl, seq, done, new, r)
    <3>1. /\ TableRow(t, j.slot, p) = RowOf(c.blocks[r], p) /\ RowOf(c.blocks[r], p) \in Rows
          /\ Prefix(j, p) = SubSeq(seq[r], 1, p)
      BY <2>3, JobRows
    <3> QED
      BY <2>1, <3>1
  <2>5. at[q][p] = TableRow(t, q.slot, p)
    BY DEF pass
  <2>6. w[RowOf(c.blocks[r], p)] = SubSeq(seq[r], 1, p)
    <3>1. r \in Requests
      BY DEF Advances
    <3> QED
      BY <2>3, <3>1 DEF RowsHold, Holding
  <2> QED
    BY <2>4, <2>5, <2>6 DEF ReadRow
<1> HIDE DEF bad
<1>2. Spoil(w, t, bad) = w
  BY <1>1 DEF Spoil
<1> QED
  BY <1>1, <1>2 DEF bad

\* A pass of rows.
LEMMA RowPassHolds ==
  ASSUME NEW Tok, NEW c, NEW seq, NEW done, NEW new, NEW those, Store(c, Tok, seq, done),
         Advances(c, seq, done, new, those), NEW t, NEW sl, Shows(t, sl, c, those),
         NEW rows, DOMAIN rows = Rows, RowsHold(c, seq, done, rows)
  PROVE  LET d == RowPass(rows, t, Jobs(sl, seq, done, new, those))
         IN  d.misled = {} /\ DOMAIN d.kv = Rows /\ RowsHold(c, seq, new, d.kv)
<1> DEFINE pass == Jobs(sl, seq, done, new, those)
           w == Scatter(rows, t, pass, {}, {})
           at == [q \in pass |-> [p \in 1 .. Len(q.tokens) |-> TableRow(t, q.slot, p)]]
           bad == Misled(w, pass, at)
           d == RowPass(rows, t, pass)
<1>1. d = [kv |-> Spoil(w, t, bad), misled |-> bad]
  BY DEF RowPass
<1>2. DOMAIN w = Rows /\ RowsHold(c, seq, new, w) /\ w = [row \in Rows |-> w[row]]
  <2>1. \A row \in {} : Idle(c, done, new, those, row)
    OBVIOUS
  <2>2. {} \in SUBSET {}
    OBVIOUS
  <2> QED
    BY <2>1, <2>2, ScatterHolds
<1> HIDE DEF w
<1>3. bad = {} /\ Spoil(w, t, bad) = w
  <2>1. \A q \in pass : \A p \in 1 .. Len(q.tokens) : at[q][p] = TableRow(t, q.slot, p)
    <3> HIDE DEF pass
    <3> QED
      OBVIOUS
  <2> HIDE DEF at
  <2>2. DOMAIN w = Rows /\ RowsHold(c, seq, new, w) /\ w = [row \in Rows |-> w[row]]
    BY <1>2
  <2> QED
    BY <2>1, <2>2, WrittenRight
<1> HIDE DEF bad, d
<1> QED
  BY <1>1, <1>2, <1>3 DEF d

\* Where the padding of a grid goes: past its chunk, a request is padded to the
\* widest chunk of the pass, in blocks of its own or through empty entries.
PaddingLands(c, t, sl, done, new, those) ==
  \A q, r \in those : \A p \in new[r] + 1 .. done[r] + (new[q] - done[q]) :
     p <= MaxSeqLen => NumBlocksFor(p) <= Len(c.blocks[r]) \/ t[sl[r]][NumBlocksFor(p)] = NullBlock

\* The rows from b_kv_base on are the rows of the table.
InOneRun(t, sl, new, those) == \A r \in those : \A p \in 1 .. new[r] : RunRow(t, sl[r], p) = TableRow(t, sl[r], p)

\* What a grid writes beside its chunks.
Padding(t, pass) == UNION {PaddingRows(t, pass, q) : q \in pass}

\* Padding that lands where it may does no harm.
LEMMA PaddingIdle ==
  ASSUME NEW Tok, NEW c, NEW seq, NEW done, NEW new, NEW those, Store(c, Tok, seq, done),
         Advances(c, seq, done, new, those), NEW t, NEW sl, Shows(t, sl, c, those),
         \A r \in those : new[r] <= MaxSeqLen, PaddingLands(c, t, sl, done, new, those),
         NEW row \in Padding(t, Jobs(sl, seq, done, new, those))
  PROVE  Idle(c, done, new, those, row)
<1> DEFINE pass == Jobs(sl, seq, done, new, those)
           widths == {Len(s.tokens) - s.start : s \in pass}
           width == Max(widths)
<1>1. those \subseteq Requests /\ new \in [Requests -> Nat] /\ MaxSeqLen \in Nat
  BY PlannerAssumption DEF Advances
<1>2. ASSUME NEW r \in those PROVE done[r] \in Nat /\ new[r] \in Nat /\ done[r] <= new[r] /\ new[r] <= MaxSeqLen
  <2>1. done \in [Requests -> Nat]
    BY DEF Store
  <2> QED
    BY <1>1, <2>1 DEF Advances
<1>3. ASSUME NEW q \in pass
      PROVE  \E r \in those : /\ q = Job(sl, seq, done, new, r) /\ q.start = done[r] /\ q.slot = sl[r]
                              /\ Len(q.tokens) = new[r]
  <2>1. PICK r \in those : q = Job(sl, seq, done, new, r)
    BY Zenon DEF Jobs
  <2>2. q.start = done[r] /\ q.slot = sl[r] /\ Len(q.tokens) = new[r]
    BY <2>1, JobRows
  <2> QED
    BY <2>1, <2>2
<1>4. PICK q \in pass : row \in PaddingRows(t, pass, q)
  <2> HIDE DEF pass
  <2> QED
    BY Zenon DEF Padding, pass
<1>5. PICK r \in those : /\ q = Job(sl, seq, done, new, r) /\ q.start = done[r] /\ q.slot = sl[r]
                         /\ Len(q.tokens) = new[r]
  BY <1>3
<1>6. PICK p \in (Len(q.tokens) + 1 .. q.start + width) \cap 1 .. MaxSeqLen : row = TableRow(t, q.slot, p)
  <2> HIDE DEF pass, width
  <2> QED
    BY <1>4 DEF PaddingRows, width, widths
<1>7. PICK z \in those : width = new[z] - done[z]
  <2>1. ASSUME NEW s \in pass PROVE \E z \in those : Len(s.tokens) - s.start = new[z] - done[z]
    BY <1>3
  <2>2. widths \subseteq 0 .. MaxSeqLen
    <3> SUFFICES ASSUME NEW s \in pass PROVE Len(s.tokens) - s.start \in 0 .. MaxSeqLen
      OBVIOUS
    <3>1. PICK z \in those : Len(s.tokens) - s.start = new[z] - done[z]
      BY <2>1
    <3> DEFINE a == done[z]
               b == new[z]
    <3>2. a \in Nat /\ b \in Nat /\ a <= b /\ b <= MaxSeqLen
      BY <1>2
    <3> HIDE DEF a, b
    <3>3. b - a \in 0 .. MaxSeqLen
      BY <1>1, <3>2
    <3> QED
      BY <3>1, <3>3 DEF a, b
  <2>3. widths # {}
    <3> HIDE DEF pass
    <3> QED
      BY <1>4
  <2> HIDE DEF widths
  <2>4. width \in widths
    BY <1>1, <2>2, <2>3, MaxIsGreatest
  <2> QED
    BY <2>1, <2>4 DEF widths
<1> HIDE DEF width, pass
<1> DEFINE k == NumBlocksFor(p)
<1>8. p \in Nat \ {0} /\ p > new[r] /\ p > done[r] /\ p <= MaxSeqLen /\ p \in new[r] + 1 .. done[r] + (new[z] - done[z])
  <2> DEFINE a == done[r]
             b == new[r]
             x == done[z]
             y == new[z]
  <2>1. a \in Nat /\ b \in Nat /\ a <= b /\ x \in Nat /\ y \in Nat
    BY <1>2
  <2>2. p \in (b + 1 .. a + width) \cap 1 .. MaxSeqLen /\ width = y - x
    BY <1>5, <1>6, <1>7
  <2> HIDE DEF a, b, x, y
  <2>3. p \in Nat \ {0} /\ p > b /\ p > a /\ p <= MaxSeqLen /\ p \in b + 1 .. a + (y - x)
    BY <1>1, <2>1, <2>2
  <2> QED
    BY <2>3 DEF a, b, x, y
<1>9. k <= Len(c.blocks[r]) \/ t[sl[r]][k] = NullBlock
  BY <1>8 DEF PaddingLands
<1>10. row = TableRow(t, sl[r], p)
  BY <1>5, <1>6
<1>11. CASE t[sl[r]][k] = NullBlock
  <2>1. row[1] = NullBlock /\ row = <<row[1], row[2]>>
    BY <1>10, <1>11 DEF TableRow
  <2>2. NullBlock \notin Blocks
    <3> DEFINE n == Cardinality(Blocks)
    <3>1. Blocks = 1 .. n
      BY PlannerAssumption
    <3> HIDE DEF n
    <3> QED
      BY <3>1 DEF NullBlock
  <2>3. row \notin Rows
    BY <2>1, <2>2 DEF Rows
  <2> QED
    BY <2>3 DEF Idle
<1>12. CASE k <= Len(c.blocks[r])
  <2>1. Beyond(c, done, r, p)
    BY <1>8, <1>12 DEF Beyond
  <2>2. row = RowOf(c.blocks[r], p)
    <3>1. TableRow(t, Job(sl, seq, done, new, r).slot, p) = RowOf(c.blocks[r], p)
      BY <1>8, <1>12, JobRows
    <3> QED
      BY <1>5, <1>6, <3>1
  <2>3. p \in Nat
    BY <1>8
  <2> QED
    BY <1>8, <2>1, <2>2, <2>3, Zenon DEF Idle
<1> QED
  BY <1>9, <1>11, <1>12

\* A grid writes its chunks right, whichever write is the last.
LEMMA GridScatter ==
  ASSUME NEW Tok, NEW c, NEW seq, NEW done, NEW new, NEW those, Store(c, Tok, seq, done),
         Advances(c, seq, done, new, those), NEW t, NEW sl, Shows(t, sl, c, those),
         NEW rows, DOMAIN rows = Rows, RowsHold(c, seq, done, rows),
         \A r \in those : new[r] <= MaxSeqLen, PaddingLands(c, t, sl, done, new, those),
         NEW padding, padding = Padding(t, Jobs(sl, seq, done, new, those)), NEW lost \in SUBSET padding
  PROVE  LET w == Scatter(rows, t, Jobs(sl, seq, done, new, those), padding, lost)
         IN  DOMAIN w = Rows /\ RowsHold(c, seq, new, w) /\ w = [row \in Rows |-> w[row]]
<1>1. \A row \in padding : Idle(c, done, new, those, row)
  BY PaddingIdle
<1> QED
  BY <1>1, ScatterHolds

\* A grid of first chunks.
LEMMA FreshGridHolds ==
  ASSUME NEW Tok, NEW c, NEW seq, NEW done, NEW new, NEW those, Store(c, Tok, seq, done),
         Advances(c, seq, done, new, those), NEW t, NEW sl, Shows(t, sl, c, those),
         NEW rows, DOMAIN rows = Rows, RowsHold(c, seq, done, rows),
         \A r \in those : new[r] <= MaxSeqLen, PaddingLands(c, t, sl, done, new, those),
         NEW f, f \in FreshGrid(rows, t, Jobs(sl, seq, done, new, those))
  PROVE  f.misled = {} /\ DOMAIN f.kv = Rows /\ RowsHold(c, seq, new, f.kv)
<1> DEFINE pass == Jobs(sl, seq, done, new, those)
           padding == Padding(t, pass)
           real == UNION {ChunkRows(t, q) : q \in pass}
<1>1. FreshGrid(rows, t, pass) =
        {[kv |-> Scatter(rows, t, pass, padding, lost), misled |-> {}] : lost \in SUBSET (padding \cap real)}
  BY DEF FreshGrid, Padding
<1> HIDE DEF padding, real
<1>2. PICK lost \in SUBSET (padding \cap real) : f = [kv |-> Scatter(rows, t, pass, padding, lost), misled |-> {}]
  <2> HIDE DEF pass
  <2> QED
    BY <1>1, Zenon DEF pass
<1> DEFINE w == Scatter(rows, t, pass, padding, lost)
<1>3. DOMAIN w = Rows /\ RowsHold(c, seq, new, w)
  <2>1. lost \in SUBSET padding
    OBVIOUS
  <2> QED
    BY <2>1, GridScatter DEF padding
<1> HIDE DEF w
<1> QED
  BY <1>2, <1>3 DEF w

\* A grid of resumed chunks, where the run from b_kv_base is the table's.
LEMMA ResumedGridHolds ==
  ASSUME NEW Tok, NEW c, NEW seq, NEW done, NEW new, NEW those, Store(c, Tok, seq, done),
         Advances(c, seq, done, new, those), NEW t, NEW sl, Shows(t, sl, c, those),
         NEW rows, DOMAIN rows = Rows, RowsHold(c, seq, done, rows),
         \A r \in those : new[r] <= MaxSeqLen, PaddingLands(c, t, sl, done, new, those), InOneRun(t, sl, new, those),
         NEW g, g \in ResumedGrid(rows, t, Jobs(sl, seq, done, new, those))
  PROVE  g.misled = {} /\ DOMAIN g.kv = Rows /\ RowsHold(c, seq, new, g.kv)
<1> DEFINE pass == Jobs(sl, seq, done, new, those)
           padding == Padding(t, pass)
           real == UNION {ChunkRows(t, q) : q \in pass}
           at == [q \in pass |-> [p \in 1 .. Len(q.tokens) |-> RunRow(t, q.slot, p)]]
           written(lost) == Scatter(rows, t, pass, padding, lost)
           bad(lost) == Misled(written(lost), pass, at)
<1>1. ResumedGrid(rows, t, pass) =
        {[kv |-> Spoil(written(lost), t, bad(lost)), misled |-> bad(lost)] : lost \in SUBSET (padding \cap real)}
  BY DEF ResumedGrid, Padding
<1> HIDE DEF padding, real, written, bad
<1>2. PICK lost \in SUBSET (padding \cap real) : g = [kv |-> Spoil(written(lost), t, bad(lost)), misled |-> bad(lost)]
  <2> HIDE DEF pass
  <2> QED
    BY <1>1, Zenon DEF pass
<1> DEFINE w == written(lost)
<1>3. DOMAIN w = Rows /\ RowsHold(c, seq, new, w) /\ w = [row \in Rows |-> w[row]]
  <2>1. lost \in SUBSET padding
    OBVIOUS
  <2> QED
    BY <2>1, GridScatter DEF padding, written
<1>4. ASSUME NEW q \in pass, NEW p \in 1 .. Len(q.tokens)
      PROVE  at[q][p] = TableRow(t, q.slot, p)
  <2>1. PICK r \in those : q = Job(sl, seq, done, new, r)
    BY Zenon DEF Jobs
  <2>2. q.slot = sl[r] /\ Len(q.tokens) = new[r]
    BY <2>1, JobRows
  <2>3. RunRow(t, sl[r], p) = TableRow(t, sl[r], p)
    BY <2>2 DEF InOneRun
  <2>4. at[q][p] = RunRow(t, q.slot, p)
    <3> HIDE DEF pass
    <3> QED
      OBVIOUS
  <2> HIDE DEF at, pass
  <2> QED
    BY <2>2, <2>3, <2>4
<1> HIDE DEF at, w
<1>5. Misled(w, pass, at) = {} /\ Spoil(w, t, Misled(w, pass, at)) = w
  BY <1>3, <1>4, WrittenRight
<1>6. bad(lost) = {} /\ Spoil(w, t, bad(lost)) = w
  <2>1. bad(lost) = Misled(w, pass, at)
    BY DEF bad, w
  <2> HIDE DEF pass
  <2> QED
    BY <1>5, <2>1
<1> QED
  BY <1>2, <1>3, <1>6 DEF w

-----------------------------------------------------------------------------
(* The installation of the table writes of a plan. *)

\* The row of a table once the writes of r are installed.
Installed(r) ==
  [j \in 1 .. Width |->
     IF j \in block_plan[r].start + 1 .. block_plan[r].start + Len(block_plan[r].blocks)
     THEN block_plan[r].blocks[j - block_plan[r].start] ELSE table[slot[r]][j]]

\* One request after the other gets its writes.
LEMMA InstallAll ==
  ASSUME Seats, table \in [Slots -> [1 .. Width -> Blocks \cup {NullBlock}]],
         prefill \in Seq(Elements(prefill)), decode \in Seq(Elements(decode)),
         Planned \subseteq InState("running"),
         \A r \in Planned : Installed(r) \in [1 .. Width -> Blocks \cup {NullBlock}]
  PROVE  /\ InstallTables \in [Slots -> [1 .. Width -> Blocks \cup {NullBlock}]]
         /\ \A r \in InState("running") :
              InstallTables[slot[r]] = IF r \in Planned THEN Installed(r) ELSE table[slot[r]]
<1> DEFINE firsts == [i \in 1 .. Len(prefill) |-> prefill[i][1]]
           s == firsts \o decode
           n == Len(s)
           T == [Slots -> [1 .. Width -> Blocks \cup {NullBlock}]]
           install(t, r) == WriteTable(t, slot[r], block_plan[r])
           F == CHOOSE f : f = [i \in 0 .. n |-> IF i = 0 THEN table ELSE install(f[i - 1], s[i])]
           Told_(i, r) == \E k \in 1 .. i : s[k] = r
           D(i) == {t \in T : \A r \in InState("running") :
                      t[slot[r]] = IF Told_(i, r) THEN Installed(r) ELSE table[slot[r]]}
           R == [i \in 0 .. n |-> D(i)]
           G == [i \in 1 .. n |-> [t \in T |-> install(t, s[i])]]
<1>1. InstallTables = F[n]
  BY DEF InstallTables, OneByOne
<1>2. s \in Seq(Planned) /\ n \in Nat /\ \A r : r \in Planned <=> \E k \in 1 .. n : s[k] = r
  <2> DEFINE l == Len(prefill)
             m == Len(decode)
  <2>1. l \in Nat /\ m \in Nat /\ DOMAIN decode = 1 .. m
    BY LenProperties
  <2>2. firsts \in Seq(Granted) /\ Len(firsts) = l /\ \A i \in 1 .. l : firsts[i] = prefill[i][1]
    BY <2>1 DEF Granted
  <2>3. decode \in Seq(Elements(decode)) /\ Granted \subseteq Planned /\ Elements(decode) \subseteq Planned
        /\ Planned = Granted \cup Elements(decode)
    BY DEF Planned
  <2>4. firsts \in Seq(Planned) /\ decode \in Seq(Planned)
    <3>1. ASSUME NEW A, NEW B, A \subseteq B, NEW w \in Seq(A) PROVE w \in Seq(B)
      BY <3>1
    <3> HIDE DEF firsts
    <3> QED
      BY <2>2, <2>3, <3>1
  <2> HIDE DEF firsts, l
  <2>5. ASSUME NEW A, NEW v \in Seq(A), NEW w \in Seq(A)
        PROVE  /\ v \o w \in Seq(A) /\ Len(v \o w) = Len(v) + Len(w) /\ Len(v) \in Nat /\ Len(w) \in Nat
               /\ \A i \in 1 .. Len(v) : i \in 1 .. Len(v \o w) /\ (v \o w)[i] = v[i]
               /\ \A i \in 1 .. Len(w) : Len(v) + i \in 1 .. Len(v \o w) /\ (v \o w)[Len(v) + i] = w[i]
    OBVIOUS
  <2>6. /\ s \in Seq(Planned) /\ n \in Nat
        /\ \A i \in 1 .. l : i \in 1 .. n /\ s[i] = firsts[i]
        /\ \A i \in 1 .. m : l + i \in 1 .. n /\ s[l + i] = decode[i]
    BY <2>2, <2>4, <2>5
  <2> HIDE DEF s, n
  <2>7. ASSUME NEW r \in Planned PROVE \E k \in 1 .. n : s[k] = r
    <3>1. CASE r \in Granted
      <4>1. PICK i \in 1 .. l : prefill[i][1] = r
        BY <3>1, Zenon DEF Granted, l
      <4> QED
        BY <2>2, <2>6, <4>1
    <3>2. CASE r \in Elements(decode)
      <4>1. PICK i \in 1 .. m : decode[i] = r
        BY <3>2, Zenon DEF Elements, m
      <4> QED
        BY <2>6, <4>1
    <3> QED
      BY <2>3, <3>1, <3>2
  <2>8. \A k \in 1 .. n : s[k] \in Planned
    BY <2>6, ElementOfSeq DEF n
  <2> QED
    BY <2>6, <2>7, <2>8
<1> HIDE DEF s, n
<1>3. \A i \in 1 .. n : i \in 0 .. n /\ i - 1 \in 0 .. n /\ s[i] \in Planned
  BY <1>2
<1>4. table \in D(0)
  <2>1. \A r : ~Told_(0, r)
    OBVIOUS
  <2> HIDE DEF Told_
  <2> QED
    BY <2>1
<1>5. ASSUME NEW i \in 1 .. n, NEW t \in D(i - 1) PROVE install(t, s[i]) \in D(i)
  <2> DEFINE x == s[i]
             u == install(t, x)
  <2>1. x \in Planned /\ x \in InState("running") /\ x \in Requests
    BY <1>3 DEF InState
  <2>2. slot[x] \in Slots /\ \A r \in InState("running") : slot[r] \in Slots /\ (slot[r] = slot[x] => r = x)
    BY <2>1 DEF Seats, InState
  <2>3. t \in T
    OBVIOUS
  <2>4. t[slot[x]] = Installed(x) \/ t[slot[x]] = table[slot[x]]
    <3> HIDE DEF Told_
    <3> QED
      BY <2>1
  <2> HIDE DEF x
  <2>5. u[slot[x]] = Installed(x)
    <3>1. u[slot[x]] = [j \in 1 .. Width |->
              IF j \in block_plan[x].start + 1 .. block_plan[x].start + Len(block_plan[x].blocks)
              THEN block_plan[x].blocks[j - block_plan[x].start] ELSE t[slot[x]][j]]
      BY <2>2, <2>3 DEF WriteTable
    <3>2. CASE t[slot[x]] = table[slot[x]]
      BY <3>1, <3>2, Zenon DEF Installed
    <3>3. CASE t[slot[x]] = Installed(x)
      <4> DEFINE in(j) == j \in block_plan[x].start + 1 .. block_plan[x].start + Len(block_plan[x].blocks)
                 new(j) == block_plan[x].blocks[j - block_plan[x].start]
      <4>1. u[slot[x]] = [j \in 1 .. Width |-> IF in(j) THEN new(j) ELSE Installed(x)[j]]
        BY <3>1, <3>3
      <4>2. Installed(x) = [j \in 1 .. Width |-> IF in(j) THEN new(j) ELSE table[slot[x]][j]]
        BY Zenon DEF Installed
      <4> HIDE DEF in, new, u
      <4>3. \A j \in 1 .. Width : (IF in(j) THEN new(j) ELSE Installed(x)[j]) = IF in(j) THEN new(j) ELSE table[slot[x]][j]
        BY <4>2
      <4> QED
        BY <4>1, <4>2, <4>3
    <3> QED
      BY <2>4, <3>2, <3>3
  <2>6. u \in T /\ \A v \in Slots : v # slot[x] => u[v] = t[v]
    <3>1. u = [t EXCEPT ![slot[x]] = u[slot[x]]]
      BY <2>2, <2>3 DEF WriteTable
    <3>2. u[slot[x]] \in [1 .. Width -> Blocks \cup {NullBlock}]
      BY <2>1, <2>5
    <3> HIDE DEF u
    <3> QED
      BY <2>2, <2>3, <3>1, <3>2
  <2> HIDE DEF u
  <2>7. ASSUME NEW r \in InState("running") PROVE u[slot[r]] = IF Told_(i, r) THEN Installed(r) ELSE table[slot[r]]
    <3>1. Told_(i, r) <=> (Told_(i - 1, r) \/ r = x)
      <4>1. \A k : k \in 1 .. i <=> k \in 1 .. i - 1 \/ k = i
        BY <1>2
      <4> QED
        BY <4>1, Zenon DEF x
    <3>2. t[slot[r]] = IF Told_(i - 1, r) THEN Installed(r) ELSE table[slot[r]]
      <4> HIDE DEF Told_
      <4> QED
        OBVIOUS
    <3>3. CASE r = x
      <4> HIDE DEF Told_
      <4> QED
        BY <2>5, <3>1, <3>3
    <3>4. CASE r # x
      <4>1. u[slot[r]] = t[slot[r]]
        BY <2>2, <2>6, <3>4
      <4> HIDE DEF Told_
      <4> QED
        BY <3>1, <3>2, <3>4, <4>1
    <3> QED
      BY <3>3, <3>4
  <2> HIDE DEF Told_
  <2> QED
    BY <2>6, <2>7 DEF u, x
<1>6. \A i \in 1 .. n : \A t \in T : G[i][t] = install(t, s[i])
  BY Zenon
<1>7. (\A i \in 0 .. n : R[i] = D(i)) /\ \A i : \A t \in D(i) : t \in T
  <2> HIDE DEF Told_
  <2> QED
    BY Zenon
<1>14. \A t \in D(n) : t \in T /\ \A r \in InState("running") :
                  t[slot[r]] = IF r \in Planned THEN Installed(r) ELSE table[slot[r]]
  <2> SUFFICES ASSUME NEW t \in D(n), NEW r \in InState("running")
               PROVE  t[slot[r]] = IF r \in Planned THEN Installed(r) ELSE table[slot[r]]
    BY <1>7
  <2>1. Told_(n, r) <=> r \in Planned
    BY <1>2, Zenon
  <2> HIDE DEF Told_
  <2> QED
    BY <2>1
<1> HIDE DEF R, G, install, D, T
<1>8. PICK f : Walks(f, n, table, G, R)
  <2>1. \A i \in 1 .. n : \A d \in R[i - 1] : G[i][d] \in R[i]
    BY <1>3, <1>5, <1>6, <1>7
  <2>2. table \in R[0]
    BY <1>2, <1>4, <1>7
  <2> QED
    BY <1>2, <2>1, <2>2, WalkExists, Zenon
<1>9. f = [i \in 0 .. n |-> IF i = 0 THEN table ELSE install(f[i - 1], s[i])]
  <2>1. /\ f = [i \in 0 .. n |-> IF i = 0 THEN table ELSE G[i][f[i - 1]]]
        /\ \A i \in 0 .. n : f[i] \in T
    <3>1. /\ f = [i \in 0 .. n |-> IF i = 0 THEN table ELSE G[i][f[i - 1]]]
          /\ \A i \in 0 .. n : f[i] \in R[i]
      BY <1>8, Zenon DEF Walks
    <3>2. ASSUME NEW i \in 0 .. n PROVE f[i] \in T
      <4>1. f[i] \in D(i)
        BY <1>7, <3>1, Zenon
      <4> QED
        BY <1>7, <4>1, Zenon
    <3> QED
      BY <3>1, <3>2, Zenon
  <2>2. \A i \in 0 .. n : i # 0 => i \in 1 .. n /\ i - 1 \in 0 .. n
    BY <1>2
  <2>3. \A i \in 0 .. n : i # 0 => G[i][f[i - 1]] = install(f[i - 1], s[i])
    BY <1>6, <2>1, <2>2, Zenon
  <2> QED
    BY <2>1, <2>3
<1>10. F = [i \in 0 .. n |-> IF i = 0 THEN table ELSE install(F[i - 1], s[i])]
  BY <1>9, Zenon
<1> HIDE DEF F
<1>11. F[0] = table /\ \A i \in 1 .. n : F[i] = install(F[i - 1], s[i])
  BY <1>2, <1>3, <1>10
<1>12. F[n] \in R[n]
  <2>1. \A i \in 1 .. n : F[i - 1] \in R[i - 1] => F[i] \in R[i]
    BY <1>3, <1>5, <1>7, <1>11
  <2>2. F[0] \in R[0]
    BY <1>2, <1>4, <1>7, <1>11
  <2> QED
    BY <1>2, <2>1, <2>2, WalkStays, Zenon
<1>13. F[n] \in D(n)
  <2>1. n \in 0 .. n
    BY <1>2
  <2> QED
    BY <1>7, <1>12, <2>1, Zenon
<1> QED
  BY <1>1, <1>13, <1>14, Zenon DEF T

\* What is installed for r shows all of its blocks.
LEMMA InstalledShows ==
  ASSUME IInv, BlockInv, Tables, NEW r \in InState("running"), Telling(r)
  PROVE  /\ Installed(r) \in [1 .. Width -> Blocks \cup {NullBlock}]
         /\ \A i \in 1 .. Len(cache.blocks[r]) : Installed(r)[i] = cache.blocks[r][i]
<1> DEFINE own == cache.blocks[r]
           l == Len(own)
           a == block_plan[r].start
           rest == block_plan[r].blocks
           old == table[slot[r]]
<1>1. r \in Requests /\ status[r] = "running" /\ Mapping(r)
  BY DEF InState, Tables
<1>2. own \in Seq(Blocks)
  <2>1. cache.blocks \in [Requests -> Seq(Blocks)]
    BY CacheTypes DEF BlockInv
  <2> QED
    BY <1>1, <2>1
<1>3. /\ l <= Width /\ a \in 0 .. l /\ \A i \in 1 .. a : old[i] = own[i]
      /\ rest = SubSeq(own, a + 1, l)
  BY <1>1 DEF Mapping, Shown
<1>4. l \in Nat /\ Width \in Nat /\ a \in Nat /\ a <= l
  BY <1>2, <1>3, WidthHolds
<1>5. Len(rest) = l - a /\ \A j \in 1 .. l - a : rest[j] = own[a + j] /\ rest[j] \in Blocks
  <2>1. ASSUME NEW w \in Seq(Blocks), NEW k \in 0 .. Len(w)
        PROVE  /\ Len(SubSeq(w, k + 1, Len(w))) = Len(w) - k
               /\ \A j \in 1 .. Len(w) - k : SubSeq(w, k + 1, Len(w))[j] = w[k + j] /\ w[k + j] \in Blocks
    <3>1. \A j \in 1 .. Len(w) - k : k + j \in 1 .. Len(w)
      OBVIOUS
    <3> QED
      BY <3>1
  <2> HIDE DEF rest, a, own
  <2>2. rest = SubSeq(own, a + 1, Len(own)) /\ a \in 0 .. Len(own)
    BY <1>3
  <2> QED
    BY <1>2, <2>1, <2>2
<1>6. a + Len(rest) = l
  <2> HIDE DEF l, a, rest
  <2> QED
    BY <1>4, <1>5
<1>7. Installed(r) = [j \in 1 .. Width |-> IF j \in a + 1 .. l THEN rest[j - a] ELSE old[j]]
  <2>1. Installed(r) = [j \in 1 .. Width |-> IF j \in a + 1 .. a + Len(rest) THEN rest[j - a] ELSE old[j]]
    BY Zenon DEF Installed
  <2> QED
    BY <1>6, <2>1
<1>8. \A j \in a + 1 .. l : j - a \in 1 .. l - a /\ a + (j - a) = j /\ rest[j - a] = own[j] /\ rest[j - a] \in Blocks
  <2> HIDE DEF l, a, rest
  <2>1. \A j \in a + 1 .. l : j - a \in 1 .. l - a /\ a + (j - a) = j
    BY <1>4
  <2> QED
    BY <1>5, <2>1
<1>9. \A j \in 1 .. Width : old[j] \in Blocks \cup {NullBlock}
  <2>1. slot[r] \in Slots
    BY <1>1 DEF IInv, Places, Seats
  <2> QED
    BY <2>1 DEF Tables
<1> HIDE DEF rest, old, a
<1>10. Installed(r) \in [1 .. Width -> Blocks \cup {NullBlock}]
  <2>1. \A j \in 1 .. Width : (IF j \in a + 1 .. l THEN rest[j - a] ELSE old[j]) \in Blocks \cup {NullBlock}
    BY <1>8, <1>9
  <2> QED
    BY <1>7, <2>1
<1>11. ASSUME NEW i \in 1 .. l PROVE Installed(r)[i] = own[i]
  <2> HIDE DEF l, own
  <2>1. i \in 1 .. Width /\ (i \in 1 .. a \/ i \in a + 1 .. l)
    BY <1>3, <1>4
  <2>2. i \in 1 .. a => i \notin a + 1 .. l
    BY <1>4
  <2> QED
    BY <1>3, <1>7, <1>8, <2>1, <2>2
<1> QED
  BY <1>10, <1>11

\* The device is told of every block before it runs the plan.
LEMMA ExecuteTables ==
  ASSUME IInv, BlockInv, Tables, Execute
  PROVE  Tables' /\ Shows(InstallTables, slot, cache, Planned) /\ Planned \subseteq InState("running")
<1>1. /\ pc = "execute" /\ pc' = "harvest" /\ table' = InstallTables /\ cache' = cache
      /\ status' = status /\ slot' = slot /\ block_plan' = block_plan
  BY DEF Execute, RunPasses, reqVars, queueVars
<1>2. Fields /\ Seats /\ Tables
  BY DEF IInv, Places
<1>3. /\ prefill \in Seq(Elements(prefill)) /\ decode \in Seq(Elements(decode))
      /\ Planned \subseteq InState("running")
  BY <1>1 DEF IInv, PlanInv, Grants, Batch, BatchRuns, ListOf, Planned
<1>4. \A r : Telling(r) <=> r \in Planned
  BY <1>1, Zenon DEF Telling, Planning, Served, Planned
<1>5. \A r \in Planned : Installed(r) \in [1 .. Width -> Blocks \cup {NullBlock}]
  BY <1>3, <1>4, InstalledShows
<1>6. /\ InstallTables \in [Slots -> [1 .. Width -> Blocks \cup {NullBlock}]]
      /\ \A r \in InState("running") :
            InstallTables[slot[r]] = IF r \in Planned THEN Installed(r) ELSE table[slot[r]]
  BY <1>2, <1>3, <1>5, InstallAll DEF Tables
<1>7. ASSUME NEW r \in InState("running"), NEW i \in 1 .. Len(cache.blocks[r])
      PROVE  InstallTables[slot[r]][i] = cache.blocks[r][i]
  <2>1. CASE r \in Planned
    BY <1>4, <1>6, <2>1, InstalledShows
  <2>2. CASE r \notin Planned
    <3>1. Mapping(r) /\ status[r] = "running"
      BY DEF InState, Tables
    <3>2. Shown(r) = Len(cache.blocks[r])
      BY <1>4, <2>2 DEF Shown
    <3>3. table[slot[r]][i] = cache.blocks[r][i]
      BY <3>1, <3>2 DEF Mapping
    <3> QED
      BY <1>6, <2>2, <3>3
  <2> QED
    BY <2>1, <2>2
<1>8. ASSUME NEW r \in Requests PROVE Mapping(r)'
  <2>1. ~Telling(r)'
    BY <1>1 DEF Telling, Planning
  <2>2. Shown(r)' = Len(cache.blocks[r])
    BY <1>1, <2>1 DEF Shown
  <2>3. Len(cache.blocks[r]) <= Width /\ cache.mapped[r] = Len(cache.blocks[r])
    BY DEF Tables, Mapping
  <2>4. ASSUME status[r] = "running"
        PROVE  /\ Len(cache.blocks[r]) \in 0 .. Len(cache.blocks[r])
               /\ \A i \in 1 .. Len(cache.blocks[r]) : InstallTables[slot[r]][i] = cache.blocks[r][i]
    <3>1. cache.blocks[r] \in Seq(Blocks)
      <4>1. cache.blocks \in [Requests -> Seq(Blocks)]
        BY CacheTypes DEF BlockInv
      <4> QED
        BY <4>1
    <3> QED
      BY <1>7, <2>4, <3>1 DEF InState
  <2> QED
    BY <1>1, <2>1, <2>2, <2>3, <2>4 DEF Mapping, Width
<1>9. Tables'
  BY <1>1, <1>2, <1>6, <1>8 DEF Tables, Width
<1> QED
  BY <1>3, <1>7, <1>9 DEF Shows

-----------------------------------------------------------------------------
\* The chunks of a plan are within the limits on a chunk.
Short ==
  Planning /\ MaxChunkSize # 0 =>
    \A e \in Elements(prefill) : e[2] <= MaxChunkSize /\ e[2] <= MaxNumBatchedTokens

\* One more chunk of the size the planner chose.
LEMMA ShortMore ==
  ASSUME IInv, Planning, Short, NEW r \in Requests, NEW n \in Nat, n < Len(prompt[r]),
         NEW k, k = ChunkOf(r, n), prefill' = Append(prefill, <<r, k>>)
  PROVE  Short'
<1>1. Fields /\ prefill \in Seq(Elements(prefill))
  BY DEF IInv, Places, PlanInv, Grants, Planning, ListOf
<1>2. MaxChunkSize # 0 => k <= MaxChunkSize /\ k <= MaxNumBatchedTokens
  BY <1>1, ChunkBounds
<1>3. \A e \in Elements(prefill') : e \in Elements(prefill) \/ e = <<r, k>>
  <2>1. \A e \in Elements(Append(prefill, <<r, k>>)) : e \in Elements(prefill) \/ e = <<r, k>>
    BY <1>1, AppendElements
  <2> QED
    BY <2>1, Zenon
<1> SUFFICES ASSUME MaxChunkSize # 0, NEW e \in Elements(prefill')
             PROVE  e[2] <= MaxChunkSize /\ e[2] <= MaxNumBatchedTokens
  BY DEF Short
<1>4. CASE e \in Elements(prefill)
  BY <1>4 DEF Short
<1>5. CASE e = <<r, k>>
  BY <1>2, <1>5
<1> QED
  BY <1>3, <1>4, <1>5

-----------------------------------------------------------------------------
(***************************************************************************)
(* What a step does to the chunks of its plan.                             *)
(***************************************************************************)
\* A chunk is granted to one request more, from where it is computed.
GrantsTo(r, n) ==
  /\ r \in Requests /\ n \in Nat /\ n < Len(prompt[r]) /\ r \notin Granted
  /\ prefill' = Append(prefill, <<r, ChunkOf(r, n)>>) /\ Granted' = Granted \cup {r}
  /\ num_computed' = [num_computed EXCEPT ![r] = n + ChunkOf(r, n)]
  /\ prompt' = prompt /\ \A q \in Requests : q # r => status'[q] = status[q]
  /\ current' = NoRequest
  /\ \/ ResumeGrant /\ r = Resuming /\ n = num_computed[r] /\ status[r] = "running"
     \/ AdmitGrant /\ r = Candidate

\* Stage 1 and admission grant such chunks.
LEMMA GrantsOne ==
  ASSUME IInv, BlockInv, Progress, ResumeGrant \/ AdmitGrant
  PROVE  Planning /\ \E r, n : GrantsTo(r, n)
<1>0. Fields /\ status \in [Requests -> {"new", "waiting", "running", "finished"}]
  BY DEF IInv, Places, Fields
<1>1. ASSUME NEW r \in Requests, NEW k, r \notin Granted, Planning, prefill' = Append(prefill, <<r, k>>)
      PROVE  Granted' = Granted \cup {r}
  <2>1. Apart
    BY <1>1 DEF IInv, PlanInv, Grants, Planning, Apart
  <2> QED
    BY <1>1, <2>1, GrantMore, Zenon
<1>2. CASE ResumeGrant
  <2>0. PICK r : r = Resuming
    OBVIOUS
  <2> DEFINE n == num_computed[r]
             k == ChunkOf(r, n)
  <2>1. /\ pc = "resume" /\ (current # NoRequest \/ ToResume # {}) /\ prefill' = Append(prefill, <<r, (n + k) - n>>)
        /\ num_computed' = [num_computed EXCEPT ![r] = n + k] /\ current' = NoRequest
        /\ UNCHANGED <<prompt, status>>
    BY <1>2, <2>0 DEF ResumeGrant, ResumeReach
  <2>2. r \in Requests /\ n \in Nat /\ n < Len(prompt[r]) /\ r \notin Granted /\ status[r] = "running"
    BY <2>0, <2>1, ResumingUnfilled DEF BlockInv, InState
  <2>3. k \in Nat
    BY <1>0, <2>2, ChunkBounds
  <2>4. (n + k) - n = k
    <3> HIDE DEF n, k
    <3> QED
      BY <2>2, <2>3
  <2>5. prefill' = Append(prefill, <<r, k>>) /\ Planning
    BY <2>1, <2>4 DEF Planning
  <2>6. Granted' = Granted \cup {r}
    BY <1>1, <2>2, <2>5
  <2>7. GrantsTo(r, n)
    BY <1>2, <2>0, <2>1, <2>2, <2>5, <2>6 DEF GrantsTo
  <2> QED
    BY <2>5, <2>7
<1>3. CASE AdmitGrant
  <2>0. PICK r : r = Candidate
    OBVIOUS
  <2> DEFINE c == Tracked(r)
  <2>1. pc = "admit" /\ waiting # <<>> /\ current' = NoRequest /\ prompt' = prompt /\ Planning
    BY <1>3 DEF AdmitGrant, Admissible, Planning
  <2>2. PICK m \in Lookup(c, r, Len(prompt[r])) :
          LET hit == Len(m) * BlockSize IN
          /\ prefill' = Append(prefill, <<r, ChunkOf(r, hit)>>)
          /\ num_computed' = [num_computed EXCEPT ![r] = hit + ChunkOf(r, hit)]
          /\ status' = [status EXCEPT ![r] = "running"]
    BY <1>3, <2>0 DEF AdmitGrant
  <2> DEFINE hit == Len(m) * BlockSize
  <2>3. r \in InState("waiting") /\ r \in Requests /\ InOrder(c, Token)
    BY <2>0, <2>1, CandidateBlocks DEF InState
  <2>4. Len(prompt[r]) \in Nat \ {0} /\ r \notin Granted
    <3>1. status[r] = "waiting" /\ prompt[r] \in Seq(Token)
      BY <1>0, <2>3 DEF InState, Fields
    <3>2. prompt[r] # <<>>
      BY <2>3, <3>1 DEF BlockInv, Asks
    <3>3. r \notin Granted
      BY <2>1, <3>1 DEF IInv, PlanInv, Grants, InState
    <3> QED
      BY <3>1, <3>2, <3>3
  <2>5. hit \in Nat /\ hit < Len(prompt[r])
    BY <2>0, <2>1, <2>3, <2>4, HitLeavesOne
  <2> HIDE DEF hit
  <2>6. /\ prefill' = Append(prefill, <<r, ChunkOf(r, hit)>>)
        /\ num_computed' = [num_computed EXCEPT ![r] = hit + ChunkOf(r, hit)]
        /\ status' = [status EXCEPT ![r] = "running"]
    BY <2>2 DEF hit
  <2>7. Granted' = Granted \cup {r}
    BY <1>1, <2>1, <2>3, <2>4, <2>6
  <2>8. GrantsTo(r, hit)
    BY <1>0, <1>3, <2>0, <2>1, <2>3, <2>4, <2>5, <2>6, <2>7 DEF GrantsTo
  <2> QED
    BY <2>1, <2>8
<1> QED
  BY <1>2, <1>3

\* The other steps grant nothing.
LEMMA NextChunks ==
  ASSUME [Next]_vars
  PROVE  \/ ResumeGrant \/ AdmitGrant
         \/ prefill' = <<>>
         \/ ~Planning'
         \/ prefill' = prefill /\ Planning /\ (pc' = "resume" => pc = "resume")
<1>1. CASE UNCHANGED vars
  <2>1. prefill' = prefill /\ pc' = pc
    BY <1>1 DEF vars, plannerVars, planVars
  <2> QED
    BY <2>1 DEF Planning
<1>2. CASE Plan
  <2>1. EndResume \/ ResumeEvict \/ ResumeStall => prefill' = prefill /\ pc = "resume"
    BY DEF EndResume, ResumeEvict, ResumeStall
  <2>2. AdmitStop \/ AdmitEvict \/ AdmitRefuse => prefill' = prefill /\ pc = "admit" /\ pc' # "resume"
    BY DEF AdmitStop, AdmitEvict, AdmitRefuse, Admissible
  <2>3. FormDecode \/ GrowGrant \/ GrowEvict \/ EndPlan => prefill' = prefill /\ pc \in {"batch", "grow"} /\ pc' # "resume"
    BY DEF FormDecode, GrowGrant, GrowEvict, EndPlan
  <2>4. BeginPlan => prefill' = <<>>
    BY DEF BeginPlan
  <2> QED
    BY <1>2, <2>1, <2>2, <2>3, <2>4 DEF Plan, PlanStep, Planning
<1>3. CASE SkipEmpty \/ Publish
  BY <1>3 DEF SkipEmpty, Publish, EndStep
<1>4. CASE Execute
  BY <1>4 DEF Execute, RunPasses, Planning
<1>5. CASE HarvestStop
  BY <1>5 DEF HarvestStop, planVars, Planning
<1>6. ASSUME NEW tok \in Generated, HarvestToken(tok) PROVE ~Planning'
  BY <1>6 DEF HarvestToken, planVars, Planning
<1>7. ASSUME NEW r \in Requests, AbortRequest(r) \/ \E p \in Prompts : Submit(r, p) PROVE ~Planning'
  BY <1>7 DEF AbortRequest, Abort, Submit, AddRequest, planVars, Planning
<1>8. CASE Poll
  BY <1>1, <1>8 DEF Poll
<1> QED
  BY <1>1, <1>2, <1>3, <1>4, <1>5, <1>6, <1>7, <1>8 DEF Next, EngineStep

\* The chunks of every plan are within the limits.
LEMMA InitShort == Init => Short
BY DEF Init, PlannerInit, Short, Planning

LEMMA NextShort ==
  ASSUME IInv, BlockInv, Progress, Short, [Next]_vars
  PROVE  Short'
<1>1. CASE prefill' = prefill /\ Planning
  BY <1>1 DEF Short, Elements
<1>2. CASE prefill' = <<>>
  <2>1. Elements(prefill') = {}
    BY <1>2 DEF Elements
  <2> QED
    BY <2>1 DEF Short
<1>3. CASE ~Planning'
  BY <1>3 DEF Short
<1>4. CASE ResumeGrant \/ AdmitGrant
  <2>1. PICK r, n : GrantsTo(r, n)
    BY <1>4, GrantsOne
  <2> QED
    BY <1>4, <2>1, GrantsOne, ShortMore DEF GrantsTo
<1> QED
  BY <1>1, <1>2, <1>3, <1>4, NextChunks

-----------------------------------------------------------------------------
(* The passes of a step, one after the other. *)

\* What is computed once the passes of P have run.
After(done, full, P) == [r \in Requests |-> IF r \in P THEN full[r] ELSE done[r]]

\* A pass for Q after one for others.
LEMMA NextPass ==
  ASSUME NEW Tok, NEW c, NEW seq, NEW done, NEW full, NEW those, Store(c, Tok, seq, done),
         Advances(c, seq, done, full, those), NEW P, NEW Q, P \subseteq those, Q \subseteq those, P \cap Q = {}, NEW sl
  PROVE  /\ Store(c, Tok, seq, After(done, full, P))
         /\ Advances(c, seq, After(done, full, P), After(done, full, P \cup Q), Q)
         /\ Jobs(sl, seq, After(done, full, P), After(done, full, P \cup Q), Q) = Jobs(sl, seq, done, full, Q)
<1>1. /\ full \in [Requests -> Nat] /\ done \in [Requests -> Nat] /\ those \subseteq Requests
      /\ \A r \in those : done[r] <= full[r] /\ full[r] <= Len(seq[r]) /\ full[r] <= Len(c.blocks[r]) * BlockSize
  BY DEF Store, Advances
<1>2. Advances(c, seq, done, After(done, full, P), P)
  <2>1. After(done, full, P) \in [Requests -> Nat]
    BY <1>1 DEF After
  <2>2. \A r \in P : r \in those /\ r \in Requests /\ After(done, full, P)[r] = full[r]
    BY <1>1 DEF After
  <2>3. \A r \in Requests : r \notin P => After(done, full, P)[r] = done[r]
    BY DEF After
  <2>4. P \subseteq Requests
    BY <1>1
  <2>5. ASSUME NEW r \in P
        PROVE  /\ done[r] <= After(done, full, P)[r] /\ After(done, full, P)[r] <= Len(seq[r])
               /\ After(done, full, P)[r] <= Len(c.blocks[r]) * BlockSize
    <3>1. r \in those /\ After(done, full, P)[r] = full[r]
      BY <2>2
    <3>2. done[r] <= full[r] /\ full[r] <= Len(seq[r]) /\ full[r] <= Len(c.blocks[r]) * BlockSize
      BY <1>1, <3>1
    <3> QED
      BY <3>1, <3>2, Zenon
  <2> QED
    BY <2>1, <2>3, <2>4, <2>5, Zenon DEF Advances
<1> DEFINE a == After(done, full, P)
           b == After(done, full, P \cup Q)
<1>3. \A r \in Q : r \in those /\ r \in Requests /\ a[r] = done[r] /\ b[r] = full[r]
  BY <1>1 DEF After
<1>4. \A r \in Requests : r \notin Q => b[r] = a[r]
  BY DEF After
<1>5. b \in [Requests -> Nat] /\ Q \subseteq Requests
  BY <1>1 DEF After
<1>6. Store(c, Tok, seq, a)
  <2> HIDE DEF a
  <2> QED
    BY <1>2, AdvancedStore DEF a
<1> HIDE DEF a, b
<1>7. Advances(c, seq, a, b, Q)
  <2>1. ASSUME NEW r \in Q PROVE a[r] <= b[r] /\ b[r] <= Len(seq[r]) /\ b[r] <= Len(c.blocks[r]) * BlockSize
    <3>1. r \in those /\ a[r] = done[r] /\ b[r] = full[r]
      BY <1>3
    <3>2. done[r] <= full[r] /\ full[r] <= Len(seq[r]) /\ full[r] <= Len(c.blocks[r]) * BlockSize
      BY <1>1, <3>1
    <3> QED
      BY <3>1, <3>2, Zenon
  <2> QED
    BY <1>4, <1>5, <2>1, Zenon DEF Advances
<1>8. Jobs(sl, seq, a, b, Q) = Jobs(sl, seq, done, full, Q)
  <2>1. \A r \in Q : Job(sl, seq, a, b, r) = Job(sl, seq, done, full, r)
    BY <1>3 DEF Job
  <2> QED
    BY <2>1, Zenon DEF Jobs
<1> QED
  BY <1>6, <1>7, <1>8 DEF a, b

\* Where the padding goes depends on the requests of the pass alone.
LEMMA SamePadding ==
  ASSUME NEW c, NEW t, NEW sl, NEW done, NEW full, NEW a, NEW b, NEW Q,
         \A r \in Q : a[r] = done[r] /\ b[r] = full[r], PaddingLands(c, t, sl, done, full, Q)
  PROVE  PaddingLands(c, t, sl, a, b, Q)
<1> SUFFICES ASSUME NEW q \in Q, NEW r \in Q, NEW p \in b[r] + 1 .. a[r] + (b[q] - a[q]), p <= MaxSeqLen
             PROVE  NumBlocksFor(p) <= Len(c.blocks[r]) \/ t[sl[r]][NumBlocksFor(p)] = NullBlock
  BY DEF PaddingLands
<1>1. p \in full[r] + 1 .. done[r] + (full[q] - done[q])
  OBVIOUS
<1> QED
  BY <1>1 DEF PaddingLands

\* The first two passes have led to g: nobody has been misled, and the third
\* leaves every row right and misleads nobody.
PassesRight(c, seq, done, full, D, t, sl, g) ==
  LET d == RowPass(g.kv, t, Jobs(sl, seq, done, full, D))
  IN  g.misled = {} /\ d.misled = {} /\ DOMAIN d.kv = Rows /\ RowsHold(c, seq, full, d.kv)

\* First chunks, resumed chunks and decode rows: every row computed is right,
\* and no sequence met a row that is not its own.
LEMMA PassesHold ==
  ASSUME NEW Tok, NEW c, NEW seq, NEW done, NEW full, NEW F, NEW G, NEW D, Store(c, Tok, seq, done),
         Advances(c, seq, done, full, F \cup G \cup D), F \cap G = {}, (F \cup G) \cap D = {},
         NEW t, NEW sl, Shows(t, sl, c, F \cup G \cup D),
         NEW rows, DOMAIN rows = Rows, RowsHold(c, seq, done, rows),
         \A r \in F \cup G : full[r] <= MaxSeqLen, PaddingLands(c, t, sl, done, full, F),
         NEW f, F = {} => f = [kv |-> rows, misled |-> {}],
         F # {} => f \in FreshGrid(rows, t, Jobs(sl, seq, done, full, F)),
         NEW g, NEW grid, ~grid => g = RowPass(f.kv, t, Jobs(sl, seq, done, full, G)),
         grid => /\ g \in ResumedGrid(f.kv, t, Jobs(sl, seq, done, full, G))
                 /\ PaddingLands(c, t, sl, done, full, G) /\ InOneRun(t, sl, full, G)
  PROVE  PassesRight(c, seq, done, full, D, t, sl, g)
<1> DEFINE those == F \cup G \cup D
           a0 == After(done, full, {})
           a1 == After(done, full, F)
           a2 == After(done, full, F \cup G)
           a3 == After(done, full, those)
           J(P) == Jobs(sl, seq, done, full, P)
           d == RowPass(g.kv, t, J(D))
<1>1. done \in [Requests -> Nat] /\ full \in [Requests -> Nat] /\ \A r \in Requests : r \notin those => full[r] = done[r]
  BY DEF Store, Advances
<1>2. a0 = done /\ a3 = full
  <2>1. done = [r \in Requests |-> done[r]] /\ full = [r \in Requests |-> full[r]]
    BY <1>1
  <2> HIDE DEF those
  <2>2. \A r \in Requests : (IF r \in {} THEN full[r] ELSE done[r]) = done[r]
    OBVIOUS
  <2>3. \A r \in Requests : (IF r \in those THEN full[r] ELSE done[r]) = full[r]
    BY <1>1
  <2>4. a0 = [r \in Requests |-> done[r]]
    BY <2>2 DEF After
  <2>5. a3 = [r \in Requests |-> full[r]]
    BY <2>3 DEF After
  <2> QED
    BY <2>1, <2>4, <2>5
<1>3. Advances(c, seq, a0, a1, F) /\ Jobs(sl, seq, a0, a1, F) = J(F) /\ Store(c, Tok, seq, a0)
  <2>1. {} \cup F = F /\ {} \subseteq those /\ F \subseteq those /\ {} \cap F = {}
    OBVIOUS
  <2> DEFINE N == {}
  <2>2. /\ Store(c, Tok, seq, After(done, full, N)) /\ Advances(c, seq, After(done, full, N), After(done, full, N \cup F), F)
        /\ Jobs(sl, seq, After(done, full, N), After(done, full, N \cup F), F) = Jobs(sl, seq, done, full, F)
    <3> HIDE DEF N
    <3> QED
      BY <2>1, NextPass DEF N
  <2> QED
    BY <2>1, <2>2, Zenon
<1>4. Advances(c, seq, a1, a2, G) /\ Jobs(sl, seq, a1, a2, G) = J(G) /\ Store(c, Tok, seq, a1)
  <2>1. F \subseteq those /\ G \subseteq those /\ F \cap G = {} /\ Advances(c, seq, done, full, those)
    OBVIOUS
  <2> HIDE DEF those
  <2> QED
    BY <2>1, NextPass
<1>5. Advances(c, seq, a2, a3, D) /\ Jobs(sl, seq, a2, a3, D) = J(D) /\ Store(c, Tok, seq, a2)
  <2> DEFINE H == F \cup G
  <2>1. H \subseteq those /\ D \subseteq those /\ H \cap D = {}
    OBVIOUS
  <2>3. H \cup D = those
    OBVIOUS
  <2>2. /\ Advances(c, seq, After(done, full, H), After(done, full, H \cup D), D) /\ Store(c, Tok, seq, After(done, full, H))
        /\ Jobs(sl, seq, After(done, full, H), After(done, full, H \cup D), D) = Jobs(sl, seq, done, full, D)
    <3>1. Advances(c, seq, done, full, those)
      OBVIOUS
    <3> HIDE DEF H, those
    <3> QED
      BY <2>1, <3>1, NextPass
  <2> QED
    BY <2>2, <2>3, Zenon
<1>6. Shows(t, sl, c, F) /\ Shows(t, sl, c, G) /\ Shows(t, sl, c, D)
  BY DEF Shows
<1>7. DOMAIN f.kv = Rows /\ RowsHold(c, seq, a1, f.kv)
  <2>1. CASE F = {}
    <3>1. a1 = a0 /\ f.kv = rows
      BY <2>1
    <3> QED
      BY <1>2, <3>1
  <2>2. CASE F # {}
    <3>0. \A r \in F : a0[r] = done[r] /\ a1[r] = full[r]
      <4>1. \A r \in F : r \in Requests
        BY DEF Advances
      <4> QED
        BY <4>1 DEF After
    <3>1. \A r \in F : a1[r] <= MaxSeqLen
      <4> HIDE DEF a0, a1
      <4> QED
        BY <3>0
    <3>2. RowsHold(c, seq, a0, rows) /\ f \in FreshGrid(rows, t, Jobs(sl, seq, a0, a1, F))
      BY <1>2, <1>3, <2>2
    <3> HIDE DEF a0, a1
    <3>3. Store(c, Tok, seq, a0) /\ Advances(c, seq, a0, a1, F) /\ Shows(t, sl, c, F)
      BY <1>3, <1>6
    <3>4. PaddingLands(c, t, sl, a0, a1, F)
      BY <3>0, SamePadding
    <3> QED
      BY <3>1, <3>2, <3>3, <3>4, FreshGridHolds
  <2> QED
    BY <2>1, <2>2
<1> HIDE DEF a0, a1, a2, a3
<1>8. g.misled = {} /\ DOMAIN g.kv = Rows /\ RowsHold(c, seq, a2, g.kv)
  <2>1. CASE ~grid
    <3>1. g = RowPass(f.kv, t, Jobs(sl, seq, a1, a2, G))
      BY <1>4, <2>1
    <3> DEFINE h == RowPass(f.kv, t, Jobs(sl, seq, a1, a2, G))
    <3>2. h.misled = {} /\ DOMAIN h.kv = Rows /\ RowsHold(c, seq, a2, h.kv)
      BY <1>4, <1>6, <1>7, RowPassHolds
    <3> QED
      BY <3>1, <3>2, Zenon
  <2>2. CASE grid
    <3>1. g \in ResumedGrid(f.kv, t, Jobs(sl, seq, a1, a2, G))
      BY <1>4, <2>2
    <3>2. \A r \in G : a1[r] = done[r] /\ a2[r] = full[r]
      <4>1. \A r \in G : r \in Requests /\ r \notin F
        BY DEF Advances
      <4> QED
        BY <4>1 DEF After, a1, a2
    <3>3. \A r \in G : a2[r] <= MaxSeqLen
      BY <3>2
    <3>4. PaddingLands(c, t, sl, a1, a2, G)
      BY <2>2, <3>2, SamePadding
    <3>5. InOneRun(t, sl, a2, G)
      BY <2>2, <3>2 DEF InOneRun
    <3> QED
      BY <1>4, <1>6, <1>7, <3>1, <3>3, <3>4, <3>5, ResumedGridHolds
  <2> QED
    BY <2>1, <2>2
<1>9. d.misled = {} /\ DOMAIN d.kv = Rows /\ RowsHold(c, seq, a3, d.kv)
  <2> DEFINE h == RowPass(g.kv, t, Jobs(sl, seq, a2, a3, D))
  <2>1. h.misled = {} /\ DOMAIN h.kv = Rows /\ RowsHold(c, seq, a3, h.kv)
    BY <1>5, <1>6, <1>8, RowPassHolds
  <2>2. d = h
    BY <1>5
  <2> QED
    BY <2>1, <2>2, Zenon
<1> HIDE DEF d
<1> QED
  BY <1>2, <1>8, <1>9, Zenon DEF d, PassesRight

-----------------------------------------------------------------------------
(* The passes of the engine's step. *)

\* The grids of the plan do no harm: their padding goes to blocks of its own
\* request or through empty table entries, and a resumed grid finds the rows of
\* the table in the run it reads.
GridsAreClean ==
  pc = "execute" =>
    LET fresh   == {e[1] : e \in Fresh}
        resumed == {e[1] : e \in Resumed}
    IN  /\ PaddingLands(cache, InstallTables, slot, Computed, num_computed, fresh)
        /\ RunsAsGrid => /\ PaddingLands(cache, InstallTables, slot, Computed, num_computed, resumed)
                         /\ InOneRun(InstallTables, slot, num_computed, resumed)

\* What the passes run is what is computed and what will be.
LEMMA StepJobs ==
  ASSUME IInv, BlockInv, Progress, Stock, Execute, NEW full, full = Computed'
  PROVE  /\ \A e \in Elements(prefill) :
              /\ e[1] \in Requests /\ PrefillSeq(e) = Job(slot, Sequences, Computed, full, e[1])
              /\ full[e[1]] = num_computed[e[1]] /\ full[e[1]] \in Nat /\ full[e[1]] <= MaxSeqLen
         /\ \A r \in Elements(decode) : DecodeSeq(r) = Job(slot, Sequences, Computed, full, r)
<1>1. pc = "execute" /\ Planning /\ Fields /\ Apart
  BY DEF Execute, Planning, IInv, Places, PlanInv, Grants, Apart
<1>2. \A r \in Requests :
           /\ status[r] = "running" /\ Named(r) => full[r] = Promised(r)
           /\ Sequences[r] = Sequence(r) /\ Computed[r] = ComputedOf(r)
  BY ExecuteComputed DEF Sequences, Computed
<1>3. ASSUME NEW e \in Elements(prefill)
      PROVE  /\ e[1] \in Requests /\ PrefillSeq(e) = Job(slot, Sequences, Computed, full, e[1])
             /\ full[e[1]] = num_computed[e[1]] /\ full[e[1]] \in Nat /\ full[e[1]] <= MaxSeqLen
  <2>0. PICK r : r = e[1]
    OBVIOUS
  <2>1. r \in Granted /\ Ahead(r) = e[2]
    BY <1>1, <2>0, AheadOf
  <2>2. r \in Requests /\ status[r] = "running"
    BY <1>1, <2>1 DEF IInv, PlanInv, Grants, InState
  <2>3. e[2] \in Nat \ {0} /\ e[2] <= num_computed[r] /\ output[r] = <<>>
    BY <1>1, <2>0 DEF Progress, Chunks
  <2>4. num_computed[r] \in Nat /\ num_computed[r] <= Len(prompt[r])
    <3>1. num_computed[r] \in 0 .. Len(prompt[r]) /\ Len(prompt[r]) \in Nat
      BY <1>1, <2>2, Lengths DEF Progress, Counts, Counted
    <3> QED
      BY <3>1
  <2>5. full[r] = num_computed[r]
    BY <1>2, <2>1, <2>2 DEF Named, Promised
  <2>6. Computed[r] = num_computed[r] - e[2]
    BY <1>2, <2>1, <2>2, <2>3 DEF ComputedOf
  <2>7. Sequences[r] = prompt[r]
    <3>1. prompt[r] \in Seq(Token)
      BY <1>1, <2>2 DEF Fields
    <3>2. ASSUME NEW s \in Seq(Token) PROVE s \o <<>> = s
      OBVIOUS
    <3> QED
      BY <1>2, <2>2, <2>3, <3>1, <3>2 DEF Sequence
  <2>8. PrefillSeq(e) = Job(slot, Sequences, Computed, full, r)
    BY <2>0, <2>5, <2>6, <2>7 DEF PrefillSeq, Job
  <2>9. num_computed[r] <= MaxSeqLen
    <3>1. Allowances /\ status[r] \in {"waiting", "running"}
      BY <2>2 DEF IInv, Places
    <3>2. SeqLen(r) < MaxSeqLen /\ MaxSeqLen \in Nat
      BY <1>1, <2>2, <3>1, WithinWindow, PlannerAssumption
    <3> DEFINE p == Len(prompt[r])
               o == Len(output[r])
    <3>3. SeqLen(r) = p + o /\ p \in Nat /\ o = 0
      BY <1>1, <2>2, <2>3, Lengths DEF SeqLen
    <3>4. num_computed[r] <= p
      BY <2>4
    <3> HIDE DEF p, o
    <3> QED
      BY <2>4, <3>2, <3>3, <3>4
  <2> QED
    BY <2>0, <2>2, <2>4, <2>5, <2>8, <2>9
<1>4. ASSUME NEW r \in Elements(decode) PROVE DecodeSeq(r) = Job(slot, Sequences, Computed, full, r)
  <2>1. r \in Requests /\ status[r] = "running" /\ r \notin Granted /\ output[r] # <<>>
    BY <1>1 DEF IInv, PlanInv, Batch, BatchRuns, InState, Progress, Decodes
  <2>2. full[r] = SeqLen(r)
    BY <1>1, <1>2, <2>1 DEF Named, Promised
  <2>3. Computed[r] = SeqLen(r) - 1
    BY <1>1, <1>2, <2>1 DEF ComputedOf
  <2>4. SubSeq(Sequence(r), 1, SeqLen(r)) = Sequence(r)
    <3>1. Sequence(r) \in Seq(Token) /\ Len(Sequence(r)) = SeqLen(r)
      BY <1>1, <2>1, Lengths
    <3>2. ASSUME NEW s \in Seq(Token) PROVE SubSeq(s, 1, Len(s)) = s
      OBVIOUS
    <3> QED
      BY <3>1, <3>2
  <2> QED
    BY <1>2, <2>1, <2>2, <2>3, <2>4 DEF DecodeSeq, Job
<1> QED
  BY <1>3, <1>4

\* The step leaves every row computed right, and nobody read a wrong one.
LEMMA ExecuteRows ==
  ASSUME GridsAreClean, IInv, BlockInv, Progress, Stock, Tables, Execute,
         DOMAIN kv = Rows, RowsHold(cache, Sequences, Computed, kv)
  PROVE  /\ DOMAIN kv' = Rows /\ RowsHold(cache, Sequences, Computed', kv') /\ (~misread => ~misread')
<1>0. PICK full : full = Computed'
  OBVIOUS
<1> DEFINE F == {e[1] : e \in Fresh}
           G == {e[1] : e \in Resumed}
           D == Elements(decode)
           t == InstallTables
           seq == Sequences
           done == Computed
           J(P) == Jobs(slot, seq, done, full, P)
<1>1. pc = "execute" /\ Planning /\ Apart
  BY DEF Execute, Planning, IInv, PlanInv, Grants, Apart
<1>2. /\ \A e \in Elements(prefill) :
              /\ e[1] \in Requests /\ PrefillSeq(e) = Job(slot, seq, done, full, e[1])
              /\ full[e[1]] = num_computed[e[1]] /\ full[e[1]] \in Nat /\ full[e[1]] <= MaxSeqLen
      /\ \A r \in D : DecodeSeq(r) = Job(slot, seq, done, full, r)
  BY <1>0, StepJobs
<1>3. Fresh \subseteq Elements(prefill) /\ Resumed \subseteq Elements(prefill) /\ Fresh \cup Resumed = Elements(prefill)
      /\ Fresh \cap Resumed = {} /\ \A e \in Fresh : IsFresh(e)
  BY Zenon DEF Fresh, Resumed
<1>4. F \cup G = Granted /\ F \cap G = {} /\ Planned = F \cup G \cup D /\ (F \cup G) \cap D = {}
  <2>1. Granted = {e[1] : e \in Elements(prefill)}
    BY GrantedFirsts
  <2>2. F \cup G = Granted
    BY <1>3, <2>1, Zenon
  <2>3. F \cap G = {}
    <3> SUFFICES ASSUME NEW d \in Fresh, NEW e \in Resumed, d[1] = e[1] PROVE FALSE
      OBVIOUS
    <3>1. d \in Elements(prefill) /\ e \in Elements(prefill)
      BY <1>3, Zenon
    <3>2. d = e
      BY <1>1, <3>1, Zenon DEF Apart
    <3> QED
      BY <1>3, <3>2, Zenon
  <2>4. D \cap Granted = {}
    BY <1>1 DEF IInv, PlanInv, Batch
  <2> HIDE DEF F, G, D
  <2>5. Planned = F \cup G \cup D
    BY <2>2, Zenon DEF Planned, D
  <2> QED
    BY <2>2, <2>3, <2>4, <2>5
<1>5. /\ {PrefillSeq(e) : e \in Fresh} = J(F) /\ {PrefillSeq(e) : e \in Resumed} = J(G)
      /\ {DecodeSeq(r) : r \in D} = J(D)
  <2>1. J(F) = {Job(slot, seq, done, full, e[1]) : e \in Fresh} /\ J(G) = {Job(slot, seq, done, full, e[1]) : e \in Resumed}
        /\ J(D) = {Job(slot, seq, done, full, r) : r \in D}
    BY Zenon DEF Jobs
  <2>2. \A e \in Fresh : PrefillSeq(e) = Job(slot, seq, done, full, e[1])
    BY <1>2, <1>3
  <2>3. \A e \in Resumed : PrefillSeq(e) = Job(slot, seq, done, full, e[1])
    BY <1>2, <1>3
  <2> HIDE DEF F, G, D, J, seq, done
  <2>4. {PrefillSeq(e) : e \in Fresh} = {Job(slot, seq, done, full, e[1]) : e \in Fresh}
    BY <2>2, Zenon
  <2>5. {PrefillSeq(e) : e \in Resumed} = {Job(slot, seq, done, full, e[1]) : e \in Resumed}
    BY <2>3, Zenon
  <2>6. {DecodeSeq(r) : r \in D} = {Job(slot, seq, done, full, r) : r \in D}
    BY <1>2, Zenon
  <2> QED
    BY <2>1, <2>4, <2>5, <2>6, Zenon
<1>6. Store(cache, Token, seq, done) /\ RowsHold(cache, seq, done, kv)
  BY DEF Stock, Stocked
<1>7. Advances(cache, seq, done, full, F \cup G \cup D)
  <2>1. \A r \in Requests :
           /\ status[r] = "running" /\ Named(r) => /\ full[r] = Promised(r) /\ done[r] <= Promised(r)
                                                   /\ Promised(r) \in Nat /\ Promised(r) <= Len(seq[r])
                                                   /\ Promised(r) <= Len(cache.blocks[r]) * BlockSize
           /\ ~(status[r] = "running" /\ Named(r)) => full[r] = done[r]
    BY <1>0, ExecuteComputed
  <2>2. \A r \in Requests : (status[r] = "running" /\ Named(r)) <=> r \in Planned
    <3>1. Planned \subseteq InState("running")
      BY ExecuteTables
    <3>2. \A r : Named(r) <=> r \in Planned
      BY <1>1, Zenon DEF Named, Planned
    <3> QED
      BY <3>1, <3>2 DEF InState
  <2>3. Planned \subseteq Requests
    BY ExecuteTables DEF InState
  <2>4. full \in [Requests -> Nat]
    <3>1. full = [r \in Requests |-> full[r]]
      BY <1>0 DEF Computed
    <3>2. done \in [Requests -> Nat]
      BY <1>6 DEF Store
    <3> HIDE DEF done
    <3>3. \A r \in Requests : full[r] \in Nat
      BY <2>1, <3>2
    <3> QED
      BY <3>1, <3>3
  <2>5. Advances(cache, seq, done, full, Planned)
    <3>1. ASSUME NEW r \in Planned
          PROVE  done[r] <= full[r] /\ full[r] <= Len(seq[r]) /\ full[r] <= Len(cache.blocks[r]) * BlockSize
      <4>1. r \in Requests /\ status[r] = "running" /\ Named(r)
        BY <2>2, <2>3
      <4> HIDE DEF done, seq
      <4> QED
        BY <2>1, <4>1
    <3>2. \A r \in Requests : r \notin Planned => full[r] = done[r]
      <4> HIDE DEF done, seq
      <4> QED
        BY <2>1, <2>2, Zenon
    <3> HIDE DEF done, seq
    <3> QED
      BY <2>3, <2>4, <3>1, <3>2, Zenon DEF Advances
  <2> QED
    BY <1>4, <2>5, Zenon
<1>8. Shows(t, slot, cache, F \cup G \cup D)
  BY <1>4, ExecuteTables, Zenon
<1>9. \A r \in F \cup G : full[r] = num_computed[r] /\ full[r] <= MaxSeqLen
  BY <1>2, <1>3
<1>10. /\ PaddingLands(cache, t, slot, done, num_computed, F)
       /\ RunsAsGrid => PaddingLands(cache, t, slot, done, num_computed, G) /\ InOneRun(t, slot, num_computed, G)
  BY <1>1, Zenon DEF GridsAreClean
<1>11. PICK f \in FreshOutcomes(kv, t) : \E g \in ResumedOutcomes(f.kv, t) :
          LET d == RowPass(g.kv, t, {DecodeSeq(r) : r \in D}) IN
          kv' = d.kv /\ misread' = (misread \/ g.misled \cup d.misled # {})
  BY Zenon DEF Execute, RunPasses
<1>12. PICK g \in ResumedOutcomes(f.kv, t) :
          LET d == RowPass(g.kv, t, {DecodeSeq(r) : r \in D}) IN
          kv' = d.kv /\ misread' = (misread \/ g.misled \cup d.misled # {})
  BY <1>11
<1> HIDE DEF t, seq, done, D, J
<1>13. /\ ~RunsAsGrid => g = RowPass(f.kv, t, J(G))
       /\ RunsAsGrid => g \in ResumedGrid(f.kv, t, J(G))
  <2>1. ResumedOutcomes(f.kv, t) = IF RunsAsGrid THEN ResumedGrid(f.kv, t, {PrefillSeq(e) : e \in Resumed})
                                   ELSE {RowPass(f.kv, t, {PrefillSeq(e) : e \in Resumed})}
    BY Zenon DEF ResumedOutcomes
  <2> QED
    BY <1>5, <2>1
<1> DEFINE d == RowPass(g.kv, t, J(D))
<1>14. kv' = d.kv /\ misread' = (misread \/ g.misled \cup d.misled # {})
  BY <1>5, <1>12
<1>15. /\ F = {} => f = [kv |-> kv, misled |-> {}]
       /\ F # {} => f \in FreshGrid(kv, t, J(F))
  <2>1. F = {} <=> Fresh = {}
    OBVIOUS
  <2>2. f \in IF Fresh = {} THEN {[kv |-> kv, misled |-> {}]} ELSE FreshGrid(kv, t, {PrefillSeq(e) : e \in Fresh})
    BY Zenon DEF FreshOutcomes
  <2> HIDE DEF F
  <2> QED
    BY <1>5, <2>1, <2>2
<1> HIDE DEF F, G
<1>16. PassesRight(cache, seq, done, full, D, t, slot, g)
  <2>0. PICK n : n = num_computed
    OBVIOUS
  <2>1. F # {} => f \in FreshGrid(kv, t, Jobs(slot, seq, done, full, F))
    BY <1>15, Zenon DEF J
  <2>2. F \cap G = {} /\ (F \cup G) \cap D = {}
    BY <1>4
  <2>3. F = {} => f = [kv |-> kv, misled |-> {}]
    BY <1>15
  <2>4. DOMAIN kv = Rows
    OBVIOUS
  <2>5. \A r \in F \cup G : full[r] <= MaxSeqLen
    BY <1>9
  <2>6. Store(cache, Token, seq, done) /\ RowsHold(cache, seq, done, kv)
    BY <1>6
  <2>7. \A r \in F : done[r] = done[r] /\ full[r] = n[r]
    BY <1>9, <2>0
  <2>8. PaddingLands(cache, t, slot, done, full, F)
    BY <1>10, <2>0, <2>7, SamePadding
  <2>9. ~RunsAsGrid => g = RowPass(f.kv, t, Jobs(slot, seq, done, full, G))
    BY <1>13, Zenon DEF J
  <2>10. \A r \in G : done[r] = done[r] /\ full[r] = n[r]
    BY <1>9, <2>0
  <2>11. RunsAsGrid => /\ g \in ResumedGrid(f.kv, t, Jobs(slot, seq, done, full, G))
                       /\ PaddingLands(cache, t, slot, done, full, G) /\ InOneRun(t, slot, full, G)
    <3> SUFFICES ASSUME RunsAsGrid
                 PROVE  /\ g \in ResumedGrid(f.kv, t, Jobs(slot, seq, done, full, G))
                        /\ PaddingLands(cache, t, slot, done, full, G) /\ InOneRun(t, slot, full, G)
      OBVIOUS
    <3>1. g \in ResumedGrid(f.kv, t, Jobs(slot, seq, done, full, G))
      BY <1>13, Zenon DEF J
    <3>2. PaddingLands(cache, t, slot, done, full, G)
      BY <1>10, <2>0, <2>10, SamePadding
    <3>3. InOneRun(t, slot, full, G)
      BY <1>10, <2>0, <2>10 DEF InOneRun
    <3> QED
      BY <3>1, <3>2, <3>3
  <2>12. F \cap G = {}
    BY <2>2
  <2>13. (F \cup G) \cap D = {}
    BY <2>2
  <2> QED
    BY <1>7, <1>8, <2>1, <2>3, <2>4, <2>5, <2>6, <2>8, <2>9, <2>11, <2>12, <2>13, PassesHold
<1>17. g.misled = {} /\ d.misled = {} /\ DOMAIN d.kv = Rows /\ RowsHold(cache, seq, full, d.kv)
  BY <1>16, Zenon DEF J, PassesRight
<1> HIDE DEF d
<1>18. misread' = (misread \/ FALSE)
  BY <1>14, <1>17
<1>19. ~misread => ~misread'
  BY <1>18
<1> QED
  BY <1>0, <1>14, <1>17, <1>19, Zenon DEF seq

-----------------------------------------------------------------------------
(* The device. *)

\* Every step keeps the tables in step with the blocks.
LEMMA NextTables ==
  ASSUME IInv, BlockInv, Progress, Stock, Tables, [Next]_vars
  PROVE  Tables'
<1>1. ASSUME NEW r \in Requests, NEW p \in Prompts, Submit(r, p) PROVE Tables'
  BY <1>1, SubmitTables
<1>2. ASSUME NEW r \in Requests, AbortRequest(r) PROVE Tables'
  BY <1>2, AbortTables
<1>3. CASE UNCHANGED vars
  <2>1. /\ table' = table /\ slot' = slot /\ block_plan' = block_plan /\ cache' = cache /\ status' = status
        /\ pc' = pc /\ prefill' = prefill /\ decode' = decode /\ cursor' = cursor
    BY <1>3 DEF vars, plannerVars, reqVars, queueVars, planVars, deviceVars
  <2>2. \A r \in Requests : Telling(r)' <=> Telling(r)
    <3>1. Granted' = Granted /\ (Planning' <=> Planning)
      BY <2>1 DEF Granted, Planning, Elements
    <3> QED
      BY <2>1, <3>1 DEF Telling, Served
  <2> QED
    BY <2>1, <2>2, SameTables DEF Tables
<1>4. CASE Poll
  BY <1>3, <1>4 DEF Poll
<1>5. CASE Plan
  <2>1. PlanStep /\ table' = table
    BY <1>5 DEF Plan, deviceVars
  <2>2. CASE BeginPlan \/ ResumeGrant \/ ResumeEvict \/ ResumeStall \/ EndResume
    BY <2>1, <2>2, BeginPlanTables, ResumeGrantTables, ResumeEvictTables, ResumeStallTables, EndResumeTables
  <2>3. CASE AdmitStop \/ AdmitEvict \/ AdmitGrant \/ AdmitRefuse
    BY <2>1, <2>3, AdmitStopTables, AdmitEvictTables, AdmitGrantTables, AdmitRefuseTables
  <2>4. CASE FormDecode \/ GrowGrant \/ GrowEvict \/ EndPlan
    BY <2>1, <2>4, FormDecodeTables, GrowGrantTables, GrowEvictTables, EndPlanTables
  <2> QED
    BY <2>1, <2>2, <2>3, <2>4 DEF PlanStep
<1>6. CASE SkipEmpty \/ Publish
  BY <1>6, SkipEmptyTables, PublishTables
<1>7. CASE Execute
  BY <1>7, ExecuteTables
<1>8. CASE HarvestStop
  BY <1>8, HarvestStopTables
<1>9. ASSUME NEW tok \in Generated, HarvestToken(tok) PROVE Tables'
  BY <1>9, HarvestTokenTables
<1> QED
  BY <1>1, <1>2, <1>3, <1>4, <1>5, <1>6, <1>7, <1>8, <1>9 DEF Next, EngineStep

\* The device's half of the state: tables that show the blocks, rows that hold
\* what was computed, nobody misled.
Device ==
  /\ Tables
  /\ DOMAIN kv = Rows /\ RowsHold(cache, Sequences, Computed, kv)
  /\ ~misread

\* A new device is in order: nothing is computed and nothing cached.
LEMMA InitDevice == Init => Device
<1> SUFFICES ASSUME Init PROVE Device
  OBVIOUS
<1>1. /\ status = [r \in Requests |-> "new"] /\ kv = NewRows /\ misread = FALSE /\ pc = "idle"
      /\ cache = NewCache([i \in 1 .. Cardinality(Blocks) |-> i])
  BY DEF Init, PlannerInit
<1>2. cache.index = {}
  BY <1>1 DEF NewCache
<1>3. \A r \in Requests : Computed[r] = 0
  BY <1>1 DEF Computed, ComputedOf
<1>4. RowsHold(cache, Sequences, Computed, kv)
  BY <1>2, <1>3 DEF RowsHold, Holding
<1>5. DOMAIN kv = Rows
  BY <1>1 DEF NewRows
<1> QED
  BY <1>1, <1>4, <1>5, InitTables DEF Device

\* Only the passes of a step touch the rows.
LEMMA RowsAtRest ==
  ASSUME [Next]_vars, ~Execute
  PROVE  kv' = kv /\ misread' = misread
<1>1. CASE UNCHANGED vars
  BY <1>1 DEF vars, deviceVars
<1>2. ASSUME NEW r \in Requests, AbortRequest(r) \/ \E p \in Prompts : Submit(r, p)
      PROVE  kv' = kv /\ misread' = misread
  BY <1>2 DEF AbortRequest, Submit, deviceVars
<1>3. CASE Plan \/ SkipEmpty \/ Publish
  BY <1>3 DEF Plan, SkipEmpty, Publish, deviceVars
<1>4. CASE HarvestStop
  BY <1>4 DEF HarvestStop, deviceVars
<1>5. ASSUME NEW tok \in Generated, HarvestToken(tok) PROVE kv' = kv /\ misread' = misread
  BY <1>5 DEF HarvestToken, deviceVars
<1>6. CASE Poll
  BY <1>1, <1>6 DEF Poll
<1> QED
  BY <1>1, <1>2, <1>3, <1>4, <1>5, <1>6 DEF Next, EngineStep

\* Every step keeps the device in order.
LEMMA NextDevice ==
  ASSUME GridsAreClean, IInv, BlockInv, Progress, Stock, Device, [Next]_vars
  PROVE  Device'
<1>1. Tables'
  BY NextTables DEF Device
<1>2. CASE Execute
  <2>1. DOMAIN kv' = Rows /\ RowsHold(cache, Sequences, Computed', kv') /\ ~misread'
    BY <1>2, ExecuteRows DEF Device
  <2>2. cache' = cache /\ Sequences' = Sequences
    <3>1. cache' = cache /\ prompt' = prompt /\ output' = output
      <4>1. RunPasses
        BY <1>2 DEF Execute
      <4>2. UNCHANGED <<reqVars, queueVars, cursor, current, prefill, decode, preempted, sent, delivered, asked>>
        BY <4>1, Zenon DEF RunPasses
      <4>3. UNCHANGED reqVars
        BY <4>2
      <4>4. UNCHANGED queueVars
        BY <4>2
      <4> QED
        BY <4>3, <4>4 DEF reqVars, queueVars
    <3> QED
      BY <3>1 DEF Sequences, Sequence
  <2> QED
    BY <1>1, <2>1, <2>2 DEF Device
<1>3. CASE ~Execute
  <2>1. kv' = kv /\ misread' = misread
    BY <1>3, RowsAtRest
  <2>2. RowsHold(cache', Sequences', Computed', kv)
    BY <1>3, NextStock DEF Undisturbed, Device
  <2> QED
    BY <1>1, <2>1, <2>2 DEF Device
<1> QED
  BY <1>2, <1>3

\* The engine's state, on both sides, is in order.
Sound == IInv /\ BlockInv /\ Progress /\ Stock /\ Device

\* A new engine is sound.
LEMMA InitSound == Init => Sound
BY InitIInv, InitBlocks, InitProgress, InitStock, InitDevice DEF Sound

\* Every step of clean grids keeps it so.
LEMMA NextSound == Sound /\ GridsAreClean /\ [Next]_vars => Sound'
<1> SUFFICES ASSUME Sound, GridsAreClean, [Next]_vars PROVE Sound'
  OBVIOUS
<1>1. IInv /\ BlockInv /\ Progress /\ Stock /\ Device
  BY DEF Sound
<1>2. IInv' /\ BlockInv' /\ Progress' /\ Stock'
  BY <1>1, NextIInv, NextBlocks, NextProgress, NextStock
<1>3. Device'
  BY <1>1, NextDevice
<1> QED
  BY <1>2, <1>3 DEF Sound

\* A block in the index holds the K/V of the prefix it is indexed under, whatever
\* the configuration, as long as no grid (slot_batch.py) pads a chunk into a
\* block its table has forgotten or reads a run of rows that is not the table's.
THEOREM CleanGridsKeepTheCache == Spec /\ []GridsAreClean => []CachedRowsAreWritten
<1>1. Sound => CachedRowsAreWritten
  BY Zenon DEF Sound, Device, RowsHold, Carries, CachedRowsAreWritten
<1> QED
  BY <1>1, InitSound, NextSound, PTL DEF Spec

\* As long as the grids are clean no row of a pass attends over K/V that is not
\* the one of its own prefix: admission, sharing, eviction, table writes told
\* once, preemption and slot reuse never mislead it.
THEOREM CleanGridsMisleadNobody == Spec /\ []GridsAreClean => []AttendsOwnPrefix
<1>1. Sound => AttendsOwnPrefix
  BY DEF Sound, Device, AttendsOwnPrefix
<1> QED
  BY <1>1, InitSound, NextSound, PTL DEF Spec

-----------------------------------------------------------------------------
(***************************************************************************)
(* The token budget.  The grid of a plan is priced when its last chunk is  *)
(* added; that the chunks resumed by a later plan fit as well takes that   *)
(* nobody in mid-prefill is left out when admission prices.                *)
(***************************************************************************)
\* The bookkeeping of both sides, whatever the rows hold.
Mapped == IInv /\ BlockInv /\ Progress /\ Stock /\ Tables /\ Short

LEMMA InitMapped == Init => Mapped
BY InitIInv, InitBlocks, InitProgress, InitStock, InitTables, InitShort DEF Mapped

LEMMA NextMapped == Mapped /\ [Next]_vars => Mapped'
BY NextIInv, NextBlocks, NextProgress, NextStock, NextTables, NextShort DEF Mapped

\* The running requests whose prompts are not computed.
Midway == {r \in Requests : status[r] = "running" /\ num_computed[r] < Len(prompt[r])}

\* Admission prices with everybody in mid-prefill on the plan.
NobodyPassedOver == pc = "admit" => Midway \subseteq Granted

\* Who is in mid-prefill has been granted a chunk.
LEMMA NextMidway ==
  ASSUME Mapped, [Next]_vars
  PROVE  IF ResumeGrant \/ AdmitGrant THEN \E r, n : GrantsTo(r, n) /\ Midway' \subseteq Midway \cup {r}
                                           /\ (ResumeGrant => r \in Midway)
                                      ELSE Midway' \subseteq Midway
<1>0. /\ status \in [Requests -> {"new", "waiting", "running", "finished"}]
      /\ \A r \in Requests : num_computed[r] \in Int
  BY DEF Mapped, IInv, Places, Fields, BlockInv, Asks
<1>1. CASE ResumeGrant \/ AdmitGrant
  <2>1. PICK r, n : GrantsTo(r, n)
    BY <1>1, GrantsOne DEF Mapped
  <2>2. Midway' \subseteq Midway \cup {r}
    BY <2>1 DEF GrantsTo, Midway, Mapped, BlockInv, Asks
  <2>3. ResumeGrant => r \in Midway
    <3>1. ResumeGrant => ~AdmitGrant
      BY DEF ResumeGrant, AdmitGrant, Admissible
    <3> QED
      BY <2>1, <3>1 DEF GrantsTo, Midway
  <2> QED
    BY <1>1, <2>1, <2>2, <2>3
<1>2. ASSUME \A q \in Requests : status'[q] = "running" =>
               status[q] = "running" /\ prompt'[q] = prompt[q] /\ num_computed'[q] = num_computed[q]
      PROVE  Midway' \subseteq Midway
  BY <1>2 DEF Midway
<1>3. ASSUME UNCHANGED reqVars PROVE Midway' \subseteq Midway
  BY <1>2, <1>3 DEF reqVars
<1>4. ASSUME NEW c, NEW v, Preempt(c, v) PROVE Midway' \subseteq Midway
  BY <1>0, <1>2, <1>4 DEF Preempt, Mapped, BlockInv, Asks, IInv, Places, Fields
<1>5. ASSUME ~ResumeGrant, ~AdmitGrant PROVE Midway' \subseteq Midway
  <2>1. CASE UNCHANGED vars
    BY <1>3, <2>1 DEF vars, plannerVars
  <2>2. CASE Plan
    <3>1. BeginPlan \/ EndResume \/ AdmitStop \/ FormDecode \/ EndPlan => UNCHANGED reqVars
      BY DEF BeginPlan, EndResume, AdmitStop, FormDecode, EndPlan
    <3>2. ResumeStall \/ GrowGrant => Midway' \subseteq Midway
      BY <1>2 DEF ResumeStall, GrowGrant
    <3>3. ResumeEvict \/ AdmitEvict \/ GrowEvict => \E c, v : Preempt(c, v)
      BY DEF ResumeEvict, AdmitEvict, GrowEvict
    <3>4. AdmitRefuse => UNCHANGED reqVars \/ \E c, v : Preempt(c, v)
      BY DEF AdmitRefuse
    <3> QED
      BY <1>3, <1>4, <1>5, <2>2, <3>1, <3>2, <3>3, <3>4 DEF Plan, PlanStep
  <2>3. CASE SkipEmpty \/ Execute \/ Publish
    BY <1>3, <2>3 DEF SkipEmpty, Execute, RunPasses, Publish
  <2>4. ASSUME NEW r, NEW s, Finish(r, s), UNCHANGED <<prompt, num_computed>> PROVE Midway' \subseteq Midway
    BY <1>0, <1>2, <2>4 DEF Finish
  <2>5. CASE HarvestStop
    BY <2>4, <2>5 DEF HarvestStop, TakeStop
  <2>6. ASSUME NEW tok \in Generated, HarvestToken(tok) PROVE Midway' \subseteq Midway
    <3>1. UNCHANGED <<prompt, num_computed>> /\ ((\E r, s : Finish(r, s)) \/ status' = status)
      BY <2>6 DEF HarvestToken, TakeToken
    <3> QED
      BY <1>2, <2>4, <3>1
  <2>7. ASSUME NEW r \in Requests, AbortRequest(r) PROVE Midway' \subseteq Midway
    BY <2>4, <2>7 DEF AbortRequest, Abort
  <2>8. ASSUME NEW r \in Requests, NEW p \in Prompts, Submit(r, p) PROVE Midway' \subseteq Midway
    <3>1. /\ status' = [status EXCEPT ![r] = "waiting"] /\ num_computed' = num_computed
          /\ prompt' = [prompt EXCEPT ![r] = p]
      BY <2>8 DEF Submit, AddRequest
    <3>2. \A q \in Requests : status'[q] = "running" => q # r /\ status[q] = "running" /\ prompt'[q] = prompt[q]
      BY <1>0, <3>1 DEF Mapped, IInv, Places, Fields
    <3> QED
      BY <1>2, <3>1, <3>2
  <2>9. CASE Poll
    BY <2>1, <2>9 DEF Poll
  <2> QED
    BY <2>1, <2>2, <2>3, <2>5, <2>6, <2>7, <2>8, <2>9 DEF Next, EngineStep
<1> QED
  BY <1>1, <1>5

\* The widest chunk of a prompt that goes on.
Widest == Smaller(MaxChunkSize, MaxNumBatchedTokens)

\* Whom this plan resumes or the next one will.
Awaiting == Midway \cup (IF pc = "resume" THEN Granted ELSE {})

\* Their widest chunks fit one plan.
Affordable(S) == Cardinality(S) * Widest <= MaxNumBatchedTokens

\* Every chunk fits the budget over the whole grid, the chunks to come fit
\* together, and whoever an eviction made room for was priced before it.
Budgeted ==
  /\ MaxChunkSize = 0 => Midway = {}
  /\ Affordable(Awaiting)
  /\ Planning => \A e \in Elements(prefill) : e[2] * Len(prefill) <= MaxNumBatchedTokens
  /\ pc = "admit" /\ current # NoRequest => prefill = <<>> \/ ~OverBudget(current)

\* It is a number of tokens, within the budget.
LEMMA WidestIsNat == Widest \in Nat /\ MaxNumBatchedTokens \in Nat /\ Widest <= MaxNumBatchedTokens
BY PlannerAssumption DEF Widest, Smaller

\* What fits n requests fits any of them.
LEMMA FewerAffordable ==
  ASSUME NEW n \in Nat, n * Widest <= MaxNumBatchedTokens, NEW S, IsFiniteSet(S), Cardinality(S) <= n,
         NEW T, T \subseteq S
  PROVE  Affordable(T)
<1> DEFINE k == Cardinality(T)
<1>1. k \in Nat /\ k <= n
  BY FS_Subset, FS_CardinalityType
<1> HIDE DEF k
<1>2. k * Widest <= n * Widest /\ k * Widest \in Nat /\ n * Widest \in Nat
  BY <1>1, WidestIsNat, ProductGrows
<1> DEFINE x == k * Widest
           y == n * Widest
<1> HIDE DEF x, y
<1>3. x <= MaxNumBatchedTokens
  BY <1>2, WidestIsNat DEF x, y
<1> QED
  BY <1>3 DEF Affordable, k, x

\* A chunk is within the budget, longest from the start of a prompt, and the
\* widest there is unless it completes the prompt.
LEMMA ChunkShape ==
  ASSUME Fields, NEW r \in Requests, NEW k \in Nat, k < Len(prompt[r]), Len(prompt[r]) <= MaxSeqLen
  PROVE  /\ ChunkOf(r, k) \in Nat \ {0} /\ ChunkOf(r, k) <= MaxNumBatchedTokens
         /\ ChunkOf(r, 0) \in Nat \ {0} /\ ChunkOf(r, k) <= ChunkOf(r, 0)
         /\ k + ChunkOf(r, k) < Len(prompt[r]) => MaxChunkSize # 0 /\ ChunkOf(r, k) = Widest
<1> DEFINE n == Len(prompt[r])
           S(j) == {n - j, MaxChunkSize, MaxNumBatchedTokens}
<1>1. /\ n \in Nat /\ MaxChunkSize \in Nat /\ MaxNumBatchedTokens \in Nat \ {0} /\ MaxSeqLen \in Nat
      /\ MaxChunkSize = 0 => MaxNumBatchedTokens >= MaxSeqLen
      /\ k < n /\ n <= MaxSeqLen
  BY PlannerAssumption DEF Fields
<1>2. \A j : ChunkOf(r, j) = IF MaxChunkSize = 0 THEN n - j ELSE Min(S(j))
  BY Zenon DEF ChunkOf
<1> HIDE DEF n
<1>3. CASE MaxChunkSize = 0
  <2>1. ChunkOf(r, k) = n - k /\ ChunkOf(r, 0) = n - 0
    BY <1>2, <1>3
  <2>2. /\ n - k \in Nat \ {0} /\ n - k <= MaxNumBatchedTokens /\ n - 0 \in Nat \ {0} /\ n - k <= n - 0
        /\ k + (n - k) = n
    BY <1>1, <1>3
  <2> QED
    BY <1>1, <2>1, <2>2 DEF n
<1>4. CASE MaxChunkSize # 0
  <2>1. ASSUME NEW j \in Nat, j < n
        PROVE  /\ Min(S(j)) \in Nat \ {0} /\ Min(S(j)) <= MaxNumBatchedTokens /\ Min(S(j)) <= Widest
               /\ Min(S(j)) <= n - j /\ (Min(S(j)) = n - j \/ Min(S(j)) = Widest)
    <3>1. S(j) \subseteq Nat /\ S(j) # {}
      BY <1>1, <2>1
    <3>2. Min(S(j)) \in S(j) /\ \A y \in S(j) : Min(S(j)) <= y
      BY <3>1, MinIsLeast
    <3> DEFINE m == Min(S(j))
    <3>3. m \in {n - j, MaxChunkSize, MaxNumBatchedTokens} /\ m <= n - j /\ m <= MaxChunkSize /\ m <= MaxNumBatchedTokens
      BY <3>2
    <3> HIDE DEF m
    <3>4. m \in Nat \ {0} /\ m <= Widest /\ (m = n - j \/ m = Widest)
      BY <1>1, <1>4, <2>1, <3>3 DEF Widest, Smaller
    <3> QED
      BY <3>3, <3>4 DEF m
  <2> HIDE DEF S
  <2> DEFINE a == Min(S(k))
             b == Min(S(0))
  <2>2. /\ a \in Nat \ {0} /\ a <= MaxNumBatchedTokens /\ a <= Widest /\ a <= n - k /\ (a = n - k \/ a = Widest)
        /\ b \in Nat \ {0} /\ (b = n - 0 \/ b = Widest)
    <3>1. k \in Nat /\ k < n /\ 0 \in Nat /\ 0 < n
      BY <1>1
    <3> QED
      BY <2>1, <3>1, Zenon
  <2>3. ChunkOf(r, k) = a /\ ChunkOf(r, 0) = b
    BY <1>2, <1>4
  <2> HIDE DEF a, b
  <2>4. a <= b /\ (k + a < n => a = Widest)
    BY <1>1, <2>2, WidestIsNat
  <2> QED
    BY <1>4, <2>2, <2>3, <2>4 DEF n
<1> QED
  BY <1>3, <1>4 DEF n

\* Longest is the length of the longest chunk.
LEMMA LongestIs ==
  ASSUME Mapped, Budgeted, Planning, prefill # <<>>
  PROVE  /\ Longest \in Nat /\ Len(prefill) \in Nat \ {0}
         /\ \E e \in Elements(prefill) : e[2] = Longest
         /\ \A e \in Elements(prefill) : e[2] \in Nat /\ e[2] <= Longest
<1> DEFINE S == {prefill[i][2] : i \in 1 .. Len(prefill)}
<1>1. /\ \A e \in Elements(prefill) : e[2] \in Nat \ {0} /\ e[2] * Len(prefill) <= MaxNumBatchedTokens
      /\ prefill \in Seq(Elements(prefill))
  BY DEF Mapped, Progress, Chunks, Budgeted, IInv, PlanInv, Grants, Planning, ListOf
<1>2. Len(prefill) \in Nat \ {0} /\ \A i \in 1 .. Len(prefill) : prefill[i] \in Elements(prefill)
  <2>1. Len(prefill) \in Nat \ {0}
    BY <1>1
  <2> QED
    BY <2>1, Zenon DEF Elements
<1>3. \A e \in Elements(prefill) : e[2] \in 0 .. MaxNumBatchedTokens
  <2> SUFFICES ASSUME NEW e \in Elements(prefill) PROVE e[2] \in 0 .. MaxNumBatchedTokens
    OBVIOUS
  <2> DEFINE x == e[2]
             l == Len(prefill)
  <2>1. x \in Nat /\ l \in Nat \ {0} /\ x * l <= MaxNumBatchedTokens
    BY <1>1, <1>2
  <2> HIDE DEF x, l
  <2>2. x * 1 <= x * l /\ x * l \in Nat
    BY <2>1, ProductGrows
  <2>3. x <= MaxNumBatchedTokens
    <3> DEFINE y == x * l
    <3>1. x <= y /\ y <= MaxNumBatchedTokens /\ y \in Nat
      BY <2>1, <2>2
    <3> HIDE DEF y
    <3> QED
      BY <2>1, <3>1, WidestIsNat
  <2> QED
    BY <2>1, <2>3, WidestIsNat DEF x
<1>4. S \subseteq 0 .. MaxNumBatchedTokens /\ S # {}
  BY <1>2, <1>3
<1>5. Max(S) \in S /\ \A y \in S : Max(S) >= y
  BY <1>4, MaxIsGreatest, WidestIsNat
<1>6. Longest = Max(S)
  BY DEF Longest
<1>7. \A e \in Elements(prefill) : e[2] \in S
  BY Zenon DEF Elements
<1> DEFINE m == Max(S)
<1>8. m \in S /\ m \in Nat
  <2> HIDE DEF S
  <2>1. m \in S
    BY <1>5, Zenon
  <2> HIDE DEF m
  <2> QED
    BY <1>4, <2>1
<1>9. \E e \in Elements(prefill) : e[2] = m
  BY <1>2, <1>8
<1>10. \A e \in Elements(prefill) : e[2] \in Nat /\ e[2] <= m
  <2> SUFFICES ASSUME NEW e \in Elements(prefill) PROVE e[2] <= m
    BY <1>1
  <2>1. m >= e[2]
    BY <1>5, <1>7
  <2> HIDE DEF m
  <2> QED
    BY <1>1, <1>8, <2>1
<1> QED
  BY <1>2, <1>6, <1>8, <1>9, <1>10

\* One chunk for each granted request.
LEMMA Countable ==
  /\ IsFiniteSet(Midway)
  /\ Planning /\ Mapped => IsFiniteSet(Granted) /\ Cardinality(Granted) = Len(prefill) /\ Len(prefill) \in Nat
<1>1. Midway \subseteq Requests /\ IsFiniteSet(Requests)
  BY CacheAssumption DEF Midway
<1>2. ASSUME Planning, Mapped
      PROVE  IsFiniteSet(Granted) /\ Cardinality(Granted) = Len(prefill) /\ Len(prefill) \in Nat
  <2>1. ListOf(prefill, Elements(prefill)) /\ (\A d, e \in Elements(prefill) : d[1] = e[1] => d = e) /\ Granted \subseteq Requests
    BY <1>2 DEF Mapped, IInv, PlanInv, Grants, Planning, InState
  <2>2. Len(prefill) \in Nat /\ Cardinality(Granted) = Len(prefill)
    BY <2>1, FirstsCount, Zenon DEF Granted
  <2> QED
    BY <1>1, <2>1, <2>2, FS_Subset
<1> QED
  BY <1>1, <1>2, FS_Subset

\* A grant fits, and so do its successors.
LEMMA GrantBudget ==
  ASSUME NobodyPassedOver, Mapped, Mapped', Budgeted, ResumeGrant \/ AdmitGrant, [Next]_vars
  PROVE  Budgeted'
<1>1. PICK r, n : GrantsTo(r, n) /\ Midway' \subseteq Midway \cup {r} /\ (ResumeGrant => r \in Midway)
  BY NextMidway
<1> DEFINE k == ChunkOf(r, n)
<1>2. /\ r \in Requests /\ n \in Nat /\ n < Len(prompt[r]) /\ r \notin Granted
      /\ prefill' = Append(prefill, <<r, k>>) /\ Granted' = Granted \cup {r}
      /\ num_computed' = [num_computed EXCEPT ![r] = n + k] /\ prompt' = prompt /\ current' = NoRequest
  BY <1>1 DEF GrantsTo
<1>3. Fields /\ Allowances /\ Planning
  BY GrantsOne DEF Mapped, IInv, Places
<1>4. status[r] \in {"waiting", "running"}
  <2>1. ResumeGrant => status[r] = "running"
    BY <1>1 DEF Midway
  <2>2. AdmitGrant => r = Candidate /\ pc = "admit" /\ waiting # <<>>
    <3>1. AdmitGrant => pc = "admit" /\ waiting # <<>>
      BY DEF AdmitGrant, Admissible
    <3>2. ResumeGrant => pc = "resume"
      BY DEF ResumeGrant
    <3> QED
      BY <1>1, <3>1, <3>2 DEF GrantsTo
  <2>3. AdmitGrant => status[r] = "waiting"
    BY <2>2, CandidateWaits DEF Mapped, IInv, Places, PlanInv, InState
  <2> QED
    BY <2>1, <2>3
<1>5. Len(prompt[r]) <= MaxSeqLen /\ Len(prompt[r]) \in Nat
  <2> DEFINE p == Len(prompt[r])
             o == Len(output[r])
  <2>1. SeqLen(r) < MaxSeqLen /\ SeqLen(r) = p + o /\ p \in Nat /\ o \in Nat
    BY <1>2, <1>3, <1>4, WithinWindow, Lengths
  <2> HIDE DEF p, o
  <2>2. p <= MaxSeqLen
    BY <2>1, PlannerAssumption
  <2> QED
    BY <2>1, <2>2 DEF p
<1>6. /\ k \in Nat \ {0} /\ k <= MaxNumBatchedTokens /\ ChunkOf(r, 0) \in Nat \ {0} /\ k <= ChunkOf(r, 0)
      /\ n + k < Len(prompt[r]) => MaxChunkSize # 0 /\ k = Widest
  BY <1>2, <1>3, <1>5, ChunkShape
<1> HIDE DEF k
<1>7. r \in Midway' => MaxChunkSize # 0 /\ k = Widest
  <2>1. num_computed'[r] = n + k
    BY <1>2 DEF Mapped, BlockInv, Asks
  <2> QED
    BY <1>2, <1>6, <2>1 DEF Midway
<1>8. MaxChunkSize = 0 => Midway' = {}
  BY <1>1, <1>7 DEF Budgeted
<1> DEFINE l == Len(prefill)
<1>9. /\ IsFiniteSet(Granted) /\ Cardinality(Granted) = l /\ l \in Nat /\ prefill \in Seq(Elements(prefill))
      /\ IsFiniteSet(Granted') /\ Cardinality(Granted') = l + 1 /\ Len(prefill') = l + 1
  <2>1. prefill \in Seq(Elements(prefill))
    BY <1>3 DEF Mapped, IInv, PlanInv, Grants, Planning, ListOf
  <2>2. IsFiniteSet(Granted) /\ Cardinality(Granted) = l /\ l \in Nat
    BY <1>3, Countable
  <2>3. IsFiniteSet(Granted') /\ Cardinality(Granted') = l + 1
    BY <1>2, <2>2, FS_AddElement
  <2>4. Len(Append(prefill, <<r, k>>)) = l + 1
    BY <2>1
  <2> QED
    BY <1>2, <2>1, <2>2, <2>3, <2>4
<1>10. \A e \in Elements(prefill') : e \in Elements(prefill) \/ e = <<r, k>>
  BY <1>2, <1>9, AppendElements
<1>11. \A e \in Elements(prefill) : e[2] \in Nat
  BY <1>3 DEF Mapped, Progress, Chunks
<1> HIDE DEF l
<1>12. CASE ResumeGrant
  <2>1. MaxChunkSize # 0 /\ pc = "resume" /\ pc' = "resume" /\ r \in Midway
    BY <1>1, <1>12 DEF Budgeted, ResumeGrant
  <2>2. Awaiting' \subseteq Awaiting /\ Granted' \subseteq Awaiting /\ IsFiniteSet(Awaiting)
    <3>1. IsFiniteSet(Awaiting) /\ Awaiting = Midway \cup Granted /\ Awaiting' = Midway' \cup Granted'
      <4>1. IsFiniteSet(Requests) /\ Midway \subseteq Requests /\ Granted \subseteq Requests
        BY <2>1, CacheAssumption DEF Midway, Mapped, IInv, PlanInv, Grants, InState
      <4> QED
        BY <2>1, <4>1, FS_Subset DEF Awaiting
    <3> QED
      BY <1>1, <1>2, <2>1, <3>1
  <2> DEFINE a == Cardinality(Awaiting)
  <2>3. a \in Nat /\ a * Widest <= MaxNumBatchedTokens /\ l + 1 <= a
    <3>1. a \in Nat /\ Cardinality(Granted') <= a
      BY <2>2, FS_Subset, FS_CardinalityType
    <3> QED
      BY <1>9, <3>1 DEF Budgeted, Affordable
  <2>4. Affordable(Awaiting)'
    <3>1. a <= a
      BY <2>3
    <3>2. Affordable(Awaiting')
      BY <2>2, <2>3, <3>1, FewerAffordable
    <3> QED
      BY <3>2 DEF Affordable, Widest
  <2> HIDE DEF a
  <2>5. ASSUME NEW e \in Elements(prefill') PROVE e[2] * Len(prefill') <= MaxNumBatchedTokens
    <3>1. e[2] \in Nat /\ e[2] <= Widest
      <4>1. e[2] \in Nat
        BY <1>6, <1>10, <1>11
      <4>2. e[2] <= MaxChunkSize /\ e[2] <= MaxNumBatchedTokens
        BY <2>1, <2>5 DEF Mapped, Short, Planning
      <4> QED
        BY <4>1, <4>2, PlannerAssumption DEF Widest, Smaller
    <3> DEFINE x == e[2]
               y == x * (l + 1)
               z == Widest * a
    <3> HIDE DEF x
    <3>2. y \in Nat /\ y <= z
      BY <1>9, <2>3, <3>1, WidestIsNat, ProductGrows DEF x
    <3>3. z = a * Widest
      BY <2>3, WidestIsNat
    <3> HIDE DEF y, z
    <3>4. y <= MaxNumBatchedTokens
      <4>1. z <= MaxNumBatchedTokens /\ z \in Int
        <5>1. z = Widest * a
          BY DEF z
        <5> QED
          BY <2>3, <3>3, <5>1, WidestIsNat
      <4> QED
        BY <3>2, <4>1, WidestIsNat
    <3> QED
      BY <1>9, <3>4 DEF x, y
  <2> QED
    BY <1>2, <1>8, <2>1, <2>4, <2>5 DEF Budgeted
<1>13. CASE AdmitGrant
  <2>1. pc = "admit" /\ pc' # "resume" /\ r = Candidate /\ Midway \subseteq Granted /\ (current # NoRequest \/ ~Gated(r))
    <3>1. pc = "admit" /\ pc' # "resume" /\ (current # NoRequest \/ ~Gated(Candidate))
      BY <1>13 DEF AdmitGrant, Admissible
    <3>2. ~ResumeGrant
      BY <3>1 DEF ResumeGrant
    <3> QED
      BY <1>1, <3>1, <3>2 DEF GrantsTo, NobodyPassedOver
  <2>2. prefill = <<>> \/ ~OverBudget(r)
    <3>1. current # NoRequest => r = current /\ (prefill = <<>> \/ ~OverBudget(current))
      BY <2>1 DEF Candidate, Budgeted
    <3>2. ~Gated(r) => prefill = <<>> \/ ~OverBudget(r)
      BY DEF Gated
    <3> QED
      BY <2>1, <3>1, <3>2, Zenon
  <2>3. PICK x \in Nat : /\ k <= x /\ x * (l + 1) <= MaxNumBatchedTokens
                         /\ \A e \in Elements(prefill) : e[2] <= x
    <3>1. CASE prefill = <<>>
      <4>1. l = 0 /\ Elements(prefill) = {}
        BY <3>1 DEF l, Elements
      <4>2. k * (0 + 1) = k /\ k <= k
        BY <1>6
      <4> QED
        BY <1>6, <4>1, <4>2
    <3>2. CASE prefill # <<>>
      <4> DEFINE w == Larger(Longest, ChunkOf(r, 0))
      <4>1. Longest \in Nat /\ \A e \in Elements(prefill) : e[2] <= Longest
        BY <1>3, <3>2, LongestIs
      <4>2. w \in Nat /\ Longest <= w /\ k <= w
        BY <1>6, <4>1 DEF Larger
      <4>3. ~ (w * (l + 1) > MaxNumBatchedTokens)
        BY <2>2, <3>2 DEF OverBudget, l
      <4> HIDE DEF w
      <4>4. w * (l + 1) <= MaxNumBatchedTokens
        <5>1. w * (l + 1) \in Int
          BY <1>9, <4>2
        <5> DEFINE y == w * (l + 1)
        <5>2. y \in Int /\ ~ (y > MaxNumBatchedTokens)
          BY <4>3, <5>1
        <5> HIDE DEF y
        <5>3. y <= MaxNumBatchedTokens
          BY <5>2, WidestIsNat
        <5> QED
          BY <5>3 DEF y
      <4>5. \A e \in Elements(prefill) : e[2] <= w
        BY <1>11, <4>1, <4>2
      <4> QED
        BY <4>2, <4>4, <4>5
    <3> QED
      BY <3>1, <3>2
  <2>4. ASSUME NEW y \in Nat, y <= x PROVE y * (l + 1) <= MaxNumBatchedTokens
    <3> DEFINE u == y * (l + 1)
               v == x * (l + 1)
    <3>1. u \in Nat /\ u <= v /\ v \in Nat
      BY <1>9, <2>4, ProductGrows
    <3>2. v <= MaxNumBatchedTokens
      BY <2>3
    <3> HIDE DEF u, v
    <3>3. u <= MaxNumBatchedTokens
      BY <3>1, <3>2, WidestIsNat
    <3> QED
      BY <3>3 DEF u
  <2>5. ASSUME NEW e \in Elements(prefill') PROVE e[2] * Len(prefill') <= MaxNumBatchedTokens
    <3>1. e[2] \in Nat /\ e[2] <= x
      BY <1>6, <1>10, <1>11, <2>3
    <3> QED
      BY <1>9, <2>4, <3>1
  <2>6. Affordable(Awaiting)'
    <3>1. Awaiting' = Midway'
      BY <2>1 DEF Awaiting
    <3>2. CASE r \in Midway'
      <4>1. k * (l + 1) <= MaxNumBatchedTokens /\ k = Widest
        BY <1>6, <1>7, <2>3, <2>4, <3>2
      <4>2. (l + 1) * Widest <= MaxNumBatchedTokens
        <5>1. (l + 1) * Widest = Widest * (l + 1)
          BY <1>9, WidestIsNat
        <5> QED
          BY <4>1, <5>1
      <4>3. Midway' \subseteq Granted' /\ l + 1 \in Nat /\ l + 1 <= l + 1
        BY <1>1, <1>2, <1>9, <2>1
      <4>4. Affordable(Midway')
        BY <1>9, <4>2, <4>3, FewerAffordable
      <4> QED
        BY <3>1, <4>4 DEF Affordable, Widest
    <3>3. CASE r \notin Midway'
      <4> DEFINE a == Cardinality(Midway)
      <4>1. Midway' \subseteq Midway /\ Awaiting = Midway
        BY <1>1, <2>1, <3>3 DEF Awaiting
      <4>2. a \in Nat /\ a <= a /\ a * Widest <= MaxNumBatchedTokens
        <5>1. a \in Nat
          BY Countable, FS_CardinalityType
        <5> QED
          BY <4>1, <5>1 DEF Budgeted, Affordable
      <4>3. Affordable(Midway')
        BY <4>1, <4>2, Countable, FewerAffordable
      <4> QED
        BY <3>1, <4>3 DEF Affordable, Widest
    <3> QED
      BY <3>2, <3>3
  <2> QED
    BY <1>2, <1>8, <2>5, <2>6 DEF Budgeted
<1> QED
  BY <1>12, <1>13

\* The other steps grant nothing and leave nobody new in mid-prefill.
LEMMA NextBudget == NobodyPassedOver /\ Mapped /\ Budgeted /\ [Next]_vars => Budgeted'
<1> SUFFICES ASSUME NobodyPassedOver, Mapped, Budgeted, [Next]_vars PROVE Budgeted'
  OBVIOUS
<1>0. Mapped'
  BY NextMapped
<1>1. CASE ResumeGrant \/ AdmitGrant
  BY <1>0, <1>1, GrantBudget
<1>2. CASE ~ResumeGrant /\ ~AdmitGrant
  <2>1. Midway' \subseteq Midway
    BY <1>2, NextMidway
  <2>2. Awaiting' \subseteq Awaiting
    <3>1. prefill' = <<>> => Granted' = {}
      BY DEF Granted
    <3>2. prefill' = prefill => Granted' = Granted
      BY DEF Granted
    <3>3. ~Planning' => pc' # "resume"
      BY DEF Planning
    <3> QED
      BY <1>2, <2>1, <3>1, <3>2, <3>3, NextChunks DEF Awaiting
  <2>3. Affordable(Awaiting)'
    <3> DEFINE a == Cardinality(Awaiting)
    <3>1. IsFiniteSet(Awaiting)
      <4>1. pc = "resume" => Planning
        BY DEF Planning
      <4>2. pc = "resume" => Granted \subseteq Requests
        BY DEF Mapped, IInv, PlanInv, Grants, InState
      <4>3. Awaiting \subseteq Requests
        BY <4>2 DEF Awaiting, Midway
      <4> QED
        BY <4>3, CacheAssumption, FS_Subset
    <3>2. a \in Nat /\ a <= a /\ a * Widest <= MaxNumBatchedTokens
      BY <3>1, FS_CardinalityType DEF Budgeted, Affordable
    <3>3. Affordable(Awaiting')
      BY <2>2, <3>1, <3>2, FewerAffordable
    <3> QED
      BY <3>3 DEF Affordable, Widest
  <2>4. Planning' => \A e \in Elements(prefill') : e[2] * Len(prefill') <= MaxNumBatchedTokens
    <3>1. prefill' = <<>> => Elements(prefill') = {}
      BY DEF Elements
    <3>2. prefill' = prefill => Elements(prefill') = Elements(prefill)
      BY DEF Elements
    <3> QED
      BY <1>2, <3>1, <3>2, NextChunks DEF Budgeted
  <2>5. pc' = "admit" /\ current' # NoRequest => prefill' = <<>> \/ ~OverBudget(current)'
    <3> SUFFICES ASSUME pc' = "admit", current' # NoRequest PROVE prefill' = <<>> \/ ~OverBudget(current)'
      OBVIOUS
    <3>1. CASE AdmitEvict
      <4>1. PICK r : r = Candidate
        OBVIOUS
      <4>2. /\ pc = "admit" /\ waiting # <<>> /\ current' = r /\ prefill' = prefill /\ (prefill = <<>> \/ ~OverBudget(r))
            /\ PolicyVictim # NoRequest /\ prompt' = [prompt EXCEPT ![PolicyVictim] = @ \o output[PolicyVictim]]
        BY <3>1, <4>1 DEF AdmitEvict, Preempt, Gated
      <4>3. r # PolicyVictim
        <5>1. status[r] = "waiting"
          BY <4>1, <4>2, CandidateWaits DEF Mapped, IInv, Places, PlanInv, InState
        <5>2. status[PolicyVictim] = "running"
          BY <4>2, VictimRuns DEF PolicyVictim, Mapped, IInv, Places, InState
        <5> QED
          BY <5>1, <5>2
      <4>4. prompt'[r] = prompt[r]
        <5>1. r \in Requests
          BY <4>1, <4>2, CandidateWaits DEF Mapped, IInv, Places, PlanInv, InState
        <5> QED
          BY <4>2, <4>3, <5>1 DEF Mapped, IInv, Places, Fields
      <4>5. OverBudget(current)' <=> OverBudget(r)
        BY <4>2, <4>4 DEF OverBudget, Longest, ChunkOf
      <4> QED
        BY <4>2, <4>5
    <3>2. CASE ~AdmitEvict
      <4>1. UNCHANGED vars \/ Poll
        <5>1. ASSUME Plan PROVE FALSE
          <6>1. ~EndResume
            BY DEF EndResume
          <6> QED
            BY <1>2, <3>2, <5>1, <6>1 DEF Plan, PlanStep, BeginPlan, ResumeEvict, ResumeStall, AdmitStop, AdmitRefuse,
              FormDecode, GrowGrant, GrowEvict, EndPlan
        <5>2. ~(SkipEmpty \/ Execute \/ Publish)
          BY DEF SkipEmpty, Execute, RunPasses, Publish, EndStep
        <5>3. ~HarvestStop /\ \A tok \in Generated : ~HarvestToken(tok)
          BY DEF HarvestStop, HarvestToken, planVars
        <5>4. ~(\E r \in Requests, p \in Prompts : Submit(r, p)) /\ ~(\E r \in Requests : AbortRequest(r))
          BY DEF Submit, AddRequest, AbortRequest, Abort, planVars
        <5> QED
          BY <5>1, <5>2, <5>3, <5>4 DEF Next, EngineStep
      <4>2. pc' = pc /\ current' = current /\ prefill' = prefill /\ prompt' = prompt
        BY <4>1 DEF Poll, vars, plannerVars, planVars, reqVars
      <4>3. OverBudget(current)' <=> OverBudget(current)
        BY <4>2 DEF OverBudget, Longest, ChunkOf
      <4> QED
        BY <4>2, <4>3 DEF Budgeted
    <3> QED
      BY <3>1, <3>2
  <2> QED
    BY <2>1, <2>3, <2>4, <2>5 DEF Budgeted
<1> QED
  BY <1>1, <1>2

LEMMA InitBudget == Init => Budgeted
<1> SUFFICES ASSUME Init PROVE Budgeted
  OBVIOUS
<1>1. pc = "idle" /\ \A r \in Requests : status[r] = "new"
  BY DEF Init, PlannerInit
<1>2. Awaiting = {} /\ Midway = {}
  BY <1>1 DEF Awaiting, Midway
<1>3. Affordable({})
  BY FS_EmptySet, WidestIsNat DEF Affordable
<1> QED
  BY <1>1, <1>2, <1>3 DEF Budgeted, Planning

LEMMA WithinFromBudget == Mapped /\ Budgeted => WithinTokenBudget
<1> SUFFICES ASSUME Mapped, Budgeted, pc = "execute" PROVE Longest * Len(prefill) <= MaxNumBatchedTokens
  BY DEF WithinTokenBudget
<1>1. Planning
  BY DEF Planning
<1>2. CASE prefill = <<>>
  <2>1. Longest = 0 /\ Len(prefill) = 0
    BY <1>2 DEF Longest
  <2> QED
    BY <2>1, WidestIsNat
<1>3. CASE prefill # <<>>
  BY <1>1, <1>3, LongestIs DEF Budgeted
<1> QED
  BY <1>2, <1>3

\* As long as admission prices with everybody in mid-prefill on the plan, no
\* plan's padded prefill rows exceed max_num_batched_tokens, though hits are
\* found and victims evicted after the pricing and chunks resumed without it.
THEOREM PricedPlansFitTheBudget == Spec /\ []NobodyPassedOver => []WithinTokenBudget
BY InitMapped, NextMapped, InitBudget, NextBudget, WithinFromBudget, PTL DEF Spec

-----------------------------------------------------------------------------
(* A pool that holds a full context for every slot. *)
FullPool == Cardinality(Slots) * Width <= Cardinality(Blocks)

\* There, whoever runs gets what it needs.
LEMMA FullPoolFits ==
  ASSUME FullPool, Mapped, NEW r \in InState("running"), NEW k \in Nat \ {0}, k <= MaxSeqLen
  PROVE  Fits(cache, r, k, <<>>)
<1> DEFINE n == Cardinality(Slots)
<1>1. n \in Nat /\ Slots = 1 .. n /\ NoSlot \notin 1 .. n /\ Width \in Nat /\ NumBlocksFor(k) <= Width /\ NumBlocksFor(k) \in Nat
  BY SlotsAreNumbered, WidthHolds, RowPlace
<1>2. r \in Requests /\ status[r] = "running" /\ InOrder(cache, Token) /\ n * Width <= Cardinality(Blocks)
  BY DEF InState, Mapped, BlockInv, FullPool
<1>3. /\ \A q \in Requests : status[q] = "running" => slot[q] \in 1 .. n
      /\ \A q, p \in Requests : slot[q] = slot[p] /\ slot[q] \in 1 .. n => q = p
      /\ \A q \in Requests : Len(cache.blocks[q]) <= Width /\ (cache.blocks[q] # <<>> => status[q] = "running")
  BY <1>1 DEF Mapped, IInv, Places, Seats, Tables, Mapping, BlockInv, Lent
<1> HIDE DEF n
<1>4. Width - Len(cache.blocks[r]) <= Len(cache.free)
  <2>1. slot[r] \in 1 .. n /\ \A q \in Requests : Len(cache.blocks[q]) <= Width /\ (cache.blocks[q] # <<>> => slot[q] \in 1 .. n)
    BY <1>2, <1>3, Zenon
  <2> QED
    BY <1>1, <1>2, <1>3, <2>1, RoomLeft, Zenon
<1>5. Len(cache.blocks[r]) \in Nat /\ Len(cache.free) \in Nat
  BY <1>2 DEF InOrder, Caches
<1> DEFINE h == Len(cache.blocks[r])
           f == Len(cache.free)
           b == NumBlocksFor(k)
<1>6. Needed(cache, r, k, <<>>) = Larger(b - h, 0) /\ Adopt(cache, r, <<>>) = cache
  BY DEF Needed, Adopt
<1> HIDE DEF h, f, b
<1>7. h \in Nat /\ f \in Nat /\ b \in Nat /\ Width - h <= f /\ b <= Width
  BY <1>1, <1>4, <1>5 DEF h, f, b
<1>8. Larger(b - h, 0) <= f
  BY <1>1, <1>7 DEF Larger
<1> QED
  BY <1>6, <1>8 DEF Fits, f

\* So neither a chunk nor a decode row is refused.
LEMMA NobodyRefused ==
  ASSUME FullPool, Mapped
  PROVE  ~ResumeEvict /\ ~ResumeStall /\ ~GrowEvict
<1>0. IInv /\ Fields /\ Allowances /\ Asks /\ Progress /\ Locals /\ Batch /\ MaxSeqLen \in Nat \ {0}
  BY PlannerAssumption DEF Mapped, IInv, Places, PlanInv, BlockInv
<1>1. ASSUME pc = "resume", current # NoRequest \/ ToResume # {}
      PROVE  Fits(cache, Resuming, ResumeReach(Resuming), <<>>)
  <2>0. PICK r : r = Resuming
    OBVIOUS
  <2>1. /\ r \in InState("running") /\ r \in Requests /\ num_computed[r] \in Nat /\ num_computed[r] < Len(prompt[r])
        /\ status[r] = "running"
    BY <1>0, <1>1, <2>0, ResumingUnfilled DEF InState
  <2> DEFINE n == num_computed[r]
             k == ChunkOf(r, n)
             p == Len(prompt[r])
             o == Len(output[r])
  <2>2. k \in Nat \ {0} /\ n + k <= p /\ p \in Nat /\ o \in Nat /\ p + o < MaxSeqLen
    <3>1. k \in Nat \ {0} /\ n + k <= p
      BY <1>0, <2>1, ChunkBounds
    <3>2. SeqLen(r) = p + o /\ SeqLen(r) < MaxSeqLen /\ p \in Nat /\ o \in Nat
      BY <1>0, <2>1, WithinWindow, Lengths
    <3> QED
      BY <3>1, <3>2
  <2>3. ResumeReach(r) = n + k /\ n \in Nat
    BY <2>1 DEF ResumeReach
  <2> HIDE DEF n, k, p, o
  <2>4. n + k \in Nat \ {0} /\ n + k <= MaxSeqLen
    BY <1>0, <2>2, <2>3
  <2> QED
    BY <2>0, <2>1, <2>3, <2>4, FullPoolFits
<1>2. ASSUME pc = "grow", ToGrow # {} PROVE Fits(cache, Growing, GrowReach(Growing), <<>>)
  <2>0. PICK r : r = Growing
    OBVIOUS
  <2>1. r \in InState("running") /\ r \in Requests
    BY <1>0, <1>2, <2>0, GrowingRuns DEF InState
  <2>2. SeqLen(r) \in Nat /\ pending_tokens[r] = 0
    BY <1>0, <2>1, Lengths DEF Progress, Counts, Counted
  <2>3. GrowReach(r) \in Nat \ {0} /\ GrowReach(r) <= MaxSeqLen
    BY <1>0, <2>2 DEF GrowReach, Smaller
  <2> QED
    BY <2>0, <2>1, <2>3, FullPoolFits
<1> QED
  BY <1>1, <1>2 DEF ResumeEvict, ResumeStall, GrowEvict

\* Nobody is evicted with the policy off, and nobody in mid-prefill is passed
\* over, neither by the walk of Stage 1 nor after it.
Unhindered ==
  /\ NothingEvicted /\ NobodyPassedOver
  /\ pc = "resume" => current = NoRequest /\ \A i \in 1 .. Len(running) :
       i < cursor => running[i] \notin Midway \/ running[i] \in Granted

LEMMA NextUnhindered == FullPool /\ Mapped /\ Unhindered /\ [Next]_vars => Unhindered'
<1> SUFFICES ASSUME FullPool, Mapped, Unhindered, [Next]_vars PROVE Unhindered'
  OBVIOUS
<1>0. ~ResumeEvict /\ ~ResumeStall /\ ~GrowEvict
  BY NobodyRefused
<1>1. ListOf(running, InState("running")) /\ cursor \in Nat \ {0} /\ \A q \in Requests : num_computed[q] \in Int /\ Len(prompt[q]) \in Nat
  BY DEF Mapped, IInv, Places, Queues, PlanInv, Locals, BlockInv, Asks, Fields
<1>2. CASE Plan
  <2>1. CASE ResumeGrant
    <3>1. /\ pc = "resume" /\ pc' = "resume" /\ current' = NoRequest /\ cursor' = AfterResume /\ running' = running
          /\ preempted' = preempted /\ ToResume # {} /\ current = NoRequest
      BY <2>1 DEF ResumeGrant, Unhindered
    <3>2. PICK r, n : GrantsTo(r, n) /\ Midway' \subseteq Midway \cup {r} /\ r \in Midway
      BY <2>1, NextMidway
    <3> DEFINE m == Min(ToResume)
    <3>3. cursor' = m + 1 /\ r = running[m]
      <4>1. ~AdmitGrant
        BY <3>1 DEF AdmitGrant, Admissible
      <4> QED
        BY <3>1, <3>2, <4>1 DEF GrantsTo, AfterResume, Resuming
    <3>4. m \in ToResume /\ \A i \in ToResume : m <= i
      <4>1. ToResume \subseteq Nat
        BY <1>1 DEF ToResume
      <4> QED
        BY <3>1, <4>1, MinIsLeast
    <3> HIDE DEF m
    <3>5. ASSUME NEW i \in 1 .. Len(running), i < m + 1, running[i] \in Midway' PROVE running[i] \in Granted'
      <4>1. m \in Nat /\ Len(running) \in Nat
        BY <1>1, <3>4 DEF ToResume, ListOf
      <4>2. CASE i = m
        BY <3>2, <3>3, <4>2 DEF GrantsTo
      <4>3. CASE i # m
        <5>1. i < m
          BY <3>5, <4>1, <4>3
        <5>2. i \notin ToResume
          BY <3>4, <4>1, <5>1
        <5>3. running[i] \in Midway
          BY <3>2, <3>5
        <5>4. i < cursor
          BY <1>1, <5>2, <5>3 DEF ToResume, PrefillDone, Midway
        <5> QED
          BY <3>1, <3>2, <5>3, <5>4 DEF Unhindered, GrantsTo
      <4> QED
        BY <4>2, <4>3
    <3> QED
      BY <3>1, <3>3, <3>5 DEF Unhindered, NothingEvicted, NobodyPassedOver
  <2>2. CASE AdmitGrant
    <3>1. ~ResumeGrant /\ pc = "admit" /\ pc' # "resume" /\ preempted' = preempted
      BY <2>2 DEF ResumeGrant, AdmitGrant, Admissible
    <3>2. PICK r, n : GrantsTo(r, n) /\ Midway' \subseteq Midway \cup {r}
      BY <2>2, NextMidway
    <3> QED
      BY <3>1, <3>2 DEF Unhindered, NothingEvicted, NobodyPassedOver, GrantsTo
  <2>3. CASE EndResume
    <3>1. /\ pc = "resume" /\ pc' # "resume" /\ ToResume = {} /\ prefill' = prefill /\ preempted' = preempted
          /\ UNCHANGED reqVars
      BY <2>3 DEF EndResume
    <3>2. Midway' = Midway /\ Granted' = Granted
      BY <3>1 DEF reqVars, Midway, Granted
    <3>3. Midway \subseteq Granted
      <4> SUFFICES ASSUME NEW q \in Midway PROVE q \in Granted
        OBVIOUS
      <4>1. PICK i \in 1 .. Len(running) : running[i] = q
        <5>1. q \in InState("running")
          BY DEF Midway, InState
        <5>2. \A x \in InState("running") : \E i \in 1 .. Len(running) : running[i] = x
          BY <1>1, ListPlaces
        <5> QED
          BY <5>1, <5>2, Zenon
      <4>2. i < cursor
        BY <1>1, <3>1, <4>1 DEF ToResume, PrefillDone, Midway, ListOf
      <4> QED
        BY <3>1, <4>1, <4>2 DEF Unhindered
    <3> QED
      BY <3>1, <3>2, <3>3 DEF Unhindered, NothingEvicted, NobodyPassedOver
  <2>4. CASE AdmitEvict
    <3>1. pc = "admit" /\ pc' = "admit" /\ EnablePreemption /\ prefill' = prefill /\ ~ResumeGrant
      BY <2>4 DEF AdmitEvict, PolicyVictim, ResumeGrant
    <3>2. Granted' = Granted /\ ~AdmitGrant
      BY <2>4, <3>1 DEF Granted, AdmitEvict, AdmitGrant, Admissible
    <3>3. Midway' \subseteq Midway
      BY <3>1, <3>2, NextMidway
    <3> QED
      BY <3>1, <3>2, <3>3 DEF Unhindered, NothingEvicted, NobodyPassedOver
  <2>5. CASE BeginPlan
    <3>1. pc' = "resume" /\ cursor' = 1 /\ current' = NoRequest /\ preempted' = FALSE /\ running' = running
      BY <2>5 DEF BeginPlan
    <3> QED
      BY <3>1 DEF Unhindered, NothingEvicted, NobodyPassedOver
  <2>6. CASE AdmitStop \/ AdmitRefuse \/ FormDecode \/ GrowGrant \/ EndPlan
    <3>1. pc' \in {"batch", "grow", "execute"} /\ (preempted' = preempted \/ EnablePreemption)
      BY <2>6 DEF AdmitStop, AdmitRefuse, FormDecode, GrowGrant, EndPlan, PolicyVictim
    <3> QED
      BY <3>1 DEF Unhindered, NothingEvicted, NobodyPassedOver
  <2> QED
    BY <1>0, <1>2, <2>1, <2>2, <2>3, <2>4, <2>5, <2>6 DEF Plan, PlanStep
<1>3. ASSUME pc' \notin {"resume", "admit"}, preempted' = preempted \/ ~preempted' PROVE Unhindered'
  BY <1>3 DEF Unhindered, NothingEvicted, NobodyPassedOver
<1>4. CASE SkipEmpty \/ Execute \/ Publish
  <2>1. pc' \in {"idle", "harvest"} /\ (preempted' = preempted \/ ~preempted')
    BY <1>4 DEF SkipEmpty, Execute, RunPasses, Publish, EndStep
  <2> QED
    BY <1>3, <2>1
<1>5. ASSUME NEW tok \in Generated, HarvestToken(tok) PROVE Unhindered'
  BY <1>3, <1>5 DEF HarvestToken, planVars
<1>6. CASE HarvestStop
  BY <1>3, <1>6 DEF HarvestStop, planVars
<1>7. ASSUME NEW r \in Requests, AbortRequest(r) \/ \E p \in Prompts : Submit(r, p) PROVE Unhindered'
  BY <1>3, <1>7 DEF AbortRequest, Abort, Submit, AddRequest, planVars
<1>8. CASE UNCHANGED vars \/ Poll
  <2>1. UNCHANGED <<status, prompt, num_computed, running, pc, cursor, current, prefill, preempted>>
    BY <1>8 DEF Poll, vars, plannerVars, reqVars, queueVars, planVars
  <2>2. Midway' = Midway /\ Granted' = Granted
    BY <2>1 DEF Midway, Granted
  <2> QED
    BY <2>1, <2>2 DEF Unhindered, NothingEvicted, NobodyPassedOver
<1> QED
  BY <1>2, <1>4, <1>5, <1>6, <1>7, <1>8 DEF Next, EngineStep

LEMMA InitUnhindered == Init => Unhindered
BY DEF Init, PlannerInit, Unhindered, NothingEvicted, NobodyPassedOver

\* With a pool that holds a full context for every slot, eviction is the policy's
\* alone: with enable_preemption off nobody is ever evicted, whatever is shared.
THEOREM NothingEvictedTheorem == FullPool => (Spec => []NothingEvicted)
<1> SUFFICES ASSUME FullPool PROVE Spec => []NothingEvicted
  OBVIOUS
<1>1. Mapped /\ Unhindered /\ [Next]_vars => Unhindered'
  BY NextUnhindered
<1>2. Unhindered => NothingEvicted
  BY DEF Unhindered
<1> QED
  BY <1>1, <1>2, InitMapped, NextMapped, InitUnhindered, PTL DEF Spec

\* With such a pool, or with chunked prefill off, the token budget holds for
\* every plan.
THEOREM WithinTokenBudgetTheorem == FullPool \/ MaxChunkSize = 0 => (Spec => []WithinTokenBudget)
<1>1. ASSUME FullPool PROVE Spec => []WithinTokenBudget
  <2>1. Mapped /\ Unhindered /\ [Next]_vars => Unhindered'
    BY <1>1, NextUnhindered
  <2>2. Unhindered => NobodyPassedOver
    BY DEF Unhindered
  <2> QED
    BY <2>1, <2>2, InitMapped, NextMapped, InitUnhindered, PricedPlansFitTheBudget, PTL DEF Spec
<1>2. ASSUME MaxChunkSize = 0 PROVE Spec => []WithinTokenBudget
  <2>1. Budgeted => NobodyPassedOver
    BY <1>2 DEF Budgeted, NobodyPassedOver
  <2> QED
    BY <2>1, InitMapped, NextMapped, InitBudget, NextBudget, WithinFromBudget, PTL DEF Spec
<1> QED
  BY <1>1, <1>2
=============================================================================
