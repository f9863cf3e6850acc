-------------------------- MODULE Lockstep_proofs --------------------------
(***************************************************************************)
(* The replicas' collectives pair up, for every set of replicas, finite or *)
(* not, every schedule of plans, stops and arrivals, with the pipeline and *)
(* without.                                                                *)
(***************************************************************************)
EXTENDS Lockstep, TLAPS

\* What keeps the replicas together.  A round has four stretches, from one
\* collective to the next, and nobody is in another one than the rest: from the
\* end of a step to the exchange of activity, from the plan to the exchange of
\* counts, and the two halves of a forward.  A replica that has ended holds the
\* others up in whatever they call next.
Together(places) == \A r \in Replicas : pc[r] \in places \cup Ended

OneStretch ==
  \/ Together({"harvest", "poll", "active"})
  \/ Together({"plan", "count"})
  \/ Together({"tokens"})
  \/ Together({"experts"})

\* The inductive invariant behind SameCollective.
IInv ==
  /\ DOMAIN pc = Replicas /\ DOMAIN left = Replicas
  /\ pc = [r \in Replicas |-> pc[r]]
  /\ \A r, s \in Replicas : left[r] = left[s]
  /\ OneStretch

\* Before the first round everybody is at its poll.
LEMMA InitIInv == Init => IInv
BY DEF Init, IInv, OneStretch, Together

\* A replica that moves within its stretch, or ends, leaves the others where
\* they are.
LEMMA MoveIInv ==
  ASSUME IInv, UNCHANGED left, NEW r \in Replicas, NEW to, pc' = [pc EXCEPT ![r] = to],
         \/ to \in Ended
         \/ pc[r] \in {"harvest", "poll"} /\ to \in {"poll", "active"}
         \/ pc[r] = "plan" /\ to = "count"
  PROVE  IInv'
<1>1. /\ DOMAIN pc' = Replicas /\ pc' = [s \in Replicas |-> pc'[s]]
      /\ \A s \in Replicas : pc'[s] = IF s = r THEN to ELSE pc[s]
  BY DEF IInv
<1>2. OneStretch'
  BY <1>1 DEF IInv, OneStretch, Together, Ended
<1> QED BY <1>1, <1>2 DEF IInv

\* The controller does not touch the replicas' loops.
LEMMA ControllerIInv ==
  ASSUME IInv, SendAdd \/ SendAbort \/ Shutdown \/ Put \/ ParentDies
  PROVE  IInv'
<1>1. UNCHANGED <<pc, left>>
  BY DEF SendAdd, SendAbort, Shutdown, Put, ParentDies
<1> QED BY <1>1 DEF IInv, OneStretch, Together

LEMMA ReplicaIInv ==
  ASSUME IInv, NEW r \in Replicas, ReplicaStep(r)
  PROVE  IInv'
<1>1. CASE PollEmpty(r)
  BY <1>1, MoveIInv DEF PollEmpty
<1>2. CASE PollOrphaned(r)
  BY <1>2, MoveIInv DEF PollOrphaned, Ended
<1>3. CASE PollCommands(r)
  BY <1>3, MoveIInv DEF PollCommands
<1>4. CASE PlanPasses(r)
  <2>1. /\ pc[r] = "plan" /\ UNCHANGED left
        /\ pc' = [pc EXCEPT ![r] = "failed"] \/ pc' = [pc EXCEPT ![r] = "count"]
    BY <1>4 DEF PlanPasses, AfterPlan
  <2> QED BY <2>1, MoveIInv DEF Ended
<1>5. CASE Harvest(r)
  BY <1>5, MoveIInv DEF Harvest
<1>6. CASE ExchangeFails(r)
  BY <1>6, MoveIInv DEF ExchangeFails, Ended
<1> QED BY <1>1, <1>2, <1>3, <1>4, <1>5, <1>6 DEF ReplicaStep

\* An exchange sends everybody on to the same stretch, because it gives
\* everybody the same maximum.
LEMMA ExchangeIInv ==
  ASSUME IInv, Exchange
  PROVE  IInv'
<1> DEFINE top == Max({val[r] : r \in Replicas})
<1>1. PICK m : m = top
  OBVIOUS
<1>2. /\ pc' = [r \in Replicas |->
                  CASE pc[r] = "active" -> AfterActive(r, m)
                    [] pc[r] = "count"  -> IF (IF pc[r] = "count" THEN m ELSE left[r]) > 0
                                           THEN "tokens" ELSE "harvest"
                    [] pc[r] = "tokens" -> "experts"]
      /\ left' = [r \in Replicas |-> IF pc[r] = "count" THEN m ELSE left[r]]
  BY <1>1 DEF Exchange, Target
<1>3. \A r \in Replicas : pc[r] \in {"active", "count", "tokens"}
  BY DEF Exchange, Control
<1> HIDE DEF top
<1>4. CASE \A r \in Replicas : pc[r] = "active"
  <2>1. \A r \in Replicas : pc'[r] = AfterActive(r, m) /\ left'[r] = left[r]
    BY <1>2, <1>4
  <2>2. OneStretch'
    BY <2>1, <1>2 DEF OneStretch, Together, AfterActive, Ended
  <2> QED BY <1>2, <2>1, <2>2 DEF IInv
<1>5. CASE \A r \in Replicas : pc[r] = "count"
  <2>1. \A r \in Replicas : pc'[r] = (IF m > 0 THEN "tokens" ELSE "harvest") /\ left'[r] = m
    BY <1>2, <1>5
  <2>2. OneStretch'
    BY <2>1 DEF OneStretch, Together
  <2> QED BY <1>2, <2>1, <2>2 DEF IInv
<1>6. CASE \A r \in Replicas : pc[r] = "tokens"
  <2>1. \A r \in Replicas : pc'[r] = "experts" /\ left'[r] = left[r]
    BY <1>2, <1>6
  <2>2. OneStretch'
    BY <2>1 DEF OneStretch, Together
  <2> QED BY <1>2, <2>1, <2>2 DEF IInv
<1> QED
  BY <1>3, <1>4, <1>5, <1>6 DEF IInv, OneStretch, Together, Ended

\* A forward counts one down everywhere.
LEMMA ForwardIInv ==
  ASSUME IInv, Forward
  PROVE  IInv'
<1>1. /\ DOMAIN pc' = Replicas /\ DOMAIN left' = Replicas
      /\ pc' = [r \in Replicas |-> pc'[r]]
      /\ \A r \in Replicas : left'[r] = left[r] - 1
      /\ \A r \in Replicas : pc'[r] = IF left[r] > 1 THEN "tokens" ELSE "harvest"
  BY DEF Forward
<1>2. \A r, s \in Replicas : left[r] = left[s]
  BY DEF IInv
<1>3. \A r, s \in Replicas : left'[r] = left'[s] /\ pc'[r] = pc'[s]
  BY <1>1, <1>2
<1>4. OneStretch'
  BY <1>1, <1>3 DEF OneStretch, Together
<1> QED BY <1>1, <1>3, <1>4 DEF IInv

\* Whatever a step does, the replicas stay in one stretch of the round.
LEMMA NextIInv == IInv /\ [Next]_vars => IInv'
<1> SUFFICES ASSUME IInv, [Next]_vars PROVE IInv'
  OBVIOUS
<1>1. CASE SendAdd \/ SendAbort \/ Shutdown \/ Put \/ ParentDies
  BY <1>1, ControllerIInv
<1>2. CASE Exchange
  BY <1>2, ExchangeIInv
<1>3. CASE Forward
  BY <1>3, ForwardIInv
<1>4. ASSUME NEW r \in Replicas, ReplicaStep(r) PROVE IInv'
  BY <1>4, ReplicaIInv
<1>5. CASE UNCHANGED vars
  BY <1>5 DEF vars, IInv, OneStretch, Together
<1> QED BY <1>1, <1>2, <1>3, <1>4, <1>5 DEF Next

\* A collective of Scheduler.run_event_loop and _execute_lockstep always pairs
\* the same call on every replica, with the same number of forwards to go.
THEOREM SameCollectiveTheorem == Spec => []SameCollective
<1>1. IInv => SameCollective
  BY DEF IInv, OneStretch, Together, SameCollective, Collectives, Control, Ended
<1> QED
  BY <1>1, InitIInv, NextIInv, PTL DEF Spec
=============================================================================
