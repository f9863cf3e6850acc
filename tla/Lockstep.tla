------------------------------ MODULE Lockstep ------------------------------
(***************************************************************************)
(* Data-parallel attention: the replicas' event loops in lockstep          *)
(* (Scheduler.run_event_loop with enable_dp_attention).  Every round the   *)
(* replicas exchange whether anyone has work, then the largest number of   *)
(* passes, and run that many forwards, the missing ones as dummies.  These *)
(* two and the token counts of a forward travel over one control group,    *)
(* whose collectives pair up by order alone; the expert collectives of a   *)
(* forward have a group of their own.                                      *)
(*                                                                         *)
(* A replica's requests are abstracted to the steps of work they owe.      *)
(***************************************************************************)
EXTENDS Integers, Sequences, FiniteSets, FiniteSetsExt

CONSTANTS
  Replicas,
  Pipelined,     \* RAPID_LLM_PIPELINE, at depth one
  MayShutdown,   \* the controller may be shut down
  MayOrphan,     \* the parent process may die
  MaxAdds,       \* bound: requests sent
  MaxWork,       \* bound: steps a request owes
  MaxPasses,     \* bound: passes of one step
  MaxStalls      \* bound: empty plans of a replica with unfinished requests

ASSUME LockstepAssumption ==
  /\ Replicas # {} /\ Pipelined \in BOOLEAN
  /\ MayShutdown \in BOOLEAN /\ MayOrphan \in BOOLEAN
  /\ {MaxAdds, MaxWork, MaxPasses, MaxStalls} \subseteq Nat

VARIABLES
  outbox,        \* puts of the controller under way, as <<replica, command>>
  adds,          \* requests sent
  parent,        \* the controller's process: "open", "closed" or "gone"
  queue,         \* each replica's command queue
  pc, val,       \* where each replica is, and what it brings to a collective
  left,          \* forwards left of the round
  passes,        \* passes of its own in this step
  owed,          \* steps of work its requests owe
  inflight,      \* launched and unharvested steps
  stalls,        \* empty plans so far
  stopping

vars == <<outbox, adds, parent, queue, pc, val, left, passes, owed, inflight, stalls,
          stopping>>
ctlVars == <<outbox, adds, parent, queue>>

Control == {"active", "count", "tokens"}
Collectives == Control \cup {"experts"}
Ended == {"done", "failed"}

TypeOK ==
  /\ adds \in 0 .. MaxAdds /\ parent \in {"open", "closed", "gone"}
  /\ pc \in [Replicas -> {"poll", "plan", "harvest"} \cup Collectives \cup Ended]
  /\ left \in [Replicas -> 0 .. MaxPasses] /\ passes \in [Replicas -> 0 .. MaxPasses]
  /\ owed \in [Replicas -> 0 .. MaxAdds * MaxWork]
  /\ inflight \in [Replicas -> 0 .. 1] /\ stalls \in [Replicas -> 0 .. MaxStalls]
  /\ stopping \in [Replicas -> BOOLEAN]

Init ==
  /\ outbox = {} /\ adds = 0 /\ parent = "open"
  /\ queue = [r \in Replicas |-> <<>>]
  /\ pc = [r \in Replicas |-> "poll"] /\ val = [r \in Replicas |-> 0]
  /\ left = [r \in Replicas |-> 0] /\ passes = [r \in Replicas |-> 0]
  /\ owed = [r \in Replicas |-> 0] /\ inflight = [r \in Replicas |-> 0]
  /\ stalls = [r \in Replicas |-> 0]
  /\ stopping = [r \in Replicas |-> FALSE]

HasUnfinished(r) == owed[r] > 0 \/ inflight[r] > 0

-----------------------------------------------------------------------------
(* The controller. *)

Add(n) == [kind |-> "add", work |-> n]
Cmd(k) == [kind |-> k, work |-> 0]

\* A command for one replica wakes the others.
SendReplica(r, command) ==
  outbox' = {<<r, command>>} \cup {<<peer, Cmd("wake")>> : peer \in Replicas \ {r}}

SendAdd ==
  /\ parent = "open" /\ outbox = {} /\ adds < MaxAdds
  /\ \E r \in Replicas, work \in 1 .. MaxWork : SendReplica(r, Add(work))
  /\ adds' = adds + 1
  /\ UNCHANGED <<parent, queue, pc, val, left, passes, owed, inflight, stalls, stopping>>

\* Counted as a request sent, to bound the model.
SendAbort ==
  /\ parent = "open" /\ outbox = {} /\ adds < MaxAdds
  /\ \E r \in Replicas : SendReplica(r, Cmd("abort"))
  /\ adds' = adds + 1
  /\ UNCHANGED <<parent, queue, pc, val, left, passes, owed, inflight, stalls, stopping>>

\* ShutdownScheduler goes to every replica.
Shutdown ==
  /\ MayShutdown /\ parent = "open" /\ outbox = {}
  /\ outbox' = {<<r, Cmd("shutdown")>> : r \in Replicas}
  /\ parent' = "closed"
  /\ UNCHANGED <<adds, queue, pc, val, left, passes, owed, inflight, stalls, stopping>>

\* The queues are filled one after the other.
Put ==
  /\ parent # "gone"
  /\ \E m \in outbox :
       /\ outbox' = outbox \ {m}
       /\ queue' = [queue EXCEPT ![m[1]] = Append(@, m[2])]
  /\ UNCHANGED <<adds, parent, pc, val, left, passes, owed, inflight, stalls, stopping>>

ParentDies ==
  /\ MayOrphan /\ parent # "gone"
  /\ parent' = "gone" /\ outbox' = {}
  /\ UNCHANGED <<adds, queue, pc, val, left, passes, owed, inflight, stalls, stopping>>

-----------------------------------------------------------------------------
(* One replica's event loop. *)

\* Mutant: an orphaned replica is not noticed.
MutantNeverOrphaned(r) == FALSE

\* The queue is empty and getppid has changed.
Orphaned(r) == queue[r] = <<>> /\ parent = "gone"

\* No command: on to the round, unless the parent is gone.
PollEmpty(r) ==
  /\ pc[r] = "poll"
  /\ stopping[r] \/ queue[r] = <<>>
  /\ ~(~stopping[r] /\ Orphaned(r))
  /\ pc' = [pc EXCEPT ![r] = "active"]
  /\ val' = [val EXCEPT ![r] = IF HasUnfinished(r) THEN 1 ELSE 0]
  /\ UNCHANGED <<ctlVars, left, passes, owed, inflight, stalls, stopping>>

PollOrphaned(r) ==
  /\ pc[r] = "poll" /\ ~stopping[r] /\ Orphaned(r)
  /\ pc' = [pc EXCEPT ![r] = "done"]
  /\ UNCHANGED <<ctlVars, val, left, passes, owed, inflight, stalls, stopping>>

\* The commands up to a shutdown are applied; the rest stays in the queue.
\* An abort removes any part of the work.
PollCommands(r) ==
  /\ pc[r] = "poll" /\ ~stopping[r] /\ queue[r] # <<>>
  /\ LET stops == {i \in DOMAIN queue[r] : queue[r][i].kind = "shutdown"}
         read  == 1 .. (IF stops = {} THEN Len(queue[r]) ELSE Min(stops))
         work  == owed[r] + MapThenSumSet(LAMBDA i : queue[r][i].work, read)
         least == IF \E i \in read : queue[r][i].kind = "abort" THEN 0 ELSE work
     IN  /\ stopping' = [stopping EXCEPT ![r] = stops # {}]
         /\ queue' = [queue EXCEPT ![r] = SubSeq(@, Max(read) + 1, Len(@))]
         /\ \E w \in least .. work : owed' = [owed EXCEPT ![r] = w]
  /\ pc' = [pc EXCEPT ![r] = "active"]
  /\ val' = [val EXCEPT ![r] = IF owed'[r] > 0 \/ inflight[r] > 0 THEN 1 ELSE 0]
  /\ UNCHANGED <<outbox, adds, parent, left, passes, inflight, stalls>>

\* Where a step with n passes of its own goes: every replica takes part.
AfterPlan(r, n) == [pc EXCEPT ![r] = "count"]

\* plan(), and _execute_lockstep up to the exchange of the pass count.  The
\* pipelined step detaches the oldest step in flight first.
PlanPasses(r) ==
  /\ pc[r] = "plan"
  /\ \E n \in 0 .. MaxPasses :
       /\ n > 0 => owed[r] > 0
       /\ n = 0 /\ owed[r] > 0 => stalls[r] < MaxStalls
       /\ stalls' = [stalls EXCEPT ![r] = IF n = 0 /\ owed[r] > 0 THEN @ + 1 ELSE @]
       /\ passes' = [passes EXCEPT ![r] = n]
       /\ val' = [val EXCEPT ![r] = n]
       /\ IF Pipelined /\ n = 0 /\ inflight[r] = 0
          THEN pc' = [pc EXCEPT ![r] = "failed"] /\ UNCHANGED inflight
          ELSE /\ pc' = AfterPlan(r, n)
               /\ inflight' = [inflight EXCEPT ![r] = 0]
  /\ UNCHANGED <<ctlVars, left, owed, stopping>>

\* Mutant: a round in which some replica ran only dummies yields no tokens.
MutantDropMixed(r) ==
  IF \A s \in Replicas : passes[s] > 0 THEN owed[r] - 1 ELSE owed[r]

\* The work left once this replica's own passes are harvested.
OwedAfter(r) == IF passes[r] > 0 THEN owed[r] - 1 ELSE owed[r]

\* The step ends: the passes are harvested, or wait in flight.
Harvest(r) ==
  /\ pc[r] = "harvest"
  /\ owed' = [owed EXCEPT ![r] = OwedAfter(r)]
  /\ inflight' = [inflight EXCEPT ![r] = IF Pipelined /\ passes[r] > 0 THEN 1 ELSE @]
  /\ pc' = [pc EXCEPT ![r] = "poll"]
  /\ UNCHANGED <<ctlVars, val, left, passes, stalls, stopping>>

\* Where the exchange of activity sends a replica.
AfterActive(r, top) ==
  IF top > 0 THEN "plan" ELSE IF stopping[r] THEN "done" ELSE "poll"

\* Mutant: a replica stops after its own passes.
MutantOwnPasses(r, top) == passes[r]

\* The forwards a replica runs in this round, dummies included.
Target(r, top) == top

\* A control collective completes when every replica has called one.
Exchange ==
  /\ \A r \in Replicas : pc[r] \in Control
  /\ LET top == Max({val[r] : r \in Replicas})
         target(r) == IF pc[r] = "count" THEN Target(r, top) ELSE left[r]
     IN  /\ pc' = [r \in Replicas |->
              CASE pc[r] = "active" -> AfterActive(r, top)
                [] pc[r] = "count"  -> IF target(r) > 0 THEN "tokens" ELSE "harvest"
                [] pc[r] = "tokens" -> "experts"]
         /\ left' = [r \in Replicas |-> target(r)]
         /\ val' = [r \in Replicas |-> 1]
  /\ UNCHANGED <<ctlVars, passes, owed, inflight, stalls, stopping>>

\* The expert collectives of one forward.
Forward ==
  /\ \A r \in Replicas : pc[r] = "experts"
  /\ left' = [r \in Replicas |-> left[r] - 1]
  /\ pc' = [r \in Replicas |-> IF left[r] > 1 THEN "tokens" ELSE "harvest"]
  /\ UNCHANGED <<ctlVars, val, passes, owed, inflight, stalls, stopping>>

\* A peer has exited: its connections close and the collective raises.
ExchangeFails(r) ==
  /\ pc[r] \in Collectives
  /\ \E peer \in Replicas : pc[peer] \in Ended
  /\ pc' = [pc EXCEPT ![r] = "failed"]
  /\ UNCHANGED <<ctlVars, val, left, passes, owed, inflight, stalls, stopping>>

ReplicaStep(r) ==
  \/ PollEmpty(r) \/ PollOrphaned(r) \/ PollCommands(r) \/ PlanPasses(r) \/ Harvest(r)
  \/ ExchangeFails(r)

Next ==
  \/ SendAdd \/ SendAbort \/ Shutdown \/ Put \/ ParentDies
  \/ Exchange \/ Forward
  \/ \E r \in Replicas : ReplicaStep(r)

Spec == Init /\ [][Next]_vars

\* The processes run, puts complete, and a closed connection is noticed.
FairSpec ==
  /\ Spec
  /\ WF_vars(Put) /\ WF_vars(Exchange) /\ WF_vars(Forward)
  /\ \A r \in Replicas : WF_vars(ReplicaStep(r))

-----------------------------------------------------------------------------
\* Collectives carry no name, so replicas that disagree on which one they are
\* in read each other's numbers as something else or wait forever.  Whatever
\* the plans, the stops and the arrival order, a collective pairs the same
\* call everywhere, with the same number of forwards to go.
SameCollective ==
  (\A r \in Replicas : pc[r] \in Collectives) =>
     \A r, s \in Replicas : pc[r] = pc[s] /\ left[r] = left[s]

\* A closed or orphaned grid comes down: nobody waits in a collective forever.
GridEnds == parent # "open" ~> \A r \in Replicas : pc[r] \in Ended

\* While the grid is up the requests of one replica are served, whether or not
\* the others have any.
WorkIsServed == \A r \in Replicas : owed[r] > 0 ~> owed[r] = 0 \/ parent # "open"
=============================================================================
