------------------------- MODULE PipelinedScheduler -------------------------
(***************************************************************************)
(* Scheduler.step with both its loops.  The launch/harvest loop,           *)
(* _step_pipelined: a step launches its passes, harvests the oldest step   *)
(* in flight and leaves its own tokens on the device.  A decode row is fed *)
(* from the device (_next_tokens, by slot), and lengths are the host's     *)
(* plus pending_tokens.  With the pipeline off it is module Scheduler's.   *)
(*                                                                         *)
(* The model is greedy: the token it samples at position p of a sequence   *)
(* is p, or the stop token.  Passes run on one device stream, in the order *)
(* they were launched, so a launch updates the cache rows at once.         *)
(***************************************************************************)
EXTENDS Scheduler

CONSTANTS
  Depths,        \* the pipeline_depth the engine may be built with; 0: no pipeline
  StopToken,     \* a member of stop_token_ids, no position
  MayStop        \* requests that may sample it

ASSUME PipelineAssumption ==
  /\ Depths \subseteq Nat
  /\ \A d \in Depths : StopToken \notin 1 .. MaxSeqLen + d
  \* The constructor refuses the pipeline together with preemption.
  /\ EnablePreemption => Depths \subseteq {0}

VARIABLES
  depth,         \* pipeline_depth of this engine
  inflight,      \* launched and unharvested steps, oldest first
  launched,      \* the tokens of this step's passes, as <<request, token>>
  next_tokens    \* the token last sampled for each slot, on the device

pipeVars == <<depth, inflight, launched, next_tokens>>
pVars    == <<vars, pipeVars>>

PInit ==
  /\ Init
  /\ depth \in Depths
  /\ inflight = <<>> /\ launched = <<>>
  /\ next_tokens = [s \in Slots |-> StopToken]

\* The tokens in flight for r, in order.
InFlightOf(r) ==
  LET mine(entry) == SelectSeq(entry, LAMBDA e : e[1] = r)
      all == FlattenSeq([i \in 1 .. Len(inflight) |-> mine(inflight[i])])
  IN  [i \in 1 .. Len(all) |-> all[i][2]]

\* The length _decode_work gives r, and the sequence the device has for it:
\* what the host knows, what is in flight, and at its end the token fed.
DeviceLen(r) == SeqLen(r) + pending_tokens[r]

PipelinedSeq(r) ==
  [slot |-> slot[r], start |-> DeviceLen(r) - 1,
   tokens |-> SubSeq(Sequence(r) \o InFlightOf(r), 1, DeviceLen(r) - 1)
              \o <<next_tokens[slot[r]]>>]

\* plan() when only passes in flight are left: nothing to plan.
DrainPlan ==
  /\ pc = "idle" /\ waiting = <<>> /\ running = <<>> /\ inflight # <<>>
  /\ pc' = "execute"
  /\ pending_blocks' = <<>>
  /\ UNCHANGED <<reqVars, waiting, running, free_slots, deferred_steps, cache, cursor, current,
                 prefill, decode, preempted, deviceVars, loopVars, pipeVars>>

\* An empty plan and nothing in flight.
SkipIdle == SkipEmpty /\ inflight = <<>> /\ UNCHANGED pipeVars

EmptyPlan == prefill = <<>> /\ decode = <<>>

\* The oldest step is harvested once depth steps are in flight, or to drain.
CanPop == Len(inflight) >= depth \/ EmptyPlan

\* The passes are launched and sample a token each; the oldest step in flight
\* is detached for the harvest.
Launch ==
  /\ pc = "execute"
  /\ ~EmptyPlan \/ inflight # <<>>
  /\ table' = InstallTables
  /\ \E f \in FreshOutcomes(kv, InstallTables) :
       LET g == RowPass(f.kv, InstallTables, {PrefillSeq(e) : e \in Resumed})
           d == RowPass(g.kv, InstallTables, {PipelinedSeq(r) : r \in Elements(decode)})
       IN  /\ kv' = d.kv
           /\ misread' = (misread \/ g.misled \cup d.misled # {})
  /\ LET firsts == Sampled(FreshPlaces) \o Sampled(ResumedPlaces)
         all    == firsts \o decode
         place(i) == (IF i <= Len(firsts) THEN SeqLen(all[i]) ELSE DeviceLen(all[i])) + 1
         drawn(i, stops) == IF all[i] \in stops THEN StopToken ELSE place(i)
         row(s) == {i \in 1 .. Len(all) : slot[all[i]] = s}
     IN  \E stops \in SUBSET (Elements(all) \cap MayStop) :
           /\ launched' = [i \in 1 .. Len(all) |-> <<all[i], drawn(i, stops)>>]
           /\ next_tokens' = [s \in Slots |->
                IF row(s) = {} THEN next_tokens[s] ELSE drawn(Min(row(s)), stops)]
  /\ emitted' = IF CanPop THEN Head(inflight) ELSE <<>>
  /\ inflight' = IF CanPop THEN Tail(inflight) ELSE inflight
  /\ advanced' = {}
  /\ pc' = "harvest"
  /\ UNCHANGED <<reqVars, queueVars, cursor, current, prefill, decode, preempted,
                 sent, delivered, asked, depth>>

\* Mutant: a token of a request that stopped meanwhile is not counted off.
MutantSpendLive(r) ==
  IF status[r] = "finished" THEN pending_tokens
  ELSE [pending_tokens EXCEPT ![r] = @ - 1]

\* pending_tokens once a token of r has been read back.
Spend(r) == [pending_tokens EXCEPT ![r] = @ - 1]

\* The request stopped at an earlier harvest; its token is discarded.
TooLate(r) == status[r] = "finished"

\* One token of the detached step.
HarvestLate ==
  /\ pc = "harvest" /\ emitted # <<>>
  /\ LET r == Head(emitted)[1]
         t == Head(emitted)[2]
     IN  /\ pending_tokens' = Spend(r)
         /\ \/ /\ TooLate(r)
               /\ UNCHANGED <<output, advanced, status, free_slots, slot, running, waiting,
                              pending_blocks, cache>>
            \/ ~TooLate(r) /\ t = StopToken /\ TakeStop(r)
            \/ ~TooLate(r) /\ t # StopToken /\ TakeToken(r, t)
  /\ emitted' = Tail(emitted)
  /\ UNCHANGED <<prompt, max_new_tokens, num_computed, block_plan, deferred_steps, planVars,
                 deviceVars, sent, delivered, asked, pipeVars>>

\* The step ends: its tokens are owed, and the harvested ones are published.
PublishLate ==
  /\ pc = "harvest" /\ emitted = <<>>
  /\ pending_tokens' = [r \in Requests |->
       pending_tokens[r] + Cardinality({i \in DOMAIN launched : launched[i][1] = r})]
  /\ inflight' = IF EmptyPlan THEN inflight ELSE Append(inflight, launched)
  /\ launched' = <<>>
  /\ Deliver
  /\ EndStep
  /\ UNCHANGED <<status, prompt, output, max_new_tokens, num_computed, slot, block_plan,
                 queueVars, deviceVars, emitted, asked, next_tokens, depth>>

PipelinedStep ==
  \/ Plan /\ UNCHANGED pipeVars
  \/ DrainPlan \/ SkipIdle \/ Launch \/ HarvestLate \/ PublishLate

\* The step without the pipeline, with the same greedy model.
SynchronousStep ==
  \/ Plan \/ SkipEmpty \/ Execute \/ Publish
  \/ /\ pc = "harvest" /\ emitted # <<>>
     /\ \/ Head(emitted) \in MayStop /\ HarvestStop
        \/ HarvestToken(SeqLen(Head(emitted)) + 1)

\* The event loop: has_unfinished_requests counts the steps in flight too.
PNext ==
  \/ /\ \/ \E r \in Requests, p \in Prompts : Submit(r, p)
        \/ \E r \in Requests : AbortRequest(r)
        \/ Poll /\ inflight = <<>>
        \/ depth = 0 /\ SynchronousStep
     /\ UNCHANGED pipeVars
  \/ depth > 0 /\ PipelinedStep

PSpec == PInit /\ [][PNext]_pVars

-----------------------------------------------------------------------------
\* The optimistic ledger is right: between two steps pending_tokens is the
\* number of tokens in flight for the request, stopped ones included ("it
\* drains to exactly zero").
PendingIsInFlight ==
  pc = "idle" => \A r \in Requests : pending_tokens[r] = Len(InFlightOf(r))

\* What the host records is the same whatever the depth: the token of each
\* position once, in order, and never a token past a stop.
GreedyContinuation ==
  \A r \in Requests : \A i \in DOMAIN GeneratedBy(r) : GeneratedBy(r)[i] = asked[r] + i

\* No decode row is planned past the context window: the block table has no
\* column for it.
RowsInWindow ==
  pc = "execute" => \A r \in Elements(decode) : DeviceLen(r) <= MaxSeqLen
=============================================================================
