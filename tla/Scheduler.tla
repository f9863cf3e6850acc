----------------------------- MODULE Scheduler -----------------------------
(***************************************************************************)
(* The synchronous engine: rapid_llm/engine/scheduler.py drives the        *)
(* planner, runs the plan on the device, harvests the sampled tokens and   *)
(* publishes them (run_event_loop).  Clients submit and abort requests     *)
(* between two steps.                                                      *)
(***************************************************************************)
EXTENDS BatchPlanner

CONSTANTS
  Generated,        \* tokens the model may sample
  StopOnRepeat,     \* whether the repetition check may end a request
  ChunkedMinRows,   \* rows from which a resumed pass runs as a grid
  Streaming,        \* requests submitted with stream
  MayAbort          \* requests a client may abort

VARIABLES
  table,       \* b_req_tokens_table, by slot
  kv,          \* the K/V rows
  misread,     \* some sequence attended over rows that are not its own
  emitted,     \* requests whose sampled token is not harvested yet
  advanced,    \* requests this step harvested a token or a stop for
  sent,        \* sent_tokens of the event loop
  delivered,   \* the tokens the client of each request has received
  asked        \* the length of each request's prompt as submitted

deviceVars == <<table, kv, misread>>
loopVars   == <<emitted, advanced, sent, delivered, asked>>
vars       == <<plannerVars, deviceVars, loopVars>>

Init ==
  /\ PlannerInit
  /\ table = NewTable
  /\ kv = NewRows
  /\ misread = FALSE
  /\ emitted = <<>>
  /\ advanced = {}
  /\ sent = [r \in Requests |-> 0]
  /\ delivered = [r \in Requests |-> <<>>]
  /\ asked = [r \in Requests |-> 0]

Sequence(r) == prompt[r] \o output[r]

-----------------------------------------------------------------------------
\* _chunk_work and _decode_work: what each pass of the step runs.
PrefillSeq(e) ==
  [slot |-> slot[e[1]], start |-> num_computed[e[1]] - e[2],
   tokens |-> SubSeq(prompt[e[1]], 1, num_computed[e[1]])]
DecodeSeq(r) ==
  [slot |-> slot[r], start |-> SeqLen(r) - 1, tokens |-> Sequence(r)]

\* _prefill_work: first chunks and resumed ones run as passes of their own.
IsFresh(e) == num_computed[e[1]] = e[2]
Fresh      == {e \in Elements(prefill) : IsFresh(e)}
Resumed    == Elements(prefill) \ Fresh
FreshPlaces   == {i \in 1 .. Len(prefill) : IsFresh(prefill[i])}
ResumedPlaces == 1 .. Len(prefill) \ FreshPlaces

\* The sampled rows of a prefill pass: the chunks that complete their prompt.
Sampled(places) ==
  LET done == ElementsAt(prefill, {i \in places :
                num_computed[prefill[i][1]] = Len(prompt[prefill[i][1]])})
  IN  [i \in 1 .. Len(done) |-> done[i][1]]

InstallTables ==
  LET named == [i \in 1 .. Len(prefill) |-> prefill[i][1]] \o decode
      install(t, r) == WriteTable(t, slot[r], block_plan[r])
  IN  OneByOne(install, table, named)

\* The passes' outcomes, in the order the step runs them.  Slots of the
\* passes are disjoint, so their table writes may be installed together.
FreshOutcomes(rows, t) ==
  IF Fresh = {} THEN {[kv |-> rows, misled |-> {}]}
  ELSE FreshGrid(rows, t, {PrefillSeq(e) : e \in Fresh})

\* A resumed pass of enough rows runs as a grid, a shorter one as rows;
\* ChunkedMinRows = 0 stands for the infinite threshold.
RunsAsGrid ==
  ChunkedMinRows > 0 /\ MapThenSumSet(LAMBDA e : e[2], Resumed) >= ChunkedMinRows

ResumedOutcomes(rows, t) ==
  LET pass == {PrefillSeq(e) : e \in Resumed} IN
  IF RunsAsGrid THEN ResumedGrid(rows, t, pass) ELSE {RowPass(rows, t, pass)}

-----------------------------------------------------------------------------
\* add_request, as the event loop applies it.
Submit(r, p) ==
  /\ AddRequest(r, p)
  /\ asked' = [asked EXCEPT ![r] = Len(p)]
  /\ sent' = [sent EXCEPT ![r] = 0]
  /\ UNCHANGED <<deviceVars, emitted, advanced, delivered>>

\* abort, as the event loop applies it.
AbortRequest(r) ==
  /\ r \in MayAbort
  /\ Abort(r)
  /\ sent' = [sent EXCEPT ![r] = 0]
  /\ UNCHANGED <<deviceVars, emitted, advanced, delivered, asked>>

\* The event loop finds nothing to do.
Poll ==
  /\ pc = "idle"
  /\ waiting = <<>> /\ running = <<>>
  /\ UNCHANGED vars

\* plan: module BatchPlanner.
Plan ==
  /\ PlanStep
  /\ UNCHANGED <<deviceVars, loopVars>>

\* The step returns and the locals of plan() are gone.
EndStep ==
  /\ pc' = "idle"
  /\ cursor' = 1
  /\ current' = NoRequest
  /\ prefill' = <<>>
  /\ decode' = <<>>
  /\ preempted' = FALSE

\* An empty plan ends the step.
SkipEmpty ==
  /\ pc = "execute"
  /\ prefill = <<>> /\ decode = <<>>
  /\ EndStep
  /\ UNCHANGED <<reqVars, queueVars, deviceVars, loopVars>>

\* The passes of a step, and the requests they sample a token for: first
\* chunks, resumed chunks, decode rows.
RunPasses ==
  /\ table' = InstallTables
  /\ \E f \in FreshOutcomes(kv, InstallTables) :
     \E g \in ResumedOutcomes(f.kv, InstallTables) :
       LET d == RowPass(g.kv, InstallTables, {DecodeSeq(r) : r \in Elements(decode)}) IN
       /\ kv' = d.kv
       /\ misread' = (misread \/ g.misled \cup d.misled # {})
  /\ emitted' = Sampled(FreshPlaces) \o Sampled(ResumedPlaces) \o decode
  /\ pc' = "harvest"
  /\ UNCHANGED <<reqVars, queueVars, cursor, current, prefill, decode, preempted,
                 sent, delivered, asked>>

Execute ==
  /\ pc = "execute"
  /\ prefill # <<>> \/ decode # <<>>
  /\ RunPasses
  /\ advanced' = {}

-----------------------------------------------------------------------------
\* _harvest of one sampled token.  A stop token retires the request and is not
\* output.
TakeStop(r) ==
  /\ Finish(r, Sequence(r))
  /\ advanced' = advanced \cup {r}
  /\ UNCHANGED output

HarvestStop ==
  /\ pc = "harvest" /\ emitted # <<>>
  /\ TakeStop(Head(emitted))
  /\ emitted' = Tail(emitted)
  /\ UNCHANGED <<prompt, max_new_tokens, num_computed, block_plan, pending_tokens,
                 deferred_steps, planVars, deviceVars, sent, delivered, asked>>

\* Mutant: the limits are tested against the lengths before the token.
MutantCheckedBefore(r) == Len(output[r]) >= max_new_tokens[r] \/ SeqLen(r) >= MaxSeqLen

\* One more token reaches the generation cap or the context window.
LastToken(r) ==
  \/ Len(output[r]) + 1 >= max_new_tokens[r]
  \/ SeqLen(r) + 1 >= MaxSeqLen

\* Any other token is output; it may be the last one, by length or because the
\* repetition check of this step says so.
TakeToken(r, t) ==
  /\ output' = [output EXCEPT ![r] = Append(@, t)]
  /\ advanced' = advanced \cup {r}
  /\ \/ /\ LastToken(r) \/ StopOnRepeat
        /\ Finish(r, Append(Sequence(r), t))
     \/ /\ ~LastToken(r)
        /\ UNCHANGED <<status, free_slots, slot, running, waiting, pending_blocks, cache>>

HarvestToken(t) ==
  /\ pc = "harvest" /\ emitted # <<>>
  /\ TakeToken(Head(emitted), t)
  /\ emitted' = Tail(emitted)
  /\ UNCHANGED <<prompt, max_new_tokens, num_computed, block_plan, pending_tokens,
                 deferred_steps, planVars, deviceVars, sent, delivered, asked>>

\* Mutant: what was sent is not counted.
MutantSentUncounted(r) == 0

\* sent_tokens after the increment of r has been put on the event queue.
SentAfter(r) == IF status[r] = "finished" THEN 0 ELSE Len(output[r])

\* The end of the step: every request that advanced is sent what its output
\* has gained since its last event, a non-streaming one only when it ends.
Told(r) == r \in advanced /\ (r \in Streaming \/ status[r] = "finished")

Deliver ==
  /\ delivered' = [r \in Requests |->
       IF Told(r) THEN delivered[r] \o SubSeq(output[r], sent[r] + 1, Len(output[r]))
       ELSE delivered[r]]
  /\ sent' = [r \in Requests |->
       IF Told(r) /\ (Len(output[r]) > sent[r] \/ status[r] = "finished")
       THEN SentAfter(r) ELSE sent[r]]
  /\ advanced' = {}

Publish ==
  /\ pc = "harvest" /\ emitted = <<>>
  /\ Deliver
  /\ EndStep
  /\ UNCHANGED <<reqVars, queueVars, deviceVars, emitted, asked>>

-----------------------------------------------------------------------------
EngineStep ==
  \/ Plan
  \/ SkipEmpty \/ Execute
  \/ HarvestStop \/ \E t \in Generated : HarvestToken(t)
  \/ Publish

Next ==
  \/ \E r \in Requests, p \in Prompts : Submit(r, p)
  \/ \E r \in Requests : AbortRequest(r)
  \/ Poll
  \/ EngineStep

Spec == Init /\ [][Next]_vars

\* The scheduler process keeps stepping while it has work.  Clients owe
\* nothing.
FairSpec == Spec /\ WF_vars(EngineStep)

-----------------------------------------------------------------------------
Live(r)   == status[r] \in {"waiting", "running"}
Holds(r)  == Elements(cache.blocks[r])
Planned   == Granted \cup Elements(decode)
Settled   == pc = "idle"

\* What r has generated, over all its evictions.
GeneratedBy(r) == SubSeq(Sequence(r), asked[r] + 1, SeqLen(r))

\* The rows a planned request writes in this step, as positions.
Writes(r) ==
  IF r \in Granted
  THEN LET e == CHOOSE e \in Elements(prefill) : e[1] = r
       IN  num_computed[r] - e[2] + 1 .. num_computed[r]
  ELSE {SeqLen(r)}

\* Every variable stays in its domain; in particular no sequence outgrows the
\* context window (_harvest's length test) and no slot or block is made up.
TypeOK ==
  /\ status \in [Requests -> {"new", "waiting", "running", "finished"}]
  /\ \A r \in Requests :
       /\ SeqLen(r) <= MaxSeqLen
       /\ num_computed[r] \in 0 .. Len(prompt[r])
       /\ max_new_tokens[r] \in 0 .. MaxSeqLen
       /\ slot[r] \in Slots \cup {NoSlot}
       /\ Holds(r) \subseteq Blocks
       /\ sent[r] \in 0 .. MaxSeqLen
  /\ Elements(waiting) \cup Elements(running) \cup Planned \subseteq Requests
  /\ Elements(free_slots) \subseteq Slots
  /\ \A e \in Elements(pending_blocks) : e[1] \in Requests /\ e[2] \in 1 .. MaxSeqLen
  /\ deferred_steps \in 0 .. DecodeWindowSteps
  /\ pc \in {"idle", "resume", "admit", "batch", "grow", "execute", "harvest"}
  /\ current \in Requests \cup {NoRequest}
  /\ table \in [Slots -> [1 .. Width -> Blocks \cup {NullBlock}]]
  /\ DOMAIN kv = Rows
  /\ misread \in BOOLEAN

\* No row of any pass ever attends over K/V that is not the one of its own
\* prefix: through allocation, sharing, eviction of cached blocks, table writes
\* told once, preemption and slot reuse (begin_extend, begin_decode).
AttendsOwnPrefix == ~misread

\* At every moment a slot is either on the free list or held by exactly one
\* running request (_admit, finish, _preempt, abort).
SlotsPartition ==
  /\ IsInjective(free_slots)
  /\ \A r \in Requests : slot[r] # NoSlot <=> status[r] = "running"
  /\ \A s \in Slots :
       Cardinality({r \in Requests : slot[r] = s}) + (IF s \in Elements(free_slots) THEN 1 ELSE 0) = 1

\* A live request is in exactly one queue, once, and its status says which; a
\* retired one is in none (_waiting, _running, _discard_running).  A slot is
\* either free or held by exactly one running request.
PlacesPartition ==
  /\ IsInjective(waiting) /\ IsInjective(running)
  /\ Elements(waiting) = {r \in Requests : status[r] = "waiting"}
  /\ Elements(running) = {r \in Requests : status[r] = "running"}
  /\ SlotsPartition

\* Blocks are held by running requests only, each is counted once per holder,
\* and the rest is free: no path (finish, abort, refusal, eviction) leaks or
\* double-frees a block.
NoBlockLeak ==
  /\ \A r \in Requests : status[r] # "running" => cache.blocks[r] = <<>>
  /\ \A b \in Blocks :
       /\ cache.ref_cnt[b] = Cardinality({r \in Requests : b \in Holds(r)})
       /\ cache.ref_cnt[b] = 0 <=> b \in Elements(cache.free)
  /\ IsInjective(cache.free)

\* A block the index offers to other requests really holds the K/V of the
\* prefix it is indexed under, although registration is planned before the
\* pass that writes it has run (_track_pending, _commit_pending_blocks).
CachedRowsAreWritten ==
  \A e \in cache.index : \A j \in 1 .. BlockSize :
     kv[<<e[2], j - 1>>] = SubSeq(e[1], 1, Len(e[1]) - BlockSize + j)

\* What a planned pass is about to write lies in blocks nobody else holds and
\* nobody else can find: shared and cached blocks are read-only.
WritesArePrivate ==
  pc = "execute" => \A r \in Planned : \A p \in Writes(r) :
     LET b == cache.blocks[r][NumBlocksFor(p)] IN
     cache.ref_cnt[b] = 1 /\ cache.block_hash[b] = NoHash

\* A complete plan can be run as it stands: whoever it names still runs, its
\* blocks cover every row it writes, a chunk has a row to sample from and a
\* decode row has a last token to feed (_decode_work's output_token_ids[-1]).
PlanIsRunnable ==
  pc = "execute" =>
    /\ Granted \cap Elements(decode) = {}
    /\ \A e \in Elements(prefill) : e[2] >= 1
    /\ \A r \in Planned :
         /\ status[r] = "running"
         /\ Len(cache.blocks[r]) >= NumBlocksFor(Max(Writes(r)))
    /\ \A r \in Elements(decode) : output[r] # <<>>

\* A request never generates more than it was allowed when submitted, however
\* often it is evicted in between (_preempt's cap arithmetic).
GenerationBounded ==
  \A r \in Requests : Len(GeneratedBy(r)) <=
     IF MaxGenLen = 0 THEN MaxSeqLen - asked[r] ELSE Smaller(MaxGenLen, MaxSeqLen - asked[r])

\* Between two steps a streaming client has received exactly the tokens its
\* request generated, in order, and any client has once its request ended
\* (run_event_loop's sent_tokens).
StreamComplete ==
  Settled => \A r \in Requests :
    r \in Streaming \/ (status[r] = "finished" /\ r \notin MayAbort)
      => delivered[r] = GeneratedBy(r)

\* With the policy off nothing is ever evicted (SchedulerConfig.enable_preemption).
NothingEvicted == ~EnablePreemption => ~preempted

\* The step's token ceiling holds for the prefill rows of every plan
\* (SchedulerConfig.max_num_batched_tokens).
WithinTokenBudget ==
  pc = "execute" => Longest * Len(prefill) <= MaxNumBatchedTokens

\* Every submitted request ends.
EveryRequestFinishes ==
  \A r \in Requests : status[r] = "waiting" ~> status[r] = "finished"
=============================================================================
