---------------------------- MODULE BatchPlanner ----------------------------
(***************************************************************************)
(* The planner: rapid_llm/engine/batch_planner.py.  plan() is one call,    *)
(* but it walks its queues a request at a time; here it is a sequence of   *)
(* steps, one per request it handles, and pc says which stage it is in:    *)
(*   "idle"     between two steps of the engine                            *)
(*   "resume"   Stage 1, chunks of requests still in prefill               *)
(*   "admit"    Stage 2, _admit                                            *)
(*   "batch"    the decode batch is formed                                 *)
(*   "grow"     Stage 3, _grow_decode                                      *)
(*   "execute"  the plan is complete (module Scheduler takes over)         *)
(*   "harvest"  the sampled tokens are applied and published              *)
(* Module OffloadScheduler adds the offloading tier and module             *)
(* SpeculativeScheduler reserve_speculative.  pending_tokens, the tokens   *)
(* launched and not harvested, stays zero outside PipelinedScheduler.      *)
(***************************************************************************)
EXTENDS SlotBatch

CONSTANTS
  NoRequest,           \* no request is current
  Prompts,             \* the prompts clients submit
  MaxGenLen,           \* max_gen_len of every request; 0 for none
  MaxNumSeqs,          \* max_num_seqs
  MaxNumBatchedTokens, \* max_num_batched_tokens
  MaxChunkSize,        \* max_chunk_size; 0 turns chunked prefill off
  EnablePreemption,    \* enable_preemption
  DecodeWindowSteps    \* decode_window_steps

\* SchedulerConfig.__post_init__ and the constructors refuse anything else.
ASSUME PlannerAssumption ==
  /\ NoRequest \notin Requests
  /\ IsFiniteSet(Slots) /\ Slots # {} /\ Slots = 1 .. Cardinality(Slots)
  /\ MaxSeqLen \in Nat /\ MaxSeqLen >= 2
  /\ MaxGenLen \in Nat /\ Prompts \subseteq Seq(Nat)
  /\ MaxNumSeqs >= 1
  /\ MaxNumBatchedTokens \in Nat \ {0} /\ MaxChunkSize \in Nat
  /\ MaxChunkSize = 0 => MaxNumBatchedTokens >= MaxSeqLen
  /\ DecodeWindowSteps \in Nat
  /\ Blocks = 1 .. Cardinality(Blocks)

VARIABLES
  \* fields of each Request
  status,              \* "new", "waiting", "running" or "finished"
  prompt,              \* prompt_token_ids
  output,              \* output_token_ids
  max_new_tokens,
  num_computed,        \* num_computed_tokens
  slot,                \* 0 for None
  block_plan,          \* the table writes of this step
  pending_tokens,      \* tokens launched and not harvested
  \* fields of the planner
  waiting, running, free_slots, pending_blocks, deferred_steps,
  cache,               \* the PrefixCache
  \* locals of plan()
  pc, cursor, current,
  prefill,             \* pairs <<request, chunk>>
  decode,
  preempted            \* whether anybody was evicted by this plan

reqVars   == <<status, prompt, output, max_new_tokens, num_computed, slot, block_plan,
               pending_tokens>>
queueVars == <<waiting, running, free_slots, pending_blocks, deferred_steps, cache>>
planVars  == <<pc, cursor, current, prefill, decode, preempted>>
plannerVars == <<reqVars, queueVars, planVars>>

NoSlot   == 0
NoWrites == [start |-> 0, blocks |-> <<>>]

PlannerInit ==
  /\ status = [r \in Requests |-> "new"]
  /\ prompt = [r \in Requests |-> <<>>]
  /\ output = [r \in Requests |-> <<>>]
  /\ max_new_tokens = [r \in Requests |-> 0]
  /\ num_computed = [r \in Requests |-> 0]
  /\ slot = [r \in Requests |-> NoSlot]
  /\ block_plan = [r \in Requests |-> NoWrites]
  /\ pending_tokens = [r \in Requests |-> 0]
  /\ waiting = <<>>
  /\ running = <<>>
  /\ free_slots = Reverse([i \in 1 .. Cardinality(Slots) |-> i])
  /\ pending_blocks = <<>>
  /\ deferred_steps = 0
  /\ cache = NewCache([i \in 1 .. Cardinality(Blocks) |-> i])
  /\ pc = "idle"
  /\ cursor = 1
  /\ current = NoRequest
  /\ prefill = <<>>
  /\ decode = <<>>
  /\ preempted = FALSE

SeqLen(r)      == Len(prompt[r]) + Len(output[r])
PrefillDone(r) == num_computed[r] >= Len(prompt[r])
Granted        == {prefill[i][1] : i \in 1 .. Len(prefill)}
Without(s, r)  == RemoveFirst(s, r)

\* max_num_seqs is a target beyond the slot count only with preemption.
SeatLimit ==
  IF EnablePreemption THEN MaxNumSeqs ELSE Smaller(MaxNumSeqs, Cardinality(Slots))

-----------------------------------------------------------------------------
\* add_request: queue a prompt that leaves room to generate.
AddRequest(r, p) ==
  LET room == MaxSeqLen - Len(p) IN
  /\ pc = "idle"
  /\ status[r] = "new"
  /\ p # <<>> /\ room > 0
  /\ status' = [status EXCEPT ![r] = "waiting"]
  /\ prompt' = [prompt EXCEPT ![r] = p]
  /\ max_new_tokens' = [max_new_tokens EXCEPT
       ![r] = IF MaxGenLen = 0 THEN room ELSE Smaller(MaxGenLen, room)]
  /\ waiting' = Append(waiting, r)
  /\ UNCHANGED <<output, num_computed, slot, block_plan, pending_tokens, running, free_slots,
                 pending_blocks, deferred_steps, cache, planVars>>

-----------------------------------------------------------------------------
\* _commit: extend the chain if generated tokens completed a block, and index
\* what the first upto tokens of the sequence fill.
CommitBlocks(c, r, sequence, upto) ==
  Commit(IF upto \div BlockSize > Len(c.hashes[r]) THEN Track(c, r, sequence) ELSE c, r, upto)

\* The registrations of some requests cashed in, one after the other; sequences
\* has the tokens of each.
CommitAll(c, those, sequences) ==
  LET commit(d, e) ==
        IF e[1] \in those THEN CommitBlocks(d, e[1], sequences[e[1]], e[2]) ELSE d
  IN  OneByOne(commit, c, pending_blocks)

\* Mutant: a retiring request's blocks are indexed but not given back.
MutantSettleOnly(c, r, sequence) == CommitAll(c, {r}, [q \in {r} |-> sequence])

\* _settle_pending_blocks and the free of finish: a retiring request's own
\* registrations are cashed in, then its blocks are given back.
SettleAndFree(c, r, sequence) ==
  Free(CommitAll(c, {r}, [q \in {r} |-> sequence]), r)

\* _drop_pending_blocks.
DropPending(r) ==
  LET keep(entries, e) == IF e[1] = r THEN entries ELSE Append(entries, e)
  IN  OneByOne(keep, <<>>, pending_blocks)

\* Mutant: a slot is not given back.
MutantKeepSlot(r) == free_slots

\* The free slots once r has given back its own.
ReleaseSlot(r) == IF slot[r] = NoSlot THEN free_slots ELSE Append(free_slots, slot[r])

\* Mutant: the first request with equal fields leaves the list instead of r.
MutantDiscardEqual(r) ==
  LET equal == {i \in 1 .. Len(running) : prompt[running[i]] = prompt[r] /\ output[running[i]] = output[r]}
  IN  IF equal = {} THEN running ELSE RemoveAt(running, Min(equal))

\* _discard_running.
DiscardRunning(r) == Without(running, r)

\* finish: release the slot, the place in the queue and the blocks.
Finish(r, sequence) ==
  /\ status' = [status EXCEPT ![r] = "finished"]
  /\ free_slots' = ReleaseSlot(r)
  /\ slot' = [slot EXCEPT ![r] = NoSlot]
  /\ running' = DiscardRunning(r)
  /\ waiting' = Without(waiting, r)
  /\ pending_blocks' = DropPending(r)
  /\ cache' = SettleAndFree(cache, r, sequence)

\* abort: a request is dropped wherever it is, between two steps.
Abort(r) ==
  /\ pc = "idle"
  /\ status[r] \in {"waiting", "running"}
  /\ Finish(r, prompt[r] \o output[r])
  /\ UNCHANGED <<prompt, output, max_new_tokens, num_computed, block_plan, pending_tokens,
                 deferred_steps, planVars>>

-----------------------------------------------------------------------------
\* Mutant: eviction leaves the generation cap as it was.
MutantKeepCap(r) == max_new_tokens[r]

\* The generation cap left to r once its output has become prompt.
CapLeft(r) == max_new_tokens[r] - Len(output[r])

\* _preempt: evict r, whose tokens become its prompt, to the head of the
\* waiting queue.  c is the cache the eviction starts from.
Preempt(c, r) ==
  /\ free_slots' = ReleaseSlot(r)
  /\ slot' = [slot EXCEPT ![r] = NoSlot]
  /\ status' = [status EXCEPT ![r] = "waiting"]
  /\ num_computed' = [num_computed EXCEPT ![r] = 0]
  /\ block_plan' = [block_plan EXCEPT ![r] = NoWrites]
  /\ pending_tokens' = [pending_tokens EXCEPT ![r] = 0]
  /\ pending_blocks' = DropPending(r)
  /\ cache' = Free(c, r)
  /\ prompt' = [prompt EXCEPT ![r] = @ \o output[r]]
  /\ output' = [output EXCEPT ![r] = <<>>]
  /\ max_new_tokens' = [max_new_tokens EXCEPT ![r] = CapLeft(r)]
  /\ running' = DiscardRunning(r)
  /\ waiting' = <<r>> \o waiting

\* _preempt_victim: the youngest request past prefill and past its first
\* token that nobody protects.
Victim(protect) ==
  LET eligible == {i \in 1 .. Len(running) :
        /\ PrefillDone(running[i])
        /\ running[i] \notin protect
        /\ output[running[i]] # <<>>}
  IN  IF eligible = {} THEN NoRequest ELSE running[Max(eligible)]

-----------------------------------------------------------------------------
\* Stage 0 (_commit_pending_blocks): the passes of the last step have run.
BeginPlan ==
  /\ pc = "idle"
  /\ waiting # <<>> \/ running # <<>>
  /\ cache' = CommitAll(cache, {r \in Requests : status[r] = "running"},
                        [r \in Requests |-> prompt[r] \o output[r]])
  /\ pending_blocks' = <<>>
  /\ pc' = "resume"
  /\ cursor' = 1
  /\ current' = NoRequest
  /\ prefill' = <<>>
  /\ decode' = <<>>
  /\ preempted' = FALSE
  /\ UNCHANGED <<reqVars, waiting, running, free_slots, deferred_steps>>

\* _chunk_of.
ChunkOf(r, computed) ==
  LET remaining == Len(prompt[r]) - computed IN
  IF MaxChunkSize = 0 THEN remaining
  ELSE Min({remaining, MaxChunkSize, MaxNumBatchedTokens})

\* The places of the running list Stage 1 still has to visit.  The loop walks
\* the list by index while evictions delete from it, so a deletion before the
\* cursor makes it skip a request.
ToResume == {i \in cursor .. Len(running) : ~PrefillDone(running[i])}

\* The request Stage 1 is at, and the cursor behind it.
Resuming    == IF current # NoRequest THEN current ELSE running[Min(ToResume)]
AfterResume == IF current # NoRequest THEN cursor ELSE Min(ToResume) + 1

ResumeReach(r) == num_computed[r] + ChunkOf(r, num_computed[r])

\* The next chunk of r has its blocks: it is granted, mapped and registered.
ResumeGrant ==
  /\ pc = "resume"
  /\ current # NoRequest \/ ToResume # {}
  /\ LET r     == Resuming
         reach == ResumeReach(r)
         grown == Allocate(cache, r, reach, <<>>)
     IN
       /\ Fits(cache, r, reach, <<>>)
       /\ cache' = TakeTableWrites(grown, r)
       /\ block_plan' = [block_plan EXCEPT ![r] = TableWrites(grown, r)]
       /\ prefill' = Append(prefill, <<r, reach - num_computed[r]>>)
       /\ num_computed' = [num_computed EXCEPT ![r] = reach]
       /\ pending_blocks' = Append(pending_blocks, <<r, reach>>)
  /\ cursor' = AfterResume
  /\ current' = NoRequest
  /\ UNCHANGED <<status, prompt, output, max_new_tokens, slot, pending_tokens, waiting, running,
                 free_slots, deferred_steps, pc, decode, preempted>>

\* _reserve evicts a victim towards the chunk of r and tries again.
ResumeEvict ==
  /\ pc = "resume"
  /\ current # NoRequest \/ ToResume # {}
  /\ LET r == Resuming
         v == Victim(Granted \cup {r})
     IN
       /\ ~Fits(cache, r, ResumeReach(r), <<>>)
       /\ v # NoRequest
       /\ Preempt(cache, v)
       /\ current' = r
  /\ cursor' = AfterResume
  /\ preempted' = TRUE
  /\ UNCHANGED <<deferred_steps, pc, prefill, decode>>

\* No blocks and nobody left to evict: r keeps its slot and waits.
ResumeStall ==
  /\ pc = "resume"
  /\ current # NoRequest \/ ToResume # {}
  /\ LET r == Resuming IN
       /\ ~Fits(cache, r, ResumeReach(r), <<>>)
       /\ Victim(Granted \cup {r}) = NoRequest
       /\ block_plan' = [block_plan EXCEPT ![r] = NoWrites]
  /\ cursor' = AfterResume
  /\ current' = NoRequest
  /\ UNCHANGED <<status, prompt, output, max_new_tokens, num_computed, slot, pending_tokens,
                 queueVars, pc, prefill, decode, preempted>>

\* _defer_admission: keep a step of pure decode, a bounded number of times.
DeferAdmission ==
  /\ DecodeWindowSteps > 0
  /\ waiting # <<>>
  /\ prefill = <<>>
  /\ deferred_steps < DecodeWindowSteps
  /\ \E i \in 1 .. Len(running) : PrefillDone(running[i])

EndResume ==
  /\ pc = "resume"
  /\ current = NoRequest /\ ToResume = {}
  /\ pc' = IF DeferAdmission THEN "batch" ELSE "admit"
  /\ deferred_steps' = IF DeferAdmission THEN deferred_steps + 1 ELSE 0
  /\ UNCHANGED <<reqVars, waiting, running, free_slots, pending_blocks, cache,
                 cursor, current, prefill, decode, preempted>>

-----------------------------------------------------------------------------
\* The request _admit is at: the head of the queue, or the one an eviction
\* has just made a slot for (its victim is now at the head).
Candidate == IF current # NoRequest THEN current ELSE Head(waiting)

\* The cache once the candidate's chain is tracked, which happens before the
\* gates and stays when one of them stops the admission.
Tracked(r) == Track(cache, r, prompt[r])

Longest == IF prefill = <<>> THEN 0 ELSE Max({prefill[i][2] : i \in 1 .. Len(prefill)})

\* Mutant: the grid is priced without the chunk being added.
MutantPricedWithout(r) == Longest * Len(prefill) > MaxNumBatchedTokens

\* The padded grid would not fit the step's token budget.
OverBudget(r) ==
  Larger(Longest, ChunkOf(r, 0)) * (Len(prefill) + 1) > MaxNumBatchedTokens

\* The gates before a slot is looked for.
Gated(r) ==
  \/ Len(running) >= SeatLimit
  \/ prefill # <<>> /\ OverBudget(r)

\* _maybe_preempt: the policy gate of eviction.
PolicyVictim == IF EnablePreemption THEN Victim(Granted) ELSE NoRequest

\* Stage 2 ends: nobody waits, the batch is full, or no slot can be had.
AdmitStop ==
  /\ pc = "admit"
  /\ \/ /\ waiting = <<>>
        /\ UNCHANGED cache
     \/ /\ waiting # <<>>
        /\ current = NoRequest
        /\ Gated(Candidate) \/ (free_slots = <<>> /\ PolicyVictim = NoRequest)
        /\ cache' = Tracked(Candidate)
  /\ pc' = "batch"
  /\ UNCHANGED <<reqVars, waiting, running, free_slots, pending_blocks, deferred_steps,
                 cursor, current, prefill, decode, preempted>>

\* No slot is free: somebody is evicted for the candidate.
AdmitEvict ==
  /\ pc = "admit"
  /\ waiting # <<>> /\ current = NoRequest
  /\ ~Gated(Candidate)
  /\ free_slots = <<>>
  /\ PolicyVictim # NoRequest
  /\ Preempt(Tracked(Candidate), PolicyVictim)
  /\ current' = Candidate
  /\ preempted' = TRUE
  /\ UNCHANGED <<deferred_steps, pc, cursor, prefill, decode>>

\* The candidate may try to allocate.
Admissible ==
  /\ pc = "admit"
  /\ waiting # <<>>
  /\ free_slots # <<>>
  /\ current # NoRequest \/ ~Gated(Candidate)

\* The candidate is admitted with the blocks of its match and of its first
\* chunk; after an eviction nobody else is.
AdmitGrant ==
  /\ Admissible
  /\ LET r == Candidate IN
     \E match \in Lookup(Tracked(r), r, Len(prompt[r])) :
     LET hit   == Len(match) * BlockSize
         chunk == ChunkOf(r, hit)
         grown == Allocate(Tracked(r), r, hit + chunk, match)
     IN
       /\ Fits(Tracked(r), r, hit + chunk, match)
       /\ cache' = TakeTableWrites(grown, r)
       /\ block_plan' = [block_plan EXCEPT ![r] = TableWrites(grown, r)]
       /\ waiting' = Without(waiting, r)
       /\ slot' = [slot EXCEPT ![r] = Last(free_slots)]
       /\ free_slots' = Front(free_slots)
       /\ status' = [status EXCEPT ![r] = "running"]
       /\ running' = Append(running, r)
       /\ num_computed' = [num_computed EXCEPT ![r] = hit + chunk]
       /\ prefill' = Append(prefill, <<r, chunk>>)
       /\ pending_blocks' = Append(pending_blocks, <<r, hit + chunk>>)
  /\ current' = NoRequest
  /\ pc' = IF preempted THEN "batch" ELSE "admit"
  /\ UNCHANGED <<prompt, output, max_new_tokens, pending_tokens, deferred_steps, cursor, decode,
                 preempted>>

\* The pool is short: the match and the chain are given back, somebody may be
\* evicted towards the next step's attempt, and admission ends.
AdmitRefuse ==
  /\ Admissible
  /\ LET r == Candidate IN
     \E match \in Lookup(Tracked(r), r, Len(prompt[r])) :
     LET hit     == Len(match) * BlockSize
         refused == Free(RefuseAllocation(Tracked(r), r, match), r)
     IN
       /\ ~Fits(Tracked(r), r, hit + ChunkOf(r, hit), match)
       /\ \/ /\ PolicyVictim = NoRequest
             /\ cache' = refused
             /\ UNCHANGED <<reqVars, waiting, running, free_slots, pending_blocks, preempted>>
          \/ /\ PolicyVictim # NoRequest
             /\ Preempt(refused, PolicyVictim)
             /\ preempted' = TRUE
  /\ current' = NoRequest
  /\ pc' = "batch"
  /\ UNCHANGED <<deferred_steps, cursor, prefill, decode>>

-----------------------------------------------------------------------------
\* The decode batch: everybody past prefill, except those whose prompt ends
\* in this step.
FormDecode ==
  /\ pc = "batch"
  /\ decode' = ElementsAt(running, {i \in 1 .. Len(running) :
                                  PrefillDone(running[i]) /\ running[i] \notin Granted})
  /\ pc' = "grow"
  /\ cursor' = 1
  /\ UNCHANGED <<reqVars, queueVars, current, prefill, preempted>>

\* Stage 3 visits a snapshot of the batch and passes over the evicted.
ToGrow  == {i \in cursor .. Len(decode) : status[decode[i]] = "running"}
Growing == decode[Min(ToGrow)]

\* The row the next token will take, past the tokens in flight and within the
\* context window.
GrowReach(r) == Smaller(SeqLen(r) + pending_tokens[r] + 1, MaxSeqLen)

\* Mutant: the row of the token about to be sampled is registered as well.
MutantRegisterReach(r) == GrowReach(r)

\* The tokens whose rows this step's decode pass completes.
DecodedUpto(r) == Smaller(SeqLen(r), MaxSeqLen)

\* Who may not be evicted for r: the step's prefills, the decode rows already
\* served and r itself.
GrowProtects(r) ==
  Granted \cup {decode[i] : i \in 1 .. Min(ToGrow) - 1} \cup {r}

GrowGrant ==
  /\ pc = "grow" /\ ToGrow # {}
  /\ LET r     == Growing
         grown == Allocate(cache, r, GrowReach(r), <<>>)
     IN
       /\ Fits(cache, r, GrowReach(r), <<>>)
       /\ cache' = TakeTableWrites(grown, r)
       /\ block_plan' = [block_plan EXCEPT ![r] = TableWrites(grown, r)]
       /\ pending_blocks' = Append(pending_blocks, <<r, DecodedUpto(r)>>)
  /\ cursor' = Min(ToGrow) + 1
  /\ UNCHANGED <<status, prompt, output, max_new_tokens, num_computed, slot, pending_tokens,
                 waiting, running, free_slots, deferred_steps, pc, current, prefill, decode, preempted>>

\* The pool is short: a victim goes, or r itself when there is none.
GrowEvict ==
  /\ pc = "grow" /\ ToGrow # {}
  /\ LET r == Growing
         v == Victim(GrowProtects(r))
     IN
       /\ ~Fits(cache, r, GrowReach(r), <<>>)
       /\ Preempt(cache, IF v # NoRequest THEN v ELSE r)
  /\ preempted' = TRUE
  /\ UNCHANGED <<deferred_steps, pc, cursor, current, prefill, decode>>

\* The plan is complete: the evicted leave the batch.
EndPlan ==
  /\ pc = "grow" /\ ToGrow = {}
  /\ decode' = ElementsAt(decode, {i \in 1 .. Len(decode) : status[decode[i]] = "running"})
  /\ pc' = "execute"
  /\ UNCHANGED <<reqVars, queueVars, cursor, current, prefill, preempted>>

PlanStep ==
  \/ BeginPlan
  \/ ResumeGrant \/ ResumeEvict \/ ResumeStall \/ EndResume
  \/ AdmitStop \/ AdmitEvict \/ AdmitGrant \/ AdmitRefuse
  \/ FormDecode \/ GrowGrant \/ GrowEvict \/ EndPlan
=============================================================================
