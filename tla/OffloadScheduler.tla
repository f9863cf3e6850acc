-------------------------- MODULE OffloadScheduler --------------------------
(***************************************************************************)
(* The synchronous engine with a CPU tier behind the GPU block pool:       *)
(* rapid_llm/engine/kv_offload/cpu.py (the tier), executor/kv_offload.py   *)
(* (the copies) and the planner's side of both.  A committed block is      *)
(* copied down under its key (store); a request whose prefix the tier      *)
(* holds further than the pool is parked while the blocks are copied up    *)
(* (promotion, by a load).                                                 *)
(*                                                                         *)
(* The copies run on two streams of their own.  Stores run in the order    *)
(* they were submitted, and so do loads, each after every store submitted  *)
(* before it.  They touch K/V rows only, which planning does not: it is    *)
(* enough that a copy may land between two steps and before a step's       *)
(* passes.  The engine's calls pass through TieringOffloadingManager       *)
(* unchanged.                                                              *)
(***************************************************************************)
EXTENDS Scheduler

CONSTANTS
  CpuBlocks,     \* the tier's blocks, its null block excluded
  PromptOf       \* the prompt each request is submitted with

ASSUME OffloadAssumption ==
  /\ EnableCaching
  /\ CpuBlocks = 1 .. Cardinality(CpuBlocks)
  /\ PromptOf \in [Requests -> Prompts]

VARIABLES
  tier,          \* the manager: its pool, and pending, the transfers in flight
  host,          \* the host mirror: the rows of each CPU block
  promotion,     \* per request: the blocks its copy lands in, <<>> for none;
                 \* a finished request with a promotion is a dying one
  ready,         \* _ready_promotes
  prepared       \* the tier's part of this stage of the step is done

offVars == <<tier, host, promotion, ready, prepared>>
oVars   == <<vars, offVars>>

\* The tier's metadata is a second BlockPool.
Cpu == INSTANCE PrefixCache WITH Blocks <- CpuBlocks, Requests <- {}

Offsets == 0 .. BlockSize - 1

OInit ==
  /\ Init
  /\ tier = [pool |-> Cpu!NewCache([i \in 1 .. Cardinality(CpuBlocks) |-> i]), pending |-> <<>>]
  /\ host = [b \in CpuBlocks |-> [j \in Offsets |-> Junk]]
  /\ promotion = [r \in Requests |-> <<>>]
  /\ ready = <<>>
  /\ prepared = FALSE

-----------------------------------------------------------------------------
(* The manager: CPUPrimaryTierOffloadingManager. *)

Transfer(kind, keys, cpu, gpu) ==
  [kind |-> kind, keys |-> keys, cpu |-> cpu, gpu |-> gpu, landed |-> FALSE, fenced |-> FALSE]

Storing(t) == UNION {Elements(x.keys) : x \in {x \in Elements(t.pending) : x.kind = "store"}}

\* lookup: a key is ready once its store has been completed.
Resident(t, key) == Cpu!Cached(t.pool, key) # {}

\* The block a resident key is in.
BlockOf(t, key) == CHOOSE b \in Cpu!Cached(t.pool, key) : TRUE

\* touch: the resident blocks nobody holds go to the back of the queue.
TouchTier(t, keys) ==
  LET hot == SelectSeq(keys, LAMBDA k : Resident(t, k) /\ t.pool.ref_cnt[BlockOf(t, k)] = 0)
      moved == [i \in 1 .. Len(hot) |-> BlockOf(t, hot[i])]
  IN  [t EXCEPT !.pool.free = SelectSeq(@, LAMBDA b : b \notin Elements(moved)) \o moved]

\* prepare_load: pin the blocks and submit the copy.  The planner has just
\* looked the keys up, so none of them is gone.
PrepareLoad(t, keys, gpu) ==
  LET cpu == [i \in 1 .. Len(keys) |-> BlockOf(t, keys[i])] IN
  [t EXCEPT !.pool = Cpu!Touch(@, cpu),
            !.pending = Append(@, Transfer("load", keys, cpu, gpu))]

\* prepare_store: copy down the entries <<block, key>> that are neither
\* resident nor on their way; all of them or, on a short pool, none.
PrepareStore(t, entries) ==
  LET fresh == SelectSeq(entries, LAMBDA e : ~Resident(t, e[2]) /\ e[2] \notin Storing(t))
      n     == Len(fresh)
  IN  IF n = 0 \/ n > Len(t.pool.free) THEN t
      ELSE [t EXCEPT
              !.pool = Cpu!TakeNewBlocks(@, n),
              !.pending = Append(@, Transfer("store", [i \in 1 .. n |-> fresh[i][2]],
                                             Cpu!NewBlocks(t.pool, n), [i \in 1 .. n |-> fresh[i][1]]))]

\* complete_store: the block is indexed, then unpinned.
CompleteStore(pool, key, b) ==
  Cpu!FreeBlocks([pool EXCEPT !.block_hash[b] = key, !.index = @ \cup {<<key, b>>}], <<b>>)

\* A transfer that has landed; complete_load only unpins.
Complete(pool, x) ==
  IF x.kind = "load" THEN Cpu!FreeBlocks(pool, x.cpu)
  ELSE FoldLeft(LAMBDA p, i : CompleteStore(p, x.keys[i], x.cpu[i]), pool,
                [i \in 1 .. Len(x.cpu) |-> i])

\* Mutant: only the stores wait for their event; a load counts as landed.
MutantLoadsAtOnce(t) == SelectSeq(t.pending, LAMBDA x : x.landed \/ x.kind = "load")

\* The transfers whose event has fired.
Done(t) == SelectSeq(t.pending, LAMBDA x : x.landed)

\* Mutant: completing a transfer under the loop skips the next one.
MutantEveryOther(t) == SubSeq(Done(t), 1, Smaller(1, Len(Done(t))))

\* The events of a drain, in order.
Events(t) == Done(t)

\* take_events: complete what has landed.
TakeEvents(t) ==
  [pool |-> FoldLeft(Complete, t.pool, Events(t)),
   pending |-> SelectSeq(t.pending, LAMBDA x : x \notin Elements(Done(t)))]

-----------------------------------------------------------------------------
(* The copies: KVCopyEngine. *)

\* Transfer i is the next of its stream, and nothing it waits for is ahead.
MayLand(i) ==
  /\ ~tier.pending[i].landed
  /\ \A j \in 1 .. i - 1 :
       tier.pending[j].kind \in {"store", tier.pending[i].kind} => tier.pending[j].landed

BlockRows(rows, b) == [j \in Offsets |-> rows[<<b, j>>]]

\* A copy lands: a store reads the rows as they are now.
Land(i) ==
  /\ pc \in {"idle", "execute"}
  /\ MayLand(i)
  /\ tier' = [tier EXCEPT !.pending[i].landed = TRUE]
  /\ LET x == tier.pending[i]
         at(blocks, b) == CHOOSE k \in 1 .. Len(blocks) : blocks[k] = b
     IN  \/ /\ x.kind = "store"
            /\ host' = [b \in CpuBlocks |->
                 IF b \in Elements(x.cpu) THEN BlockRows(kv, x.gpu[at(x.cpu, b)]) ELSE host[b]]
            /\ UNCHANGED kv
         \/ /\ x.kind = "load"
            /\ kv' = [row \in Rows |->
                 IF row[1] \in Elements(x.gpu) THEN host[x.cpu[at(x.gpu, row[1])]][row[2]]
                 ELSE kv[row]]
            /\ UNCHANGED host
  /\ UNCHANGED <<plannerVars, table, misread, loopVars, promotion, ready, prepared>>

-----------------------------------------------------------------------------
(* The planner's side. *)

\* The blocks commit has given a hash, as <<block, key>> in order.
Gained(before, after, r) ==
  LET new == SelectSeq(before.blocks[r],
                       LAMBDA b : before.block_hash[b] = NoHash /\ after.block_hash[b] # NoHash)
  IN  [i \in 1 .. Len(new) |-> <<new[i], after.block_hash[new[i]]>>]

\* _commit with the tier attached: mirror down what was indexed.  s is a pair
\* of the cache and the tier.
Mirror(s, r, sequence, upto) ==
  LET c == CommitBlocks(s[1], r, sequence, upto)
  IN  <<c, PrepareStore(s[2], Gained(s[1], c, r))>>

\* The tier once the given registrations have been committed.
Mirrored(entries, sequences) ==
  FoldLeft(LAMBDA s, e : IF status[e[1]] = "running" THEN Mirror(s, e[1], sequences[e[1]], e[2]) ELSE s,
           <<cache, tier>>, entries)[2]

\* Retiring r cashes its registrations in (_settle_pending_blocks).
Retired(r, sequence) ==
  Mirrored(SelectSeq(pending_blocks, LAMBDA e : e[1] = r), [q \in {r} |-> sequence])

\* The request a landed load belongs to (_take_promotion).
PromotedBy(x) == CHOOSE r \in Requests : promotion[r] = x.gpu

Covered(r) == Len(cache.blocks[r]) * BlockSize

\* A landed promotion is indexed; a dying one is freed.
LandPromotion(c, r) ==
  IF status[r] = "finished" THEN Free(c, r) ELSE Commit(c, r, Covered(r))

\* Mutant: only the queue and the batch count as work.
MutantQueuesOnly == waiting # <<>> \/ running # <<>>

\* has_unfinished_requests: promotions in flight, landed or dying count too.
Unfinished ==
  waiting # <<>> \/ running # <<>> \/ ready # <<>> \/ \E r \in Requests : promotion[r] # <<>>

\* The step begins: pending stores are fenced (_await_offloaded_stores), then
\* plan() drains the events and seats landed promotions while it can
\* (_drain_offload_events, _promote_ready).
BeginStep ==
  LET done  == SelectSeq(Events(tier), LAMBDA x : x.kind = "load")
      owner == [i \in 1 .. Len(done) |-> PromotedBy(done[i])]
      alive == SelectSeq(owner, LAMBDA r : status[r] # "finished")
      line  == ready \o alive
      n     == Larger(0, Min({Len(line), Len(free_slots), SeatLimit - Len(running)}))
      seat(r) == CHOOSE i \in 1 .. n : line[i] = r
      seated  == Elements(SubSeq(line, 1, n))
      open    == Len(free_slots)
  IN
  /\ pc = "idle" /\ ~prepared
  /\ Unfinished
  /\ LET t == TakeEvents(tier) IN
     tier' = [t EXCEPT !.pending = [i \in DOMAIN @ |-> [@[i] EXCEPT !.fenced = TRUE]]]
  /\ cache' = FoldLeft(LandPromotion, cache, owner)
  /\ promotion' = [r \in Requests |-> IF r \in Elements(owner) THEN <<>> ELSE promotion[r]]
  /\ num_computed' = [r \in Requests |->
       IF r \in Elements(alive) THEN Covered(r) ELSE num_computed[r]]
  /\ ready' = SubSeq(line, n + 1, Len(line))
  /\ status' = [r \in Requests |-> IF r \in seated THEN "running" ELSE status[r]]
  /\ slot' = [r \in Requests |-> IF r \in seated THEN free_slots[open + 1 - seat(r)] ELSE slot[r]]
  /\ free_slots' = SubSeq(free_slots, 1, open - n)
  /\ running' = running \o SubSeq(line, 1, n)
  /\ prepared' = (waiting # <<>> \/ running' # <<>>)
  /\ UNCHANGED <<prompt, output, max_new_tokens, block_plan, pending_tokens, waiting,
                 pending_blocks, deferred_steps, planVars, deviceVars, loopVars, host>>

\* Stage 0 with the tier attached.
CommitStage ==
  /\ prepared
  /\ BeginPlan
  /\ tier' = Mirrored(pending_blocks, [r \in Requests |-> Sequence(r)])
  /\ prepared' = FALSE
  /\ UNCHANGED <<deviceVars, loopVars, host, promotion, ready>>

\* The keys of the chain that the tier holds past the match, short of the
\* last token.
TierRun(r, match) ==
  LET chain == Tracked(r).hashes[r]
      limit == (Len(prompt[r]) - 1) \div BlockSize
      runs  == {k \in Len(match) .. limit : \A i \in Len(match) + 1 .. k : Resident(tier, chain[i])}
  IN  SubSeq(chain, Len(match) + 1, Max(runs \cup {Len(match)}))

\* The head of the queue is looked up, what the pool serves is touched in the
\* tier, and the rest of its prefix is promoted if the pool has the blocks
\* (_try_start_promotion).  This comes before the gates of admission.
OfferPromotion ==
  /\ pc = "admit" /\ ~prepared
  /\ waiting # <<>> /\ current = NoRequest
  /\ LET r == Candidate
         c == Tracked(r)
     IN
     \E match \in Lookup(c, r, Len(prompt[r])) :
       LET keys   == TierRun(r, match)
           tokens == (Len(match) + Len(keys)) * BlockSize
           grown  == Allocate(c, r, tokens, match)
           gpu    == SubSeq(grown.blocks[r], Len(match) + 1, Len(grown.blocks[r]))
           hot    == TouchTier(tier, SubSeq(c.hashes[r], 1, Len(match)))
       IN  \/ /\ keys # <<>> /\ Fits(c, r, tokens, match)
              /\ cache' = grown
              /\ tier' = PrepareLoad(hot, keys, gpu)
              /\ promotion' = [promotion EXCEPT ![r] = gpu]
              /\ waiting' = Without(waiting, r)
              /\ pc' = IF preempted THEN "batch" ELSE "admit"
              /\ UNCHANGED prepared
           \/ /\ keys = <<>> \/ ~Fits(c, r, tokens, match)
              /\ cache' = IF keys = <<>> THEN c ELSE RefuseAllocation(c, r, match)
              /\ tier' = hot
              /\ prepared' = TRUE
              /\ UNCHANGED <<promotion, waiting, pc>>
  /\ UNCHANGED <<reqVars, running, free_slots, pending_blocks, deferred_steps, cursor, current,
                 prefill, decode, preempted, deviceVars, loopVars, host, ready>>

\* Admission without the tier.
PlainAdmit ==
  /\ pc = "admit"
  /\ waiting = <<>> \/ current # NoRequest \/ prepared
  /\ AdmitStop \/ AdmitEvict \/ AdmitGrant \/ AdmitRefuse
  /\ prepared' = FALSE
  /\ UNCHANGED <<deviceVars, loopVars, tier, host, promotion, ready>>

\* The other stages of plan() and the end of the step.
OtherStages ==
  /\ \/ (ResumeGrant \/ ResumeEvict \/ ResumeStall \/ EndResume
         \/ FormDecode \/ GrowGrant \/ GrowEvict \/ EndPlan) /\ UNCHANGED <<deviceVars, loopVars>>
     \/ SkipEmpty
     \/ Publish
  /\ UNCHANGED offVars

\* Mutant: nothing is waited for.
MutantNoFence == FALSE

\* A store that was pending when the step began is still reading.
StillReading == \E x \in Elements(tier.pending) : x.kind = "store" /\ x.fenced /\ ~x.landed

\* The step's passes, behind the fenced stores on the compute stream.
OExecute == ~StillReading /\ Execute /\ UNCHANGED offVars

\* A harvested token; a request that ends mirrors its last blocks down.
OHarvest ==
  /\ HarvestStop \/ \E t \in Generated : HarvestToken(t)
  /\ LET r == Head(emitted) IN
     tier' = IF status'[r] = "finished" THEN Retired(r, prompt[r] \o output'[r]) ELSE tier
  /\ UNCHANGED <<host, promotion, ready, prepared>>

\* Mutant: a request aborted during its copy is freed at once.
MutantFreePromoting(r) == Free(cache, r)

\* The blocks of a request aborted during its copy are kept for the landing
\* (_retire_promotion).
KeepPromoting(r) == cache

\* abort, of a request in any place.
OAbort(r) ==
  /\ ~prepared
  /\ \/ /\ promotion[r] # <<>>
        /\ r \in MayAbort /\ pc = "idle" /\ status[r] = "waiting"
        /\ status' = [status EXCEPT ![r] = "finished"]
        /\ cache' = KeepPromoting(r)
        /\ UNCHANGED <<prompt, output, max_new_tokens, num_computed, slot, block_plan,
                       pending_tokens, waiting, running, free_slots, pending_blocks,
                       deferred_steps, planVars, deviceVars, loopVars, tier, ready>>
     \/ /\ promotion[r] = <<>>
        /\ AbortRequest(r)
        /\ tier' = Retired(r, Sequence(r))
        /\ ready' = Without(ready, r)
  /\ UNCHANGED <<host, promotion, prepared>>

OSubmit(r) == ~prepared /\ Submit(r, PromptOf[r]) /\ UNCHANGED offVars

\* The event loop finds nothing to do.
OPoll == ~Unfinished /\ Poll /\ UNCHANGED offVars

OStep ==
  \/ BeginStep \/ CommitStage \/ OfferPromotion \/ PlainAdmit \/ OtherStages
  \/ OExecute \/ OHarvest

ONext ==
  \/ \E r \in Requests : OSubmit(r) \/ OAbort(r)
  \/ \E i \in 1 .. Len(tier.pending) : Land(i)
  \/ OStep \/ OPoll

OSpec == OInit /\ [][ONext]_oVars

\* The engine keeps stepping while it has work, and the streams keep copying.
OFairSpec ==
  /\ OSpec
  /\ WF_oVars(OStep)
  /\ WF_oVars(\E i \in 1 .. Len(tier.pending) : Land(i))

-----------------------------------------------------------------------------
\* A key the tier offers is in a block whose rows are that key's prefix, so a
\* promotion never brings up anything else: neither a store that is late nor
\* a CPU block that was handed out again leaves a wrong copy behind.
TierHoldsItsKeys ==
  \A e \in tier.pool.index : \A j \in Offsets :
     host[e[2]][j] = SubSeq(e[1], 1, Len(e[1]) - BlockSize + j + 1)

\* A copy in flight keeps both its ends: the CPU blocks are referenced, and
\* the GPU blocks of a load belong to its promotion alone, unindexed, even
\* when the request has been aborted meanwhile.
CopiesKeepTheirBlocks ==
  \A x \in Elements(tier.pending) :
    /\ \A b \in Elements(x.cpu) : tier.pool.ref_cnt[b] > 0 /\ b \notin Elements(tier.pool.free)
    /\ x.kind = "load" => \A b \in Elements(x.gpu) :
         cache.ref_cnt[b] = 1 /\ b \notin Elements(cache.free) /\ Cached(cache, cache.block_hash[b]) = {}

\* Every reference of the pools has its holder: blocks by running, parked,
\* landed and dying requests, CPU blocks by copies in flight.  When the engine
\* is out of requests all blocks are free.
NothingLeaks ==
  /\ \A b \in Blocks :
       /\ cache.ref_cnt[b] = Cardinality({r \in Requests : b \in Holds(r)})
       /\ cache.ref_cnt[b] = 0 <=> b \in Elements(cache.free)
  /\ \A r \in Requests : Holds(r) # {} =>
       status[r] = "running" \/ promotion[r] # <<>> \/ r \in Elements(ready)
  /\ \A b \in CpuBlocks :
       tier.pool.ref_cnt[b] = Cardinality({i \in DOMAIN tier.pending : b \in Elements(tier.pending[i].cpu)})
=============================================================================
