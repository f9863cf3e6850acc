# A TLA+ verification of rapid_llm's serving core

rapid_llm is an LLM inference engine. This project models the part of it that decides
*which request runs, in which cache slot, over which KV-cache blocks, and what its client
hears of it*: the paged block allocator with prefix caching and its CPU tier, the batch
planner, the device's view of the block tables, the scheduler's three kinds of step, the
asynchronous front end with its scheduler process, the data-parallel router, and the
lockstep of data-parallel attention. The numerical code (kernels, model definitions,
sampling) enters only through the cache rows it reads and writes.

Paths below are relative to `src/rapid_llm/`.

## 1. The system

### Inventory

| Component | State | Operations | Hard behaviour | What makes it correct |
|---|---|---|---|---|
| Free block queue (`engine/block_pool.py`) | links threaded through the blocks, two sentinels, a count | append, prepend, popleft, remove from the middle | any order of operations at both ends and in the middle | links stay mutual, the count is the length, it is a double-ended queue |
| Block pool (`engine/block_pool.py`) | `ref_cnt`, `block_hash`, the hash index, the queue | get_new_blocks, touch, free_blocks, cache_full_blocks, reset | a cached block is free and hittable at once; reuse must un-index | counts are holders, the index names written blocks only |
| KV cache coordinator (`engine/kv_cache_spec.py`) | per request and group: blocks, cached cursor | allocate (adopt, then draw), cache_blocks, free, find_longest_cache_hit | adoption against drawing; refusal gives references back | all or nothing; nobody else's blocks change |
| Prefix cache (`engine/prefix_cache.py`) | per request: hash chain, committed tokens, table cursor | track, lookup, allocate, observe, commit, free, take_table_writes | commits lag execution by a step | a hit returns the K/V of the very same prefix |
| Batch planner (`engine/batch_planner.py`) | waiting and running queues, free slots, pending registrations, request fields | add, abort, `plan()` (commit, resume, admit, grow), finish, preempt | eviction inside a walk over the same lists; refusal, stalls, deferral | slots, queues and blocks stay partitioned; plans can be run; nobody waits forever |
| Scheduler (`engine/scheduler.py`) | sampled tokens in flight, `sent_tokens` | step, harvest, event loop, abort | preemption rewrites what the loop has indices into | each client gets each of its tokens once, in order |
| Slot batch and worker (`executor/slot_batch.py`, `executor/worker.py`, `modules/attention.py`) | block table on the device, K/V rows | write_block_tables, prefill grid, extend, decode | entries left by earlier occupants, padding, adjacent-row addressing | a row attends over its own prefix only |
| KV offloading (`engine/kv_offload/`, `executor/kv_offload.py`) | the tier's pool and index, transfers in flight, host rows; parked, landed and dying promotions | prepare_store, prepare_load, take_events; mirror, promote, land, seat | copies run beside the engine and race with eviction, reuse and abort | a key the tier offers holds that key's rows; a copy keeps both its ends; parked requests come back |
| Speculative decoding (`engine/ngram_proposer.py`, `engine/scheduler.py`) | drafts, verified tokens | propose, reserve rows, verify, accept, harvest | rejected rows stay in the cache; reservation grows a request already planned | the output is what plain decoding gives |
| Pipelined step (`engine/scheduler.py`) | launched steps, `pending_tokens`, tokens on the device | launch, harvest late, skip stopped requests | a result comes back for a request that changed since its launch | counts go back to zero, nothing is recorded twice or for the wrong request |
| Asynchronous engine (`engine/async_engine.py`, `engine/scheduler_ipc.py`) | streams by id, lifecycle, two queues | generate, abort, receive, shutdown, process exit | three threads of control and a process that may die | every stream ends; abandoned work is aborted |
| Data-parallel router (`engine/data_parallel.py`) | loads, charges, resident prefixes, routes | select, send, receive, generate, shutdown | a completion races with abort, refusal and failure | each charge is released once, by its own request |
| Data-parallel attention (`distributed/dp_attention.py`, `engine/scheduler.py`) | rounds, pass counts | exchange, dummy forwards, wake-up, leave | every replica must make the same calls in the same order | collectives pair up; the grid can be shut down |
| Tensor-parallel control plane (`executor/executor.py`, `distributed/parallel_state.py`) | broadcast plans | broadcast, barrier | a follower that died | not modelled, see section 6 |
| Sampling, detokenizing, parsing, HTTP, kernels, models, CUDA graphs, benchmarks | — | — | numerical, textual or hardware | out of scope |

### How they interact

Inside the scheduler process one thread does everything. `run_event_loop` drains client commands, calls
`step()`, and publishes. `step()` calls `BatchPlanner.plan()`, which makes all allocator
calls; a plan carries to the worker, per request, the chunk and the *new* block-table
entries (each is told once). The worker installs the entries and runs first chunks,
resumed chunks and decode rows as separate passes. `_harvest` appends the sampled tokens
and retires requests. A block filled in a step is put in the hash index only at the start
of the next plan (`_commit_pending_blocks`), because `num_computed_tokens` moves when a
chunk is planned, not when it has run. So although nothing runs in parallel there, the
order of calls inside and between steps matters everywhere: interleavings are those of
client commands with steps, and of requests inside a plan.

Real concurrency surrounds that loop. Copies between the pool and the CPU tier land on
streams of their own. The pipelined step leaves passes on the device while the host plans
the next one. The front end talks to the process over two queues, with one receiver
thread, one coroutine per stream and a shutdown coroutine; with several replicas the
router sits between, with a command queue per replica and one event queue. With
data-parallel attention the replicas' loops meet in collectives at every round.

## 2. Modules

| Module | Models | Built on |
|---|---|---|
| `DeQueue` | abstract double-ended queue: what the free list promises | — |
| `FreeBlockQueue` | the linked free list, link by link | refines `DeQueue` |
| `FreeBlockQueue_proofs` | theorems about it | `FreeBlockQueue` |
| `BlockLedger` | abstract promise of the paged cache, eviction order open | — |
| `BlockLedger_proofs` | theorems about it | `BlockLedger` |
| `PrefixCache` | the allocator as functions from one cache value to the next: pool, coordinator, prefix cache | — |
| `CacheClient` | the allocator under every legal sequence of calls | `PrefixCache`, refines `BlockLedger` |
| `SlotBatch` | block tables, rows written and attended by a pass | `PrefixCache` |
| `BatchPlanner` | queues and `plan()` | `SlotBatch` |
| `Scheduler` | the synchronous step, harvest, event loop, clients | `BatchPlanner` |
| `PipelinedScheduler` | `step()` with the launch/harvest loop | `Scheduler` |
| `SpeculativeScheduler` | `step()` with drafts and verification | `PipelinedScheduler` |
| `CacheLemmas` | facts about lists, and what each operation of the allocator does to a cache that is in order | `PrefixCache` |
| `CacheClient_proofs` | theorems about the allocator: refinement, transfer of the ledger's theorems | `CacheClient`, `CacheLemmas`, `BlockLedger_proofs` |
| `Scheduler_proofs` | theorems about the synchronous engine | `Scheduler`, `CacheLemmas` |
| `OffloadScheduler` | the engine with the CPU tier | `Scheduler`, a second `PrefixCache` pool |
| `AsyncEngine` | streams, receiver, shutdown, scheduler process | — |
| `AsyncEngine_proofs` | theorems about it | `AsyncEngine` |
| `Router` | load policies, routes, replicas | — |
| `Router_proofs` | theorems about it | `Router` |
| `Lockstep` | the replicas' event loops and their collectives | — |
| `Lockstep_proofs` | theorem about it | `Lockstep` |
| `MC*` | constants for TLC | — |

**FreeBlockQueue.** `next_free_block`, `prev_free_block` are the link fields, `NoBlock` is
`None`. `Append_`, `Prepend`, `PopLeft`, `Remove` are the methods; the guards are their
`ValueError`s and the caller's rule that a block is linked at most once. `Walk` is
`__iter__`: the refinement maps the list to the sequence a walk yields.

**BlockLedger.** What any user of the cache may rely on. `held[r]` is the coordinator's
list of blocks, `chain[r]` the hashes of r's full token blocks, `computed[r]` the number of
leading blocks the model has filled, `content[b]` the prefix whose K/V the rows of b hold
(a ghost of the device). A digest is an opaque value, different for different prefixes;
collisions are left out. The null block has a permanent reference in the code, is skipped
by every accounting path, and is not in `Blocks`. Eviction order is any order in which
hash-less blocks go first.

**PrefixCache.** The allocator is called, never runs by itself, so its operations are
functions over a record with the code's fields; `CacheClient` and `BatchPlanner` keep that
record in a variable. A hash is represented by the token prefix it digests.
`cached_block_hash_to_block` may hold several blocks for one hash and the code returns
any of them: `Lookup` is a set. `Fits` is the boolean `allocate` returns, `Allocate` and
`RefuseAllocation` its two effects. One full-attention group is modelled, the only layout
wired to the device.

**SlotBatch.** A K/V row is named by the token prefix it was computed from, so "attends
over its own prefix" is an equation. A sequence that attends over anything else is
`Misled` and what it writes is `Junk`. Where a padding column and a real column of one
scatter meet in a row, either write may win. `TableRow` is the mapping through the table
(extend, decode, all writes); `RunRow` the chunked kernel's (adjacent rows from
`b_kv_base`).

**BatchPlanner.** `plan()` is one call that walks its queues. Here it is one action per
request handled, with `pc` for the stage and `cursor`, `current`, `prefill`, `decode` for
its locals; no client command is applied until the step has ended.
Stage 1 iterates over the live list that evictions delete from; `cursor` is that
iterator's index, so the model skips whom the code skips. `preempted` says whether
this plan evicted anybody, which ends admission in the code as well.

**Scheduler.** `Submit` and `AbortRequest` are commands applied between steps. `Execute`
is the three passes in the code's order, `HarvestStop` and `HarvestToken` one sampled
token each (stop token or repetition verdict are free choices), `Publish` the
event loop's increments through `sent_tokens`. `misread`, `delivered` and `asked` are
observations. In synchronous mode `_drop_pending_blocks` finds nothing to
drop: an eviction takes a request with no work in the plan so far, and everything older
was committed when the plan began.

**PipelinedScheduler.** `inflight` is the queue of launched steps, `next_tokens` the
tokens the device keeps by slot. `Launch` feeds a decode row from `next_tokens` and lets
the host's length run ahead by `pending_tokens`; `HarvestLate` takes the oldest step,
`Spend` counts its tokens off and `TooLate` skips requests that have ended. The model is
greedy: the token sampled at a position is that position, or the stop token, so
`GreedyContinuation` says that a request's output is what plain decoding would have given.
`depth` is chosen at the start, so one run covers the engine with and without pipeline.

**SpeculativeScheduler.** Any draft is possible: right up to some token, wrong from there.
`Reserve` is `reserve_speculative` (rows limited by the window and by the pool, new table
entries appended to those already staged), `Verify` the extend pass with its acceptance,
`HarvestVerified` the harvest of several tokens of one request; `RestOfStep` runs the
step's other passes afterwards.

**OffloadScheduler.** `tier` is the manager (a `PrefixCache` pool and the pending
transfers), `host` the rows on the CPU side, `promotion` the GPU blocks a request's load
fills. `Land` moves the rows of one transfer; stores land in order and so do loads, each
after the stores submitted before it, which is what the two streams and their events
guarantee. `BeginStep` is the drain of events with the seating of landed requests,
`CommitStage` mirrors fresh blocks down, `OfferPromotion` and `PlainAdmit` are the two
ways the head of the queue is handled. An aborted request with a copy under way keeps its
blocks until the copy lands. A step waits for the stores whose blocks it may overwrite
(`StillReading`).

**AsyncEngine.** One request per client. A coroutine is idle, tokenizing, streaming or
done; the receiver thread polls, routes and marks failure in two steps (`MarkFailed`, then
`FailAll`, with the other threads in between); `Crash` is an exception reported by the
process, `Die` a process that ends without a word. `Close` drops a stream.
`Controller = TRUE` puts the data-parallel transport in place of the queues.

**Router.** The four policies share `Select` and `Uncharge`; `resident` is the bounded list
of prefixes the cache-aware policy remembers. `Route`, `Forget` and `Release` say what
`send(AddRequest)`, `send(AbortRequest)` and `_release` make of the policy, the routes and the
command queues (`Tables`), because a batch repeats them id by id (`OneByOne`). `Add` and
`Abort` are `send`; `Generate` is the blocking batch call; `ReceiveOutput` and
`ReceiveFailure` are what both of its modes do with an event. `uses` numbers the uses of an
id so that a late event can be told apart.

`AddFails` and `GenerateFails` are a `send` in which a `put` raises. The requests of a batch
are charged and routed first, then each replica gets its part in turn, so the replicas before
the one that fails already have theirs (`RouteUpTo`). With data-parallel attention each part
is followed by a wake-up of the other replicas, and when that raises the replica has its
part as well (`Failures`). `send` takes back every charge and route (`TakenBack`), and the
aborts of `generate()` then find no route (`Forget` does nothing). The requests that were
queued all the same are what the history variable `disowned` remembers (`Delivered`): they
run to their end and nobody can abort them. A `put` on an open queue raises only when it
has to start the queue's feeder thread, and a route survives only a `send` whose puts all
returned; so the abort of a routed request is not refused by a queue that took the request.

**Lockstep.** A replica is at its poll, in its plan, in a collective or harvesting; its
requests are reduced to the steps they still owe. A collective completes when all replicas
are in one: collectives carry no name, and that everybody is in the same one is the
property `SameCollective`, not a guard. The puts of a shutdown reach the queues one by one
(`outbox`).

Definitions named `Mutant...` stand next to the definition they vary: each is a plausible
mistake in that code and breaks one of the properties; the specifications do not use them.

## 3. What the runs check

The scheduler runs use blocks of two tokens: the smallest size with a partly filled block.

| Run | Instance | What it shows |
|---|---|---|
| `free_block_queue` | 4 blocks | `LinksAreMutual`, `CountIsLength`, `ImplementsDeQueue`: removals at either end, in the middle and of the last member |
| `block_ledger` | 3 blocks, 2 requests, chains that share a block and then differ | `RefCountsAreHolders`, `CachedBlocksAreWritten`, `ReadsOwnPrefix` |
| `cache_client` | 4 blocks, 2 requests, sequences up to 5 tokens, every initial queue order | `ImplementsLedger` (refinement, hash-less blocks evicted first included); `NoOrphanSuffix`: a cached block's prefixes are cached too |
| `engine` | 3 requests, 2 slots, full-size pool (4 blocks, contexts of 4), policy off; synchronous, speculative (drafts up to 2) and pipelined (depth 1) | `GreedyContinuation`, `PendingIsInFlight`, `RowsInWindow`, `AttendsOwnPrefix`, `CachedRowsAreWritten`, `StreamComplete` for a streaming and non-streaming clients, `NothingEvicted`, `WithinTokenBudget`, with stops, repetition stops and aborts |
| `preemption` | 3 requests, 2 slots, 4 blocks for contexts of 6, policy on, decode window 1 | every branch of the planner: `PlacesPartition`, `NoBlockLeak`, `WritesArePrivate`, `PlanIsRunnable`, `GenerationBounded`, `AttendsOwnPrefix` |
| `progress` | 3 requests, 2 slots, full-size pool, policy on | `EveryRequestFinishes`: eviction for time-sharing does not thrash |
| `offload` | 3 requests, 2 slots, 3 blocks, 3 CPU blocks, two requests abortable | `TierHoldsItsKeys`, `CopiesKeepTheirBlocks`, `NothingLeaks`, `AttendsOwnPrefix`, `EveryRequestFinishes` |
| `async_engine` | 2 clients with 2 and 1 tokens, a process that may crash or die at any point, shutdown at any point | `WaitersAreReachable`, `NoOrphans`, `FinishedIsComplete`, `EveryStreamEnds` |
| `router` | 3 ids of which two share a prefix, 2 replicas with data-parallel attention, cache-aware policy with room for 3 hashes, single sends and `generate()` batches, either of which may raise half sent | `LoadIsCharges`, `RoutesAreOwned`, `ExactRelease`, `NothingLeftBehind`, `GenerateReturns` |
| `lockstep` | 2 replicas, 2 requests of up to 2 steps, 2 passes a step, one stall, shutdown, orphaning | `SameCollective`, `GridEnds`, `WorkIsServed` |

Each `TypeOK` holds on the instance of its module's run as well; the configurations leave it
out in favour of properties that say more.

Why the bounds are enough. Two slots and three requests give a queue behind a full batch,
a slot reused by a third request, and an eviction in favour of somebody who is neither the
victim nor its neighbour. Prompts share a first block, share all but the last token, or
equal each other, so hits are absent, partial and capped by the last-token rule; the long
prompts take three chunks. Four blocks against contexts of three blocks force every kind
of pressure: refusal, stall, eviction at resume, at admission and at growth. Where the
pool has a full context per slot it never runs short, which is the code's condition for
the policy-off promises. In `preemption`, `progress` and `offload` a sampled token is
always 0: generated tokens then complete blocks equal to somebody's prompt blocks, the
case in which sharing matters, and the other choice at a sample, the stop token, is an
action of its own.

In `engine` two drafted tokens are the fewest that give a wholly right, a partly right and
a wrong draft, a stop inside a draft, and a stretch that crosses a block and meets the end
of the window. One step in flight is the depth the code uses by default. In `offload` the
second prompt takes the whole pool, so the blocks of the first request are evicted from
the GPU while the tier still holds them; the third request has the first one's prompt and
is promoted; three CPU blocks for four distinct keys make the tier evict as well. In
`router` a capacity of three with four hashes makes the index forget;
`EnableDpAttention` is on, which adds the failing wake-up and changes nothing else; and two
replicas are enough for a batch whose first part is delivered and whose second is not. In `lockstep` one
replica can be idle, stalled, or have fewer passes than the other.

In the passing scheduler runs `MaxChunkSize = BlockSize` (or 0, unchunked), so the padding
of a first-chunk grid stays in the chunk's own blocks, and `ChunkedMinRows = 0` stands for
the code's infinite threshold (resumed chunks run as rows). The other settings are those
of `chunked_grid` and of the padded grid below.

**Fairness.** `FairSpec` of `Scheduler` has weak fairness on `EngineStep`, the disjunction of
all steps of the scheduler process: the event loop calls `step()` as long as there is work
and a step always runs to its end. There is no fairness on clients nor on the choice among
sampled tokens; a request ends by its length limits anyway. `Poll` is the idle loop.
`OFairSpec` adds weak fairness of the landing of copies: a submitted copy completes.
`AsyncEngine`'s `Spec` is weakly fair to what a started thread, coroutine or process does
next, with the polling of an empty queue as a step of the receiver; nobody has to call
`generate` or `shutdown`, to drop a stream or to die. `Router`'s `Spec` is fair to the
receiving thread and to live replicas. `FairSpec` of `Lockstep` is fair to the replicas, to
puts, and to collectives in which everybody has arrived. Only `async_engine`, `router` and
`lockstep` turn the deadlock test off: there the system may have stopped for good.

## 4. Disagreements between the code and what it says

Two runs each check one statement of the repository and TLC refutes it:

- `stream_loss` (`StreamComplete`): `sent_tokens` is not reset when `_preempt` moves the
  output into the prompt, so a streaming client misses as many tokens after re-admission
  as it had received before the eviction (`engine/scheduler.py:1267`).
- `chunked_grid` (`AttendsOwnPrefix`): a resumed chunk that runs as a grid takes a slot's
  history as adjacent rows, which paging does not provide.

The others are found by the same modules under other constants; none of the configurations
above has these settings. To see one, change the configuration as listed.

| Where | Setting | Violated | What happens |
|---|---|---|---|
| `batch_planner.py:400`, `:883` | `Preemption.cfg` with `EnablePreemption = FALSE`, `MaxSeqLen = 3`, `Blocks = {1,2,3}`, `Prompts <- ShortPrompts`, `MaxGenLen = 0` | `NothingEvicted` | `_reserve` evicts with the policy off, and the default pool is smaller than a full context per slot when `max_seq_len` is not a multiple of the block size |
| `batch_planner.py:488`, `:631` | `Preemption.cfg` with `Slots = {1,2,3}`, `Blocks = {1,...,8}`, `EnableCaching = FALSE`, `EnablePreemption = FALSE`, `MaxSeqLen = 12`, `MaxGenLen = 0`, `Prompts` the one prompt of eight zeros | `WithinTokenBudget` | Stage 1 walks the live `_running`; evicting somebody listed earlier shifts the list and its walk passes over the next request in mid-prefill. Admission prices without that one and admits another chunk, and the next plan resumes all of them: a prefill group of 6 padded tokens under the ceiling of 4 that `batch_planner.py:163` states |
| `batch_planner.py:496` | `Progress.cfg` with two requests, 4 blocks, `MaxSeqLen = 6`, `Prompts <- LongPrompts`, `MaxGenLen = 1`, `EnablePreemption = FALSE`, `Streaming = {}` | `EveryRequestFinishes` | two prompts in mid-prefill fill the pool; neither may be evicted and both stall forever |
| `slot_batch.py:224` | `Preemption.cfg` with `MaxChunkSize = 4`, `MaxNumBatchedTokens = 8`, `Prompts <- MixedPrompts` | `AttendsOwnPrefix` | padding columns of a prefill grid write through table entries of the slot's previous request |
| `scheduler.py:234` | `Engine.cfg` with `Depths = {2}` | `RowsInWindow` | with two steps in flight a row is launched past the context limit |
| `scheduler.py:907` | `Engine.cfg` with `Depths = {1}`, `Blocks = {1, 2}` | `GreedyContinuation` | a forced eviction between launch and harvest loses or repeats a token |
| `batch_planner.py:926`, `scheduler.py:785` | `Offload.cfg` with `Slots = {1}`, `EnablePreemption = TRUE` | `TierHoldsItsKeys` | the step waits for stores before it plans; a store submitted by that plan can still read a block which an eviction in the same plan gives away |
| `batch_planner.py:615-618`, `:860-862` | `Offload.cfg` with `Slots = {1}`, `Blocks = {1, 2}`, `MaxSeqLen = 4`, `MaxGenLen = 1`, four requests, `<<1,1,1>>` for `Long` | `EveryRequestFinishes` | promotions take blocks before the seat gate; parked requests hold the pool, the running one cannot grow |
| `async_engine.py:407`, `data_parallel.py:583` | `AsyncEngine.cfg` with `Controller = TRUE` | `EveryStreamEnds` | `receive` raises on a replica that died without a word, the receiver thread catches only `Empty`, ends, and tells nobody |
| `data_parallel.py:525-532`, `:670-672` | `Router.cfg` as it is | `ExactRelease` without its last disjunct | a `put` raises for a later replica; `send` takes back the routes of the whole batch and the aborts of `generate()` find none, so an earlier replica works on requests that have neither a route nor an abort |
| `data_parallel.py:597` | `Router.cfg` with `MaxUses = 2` | `ExactRelease` | the terminal event of an aborted request arrives after its id was submitted again and releases the new charge (the engine's own front end draws ids from a counter and does not reuse them) |
| `scheduler.py:1238` | `Lockstep.tla`: no replica is ever "failed" while `MayOrphan = FALSE` | that statement | the shutdown reaches one replica a round earlier than the other; the first leaves and the second's collective fails |
| `scheduler.py:867` | `Lockstep.cfg` with `Pipelined = TRUE` | the pop's guard | an idle replica that took part in a round has nothing in flight to harvest |
| `batch_planner.py:189-190`, `:634` | by reading | — | admission evicts the youngest running request for the head of the queue, which may be younger still; the documentation says "an older waiting one" |

## 5. What is proved

`BlockLedger_proofs` proves, for every finite set of blocks and requests and every set of
chains without repetition (`LedgerAssumption`; a chained digest covers a longer prefix at
each position, so a chain never repeats), that the ledger keeps

- `RefCountsAreHolders` (`RefCountTheorem`),
- `CachedBlocksAreWritten` (`CachedTheorem`),
- `ReadsOwnPrefix` (`PrefixTheorem`), and `TypeOK` (`TypeTheorem`).

None of them is inductive alone. The inductive invariant `IInv` joins them with
`IndexAgrees`, `SharedBlocksAreCached`, `HeldOnce` and `CachedInPlace`. The argument: a
write goes to the first block a request has not computed; by `CachedInPlace` a cached block
in its list is among the computed ones, so the written block is not cached, and by
`SharedBlocksAreCached` it has no other holder, so neither the index nor another request's
prefix sees the write. A fresh block has count zero, hence no holder
(`RefCountsAreHolders`), hence drawing it disturbs nobody, and un-indexing it restores
`IndexAgrees`. `HeldOnce` makes "one reference less per block" the right arithmetic.
`GiveIInv` carries the part common to admission and growth; there is one lemma per
action.

`FreeBlockQueue_proofs` proves `LinksAreMutual`, `CountIsLength` and `TypeOK` for every
finite set of blocks, from `IInv`, which adds that the sentinels stay at the ends.

`Scheduler_proofs` proves `PlacesPartition` and `GenerationBounded` of the synchronous
engine for any requests, any number of slots and blocks, any prompts and any settings of
the planner (`PlannerAssumption`: slots are numbered from 1 as `free_slots` is filled, token
ids and limits are naturals, and what `SchedulerConfig` refuses is refused). The cache is
opaque in the proofs of these two: they hold whatever it answers, so they cover every pattern of
refusal and eviction and not only those of a particular pool. Neither property is
inductive. `Places` adds what the code keeps implicitly: the queues list exactly the
requests of their status (`Queues`), slots are injective and the free list is their
complement (`Seats`), and what was generated before the last eviction together with what may
still be stays under the cap (`Allowances`; the arithmetic of `_preempt`, which moves output
into the prompt and lowers `max_new_tokens` by as much). `PlanInv` is about a plan half
made, because that is where an eviction can hurt: chunks belong to different running
requests (`Grants`), Stage 1 has already walked past whoever it served or is serving
(`Walk`: `remove` on the live list shifts whoever comes later, never who was served, so
nobody gets two chunks), the request admission evicts for still waits (`Candidacy`),
decode rows are apart from prefills and run (`Batch`, `BatchRuns`), and so a step samples at
most one token per request, of a request that runs (`Emission`), without which
`HarvestToken` could overrun the cap or retire somebody twice. One lemma per action; an
eviction's effect on the places is a lemma of its own (`PreemptPlaces`), used by the three
stages that evict.

It also proves `NoBlockLeak`, for every finite pool, every block size and with caching on or
off (`CacheAssumption`: `BlockSize` is positive, blocks and requests are finite sets). Here
the cache is not opaque. `BlockInv` says that it is in order (`InOrder`), that whoever does
not run holds nothing (`Lent`), and that the planner asks for sane things (`Asks`: numbers
of tokens, and a prompt that is not empty for whoever was submitted, without which the
"leave the last token" rule would look up a negative length). `InOrder` is more than the
property: each request's list has no block twice (a list that did would free one block
twice, with a count of one), the index and the blocks' own hash fields agree, and the i-th
hash of a chain digests i blocks of tokens. The last two are needed at a hit: two
places of a match have hashes of different length, so different blocks, so adoption takes one
reference per place. `CacheLemmas` has one lemma per operation: `AdoptInOrder`,
`DrawInOrder` and `AllocateInOrder`, `RefuseInOrder`, `CommitInOrder`, `FreeInOrder`, each
saying also whose holdings change. A draw takes blocks of count zero, so none the request
holds already; a free enters exactly the blocks of count one in the queue
(`FreedEnter`), which are not there yet because they have a holder. The folds of the model
(`OneByOne`) are recursive functions; `WalkExists` and `WalkStays` prove that such a
function exists and that it stays where each step keeps it, by a least counterexample.

`WritesArePrivate` and `PlanIsRunnable` need what `BlockInv` does not have: how far each
request has been computed, at every point of a plan, and what its blocks and its
registrations say of that. Two more invariants say it, and neither mentions a row yet.

- `Progress` is about counts. A request is computed within its prompt, and a prompt that is
  complete has its first token or gets it in this step (`Counts`, `Sampling`): without it
  Stage 3 could decode a request with no token to feed, or the device sample one twice. A
  chunk is not empty (`Chunks`); that rests on the rule that a hit leaves the last token
  (`HitLeavesOne`) and on Stage 1 passing over whoever is complete, also when it returns to
  the request it has just evicted somebody for (`Unfilled`).
- `Stock` is about rows. `num_computed` counts a chunk when it is granted, before it runs;
  `Computed` is what has run (`Ahead` is the difference, and a decode's last token is not
  there before the device has run). `Stocked` says that a cache is `Tidy` in the sense above
  for these counts: the cursor of registrations is within what is computed, that is within
  what the blocks cover. `Registrations` says that no deferred registration reaches past
  what is computed when it is cashed in, by the next plan, by a finish or by an abort, although
  it is queued before the rows exist and evictions come in between. `Coverage` says that
  whoever the plan has served so far has blocks up to what it will compute.

A planned write is past `Computed`, so past the cursor, so in a block without hash, which
has one holder (`SharedAreCached`); and it is within `Promised`, so within the blocks. The
lemmas of `CacheLemmas` under "Rows" show more than that of each operation of the
allocator: whatever the rows hold of the computed prefixes and of the indexed ones, they hold
after it (`Keeps`), since no operation moves a row. `NextStock` carries this through every
step but the device's (`Undisturbed`).

`CachedRowsAreWritten` and `AttendsOwnPrefix` are about the device itself: the rows, and what
a pass reads of them through the block tables. Neither holds of every configuration, and
`GridsAreClean` says exactly when it can fail: a grid pads a chunk past its request's blocks
through a table entry that an earlier occupant left (`PaddingLands`; `slot_batch.py:224`), or
a resumed grid reads from `b_kv_base` a run of rows that is not the table's (`InOneRun`;
`slot_batch.py:235`). The two theorems have that as their only hypothesis
(`Spec /\ []GridsAreClean => []P`, `CleanGridsKeepTheCache` and `CleanGridsMisleadNobody`), for
every pool, prompts, chunking and preemption: there is no third way. The hypothesis is about
behaviours and not about settings, because with the default chunk size and threshold it
depends on the prompts and on who had the slot before whether a grid is clean. The invariant `Sound` adds `Device` to
what came before:

- `Tables` is about what the executor has been told. The entries of a running request's slot
  are its blocks, up to where the writes of the plan in the making begin, and those writes
  are the rest (`Mapping`, `Shown`). A table write is told once: `TakeTableWrites` counts a block as
  told when the plan is made, so a plan that forgets it would leave the entry wrong for
  good; an eviction in the same plan, a refused admission and a slot that changes hands all
  pass through here, one lemma per action. `InstalledShows` and `ExecuteTables` then say
  that, once installed, the tables show all the blocks of everybody the plan names.
- The rows of whatever is `Computed` of a request, and of whatever the index offers, hold the
  K/V of their prefixes (`RowsHold`), and nobody has been misled. The steps of the planner and
  of the loop keep that by `Undisturbed`. For the device's step, a row past what is
  computed belongs to one request and one position (`OwnRow`, from the privacy above), so a
  pass disturbs nobody (`PassHolds`), also a grid whose padding and chunks meet
  (`ScatterHolds`, `PaddingIdle`), and each of the three passes finds what the ones
  before it wrote (`RowPassHolds`, `FreshGridHolds`, `ResumedGridHolds`, `PassesHold`).

`WithinTokenBudget` and `NothingEvicted` rest on the same invariants, with the limits on a
chunk (`Short`; `Mapped` joins them), and
on what the planner prices. A plan's grid costs its longest chunk times its chunks
(`Longest`), but admission prices a candidate by its first chunk before the hit is known, an eviction may come
between the pricing and the grant, and resumed chunks are not priced at all. `Budgeted` says
what is left to rely on: each chunk of the plan fits the budget as many times as there are
chunks; the requests this plan resumes or the next one will (`Awaiting`: those in
mid-prefill, `Midway`) fit with the widest chunk each; whoever an eviction made room for was
priced before it; and with chunking off nobody is in mid-prefill. Admission
preserves this because a chunk that does not complete its prompt is the widest there is
(`ChunkShape`), so what was priced for this plan bounds what the next ones resume, provided
that everybody in mid-prefill is on the plan when admission prices. That proviso,
`NobodyPassedOver`, is the hypothesis of `PricedPlansFitTheBudget`, and the only one; section 4
shows what happens without it. `WithinTokenBudgetTheorem` discharges it from the constants: with
chunking off, or with a pool that has a full context for each slot (`FullPool`), which
`Engine.cfg` satisfies. There `NothingEvictedTheorem` holds too: a request that asks for a
block finds one free, because the blocks held by the others, each counted at its place in
its slot's row, do not fill the pool (`RoomLeft`, an injection from blocks to places;
`FullPoolFits`), so `_reserve` never refuses and Stage 1 passes over nobody (`Unhindered`).

The first part of `CacheLemmas` has what those proofs need of lists: `ListOf(s, T)` says that `s` lists the
members of `T`, each once, and the lemmas say what `Append`, `Tail`, concatenation,
`RemoveFirst` and selection by places make of it. `Max`, `Min` and `RemoveFirst` are
unfolded to their `CHOOSE`s; that a set of places has an enumeration in order is proved by
a least counterexample (`WFMin`), the one form of induction at hand. The model selects
from a list by its places (`ElementsAt`) or folds over it (`OneByOne`), so that this
reasoning applies.

`CacheClient_proofs` proves that the allocator implements the ledger (`RefinementTheorem`:
`ImplementsLedger`), and `NoOrphanSuffix` and `TypeOK`, for every finite pool and set of
requests, every block size, every set of prompts that are not empty and fit the bound
(`ClientAssumption`: the planner refuses the others), with caching on or off.
`AllocatorTheorem` then carries the three theorems of `BlockLedger_proofs` through the
refinement: the ledger's assumption (chains without repetition) is itself proved of the chains
the allocator builds (`LedgerAssumptionHolds`), so counts are holders, an advertised block
holds the K/V of its prefix and a request reads its own prefix, of the allocator with its
queue and cursors. The invariant `Inv` has four parts.

- `InOrder`, as above: counts, queue and index agree.
- `Tidy` says where cached blocks may be: in the free queue behind every hash-less one
  (`HashlessFirst`: `free_blocks` puts hash-less blocks at the head of the queue and cached
  ones at its tail; the ledger lets a cached block be drawn only when no other is left), in a request's list in front
  of its registration cursor and under the hash of their place (`CachedInFront`); a block of
  two holders is cached (`SharedAreCached`), so nobody writes to it; a hash on a block is
  in the index (`HashedAreIndexed`); each hash of a chain extends the one before (`Nested`).
- `Anchored` is `NoOrphanSuffix` in the form that survives eviction: the parent of a cached
  prefix is cached in a block that is held or that leaves the queue later. A free of a
  request appends its blocks in reverse, so a child precedes its parent; a shared parent
  may be held by another, which the alternative covers; an adoption takes a match from its
  start, so it never holds a child whose parent it leaves in the queue (`AdoptAnchored`).
  `NoOrphanSuffix` alone is not inductive: a draw that took the parent first would break it.
- `Served` ties a request's record to the cache: no tokens exactly when no blocks, and the
  chain is the chain of its own tokens as far as it goes.

`CacheLemmas` has, per operation, the lemma that keeps it tidy and the one that keeps it
anchored (`FreeTidy`, `CommitStaysTidy`, `AdoptStaysTidy`, `AllocateTidy`, `RefuseTidy` join
them), and the arithmetic of blocks and rows; in `CacheClient_proofs` each action has one
lemma, which shows both the invariant after it and the step of the ledger it is.

`AsyncEngine_proofs` proves `WaitersAreReachable`, `NoOrphans` and `FinishedIsComplete` for
every set of clients with requests of any length and both transports
(`Controller`), under every interleaving of coroutines, receiver, shutdown and a process that
may crash or die. The invariant follows a request along its path: nothing exists of it
before it is submitted (`BeforeSubmit`), its `add` precedes its abort in the command queue
and is there once (`OrderedCommands`), once its last event is out the scheduler has done
with it (`Over`), the tokens seen by the stream plus those in the event queue are those
made (`Counted`, with the queue's tokens counted as the cardinality of a set of places),
and an item that finishes a stream carries the full count (`Delivered`). `Reachable` is
stronger than the property: a coroutine still tokenizing is covered too, and a stream
outside the tracker means a closed engine. `Adopted` is `NoOrphans` in the form a step
preserves, and `Phases` orders the lifecycle.

`Lockstep_proofs` proves `SameCollective` for every set of replicas and every load. The
invariant `OneStretch` says that all replicas which have not ended are in the same stretch
between two collectives, and that all count the same forwards to go: a replica moves
inside its stretch by itself and leaves it only through a collective, with everybody.

`Router_proofs` proves `LoadIsCharges`, `RoutesAreOwned` and `NothingLeftBehind` for every set
of ids, any number of replicas, each of the four policies, any batches (without
repetition, which `send` refuses) and any reuse of ids, and `ExactRelease` under the
hypothesis that no id is used twice (`MaxUses = 1`; with reuse it is false, section 4).
`RouterAssumption` is what the constructors check and the types say. The sum in
`LoadIsCharges` is a fold with a `CHOOSE` inside; `TotalExists` builds a function that gives
every subset its total whichever member is taken out first, by a least counterexample on the
cardinality, and `TotalIs` shows that the fold computes it, so that `TotalAdd` gives a
request more or less its arithmetic; that the clamp of `release` never bites follows. `Owned`
strengthens `RoutesAreOwned` by the order of commands: no abort of the same id is queued
behind the request, or a replica could drop a request whose route stays. `Exact` says that
a request is in one place only (a queue, a replica, or its last event: `InOnePlace`) and that
a queued one has its route or its abort behind it, unless a failing `send` left it there
(`Tied`). The last disjunct of `ExactRelease` is that exception; it names the requests of such a
`send` one by one, and `LoadIsCharges`, `RoutesAreOwned` and `NothingLeftBehind` need none. A batch is a run of single
steps: `StepsExist` proves that the recursive function exists, `RouteBatch` and `ForgetBatch`
carry the invariant through it, `HalfSentBatch` and `TakenBackBatch` through a batch that is
sent in part and taken back. That `generate()` leaves nothing behind is then that its
routes are exactly what it waits for.

Only model-checked, and why:

- Liveness (`EveryRequestFinishes`, `EveryStreamEnds`, `GenerateReturns`, `GridEnds`,
  `WorkIsServed`) is out of this prover's reach.
- `ImplementsDeQueue`: its mapping walks the list, an induction over data.
- `StreamComplete` counts what a client was sent against a request's whole output; it holds
  only where nobody who streams is evicted (section 4).
- `PendingIsInFlight`, `GreedyContinuation` and `RowsInWindow` are about the pipelined step,
  whose `num_computed` and output run ahead of the device: none of the invariants above,
  which are those of the synchronous step, holds of it as it stands. The theorems about
  `Scheduler` properties likewise speak of its `Spec`; the `engine` run checks the same
  properties of the speculative and pipelined steps.
- The tier's properties (`TierHoldsItsKeys`, `CopiesKeepTheirBlocks`, `NothingLeaks`) use a second
  `PrefixCache`.

## 6. Not modelled, and the plan

Left out of the modelled components: hash collisions, statistics, log probabilities,
background tokenization, decode context parallelism. A padding column past the table's
last column is an index error in the code and has no row in the model. In `OffloadScheduler`
a request id is submitted once; secondary tiers are protocols without an implementation
and `reset_cache` has no caller. In `SpeculativeScheduler` the fallbacks for requests that
want log probabilities and for executors without logits are left out. In `AsyncEngine` and
`Router` text and metrics are left out, and so is an interrupt (`KeyboardInterrupt`) at an
arbitrary point of a call, in `Lockstep` the tokens that a forward exchanges.

Not modelled at all:

- **Tensor-parallel control plane** (`executor/executor.py`, `distributed/parallel_state.py`):
  one rank broadcasts its plan and the others follow. What could go wrong there is what
  the external collectives and their timeouts do when a rank dies; the repository's part
  is one call after the other.
- **Hybrid and sliding-window groups** of the coordinator: no layout that is wired to the
  device has more than one group.
- **Context-parallel geometry** (`distributed/`, `topology.py`, `dcp.py`): arithmetic on
  ranks and rows, without state.
- **Models, modules, kernels, quantization, CUDA graphs, batch overlap, sampling**: numerical
  or hardware-bound. They are most of the repository's lines, which is why the mapped
  share of the whole is small although the core decisions of `engine/` are covered. Their
  correctness is equality of tensors up to rounding, which is no question for a model
  checker.
- **Text front end, HTTP, command line, weight loading, benchmarks, tools**: conversions and
  input/output without state that outlives a call.

Next, in this order:

1. The proofs of the synchronous step carried over to the pipelined one: its `Mapped`, with
   what is in flight counted apart.
2. Hybrid groups in the coordinator, once a layout uses them.
