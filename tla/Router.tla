------------------------------- MODULE Router -------------------------------
(***************************************************************************)
(* The data-parallel controller of rapid_llm/engine/data_parallel.py: the  *)
(* four load policies, the route table, and the replicas at the other end  *)
(* of one command queue each and one shared event queue.                   *)
(*                                                                         *)
(* Commands are sent by one caller at a time (the engine's lifecycle lock, *)
(* or the lock of the blocking generate()); events are read by another     *)
(* thread.  A prompt is its chain of block hashes and its length.  A       *)
(* request id may be used again once its route is gone: uses counts how    *)
(* often it was, so that a command or event of an earlier use can be told  *)
(* from the present one (the code cannot).                                 *)
(***************************************************************************)
EXTENDS Integers, Sequences, FiniteSets, SequencesExt

CONSTANTS
    Ids,           \* request ids
    DpSize,        \* data_parallel_size
    Policy,        \* the load_balancer option
    EnableDpAttention, \* enable_dp_attention: every command also wakes the peers
    Tokens,        \* prompt length of each request
    Chain,         \* its prompt's block hashes
    BlockSize,     \* PREFIX_CACHE_BLOCK_SIZE
    Capacity,      \* index_capacity of the cache-aware policy
    Batches,       \* the id lists given to generate()
    MaxUses        \* bound: times an id is submitted

ASSUME RouterAssumption ==
    /\ DpSize \in Nat \ {0} /\ BlockSize \in Nat \ {0} /\ Capacity \in Nat \ {0}
    /\ EnableDpAttention \in BOOLEAN /\ (EnableDpAttention => DpSize > 1)
    /\ Policy \in {"round_robin", "total_requests", "total_tokens", "cache_aware"}
    /\ Tokens \in [Ids -> Nat] /\ MaxUses \in Nat
    /\ Chain \in [Ids -> Seq(Int)]
    /\ Batches \subseteq Seq(Ids) /\ \A b \in Batches : IsInjective(b)

Replicas == 0..(DpSize - 1)

VARIABLES
    online,      \* the controller serves an engine; otherwise generate() is called
    policy,      \* the policy's state: counter, load, charges, resident
    routes,      \* _routes: a function from the active ids to their replica
    failure,     \* _failure is set
    closed,      \* _closed
    pending,     \* the ids generate() still waits for
    commands,    \* the command queue of each replica
    events,      \* the event queue
    live,        \* the requests <<id, use>> each replica works on
    alive,       \* the replicas whose process runs
    uses,        \* how often each id was delivered to a replica
    disowned     \* history: the requests <<id, use>> that a send() which raised left
                 \* in a replica's queue

vars == <<policy, routes, failure, closed, pending, commands, events, live, alive, uses,
          disowned>>

Without(f, id) == [i \in DOMAIN f \ {id} |-> f[i]]
With(f, id, v) == [i \in DOMAIN f \cup {id} |-> IF i = id THEN v ELSE f[i]]
AtLeast(lo, n) == IF n > lo THEN n ELSE lo

Init ==
    /\ online \in BOOLEAN
    /\ policy = [counter |-> 0, load |-> [r \in Replicas |-> 0], charges |-> <<>>,
                 resident |-> [r \in Replicas |-> <<>>]]
    /\ routes = <<>>
    /\ failure = FALSE /\ closed = FALSE /\ pending = {}
    /\ commands = [r \in Replicas |-> <<>>] /\ events = <<>>
    /\ live = [r \in Replicas |-> {}] /\ alive = Replicas
    /\ uses = [i \in Ids |-> 0] /\ disowned = {}

-----------------------------------------------------------------------------
(* Load policies. *)

\* CacheAwarePolicy._cached_blocks: the leading blocks a replica is known for.
CachedBlocks(p, r, id) ==
    LET known == {n \in 0..Len(Chain[id]) :
                    \A k \in 1..n : Chain[id][k] \in ToSet(p.resident[r])}
    IN  CHOOSE n \in known : \A m \in known : m <= n

\* What the request costs on replica r: _weight, or _uncached.
Charge(p, r, id) ==
    CASE Policy = "total_requests" -> 1
      [] Policy = "total_tokens" -> AtLeast(1, Tokens[id])
      [] Policy = "cache_aware" ->
            AtLeast(1, Tokens[id] - CachedBlocks(p, r, id) * BlockSize)
      [] OTHER -> 0

Cost(p, r, id) == p.load[r] + IF Policy = "cache_aware" THEN Charge(p, r, id) ELSE 0

\* The replica select() picks: the cheapest, of these the first.
Choice(p, id) ==
    IF Policy = "round_robin"
    THEN p.counter % DpSize
    ELSE CHOOSE r \in Replicas :
            /\ \A s \in Replicas : Cost(p, r, id) <= Cost(p, s, id)
            /\ \A s \in 0..(r - 1) : Cost(p, s, id) > Cost(p, r, id)

\* CacheAwarePolicy._remember: the prompt's blocks become the most recent
\* entries and the oldest beyond the capacity go.
Remember(order, chain) ==
    LET moved == SelectSeq(order, LAMBDA h : h \notin ToSet(chain)) \o chain
        excess == AtLeast(0, Len(moved) - Capacity)
    IN  SubSeq(moved, excess + 1, Len(moved))

\* select(): the policy after it chose a replica for the request.
Select(p, id) ==
    LET r == Choice(p, id) IN
    IF Policy = "round_robin"
    THEN [p EXCEPT !.counter = @ + 1]
    ELSE [p EXCEPT !.load[r] = @ + Charge(p, r, id),
                   !.charges = With(@, id, [replica |-> r, amount |-> Charge(p, r, id)]),
                   !.resident[r] = IF Policy = "cache_aware" THEN Remember(@, Chain[id]) ELSE @]

\* release(): the exact charge of the request, if it has one.
Uncharge(p, id) ==
    IF id \notin DOMAIN p.charges THEN p
    ELSE LET c == p.charges[id] IN
         [p EXCEPT !.load[c.replica] = AtLeast(0, @ - c.amount),
                   !.charges = Without(@, id)]

-----------------------------------------------------------------------------
(* DataParallelController. *)

Request(id, n) == [type |-> "add", id |-> id, use |-> n]
AbortOf(id, n) == [type |-> "abort", id |-> id, use |-> n]
Open == ~closed /\ ~failure

\* What send() works on: the policy and the route table under the route lock,
\* and the command queues.  The steps below are functions of it, because a
\* batch repeats them id by id.
Tables == [policy |-> policy, routes |-> routes, commands |-> commands, uses |-> uses]

Become(s) ==
    /\ policy' = s.policy /\ routes' = s.routes
    /\ commands' = s.commands /\ uses' = s.uses

\* step taken for the members of ids in order.
OneByOne(step(_, _), s, ids) ==
    LET after[i \in 0..Len(ids)] == IF i = 0 THEN s ELSE step(after[i - 1], ids[i])
    IN  after[Len(ids)]

Enqueue(s, r, cmd) == [s EXCEPT !.commands[r] = Append(@, cmd)]

\* Mutant: the route goes, the policy keeps the charge.
MutantReleaseRoute(s, id) == [s EXCEPT !.routes = Without(@, id)]

\* _release.
Release(s, id) ==
    IF id \notin DOMAIN s.routes THEN s
    ELSE [s EXCEPT !.routes = Without(@, id), !.policy = Uncharge(@, id)]

\* A new request is charged and routed.
Assign(s, id) ==
    [s EXCEPT !.policy = Select(@, id), !.routes = With(@, id, Choice(s.policy, id))]

\* And its command is queued.  The requests of a batch go to a replica in one
\* command, which takes them together.
Route(s, id) ==
    Enqueue([Assign(s, id) EXCEPT !.uses[id] = @ + 1],
            Choice(s.policy, id), Request(id, s.uses[id] + 1))

\* The same when send() raises on its way: the command is queued if it goes to
\* a replica that send() reached.
RouteUpTo(reached, s, id) ==
    IF Choice(s.policy, id) \in reached THEN Route(s, id) ELSE Assign(s, id)

\* The tables when the error is raised, and after send() took every route back.
HalfSent(ids, reached) == OneByOne(LAMBDA s, id : RouteUpTo(reached, s, id), Tables, ids)
TakenBack(ids, reached) == OneByOne(Release, HalfSent(ids, reached), ids)

\* The requests of ids whose command was queued all the same.
Delivered(ids, reached) ==
    LET s == HalfSent(ids, reached)
    IN  {<<id, s.uses[id]>> : id \in {i \in ToSet(ids) : s.routes[i] \in reached}}

\* A put raises for the command of a replica n.  The replicas before n have
\* theirs; n has its own too when it is the wake-up of a peer that raised.
Failures(ids) ==
    LET chosen == {HalfSent(ids, {}).routes[id] : id \in ToSet(ids)}
    IN  {0..(n - 1) : n \in chosen}
          \cup (IF EnableDpAttention THEN {0..n : n \in chosen} ELSE {})

\* Mutant: the route is released before it is looked up, and nothing is sent.
MutantAbortUnsent(s, id) == Release(s, id)

\* send(AbortRequest): forwarded to the replica of the route, which is
\* released at once, before the replica has seen the command.
Forget(s, id) ==
    IF id \notin DOMAIN s.routes THEN s
    ELSE Release(Enqueue(s, s.routes[id], AbortOf(id, s.uses[id])), id)

Fresh(ids) == \A i \in DOMAIN ids : ids[i] \notin DOMAIN routes /\ uses[ids[i]] < MaxUses

\* send(AddRequest).
Add(id) ==
    /\ online /\ Open /\ Fresh(<<id>>)
    /\ Become(Route(Tables, id))
    /\ UNCHANGED <<failure, closed, pending, events, live, alive, disowned>>

\* send(AddRequest) raises: the charge and the route are taken back.  The turn
\* of the round robin and the remembered blocks are not, nor is a command that
\* a queue has already taken.
AddFails(id) ==
    /\ online /\ Open /\ Fresh(<<id>>)
    /\ \E reached \in Failures(<<id>>) :
         /\ Become(TakenBack(<<id>>, reached))
         /\ disowned' = disowned \cup Delivered(<<id>>, reached)
    /\ UNCHANGED <<failure, closed, pending, events, live, alive>>

Abort(id) ==
    /\ online /\ Open /\ id \in DOMAIN routes
    /\ Become(Forget(Tables, id))
    /\ UNCHANGED <<failure, closed, pending, events, live, alive, disowned>>

\* generate(): the batch is submitted and waited for.
Generate(ids) ==
    /\ ~online /\ pending = {}
    /\ Open /\ Fresh(ids)
    /\ Become(OneByOne(Route, Tables, ids))
    /\ pending' = ToSet(ids)
    /\ UNCHANGED <<failure, closed, events, live, alive, disowned>>

\* send(AddRequestBatch) raises: every charge and route of the batch is taken
\* back, and generate() aborts every request, of which none has a route now.
GenerateFails(ids) ==
    /\ ~online /\ pending = {}
    /\ Open /\ Fresh(ids)
    /\ \E reached \in Failures(ids) :
         /\ Become(OneByOne(Forget, TakenBack(ids, reached), ids))
         /\ disowned' = disowned \cup Delivered(ids, reached)
    /\ UNCHANGED <<failure, closed, pending, events, live, alive>>

\* Mutant: only a finish reason releases the route.
MutantReleaseFinished ==
    /\ events # <<>> /\ Head(events).type # "failed"
    /\ events' = Tail(events)
    /\ pending' = pending \ {Head(events).id}
    /\ Become(IF Head(events).type = "finish" THEN Release(Tables, Head(events).id) ELSE Tables)
    /\ UNCHANGED <<failure, closed, live, alive, disowned>>

\* Mutant: a batch that raises aborts nothing.
MutantRaiseOnly ==
    /\ events # <<>> /\ Head(events).type # "failed"
    /\ events' = Tail(events)
    /\ Become(Release(Tables, Head(events).id))
    /\ pending' = IF Head(events).type = "error" THEN {} ELSE pending \ {Head(events).id}
    /\ UNCHANGED <<failure, closed, live, alive, disowned>>

\* receive() returned a request's event: a final one releases its route.  In
\* generate() an error raises, which aborts every request of the batch.
ReceiveOutput ==
    /\ events # <<>> /\ Head(events).type # "failed"
    /\ events' = Tail(events)
    /\ LET ev == Head(events)
           s == Release(Tables, ev.id)
           batch == CHOOSE b \in Batches : pending \subseteq ToSet(b)
       IN  \/ /\ ev.type = "error" /\ ev.id \in pending
              /\ Become(OneByOne(Forget, s, batch))
              /\ pending' = {}
           \/ /\ ~ (ev.type = "error" /\ ev.id \in pending)
              /\ Become(s)
              /\ pending' = pending \ {ev.id}
    /\ UNCHANGED <<failure, closed, live, alive, disowned>>

\* Mutant: an empty queue is polled again without a look at the workers.
MutantIgnoreDeath ==
    /\ ~closed
    /\ events # <<>> /\ Head(events).type = "failed" /\ events' = Tail(events)
    /\ failure' = TRUE /\ pending' = {}
    /\ UNCHANGED <<policy, routes, closed, commands, live, alive, uses, disowned>>

\* receive() met a replica's failure, or an empty queue and a dead worker:
\* the controller refuses everything from now on and generate() raises.
ReceiveFailure ==
    /\ ~closed
    /\ \/ events # <<>> /\ Head(events).type = "failed" /\ events' = Tail(events)
       \/ events = <<>> /\ alive # Replicas /\ UNCHANGED events
    /\ failure' = TRUE /\ pending' = {}
    /\ UNCHANGED <<policy, routes, closed, commands, live, alive, uses, disowned>>

\* shutdown(): every rank is told to stop, joined or terminated.
Shutdown ==
    /\ ~closed
    /\ closed' = TRUE /\ alive' = {} /\ pending' = {}
    /\ UNCHANGED <<policy, routes, failure, commands, events, live, uses, disowned>>

-----------------------------------------------------------------------------
(* The replicas: run_event_loop seen through its queues. *)

\* A command is applied; a request may be refused.
Apply(r) ==
    /\ r \in alive /\ commands[r] # <<>>
    /\ commands' = [commands EXCEPT ![r] = Tail(@)]
    /\ LET cmd == Head(commands[r])
           old == {x \in live[r] : x[1] = cmd.id}
       IN  \/ /\ cmd.type = "add" /\ old = {}
              /\ live' = [live EXCEPT ![r] = @ \cup {<<cmd.id, cmd.use>>}]
              /\ UNCHANGED events
           \/ /\ cmd.type = "add"
              /\ events' = Append(events, [type |-> "error", id |-> cmd.id, use |-> cmd.use])
              /\ UNCHANGED live
           \/ /\ cmd.type = "abort"
              /\ live' = [live EXCEPT ![r] = @ \ old]
              /\ UNCHANGED events
    /\ UNCHANGED <<policy, routes, failure, closed, pending, alive, uses, disowned>>

\* A request finishes.
Finish(r, x) ==
    /\ r \in alive /\ x \in live[r]
    /\ live' = [live EXCEPT ![r] = @ \ {x}]
    /\ events' = Append(events, [type |-> "finish", id |-> x[1], use |-> x[2]])
    /\ UNCHANGED <<policy, routes, failure, closed, pending, commands, alive, uses, disowned>>

\* A rank ends, with a ReplicaFailed event or without a word.
Fail(r) ==
    /\ r \in alive
    /\ alive' = alive \ {r} /\ live' = [live EXCEPT ![r] = {}]
    /\ events' \in {events, Append(events, [type |-> "failed"])}
    /\ UNCHANGED <<policy, routes, failure, closed, pending, commands, uses, disowned>>

-----------------------------------------------------------------------------
ReplicaStep(r) == Apply(r) \/ Fail(r) \/ \E x \in live[r] : Finish(r, x)

Next ==
    /\ \/ \E id \in Ids : Add(id) \/ AddFails(id) \/ Abort(id)
       \/ \E b \in Batches : Generate(b) \/ GenerateFails(b)
       \/ ReceiveOutput \/ ReceiveFailure \/ Shutdown
       \/ \E r \in Replicas : ReplicaStep(r)
    /\ UNCHANGED online

\* The receiving thread keeps polling, and a live replica works through its
\* commands and requests.
Fairness ==
    /\ WF_vars(ReceiveOutput) /\ WF_vars(ReceiveFailure)
    /\ \A r \in Replicas : WF_vars(Apply(r)) /\ WF_vars(\E x \in live[r] : Finish(r, x))

Spec == Init /\ [][Next]_<<online, vars>> /\ Fairness

-----------------------------------------------------------------------------
TypeOK ==
    /\ policy.load \in [Replicas -> Nat]
    /\ DOMAIN routes \subseteq Ids /\ \A id \in DOMAIN routes : routes[id] \in Replicas
    /\ {failure, closed} \subseteq BOOLEAN /\ alive \subseteq Replicas
    /\ pending \subseteq Ids /\ uses \in [Ids -> 0..MaxUses]
    /\ disowned \subseteq Ids \X (1..MaxUses)

\* The sum of the charges of a set of requests.
Total(charges, ids) == FoldFunctionOnSet(LAMBDA c, sum : c.amount + sum, 0, charges, ids)

\* The load a counting policy sees of a replica is the sum of the charges of
\* the requests routed there: no path (completion, refusal, abort, a queue
\* that refused, a batch that raised) loses or repeats a release.
LoadIsCharges ==
    Policy # "round_robin" =>
        /\ DOMAIN policy.charges = DOMAIN routes
        /\ \A id \in DOMAIN routes : policy.charges[id].replica = routes[id]
        /\ \A r \in Replicas :
             policy.load[r] = Total(policy.charges, {id \in DOMAIN routes : routes[id] = r})

\* No route outlives its request: as long as the controller serves, a route's
\* request is on its replica, on its way there, or its last event is on its
\* way back (or the replica is gone, which the next empty poll reports).
RoutesAreOwned ==
    Open => \A id \in DOMAIN routes :
        LET r == routes[id] IN
        \/ r \notin alive
        \/ <<id, uses[id]>> \in live[r]
        \/ \E k \in DOMAIN commands[r] : commands[r][k] = Request(id, uses[id])
        \/ \E k \in DOMAIN events :
             events[k].type \in {"finish", "error"} /\ events[k].id = id

\* The present request of an id keeps its route until its own last event or
\* its own abort: nothing that belongs to another request takes it away.  The
\* one exception is a request whose caller was told that it was not sent.
ExactRelease ==
    Open => \A r \in Replicas : \A x \in live[r] :
        \/ x[1] \in DOMAIN routes /\ x[2] = uses[x[1]]
        \/ \E k \in DOMAIN commands[r] : commands[r][k] = AbortOf(x[1], x[2])
        \/ x \in disowned

\* The blocking generate() always comes back, with results or an exception.
GenerateReturns == (pending # {}) ~> (pending = {})

\* When generate() has come back and the controller serves on, no route is
\* left: a failed batch does not weigh on the next one.
NothingLeftBehind == ~online /\ pending = {} /\ Open => routes = <<>>
=============================================================================
