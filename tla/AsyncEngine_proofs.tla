------------------------- MODULE AsyncEngine_proofs -------------------------
(***************************************************************************)
(* Safety of the serving front end, for any set of clients and requests of *)
(* any length, over both transports, whatever the coroutines, the receiver *)
(* thread, the shutdown and the scheduler process do in whatever order.    *)
(***************************************************************************)
EXTENDS AsyncEngine, FiniteSetTheorems, SequenceTheorems, TLAPS

Items == [n : Nat, end : {"no", "finish", "error", "failed", "none"}]
Outputs == [type : {"output"}, client : Clients, tokens : {0, 1}, end : {"no", "finish", "error"}]
EventSet == Outputs \cup {Ready, Failed, Stats}
CommandSet == [type : {"add", "abort"}, client : Clients] \cup {Shutdown, Utility}

Types ==
    /\ lifecycle \in {"starting", "running", "failed", "closing", "closed", "aborted"}
    /\ receiver \in {"off", "get", "failing", "ended", "crashed"}
    /\ tracker \in SUBSET Clients /\ active \in SUBSET Clients
    /\ pc \in [Clients -> {"idle", "tokenizing", "streaming", "done"}]
    /\ inbox \in [Clients -> Seq(Items)]
    /\ seen \in [Clients -> Nat] /\ got \in [Clients -> Nat] /\ made \in [Clients -> Nat]
    /\ DOMAIN finished = Clients /\ DOMAIN outcome = Clients
    /\ finished = [c \in Clients |-> finished[c]] /\ outcome = [c \in Clients |-> outcome[c]]
    /\ process \in {"booting", "alive", "dead"}
    /\ commands \in Seq(CommandSet) /\ events \in Seq(EventSet)

\* The request of c is queued for the scheduler, or its abort is.
Queued(c) == Add(c) \in Range(commands)
Aborting(c) == AbortCmd(c) \in Range(commands)

\* The scheduler has no more tokens to make for c.
AtRest(c) == c \notin active /\ ~Queued(c)

IsOutput(e, c) == e.type = "output" /\ e.client = c
IsLast(e, c) == IsOutput(e, c) /\ e.end # "no"

\* Nothing is known of a request before it is submitted.
Unborn(c) ==
    /\ AtRest(c) /\ ~Aborting(c)
    /\ made[c] = 0 /\ seen[c] = 0
    /\ \A e \in Range(events) : ~IsOutput(e, c)
    /\ pc[c] = "idle" => c \notin tracker

BeforeSubmit == \A c \in Clients : pc[c] \in {"idle", "tokenizing"} => Unborn(c)

\* The engine's life: nothing happens before the process is ready, and a
\* transport that refuses belongs to an engine that is over.
Phases ==
    /\ process = "booting" => lifecycle = "starting" /\ events = <<>>
    /\ lifecycle = "starting" => receiver = "off" /\ \A c \in Clients : pc[c] = "idle"
    /\ receiver = "failing" => lifecycle \notin {"starting", "running"}
    /\ refused => lifecycle \notin {"starting", "running"} \/ process = "dead"

\* Whoever waits, or is about to, is known to the tracker; or else the engine
\* is closed and the stream has its last item.
Reachable ==
    \A c \in Clients :
        pc[c] \in {"tokenizing", "streaming"} /\ c \notin tracker =>
            lifecycle = "closed" /\ \E item \in Range(inbox[c]) : Terminal(item)

\* The request of c is in the command queue q at most once, before its abort.
InOrder(q, c) ==
    \A i, j \in 1..Len(q) : q[i] = Add(c) =>
        /\ q[j] = Add(c) => j = i
        /\ q[j] = AbortCmd(c) => i < j

\* A request is queued once, before its abort, and not while it runs.
OrderedCommands ==
    \A c \in Clients : InOrder(commands, c) /\ (c \in active => ~Queued(c))

\* Once a request's last event is out, the scheduler has done with it.
Over ==
    \A c \in Clients :
        /\ \A e \in Range(events) : IsLast(e, c) => AtRest(c)
        /\ \A item \in Range(inbox[c]) :
             item.end = "finish" => AtRest(c) /\ pc[c] \in {"streaming", "done"}
        /\ outcome[c] = "finish" => AtRest(c) /\ pc[c] = "done"
        /\ finished[c] /\ lifecycle \in {"starting", "running"} =>
             AtRest(c) /\ pc[c] \in {"streaming", "done"}

\* While the engine runs, no request is worked on that nobody waits for.
Adopted ==
    lifecycle = "running" /\ process = "alive" =>
        \A c \in Clients : AtRest(c) \/ c \in tracker \/ Aborting(c)

\* The tokens of c in the first j events.
Places(q, c, j) == {i \in 1..j : IsOutput(q[i], c) /\ q[i].tokens = 1}
Count(q, c, j) == Cardinality(Places(q, c, j))

\* No token is lost on the way to a stream that is still listened to: what the
\* stream has seen and what is under way is what was made.
Counted ==
    \A c \in tracker :
        /\ process = "alive" => seen[c] + Count(events, c, Len(events)) = made[c]
        /\ \A j \in 1..Len(events) :
             IsOutput(events[j], c) /\ events[j].end = "finish" =>
                 events[j].tokens = 1 /\ seen[c] + Count(events, c, j) = made[c]

Delivered ==
    \A c \in Clients :
        /\ outcome[c] = "finish" => got[c] = made[c]
        /\ \A item \in Range(inbox[c]) : item.end = "finish" => item.n = made[c]

\* The inductive invariant.
IInv ==
    /\ Types /\ Phases /\ BeforeSubmit /\ Reachable /\ OrderedCommands
    /\ Over /\ Adopted /\ Counted /\ Delivered

-----------------------------------------------------------------------------
(* Counting tokens in the event queue. *)

IsToken(e, c) == IsOutput(e, c) /\ e.tokens = 1

\* A count is a number.
LEMMA CountType ==
  ASSUME NEW q, NEW c, NEW j \in Nat
  PROVE  IsFiniteSet(Places(q, c, j)) /\ Count(q, c, j) \in Nat
<1>1. IsFiniteSet(1..j)
  BY FS_Interval
<1>2. Places(q, c, j) \in SUBSET (1..j)
  BY DEF Places
<1>3. IsFiniteSet(Places(q, c, j))
  BY <1>1, <1>2, FS_Subset
<1> QED BY <1>3, FS_CardinalityType DEF Count

\* A count depends on the events it counts only.
LEMMA CountSame ==
  ASSUME NEW q, NEW p, NEW c, NEW j \in Nat, \A i \in 1..j : q[i] = p[i]
  PROVE  Count(q, c, j) = Count(p, c, j)
<1>1. Places(q, c, j) = Places(p, c, j)
  BY DEF Places
<1> QED BY <1>1 DEF Count

\* One event further.
LEMMA CountNext ==
  ASSUME NEW q, NEW c, NEW j \in Nat
  PROVE  Count(q, c, j + 1) = Count(q, c, j) + IF IsToken(q[j + 1], c) THEN 1 ELSE 0
<1>1. IsFiniteSet(Places(q, c, j)) /\ Count(q, c, j) \in Nat
  BY CountType
<1>2. CASE IsToken(q[j + 1], c)
  <2>1. Places(q, c, j + 1) = Places(q, c, j) \cup {j + 1} /\ j + 1 \notin Places(q, c, j)
    BY <1>2 DEF Places, IsToken
  <2> QED BY <1>1, <1>2, <2>1, FS_AddElement DEF Count
<1>3. CASE ~IsToken(q[j + 1], c)
  <2>1. Places(q, c, j + 1) = Places(q, c, j)
    BY <1>3 DEF Places, IsToken
  <2> QED BY <1>1, <1>3, <2>1 DEF Count
<1> QED BY <1>2, <1>3

\* The first event is taken off the queue.
LEMMA CountTail ==
  ASSUME NEW q \in Seq(EventSet), q # <<>>, NEW c, NEW j \in 1..Len(q)
  PROVE  Count(q, c, j) = Count(Tail(q), c, j - 1) + IF IsToken(Head(q), c) THEN 1 ELSE 0
<1> DEFINE S == Places(Tail(q), c, j - 1)
           T == Places(q, c, j) \ {1}
           f == [i \in S |-> i + 1]
<1>1. /\ j - 1 \in Nat /\ j \in Nat /\ Len(q) \in Nat
      /\ \A i \in 1..(j - 1) : Tail(q)[i] = q[i + 1]
      /\ Head(q) = q[1]
  OBVIOUS
<1>2. IsFiniteSet(S) /\ Cardinality(S) \in Nat
  BY <1>1, CountType DEF Count
<1>3. IsFiniteSet(Places(q, c, j)) /\ Cardinality(Places(q, c, j)) \in Nat
  BY <1>1, CountType DEF Count
<1>4. f \in Bijection(S, T)
  <2>1. \A i \in S : i \in 1..(j - 1) /\ i + 1 \in T
    BY <1>1 DEF Places
  <2>2. \A k \in T : k - 1 \in S /\ f[k - 1] = k
    BY <1>1 DEF Places
  <2>3. f \in [S -> T] /\ \A a, b \in S : f[a] = f[b] => a = b
    BY <2>1
  <2> QED BY <2>2, <2>3 DEF Bijection, Injection, Surjection, IsInjective
<1>5. Cardinality(T) = Cardinality(S)
  BY <1>2, <1>4, FS_Bijection DEF ExistsBijection
<1>6. 1 \in Places(q, c, j) <=> IsToken(Head(q), c)
  BY <1>1 DEF Places, IsToken
<1>7. Cardinality(T) = IF 1 \in Places(q, c, j) THEN Cardinality(Places(q, c, j)) - 1
                                               ELSE Cardinality(Places(q, c, j))
  BY <1>3, FS_RemoveElement
<1> HIDE DEF T
<1> QED
  BY <1>2, <1>3, <1>5, <1>6, <1>7 DEF Count

\* One event is put in the queue.
LEMMA CountAppend ==
  ASSUME NEW q \in Seq(EventSet), NEW e \in EventSet, NEW c
  PROVE  /\ \A j \in 0..Len(q) : Count(Append(q, e), c, j) = Count(q, c, j)
         /\ Count(Append(q, e), c, Len(q) + 1)
              = Count(q, c, Len(q)) + IF IsToken(e, c) THEN 1 ELSE 0
<1> DEFINE p == Append(q, e)
<1>1. /\ Len(q) \in Nat /\ p[Len(q) + 1] = e
      /\ \A i \in 1..Len(q) : p[i] = q[i]
  OBVIOUS
<1> HIDE DEF p
<1>2. ASSUME NEW j \in 0..Len(q) PROVE Count(p, c, j) = Count(q, c, j)
  <2>1. j \in Nat /\ \A i \in 1..j : p[i] = q[i]
    BY <1>1
  <2> QED BY <2>1, CountSame
<1>3. Count(p, c, Len(q) + 1) = Count(p, c, Len(q)) + IF IsToken(e, c) THEN 1 ELSE 0
  BY <1>1, CountNext
<1>4. Len(q) \in 0..Len(q)
  BY <1>1
<1> QED BY <1>2, <1>3, <1>4 DEF p

-----------------------------------------------------------------------------
(* What a queue holds when it is appended to, read from or cut short. *)

\* An element is appended.
LEMMA Pushed ==
  ASSUME NEW S, NEW q \in Seq(S), NEW x \in S
  PROVE  Append(q, x) \in Seq(S) /\ Range(Append(q, x)) = Range(q) \cup {x}
<1>1. /\ Append(q, x) \in Seq(S) /\ Len(q) \in Nat /\ Len(Append(q, x)) = Len(q) + 1
      /\ DOMAIN q = 1..Len(q) /\ DOMAIN Append(q, x) = 1..(Len(q) + 1)
      /\ Append(q, x)[Len(q) + 1] = x /\ \A i \in 1..Len(q) : Append(q, x)[i] = q[i]
  OBVIOUS
<1> QED BY <1>1 DEF Range

\* The first element is taken.
LEMMA Popped ==
  ASSUME NEW S, NEW q \in Seq(S), q # <<>>
  PROVE  /\ Tail(q) \in Seq(S) /\ Head(q) \in S
         /\ Range(q) = Range(Tail(q)) \cup {Head(q)}
<1>1. /\ Tail(q) \in Seq(S) /\ Head(q) \in S /\ Head(q) = q[1]
      /\ Len(q) \in Nat \ {0} /\ DOMAIN q = 1..Len(q) /\ DOMAIN Tail(q) = 1..(Len(q) - 1)
      /\ \A i \in 1..(Len(q) - 1) : Tail(q)[i] = q[i + 1]
  OBVIOUS
<1>2. \A i \in 1..Len(q) : i = 1 \/ (i - 1 \in 1..(Len(q) - 1) /\ q[i] = Tail(q)[i - 1])
  BY <1>1
<1>3. \A i \in DOMAIN Tail(q) : i + 1 \in DOMAIN q /\ Tail(q)[i] = q[i + 1]
  BY <1>1
<1>4. \A i \in DOMAIN q : q[i] = Head(q) \/ (i - 1 \in DOMAIN Tail(q) /\ q[i] = Tail(q)[i - 1])
  BY <1>1, <1>2
<1>5. 1 \in DOMAIN q
  BY <1>1
<1> QED BY <1>1, <1>3, <1>4, <1>5, Zenon DEF Range

\* Only the first n elements are left.
LEMMA CutShort ==
  ASSUME NEW S, NEW q \in Seq(S), NEW n \in 0..Len(q)
  PROVE  SubSeq(q, 1, n) \in Seq(S) /\ Range(SubSeq(q, 1, n)) \subseteq Range(q)
<1>1. /\ SubSeq(q, 1, n) \in Seq(S) /\ Len(q) \in Nat
      /\ DOMAIN q = 1..Len(q) /\ DOMAIN SubSeq(q, 1, n) = 1..n
      /\ \A i \in 1..n : SubSeq(q, 1, n)[i] = q[i]
  OBVIOUS
<1> QED BY <1>1 DEF Range

\* The members of a sequence are of its type.
LEMMA RangeType ==
  ASSUME NEW S, NEW q \in Seq(S)
  PROVE  Range(q) \subseteq S
BY DEF Range

\* Commands are told apart by kind and by client.
LEMMA Commands ==
  /\ \A c \in Clients : Add(c) \in CommandSet /\ AbortCmd(c) \in CommandSet
  /\ Shutdown \in CommandSet /\ Utility \in CommandSet
  /\ \A c, d : (Add(c) = Add(d) => c = d) /\ (AbortCmd(c) = AbortCmd(d) => c = d)
  /\ \A c, d : Add(c) # AbortCmd(d)
  /\ \A c : Add(c) \notin {Shutdown, Utility} /\ AbortCmd(c) \notin {Shutdown, Utility}
  /\ \A cmd \in CommandSet :
       /\ cmd.type = "add" => cmd.client \in Clients /\ cmd = Add(cmd.client)
       /\ cmd.type = "abort" => cmd.client \in Clients /\ cmd = AbortCmd(cmd.client)
       /\ cmd.type = "utility" => cmd = Utility
       /\ cmd.type = "shutdown" => cmd = Shutdown
<1>1. \A c \in Clients : Add(c) \in CommandSet /\ AbortCmd(c) \in CommandSet
  BY DEF Add, AbortCmd, CommandSet
<1>2. Shutdown \in CommandSet /\ Utility \in CommandSet
  BY DEF CommandSet
<1>3. \A c, d : (Add(c) = Add(d) => c = d) /\ (AbortCmd(c) = AbortCmd(d) => c = d)
  BY DEF Add, AbortCmd
<1>4. \A c, d : Add(c) # AbortCmd(d)
  BY DEF Add, AbortCmd
<1>5. \A c : Add(c) \notin {Shutdown, Utility} /\ AbortCmd(c) \notin {Shutdown, Utility}
  BY DEF Add, AbortCmd, Shutdown, Utility
<1>6. \A cmd \in CommandSet :
       /\ cmd.type = "add" => cmd.client \in Clients /\ cmd = Add(cmd.client)
       /\ cmd.type = "abort" => cmd.client \in Clients /\ cmd = AbortCmd(cmd.client)
       /\ cmd.type = "utility" => cmd = Utility
       /\ cmd.type = "shutdown" => cmd = Shutdown
  BY DEF Add, AbortCmd, Shutdown, Utility, CommandSet
<1> QED BY <1>1, <1>2, <1>3, <1>4, <1>5, <1>6

\* Only an output is about a client.
LEMMA Events ==
  /\ Ready \in EventSet /\ Failed \in EventSet /\ Stats \in EventSet
  /\ \A c : ~IsOutput(Ready, c) /\ ~IsOutput(Failed, c) /\ ~IsOutput(Stats, c)
  /\ \A c \in Clients, n \in {0, 1}, end \in {"no", "finish", "error"} :
       /\ Output(c, n, end) \in EventSet
       /\ \A d : IsOutput(Output(c, n, end), d) <=> d = c
       /\ Output(c, n, end).tokens = n /\ Output(c, n, end).end = end
  /\ \A e \in EventSet : e.type = "output" =>
       /\ e.client \in Clients /\ e.tokens \in {0, 1} /\ e.end \in {"no", "finish", "error"}
       /\ \A d : IsOutput(e, d) <=> d = e.client
<1>1. Ready \in EventSet /\ Failed \in EventSet /\ Stats \in EventSet
  BY DEF EventSet
<1>2. \A c : ~IsOutput(Ready, c) /\ ~IsOutput(Failed, c) /\ ~IsOutput(Stats, c)
  BY DEF IsOutput, Ready, Failed, Stats
<1>3. \A c \in Clients, n \in {0, 1}, end \in {"no", "finish", "error"} :
       /\ Output(c, n, end) \in EventSet
       /\ \A d : IsOutput(Output(c, n, end), d) <=> d = c
       /\ Output(c, n, end).tokens = n /\ Output(c, n, end).end = end
  BY DEF IsOutput, Output, EventSet, Outputs
<1>4. \A e \in EventSet : e.type = "output" =>
       /\ e.client \in Clients /\ e.tokens \in {0, 1} /\ e.end \in {"no", "finish", "error"}
       /\ \A d : IsOutput(e, d) <=> d = e.client
  BY DEF IsOutput, EventSet, Outputs, Ready, Failed, Stats
<1> QED BY <1>1, <1>2, <1>3, <1>4

\* What a chunk carries.
LEMMA Chunks ==
  ASSUME NEW n \in Nat, NEW end \in {"no", "finish", "error", "failed", "none"}
  PROVE  Chunk(n, end) \in Items /\ Chunk(n, end).n = n /\ Chunk(n, end).end = end
BY DEF Chunk, Items

\* Order in the command queue as commands come and go.
LEMMA OrderPushed ==
  ASSUME NEW q \in Seq(CommandSet), NEW x \in CommandSet, NEW c, InOrder(q, c),
         x = Add(c) => Add(c) \notin Range(q) /\ AbortCmd(c) \notin Range(q)
  PROVE  InOrder(Append(q, x), c)
<1>1. /\ Len(q) \in Nat /\ Len(Append(q, x)) = Len(q) + 1
      /\ Append(q, x)[Len(q) + 1] = x /\ \A i \in 1..Len(q) : Append(q, x)[i] = q[i]
      /\ Range(q) = {q[i] : i \in 1..Len(q)}
  BY DEF Range
<1>2. Add(c) # AbortCmd(c)
  BY Commands
<1> QED BY <1>1, <1>2 DEF InOrder

\* The first command is taken: no later copy of its request is left.
LEMMA OrderPopped ==
  ASSUME NEW q \in Seq(CommandSet), q # <<>>, NEW c, InOrder(q, c)
  PROVE  /\ InOrder(Tail(q), c)
         /\ Head(q) \in {Add(c), AbortCmd(c)} => Add(c) \notin Range(Tail(q))
<1>1. /\ Head(q) = q[1] /\ Len(q) \in Nat \ {0} /\ Len(Tail(q)) = Len(q) - 1
      /\ DOMAIN Tail(q) = 1..(Len(q) - 1)
      /\ \A i \in 1..(Len(q) - 1) : i + 1 \in 1..Len(q) /\ Tail(q)[i] = q[i + 1]
  OBVIOUS
<1>2. InOrder(Tail(q), c)
  BY <1>1 DEF InOrder
<1>3. Head(q) \in {Add(c), AbortCmd(c)} => Add(c) \notin Range(Tail(q))
  BY <1>1 DEF InOrder, Range
<1> QED BY <1>2, <1>3

-----------------------------------------------------------------------------
(* Every action preserves the invariant. *)

\* Until the constructor is done nobody has registered.
LEMMA AwaitReadyIInv ==
  ASSUME IInv, AwaitReady
  PROVE  IInv'
<1>1. /\ lifecycle = "starting" /\ lifecycle' \in {"running", "aborted"}
      /\ process' = IF lifecycle' = "running" THEN process ELSE "dead"
      /\ lifecycle' = "running" => events # <<>>
      /\ events' = IF events # <<>> THEN Tail(events) ELSE events
      /\ UNCHANGED <<receiver, refused, tracker, inbox, seen, finished, pc, got, outcome,
                     active, made, commands>>
  BY DEF AwaitReady, streamVars, clientVars
<1>2. events' \in Seq(EventSet) /\ Range(events') \subseteq Range(events)
  BY <1>1, Popped DEF IInv, Types
<1>3. process' # "booting" /\ receiver = "off" /\ tracker = {}
                           /\ \A c \in Clients : pc[c] = "idle" /\ AtRest(c)
  BY <1>1 DEF IInv, Phases, BeforeSubmit, Unborn, Types
<1>4. OrderedCommands' /\ Delivered'
  BY <1>1, <1>2, <1>3 DEF IInv, OrderedCommands, Delivered, Queued
<1>5. Types'
  BY <1>1, <1>2, <1>3 DEF IInv, Types
<1>6. Phases'
  BY <1>1, <1>2, <1>3 DEF IInv, Phases, Types
<1>7. BeforeSubmit'
  BY <1>1, <1>2, <1>3 DEF IInv, BeforeSubmit, Unborn, AtRest, Queued, Aborting, Types
<1>8. Reachable'
  BY <1>1, <1>2, <1>3 DEF IInv, Reachable, Types
<1>9. Over'
  BY <1>1, <1>2, <1>3 DEF IInv, Over, AtRest, Queued, Types
<1>10. Adopted'
  BY <1>1, <1>2, <1>3 DEF IInv, Adopted, AtRest, Queued, Aborting
<1>11. Counted'
  BY <1>1, <1>2, <1>3 DEF IInv, Counted
<1> QED BY <1>4, <1>5, <1>6, <1>7, <1>8, <1>9, <1>10, <1>11 DEF IInv

\* A registered stream is in the tracker, and nothing was made for it.
LEMMA RegisterIInv ==
  ASSUME IInv, NEW c \in Clients, Register(c)
  PROVE  IInv'
<1>1. /\ pc[c] = "idle" /\ lifecycle = "running"
      /\ tracker' = tracker \cup {c}
      /\ receiver' = IF receiver = "off" THEN "get" ELSE receiver
      /\ pc' = [pc EXCEPT ![c] = "tokenizing"]
      /\ UNCHANGED <<lifecycle, refused, inbox, seen, finished, got, outcome, process, active,
                     made, commands, events>>
  BY DEF Register, schedVars
<1>2. /\ Unborn(c) /\ Len(events) \in Nat
      /\ \A j \in 1..Len(events) : ~IsOutput(events[j], c)
      /\ \A j \in 0..Len(events) : Count(events, c, j) = 0
  <2>1. Unborn(c)
    BY <1>1 DEF IInv, BeforeSubmit
  <2>2. Len(events) \in Nat /\ \A j \in 1..Len(events) : ~IsOutput(events[j], c)
    BY <2>1 DEF IInv, Types, Unborn, Range
  <2>3. ASSUME NEW j \in 0..Len(events) PROVE Count(events, c, j) = 0
    <3>1. Places(events, c, j) = {}
      BY <2>2 DEF Places
    <3> QED BY <3>1, FS_EmptySet DEF Count
  <2> QED BY <2>1, <2>2, <2>3
<1>3. OrderedCommands' /\ Delivered'
  BY <1>1, <1>2 DEF IInv, OrderedCommands, Delivered, Queued
<1>4. Types'
  BY <1>1 DEF IInv, Types
<1>5. Phases'
  BY <1>1, <1>2 DEF IInv, Phases, Types
<1>6. BeforeSubmit'
  BY <1>1, <1>2 DEF IInv, BeforeSubmit, Unborn, AtRest, Queued, Aborting, Types
<1>7. Reachable'
  BY <1>1, <1>2 DEF IInv, Reachable, Types
<1>8. Over'
  BY <1>1, <1>2 DEF IInv, Over, AtRest, Queued, Types
<1>9. Adopted'
  BY <1>1, <1>2 DEF IInv, Adopted, AtRest, Queued, Aborting
<1>10. Counted'
  <2>1. made[c] = 0 /\ seen[c] = 0
    BY <1>2 DEF Unborn
  <2>2. tracker' = tracker \cup {c} /\ UNCHANGED <<process, seen, events, made>> /\ Counted
    BY <1>1 DEF IInv
  <2> QED BY <1>2, <2>1, <2>2 DEF Counted
<1> QED BY <1>3, <1>4, <1>5, <1>6, <1>7, <1>8, <1>9, <1>10 DEF IInv

\* A refused call leaves no trace.
LEMMA RefuseIInv ==
  ASSUME IInv, NEW c \in Clients, Refuse(c)
  PROVE  IInv'
<1>1. /\ pc[c] = "idle" /\ lifecycle \notin {"starting", "running"}
      /\ pc' = [pc EXCEPT ![c] = "done"] /\ outcome' = [outcome EXCEPT ![c] = "refused"]
      /\ UNCHANGED <<lifecycle, receiver, refused, tracker, inbox, seen, finished, got,
                     process, active, made, commands, events>>
  BY DEF Refuse, engineVars, streamVars, schedVars
<1>2. OrderedCommands' /\ Adopted' /\ Counted'
  BY <1>1 DEF IInv, OrderedCommands, Adopted, Counted, AtRest, Queued, Aborting
<1>3. Types'
  BY <1>1 DEF IInv, Types
<1>4. Phases'
  BY <1>1 DEF IInv, Phases, Types
<1>5. BeforeSubmit'
  BY <1>1 DEF IInv, BeforeSubmit, Unborn, AtRest, Queued, Aborting, Types
<1>6. Reachable'
  BY <1>1 DEF IInv, Reachable, Types
<1>7. Over'
  BY <1>1 DEF IInv, Over, AtRest, Queued, Types
<1>8. Delivered'
  BY <1>1 DEF IInv, Delivered, Types
<1> QED BY <1>2, <1>3, <1>4, <1>5, <1>6, <1>7, <1>8 DEF IInv

\* The request is queued for the first time.
LEMMA SubmitIInv ==
  ASSUME IInv, NEW c \in Clients, Submit(c)
  PROVE  IInv'
<1>1. /\ pc[c] = "tokenizing" /\ lifecycle = "running"
      /\ commands' = Append(commands, Add(c)) /\ pc' = [pc EXCEPT ![c] = "streaming"]
      /\ UNCHANGED <<lifecycle, receiver, refused, tracker, inbox, seen, finished, got,
                     outcome, process, active, made, events>>
  BY DEF Submit, engineVars, streamVars, schedVars
<1>2. commands' \in Seq(CommandSet) /\ Range(commands') = Range(commands) \cup {Add(c)}
  BY <1>1, Pushed, Commands DEF IInv, Types
<1>3. Unborn(c)
  BY <1>1 DEF IInv, BeforeSubmit
<1>4. \A d \in Clients : (Queued(d)' <=> Queued(d) \/ d = c) /\ (Aborting(d)' <=> Aborting(d))
  BY <1>2, Commands DEF Queued, Aborting
<1>5. c \in tracker
  BY <1>1 DEF IInv, Reachable
<1>6. Counted' /\ Delivered'
  BY <1>1, <1>2, <1>3, <1>4, <1>5 DEF IInv, Counted, Delivered
<1>7. Types'
  BY <1>1, <1>2, <1>3, <1>4, <1>5 DEF IInv, Types
<1>8. Phases'
  BY <1>1, <1>2, <1>3, <1>4, <1>5 DEF IInv, Phases, Types
<1>9. BeforeSubmit'
  BY <1>1, <1>2, <1>3, <1>4, <1>5 DEF IInv, BeforeSubmit, Unborn, AtRest, Queued, Aborting, Types
<1>10. Reachable'
  BY <1>1, <1>2, <1>3, <1>4, <1>5 DEF IInv, Reachable, Types
<1>11. OrderedCommands'
  <2>1. \A d \in Clients : InOrder(commands', d)
    BY <1>1, <1>3, OrderPushed, Commands DEF IInv, Types, OrderedCommands, Unborn, AtRest,
       Queued, Aborting
  <2> QED BY <1>1, <1>3, <1>4, <2>1 DEF IInv, OrderedCommands, Unborn, AtRest
<1>12. Over'
  BY <1>1, <1>3, <1>4 DEF IInv, Over, AtRest, Unborn, IsLast, Types
<1>13. Adopted'
  BY <1>1, <1>4, <1>5 DEF IInv, Adopted, AtRest
<1> QED BY <1>6, <1>7, <1>8, <1>9, <1>10, <1>11, <1>12, <1>13 DEF IInv

\* A coroutine leaves generate(), with or without an abort.
LeavesAs(c, how) ==
    /\ pc[c] \in {"tokenizing", "streaming"}
    /\ Leave(c, how)
    /\ inbox' \in [Clients -> Seq(Items)] /\ got' \in [Clients -> Nat]
    /\ Range(inbox'[c]) \subseteq Range(inbox[c])
    /\ \A d \in Clients \ {c} : inbox'[d] = inbox[d] /\ got'[d] = got[d]
    /\ how = "finish" => AtRest(c) /\ got'[c] = made[c]
    /\ UNCHANGED <<lifecycle, receiver, refused, seen, finished, process, active, made, events>>

\* A stream leaves the tracker only when its request is over or its abort is sent.
LEMMA LeaveIInv ==
  ASSUME IInv, NEW c \in Clients, NEW how, LeavesAs(c, how)
  PROVE  IInv'
<1>1. /\ pc[c] \in {"tokenizing", "streaming"} /\ tracker' = tracker \ {c}
      /\ pc' = [pc EXCEPT ![c] = "done"] /\ outcome' = [outcome EXCEPT ![c] = how]
      /\ inbox' \in [Clients -> Seq(Items)] /\ got' \in [Clients -> Nat]
      /\ Range(inbox'[c]) \subseteq Range(inbox[c])
      /\ \A d \in Clients \ {c} : inbox'[d] = inbox[d] /\ got'[d] = got[d]
      /\ how = "finish" => AtRest(c) /\ got'[c] = made[c]
      /\ UNCHANGED <<lifecycle, receiver, refused, seen, finished, process, active, made, events>>
  BY DEF LeavesAs, Leave
<1>2. \/ commands' = commands /\ (lifecycle = "running" /\ process = "alive" => AtRest(c))
      \/ commands' = Append(commands, AbortCmd(c)) /\ pc[c] = "streaming"
  <2>1. CASE commands' = Append(commands, AbortCmd(c)) /\ pc[c] = "streaming"
    BY <2>1
  <2>2. CASE commands' = commands /\ ~(pc[c] = "streaming" /\ ~finished[c]
                                  /\ lifecycle = "running" /\ CanSend)
    <3>1. pc[c] = "tokenizing" => AtRest(c)
      BY DEF IInv, BeforeSubmit, Unborn
    <3>2. finished[c] /\ lifecycle = "running" => AtRest(c)
      BY DEF IInv, Over
    <3>3. lifecycle = "running" /\ process = "alive" => CanSend
      BY DEF IInv, Phases, CanSend
    <3> QED BY <1>1, <2>2, <3>1, <3>2, <3>3
  <2> QED BY <2>1, <2>2 DEF LeavesAs, Leave
<1>3. /\ commands' \in Seq(CommandSet)
      /\ Range(commands') \subseteq Range(commands) \cup {AbortCmd(c)}
      /\ Range(commands) \subseteq Range(commands')
      /\ commands' # commands => AbortCmd(c) \in Range(commands')
  <2>1. commands \in Seq(CommandSet) /\ AbortCmd(c) \in CommandSet
    BY Commands DEF IInv, Types
  <2>2. CASE commands' = commands
    BY <2>1, <2>2
  <2>3. CASE commands' = Append(commands, AbortCmd(c))
    BY <2>1, <2>3, Pushed
  <2> QED BY <1>2, <2>2, <2>3
<1>4. /\ \A d \in Clients : Queued(d)' <=> Queued(d)
      /\ \A d \in Clients : (Aborting(d)' /\ d # c) => Aborting(d)
      /\ \A d \in Clients : Aborting(d) => Aborting(d)'
      /\ commands' # commands => Aborting(c)'
  BY <1>3, Commands DEF Queued, Aborting
<1>5. Types'
  BY <1>1, <1>3 DEF IInv, Types
<1>6. Phases'
  BY <1>1, <1>2, <1>3, <1>4 DEF IInv, Phases, Types
<1>7. BeforeSubmit'
  BY <1>1, <1>4 DEF IInv, BeforeSubmit, Unborn, AtRest, Types
<1>8. Reachable'
  BY <1>1 DEF IInv, Reachable, Types
<1>9. OrderedCommands'
  <2>1. \A d \in Clients : InOrder(commands', d)
    <3>1. commands \in Seq(CommandSet) /\ AbortCmd(c) \in CommandSet
                                       /\ \A d \in Clients : InOrder(commands, d)
      BY Commands DEF IInv, Types, OrderedCommands
    <3>2. CASE commands' = commands
      BY <3>1, <3>2
    <3>3. CASE commands' = Append(commands, AbortCmd(c))
      BY <3>1, <3>3, OrderPushed, Commands
    <3> QED BY <1>2, <3>2, <3>3
  <2> QED BY <1>1, <1>4, <2>1 DEF IInv, OrderedCommands
<1>10. Over'
  BY <1>1, <1>4 DEF IInv, Over, AtRest, Types
<1>11. Adopted'
  BY <1>1, <1>2, <1>4 DEF IInv, Adopted, AtRest
<1>12. Counted'
  BY <1>1 DEF IInv, Counted
<1>13. Delivered'
  BY <1>1 DEF IInv, Delivered, Types
<1> QED BY <1>5, <1>6, <1>7, <1>8, <1>9, <1>10, <1>11, <1>12, <1>13 DEF IInv

\* The stream is dropped before or after it was submitted.
LEMMA GiveUpIInv ==
  ASSUME IInv, NEW c \in Clients, GiveUp(c) \/ Close(c)
  PROVE  IInv'
<1>1. PICK how \in {"refused", "closed"} : LeavesAs(c, how)
  BY DEF GiveUp, Close, LeavesAs, IInv, Types, engineVars, schedVars
<1> QED BY <1>1, LeaveIInv

\* A chunk that is not the last is handed to the client.
LEMMA YieldIInv ==
  ASSUME IInv, NEW c \in Clients, Consume(c), ~Terminal(Head(inbox[c]))
  PROVE  IInv'
<1>1. /\ pc[c] = "streaming" /\ inbox[c] # <<>> /\ ~Terminal(Head(inbox[c]))
      /\ inbox' = [inbox EXCEPT ![c] = Tail(inbox[c])]
      /\ got' = [got EXCEPT ![c] = Head(inbox[c]).n]
      /\ UNCHANGED <<lifecycle, receiver, refused, tracker, seen, finished, pc, outcome,
                     process, active, made, commands, events>>
  BY DEF Consume, Terminal, engineVars, schedVars
<1>2. /\ inbox[c] \in Seq(Items) /\ Tail(inbox[c]) \in Seq(Items) /\ Head(inbox[c]).n \in Nat
      /\ Range(inbox[c]) = Range(Tail(inbox[c])) \cup {Head(inbox[c])}
  <2>1. inbox[c] \in Seq(Items)
    BY DEF IInv, Types
  <2>2. Head(inbox[c]) \in Items
    BY <1>1, <2>1, Popped
  <2> QED BY <1>1, <2>1, <2>2, Popped DEF Items
<1>3. /\ inbox' \in [Clients -> Seq(Items)] /\ got' \in [Clients -> Nat]
      /\ inbox'[c] = Tail(inbox[c]) /\ \A d \in Clients \ {c} : inbox'[d] = inbox[d] /\ got'[d] = got[d]

  BY <1>1, <1>2 DEF IInv, Types
<1>4. Phases' /\ BeforeSubmit' /\ OrderedCommands' /\ Adopted' /\ Counted'
  BY <1>1, <1>2, <1>3 DEF IInv, Phases, BeforeSubmit, OrderedCommands, Adopted, Counted,
     Unborn, AtRest, Queued, Aborting
<1>5. Types'
  BY <1>1, <1>3 DEF IInv, Types
<1>6. Reachable'
  BY <1>1, <1>2, <1>3 DEF IInv, Reachable
<1>7. Over'
  BY <1>1, <1>2, <1>3 DEF IInv, Over, AtRest, Queued
<1>8. Delivered'
  BY <1>1, <1>2, <1>3 DEF IInv, Delivered, Over
<1> QED BY <1>4, <1>5, <1>6, <1>7, <1>8 DEF IInv

\* An item is taken from the stream's queue.
LEMMA ConsumeIInv ==
  ASSUME IInv, NEW c \in Clients, Consume(c)
  PROVE  IInv'
<1>1. CASE ~Terminal(Head(inbox[c]))
  BY <1>1, YieldIInv
<1>2. CASE Terminal(Head(inbox[c]))
  <2> DEFINE item == Head(inbox[c])
  <2>1. /\ pc[c] = "streaming" /\ inbox[c] # <<>> /\ Leave(c, item.end)
        /\ inbox' = [inbox EXCEPT ![c] = Tail(inbox[c])]
        /\ got' = [got EXCEPT ![c] = IF item.end \in {"no", "finish"} THEN item.n ELSE got[c]]
        /\ UNCHANGED <<lifecycle, receiver, refused, seen, finished, process, active, made,
                       events>>
    BY <1>2 DEF Consume, engineVars, schedVars
  <2>2. inbox[c] \in Seq(Items)
    BY DEF IInv, Types
  <2>3. /\ Tail(inbox[c]) \in Seq(Items) /\ item \in Range(inbox[c]) /\ item.n \in Nat
        /\ Range(Tail(inbox[c])) \subseteq Range(inbox[c])
    <3>1. item \in Items /\ Tail(inbox[c]) \in Seq(Items)
                         /\ Range(inbox[c]) = Range(Tail(inbox[c])) \cup {item}
      BY <2>1, <2>2, Popped
    <3> QED BY <3>1 DEF Items
  <2>4. item.end = "finish" => AtRest(c) /\ item.n = made[c]
    BY <2>3 DEF IInv, Over, Delivered
  <2>5. /\ inbox' \in [Clients -> Seq(Items)] /\ got' \in [Clients -> Nat]
        /\ inbox'[c] = Tail(inbox[c])
        /\ \A d \in Clients \ {c} : inbox'[d] = inbox[d] /\ got'[d] = got[d]
        /\ item.end = "finish" => got'[c] = item.n
    BY <2>1, <2>3 DEF IInv, Types
  <2>6. LeavesAs(c, item.end)
    BY <2>1, <2>3, <2>4, <2>5 DEF LeavesAs
  <2> QED BY <2>6, LeaveIInv
<1> QED BY <1>1, <1>2

\* The process starts or fails to: nobody has registered yet.
LEMMA BootIInv ==
  ASSUME IInv, Boot
  PROVE  IInv'
<1>1. /\ process = "booting" /\ process' \in {"alive", "dead"}
      /\ events' = Append(events, Ready) \/ events' = Append(events, Failed)
      /\ UNCHANGED <<lifecycle, receiver, refused, tracker, inbox, seen, finished, pc, got,
                     outcome, active, made, commands>>
  BY DEF Boot, engineVars, streamVars, clientVars
<1>2. /\ events' \in Seq(EventSet) /\ Range(events') \subseteq Range(events) \cup {Ready, Failed}
      /\ \A c : ~IsOutput(Ready, c) /\ ~IsOutput(Failed, c)
  <2>1. events \in Seq(EventSet) /\ Ready \in EventSet /\ Failed \in EventSet
    BY Events DEF IInv, Types
  <2>2. CASE events' = Append(events, Ready)
    BY <2>1, <2>2, Pushed, Events
  <2>3. CASE events' = Append(events, Failed)
    BY <2>1, <2>3, Pushed, Events
  <2> QED BY <1>1, <2>2, <2>3
<1>3. lifecycle = "starting" /\ tracker = {}
  BY <1>1 DEF IInv, Phases, BeforeSubmit, Unborn, Types
<1>4. Reachable' /\ OrderedCommands' /\ Delivered'
  BY <1>1, <1>2, <1>3 DEF IInv, Reachable, OrderedCommands, Delivered, Queued
<1>5. Types'
  BY <1>1, <1>2 DEF IInv, Types
<1>6. Phases'
  BY <1>1, <1>2, <1>3 DEF IInv, Phases, Types
<1>7. BeforeSubmit'
  BY <1>1, <1>2, <1>3 DEF IInv, BeforeSubmit, Unborn, AtRest, Queued, Aborting, Types
<1>8. Over'
  BY <1>1, <1>2 DEF IInv, Over, AtRest, Queued, IsLast
<1>9. Adopted'
  BY <1>1, <1>2, <1>3 DEF IInv, Adopted, AtRest, Queued, Aborting
<1>10. Counted'
  BY <1>1, <1>2, <1>3 DEF IInv, Counted
<1> QED BY <1>4, <1>5, <1>6, <1>7, <1>8, <1>9, <1>10 DEF IInv

\* An event joins the queue of a live process, and the tokens it carries count
\* as made.
LEMMA CountedPushed ==
  ASSUME IInv, process = "alive", NEW e \in EventSet, events' = Append(events, e),
         UNCHANGED <<tracker, seen>>,
         \A d \in tracker :
            /\ made'[d] = made[d] + IF IsToken(e, d) THEN 1 ELSE 0
            /\ IsOutput(e, d) /\ e.end = "finish" => e.tokens = 1
            /\ IsToken(e, d) => \A x \in Range(events) : ~IsLast(x, d)
  PROVE  Counted'
<1>1. /\ events \in Seq(EventSet) /\ Len(events) \in Nat /\ Len(events') = Len(events) + 1
      /\ events'[Len(events) + 1] = e /\ \A j \in 1..Len(events) : events'[j] = events[j]
      /\ \A j \in 1..Len(events) : events[j] \in Range(events)
  BY DEF IInv, Types, Range
<1> SUFFICES ASSUME NEW d \in tracker
             PROVE  /\ process' = "alive" => seen[d] + Count(events', d, Len(events')) = made'[d]
                    /\ \A j \in 1..Len(events') :
                         IsOutput(events'[j], d) /\ events'[j].end = "finish" =>
                            events'[j].tokens = 1 /\ seen[d] + Count(events', d, j) = made'[d]
  BY DEF Counted
<1>2. d \in Clients /\ seen[d] \in Nat /\ made[d] \in Nat /\ Count(events, d, Len(events)) \in Nat
  BY <1>1, CountType DEF IInv, Types
<1>3. Count(events', d, Len(events'))
        = Count(events, d, Len(events)) + IF IsToken(e, d) THEN 1 ELSE 0

  BY <1>1, CountAppend
<1>4. seen[d] + Count(events', d, Len(events')) = made'[d]
  BY <1>2, <1>3 DEF IInv, Counted
<1>5. ASSUME NEW j \in 1..Len(events'), IsOutput(events'[j], d), events'[j].end = "finish"
      PROVE  events'[j].tokens = 1 /\ seen[d] + Count(events', d, j) = made'[d]
  <2>1. CASE j = Len(events) + 1
    BY <1>1, <1>4, <1>5, <2>1
  <2>2. CASE j \in 1..Len(events)
    <3>1. Count(events', d, j) = Count(events, d, j)
      BY <1>1, <2>2, CountAppend
    <3>2. events'[j] = events[j] /\ IsLast(events[j], d)
      BY <1>1, <1>5, <2>2 DEF IsLast
    <3>3. made'[d] = made[d]
      BY <1>1, <1>2, <2>2, <3>2
    <3> QED BY <1>5, <2>2, <3>1, <3>2, <3>3 DEF IInv, Counted
  <2> QED BY <1>1, <2>1, <2>2
<1> QED BY <1>4, <1>5

\* The event loop takes a command from the queue.
Takes(cmd) ==
    /\ process = "alive" /\ commands # <<>> /\ cmd = Head(commands) /\ commands' = Tail(commands)
    /\ UNCHANGED <<lifecycle, receiver, refused, tracker, inbox, seen, finished, pc, got,
                   outcome, process, made>>

\* What is left in the command queue.
LEMMA TakesFacts ==
  ASSUME IInv, NEW cmd, Takes(cmd)
  PROVE  /\ cmd \in CommandSet /\ commands' \in Seq(CommandSet)
         /\ Range(commands) = Range(commands') \cup {cmd}
         /\ \A d \in Clients :
              /\ InOrder(commands', d)
              /\ Queued(d) <=> Queued(d)' \/ cmd = Add(d)
              /\ Aborting(d) <=> Aborting(d)' \/ cmd = AbortCmd(d)
              /\ cmd \in {Add(d), AbortCmd(d)} => ~Queued(d)'
<1>1. commands \in Seq(CommandSet) /\ \A d \in Clients : InOrder(commands, d)
  BY DEF IInv, Types, OrderedCommands
<1>2. /\ cmd \in CommandSet /\ commands' \in Seq(CommandSet)
      /\ Range(commands) = Range(commands') \cup {cmd}
  BY <1>1, Popped DEF Takes
<1>3. ASSUME NEW d \in Clients
      PROVE  /\ InOrder(commands', d)
             /\ cmd \in {Add(d), AbortCmd(d)} => ~Queued(d)'
  BY <1>1, OrderPopped DEF Takes, Queued
<1> QED BY <1>2, <1>3 DEF Queued, Aborting

\* The scheduler admits a request.
LEMMA AdmitIInv ==
  ASSUME IInv, NEW c \in Clients, Takes(Add(c)), active' = active \cup {c}, UNCHANGED events
  PROVE  IInv'
<1>1. /\ commands' \in Seq(CommandSet)
      /\ \A d \in Clients :
           /\ InOrder(commands', d)
           /\ Queued(d) <=> Queued(d)' \/ d = c
           /\ Aborting(d) <=> Aborting(d)'
           /\ d = c => ~Queued(d)'
  BY TakesFacts, Commands
<1>2. UNCHANGED <<lifecycle, receiver, refused, tracker, inbox, seen, finished, pc, got,
                  outcome, process, made, events>> /\ process = "alive"
  BY DEF Takes
<1>3. Phases' /\ Reachable' /\ Counted' /\ Delivered'
  BY <1>1, <1>2 DEF IInv, Phases, Reachable, Counted, Delivered
<1>4. Types'
  BY <1>1, <1>2 DEF IInv, Types
<1>5. BeforeSubmit'
  BY <1>1, <1>2 DEF IInv, BeforeSubmit, Unborn, AtRest
<1>6. OrderedCommands'
  BY <1>1, <1>2 DEF IInv, OrderedCommands
<1>7. Over'
  BY <1>1, <1>2 DEF IInv, Over, AtRest
<1>8. Adopted'
  BY <1>1, <1>2 DEF IInv, Adopted, AtRest
<1> QED BY <1>3, <1>4, <1>5, <1>6, <1>7, <1>8 DEF IInv

\* The scheduler refuses a request and says so.
LEMMA RejectIInv ==
  ASSUME IInv, NEW c \in Clients, Takes(Add(c)), UNCHANGED active,
         events' = Append(events, Output(c, 0, "error"))
  PROVE  IInv'
<1>1. /\ commands' \in Seq(CommandSet)
      /\ \A d \in Clients :
           /\ InOrder(commands', d)
           /\ Queued(d) <=> Queued(d)' \/ d = c
           /\ Aborting(d) <=> Aborting(d)'
           /\ d = c => ~Queued(d)'
  BY TakesFacts, Commands
<1>2. UNCHANGED <<lifecycle, receiver, refused, tracker, inbox, seen, finished, pc, got,
                  outcome, process, active, made>> /\ process = "alive"
  BY DEF Takes
<1>3. /\ Output(c, 0, "error") \in EventSet /\ events' \in Seq(EventSet)
      /\ Range(events') = Range(events) \cup {Output(c, 0, "error")}
      /\ \A d \in Clients : (IsOutput(Output(c, 0, "error"), d) <=> d = c)
                            /\ ~IsToken(Output(c, 0, "error"), d)

      /\ Output(c, 0, "error").end = "error"
  <2>1. events \in Seq(EventSet)
    BY DEF IInv, Types
  <2> QED BY <2>1, Pushed, Events DEF IsToken
<1>4. Reachable' /\ Delivered'
  BY <1>1, <1>2, <1>3 DEF IInv, Reachable, Delivered
<1>5. Types'
  BY <1>1, <1>2, <1>3 DEF IInv, Types
<1>6. Phases'
  BY <1>1, <1>2, <1>3 DEF IInv, Phases, Types
<1>7. BeforeSubmit'
  BY <1>1, <1>2, <1>3 DEF IInv, BeforeSubmit, Unborn, AtRest
<1>8. OrderedCommands'
  BY <1>1, <1>2, <1>3 DEF IInv, OrderedCommands
<1>9. Over'
  BY <1>1, <1>2, <1>3 DEF IInv, Over, AtRest, IsLast, OrderedCommands
<1>10. Adopted'
  BY <1>1, <1>2, <1>3 DEF IInv, Adopted, AtRest
<1>11. Counted'
  BY <1>2, <1>3, CountedPushed DEF IInv, Types
<1> QED BY <1>4, <1>5, <1>6, <1>7, <1>8, <1>9, <1>10, <1>11 DEF IInv

\* The scheduler drops a request.
LEMMA CancelIInv ==
  ASSUME IInv, NEW c \in Clients, Takes(AbortCmd(c)), active' = active \ {c}, UNCHANGED events
  PROVE  IInv'
<1>1. /\ commands' \in Seq(CommandSet)
      /\ \A d \in Clients :
           /\ InOrder(commands', d)
           /\ Queued(d) <=> Queued(d)'
           /\ Aborting(d) <=> Aborting(d)' \/ d = c
           /\ d = c => ~Queued(d)'
  BY TakesFacts, Commands
<1>2. UNCHANGED <<lifecycle, receiver, refused, tracker, inbox, seen, finished, pc, got,
                  outcome, process, made, events>> /\ process = "alive"
  BY DEF Takes
<1>3. Phases' /\ Reachable' /\ Counted' /\ Delivered'
  BY <1>1, <1>2 DEF IInv, Phases, Reachable, Counted, Delivered
<1>4. Types'
  BY <1>1, <1>2 DEF IInv, Types
<1>5. BeforeSubmit'
  BY <1>1, <1>2 DEF IInv, BeforeSubmit, Unborn, AtRest
<1>6. OrderedCommands'
  BY <1>1, <1>2 DEF IInv, OrderedCommands
<1>7. Over'
  BY <1>1, <1>2 DEF IInv, Over, AtRest
<1>8. Adopted'
  BY <1>1, <1>2 DEF IInv, Adopted, AtRest
<1> QED BY <1>3, <1>4, <1>5, <1>6, <1>7, <1>8 DEF IInv

\* The scheduler answers a utility call.
LEMMA AnswerIInv ==
  ASSUME IInv, Takes(Utility), UNCHANGED active, events' = Append(events, Stats)
  PROVE  IInv'
<1>1. /\ commands' \in Seq(CommandSet)
      /\ \A d \in Clients :
           /\ InOrder(commands', d)
           /\ Queued(d) <=> Queued(d)'
           /\ Aborting(d) <=> Aborting(d)'
  BY TakesFacts, Commands
<1>2. UNCHANGED <<lifecycle, receiver, refused, tracker, inbox, seen, finished, pc, got,
                  outcome, process, active, made>> /\ process = "alive"
  BY DEF Takes
<1>3. /\ Stats \in EventSet /\ events' \in Seq(EventSet)
      /\ Range(events') = Range(events) \cup {Stats}
      /\ \A d \in Clients : ~IsOutput(Stats, d) /\ ~IsToken(Stats, d)
  <2>1. events \in Seq(EventSet)
    BY DEF IInv, Types
  <2> QED BY <2>1, Pushed, Events DEF IsToken
<1>4. Reachable' /\ Delivered'
  BY <1>1, <1>2, <1>3 DEF IInv, Reachable, Delivered
<1>5. Types'
  BY <1>1, <1>2, <1>3 DEF IInv, Types
<1>6. Phases'
  BY <1>1, <1>2, <1>3 DEF IInv, Phases, Types
<1>7. BeforeSubmit'
  BY <1>1, <1>2, <1>3 DEF IInv, BeforeSubmit, Unborn, AtRest
<1>8. OrderedCommands'
  BY <1>1, <1>2, <1>3 DEF IInv, OrderedCommands
<1>9. Over'
  BY <1>1, <1>2, <1>3 DEF IInv, Over, AtRest, IsLast
<1>10. Adopted'
  BY <1>1, <1>2, <1>3 DEF IInv, Adopted, AtRest
<1>11. Counted'
  BY <1>2, <1>3, CountedPushed DEF IInv, Types
<1> QED BY <1>4, <1>5, <1>6, <1>7, <1>8, <1>9, <1>10, <1>11 DEF IInv

\* The scheduler reads its shutdown.
LEMMA StopIInv ==
  ASSUME IInv, Takes(Shutdown), UNCHANGED <<active, events>>
  PROVE  IInv'
<1>1. /\ commands' \in Seq(CommandSet)
      /\ \A d \in Clients :
           /\ InOrder(commands', d)
           /\ Queued(d) <=> Queued(d)'
           /\ Aborting(d) <=> Aborting(d)'
  BY TakesFacts, Commands
<1>2. UNCHANGED <<lifecycle, receiver, refused, tracker, inbox, seen, finished, pc, got,
                  outcome, process, active, made, events>> /\ process = "alive"
  BY DEF Takes
<1>3. Phases' /\ Reachable' /\ Counted' /\ Delivered'
  BY <1>1, <1>2 DEF IInv, Phases, Reachable, Counted, Delivered
<1>4. Types'
  BY <1>1, <1>2 DEF IInv, Types
<1>5. BeforeSubmit'
  BY <1>1, <1>2 DEF IInv, BeforeSubmit, Unborn, AtRest
<1>6. OrderedCommands'
  BY <1>1, <1>2 DEF IInv, OrderedCommands
<1>7. Over'
  BY <1>1, <1>2 DEF IInv, Over, AtRest
<1>8. Adopted'
  BY <1>1, <1>2 DEF IInv, Adopted, AtRest
<1> QED BY <1>3, <1>4, <1>5, <1>6, <1>7, <1>8 DEF IInv

\* The event loop applies one command.
LEMMA ApplyIInv ==
  ASSUME IInv, Apply
  PROVE  IInv'
<1> DEFINE cmd == Head(commands)
<1>1. Takes(cmd)
  BY DEF Apply, Takes, engineVars, streamVars, clientVars
<1>2. cmd \in CommandSet
  BY <1>1, TakesFacts
<1>3. CASE cmd.type = "add" /\ active' = active \cup {cmd.client} /\ UNCHANGED events
  BY <1>1, <1>2, <1>3, AdmitIInv, Commands
<1>4. CASE cmd.type = "add" /\ events' = Append(events, Output(cmd.client, 0, "error"))
                            /\ UNCHANGED active
  BY <1>1, <1>2, <1>4, RejectIInv, Commands
<1>5. CASE cmd.type = "abort" /\ active' = active \ {cmd.client} /\ UNCHANGED events
  BY <1>1, <1>2, <1>5, CancelIInv, Commands
<1>6. CASE cmd.type = "utility" /\ events' = Append(events, Stats) /\ UNCHANGED active
  BY <1>1, <1>2, <1>6, AnswerIInv, Commands
<1>7. CASE cmd.type = "shutdown" /\ UNCHANGED <<active, events>>
  BY <1>1, <1>2, <1>7, StopIInv, Commands
<1> QED BY <1>3, <1>4, <1>5, <1>6, <1>7 DEF Apply

\* A token is made and published.
LEMMA AdvanceIInv ==
  ASSUME IInv, NEW c \in Clients, Advance(c)
  PROVE  IInv'
<1>1. PICK end \in {"no", "finish"} :
         /\ active' = IF end = "finish" THEN active \ {c} ELSE active
         /\ events' = Append(events, Output(c, 1, end))
  BY DEF Advance
<1>2. /\ process = "alive" /\ c \in active /\ made' = [made EXCEPT ![c] = made[c] + 1]
      /\ UNCHANGED <<lifecycle, receiver, refused, tracker, inbox, seen, finished, pc, got,
                     outcome, process, commands>>
  BY DEF Advance, engineVars, streamVars, clientVars
<1>3. /\ Output(c, 1, end) \in EventSet /\ events' \in Seq(EventSet)
      /\ Range(events') = Range(events) \cup {Output(c, 1, end)}
      /\ \A d \in Clients : 
           /\ IsOutput(Output(c, 1, end), d) <=> d = c
           /\ IsToken(Output(c, 1, end), d) <=> d = c

      /\ Output(c, 1, end).end = end /\ Output(c, 1, end).tokens = 1
  <2>1. events \in Seq(EventSet)
    BY DEF IInv, Types
  <2> QED BY <1>1, <2>1, Pushed, Events DEF IsToken
<1>4. \A d \in Clients : (Queued(d)' <=> Queued(d)) /\ (Aborting(d)' <=> Aborting(d))
  BY <1>2 DEF Queued, Aborting
<1>5. ~Queued(c)
  BY <1>2 DEF IInv, OrderedCommands
<1>6. Reachable'
  BY <1>1, <1>2, <1>3, <1>4, <1>5 DEF IInv, Reachable
<1>7. Types'
  BY <1>1, <1>2, <1>3 DEF IInv, Types
<1>8. Phases'
  BY <1>2 DEF IInv, Phases
<1>9. BeforeSubmit'
  BY <1>1, <1>2, <1>3, <1>4 DEF IInv, BeforeSubmit, Unborn, AtRest, Types
<1>10. OrderedCommands'
  BY <1>1, <1>2, <1>4 DEF IInv, OrderedCommands
<1>11. Over'
  BY <1>1, <1>2, <1>3, <1>4, <1>5 DEF IInv, Over, AtRest, IsLast
<1>12. Adopted'
  BY <1>1, <1>2, <1>4 DEF IInv, Adopted, AtRest
<1>13. Counted'
  <2>1. \A x \in Range(events) : ~IsLast(x, c)
    BY <1>2 DEF IInv, Over, AtRest
  <2>2. \A d \in Clients : made'[d] = made[d] + IF d = c THEN 1 ELSE 0
    BY <1>2 DEF IInv, Types
  <2>3. tracker \subseteq Clients
    BY DEF IInv, Types
  <2> QED BY <1>1, <1>2, <1>3, <2>1, <2>2, <2>3, CountedPushed
<1>14. Delivered'
  BY <1>2 DEF IInv, Delivered, Over, AtRest, Types
<1> QED BY <1>6, <1>7, <1>8, <1>9, <1>10, <1>11, <1>12, <1>13, <1>14 DEF IInv

\* The event loop returns.
LEMMA DrainedIInv ==
  ASSUME IInv, Drained
  PROVE  IInv'
<1>1. /\ process' = "dead"
      /\ UNCHANGED <<lifecycle, receiver, refused, tracker, inbox, seen, finished, pc, got,
                     outcome, active, made, commands, events>>
  BY DEF Drained, engineVars, streamVars, clientVars
<1>2. BeforeSubmit' /\ Reachable' /\ OrderedCommands' /\ Over' /\ Delivered'
  BY <1>1 DEF IInv, BeforeSubmit, Reachable, OrderedCommands, Over, Delivered, Unborn, AtRest,
     Queued, Aborting
<1>3. Types'
  BY <1>1 DEF IInv, Types
<1>4. Phases'
  BY <1>1 DEF IInv, Phases, Types
<1>5. Adopted'
  BY <1>1 DEF IInv, Adopted, AtRest, Queued, Aborting
<1>6. Counted'
  BY <1>1 DEF IInv, Counted
<1> QED BY <1>2, <1>3, <1>4, <1>5, <1>6 DEF IInv

\* The event loop raises and says so.
LEMMA CrashIInv ==
  ASSUME IInv, Crash
  PROVE  IInv'
<1>1. /\ process = "alive" /\ process' = "dead" /\ events' = Append(events, Failed)
      /\ UNCHANGED <<lifecycle, receiver, refused, tracker, inbox, seen, finished, pc, got,
                     outcome, active, made, commands>>
  BY DEF Crash, engineVars, streamVars, clientVars
<1>2. /\ Failed \in EventSet /\ events' \in Seq(EventSet)
      /\ Range(events') = Range(events) \cup {Failed}
      /\ \A d : ~IsOutput(Failed, d) /\ ~IsToken(Failed, d) /\ ~IsLast(Failed, d)
  <2>1. events \in Seq(EventSet)
    BY DEF IInv, Types
  <2> QED BY <1>1, <2>1, Pushed, Events DEF IsToken, IsLast
<1>3. Reachable' /\ OrderedCommands' /\ Delivered'
  BY <1>1, <1>2 DEF IInv, Reachable, OrderedCommands, Delivered, Queued
<1>4. Types'
  BY <1>1, <1>2 DEF IInv, Types
<1>5. Phases'
  BY <1>1, <1>2 DEF IInv, Phases, Types
<1>6. BeforeSubmit'
  BY <1>1, <1>2 DEF IInv, BeforeSubmit, Unborn, AtRest, Queued, Aborting, Types
<1>7. Over'
  BY <1>1, <1>2 DEF IInv, Over, AtRest, Queued, Types
<1>8. Adopted'
  BY <1>1, <1>2 DEF IInv, Adopted, AtRest, Queued, Aborting
<1>9. Counted'
  BY <1>1, <1>2, CountedPushed DEF IInv, Types
<1> QED BY <1>3, <1>4, <1>5, <1>6, <1>7, <1>8, <1>9 DEF IInv

\* The process is killed and the end of its events is lost.
LEMMA DieIInv ==
  ASSUME IInv, Die
  PROVE  IInv'
<1>1. /\ process' = "dead" /\ \E n \in 0..Len(events) : events' = SubSeq(events, 1, n)
      /\ UNCHANGED <<lifecycle, receiver, refused, tracker, inbox, seen, finished, pc, got,
                     outcome, active, made, commands>>
  BY DEF Die, engineVars, streamVars, clientVars
<1>2. PICK n \in 0..Len(events) : events' = SubSeq(events, 1, n)
  BY <1>1
<1>3. /\ events \in Seq(EventSet) /\ events' \in Seq(EventSet)
      /\ Range(events') \subseteq Range(events)
      /\ Len(events) \in Nat /\ Len(events') = n /\ \A i \in 1..n : events'[i] = events[i]
  BY <1>2, CutShort DEF IInv, Types
<1>4. Reachable' /\ OrderedCommands' /\ Delivered'
  BY <1>1, <1>2, <1>3 DEF IInv, Reachable, OrderedCommands, Delivered, Queued
<1>5. Types'
  BY <1>1, <1>2, <1>3 DEF IInv, Types
<1>6. Phases'
  BY <1>1, <1>2, <1>3 DEF IInv, Phases, Types
<1>7. BeforeSubmit'
  BY <1>1, <1>2, <1>3 DEF IInv, BeforeSubmit, Unborn, AtRest, Queued, Aborting, Types
<1>8. Over'
  BY <1>1, <1>2, <1>3 DEF IInv, Over, AtRest, Queued, Types
<1>9. Adopted'
  BY <1>1, <1>2, <1>3 DEF IInv, Adopted, AtRest, Queued, Aborting
<1>10. Counted'
  <2>1. ASSUME NEW d, NEW j \in 1..n PROVE Count(events', d, j) = Count(events, d, j)
    <3>1. j \in Nat /\ \A i \in 1..j : events'[i] = events[i]
      BY <1>3
    <3> QED BY <3>1, CountSame
  <2>2. n \in 0..Len(events) /\ Counted
    BY DEF IInv
  <2> QED BY <1>1, <1>3, <2>1, <2>2 DEF Counted
<1> QED BY <1>4, <1>5, <1>6, <1>7, <1>8, <1>9, <1>10 DEF IInv

\* The receiver asks for the load.
LEMMA AskStatsIInv ==
  ASSUME IInv, AskStats
  PROVE  IInv'
<1>1. /\ commands' = Append(commands, Utility)
      /\ UNCHANGED <<lifecycle, receiver, refused, tracker, inbox, seen, finished, pc, got,
                     outcome, process, active, made, events>>
  BY DEF AskStats, engineVars, streamVars, clientVars, schedVars
<1>2. /\ commands' \in Seq(CommandSet)
      /\ \A d \in Clients : (Queued(d)' <=> Queued(d)) /\ (Aborting(d)' <=> Aborting(d))

      /\ \A d \in Clients : InOrder(commands', d)
  <2>1. commands \in Seq(CommandSet) /\ Utility \in CommandSet
                                     /\ \A d \in Clients : InOrder(commands, d)
    BY Commands DEF IInv, Types, OrderedCommands
  <2>2. commands' \in Seq(CommandSet) /\ Range(commands') = Range(commands) \cup {Utility}
    BY <1>1, <2>1, Pushed
  <2>3. \A d \in Clients : InOrder(commands', d)
    BY <1>1, <2>1, OrderPushed, Commands
  <2> QED BY <2>2, <2>3, Commands DEF Queued, Aborting
<1>3. Phases' /\ Reachable' /\ Counted' /\ Delivered'
  BY <1>1, <1>2 DEF IInv, Phases, Reachable, Counted, Delivered
<1>4. Types'
  BY <1>1, <1>2 DEF IInv, Types
<1>5. BeforeSubmit'
  BY <1>1, <1>2 DEF IInv, BeforeSubmit, Unborn, AtRest
<1>6. OrderedCommands'
  BY <1>1, <1>2 DEF IInv, OrderedCommands
<1>7. Over'
  BY <1>1, <1>2 DEF IInv, Over, AtRest
<1>8. Adopted'
  BY <1>1, <1>2 DEF IInv, Adopted, AtRest
<1> QED BY <1>3, <1>4, <1>5, <1>6, <1>7, <1>8 DEF IInv

\* The shutdown begins.
LEMMA ShutdownBeginIInv ==
  ASSUME IInv, ShutdownBegin
  PROVE  IInv'
<1>1. /\ lifecycle \in {"running", "failed"} /\ lifecycle' = "closing"
      /\ commands' \in {commands, Append(commands, Shutdown)}
      /\ UNCHANGED <<receiver, refused, tracker, inbox, seen, finished, pc, got, outcome,
                     process, active, made, events>>
  BY DEF ShutdownBegin, streamVars, clientVars, schedVars
<1>2. /\ commands' \in Seq(CommandSet)
      /\ \A d \in Clients : (Queued(d)' <=> Queued(d)) /\ (Aborting(d)' <=> Aborting(d))

      /\ \A d \in Clients : InOrder(commands', d)
  <2>1. commands \in Seq(CommandSet) /\ Shutdown \in CommandSet
                                     /\ \A d \in Clients : InOrder(commands, d)
    BY Commands DEF IInv, Types, OrderedCommands
  <2>2. CASE commands' = commands
    BY <2>1, <2>2 DEF Queued, Aborting
  <2>3. CASE commands' = Append(commands, Shutdown)
    <3>1. commands' \in Seq(CommandSet) /\ Range(commands') = Range(commands) \cup {Shutdown}
      BY <2>1, <2>3, Pushed
    <3>2. \A d \in Clients : InOrder(commands', d)
      BY <2>1, <2>3, OrderPushed, Commands
    <3> QED BY <3>1, <3>2, Commands DEF Queued, Aborting
  <2> QED BY <1>1, <2>2, <2>3
<1>3. Counted' /\ Delivered'
  BY <1>1, <1>2 DEF IInv, Counted, Delivered
<1>4. Types'
  BY <1>1, <1>2 DEF IInv, Types
<1>5. Phases'
  BY <1>1, <1>2 DEF IInv, Phases, Types
<1>6. BeforeSubmit'
  BY <1>1, <1>2 DEF IInv, BeforeSubmit, Unborn, AtRest
<1>7. Reachable'
  BY <1>1, <1>2 DEF IInv, Reachable, Types
<1>8. OrderedCommands'
  BY <1>1, <1>2 DEF IInv, OrderedCommands
<1>9. Over'
  BY <1>1, <1>2 DEF IInv, Over, AtRest
<1>10. Adopted'
  BY <1>1, <1>2 DEF IInv, Adopted, AtRest
<1> QED BY <1>3, <1>4, <1>5, <1>6, <1>7, <1>8, <1>9, <1>10 DEF IInv

\* The process is gone.
LEMMA JoinBackendIInv ==
  ASSUME IInv, JoinBackend
  PROVE  IInv'
<1>1. /\ process' = "dead"
      /\ UNCHANGED <<lifecycle, receiver, refused, tracker, inbox, seen, finished, pc, got,
                     outcome, active, made, commands, events>>
  BY DEF JoinBackend, streamVars, clientVars
<1>2. BeforeSubmit' /\ Reachable' /\ OrderedCommands' /\ Over' /\ Delivered'
  BY <1>1 DEF IInv, BeforeSubmit, Reachable, OrderedCommands, Over, Delivered, Unborn, AtRest,
     Queued, Aborting
<1>3. Types'
  BY <1>1 DEF IInv, Types
<1>4. Phases'
  BY <1>1 DEF IInv, Phases, Types
<1>5. Adopted'
  BY <1>1 DEF IInv, Adopted, AtRest, Queued, Aborting
<1>6. Counted'
  BY <1>1 DEF IInv, Counted
<1> QED BY <1>2, <1>3, <1>4, <1>5, <1>6 DEF IInv

\* The receiver finds nothing to read.
LEMMA PollEmptyIInv ==
  ASSUME IInv, PollEmpty
  PROVE  IInv'
<1>1. /\ receiver = "get" /\ receiver' \in {"get", "failing", "ended", "crashed"}
      /\ \/ UNCHANGED lifecycle /\ receiver' # "failing"
         \/ lifecycle = "running" /\ lifecycle' = "failed"
      /\ refused' # refused => process = "dead" /\ UNCHANGED lifecycle
      /\ UNCHANGED <<tracker, inbox, seen, finished, pc, got, outcome, process, active, made,
                     commands, events>>
  BY DEF PollEmpty, MarkFailed, streamVars, clientVars, schedVars
<1>2. BeforeSubmit' /\ OrderedCommands' /\ Counted' /\ Delivered'
  BY <1>1 DEF IInv, BeforeSubmit, OrderedCommands, Counted, Delivered, Unborn, AtRest, Queued,
     Aborting
<1>3. Types'
  BY <1>1 DEF IInv, Types
<1>4. Phases'
  BY <1>1 DEF IInv, Phases, Types
<1>5. Reachable'
  BY <1>1 DEF IInv, Reachable, Types
<1>6. Over'
  BY <1>1 DEF IInv, Over, AtRest, Queued, Types
<1>7. Adopted'
  BY <1>1 DEF IInv, Adopted, AtRest, Queued, Aborting
<1> QED BY <1>2, <1>3, <1>4, <1>5, <1>6, <1>7 DEF IInv

\* The first event leaves the queue, and its tokens are seen by the stream they
\* belong to.
LEMMA CountedPopped ==
  ASSUME IInv, events # <<>>, events' = Tail(events), UNCHANGED <<tracker, process, made>>,
         \A d \in tracker : seen'[d] = seen[d] + IF IsToken(Head(events), d) THEN 1 ELSE 0
  PROVE  Counted'
<1>1. /\ events \in Seq(EventSet) /\ Len(events) \in Nat \ {0} /\ Len(events') = Len(events) - 1
      /\ \A j \in 1..Len(events') : j + 1 \in 1..Len(events) /\ events'[j] = events[j + 1]
      /\ Len(events) \in 1..Len(events)
  BY DEF IInv, Types
<1> SUFFICES ASSUME NEW d \in tracker
             PROVE  /\ process = "alive" => seen'[d] + Count(events', d, Len(events')) = made[d]
                    /\ \A j \in 1..Len(events') :
                         IsOutput(events'[j], d) /\ events'[j].end = "finish" =>
                            events'[j].tokens = 1 /\ seen'[d] + Count(events', d, j) = made[d]
  BY DEF Counted
<1>2. seen[d] \in Nat /\ made[d] \in Nat
  BY DEF IInv, Types
<1>3. ASSUME NEW j \in 0..Len(events')
      PROVE  seen'[d] + Count(events', d, j) = seen[d] + Count(events, d, j + 1)
  <2>1. j \in Nat /\ j + 1 \in 1..Len(events) /\ (j + 1) - 1 = j /\ Count(events', d, j) \in Nat
    BY <1>1, CountType
  <2>2. Count(events, d, j + 1)
          = Count(events', d, (j + 1) - 1) + IF IsToken(Head(events), d) THEN 1 ELSE 0

    BY <1>1, <2>1, CountTail
  <2> QED BY <1>2, <2>1, <2>2
<1>4. process = "alive" => seen'[d] + Count(events', d, Len(events')) = made[d]
  <2>1. Len(events') \in 0..Len(events') /\ Len(events') + 1 = Len(events)
    BY <1>1
  <2>2. seen'[d] + Count(events', d, Len(events')) = seen[d] + Count(events, d, Len(events))
    BY <1>3, <2>1
  <2> QED BY <2>2 DEF IInv, Counted
<1>5. ASSUME NEW j \in 1..Len(events'), IsOutput(events'[j], d), events'[j].end = "finish"
      PROVE  events'[j].tokens = 1 /\ seen'[d] + Count(events', d, j) = made[d]
  <2>1. j \in 0..Len(events') /\ j + 1 \in 1..Len(events) /\ events'[j] = events[j + 1]
    BY <1>1
  <2>2. events[j + 1].tokens = 1 /\ seen[d] + Count(events, d, j + 1) = made[d]
    BY <1>5, <2>1 DEF IInv, Counted
  <2> QED BY <1>3, <2>1, <2>2
<1> QED BY <1>4, <1>5

\* The receiver takes an event from the queue.
Gets(ev) ==
    /\ receiver = "get" /\ events # <<>> /\ ev = Head(events) /\ events' = Tail(events)
    /\ UNCHANGED <<tracker, pc, got, outcome, process, active, made, commands>>

\* What is left in the event queue; the engine has started.
LEMMA GetsFacts ==
  ASSUME IInv, NEW ev, Gets(ev)
  PROVE  /\ receiver = "get" /\ ev \in EventSet /\ events' \in Seq(EventSet)
         /\ Range(events) = Range(events') \cup {ev}
         /\ UNCHANGED <<tracker, pc, got, outcome, process, active, made, commands>>
         /\ process # "booting" /\ lifecycle # "starting"
<1>1. events \in Seq(EventSet)
  BY DEF IInv, Types
<1>2. process # "booting" /\ lifecycle # "starting"
  BY DEF IInv, Phases, Gets
<1> QED BY <1>1, <1>2, Popped DEF Gets

\* An event that changes no stream.
LEMMA ForwardIInv ==
  ASSUME IInv, NEW ev, Gets(ev), \A d \in tracker : ~IsOutput(ev, d),
         receiver' \in {"get", "failing", "ended"},
         \/ UNCHANGED lifecycle /\ receiver' # "failing"
         \/ lifecycle = "running" /\ lifecycle' = "failed",
         refused' # refused => lifecycle' # "running",
         UNCHANGED <<inbox, seen, finished>>
  PROVE  IInv'
<1>1. /\ ev \in EventSet /\ events' \in Seq(EventSet) /\ Range(events) = Range(events') \cup {ev}
      /\ UNCHANGED <<tracker, inbox, seen, finished, pc, got, outcome, process, active, made,
                     commands>>
      /\ process # "booting" /\ lifecycle # "starting"
  BY GetsFacts
<1>2. OrderedCommands' /\ Delivered'
  BY <1>1 DEF IInv, OrderedCommands, Delivered, Queued
<1>3. Types'
  BY <1>1 DEF IInv, Types
<1>4. Phases'
  BY <1>1 DEF IInv, Phases, Types
<1>5. BeforeSubmit'
  BY <1>1 DEF IInv, BeforeSubmit, Unborn, AtRest, Queued, Aborting, Types
<1>6. Reachable'
  BY <1>1 DEF IInv, Reachable, Types
<1>7. Over'
  BY <1>1 DEF IInv, Over, AtRest, Queued, Types
<1>8. Adopted'
  BY <1>1 DEF IInv, Adopted, AtRest, Queued, Aborting
<1>9. Counted'
  <2>1. \A d \in tracker : ~IsToken(ev, d) /\ seen[d] \in Nat
    BY DEF IInv, Types, IsToken
  <2>2. events # <<>> /\ ev = Head(events) /\ events' = Tail(events)
    BY DEF Gets
  <2> QED BY <1>1, <2>1, <2>2, CountedPopped
<1> QED BY <1>2, <1>3, <1>4, <1>5, <1>6, <1>7, <1>8, <1>9 DEF IInv

\* An event reaches its stream.
LEMMA PushIInv ==
  ASSUME IInv, NEW ev, Gets(ev), ev.type = "output", ev.client \in tracker,
         PushEvent(ev.client, ev), receiver' \in {"get", "ended"}, UNCHANGED <<lifecycle,
                                                                               refused>>
  PROVE  IInv'
<1>1. /\ ev \in EventSet /\ events' \in Seq(EventSet) /\ Range(events) = Range(events') \cup {ev}
      /\ UNCHANGED <<lifecycle, refused, tracker, pc, got, outcome, process, active, made,
                     commands>>
      /\ process # "booting" /\ lifecycle # "starting"
  BY GetsFacts
<1>2. /\ ev.client \in Clients /\ ev.tokens \in {0, 1} /\ ev.end \in {"no", "finish", "error"}
      /\ \A d : IsOutput(ev, d) <=> d = ev.client
  BY <1>1, Events
<1>3. /\ seen' = [seen EXCEPT ![ev.client] = seen[ev.client] + ev.tokens]
      /\ finished' = [finished EXCEPT ![ev.client] = finished[ev.client] \/ ev.end # "no"]
      /\ seen' \in [Clients -> Nat]
      /\ \A d \in Clients : seen'[d] = seen[d] + IF IsToken(ev, d) THEN 1 ELSE 0
  BY <1>2 DEF PushEvent, IInv, Types, IsToken
<1>4. /\ inbox' \in [Clients -> Seq(Items)]
      /\ \A d \in Clients \ {ev.client} : inbox'[d] = inbox[d]
      /\ Range(inbox[ev.client]) \subseteq Range(inbox'[ev.client])
      /\ \A item \in Range(inbox'[ev.client]) : item \notin Range(inbox[ev.client]) =>
           item.end = ev.end /\ item.n = seen'[ev.client]
  <2>1. inbox \in [Clients -> Seq(Items)] /\ inbox[ev.client] \in Seq(Items)
                                          /\ seen[ev.client] + ev.tokens \in Nat
    BY <1>2 DEF IInv, Types
  <2>2. CASE UNCHANGED inbox
    BY <2>1, <2>2
  <2>3. CASE inbox' = [inbox EXCEPT ![ev.client] =
                        Append(inbox[ev.client], Chunk(seen[ev.client] + ev.tokens, ev.end))]

    <3> DEFINE x == Chunk(seen[ev.client] + ev.tokens, ev.end)
    <3>1. x \in Items /\ x.n = seen[ev.client] + ev.tokens /\ x.end = ev.end
      BY <1>2, <2>1, Chunks
    <3>2. /\ Append(inbox[ev.client], x) \in Seq(Items)
          /\ Range(Append(inbox[ev.client], x)) = Range(inbox[ev.client]) \cup {x}

      BY <2>1, <3>1, Pushed
    <3>3. seen'[ev.client] = seen[ev.client] + ev.tokens
      BY <1>2, <1>3 DEF IInv, Types
    <3>4. /\ inbox'[ev.client] = Append(inbox[ev.client], x)
          /\ \A d \in Clients \ {ev.client} : inbox'[d] = inbox[d]

      BY <1>2, <2>1, <2>3
    <3>5. inbox' \in [Clients -> Seq(Items)]
      BY <1>2, <2>1, <2>3, <3>2
    <3> HIDE DEF x
    <3> QED BY <3>1, <3>2, <3>3, <3>4, <3>5
  <2> QED BY <2>2, <2>3 DEF PushEvent
<1>5. /\ ev \in Range(events) /\ pc[ev.client] \in {"streaming", "done"}
      /\ ev.end # "no" => AtRest(ev.client)
  BY <1>1, <1>2 DEF IInv, BeforeSubmit, Unborn, Over, IsLast, Types
<1>6. ev.end = "finish" => seen'[ev.client] = made[ev.client]
  <2> SUFFICES ASSUME ev.end = "finish" PROVE seen'[ev.client] = made[ev.client]
    OBVIOUS
  <2>1. events \in Seq(EventSet) /\ events # <<>> /\ 1 \in 1..Len(events) /\ events[1] = ev
                                 /\ ev = Head(events)
    BY DEF IInv, Types, Gets
  <2>2. ev.tokens = 1 /\ seen[ev.client] + Count(events, ev.client, 1) = made[ev.client]
    BY <1>2, <2>1 DEF IInv, Counted
  <2>3. Count(Tail(events), ev.client, 1 - 1) = 0
    <3>1. Places(Tail(events), ev.client, 1 - 1) = {}
      BY DEF Places
    <3> QED BY <3>1, FS_EmptySet DEF Count
  <2>4. Count(events, ev.client, 1)
          = Count(Tail(events), ev.client, 1 - 1) + IF IsToken(ev, ev.client) THEN 1 ELSE 0

    BY <2>1, CountTail
  <2>5. Count(events, ev.client, 1) = 1
    BY <1>2, <2>2, <2>3, <2>4 DEF IsToken
  <2> QED BY <1>2, <1>3, <2>2, <2>5 DEF IInv, Types
<1>7. OrderedCommands' /\ Adopted'
  BY <1>1, <1>2, <1>3, <1>4, <1>5, <1>6 DEF IInv, OrderedCommands, Adopted, AtRest, Queued,
     Aborting
<1>8. Types'
  BY <1>1, <1>2, <1>3, <1>4 DEF IInv, Types
<1>9. Phases'
  BY <1>1 DEF IInv, Phases
<1>10. BeforeSubmit'
  BY <1>1, <1>2, <1>3, <1>5 DEF IInv, BeforeSubmit, Unborn, AtRest, Queued, Aborting, IsToken
<1>11. Reachable'
  BY <1>1, <1>4 DEF IInv, Reachable
<1>12. Over'
  <2>1. \A d \in Clients : AtRest(d)' <=> AtRest(d)
    BY <1>1 DEF AtRest, Queued
  <2>2. \A d \in Clients \ {ev.client} : finished'[d] = finished[d]
    BY <1>2, <1>3 DEF IInv, Types
  <2>3. finished'[ev.client] => finished[ev.client] \/ ev.end # "no"
    BY <1>2, <1>3 DEF IInv, Types
  <2> QED BY <1>1, <1>4, <1>5, <2>1, <2>2, <2>3 DEF IInv, Over
<1>13. Counted'
  <2>1. events # <<>> /\ ev = Head(events) /\ events' = Tail(events) /\ tracker \subseteq Clients
    BY DEF Gets, IInv, Types
  <2> QED BY <1>1, <1>3, <2>1, CountedPopped
<1>14. Delivered'
  BY <1>1, <1>4, <1>6 DEF IInv, Delivered
<1> QED BY <1>7, <1>8, <1>9, <1>10, <1>11, <1>12, <1>13, <1>14 DEF IInv

\* The receiver handles one event.
LEMMA ReceiveIInv ==
  ASSUME IInv, Receive
  PROVE  IInv'
<1> DEFINE ev == Head(events)
<1>1. Gets(ev)
  BY DEF Receive, Gets, clientVars, schedVars
<1>2. ev \in EventSet /\ lifecycle # "starting" /\ tracker \subseteq Clients
  BY <1>1, GetsFacts DEF IInv, Types
<1>3. CASE ev.type = "failed" /\ MarkFailed /\ UNCHANGED <<inbox, seen, finished>>
  <2>1. \A d \in tracker : ~IsOutput(ev, d)
    BY <1>3 DEF IsOutput
  <2>2. /\ receiver' \in {"get", "failing", "ended"} /\ lifecycle' # "running"
        /\ \/ UNCHANGED lifecycle /\ receiver' # "failing"
           \/ lifecycle = "running" /\ lifecycle' = "failed"
    BY <1>1, <1>3 DEF MarkFailed, Gets
  <2> QED BY <1>1, <1>3, <2>1, <2>2, ForwardIInv
<1>4. CASE /\ ev.type = "output" /\ ev.client \in tracker /\ PushEvent(ev.client, ev)
           /\ receiver' = IF stop THEN "ended" ELSE "get"
           /\ UNCHANGED <<lifecycle, refused>>
  BY <1>1, <1>4, PushIInv
<1>5. CASE /\ ev.type # "output" \/ ev.client \notin tracker
           /\ receiver' = IF stop THEN "ended" ELSE "get"
           /\ UNCHANGED <<lifecycle, refused, inbox, seen, finished>>
  <2>1. \A d \in tracker : ~IsOutput(ev, d)
    BY <1>5 DEF IsOutput
  <2> QED BY <1>1, <1>5, <2>1, ForwardIInv
<1> QED BY <1>3, <1>4, <1>5 DEF Receive

\* Every registered stream gets one more item.
LEMMA TellAllFacts ==
  ASSUME IInv, NEW end \in {"failed", "none"}, TellAll(end)
  PROVE  /\ inbox' \in [Clients -> Seq(Items)]
         /\ \A c \in Clients : \A item \in Range(inbox'[c]) :
              item \in Range(inbox[c]) \/ item.end = end

         /\ \A c \in Clients : Range(inbox[c]) \subseteq Range(inbox'[c])
         /\ \A c \in tracker : \E item \in Range(inbox'[c]) : item.end = end
<1>1. /\ inbox \in [Clients -> Seq(Items)] /\ tracker \subseteq Clients
      /\ \A c \in Clients : seen[c] \in Nat
      /\ inbox' = [c \in Clients |->
         IF c \in tracker THEN Append(inbox[c], Chunk(seen[c], end)) ELSE inbox[c]]

  BY DEF IInv, Types, TellAll
<1>2. \A c \in Clients : Chunk(seen[c], end) \in Items /\ Chunk(seen[c], end).end = end
  BY <1>1, Chunks
<1>3. ASSUME NEW c \in Clients
      PROVE  /\ Append(inbox[c], Chunk(seen[c], end)) \in Seq(Items)
             /\ Range(Append(inbox[c], Chunk(seen[c], end)))
                  = Range(inbox[c]) \cup {Chunk(seen[c], end)}

  BY <1>1, <1>2, Pushed
<1>4. inbox' \in [Clients -> Seq(Items)]
  BY <1>1, <1>3
<1>5. \A c \in Clients : inbox'[c] =
         IF c \in tracker THEN Append(inbox[c], Chunk(seen[c], end)) ELSE inbox[c]

  BY <1>1
<1> QED BY <1>1, <1>2, <1>3, <1>4, <1>5

\* Every stream is told of the failure.
LEMMA FailAllIInv ==
  ASSUME IInv, FailAll
  PROVE  IInv'
<1>1. /\ receiver = "failing" /\ receiver' = "ended" /\ TellAll("failed")
      /\ finished' = [c \in Clients |-> finished[c] \/ c \in tracker]
      /\ UNCHANGED <<lifecycle, refused, tracker, seen, pc, got, outcome, process, active,
                     made, commands, events>>
  BY DEF FailAll, TellAll, clientVars, schedVars
<1>2. /\ inbox' \in [Clients -> Seq(Items)]
      /\ \A c \in Clients : \A item \in Range(inbox'[c]) :
              item \in Range(inbox[c]) \/ item.end = "failed"

      /\ \A c \in Clients : Range(inbox[c]) \subseteq Range(inbox'[c])
  BY <1>1, TellAllFacts
<1>3. lifecycle \notin {"starting", "running"}
  BY <1>1 DEF IInv, Phases
<1>4. BeforeSubmit' /\ OrderedCommands' /\ Adopted' /\ Counted'
  BY <1>1, <1>2, <1>3 DEF IInv, BeforeSubmit, OrderedCommands, Adopted, Counted, Unborn,
     AtRest, Queued, Aborting
<1>5. Types'
  BY <1>1, <1>2, <1>3 DEF IInv, Types
<1>6. Phases'
  BY <1>1, <1>2, <1>3 DEF IInv, Phases, Types
<1>7. Reachable'
  BY <1>1, <1>2, <1>3 DEF IInv, Reachable, Types
<1>8. Over'
  BY <1>1, <1>2, <1>3 DEF IInv, Over, AtRest, Queued, Types
<1>9. Delivered'
  BY <1>1, <1>2, <1>3 DEF IInv, Delivered, Types
<1> QED BY <1>4, <1>5, <1>6, <1>7, <1>8, <1>9 DEF IInv

\* Every stream is ended and the table emptied.
LEMMA ClearIInv ==
  ASSUME IInv, Clear
  PROVE  IInv'
<1>1. /\ lifecycle = "closing" /\ lifecycle' = "closed" /\ TellAll("none") /\ tracker' = {}
      /\ finished' = [c \in Clients |-> finished[c] \/ c \in tracker]
      /\ UNCHANGED <<receiver, refused, seen, pc, got, outcome, process, active, made,
                     commands, events>>
  BY DEF Clear, TellAll, clientVars, schedVars
<1>2. /\ inbox' \in [Clients -> Seq(Items)]
      /\ \A c \in Clients : \A item \in Range(inbox'[c]) :
              item \in Range(inbox[c]) \/ item.end = "none"

      /\ \A c \in tracker : \E item \in Range(inbox'[c]) : item.end = "none"
  BY <1>1, TellAllFacts
<1>3. OrderedCommands'
  BY <1>1, <1>2 DEF IInv, OrderedCommands, Queued
<1>4. Types'
  BY <1>1, <1>2 DEF IInv, Types
<1>5. Phases'
  BY <1>1, <1>2 DEF IInv, Phases, Types
<1>6. BeforeSubmit'
  BY <1>1, <1>2 DEF IInv, BeforeSubmit, Unborn, AtRest, Queued, Aborting, Types
<1>7. Reachable'
  BY <1>1, <1>2 DEF IInv, Reachable, Terminal
<1>8. Over'
  BY <1>1, <1>2 DEF IInv, Over, AtRest, Queued, Types
<1>9. Adopted'
  BY <1>1, <1>2 DEF IInv, Adopted, AtRest, Queued, Aborting
<1>10. Counted'
  BY <1>1, <1>2 DEF IInv, Counted
<1>11. Delivered'
  BY <1>1, <1>2 DEF IInv, Delivered, Types
<1> QED BY <1>3, <1>4, <1>5, <1>6, <1>7, <1>8, <1>9, <1>10, <1>11 DEF IInv


-----------------------------------------------------------------------------
(* The invariant and what it says. *)

\* The invariant holds before anything was called.
LEMMA InitIInv == Init => IInv
<1> SUFFICES ASSUME Init PROVE IInv
  OBVIOUS
<1>1. Range(<<>>) = {} /\ <<>> \in Seq(CommandSet) /\ <<>> \in Seq(EventSet)
                       /\ <<>> \in Seq(Items)
  BY DEF Range
<1>2. Types
  BY <1>1 DEF Init, Types
<1>3. Phases /\ Reachable /\ Adopted /\ Counted
  BY <1>1 DEF Init, Phases, Reachable, Adopted, AtRest, Queued, Counted
<1>4. BeforeSubmit
  BY <1>1 DEF Init, BeforeSubmit, Unborn, AtRest, Queued, Aborting
<1>5. OrderedCommands
  BY <1>1 DEF Init, OrderedCommands, InOrder, Queued
<1>6. Over
  BY <1>1 DEF Init, Over
<1>7. Delivered
  BY <1>1 DEF Init, Delivered
<1> QED BY <1>2, <1>3, <1>4, <1>5, <1>6, <1>7 DEF IInv

\* A step of the shutdown coroutine alone changes nothing the invariant reads.
LEMMA StutterIInv ==
  ASSUME IInv, UNCHANGED <<lifecycle, receiver, refused, tracker, inbox, seen, finished, pc,
                           got, outcome,
                           process, active, made, commands, events>>
  PROVE  IInv'
<1>1. Types' /\ Phases' /\ Reachable' /\ Delivered' /\ Counted'
  BY DEF IInv, Types, Phases, Reachable, Delivered, Counted
<1>2. BeforeSubmit' /\ OrderedCommands' /\ Over' /\ Adopted'
  BY DEF IInv, BeforeSubmit, Unborn, OrderedCommands, Over, Adopted, AtRest, Queued, Aborting
<1> QED BY <1>1, <1>2 DEF IInv

\* Every step preserves the invariant.
LEMMA NextIInv == IInv /\ [Next]_vars => IInv'
<1> SUFFICES ASSUME IInv, [Next]_vars PROVE IInv'
  OBVIOUS
<1>1. CASE UNCHANGED vars
  BY <1>1, StutterIInv DEF vars, engineVars, streamVars, clientVars, schedVars
<1>2. CASE AwaitReady
  BY <1>2, AwaitReadyIInv
<1>3. CASE SchedulerStep
  BY <1>3, BootIInv, ApplyIInv, DrainedIInv, CrashIInv, DieIInv, AdvanceIInv DEF SchedulerStep
<1>4. CASE ReceiverStep
  BY <1>4, ReceiveIInv, PollEmptyIInv, AskStatsIInv, FailAllIInv DEF ReceiverStep
<1>5. CASE ShutdownStep
  <2>1. CASE JoinReceiver
    BY <2>1, StutterIInv DEF JoinReceiver, streamVars, clientVars, schedVars
  <2> QED BY <1>5, <2>1, ShutdownBeginIInv, JoinBackendIInv, ClearIInv DEF ShutdownStep
<1>6. ASSUME NEW c \in Clients, ClientStep(c) PROVE IInv'
  BY <1>6, RegisterIInv, RefuseIInv, SubmitIInv, GiveUpIInv, ConsumeIInv DEF ClientStep
<1> QED BY <1>1, <1>2, <1>3, <1>4, <1>5, <1>6 DEF Next

\* The invariant holds throughout.
LEMMA Inductive == Spec => []IInv
BY InitIInv, NextIInv, PTL DEF Spec

\* A coroutine that waits for its stream is known to the tracker, or the item
\* that ends its stream is queued: whatever failure, shutdown, receiver and the
\* coroutine itself do to the table of streams.
THEOREM WaitersAreReachableTheorem == Spec => []WaitersAreReachable
<1>1. IInv => WaitersAreReachable
  BY DEF IInv, Types, Reachable, WaitersAreReachable, Range
<1> QED BY <1>1, Inductive, PTL

\* While the engine runs, a request in the scheduler's hands has a reader or its
\* abort is queued: what an abandoned stream leaves behind is always cancelled.
THEOREM NoOrphansTheorem == Spec => []NoOrphans
<1>1. IInv => NoOrphans
  BY DEF IInv, Types, Adopted, AtRest, Queued, Aborting, NoOrphans, Range
<1> QED BY <1>1, Inductive, PTL

\* A stream that ends with a finish reason has handed its client every token
\* the scheduler generated for it.
THEOREM FinishedIsCompleteTheorem == Spec => []FinishedIsComplete
<1>1. IInv => FinishedIsComplete
  BY DEF IInv, Delivered, FinishedIsComplete
<1> QED BY <1>1, Inductive, PTL
=============================================================================
