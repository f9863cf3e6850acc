---------------------------- MODULE AsyncEngine ----------------------------
(***************************************************************************)
(* The serving front end of rapid_llm/engine/async_engine.py: coroutines   *)
(* that stream a request each, one receiver thread, the shutdown           *)
(* coroutine, and the scheduler process at the other end of two queues.    *)
(*                                                                         *)
(* A request is named by its client: generate() draws its id from a        *)
(* counter.  A token is a unit; what a chunk carries is the number of      *)
(* tokens the stream has seen.  An event holds one output (the code loops  *)
(* over the outputs of an event, which is one event after the other).      *)
(* The scheduler process is scheduler.run_event_loop seen through its      *)
(* queues.  With Controller the transport is the DataParallelController,   *)
(* whose receive and send differ from a pair of queues only in what they   *)
(* do about a dead worker; its routing is module Router.                   *)
(***************************************************************************)
EXTENDS Naturals, Sequences, FiniteSets

CONSTANTS
    Clients,       \* the coroutines that call generate(), one request each
    Controller,    \* TRUE: the transport is the data-parallel controller
    MaxTokens      \* bound: tokens the request of each client generates at most

ASSUME AsyncEngineAssumption ==
    /\ Controller \in BOOLEAN
    /\ MaxTokens \in [Clients -> Nat \ {0}]

VARIABLES
    lifecycle,   \* AsyncLLMEngine._state ("aborted": the constructor raised)
    receiver,    \* the output thread: "off", "get", "failing", "ended", "crashed"
    stop,        \* _stop_receiver
    shutting,    \* where the shutdown coroutine is: "no", "receiver", "backend", "clear"
    refused,     \* DataParallelController._failure is set
    tracker,     \* the requests of RequestTracker._streams
    pc,          \* where each coroutine is
    inbox,       \* _RequestStream._queue of each client
    seen,        \* _RequestStream._completion_tokens of each client
    finished,    \* _RequestStream.finished of each client
    got,         \* tokens in the last chunk the client was handed
    outcome,     \* how the client's stream ended
    process,     \* the scheduler process: "booting", "alive", "dead"
    commands,    \* the command queue
    events,      \* the event queue
    active,      \* the scheduler's unfinished requests
    stopping,    \* run_event_loop: a ShutdownScheduler was read
    made         \* tokens the scheduler generated for each request

engineVars == <<lifecycle, receiver, stop, shutting, refused>>
streamVars == <<tracker, inbox, seen, finished>>
clientVars == <<pc, got, outcome>>
schedVars == <<process, active, stopping, made>>
vars == <<engineVars, streamVars, clientVars, schedVars, commands, events>>

Add(c) == [type |-> "add", client |-> c]
AbortCmd(c) == [type |-> "abort", client |-> c]
Shutdown == [type |-> "shutdown"]
Utility == [type |-> "utility"]
Output(c, n, end) == [type |-> "output", client |-> c, tokens |-> n, end |-> end]
Ready == [type |-> "ready"]
Failed == [type |-> "failed"]
Stats == [type |-> "stats"]
Chunk(n, end) == [n |-> n, end |-> end]      \* an item of a stream's queue

\* Items after which generate() leaves its loop.
Terminal(item) == item.end # "no"

Init ==
    /\ lifecycle = IF Controller THEN "running" ELSE "starting"
    /\ receiver = "off" /\ stop = FALSE /\ shutting = "no" /\ refused = FALSE
    /\ tracker = {}
    /\ pc = [c \in Clients |-> "idle"]
    /\ inbox = [c \in Clients |-> <<>>]
    /\ seen = [c \in Clients |-> 0]
    /\ finished = [c \in Clients |-> FALSE]
    /\ got = [c \in Clients |-> 0]
    /\ outcome = [c \in Clients |-> "none"]
    /\ process = IF Controller THEN "alive" ELSE "booting"
    /\ commands = <<>> /\ events = <<>>
    /\ active = {} /\ stopping = FALSE
    /\ made = [c \in Clients |-> 0]

-----------------------------------------------------------------------------
(* Start-up: the constructor of AsyncLLMEngine. *)

\* _await_ready returned, or raised: the child is terminated and the
\* exception leaves the constructor.  The first event decides; an empty queue
\* ends the wait when the child is dead or the deadline has passed.
AwaitReady ==
    /\ lifecycle = "starting"
    /\ lifecycle' = IF events # <<>> /\ Head(events) = Ready THEN "running" ELSE "aborted"
    /\ events' = IF events # <<>> THEN Tail(events) ELSE events
    /\ process' = IF lifecycle' = "running" THEN process ELSE "dead"
    /\ UNCHANGED <<receiver, stop, shutting, refused, streamVars, clientVars, active,
                   stopping, made, commands>>

-----------------------------------------------------------------------------
(* The client coroutines: generate(). *)

\* DataParallelController.send raises once the controller has failed.
CanSend == ~refused

\* generate, up to its first await: the stream is registered under the
\* lifecycle lock, which also starts the receiver.
Register(c) ==
    /\ pc[c] = "idle" /\ lifecycle = "running"
    /\ tracker' = tracker \cup {c}
    /\ receiver' = IF receiver = "off" THEN "get" ELSE receiver
    /\ pc' = [pc EXCEPT ![c] = "tokenizing"]
    /\ UNCHANGED <<lifecycle, stop, shutting, refused, inbox, seen, finished, got, outcome,
                   schedVars, commands, events>>

\* generate called when the engine is not running: _require_running raises.
Refuse(c) ==
    /\ pc[c] = "idle" /\ lifecycle \notin {"starting", "running"}
    /\ pc' = [pc EXCEPT ![c] = "done"]
    /\ outcome' = [outcome EXCEPT ![c] = "refused"]
    /\ UNCHANGED <<engineVars, streamVars, got, schedVars, commands, events>>

\* The prompt is tokenised: the engine is checked again and the request sent.
Submit(c) ==
    /\ pc[c] = "tokenizing" /\ lifecycle = "running" /\ CanSend
    /\ commands' = Append(commands, Add(c))
    /\ pc' = [pc EXCEPT ![c] = "streaming"]
    /\ UNCHANGED <<engineVars, streamVars, got, outcome, schedVars, events>>

\* Mutant: an abandoned stream is forgotten without an abort.
MutantLeaveSilently(c, how) ==
    /\ pc' = [pc EXCEPT ![c] = "done"]
    /\ outcome' = [outcome EXCEPT ![c] = how]
    /\ tracker' = tracker \ {c}
    /\ UNCHANGED commands

\* The finally clause of generate: the stream leaves the tracker and, when the
\* request was submitted and is not known to have finished, an abort is sent.
Leave(c, how) ==
    LET sends == /\ pc[c] = "streaming" /\ ~finished[c]
                 /\ lifecycle = "running" /\ CanSend
    IN  /\ pc' = [pc EXCEPT ![c] = "done"]
        /\ outcome' = [outcome EXCEPT ![c] = how]
        /\ tracker' = tracker \ {c}
        /\ commands' = IF sends THEN Append(commands, AbortCmd(c)) ELSE commands

\* Tokenisation ended in an exception: an empty prompt, a cancelled coroutine,
\* or an engine that stopped running (or whose transport refuses) meanwhile.
GiveUp(c) ==
    /\ pc[c] = "tokenizing"
    /\ Leave(c, "refused")
    /\ UNCHANGED <<engineVars, inbox, seen, finished, got, schedVars, events>>

\* stream.get() returned an item: a chunk is yielded; the last chunk, None or
\* an exception ends the stream.
Consume(c) ==
    /\ pc[c] = "streaming" /\ inbox[c] # <<>>
    /\ LET item == Head(inbox[c]) IN
       /\ inbox' = [inbox EXCEPT ![c] = Tail(@)]
       /\ got' = [got EXCEPT ![c] = IF item.end \in {"no", "finish"} THEN item.n ELSE @]
       /\ IF Terminal(item)
          THEN Leave(c, item.end)
          ELSE UNCHANGED <<pc, outcome, tracker, commands>>
    /\ UNCHANGED <<engineVars, seen, finished, schedVars, events>>

\* The consumer drops the stream (a disconnected client, a cancelled task).
Close(c) ==
    /\ pc[c] = "streaming"
    /\ Leave(c, "closed")
    /\ UNCHANGED <<engineVars, inbox, seen, finished, got, schedVars, events>>

-----------------------------------------------------------------------------
(* The scheduler process: run_scheduler_process. *)

\* The model is loaded, or loading raised.
Boot ==
    /\ process = "booting"
    /\ \/ process' = "alive" /\ events' = Append(events, Ready)
       \/ process' = "dead" /\ events' = Append(events, Failed)
    /\ UNCHANGED <<engineVars, streamVars, clientVars, active, stopping, made, commands>>

\* run_event_loop applies one command.  add_request may refuse the request.
Apply ==
    /\ process = "alive" /\ ~stopping /\ commands # <<>>
    /\ commands' = Tail(commands)
    /\ LET cmd == Head(commands) IN
       \/ /\ cmd.type = "add"
          /\ \/ active' = active \cup {cmd.client} /\ UNCHANGED events
             \/ events' = Append(events, Output(cmd.client, 0, "error")) /\ UNCHANGED active
          /\ UNCHANGED stopping
       \/ cmd.type = "abort" /\ active' = active \ {cmd.client} /\ UNCHANGED <<stopping, events>>
       \/ cmd.type = "utility" /\ events' = Append(events, Stats) /\ UNCHANGED <<stopping, active>>
       \/ cmd.type = "shutdown" /\ stopping' = TRUE /\ UNCHANGED <<active, events>>
    /\ UNCHANGED <<engineVars, streamVars, clientVars, process, made>>

\* A step advances a request by a token and publishes it, with the finish
\* reason when it was the last.
Advance(c) ==
    /\ process = "alive" /\ c \in active
    /\ made' = [made EXCEPT ![c] = @ + 1]
    /\ \E end \in {"no", "finish"} :
         /\ made'[c] = MaxTokens[c] => end = "finish"
         /\ active' = IF end = "finish" THEN active \ {c} ELSE active
         /\ events' = Append(events, Output(c, 1, end))
    /\ UNCHANGED <<engineVars, streamVars, clientVars, process, stopping, commands>>

\* The loop returns: told to stop, and nothing left to run.
Drained ==
    /\ process = "alive" /\ stopping /\ active = {}
    /\ process' = "dead"
    /\ UNCHANGED <<engineVars, streamVars, clientVars, active, stopping, made, commands, events>>

\* The loop raised: the failure is published before the process ends.
Crash ==
    /\ process = "alive"
    /\ process' = "dead"
    /\ events' = Append(events, Failed)
    /\ UNCHANGED <<engineVars, streamVars, clientVars, active, stopping, made, commands>>

\* The process is killed: whatever its queue's feeder thread had not written
\* is lost.
Die ==
    /\ process # "dead"
    /\ process' = "dead"
    /\ \E n \in 0..Len(events) : events' = SubSeq(events, 1, n)
    /\ UNCHANGED <<engineVars, streamVars, clientVars, active, stopping, made, commands>>

-----------------------------------------------------------------------------
(* The receiver thread: _output_loop. *)

\* Mutant: tokens without text are dropped instead of held.
MutantDropHeld(c, ev) ==
    /\ finished' = [finished EXCEPT ![c] = @ \/ ev.end # "no"]
    /\ \/ /\ seen' = [seen EXCEPT ![c] = @ + ev.tokens]
          /\ inbox' = [inbox EXCEPT ![c] = Append(@, Chunk(seen[c] + ev.tokens, ev.end))]
       \/ ev.end = "no" /\ UNCHANGED <<inbox, seen>>

\* _RequestStream.push_event.  Tokens without text are held until the next
\* chunk, unless they are the last.
PushEvent(c, ev) ==
    /\ seen' = [seen EXCEPT ![c] = @ + ev.tokens]
    /\ finished' = [finished EXCEPT ![c] = @ \/ ev.end # "no"]
    /\ \/ inbox' = [inbox EXCEPT ![c] = Append(@, Chunk(seen[c] + ev.tokens, ev.end))]
       \/ ev.end = "no" /\ UNCHANGED inbox

\* The first half of _mark_failed, under the lifecycle lock; fail_all follows.
MarkFailed ==
    IF lifecycle = "running"
    THEN lifecycle' = "failed" /\ stop' = TRUE /\ receiver' = "failing"
    ELSE /\ receiver' = IF stop THEN "ended" ELSE receiver
         /\ UNCHANGED <<lifecycle, stop>>

\* An event arrives; the stop flag is looked at after it is handled.
Receive ==
    /\ receiver = "get" /\ events # <<>>
    /\ events' = Tail(events)
    /\ LET ev == Head(events) IN
       \/ /\ ev.type = "failed"
          /\ refused' = (refused \/ Controller)
          /\ MarkFailed
          /\ UNCHANGED <<inbox, seen, finished>>
       \/ /\ ev.type = "output"
          /\ IF ev.client \in tracker THEN PushEvent(ev.client, ev)
                                      ELSE UNCHANGED <<inbox, seen, finished>>
          /\ receiver' = IF stop THEN "ended" ELSE "get"
          /\ UNCHANGED <<lifecycle, stop, refused>>
       \/ /\ ev.type \in {"ready", "stats"}
          /\ receiver' = IF stop THEN "ended" ELSE "get"
          /\ UNCHANGED <<lifecycle, stop, refused, inbox, seen, finished>>
    /\ UNCHANGED <<shutting, tracker, clientVars, schedVars, commands>>

\* Mutant: an empty queue is only polled again; nobody looks at the process.
MutantPollOn ==
    /\ receiver = "get" /\ events = <<>>
    /\ stop /\ receiver' = "ended"
    /\ UNCHANGED <<lifecycle, stop, refused, shutting, streamVars, clientVars, schedVars,
                   commands, events>>

\* The queue stayed empty for a poll.  A dead process ends the thread: the
\* plain transport marks the engine failed; the controller's receive raises
\* RuntimeError, which the loop does not catch.
PollEmpty ==
    /\ receiver = "get" /\ events = <<>>
    /\ IF process = "dead"
       THEN IF Controller /\ shutting # "clear"
            THEN receiver' = "crashed" /\ refused' = TRUE /\ UNCHANGED <<lifecycle, stop>>
            ELSE /\ IF lifecycle = "running" THEN MarkFailed
                    ELSE receiver' = "ended" /\ UNCHANGED <<lifecycle, stop>>
                 /\ UNCHANGED refused
       ELSE /\ stop /\ receiver' = "ended"
            /\ UNCHANGED <<lifecycle, stop, refused>>
    /\ UNCHANGED <<shutting, streamVars, clientVars, schedVars, commands, events>>

\* Once a second the loop asks for the scheduler's load (bound: one such call
\* in flight).
AskStats ==
    /\ receiver = "get" /\ ~stop /\ CanSend
    /\ \A i \in DOMAIN commands : commands[i] # Utility
    /\ \A i \in DOMAIN events : events[i] # Stats
    /\ commands' = Append(commands, Utility)
    /\ UNCHANGED <<engineVars, streamVars, clientVars, schedVars, events>>

\* Every stream of the tracker gets one more item and counts as finished.
TellAll(end) ==
    /\ finished' = [c \in Clients |-> finished[c] \/ c \in tracker]
    /\ inbox' = [c \in Clients |-> IF c \in tracker THEN Append(inbox[c], Chunk(seen[c], end))
                                                    ELSE inbox[c]]

\* The second half of _mark_failed: RequestTracker.fail_all.
FailAll ==
    /\ receiver = "failing"
    /\ receiver' = "ended"
    /\ TellAll("failed")
    /\ UNCHANGED <<lifecycle, stop, shutting, refused, tracker, seen, clientVars, schedVars,
                   commands, events>>

-----------------------------------------------------------------------------
(* The shutdown coroutine. *)

ShutdownBegin ==
    /\ lifecycle \in {"running", "failed"}
    /\ lifecycle' = "closing"
    /\ commands' = IF CanSend THEN Append(commands, Shutdown) ELSE commands
    /\ stop' = TRUE
    /\ shutting' = "receiver"
    /\ UNCHANGED <<receiver, refused, streamVars, clientVars, schedVars, events>>

\* receiver.join(5.0): the thread ended, or the join timed out.
JoinReceiver ==
    /\ shutting = "receiver"
    /\ shutting' = "backend"
    /\ UNCHANGED <<lifecycle, receiver, stop, refused, streamVars, clientVars, schedVars,
                   commands, events>>

\* _join_backend: the process ended, or is terminated after the grace period.
JoinBackend ==
    /\ shutting = "backend"
    /\ process' = "dead"
    /\ shutting' = "clear"
    /\ UNCHANGED <<lifecycle, receiver, stop, refused, streamVars, clientVars, active,
                   stopping, made, commands, events>>

\* Mutant: the table is emptied before the streams are collected from it.
MutantClearFirst ==
    /\ shutting = "clear" /\ lifecycle = "closing"
    /\ tracker' = {}
    /\ lifecycle' = "closed"
    /\ UNCHANGED <<receiver, stop, shutting, refused, inbox, finished, seen, clientVars,
                   schedVars, commands, events>>

\* RequestTracker.clear and the closing of the queues.
Clear ==
    /\ shutting = "clear" /\ lifecycle = "closing"
    /\ TellAll("none")
    /\ tracker' = {}
    /\ lifecycle' = "closed"
    /\ UNCHANGED <<receiver, stop, shutting, refused, seen, clientVars, schedVars, commands, events>>

-----------------------------------------------------------------------------
ClientStep(c) == Register(c) \/ Refuse(c) \/ Submit(c) \/ GiveUp(c) \/ Consume(c) \/ Close(c)
SchedulerStep == Boot \/ Apply \/ Drained \/ Crash \/ Die \/ \E c \in Clients : Advance(c)
ReceiverStep == Receive \/ PollEmpty \/ AskStats \/ FailAll
ShutdownStep == ShutdownBegin \/ JoinReceiver \/ JoinBackend \/ Clear

Next ==
    \/ AwaitReady \/ SchedulerStep \/ ReceiverStep \/ ShutdownStep
    \/ \E c \in Clients : ClientStep(c)

\* A started coroutine, thread or process keeps running; nobody has to call
\* generate or shutdown, drop a stream, or die.  That an admitted request is
\* advanced until it finishes is what module Scheduler is about.
Fairness ==
    /\ WF_vars(Receive) /\ WF_vars(PollEmpty) /\ WF_vars(FailAll)
    /\ WF_vars(Apply) /\ WF_vars(Drained)
    /\ WF_vars(JoinReceiver) /\ WF_vars(JoinBackend) /\ WF_vars(Clear)
    /\ \A c \in Clients :
         /\ WF_vars(Advance(c)) /\ WF_vars(Consume(c)) /\ WF_vars(Submit(c) \/ GiveUp(c))

Spec == Init /\ [][Next]_vars /\ Fairness

-----------------------------------------------------------------------------
TypeOK ==
    /\ lifecycle \in {"starting", "running", "failed", "closing", "closed", "aborted"}
    /\ receiver \in {"off", "get", "failing", "ended", "crashed"}
    /\ shutting \in {"no", "receiver", "backend", "clear"}
    /\ {stop, refused, stopping} \subseteq BOOLEAN
    /\ tracker \subseteq Clients /\ active \subseteq Clients
    /\ pc \in [Clients -> {"idle", "tokenizing", "streaming", "done"}]
    /\ finished \in [Clients -> BOOLEAN]
    /\ \A c \in Clients : {made[c], seen[c]} \subseteq 0..MaxTokens[c]
    /\ process \in {"booting", "alive", "dead"}

\* A coroutine that waits for its stream can still be reached: the tracker
\* knows the stream, or the item that ends it is already queued.  Failure,
\* shutdown, the receiver and the coroutine itself all touch the tracker
\* (RequestTracker: "the single request table used by generation, abort and
\* failure paths").
WaitersAreReachable ==
    \A c \in Clients :
        pc[c] = "streaming" /\ c \notin tracker => \E i \in DOMAIN inbox[c] : Terminal(inbox[c][i])

\* While the engine runs, a request the scheduler works on (or will take on)
\* has somebody reading its stream, or its abort is on the way: an abandoned
\* request does not keep its slot until it ends by itself.
NoOrphans ==
    lifecycle = "running" /\ process = "alive" =>
        \A c \in Clients :
            (c \in active \/ \E i \in DOMAIN commands : commands[i] = Add(c)) =>
                \/ c \in tracker
                \/ \E i \in DOMAIN commands : commands[i] = AbortCmd(c)

\* A stream that ends with a finish reason has delivered every token the
\* scheduler generated, across queue, receiver, held-back text and inbox.
FinishedIsComplete ==
    \A c \in Clients : outcome[c] = "finish" => got[c] = made[c]

\* Every stream ends, whatever happens to the process or the engine.
EveryStreamEnds ==
    \A c \in Clients : (pc[c] = "streaming") ~> (pc[c] = "done")
=============================================================================
