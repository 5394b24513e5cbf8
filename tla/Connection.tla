----------------------------- MODULE Connection -----------------------------
(***************************************************************************)
(* The connection layer of waepic: the ConnectionRunner task (connect,     *)
(* read loop, keepalive, cleanup, reconnect), the ConnectionHandle whose   *)
(* send_iq and send_node calls run concurrently in application tasks, the  *)
(* unbounded command channel and the bounded broadcast bus between them,   *)
(* and the server at the other end of the transport.                       *)
(*                                                                         *)
(* A call is one invocation of send_iq or send_node; its identity is the   *)
(* fresh id that next_iq_id gives an IQ.  A payload is abstracted to the   *)
(* kind of the frame that carries it.                                      *)
(***************************************************************************)
EXTENDS Naturals, Sequences

CONSTANTS
    IqCalls,        \* the send_iq invocations
    NodeCalls,      \* the send_node invocations made by client code directly
    NoCall,         \* the id of a frame that answers no call
    Disconnect,     \* ConnectionCommand::Disconnect, as it sits in the command channel
    ServerKinds,    \* the kinds of unsolicited frame the server sends
    AutoReconnect,  \* ConnectionConfig::auto_reconnect
    BusCapacity,    \* capacity of the broadcast bus (256 in Connection::new)
    InboxCapacity,  \* capacity of the transport's event channel (64)
    AttemptBound    \* where reconnect_attempt saturates (u64::MAX in the code)

Calls == IqCalls \cup NodeCalls

\* "success" is a set IQ with a <success> child, "garbage" a frame that fails
\* to decrypt or parse, "stanza" every other node the read loop only forwards.
UnsolicitedKinds == {"stanza", "success", "failure", "streamError", "garbage"}

ASSUME ConnectionAssumption ==
    /\ IqCalls \cap NodeCalls = {}
    /\ NoCall \notin Calls /\ Disconnect \notin Calls
    /\ ServerKinds \subseteq UnsolicitedKinds
    /\ AutoReconnect \in BOOLEAN
    /\ BusCapacity \in Nat \ {0}
    /\ InboxCapacity \in Nat \ {0}
    /\ AttemptBound \in Nat \ {0}

VARIABLES
    runner,       \* where ConnectionRunner::run is
    loopResult,   \* what the last read_loop returned: "ok" or "err"
    attempt,      \* reconnect_attempt
    isConnected,  \* is_connected
    loggedOut,    \* logged_out
    handle,       \* TRUE while some ConnectionHandle is alive
    cmds,         \* the command channel: calls whose node is queued, or Disconnect
    waiters,      \* iq_waiters: the calls with a registered response channel
    call,         \* per call, where its send_iq or send_node is
    sent,         \* per call, the oneshot by which the runner reports the write
    answer,       \* per call, the oneshot by which its response arrives
    wire,         \* per call, what became of its node on the network
    writes,       \* per call, how often its node was put on the network
    inbox,        \* the transport's event channel
    bus,          \* the events on the broadcast bus that its slowest receiver has not read
    busOpen       \* FALSE once the last receiver of the bus is dropped

runnerVars == <<runner, loopResult, attempt, isConnected, loggedOut>>
callVars == <<waiters, call, sent, answer>>
netVars == <<wire, writes, inbox>>
busVars == <<bus, busOpen>>
vars == <<runnerVars, callVars, netVars, busVars, handle, cmds>>

RunnerStates == {"checking", "connecting", "reading", "publishing",
                 "draining", "closing", "backoff", "stopped"}
Returned == {"ok", "error", "notConnected", "sendFailed", "timedOut"}
CallStates == {"idle", "enqueuing", "sending", "awaiting"} \cup Returned
Frames == [kind : UnsolicitedKinds \cup {"eof"}, id : {NoCall}]
              \cup [kind : {"result", "iqError"}, id : IqCalls]

Eof == [kind |-> "eof", id |-> NoCall]

Init ==
    /\ runner = "checking" /\ loopResult = "ok" /\ attempt = 0
    /\ isConnected = FALSE /\ loggedOut = FALSE
    /\ handle = TRUE /\ cmds = << >>
    /\ waiters = {}
    /\ call = [c \in Calls |-> "idle"]
    /\ sent = [c \in Calls |-> "none"]
    /\ answer = [c \in Calls |-> "none"]
    /\ wire = [c \in Calls |-> "unsent"]
    /\ writes = [c \in Calls |-> 0]
    /\ inbox = << >>
    /\ bus = 0 /\ busOpen \in BOOLEAN

-----------------------------------------------------------------------------
(* The event bus.  try_broadcast drops the event when the bus is full or   *)
(* has no receiver; broadcast().await waits for room, unless the bus is    *)
(* closed.                                                                 *)

TryPublish(n) == IF busOpen /\ n < BusCapacity THEN n + 1 ELSE n

MustWait(n) == busOpen /\ n = BusCapacity

Consume ==
    /\ bus > 0 /\ bus' = bus - 1
    /\ UNCHANGED <<runnerVars, callVars, netVars, busOpen, handle, cmds>>

Unsubscribe ==
    /\ busOpen
    /\ busOpen' = FALSE /\ bus' = 0
    /\ UNCHANGED <<runnerVars, callVars, netVars, handle, cmds>>

-----------------------------------------------------------------------------
(* send_iq, send_node, disconnect: the ConnectionHandle.                   *)

\* cleanup_connection holds the iq_waiters lock until the transport is closed.
WaitersLocked == runner = "closing"

StartIq(c) ==
    /\ handle /\ call[c] = "idle" /\ ~WaitersLocked
    /\ waiters' = waiters \cup {c}
    /\ call' = [call EXCEPT ![c] = "enqueuing"]
    /\ UNCHANGED <<runnerVars, sent, answer, netVars, busVars, handle, cmds>>

StartNode(c) ==
    /\ handle /\ call[c] = "idle"
    /\ call' = [call EXCEPT ![c] = "enqueuing"]
    /\ UNCHANGED <<runnerVars, waiters, sent, answer, netVars, busVars, handle, cmds>>

\* The push on the command channel fails once the runner, its only receiver,
\* is gone.  A waiter already registered stays in the table.
Enqueue(c) ==
    /\ call[c] = "enqueuing"
    /\ IF runner = "stopped"
       THEN /\ call' = [call EXCEPT ![c] = "notConnected"]
            /\ UNCHANGED cmds
       ELSE /\ call' = [call EXCEPT ![c] = "sending"]
            /\ cmds' = Append(cmds, c)
    /\ UNCHANGED <<runnerVars, waiters, sent, answer, netVars, busVars, handle>>

SendReturns(c) ==
    /\ call[c] = "sending" /\ sent[c] # "none"
    /\ call' = [call EXCEPT ![c] =
                   IF sent[c] = "err" THEN "sendFailed"
                   ELSE IF c \in IqCalls THEN "awaiting" ELSE "ok"]
    /\ UNCHANGED <<runnerVars, waiters, sent, answer, netVars, busVars, handle, cmds>>

\* Neither timeout undoes anything: the command stays queued and the waiter
\* registered.  The future is polled before the timer, so an answer that is
\* already there wins.
SendTimesOut(c) ==
    /\ call[c] = "sending" /\ sent[c] = "none"
    /\ call' = [call EXCEPT ![c] = "timedOut"]
    /\ UNCHANGED <<runnerVars, waiters, sent, answer, netVars, busVars, handle, cmds>>

AnswerReturns(c) ==
    /\ call[c] = "awaiting" /\ answer[c] # "none"
    /\ \E outcome \in CASE answer[c] = "result" -> {"ok", "error"}  \* parse_response may fail
                        [] answer[c] = "iqError" -> {"error"}
                        [] answer[c] = "notConnected" -> {"notConnected"} :
          call' = [call EXCEPT ![c] = outcome]
    /\ UNCHANGED <<runnerVars, waiters, sent, answer, netVars, busVars, handle, cmds>>

AnswerTimesOut(c) ==
    /\ call[c] = "awaiting" /\ answer[c] = "none"
    /\ call' = [call EXCEPT ![c] = "timedOut"]
    /\ UNCHANGED <<runnerVars, waiters, sent, answer, netVars, busVars, handle, cmds>>

\* Bound: at most one Disconnect is queued at a time.
RequestDisconnect ==
    /\ handle /\ runner # "stopped"
    /\ \A i \in 1..Len(cmds) : cmds[i] # Disconnect
    /\ cmds' = Append(cmds, Disconnect)
    /\ UNCHANGED <<runnerVars, callVars, netVars, busVars, handle>>

DropHandle ==
    /\ handle
    /\ \A c \in Calls : call[c] = "idle" \/ call[c] \in Returned
    /\ handle' = FALSE
    /\ UNCHANGED <<runnerVars, callVars, netVars, busVars, cmds>>

-----------------------------------------------------------------------------
(* ConnectionRunner::run: connecting, reconnecting and stopping.           *)

NextAttempt == IF attempt < AttemptBound THEN attempt + 1 ELSE attempt

\* Faulty variant: a logout does not stop the reconnects.
GivesUpUnlessConfigured == ~AutoReconnect

GivesUp == ~AutoReconnect \/ loggedOut

CheckLoggedOut ==
    /\ runner = "checking"
    /\ runner' = IF loggedOut THEN "stopped" ELSE "connecting"
    /\ UNCHANGED <<loopResult, attempt, isConnected, loggedOut,
                   callVars, netVars, busVars, handle, cmds>>

ConnectSucceeds ==
    /\ runner = "connecting"
    /\ runner' = "reading" /\ isConnected' = TRUE /\ attempt' = 0
    /\ bus' = TryPublish(bus)
    /\ UNCHANGED <<loopResult, loggedOut, callVars, netVars, busOpen, handle, cmds>>

\* No device stored, transport or handshake error, or a timeout of either.
ConnectFails ==
    /\ runner = "connecting"
    /\ IF GivesUp
       THEN /\ runner' = "stopped" /\ bus' = TryPublish(bus)
            /\ UNCHANGED attempt
       ELSE /\ runner' = "backoff" /\ attempt' = NextAttempt
            /\ UNCHANGED bus
    /\ UNCHANGED <<loopResult, isConnected, loggedOut, callVars, netVars,
                   busOpen, handle, cmds>>

BackoffElapses ==
    /\ runner = "backoff"
    /\ runner' = "checking"
    /\ UNCHANGED <<loopResult, attempt, isConnected, loggedOut,
                   callVars, netVars, busVars, handle, cmds>>

\* read_loop returns: its event receiver is dropped with whatever it holds,
\* and run() clears is_connected before it calls cleanup_connection.
LeaveLoop(result) ==
    /\ runner' = "draining" /\ loopResult' = result /\ isConnected' = FALSE
    /\ inbox' = << >>
    /\ wire' = [c \in Calls |-> IF wire[c] = "unsent" THEN "unsent" ELSE "lost"]
    /\ UNCHANGED <<attempt, loggedOut, writes, callVars, busVars, handle>>

\* Faulty variant: the waiters are dropped from the table but not resolved.
DrainWaitersSilently ==
    /\ runner = "draining"
    /\ runner' = "closing"
    /\ waiters' = {}
    /\ UNCHANGED <<loopResult, attempt, isConnected, loggedOut, call, sent, answer,
                   netVars, busVars, handle, cmds>>

\* cleanup_connection, first half: take the lock and fail every waiter.
DrainWaiters ==
    /\ runner = "draining"
    /\ runner' = "closing"
    /\ waiters' = {}
    /\ answer' = [c \in Calls |-> IF c \in waiters THEN "notConnected" ELSE answer[c]]
    /\ UNCHANGED <<loopResult, attempt, isConnected, loggedOut, call, sent,
                   netVars, busVars, handle, cmds>>

\* cleanup_connection, second half (disconnect the transport, release the
\* lock), then what run() does with the result of read_loop.
CloseTransport ==
    /\ runner = "closing"
    /\ LET told == TryPublish(bus) IN
       IF loopResult = "ok"
       THEN runner' = "stopped" /\ bus' = told /\ UNCHANGED attempt
       ELSE IF GivesUp
       THEN runner' = "stopped" /\ bus' = TryPublish(told) /\ UNCHANGED attempt
       ELSE runner' = "backoff" /\ bus' = told /\ attempt' = NextAttempt
    /\ UNCHANGED <<loopResult, isConnected, loggedOut, callVars, netVars,
                   busOpen, handle, cmds>>

-----------------------------------------------------------------------------
(* read_loop.  The select is biased: transport events, then commands, then *)
(* the keepalive timer.                                                    *)

Idle == runner = "reading" /\ inbox = << >>

\* Faulty variant: the resolved waiter stays in the table.
ResolveInPlace(f) ==
    /\ UNCHANGED waiters
    /\ answer' = IF f.id \in waiters THEN [answer EXCEPT ![f.id] = f.kind] ELSE answer

\* The waiter of an IQ response is taken out of the table and resolved.
Resolve(f) ==
    IF f.id \in waiters
    THEN /\ waiters' = waiters \ {f.id}
         /\ answer' = [answer EXCEPT ![f.id] = f.kind]
    ELSE UNCHANGED <<waiters, answer>>

\* process_incoming_frame on a frame that decrypts and parses.
ReadFrame ==
    /\ runner = "reading" /\ inbox # << >>
    /\ LET f == Head(inbox)
           n == IF f.kind = "success" THEN TryPublish(bus) ELSE bus
       IN  /\ f.kind \notin {"eof", "garbage"}
           /\ Resolve(f)
           /\ loggedOut' = (loggedOut \/ f.kind = "failure")
           /\ runner' = IF MustWait(n) THEN "publishing" ELSE "reading"
           /\ bus' = TryPublish(n)
    /\ inbox' = Tail(inbox)
    /\ UNCHANGED <<loopResult, attempt, isConnected, call, sent, wire, writes,
                   busOpen, handle, cmds>>

ReadGarbage ==
    /\ runner = "reading" /\ inbox # << >> /\ Head(inbox).kind = "garbage"
    /\ inbox' = Tail(inbox)
    /\ bus' = TryPublish(bus)
    /\ UNCHANGED <<runnerVars, callVars, wire, writes, busOpen, handle, cmds>>

ReadEof ==
    /\ runner = "reading" /\ inbox # << >> /\ Head(inbox).kind = "eof"
    /\ LeaveLoop("err")
    /\ UNCHANGED cmds

\* The pending broadcast().await of a node event completes.
FinishPublish ==
    /\ runner = "publishing" /\ ~MustWait(bus)
    /\ runner' = "reading"
    /\ bus' = TryPublish(bus)
    /\ UNCHANGED <<loopResult, attempt, isConnected, loggedOut, callVars,
                   netVars, busOpen, handle, cmds>>

\* Faulty variant: a command whose write failed stays queued for a retry.
HandleSendRetrying ==
    /\ Idle /\ cmds # << >> /\ Head(cmds) # Disconnect
    /\ \E report \in {"ok", "err"}, reached \in {"unsent", "live"} :
          /\ report = "ok" => reached = "live"
          /\ sent' = [sent EXCEPT ![Head(cmds)] = report]
          /\ wire' = [wire EXCEPT ![Head(cmds)] = reached]
          /\ writes' = IF reached = "live" THEN [writes EXCEPT ![Head(cmds)] = @ + 1] ELSE writes
          /\ cmds' = IF report = "ok" THEN Tail(cmds) ELSE cmds
    /\ UNCHANGED <<runnerVars, waiters, call, answer, inbox, busVars, handle>>

\* handle_send_node.  A failed write may still have put the node on the wire.
HandleSend ==
    /\ Idle /\ cmds # << >> /\ Head(cmds) # Disconnect
    /\ \E report \in {"ok", "err"}, reached \in {"unsent", "live"} :
          /\ report = "ok" => reached = "live"
          /\ sent' = [sent EXCEPT ![Head(cmds)] = report]
          /\ wire' = [wire EXCEPT ![Head(cmds)] = reached]
          /\ writes' = IF reached = "live" THEN [writes EXCEPT ![Head(cmds)] = @ + 1] ELSE writes
    /\ cmds' = Tail(cmds)
    /\ UNCHANGED <<runnerVars, waiters, call, answer, inbox, busVars, handle>>

\* Faulty variant: a requested disconnect is taken for a lost connection.
HandleDisconnectAsLoss ==
    /\ Idle /\ cmds # << >> /\ Head(cmds) = Disconnect
    /\ cmds' = Tail(cmds)
    /\ LeaveLoop("err")

HandleDisconnect ==
    /\ Idle /\ cmds # << >> /\ Head(cmds) = Disconnect
    /\ cmds' = Tail(cmds)
    /\ LeaveLoop("ok")

CommandChannelCloses ==
    /\ Idle /\ cmds = << >> /\ ~handle
    /\ LeaveLoop("ok")
    /\ UNCHANGED cmds

KeepaliveFails ==
    /\ Idle /\ cmds = << >>
    /\ bus' = TryPublish(bus)
    /\ UNCHANGED <<runnerVars, callVars, netVars, busOpen, handle, cmds>>

-----------------------------------------------------------------------------
(* The server and the network, seen through the transport's event channel. *)

LinkUp ==
    /\ runner \in {"reading", "publishing"}
    /\ Len(inbox) < InboxCapacity
    /\ inbox # << >> => inbox[Len(inbox)] # Eof

ServerAnswers(c) ==
    /\ LinkUp /\ wire[c] = "live"
    /\ \E kind \in {"result", "iqError"} :
          inbox' = Append(inbox, [kind |-> kind, id |-> c])
    /\ wire' = [wire EXCEPT ![c] = "answered"]
    /\ UNCHANGED <<runnerVars, writes, callVars, busVars, handle, cmds>>

ServerSends ==
    /\ LinkUp
    /\ \E kind \in ServerKinds : inbox' = Append(inbox, [kind |-> kind, id |-> NoCall])
    /\ UNCHANGED <<runnerVars, callVars, wire, writes, busVars, handle, cmds>>

LinkDrops ==
    /\ LinkUp
    /\ inbox' = Append(inbox, Eof)
    /\ UNCHANGED <<runnerVars, callVars, wire, writes, busVars, handle, cmds>>

-----------------------------------------------------------------------------

RunnerNext ==
    \/ CheckLoggedOut \/ ConnectSucceeds \/ ConnectFails \/ BackoffElapses
    \/ ReadFrame \/ ReadGarbage \/ ReadEof \/ FinishPublish
    \/ HandleSend \/ HandleDisconnect \/ CommandChannelCloses \/ KeepaliveFails
    \/ DrainWaiters \/ CloseTransport

CallNext(c) ==
    Enqueue(c) \/ SendReturns(c) \/ SendTimesOut(c) \/ AnswerReturns(c) \/ AnswerTimesOut(c)

\* The runner has returned and nobody has anything left to do.
Finished ==
    /\ runner = "stopped" /\ bus = 0
    /\ \A c \in Calls : call[c] = "idle" \/ call[c] \in Returned
    /\ UNCHANGED vars

Next ==
    \/ RunnerNext
    \/ \E c \in Calls : CallNext(c)
    \/ \E c \in IqCalls : StartIq(c) \/ ServerAnswers(c)
    \/ \E c \in NodeCalls : StartNode(c)
    \/ RequestDisconnect \/ DropHandle
    \/ ServerSends \/ LinkDrops
    \/ Consume \/ Unsubscribe
    \/ Finished

Spec == Init /\ [][Next]_vars

-----------------------------------------------------------------------------
(* Fairness.  The executor keeps polling a task that can move: weak        *)
(* fairness of the runner's own steps (never of KeepaliveFails or of the   *)
(* outcome of a connect), of a call whose oneshot is resolved, and of the  *)
(* receiver of the bus.  Timeouts are given none: what the liveness        *)
(* properties promise does not wait for one.  A command handler is         *)
(* strongly fair: the read loop does not lose the race against the         *)
(* transport for ever.                                                     *)

RunnerFairness ==
    /\ WF_vars(CheckLoggedOut) /\ WF_vars(ConnectSucceeds \/ ConnectFails)
    /\ WF_vars(BackoffElapses)
    /\ WF_vars(ReadFrame \/ ReadGarbage \/ ReadEof) /\ WF_vars(FinishPublish)
    /\ WF_vars(CommandChannelCloses)
    /\ WF_vars(DrainWaiters) /\ WF_vars(CloseTransport)
    /\ SF_vars(HandleSend) /\ SF_vars(HandleDisconnect)

CallFairness ==
    \A c \in Calls :
        WF_vars(Enqueue(c)) /\ WF_vars(SendReturns(c)) /\ WF_vars(AnswerReturns(c))

FairSpec == Spec /\ RunnerFairness /\ CallFairness /\ WF_vars(Consume)

-----------------------------------------------------------------------------
(* Properties.                                                             *)

\* Every variable keeps the type of the Rust field or channel it stands for.
TypeOK ==
    /\ runner \in RunnerStates /\ loopResult \in {"ok", "err"}
    /\ attempt \in 0..AttemptBound
    /\ isConnected \in BOOLEAN /\ loggedOut \in BOOLEAN /\ handle \in BOOLEAN
    /\ cmds \in Seq(Calls \cup {Disconnect})
    /\ waiters \subseteq IqCalls
    /\ call \in [Calls -> CallStates]
    /\ sent \in [Calls -> {"none", "ok", "err"}]
    /\ answer \in [Calls -> {"none", "result", "iqError", "notConnected"}]
    /\ wire \in [Calls -> {"unsent", "live", "answered", "lost"}]
    /\ writes \in [Calls -> Nat]
    /\ inbox \in Seq(Frames) /\ Len(inbox) <= InboxCapacity
    /\ bus \in 0..BusCapacity /\ busOpen \in BOOLEAN

InInbox(c) == \E i \in 1..Len(inbox) : inbox[i].id = c

\* A send_iq call that is waiting for its response can still get one: its
\* waiter is registered, and either its node is on the connection that is
\* being read (with the response, if the server has given it, still in the
\* event channel), or cleanup_connection is about to fail the waiter.  A call
\* never sits out its 30 seconds for a connection that is gone
\* (cleanup_connection against send_iq).
NoStrandedCall ==
    \A c \in IqCalls :
        call[c] = "awaiting" /\ answer[c] = "none" =>
            /\ c \in waiters
            /\ \/ wire[c] = "live"
               \/ wire[c] = "answered" /\ InInbox(c)
               \/ wire[c] = "lost" /\ runner = "draining"

\* Once the server has sent <failure>, the runner is on its way to a stop: it
\* is never again about to connect or waiting to (logged_out in run()).
LoggedOutStops ==
    loggedOut => runner \in {"reading", "publishing", "draining", "closing", "stopped"}

\* is_connected, which is_connected() reads without a lock, is TRUE exactly
\* while the read loop owns a live connection; in particular a Disconnected
\* event is never published while the flag still says connected.
ConnectedMeansReading ==
    isConnected <=> runner \in {"reading", "publishing"}

\* What the invariants above rest on, as one inductive invariant (see
\* ConnectionProofs): the life of a queued command, of the two oneshots of a
\* call, of its waiter, and of the connection its node went out on.
QueueInv ==
    /\ \A i \in 1..Len(cmds) : cmds[i] \in Calls =>
          /\ sent[cmds[i]] = "none" /\ wire[cmds[i]] = "unsent"
          /\ call[cmds[i]] \in {"sending", "timedOut"}
    /\ \A i, j \in 1..Len(cmds) : cmds[i] = cmds[j] => i = j

OneshotInv ==
    \A c \in Calls :
        /\ call[c] \in {"idle", "enqueuing"} => sent[c] = "none"
        /\ sent[c] = "none" => wire[c] = "unsent"
        /\ writes[c] = (IF wire[c] = "unsent" THEN 0 ELSE 1)
        /\ sent[c] = "ok" => wire[c] # "unsent"
        /\ call[c] = "awaiting" => c \in IqCalls /\ sent[c] = "ok"
        /\ call[c] = "idle" => answer[c] = "none" /\ c \notin waiters
        /\ answer[c] \in {"result", "iqError"} => wire[c] # "unsent"

WaiterInv ==
    /\ \A c \in IqCalls :
          call[c] \in {"enqueuing", "sending", "awaiting"} /\ answer[c] = "none" =>
              c \in waiters
    /\ \A c \in waiters :
          /\ wire[c] = "lost" => runner = "draining"
          /\ wire[c] = "answered" => InInbox(c)

LinkInv ==
    /\ inbox # << >> => runner \in {"reading", "publishing"}
    /\ \A c \in Calls : wire[c] \in {"live", "answered"} => runner \in {"reading", "publishing"}
    /\ \A i \in 1..Len(inbox) : inbox[i].id \in IqCalls => wire[inbox[i].id] = "answered"

CallInv ==
    /\ TypeOK /\ QueueInv /\ OneshotInv /\ WaiterInv /\ LinkInv
    /\ LoggedOutStops /\ ConnectedMeansReading

\* A call caught by the end of its connection returns without the help of a
\* timeout (the oneshots resolved by cleanup_connection).
CallsFailFast ==
    \A c \in IqCalls :
        (call[c] = "awaiting" /\ runner = "draining") ~> (call[c] \in Returned)

\* The read loop has something better to do than commands: the select is
\* biased towards transport events, and a full bus blocks it.
ReadLoopBusy ==
    runner = "publishing" \/ (runner = "reading" /\ inbox # << >>)

\* disconnect() stops the runner, whatever is queued before it and however
\* often the connection drops meanwhile, provided that the read loop is not
\* kept busy for ever and that a connect eventually succeeds (the command is
\* looked at nowhere else).
DisconnectStops ==
    []<>~ReadLoopBusy /\ SF_vars(ConnectSucceeds) =>
        ((\E i \in 1..Len(cmds) : cmds[i] = Disconnect) ~> (runner = "stopped"))

-----------------------------------------------------------------------------
(* The connection layer implements the request/reply promise.              *)

StatusOf(state) ==
    CASE state = "idle" -> "idle"
      [] state \in {"enqueuing", "sending", "awaiting"} -> "pending"
      [] state = "ok" -> "ok"
      [] state = "error" -> "refused"
      [] state \in {"notConnected", "sendFailed", "timedOut"} -> "failed"

statusBar == [c \in Calls |-> StatusOf(call[c])]

Promise == INSTANCE RequestReply WITH status <- statusBar, executed <- writes

\* Every behaviour of the connection layer is one the callers are promised
\* (send_iq and send_node over every loss, reconnect and timeout).
ImplementsPromise == Promise!ReqSpec

=============================================================================
