---------------------------- MODULE ClientTasks ----------------------------
(***************************************************************************)
(* The tasks of one client and what they wait for: the read loop waits for *)
(* room on the bus, the update stream for locks, answers and downloads,    *)
(* send_message, logout and the history-sync tasks for the server while    *)
(* they hold a read guard of the RwLock that guards the device, and the    *)
(* edge-routing tasks for its write guard.                                 *)
(*                                                                         *)
(* The lock is async_lock's: a pending write() keeps new read()s out.      *)
(* Every request goes through the read loop, which does not read commands  *)
(* while it waits for room.  Requests time out (see Connection); read(),   *)
(* write(), broadcast() and a download from a host do not.                 *)
(***************************************************************************)
EXTENDS Naturals, Sequences

CONSTANTS
    Stream,       \* the update stream's task
    Calls,        \* the application's calls of send_message and logout
    Histories,    \* the tasks spawned for history syncs, which send a receipt
    Routers,      \* the tasks that handle_edge_routing_child spawns
    None,         \* no task
    BusCapacity,  \* capacity of the broadcast bus
    MaxMessages,  \* Bound: <message> nodes the server sends
    MaxConnects   \* Bound: connections after the first

\* The tasks that hold a read guard of the device across an await.
Readers == Calls \cup Histories
Tasks == {Stream} \cup Readers \cup Routers

ASSUME TasksAssumption ==
    /\ Stream \notin Readers \cup Routers /\ Readers \cap Routers = {}
    /\ Calls \cap Histories = {}
    /\ None \notin Tasks
    /\ BusCapacity \in Nat \ {0} /\ MaxMessages \in Nat /\ MaxConnects \in Nat

VARIABLES
    wire,      \* frames of the server that the read loop has not read
    loop,      \* the node that the read loop waits to broadcast, if any
    bus,       \* events that the stream has not read
    pc,        \* where each task is
    req,       \* the request that each task waits for
    guards,    \* the tasks that hold a read guard across their awaits
    writer,    \* the task whose write() is pending, or None
    outdated,  \* the calls whose device was written while they built a stanza
    messages,  \* how many <message> nodes the server has sent
    connects   \* how often the connection was replaced

netVars == <<wire, messages, connects>>
lockVars == <<guards, writer, outdated>>
vars == <<netVars, loop, bus, pc, req, lockVars>>

\* Nodes and events, with the task an answer or a routing node is for.
Item(kind, task) == [kind |-> kind, task |-> task]
Nothing == Item("none", None)

Init ==
    /\ wire = << >> /\ loop = Nothing /\ bus = << >>
    /\ pc = [t \in Tasks |-> IF t = Stream THEN "recv" ELSE "idle"]
    /\ req = [t \in Tasks |-> "none"]
    /\ guards = {} /\ writer = None /\ outdated = {}
    /\ messages = 0 /\ connects = 0

Goto(t, place) == pc' = [pc EXCEPT ![t] = place]

-----------------------------------------------------------------------------
(* The server and the link.                                                *)

SendMessage ==
    /\ messages < MaxMessages /\ messages' = messages + 1
    /\ wire' = Append(wire, Item("message", None))
    /\ UNCHANGED <<connects, loop, bus, pc, req, lockVars>>

\* An <ib> with routing information, for a task that is not running yet.
SendRouting(r) ==
    /\ pc[r] = "idle"
    /\ wire' = Append(wire, Item("routing", r))
    /\ Goto(r, "announced")
    /\ UNCHANGED <<messages, connects, loop, bus, req, lockVars>>

ServerAnswers(t) ==
    /\ req[t] = "sent"
    /\ wire' = Append(wire, Item("answer", t))
    /\ req' = [req EXCEPT ![t] = "answered"]
    /\ UNCHANGED <<messages, connects, loop, bus, pc, lockVars>>

\* The link is lost and replaced: waiting IQs fail (cleanup_connection), and
\* Connected is dropped when the bus is full (try_broadcast).
Reconnect ==
    /\ connects < MaxConnects /\ connects' = connects + 1
    /\ loop = Nothing
    /\ req' = [t \in Tasks |-> IF req[t] \in {"sent", "answered"} THEN "failed" ELSE req[t]]
    /\ bus' = IF Len(bus) < BusCapacity THEN Append(bus, Item("connected", None)) ELSE bus
    /\ wire' = << >>
    /\ UNCHANGED <<messages, loop, pc, lockVars>>

-----------------------------------------------------------------------------
(* The read loop.                                                          *)

\* process_incoming_frame: an answer reaches its waiter, then the node goes
\* to the bus.
ReadFrame ==
    /\ loop = Nothing /\ wire # << >>
    /\ wire' = Tail(wire) /\ loop' = Head(wire)
    /\ LET t == Head(wire).task IN
       req' = IF Head(wire).kind = "answer" /\ req[t] = "answered"
              THEN [req EXCEPT ![t] = "done"] ELSE req
    /\ UNCHANGED <<messages, connects, bus, pc, lockVars>>

Broadcast ==
    /\ loop # Nothing /\ Len(bus) < BusCapacity
    /\ bus' = Append(bus, loop) /\ loop' = Nothing
    /\ UNCHANGED <<netVars, pc, req, lockVars>>

\* A command is written: a plain node is done, an IQ waits for its answer.
HandleSend(t) ==
    /\ loop = Nothing /\ req[t] \in {"queuedNode", "queuedIq"}
    /\ req' = [req EXCEPT ![t] = IF @ = "queuedNode" THEN "done" ELSE "sent"]
    /\ UNCHANGED <<netVars, loop, bus, pc, lockVars>>

-----------------------------------------------------------------------------
(* Requests and the lock, as the tasks use them.                           *)

Waiting == {"queuedNode", "queuedIq", "sent", "answered"}

\* Faulty variant: only the write of a command is timed, not the answer.
RequestTimesOutQueued(t) ==
    /\ req[t] \in {"queuedNode", "queuedIq"}
    /\ req' = [req EXCEPT ![t] = "failed"]
    /\ UNCHANGED <<netVars, loop, bus, pc, lockVars>>

\* send_node's thirty seconds, and those of send_iq.
RequestTimesOut(t) ==
    /\ req[t] \in Waiting
    /\ req' = [req EXCEPT ![t] = "failed"]
    /\ UNCHANGED <<netVars, loop, bus, pc, lockVars>>

Ask(t, kind) == req' = [req EXCEPT ![t] = kind]
Answered(t) == req[t] = "done"
Failed(t) == req[t] = "failed"

CanRead == writer = None

\* write(): the pending writer is alone, and new readers wait for it.
RequestWrite(t) ==
    /\ pc[t] = "wantWrite" /\ writer = None
    /\ writer' = t /\ Goto(t, "draining")
    /\ UNCHANGED <<netVars, loop, bus, req, guards, outdated>>

\* send_message has read the device and not yet encrypted.
Builds(s) == pc[s] \in {"resolving", "loading", "fetching", "encrypting"}

WriteDevice(t) ==
    /\ pc[t] = "draining" /\ guards = {}
    /\ writer' = None /\ outdated' = outdated \cup {c \in Calls : Builds(c)}
    /\ IF t = Stream THEN Goto(t, "syncing") /\ Ask(t, "queuedIq")
       ELSE Goto(t, "finished") /\ UNCHANGED req
    /\ UNCHANGED <<netVars, loop, bus, guards>>

-----------------------------------------------------------------------------
(* run_update_stream.                                                      *)

\* A routing node spawns its task; a message is decrypted; Connected runs the
\* post-connect init; the rest is passed to the application.
StreamReceives ==
    /\ pc[Stream] = "recv" /\ bus # << >>
    /\ bus' = Tail(bus)
    /\ LET item == Head(bus) IN
       pc' = CASE item.kind = "message" -> [pc EXCEPT ![Stream] = "decrypting"]
               [] item.kind = "connected" -> [pc EXCEPT ![Stream] = "wantWrite"]
               [] item.kind = "routing" -> [pc EXCEPT ![item.task] = "wantWrite"]
               [] OTHER -> pc
    /\ UNCHANGED <<netVars, loop, req, lockVars>>

\* The stream is done with a message that has a task h to come.
Spawn(h) == pc[h] = "idle" /\ pc' = [pc EXCEPT ![Stream] = "recv", ![h] = "spawned"]

\* decrypt_e2e_message reads the device through the store adapter; a message
\* that decrypts is receipted.  One that brings a history sync spawns its task,
\* or first has to be downloaded, with the cached media connection or one that
\* the server is asked for.
StreamDecrypts ==
    /\ pc[Stream] = "decrypting" /\ CanRead
    /\ \/ Goto(Stream, "receipting") /\ Ask(Stream, "queuedNode")
       \/ Goto(Stream, "recv") /\ UNCHANGED req
       \/ \E h \in Histories : Spawn(h) /\ UNCHANGED req
       \/ /\ \E h \in Histories : pc[h] = "idle"
          /\ \/ Goto(Stream, "connecting") /\ Ask(Stream, "queuedIq")
             \/ Goto(Stream, "downloading") /\ UNCHANGED req
    /\ UNCHANGED <<netVars, loop, bus, lockVars>>

\* refresh_media_conn has its answer, which may be an error, or none.
StreamConnected ==
    /\ pc[Stream] \in {"connecting", "reconnecting"}
    /\ Answered(Stream) \/ Failed(Stream)
    /\ \/ Goto(Stream, "recv")
       \/ /\ Answered(Stream)
          /\ Goto(Stream, IF pc[Stream] = "connecting" THEN "downloading" ELSE "retrying")
    /\ Ask(Stream, "none")
    /\ UNCHANGED <<netVars, loop, bus, lockVars>>

\* The hosts are asked one after the other, in the stream and for as long as
\* they like: the payload goes to its task, the download fails, or a host
\* refuses and a new connection is asked for, once.
HostAnswers ==
    /\ pc[Stream] \in {"downloading", "retrying"}
    /\ \/ Goto(Stream, "recv") /\ UNCHANGED req
       \/ \E h \in Histories : Spawn(h) /\ UNCHANGED req
       \/ pc[Stream] = "downloading" /\ Goto(Stream, "reconnecting") /\ Ask(Stream, "queuedIq")
    /\ UNCHANGED <<netVars, loop, bus, lockVars>>

\* The receipt is out, or has failed; or the last start-up IQ has returned.
\* run_post_connect_init asks several times in a row, one after the other.
StreamGoesOn ==
    /\ pc[Stream] \in {"receipting", "syncing", "syncingLast"}
    /\ Answered(Stream) \/ Failed(Stream)
    /\ IF pc[Stream] = "syncing"
       THEN Goto(Stream, "syncingLast") /\ Ask(Stream, "queuedIq")
       ELSE Goto(Stream, "recv") /\ Ask(Stream, "none")
    /\ UNCHANGED <<netVars, loop, bus, lockVars>>

-----------------------------------------------------------------------------
(* The tasks that hold the device: send_message, logout, history syncs.    *)

CanStart(t) ==
    t \in Readers /\ CanRead /\ pc[t] = IF t \in Histories THEN "spawned" ELSE "idle"

\* send_message to a user queries the user's devices, to a group it encrypts
\* at once; logout asks the server to remove the companion; a history sync
\* sends its receipt.
FirstStep(t) ==
    \/ t \in Calls /\ Goto(t, "resolving") /\ Ask(t, "queuedIq")
    \/ t \in Calls /\ Goto(t, "encrypting") /\ UNCHANGED req
    \/ t \in Calls /\ Goto(t, "asking") /\ Ask(t, "queuedIq")
    \/ t \in Histories /\ Goto(t, "asking") /\ Ask(t, "queuedNode")

\* Faulty variant: the device is copied and the guard dropped at once.
StartCopying(t) ==
    /\ CanStart(t) /\ FirstStep(t)
    /\ UNCHANGED <<netVars, loop, bus, lockVars>>

\* The guard is taken and kept over the requests that follow.
Start(t) ==
    /\ CanStart(t) /\ FirstStep(t)
    /\ guards' = guards \cup {t}
    /\ UNCHANGED <<netVars, loop, bus, writer, outdated>>

\* The device is not paired.
NotLoggedIn(t) ==
    /\ CanStart(t)
    /\ Goto(t, "finished")
    /\ UNCHANGED <<netVars, loop, bus, req, lockVars>>

\* prepare_dm_stanza: with the devices known, the sessions are loaded, which
\* reads the device a second time.
Resolved(s) ==
    /\ pc[s] = "resolving" /\ Answered(s)
    /\ Goto(s, "loading") /\ Ask(s, "none")
    /\ UNCHANGED <<netVars, loop, bus, lockVars>>

\* Pre-keys are fetched for the devices without a session.
LoadSessions(s) ==
    /\ pc[s] = "loading" /\ CanRead
    /\ \/ Goto(s, "fetching") /\ Ask(s, "queuedIq")
       \/ Goto(s, "encrypting") /\ UNCHANGED req
    /\ UNCHANGED <<netVars, loop, bus, lockVars>>

Fetched(s) ==
    /\ pc[s] = "fetching" /\ Answered(s)
    /\ Goto(s, "encrypting") /\ Ask(s, "none")
    /\ UNCHANGED <<netVars, loop, bus, lockVars>>

\* Encrypting reads sessions and identities once more; then the guard is
\* dropped and the stanza sent.
Encrypt(s) ==
    /\ pc[s] = "encrypting" /\ CanRead
    /\ guards' = guards \ {s}
    /\ Goto(s, "sending") /\ Ask(s, "queuedNode")
    /\ UNCHANGED <<netVars, loop, bus, writer, outdated>>

\* The task is over; on an error that drops the guard too.  That logout then
\* disconnects is in Connection.
Finish(t) ==
    /\ \/ pc[t] \in {"resolving", "fetching"} /\ Failed(t)
       \/ pc[t] \in {"asking", "sending"} /\ (Answered(t) \/ Failed(t))
    /\ guards' = guards \ {t}
    /\ Goto(t, "finished") /\ Ask(t, "none")
    /\ UNCHANGED <<netVars, loop, bus, writer, outdated>>

-----------------------------------------------------------------------------

LoopNext == ReadFrame \/ Broadcast \/ \E t \in Tasks : HandleSend(t)

StreamNext ==
    \/ StreamReceives \/ StreamDecrypts \/ StreamConnected \/ StreamGoesOn
    \/ RequestWrite(Stream) \/ WriteDevice(Stream)

CallNext(c) ==
    Resolved(c) \/ LoadSessions(c) \/ Fetched(c) \/ Encrypt(c) \/ Finish(c)

Next ==
    \/ SendMessage \/ Reconnect
    \/ \E r \in Routers : SendRouting(r) \/ RequestWrite(r) \/ WriteDevice(r)
    \/ \E t \in Tasks :
          ServerAnswers(t) \/ RequestTimesOut(t) \/ Start(t) \/ NotLoggedIn(t)
    \/ LoopNext \/ StreamNext \/ HostAnswers
    \/ \E c \in Calls : CallNext(c)
    \/ \E h \in Histories : Finish(h)

Spec == Init /\ [][Next]_vars

\* The executor runs every task that can run, and timers fire; the server, the
\* link, the hosts of the media and the application owe nothing.
FairSpec ==
    /\ Spec
    /\ WF_vars(ReadFrame) /\ WF_vars(Broadcast)
    /\ \A t \in Tasks : WF_vars(HandleSend(t)) /\ WF_vars(RequestTimesOut(t))
    /\ WF_vars(StreamNext)
    /\ \A r \in Routers : WF_vars(RequestWrite(r) \/ WriteDevice(r))
    /\ \A c \in Calls : WF_vars(CallNext(c))
    /\ \A h \in Histories : WF_vars(Start(h) \/ NotLoggedIn(h) \/ Finish(h))

-----------------------------------------------------------------------------
(* Properties.                                                             *)

Kinds == {"message", "routing", "answer", "connected"}

\* The types of the channels, the program counters and the lock.
TypeOK ==
    /\ wire \in Seq([kind : Kinds, task : Tasks \cup {None}])
    /\ loop \in [kind : Kinds, task : Tasks \cup {None}] \cup {Nothing}
    /\ bus \in Seq([kind : Kinds, task : Tasks \cup {None}])
    /\ Len(bus) <= BusCapacity
    /\ pc \in [Tasks -> {"recv", "decrypting", "receipting", "syncing", "syncingLast",
                         "connecting", "downloading", "reconnecting", "retrying",
                         "idle", "announced", "spawned", "wantWrite", "draining", "resolving",
                         "loading", "fetching", "encrypting", "sending", "asking", "finished"}]
    /\ req \in [Tasks -> Waiting \cup {"none", "done", "failed"}]
    /\ guards \subseteq Readers
    /\ writer \in Tasks \cup {None}
    /\ outdated \subseteq Calls
    /\ messages \in 0..MaxMessages /\ connects \in 0..MaxConnects

\* A stanza is built under one device: its account and own address, read at
\* the start of send_message, are those of the device in memory until it is
\* encrypted, whatever reconnects and routing updates come in between.
BuiltUnderOneDevice ==
    outdated = {}

\* Why BuiltUnderOneDevice holds: in these phases the call is among the
\* readers that a writer waits for.
GuardInv ==
    /\ TypeOK
    /\ \A c \in Calls : Builds(c) => c \in guards
    /\ BuiltUnderOneDevice

\* A send_message that holds the device waits to read it once more, behind a
\* write that waits for it.
NestedRead ==
    writer # None /\ \E s \in guards : pc[s] \in {"loading", "encrypting"}

\* The read loop always comes back to reading ("prevent broadcast channel
\* deadlock", ConnectionRunner::run), although the stream that empties the
\* bus waits for answers that only the read loop can deliver.
LoopKeepsReading == []<>(loop = Nothing)

\* The stream waits for a host, which has no deadline.
Downloading == pc[Stream] \in {"downloading", "retrying"}

\* Nothing but such a nested read, or a download in the stream that does not
\* end, stops anybody: the read loop comes back to its transport and the
\* stream to the bus, although post-connect init, receipts and downloads wait
\* for the read loop and for a lock that logouts and history syncs hold while
\* they wait for it too.  No write of the device waits without end, although
\* its readers wait for answers of the server, not even if a host hangs.
WaitsEnd ==
    /\ <>[]Downloading \/ []<>(loop = Nothing \/ NestedRead)
    /\ <>[]Downloading \/ []<>(pc[Stream] = "recv" \/ NestedRead)
    /\ \A t \in Routers \cup {Stream} :
          pc[t] = "draining" ~> pc[t] # "draining" \/ NestedRead

=============================================================================
