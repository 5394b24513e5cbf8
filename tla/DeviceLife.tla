----------------------------- MODULE DeviceLife -----------------------------
(***************************************************************************)
(* The life of a device: the row in the session that every connection and  *)
(* every client starts from, the copy a client works with, and the server  *)
(* that links, removes and rejects it.  A device is made by                *)
(* Session::create or Client::connect, installed by load_or_create_device, *)
(* linked by a pairing flow, and dropped by clear_device, which the        *)
(* application calls and the update stream calls on a bare <failure>.      *)
(*                                                                         *)
(* One client at a time; one that is replaced leaves its update stream     *)
(* behind, which still handles the events it has received.  How a flow     *)
(* pairs is in Pairing, how the runner connects in Connection.             *)
(***************************************************************************)
EXTENDS Naturals, Sequences, FiniteSets

CONSTANTS
    MaxDevices,   \* Bound: identities that are known at a time
    BusCapacity,  \* capacity of the broadcast bus
    MaxClients    \* Bound: clients that are made, one after the other

Ids == 1..MaxDevices

ASSUME DeviceAssumption ==
    /\ MaxDevices \in Nat \ {0}
    /\ BusCapacity \in Nat \ {0} /\ MaxClients \in Nat

\* What a copy of a device says: whose keys, and whether pn is set.
Device(i, paired) == [id |-> i, paired |-> paired]
NoDevice == Device(0, FALSE)
Devices == [id : Ids, paired : BOOLEAN] \cup {NoDevice}

VARIABLES
    sqlite,       \* the session is a SqliteSession, not a MemorySession
    row,          \* the stored device, or NoDevice
    signed,       \* whose signed pre-key is stored, or 0
    server,       \* what the server knows of each identity
    boot,         \* where load_or_create_device is; "none" without a client
    memory,       \* the client's device
    loaded,       \* what load_or_create_device has read
    runner,       \* where the connection runner is
    conn,         \* the device that the connection presents
    events,       \* events that the update stream has not handled
    stream,       \* "idle", or "install" between load and write in the init
    fresh,        \* what that load has returned
    flow,         \* where the pairing flow is
    dev,          \* the device that the flow works with
    code,         \* pair_code_state is WaitingForPhoneConfirmation
    queued,       \* whose pair-device-sign a flow left in the command channel, or 0
    late,         \* rejections that streams of earlier clients still handle
    clients,      \* how many clients were made
    lost,         \* identities given up by the application or by a named cause
    rejected,     \* identities cleared because the server rejected them
    interrupted,  \* identities paired without storing their signed pre-key
    undercut      \* the row was cleared or overwritten under this client

storeVars == <<sqlite, row, signed>>
clientVars == <<boot, memory, loaded>>
linkVars == <<runner, conn>>
streamVars == <<events, stream, fresh, late>>
flowVars == <<flow, dev, code, queued>>
ghostVars == <<lost, rejected, interrupted, undercut>>
vars == <<storeVars, server, clientVars, linkVars, streamVars, flowVars, clients, ghostVars>>

Init ==
    /\ sqlite \in BOOLEAN
    /\ \/ row = NoDevice
       \/ sqlite /\ row = Device(1, TRUE)      \* linked by an earlier process
    /\ signed = row.id
    /\ server = [i \in Ids |-> IF i = row.id THEN "linked" ELSE "unknown"]
    /\ boot = "none" /\ memory = NoDevice /\ loaded = NoDevice
    /\ runner = "off" /\ conn = NoDevice
    /\ events = << >> /\ stream = "idle" /\ fresh = NoDevice /\ late = {}
    /\ flow = "none" /\ dev = NoDevice /\ code = FALSE /\ queued = 0
    /\ clients = 0
    /\ lost = {} /\ rejected = {} /\ interrupted = {} /\ undercut = FALSE

Linked(i) == i \in Ids /\ server[i] = "linked"

\* Device::new() makes keys that nobody else has, and gives the signed pre-key
\* of every device the same number.
Known ==
    {row.id, memory.id, loaded.id, conn.id, fresh.id, dev.id, signed, queued}
        \cup {i \in Ids : server[i] # "unknown"} \cup late \cup rejected \cup interrupted
CanMake == \E i \in Ids : i \notin Known
NewId == CHOOSE i \in Ids : i \notin Known

-----------------------------------------------------------------------------
(* The application makes a device and a client.                            *)

\* session.create(), as the examples call it before Client::connect: it makes
\* a device only if there is none.
Create ==
    /\ boot = "none" /\ row = NoDevice /\ CanMake
    /\ row' = Device(NewId, FALSE)
    /\ UNCHANGED <<sqlite, signed, server, clientVars, linkVars, streamVars, flowVars, clients, ghostVars>>

\* Client::connect: a fresh device in memory, the runner and the stream.
Connect ==
    /\ boot = "none" /\ CanMake
    /\ clients < MaxClients /\ clients' = clients + 1
    /\ boot' = "new" /\ memory' = Device(NewId, FALSE)
    /\ runner' = "start" /\ undercut' = FALSE
    /\ UNCHANGED <<storeVars, server, loaded, conn, streamVars, flowVars,
                   lost, rejected, interrupted>>

LoadDevice ==
    /\ boot = "new"
    /\ loaded' = row /\ boot' = "locking"
    /\ UNCHANGED <<storeVars, server, memory, linkVars, streamVars, flowVars, clients, ghostVars>>

\* Faulty variant: the fresh device is kept whatever was loaded.
InstallLoadedNever ==
    /\ boot = "locking"
    /\ boot' = "checking" /\ loaded' = NoDevice
    /\ UNCHANGED <<storeVars, server, memory, linkVars, streamVars, flowVars, clients, ghostVars>>

\* Faulty variant: the device that is installed is also saved, so that a
\* device that was made here is stored.
InstallLoadedSaving ==
    /\ boot = "locking"
    /\ memory' = IF loaded # NoDevice THEN loaded ELSE memory
    /\ row' = memory'
    /\ boot' = "checking" /\ loaded' = NoDevice
    /\ UNCHANGED <<sqlite, signed, server, linkVars, streamVars, flowVars, clients, ghostVars>>

\* The write guard is taken here and kept until load_or_create_device returns.
InstallLoaded ==
    /\ boot = "locking"
    /\ memory' = IF loaded # NoDevice THEN loaded ELSE memory
    /\ boot' = "checking" /\ loaded' = NoDevice
    /\ UNCHANGED <<storeVars, server, linkVars, streamVars, flowVars, clients, ghostVars>>

\* A signed pre-key under the number will do, whoever's it is.
CheckSigned ==
    /\ boot = "checking"
    /\ boot' = IF signed = 0 THEN "storing" ELSE "ready"
    /\ UNCHANGED <<storeVars, server, memory, loaded, linkVars, streamVars, flowVars, clients, ghostVars>>

StoreSigned ==
    /\ boot = "storing" /\ boot' = "ready"
    /\ signed' = memory.id
    /\ UNCHANGED <<sqlite, row, server, memory, loaded, linkVars, streamVars, flowVars, clients, ghostVars>>

\* The backend fails; the application calls load_or_create_device again.
BootFails ==
    /\ boot \in {"checking", "storing"} /\ boot' = "new"
    /\ UNCHANGED <<storeVars, server, memory, loaded, linkVars, streamVars, flowVars, clients, ghostVars>>

-----------------------------------------------------------------------------
(* The runner and the server.                                              *)

\* The rejections among the events.
Rejections == {events[n].id : n \in {m \in 1..Len(events) : events[m].kind = "loggedOut"}}

\* A confirmation that the stream has still to handle, and one that it will find
\* the waiting state for.
ConfirmHeld == \E n \in 1..Len(events) : events[n].kind = "confirm"
Confirming == code /\ ConfirmHeld

Publish(kind, i) == events' = Append(events, [kind |-> kind, id |-> i])
HasRoom == Len(events) < BusCapacity

\* Once it has linked the connection's companion, the server forces a new one.
IsUp == runner \in {"up", "restarting"}

\* connect_once reads the row; with no device stored it fails, and is tried
\* again after the backoff.
LoadForConnect ==
    /\ runner = "start" /\ row # NoDevice
    /\ conn' = row /\ runner' = "handshake"
    /\ UNCHANGED <<storeVars, server, clientVars, streamVars, flowVars, clients, ghostVars>>

HandshakeFails ==
    /\ runner = "handshake"
    /\ runner' = "start" /\ conn' = NoDevice
    /\ UNCHANGED <<storeVars, server, clientVars, streamVars, flowVars, clients, ghostVars>>

\* Faulty variant: Connected is published whether or not there is room.
HandshakeDoneUnbounded ==
    /\ runner = "handshake" /\ runner' = "up"
    /\ Publish("connected", conn.id)
    /\ UNCHANGED <<storeVars, server, clientVars, conn, stream, fresh, late, flowVars, clients, ghostVars>>

\* Connected is dropped when the bus is full (try_broadcast).
HandshakeDone ==
    /\ runner = "handshake" /\ runner' = "up"
    /\ IF HasRoom THEN Publish("connected", conn.id) ELSE UNCHANGED events
    /\ UNCHANGED <<storeVars, server, clientVars, conn, stream, fresh, late, flowVars, clients, ghostVars>>

\* A flow that still waits for its pair-success ends.
Unanswered == flow \in {"qr", "code", "confirmed"}
StopUnanswered ==
    IF Unanswered THEN flow' = "none" /\ dev' = NoDevice ELSE UNCHANGED <<flow, dev>>

\* The connection is lost or forced to be made again.  A flow that waits ends
\* with Disconnected, unless the full bus dropped it.
LinkLost ==
    /\ IsUp
    /\ runner' = "start" /\ conn' = NoDevice
    /\ IF HasRoom THEN StopUnanswered ELSE UNCHANGED <<flow, dev>>
    /\ UNCHANGED <<storeVars, server, clientVars, streamVars, code, queued, clients, ghostVars>>

\* A <failure> marks the connection as logged out, whatever its code, and the
\* runner stops when the server closes the stream; what is left in the command
\* channel goes with it.
Fail(kind) ==
    /\ IsUp /\ HasRoom
    /\ Publish(kind, conn.id)
    /\ runner' = "stopped" /\ conn' = NoDevice
    /\ StopUnanswered /\ queued' = 0
    /\ UNCHANGED <<storeVars, server, clientVars, stream, fresh, late, code, clients, ghostVars>>

\* A bare <failure>: the server does not know this companion any more.
ServerRejects == conn.paired /\ ~Linked(conn.id) /\ Fail("loggedOut")

\* Faulty variant: a <failure> with a code is taken for a bare one.
ServerRefusesBarely == Fail("loggedOut")

\* One with a code: a ban, an outdated client.
ServerRefuses == Fail("refused")

\* The user removes the companion on the phone.
PhoneRemoves(i) ==
    /\ Linked(i) /\ server' = [server EXCEPT ![i] = "removed"]
    /\ UNCHANGED <<storeVars, clientVars, linkVars, streamVars, flowVars, clients, ghostVars>>

-----------------------------------------------------------------------------
(* The update stream.                                                      *)

\* Connected: run_post_connect_init loads the row; a load that fails is only
\* logged.
StreamLoads ==
    /\ stream = "idle" /\ events # << >> /\ Head(events).kind = "connected"
    /\ events' = Tail(events)
    /\ fresh' \in {row, NoDevice}
    /\ stream' = IF fresh' = NoDevice THEN "idle" ELSE "install"
    /\ UNCHANGED <<storeVars, server, clientVars, linkVars, late, flowVars, clients, ghostVars>>

StreamInstalls ==
    /\ stream = "install" /\ boot \notin {"checking", "storing"}
    /\ memory' = fresh /\ fresh' = NoDevice /\ stream' = "idle"
    /\ UNCHANGED <<storeVars, server, boot, loaded, linkVars, events, late, flowVars, clients, ghostVars>>

\* A failure with a code is only shown to the application.
StreamShows ==
    /\ stream = "idle" /\ events # << >> /\ Head(events).kind = "refused"
    /\ events' = Tail(events)
    /\ UNCHANGED <<storeVars, server, clientVars, linkVars, stream, fresh, late, flowVars, clients, ghostVars>>

\* The linked companion in the row.
Stored == IF row.paired THEN {row.id} ELSE {}

\* clear_device empties the row of a SqliteSession; MemorySession leaves the
\* default, which does nothing.  The client's own device stays as it is.
Clear(spared) ==
    IF sqlite
    THEN /\ row' = NoDevice
         /\ lost' = lost \cup (Stored \ spared)
         /\ undercut' = (undercut \/ boot # "none")
    ELSE UNCHANGED <<row, lost, undercut>>

\* LoggedOut: the row is deleted, whichever device it holds by now.  A
\* deletion that fails is only logged.
ClearRejected(i) ==
    \/ Clear({i}) /\ rejected' = rejected \cup {i}
    \/ UNCHANGED <<row, undercut, lost, rejected>>

StreamClears ==
    /\ stream = "idle" /\ events # << >> /\ Head(events).kind = "loggedOut"
    /\ events' = Tail(events)
    /\ ClearRejected(Head(events).id)
    /\ UNCHANGED <<sqlite, signed, server, clientVars, linkVars, stream, fresh, late, flowVars,
                   clients, interrupted>>

\* The stream of a client that has been replaced.
LateClears(i) ==
    /\ i \in late /\ late' = late \ {i}
    /\ ClearRejected(i)
    /\ UNCHANGED <<sqlite, signed, server, clientVars, linkVars, events, stream, fresh, flowVars,
                   clients, interrupted>>

-----------------------------------------------------------------------------
(* The application.                                                        *)

\* Client::clear_device: the application gives the device up.
AppClears ==
    /\ boot = "ready" /\ Clear({})
    /\ UNCHANGED <<sqlite, signed, server, clientVars, linkVars, streamVars, flowVars, clients,
                   rejected, interrupted>>

\* logout: a client with a pn asks the server to remove the companion, which
\* may fail; it disconnects either way, as disconnect does, and the row stays.
Logout ==
    /\ boot = "ready" /\ IsUp
    /\ \/ /\ memory.paired /\ Linked(memory.id)
          /\ server' = [server EXCEPT ![memory.id] = "removed"]
       \/ UNCHANGED server
    /\ runner' = "stopped" /\ conn' = NoDevice
    /\ StopUnanswered /\ queued' = 0
    /\ UNCHANGED <<storeVars, clientVars, streamVars, code, clients, ghostVars>>

\* The runner has stopped and the application drops the client.  Nothing
\* comes on its bus any more, so a flow that waits for an answer ends.  An
\* application that pairs by code is taken to let the stream handle the phone's
\* confirmation first.
Drop ==
    /\ runner = "stopped" /\ boot = "ready" /\ ~Confirming
    /\ boot' = "none" /\ memory' = NoDevice /\ loaded' = NoDevice
    /\ runner' = "off"
    /\ late' = late \cup Rejections
    /\ events' = << >> /\ stream' = "idle" /\ fresh' = NoDevice
    /\ StopUnanswered /\ code' = FALSE
    /\ UNCHANGED <<storeVars, server, conn, queued, clients, ghostVars>>

\* The process ends and starts again.  A pairing on its way may have lost the
\* device or its signed pre-key; a MemorySession loses everything.
Crash ==
    /\ boot' = "none" /\ memory' = NoDevice /\ loaded' = NoDevice
    /\ runner' = "off" /\ conn' = NoDevice
    /\ events' = << >> /\ stream' = "idle" /\ fresh' = NoDevice /\ late' = {}
    /\ flow' = "none" /\ dev' = NoDevice /\ code' = FALSE /\ queued' = 0
    /\ row' = IF sqlite THEN row ELSE NoDevice
    /\ signed' = IF sqlite THEN signed ELSE 0
    /\ lost' = lost \cup (IF flow = "saving" THEN {dev.id} ELSE {})
                    \cup (IF sqlite THEN {} ELSE {i \in Ids : Linked(i)})
    /\ interrupted' = interrupted \cup (IF flow = "signing" THEN {dev.id} ELSE {})
    /\ UNCHANGED <<sqlite, server, clients, rejected, undercut>>

-----------------------------------------------------------------------------
(* Pairing.                                                                *)

\* The application pairs when is_authorized says no.  request_pairing loads
\* the row for the QR code; request_pair_code needs the server, and leaves the
\* state that waits for the phone.
RequestPairing(how) ==
    /\ boot = "ready" /\ flow = "none" /\ ~row.paired
    /\ IF how = "qr" THEN row # NoDevice ELSE IsUp
    /\ flow' = how
    /\ dev' = IF how = "qr" THEN row ELSE NoDevice
    /\ code' = (code \/ how = "code")
    /\ UNCHANGED <<storeVars, server, clientVars, linkVars, streamVars, queued, clients, ghostVars>>

Offered == boot = "ready" /\ runner = "up" /\ ~conn.paired

\* A code is typed on the phone: link_code_companion_reg comes in, whether or not
\* the flow or the client that asked for the code is still there.
PhoneConfirms ==
    /\ Offered /\ HasRoom /\ ~ConfirmHeld
    /\ Publish("confirm", conn.id)
    /\ UNCHANGED <<storeVars, server, clientVars, linkVars, stream, fresh, late, flowVars, clients, ghostVars>>

\* handle_pair_code_notification takes the waiting state, which nothing else
\* resets, and saves the client's device with its new secret over whatever the
\* row holds by now; a save that fails is only logged.  A flow that still waits
\* for this code goes on, unless the bundle or companion_finish fails.
PairCodeConfirmed ==
    /\ stream = "idle" /\ events # << >> /\ Head(events).kind = "confirm"
    /\ events' = Tail(events) /\ code' = FALSE
    /\ row' \in IF code THEN {row, memory} ELSE {row}
    /\ flow' \in {flow} \cup (IF code /\ flow = "code" THEN {"confirmed"} ELSE {})
    /\ lost' = lost \cup (IF row' = row THEN {} ELSE Stored)
    /\ undercut' = (undercut \/ (row' # row /\ row.paired))
    /\ UNCHANGED <<sqlite, signed, server, clientVars, linkVars, stream, fresh, late, dev, queued,
                   clients, rejected, interrupted>>

\* handle_pair_success: the device of the QR code, or the client's by now,
\* answers with pair-device-sign.  The server links it, or the link breaks first;
\* or the send fails, and the command may still be in the channel.
PairSuccess ==
    LET used == IF flow = "qr" THEN dev ELSE memory IN
    /\ Offered /\ flow \in {"qr", "confirmed"}
    /\ \/ /\ server' \in {server, [server EXCEPT ![used.id] = "linked"]}
          /\ flow' = "saving" /\ dev' = Device(used.id, TRUE)
          /\ runner' = "restarting" /\ UNCHANGED queued
       \/ /\ flow' = "none" /\ dev' = NoDevice
          /\ queued' \in {queued, used.id} /\ UNCHANGED <<server, runner>>
    /\ UNCHANGED <<storeVars, clientVars, conn, streamVars, code, clients, ghostVars>>

\* The runner writes it after the flow has given up; nobody saves the pairing.
QueuedSignSent ==
    /\ IsUp /\ ~conn.paired /\ queued # 0 /\ queued' = 0
    /\ \/ /\ ~Linked(queued) /\ runner' = "restarting"
          /\ server' = [server EXCEPT ![queued] = "linked"] /\ lost' = lost \cup {queued}
       \/ UNCHANGED <<server, runner, lost>>
    /\ UNCHANGED <<storeVars, clientVars, conn, streamVars, flow, dev, code, clients,
                   rejected, interrupted, undercut>>

SavePaired ==
    /\ flow = "saving"
    /\ \/ row' = dev /\ flow' = "signing" /\ UNCHANGED <<dev, lost>>
       \/ flow' = "none" /\ dev' = NoDevice /\ lost' = lost \cup {dev.id} /\ UNCHANGED row
    /\ UNCHANGED <<sqlite, signed, server, clientVars, linkVars, streamVars, code, queued, clients,
                   rejected, interrupted, undercut>>

\* Faulty variant: a record under the same number is left alone.
StorePairedKeyOnce ==
    /\ flow = "signing" /\ flow' = "none" /\ dev' = NoDevice
    /\ signed' = IF signed = 0 THEN dev.id ELSE signed
    /\ UNCHANGED <<sqlite, row, server, clientVars, linkVars, streamVars, code, queued, clients, ghostVars>>

\* The signed pre-key replaces the one under the same number.
StorePairedKey ==
    /\ flow = "signing" /\ flow' = "none" /\ dev' = NoDevice
    /\ \/ signed' = dev.id /\ UNCHANGED interrupted
       \/ interrupted' = interrupted \cup {dev.id} /\ UNCHANGED signed      \* failed
    /\ UNCHANGED <<sqlite, row, server, clientVars, linkVars, streamVars, code, queued, clients,
                   lost, rejected, undercut>>

\* The codes expire, or the application gives up.
PairingEnds ==
    /\ Unanswered /\ flow' = "none" /\ dev' = NoDevice
    /\ UNCHANGED <<storeVars, server, clientVars, linkVars, streamVars, code, queued, clients, ghostVars>>

-----------------------------------------------------------------------------

Next ==
    \/ Create \/ Connect \/ LoadDevice \/ InstallLoaded \/ CheckSigned \/ StoreSigned \/ BootFails
    \/ LoadForConnect \/ HandshakeFails \/ HandshakeDone \/ LinkLost
    \/ ServerRejects \/ ServerRefuses \/ \E i \in Ids : PhoneRemoves(i) \/ LateClears(i)
    \/ StreamLoads \/ StreamInstalls \/ StreamShows \/ StreamClears
    \/ AppClears \/ Logout \/ Drop \/ Crash
    \/ \E how \in {"qr", "code"} : RequestPairing(how)
    \/ PhoneConfirms \/ PairCodeConfirmed \/ PairSuccess \/ QueuedSignSent
    \/ SavePaired \/ StorePairedKey \/ PairingEnds

Spec == Init /\ [][Next]_vars

-----------------------------------------------------------------------------
(* Properties.                                                             *)

Events == [kind : {"connected", "loggedOut", "refused", "confirm"}, id : Ids]

\* The types of the store, the copies and the program counters.
TypeOK ==
    /\ sqlite \in BOOLEAN /\ row \in Devices
    /\ signed \in Ids \cup {0}
    /\ server \in [Ids -> {"unknown", "linked", "removed"}]
    /\ boot \in {"none", "new", "locking", "checking", "storing", "ready"}
    /\ memory \in Devices /\ loaded \in Devices
    /\ runner \in {"off", "start", "handshake", "up", "restarting", "stopped"}
    /\ conn \in Devices
    /\ events \in Seq(Events)
    /\ Len(events) <= BusCapacity
    /\ stream \in {"idle", "install"} /\ fresh \in Devices
    /\ flow \in {"none", "qr", "code", "confirmed", "saving", "signing"}
    /\ dev \in Devices /\ code \in BOOLEAN /\ queued \in Ids \cup {0}
    /\ late \subseteq Ids /\ clients \in 0..MaxClients
    /\ lost \subseteq Ids /\ rejected \subseteq Ids /\ interrupted \subseteq Ids
    /\ undercut \in BOOLEAN

\* The parts of the invariant.  Unpaired(x): x is a device without a pn.
Unpaired(x) == x # NoDevice /\ ~x.paired
Copies == {memory, loaded, fresh}
Pending == late \cup Rejections
Gone == Pending \cup rejected
Pairs == flow \in {"saving", "signing"}

\* What is there without a client, and what the flow works with.
ShapeInv ==
    /\ boot = "none" =>
          /\ memory = NoDevice /\ conn = NoDevice /\ fresh = NoDevice
          /\ events = << >> /\ runner = "off"
    /\ (boot # "none" => memory # NoDevice) /\ (loaded # NoDevice => boot = "locking")
    /\ stream = "install" <=> fresh # NoDevice
    /\ IsUp \/ runner = "handshake" <=> conn # NoDevice
    /\ (Unanswered \/ code => boot = "ready") /\ (runner \in {"off", "stopped"} => queued = 0)
    /\ (Pairs => dev.paired) /\ (flow = "qr" => Unpaired(dev))

\* A rejection is the last event of its client.
RejectedLast == \A n \in 1..Len(events) : events[n].kind = "loggedOut" => n = Len(events)

\* A flow that has not saved its device works on an unpaired row, or on one
\* that it has brought back.
FlowInv ==
    /\ flow = "qr" \/ (flow = "code" /\ code) => ~row.paired
    /\ flow = "confirmed" =>
          /\ row.paired => memory = row /\ row.id \in lost /\ (fresh # NoDevice => fresh = row)
          /\ fresh.paired => fresh.id = memory.id
    /\ Pairs /\ row.paired => row.id = dev.id
    /\ flow = "saving" /\ row.paired => row.id \in lost

\* No unpaired copy that may still be used is of a device that was rejected,
\* and paired copies come from a row that is or was paired.
CopyInv ==
    /\ conn.paired /\ Unpaired(row) /\ row.id = conn.id => row.id \in lost
    /\ Rejections # {} => runner = "stopped"
    /\ Unpaired(row) => row.id \notin Gone \ lost /\ \A x \in Copies : ~x.paired
    /\ flow = "qr" => dev.id \notin Gone \ lost /\ \A x \in Copies : ~x.paired
    /\ runner # "stopped" => \A x \in Copies : Unpaired(x) => x.id \notin Gone \ lost

\* What a client that can still pair may bring back was given up before.
LostInv ==
    /\ flow = "saving" /\ (dev.id \in Gone \/ conn = dev) => dev.id \in lost
    /\ Unpaired(conn) =>
          /\ \A x \in Copies : x.paired => x = row \/ x.id \in lost
          /\ row.paired /\ row.id \in Pending => row.id \in lost
    /\ \A i \in Pending : Linked(i) => i \in lost

\* A signed pre-key is stored before a flow begins, and stays with what may
\* still be brought back.
Served(i) == signed = i \/ i \in interrupted \/ (flow = "signing" /\ dev.id = i)

KeyInv ==
    /\ boot = "ready" \/ flow # "none" => signed # 0
    /\ boot = "storing" => signed = 0
    /\ Unpaired(conn) => \A x \in Copies : x.paired => x = row \/ Served(x.id)
    /\ Unpaired(conn) /\ Pairs => \A x \in Copies : x.paired => x.id = dev.id

\* What a confirmation that is handled late may bring back was given up before,
\* or is what the row holds.
ConfirmInv ==
    ConfirmHeld =>
        /\ \A x \in Copies : x.paired =>
              x = row \/ (x.id \in lost /\ Served(x.id))
        /\ Pairs => \A x \in Copies : x.paired => x.id = dev.id
        /\ row.paired /\ row.id \in late => row.id \in lost
        /\ \A x \in Copies : Unpaired(x) /\ x.id \notin lost =>
              /\ x.id \notin late \cup rejected
              /\ x.id \in Rejections \/ (conn.paired /\ conn.id = x.id) => row.paired /\ row.id = x.id

\* Until the device is cleared or overwritten under the client, it works with
\* the row.
ClientInv ==
    boot # "none" /\ ~undercut =>
        /\ row = NoDevice => conn = NoDevice /\ loaded = NoDevice /\ fresh = NoDevice /\ ~code
        /\ Unpaired(row) =>
              /\ conn \in {NoDevice, row} /\ fresh \in {NoDevice, row}
              /\ boot = "locking" => loaded = row
              /\ boot \in {"checking", "storing", "ready"} => memory = row
              /\ flow = "qr" => dev = row
              /\ queued \in {0, row.id}
        /\ flow = "confirmed" => ~row.paired
        /\ Unpaired(conn) => queued \in {0, conn.id}

\* A companion that the server has linked is not lost by the client: its
\* paired device is stored, or about to be, unless the application cleared
\* it, its save failed or was cut off, its pair-device-sign was written after
\* the flow had given it up, a confirmation of a pair code saved the client's
\* older copy over it, a MemorySession went with its process, or the rejection
\* of another device was handled late.
LinkedIsKept ==
    \A i \in Ids : Linked(i) =>
        row = Device(i, TRUE) \/ (flow = "saving" /\ dev.id = i) \/ i \in lost

\* A device that the server has rejected and that was cleared does not come
\* back: no reload, no save of a copy in memory brings it into the row of a
\* SqliteSession again.  Only one that was given up before it was rejected may
\* (lost): a flow or a confirmation may still save its copy of that one.
RejectedStaysOut == sqlite => row.id \notin rejected \ lost

\* The device that is linked is the one that the connection presented in its
\* handshake, although the flow takes it from the row or from memory, and the
\* answer may be written on a later connection; unless the row was cleared or
\* overwritten under the client that pairs.
PairsTheConnected ==
    [][\A i \in Ids : ~Linked(i) /\ Linked(i)' => i = conn.id \/ undercut]_vars

\* The signed pre-key that peers of a paired device use is the one that is
\* stored, although devices share its number; unless the pairing
\* was cut off between saving the device and storing the key.
SignedKeyServes ==
    row.paired /\ ~(flow = "signing" /\ dev.id = row.id) =>
        signed = row.id \/ row.id \in interrupted

DeviceInv ==
    /\ TypeOK /\ ShapeInv /\ RejectedLast
    /\ FlowInv /\ CopyInv /\ LostInv /\ KeyInv /\ ConfirmInv /\ ClientInv

=============================================================================
