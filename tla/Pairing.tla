------------------------------ MODULE Pairing ------------------------------
(***************************************************************************)
(* Linking the client to a phone: the QR flow (request_pairing), the pair- *)
(* code flow (request_pair_code), the update stream that runs beside them, *)
(* and the three copies of the device they share: the session backend, the *)
(* client's RwLock<Device>, and the clone a flow works on.                 *)
(*                                                                         *)
(* After a pair-success the server waits for the pair-device-sign answer,  *)
(* then forces a reconnect (stream:error 515 and a dropped link).  The     *)
(* flows raise post_pair_reconnect so that the update stream hides this    *)
(* from the application.  Flows and stream are tasks that read the same    *)
(* broadcast bus, each at its own pace.                                    *)
(***************************************************************************)
EXTENDS Naturals, Sequences, FiniteSets

CONSTANTS
    QrFlows,      \* the calls of request_pairing
    CodeFlows,    \* the calls of request_pair_code
    Stream,       \* the update stream, as a receiver of the bus
    Adv0,         \* the ADV secret the device was created with
    Junk,         \* a secret derived from keys of two codes: no phone holds it
    None,         \* no flow, no secret
    BusCapacity,  \* capacity of the broadcast bus
    Drops         \* Bound: how often the link drops of itself

Flows == QrFlows \cup CodeFlows
Receivers == Flows \cup {Stream}

\* A confirmed pair code rotates the ADV secret; the flow names the new one.
Advs == {Adv0, Junk} \cup CodeFlows
Devices == [paired : BOOLEAN, adv : Advs]

ASSUME PairingAssumption ==
    /\ QrFlows \cap CodeFlows = {} /\ IsFiniteSet(Flows)
    /\ Stream \notin Flows /\ None \notin Flows /\ Adv0 \notin Flows /\ Junk \notin Flows
    /\ None \notin {Adv0, Junk} /\ Adv0 # Junk
    /\ None \notin Devices /\ {"idle", "completed"} \cap CodeFlows = {}
    /\ BusCapacity \in Nat \ {0} /\ Drops \in Nat

VARIABLES
    prompt,     \* whether tasks keep up with the server's timing (TasksKeepUp); fixed
    conn,       \* "up" while the connection layer holds a connection
    linked,     \* the server's view of this companion
    linkedAdv,  \* the secret under which the server has linked it
    offered,    \* the server has sent pair-device on this connection
    server,     \* per flow, how far the server and the phone are with it
    drops,      \* how often the link has dropped of itself
    queue,      \* per receiver of the bus, the events it has yet to read
    listening,  \* the active receivers of the bus
    streamPc,   \* where run_update_stream is
    silent,     \* the Connected being handled is hidden from the application
    fresh,      \* the device that run_post_connect_init or the pair-code handler holds,
                \* None if the last load failed
    flag,       \* post_pair_reconnect
    codeState,  \* pair_code_state: the waiting flow, "idle" or "completed"
    memory,     \* ClientInner::device
    backend,    \* the device in the session backend
    flow,       \* per flow, where it is
    dev,        \* per flow, its own clone of the device
    pairAdv,    \* per flow, the secret its pair-success was signed under
    queued,     \* pair-device-sign nodes given up on but still in the command channel
    shown       \* the last link update the application was given

serverVars == <<linked, linkedAdv, offered, server>>
busVars == <<queue, listening>>
streamVars == <<streamPc, silent, fresh, codeState, memory, shown>>
flowVars == <<flow, dev, pairAdv, queued>>
vars == <<prompt, conn, serverVars, drops, busVars, streamVars, flag, backend, flowVars>>

Event(kind, arg) == [kind |-> kind, arg |-> arg]
Ended == {"done", "failed", "refused"}      \* refused: companion_hello failed
Unasked == {"idle", "hello", "storing", "refused"}
Wanted == {"hello", "confirmed", "finish"}

Init ==
    /\ prompt \in BOOLEAN
    /\ conn = "down" /\ linked = "no" /\ linkedAdv = None /\ offered = FALSE
    /\ server = [f \in Flows |-> "none"]
    /\ drops = 0
    /\ queue = [r \in Receivers |-> << >>] /\ listening = {Stream}
    /\ streamPc = "idle" /\ silent = FALSE /\ flag = FALSE /\ codeState = "idle"
    /\ memory = [paired |-> FALSE, adv |-> Adv0]
    /\ backend = memory /\ fresh = memory
    /\ flow = [f \in Flows |-> "idle"]
    /\ dev = [f \in Flows |-> memory]
    /\ pairAdv = [f \in Flows |-> None]
    /\ queued = {} /\ shown = "none"

-----------------------------------------------------------------------------
(* The bus: a node waits for room (broadcast), every other event is lost   *)
(* when a receiver lags by the whole capacity (try_broadcast).             *)

Room == \A r \in listening : Len(queue[r]) < BusCapacity

Delivered(event) ==
    [r \in Receivers |-> IF r \in listening THEN Append(queue[r], event) ELSE queue[r]]

Publish(event) == Room /\ queue' = Delivered(event)

TryPublish(event) == queue' = IF Room THEN Delivered(event) ELSE queue

Next1(r) == queue[r] # << >> /\ queue' = [queue EXCEPT ![r] = Tail(@)]

\* A flow that returns drops its receiver.
Leave(f, outcome) ==
    /\ flow' = [flow EXCEPT ![f] = outcome]
    /\ listening' = listening \ {f}
    /\ queue' = [queue EXCEPT ![f] = << >>]

\* Timing the code counts on ("~600ms after pair-success", a backoff of at
\* least two seconds, a person typing or scanning): whatever the server or the
\* network times comes after the tasks have read what they have.
TasksKeepUp ==
    prompt => /\ \A r \in Receivers : queue[r] = << >>
              /\ streamPc = "idle"
              /\ \A f \in Flows : flow[f] \notin {"storing", "spawned", "cloning", "saving"}

-----------------------------------------------------------------------------
(* The connection, the server and the phone.                               *)

Connect ==
    /\ conn = "down" /\ TasksKeepUp
    /\ conn' = "up" /\ offered' = FALSE
    /\ linked' = IF linked = "dropped" THEN "settled" ELSE linked
    /\ TryPublish(Event("connected", None))
    /\ UNCHANGED <<linkedAdv, server, drops, listening, streamVars, flag, backend, flowVars>>

\* The server closes the connection of a companion it has just linked.
ForcedDrop ==
    /\ conn = "up" /\ linked \in {"forcing", "ending"} /\ TasksKeepUp
    /\ conn' = "down" /\ linked' = "dropped"
    /\ TryPublish(Event("forced", None))
    /\ UNCHANGED <<linkedAdv, offered, server, drops, listening, streamVars, flag, backend, flowVars>>

\* Any other loss of the link.  If prompt, it does not hit a pairing.
Drop ==
    /\ conn = "up" /\ drops < Drops /\ linked \in {"no", "settled"}
    /\ prompt => linked = "settled" /\ \A f \in Flows : flow[f] \in Ended \cup {"idle", "uploading"}
    /\ conn' = "down" /\ drops' = drops + 1
    /\ TryPublish(Event("lost", None))
    /\ UNCHANGED <<serverVars, listening, streamVars, flag, backend, flowVars>>

FromServer == UNCHANGED <<conn, linkedAdv, drops, listening, streamVars, flag, backend, flowVars>>

SendPairDevice ==
    /\ conn = "up" /\ linked = "no" /\ ~offered
    /\ offered' = TRUE
    /\ Publish(Event("pairDevice", None))
    /\ UNCHANGED <<linked, server>> /\ FromServer

\* The phone confirms one link only.
Unlinked == conn = "up" /\ linked = "no" /\ \A f \in Flows : server[f] # "success"

\* The phone scans the QR code of f, which holds the secret of dev[f].
UserScans(f) ==
    /\ Unlinked /\ TasksKeepUp
    /\ flow[f] = "rotating" /\ server[f] = "none"
    /\ server' = [server EXCEPT ![f] = "success"]
    /\ Publish(Event("pairSuccess", dev[f].adv))
    /\ UNCHANGED <<linked, offered>> /\ FromServer

\* companion_hello reaches the server, on time or after send_iq has given up on
\* it: the latest request counts.  The answer reaches the call, or comes too late.
HelloArrives(f) ==
    /\ conn = "up" /\ server[f] = "sent"
    /\ server' = [g \in Flows |-> IF g = f THEN "hello"
                                   ELSE IF server[g] \in Wanted THEN "none" ELSE server[g]]
    /\ \/ flow[f] = "hello" /\ flow' = [flow EXCEPT ![f] = "storing"]
       \/ UNCHANGED flow
    /\ UNCHANGED <<conn, linked, linkedAdv, offered, drops, busVars, streamVars, flag, backend,
                   dev, pairAdv, queued>>

\* The user types the code of f, which request_pair_code has returned, into the
\* phone, which works on the request of f.
UserConfirms(f) ==
    /\ Unlinked /\ TasksKeepUp
    /\ server[f] = "hello" /\ flow[f] \notin Unasked
    /\ server' = [server EXCEPT ![f] = "confirmed"]
    /\ Publish(Event("confirm", f))
    /\ UNCHANGED <<linked, offered>> /\ FromServer

\* The phone works on the request of f, but the code typed is that of another: it
\* reads our key wrongly, and its own key leads us to a secret it does not share.
UserMistypes(f) ==
    /\ Unlinked /\ TasksKeepUp
    /\ server[f] = "hello" /\ \E g \in CodeFlows \ {f} : flow[g] \notin Unasked
    /\ Publish(Event("confirm", Junk))
    /\ UNCHANGED <<server, linked, offered>> /\ FromServer

\* The phone has accepted companion_finish.
SendPairSuccess(f) ==
    /\ Unlinked /\ TasksKeepUp
    /\ server[f] = "finish"
    /\ server' = [server EXCEPT ![f] = "success"]
    /\ Publish(Event("pairSuccess", f))
    /\ UNCHANGED <<linked, offered>> /\ FromServer

SendStreamError ==
    /\ conn = "up" /\ linked = "forcing" /\ TasksKeepUp
    /\ linked' = "ending"
    /\ Publish(Event("streamError", None))
    /\ UNCHANGED <<offered, server>> /\ FromServer

\* pair-device-sign reaches the server.
Link(f) ==
    /\ linked' = IF linked = "no" THEN "forcing" ELSE linked
    /\ linkedAdv' = IF linked = "no" THEN pairAdv[f] ELSE linkedAdv

\* A command that send_node gave up on is still written (see Connection).
QueuedSignSent(f) ==
    /\ conn = "up" /\ f \in queued
    /\ queued' = queued \ {f}
    /\ Link(f)
    /\ UNCHANGED <<conn, offered, server, drops, busVars, streamVars, flag, backend,
                   flow, dev, pairAdv>>

-----------------------------------------------------------------------------
(* run_update_stream.                                                      *)

FromStream == UNCHANGED <<conn, linked, linkedAdv, offered, drops, listening, flowVars>>

\* Faulty variant: a Connected is never hidden.
HandleConnectedLoudly ==
    /\ streamPc = "idle" /\ queue[Stream] # << >> /\ Head(queue[Stream]).kind = "connected"
    /\ Next1(Stream)
    /\ silent' = FALSE /\ shown' = "connected"
    /\ streamPc' = "load"
    /\ UNCHANGED <<server, fresh, codeState, memory, flag, backend>> /\ FromStream

HandleConnected ==
    /\ streamPc = "idle" /\ queue[Stream] # << >> /\ Head(queue[Stream]).kind = "connected"
    /\ Next1(Stream)
    /\ silent' = flag
    /\ shown' = IF flag THEN shown ELSE "connected"
    /\ streamPc' = "load"
    /\ UNCHANGED <<server, fresh, codeState, memory, flag, backend>> /\ FromStream

HandleDisconnected ==
    /\ streamPc = "idle" /\ queue[Stream] # << >>
    /\ Head(queue[Stream]).kind \in {"lost", "forced"}
    /\ Next1(Stream)
    /\ shown' = IF flag THEN shown ELSE "disconnected"
    /\ UNCHANGED <<server, streamPc, silent, fresh, codeState, memory, flag, backend>> /\ FromStream

\* stream:error 515 becomes a ConnectFailure.
HandleStreamError ==
    /\ streamPc = "idle" /\ queue[Stream] # << >> /\ Head(queue[Stream]).kind = "streamError"
    /\ Next1(Stream)
    /\ shown' = IF flag THEN shown ELSE "connectFailure"
    /\ UNCHANGED <<server, streamPc, silent, fresh, codeState, memory, flag, backend>> /\ FromStream

\* The pairing nodes are the business of the flows.
IgnoreNode ==
    /\ streamPc = "idle" /\ queue[Stream] # << >>
    /\ Head(queue[Stream]).kind \in {"pairDevice", "pairSuccess"}
    /\ Next1(Stream)
    /\ UNCHANGED <<server, streamVars, flag, backend>> /\ FromStream

\* run_post_connect_init: load the backend's device, install it in the
\* RwLock, run the start-up IQs; then, in the silent case, lower the flag.  A
\* load that fails is only logged.
LoadDevice ==
    /\ streamPc = "load"
    /\ \/ fresh' = backend /\ streamPc' = "install"
       \/ fresh' = None /\ streamPc' = "iqs"
    /\ UNCHANGED <<server, silent, codeState, memory, shown, queue, flag, backend>> /\ FromStream

\* Faulty variant: the loaded device is used but not installed.
InstallNothing ==
    /\ streamPc = "install"
    /\ streamPc' = "iqs"
    /\ UNCHANGED <<server, memory, silent, fresh, codeState, shown, queue, flag, backend>> /\ FromStream

InstallDevice ==
    /\ streamPc = "install"
    /\ memory' = fresh /\ streamPc' = "iqs"
    /\ UNCHANGED <<server, silent, fresh, codeState, shown, queue, flag, backend>> /\ FromStream

\* Faulty variant: the flag stays up.
FinishInitForgetting ==
    /\ streamPc = "iqs" /\ streamPc' = "idle"
    /\ UNCHANGED <<server, flag, silent, fresh, codeState, memory, shown, queue, backend>> /\ FromStream

FinishInit ==
    /\ streamPc = "iqs" /\ streamPc' = "idle"
    /\ flag' = (flag /\ ~silent)
    /\ UNCHANGED <<server, silent, fresh, codeState, memory, shown, queue, backend>> /\ FromStream

\* The secret that comes of unwrapping the phone's key with the code of f: the
\* cipher has no tag, so a key wrapped under another code gives junk, not an error.
Unwrapped(f, wrapped) == IF wrapped = f THEN f ELSE Junk

\* Faulty variant: the state is looked at, not taken.
HandleConfirmPeeking ==
    /\ streamPc = "idle" /\ queue[Stream] # << >> /\ Head(queue[Stream]).kind = "confirm"
    /\ Next1(Stream)
    /\ IF codeState \in CodeFlows
       THEN /\ memory' = [memory EXCEPT !.adv = Unwrapped(codeState, Head(queue[Stream]).arg)]
            /\ fresh' = memory' /\ streamPc' = "saveAdv"
       ELSE UNCHANGED <<memory, fresh, streamPc>>
    /\ UNCHANGED <<codeState, server, silent, shown, flag, backend>> /\ FromStream

\* handle_pair_code_notification: the state is taken whatever comes of it; in the
\* waiting state the secret is rotated, to one that the phone shares or to junk.
HandleConfirm ==
    /\ streamPc = "idle" /\ queue[Stream] # << >> /\ Head(queue[Stream]).kind = "confirm"
    /\ Next1(Stream)
    /\ codeState' = "idle"
    /\ IF codeState \in CodeFlows
       THEN /\ memory' = [memory EXCEPT !.adv = Unwrapped(codeState, Head(queue[Stream]).arg)]
            /\ fresh' = memory' /\ streamPc' = "saveAdv"
       ELSE UNCHANGED <<memory, fresh, streamPc>>
    /\ UNCHANGED <<server, silent, shown, flag, backend>> /\ FromStream

\* The clone taken under the lock is saved after the lock is released, and
\* only then is companion_finish sent; a save that fails is only logged.
SaveAdv ==
    /\ streamPc = "saveAdv" /\ streamPc' = "sendFinish"
    /\ backend' \in {fresh, backend}
    /\ UNCHANGED <<server, silent, fresh, codeState, memory, shown, queue, flag>> /\ FromStream

\* companion_finish reaches the server, or is lost.  It counts if it is for the
\* request the server waits on and its bundle is sealed with a secret the phone has.
Finish ==
    \/ UNCHANGED server
    \/ /\ fresh.adv \in CodeFlows /\ server[fresh.adv] = "confirmed"
       /\ server' = [server EXCEPT ![fresh.adv] = "finish"]

\* Faulty variant: once companion_finish is out, the clone is saved again.
SendFinishThenSave ==
    /\ streamPc = "sendFinish" /\ streamPc' = "saveAdv"
    /\ Finish
    /\ codeState' = "completed"
    /\ UNCHANGED <<silent, fresh, memory, shown, queue, flag, backend>> /\ FromStream

\* A send that fails may have left the node in the command channel, from where it
\* is still written; the state is then left as it is.
SendFinish ==
    /\ streamPc = "sendFinish" /\ streamPc' = "idle"
    /\ Finish
    /\ \/ conn = "up" /\ codeState' = "completed"
       \/ UNCHANGED codeState
    /\ UNCHANGED <<silent, fresh, memory, shown, queue, flag, backend>> /\ FromStream

-----------------------------------------------------------------------------
(* The flows.                                                              *)

FromFlow == UNCHANGED <<conn, offered, drops, streamPc, silent, fresh, memory, shown>>

\* The application links by QR codes or by pair codes, not by both at once.
OneMethod(f) == \A g \in Flows : flow[g] # "idle" => (g \in QrFlows <=> f \in QrFlows)

\* request_pairing: load the device, subscribe, spawn run_qr_pairing.
RequestPairing(f) ==
    /\ flow[f] = "idle" /\ OneMethod(f)
    /\ flow' = [flow EXCEPT ![f] = "waitRefs"]
    /\ dev' = [dev EXCEPT ![f] = backend]
    /\ listening' = listening \cup {f}
    /\ UNCHANGED <<queue, linked, linkedAdv, server, codeState, flag, backend, pairAdv, queued>> /\ FromFlow

\* request_pair_code: companion_hello goes into the command channel.
RequestPairCode(f) ==
    /\ flow[f] = "idle" /\ OneMethod(f)
    /\ flow' = [flow EXCEPT ![f] = "hello"]
    /\ server' = [server EXCEPT ![f] = "sent"]
    /\ UNCHANGED <<busVars, linked, linkedAdv, codeState, flag, backend, dev, pairAdv, queued>> /\ FromFlow

\* The deadline, a lost link or an error of the server: the call returns the
\* error, and nothing takes the hello back.
HelloFails(f) ==
    /\ flow[f] = "hello"
    /\ flow' = [flow EXCEPT ![f] = "refused"]
    /\ UNCHANGED <<busVars, server, linked, linkedAdv, codeState, flag, backend, dev, pairAdv, queued>> /\ FromFlow

\* The answer is in: the waiting state replaces whatever is there, the task is
\* spawned, and the application is given the code.
StoreCode(f) ==
    /\ flow[f] = "storing"
    /\ codeState' = f
    /\ flow' = [flow EXCEPT ![f] = "spawned"]
    /\ UNCHANGED <<busVars, server, linked, linkedAdv, flag, backend, dev, pairAdv, queued>> /\ FromFlow

\* The spawned task subscribes when it first runs.
TaskStarts(f) ==
    /\ flow[f] = "spawned"
    /\ flow' = [flow EXCEPT ![f] = "waiting"]
    /\ listening' = listening \cup {f}
    /\ UNCHANGED <<queue, linked, linkedAdv, server, codeState, flag, backend, dev, pairAdv, queued>> /\ FromFlow

\* Faulty variant: the flag is raised only once the answer is out.
ReadEventFlagLate(f) ==
    /\ flow[f] \in {"waitRefs", "rotating", "waiting"} /\ queue[f] # << >>
    /\ LET e == Head(queue[f]) IN
       \/ /\ e.kind \in {"lost", "forced"}
          /\ Leave(f, "failed") /\ UNCHANGED <<flag, pairAdv>>
       \/ /\ e.kind = "pairSuccess" /\ flow[f] # "waitRefs"
          /\ Next1(f) /\ UNCHANGED flag
          /\ flow' = [flow EXCEPT ![f] = IF f \in QrFlows THEN "responding" ELSE "cloning"]
          /\ pairAdv' = [pairAdv EXCEPT ![f] = e.arg]
          /\ UNCHANGED listening
       \/ /\ e.kind \notin {"lost", "forced"} /\ (e.kind = "pairSuccess" => flow[f] = "waitRefs")
          /\ Next1(f)
          /\ flow' = IF flow[f] = "waitRefs" /\ e.kind = "pairDevice"
                     THEN [flow EXCEPT ![f] = "rotating"] ELSE flow
          /\ UNCHANGED <<listening, flag, pairAdv>>
    /\ UNCHANGED <<linked, linkedAdv, server, codeState, backend, dev, queued>> /\ FromFlow

\* The receive loops of run_qr_pairing and of the pair-code task.
ReadEvent(f) ==
    /\ flow[f] \in {"waitRefs", "rotating", "waiting"} /\ queue[f] # << >>
    /\ LET e == Head(queue[f]) IN
       \/ /\ e.kind \in {"lost", "forced"}
          /\ Leave(f, "failed") /\ UNCHANGED <<flag, pairAdv>>
       \/ /\ e.kind = "pairSuccess" /\ flow[f] # "waitRefs"
          /\ Next1(f) /\ flag' = TRUE
          /\ flow' = [flow EXCEPT ![f] = IF f \in QrFlows THEN "responding" ELSE "cloning"]
          /\ pairAdv' = [pairAdv EXCEPT ![f] = e.arg]
          /\ UNCHANGED listening
       \/ /\ e.kind \notin {"lost", "forced"} /\ (e.kind = "pairSuccess" => flow[f] = "waitRefs")
          /\ Next1(f)
          /\ flow' = IF flow[f] = "waitRefs" /\ e.kind = "pairDevice"
                     THEN [flow EXCEPT ![f] = "rotating"] ELSE flow
          /\ UNCHANGED <<listening, flag, pairAdv>>
    /\ UNCHANGED <<linked, linkedAdv, server, codeState, backend, dev, queued>> /\ FromFlow

\* The codes expire, the application drops the stream, or is_already_paired.
QrEnds(f) ==
    /\ f \in QrFlows /\ flow[f] = "rotating"
    /\ Leave(f, "done")
    /\ UNCHANGED <<linked, linkedAdv, server, codeState, flag, backend, dev, pairAdv, queued>> /\ FromFlow

CloneDevice(f) ==
    /\ flow[f] = "cloning"
    /\ flow' = [flow EXCEPT ![f] = "responding"]
    /\ dev' = [dev EXCEPT ![f] = memory]
    /\ UNCHANGED <<busVars, linked, linkedAdv, server, codeState, flag, backend, pairAdv, queued>> /\ FromFlow

\* Faulty variant: the signature of the pair-success is not checked.
RespondTrusting(f) ==
    /\ flow[f] = "responding"
    /\ \/ /\ conn = "up"
          /\ flow' = [flow EXCEPT ![f] = "saving"]
          /\ Link(f)
          /\ UNCHANGED <<busVars, flag, queued>>
       \/ /\ Leave(f, "failed") /\ flag' = FALSE
          /\ queued' \in {queued, queued \cup {f}}
          /\ UNCHANGED <<linked, linkedAdv>>
    /\ UNCHANGED <<server, codeState, backend, dev, pairAdv>> /\ FromFlow

\* handle_pair_success, first half: do_pair_crypto, then pair-device-sign.
Respond(f) ==
    /\ flow[f] = "responding"
    /\ \/ /\ conn = "up" /\ pairAdv[f] = dev[f].adv
          /\ flow' = [flow EXCEPT ![f] = "saving"]
          /\ \/ Link(f)
             \/ ~prompt /\ UNCHANGED <<linked, linkedAdv>>      \* lost with the link
          /\ UNCHANGED <<busVars, flag, queued>>
       \/ /\ Leave(f, "failed") /\ flag' = FALSE
          /\ queued' \in {queued, IF pairAdv[f] = dev[f].adv THEN queued \cup {f} ELSE queued}
          /\ UNCHANGED <<linked, linkedAdv>>
    /\ UNCHANGED <<server, codeState, backend, dev, pairAdv>> /\ FromFlow

\* Faulty variant: the device is saved as it was before the pairing.
SaveUnpaired(f) ==
    /\ flow[f] = "saving"
    /\ backend' = dev[f]
    /\ flow' = [flow EXCEPT ![f] = "uploading"]
    /\ UNCHANGED <<flag, busVars, linked, linkedAdv, server, codeState, dev, pairAdv, queued>> /\ FromFlow

\* Second half: save the paired device, then its signed pre-key.
Save(f) ==
    /\ flow[f] = "saving"
    /\ \/ /\ backend' = [dev[f] EXCEPT !.paired = TRUE]
          /\ flow' = [flow EXCEPT ![f] = "uploading"]
          /\ UNCHANGED <<flag, busVars>>
       \/ /\ Leave(f, "failed") /\ flag' = FALSE
          /\ \/ UNCHANGED backend                            \* session.save failed
             \/ backend' = [dev[f] EXCEPT !.paired = TRUE]    \* store_signed_prekey failed
    /\ UNCHANGED <<linked, linkedAdv, server, codeState, dev, pairAdv, queued>> /\ FromFlow

\* The pre-key upload and the active IQ are best effort.
FinishFlow(f) ==
    /\ flow[f] = "uploading"
    /\ Leave(f, "done")
    /\ UNCHANGED <<linked, linkedAdv, server, codeState, flag, backend, dev, pairAdv, queued>> /\ FromFlow

-----------------------------------------------------------------------------

StreamNext ==
    \/ HandleConnected \/ HandleDisconnected \/ HandleStreamError \/ IgnoreNode
    \/ LoadDevice \/ InstallDevice \/ FinishInit
    \/ HandleConfirm \/ SaveAdv \/ SendFinish

ServerNext ==
    \/ SendPairDevice \/ SendStreamError \/ ForcedDrop
    \/ \E f \in QrFlows : UserScans(f)
    \/ \E f \in CodeFlows : HelloArrives(f) \/ UserConfirms(f) \/ UserMistypes(f) \/ SendPairSuccess(f)
    \/ \E f \in Flows : QueuedSignSent(f)

FlowNext ==
    \/ \E f \in QrFlows : RequestPairing(f) \/ QrEnds(f)
    \/ \E f \in CodeFlows : \/ RequestPairCode(f) \/ HelloFails(f) \/ StoreCode(f)
                              \/ TaskStarts(f) \/ CloneDevice(f)
    \/ \E f \in Flows : ReadEvent(f) \/ Respond(f) \/ Save(f) \/ FinishFlow(f)

Next ==
    /\ UNCHANGED prompt
    /\ Connect \/ Drop \/ ServerNext \/ StreamNext \/ FlowNext

Spec == Init /\ [][Next]_vars

-----------------------------------------------------------------------------
(* Properties.                                                             *)

Kinds == {"connected", "lost", "forced", "pairDevice", "pairSuccess", "confirm", "streamError"}

ServerStates == {"none", "sent", "hello", "confirmed", "finish", "success"}
FlowStates == {"idle", "waitRefs", "rotating", "hello", "storing", "spawned", "waiting",
               "cloning", "responding", "saving", "uploading"} \cup Ended

\* The types of the fields, channels and local variables.
TypeOK ==
    /\ prompt \in BOOLEAN /\ conn \in {"up", "down"}
    /\ linked \in {"no", "forcing", "ending", "dropped", "settled"}
    /\ linkedAdv \in Advs \cup {None} /\ offered \in BOOLEAN
    /\ server \in [Flows -> ServerStates]
    /\ drops \in 0..Drops
    /\ queue \in [Receivers -> Seq([kind : Kinds, arg : Advs \cup {None}])]
    /\ \A r \in Receivers : Len(queue[r]) <= BusCapacity
    /\ listening \subseteq Receivers
    /\ streamPc \in {"idle", "load", "install", "iqs", "saveAdv", "sendFinish"}
    /\ silent \in BOOLEAN /\ flag \in BOOLEAN
    /\ codeState \in CodeFlows \cup {"idle", "completed"}
    /\ memory \in Devices /\ backend \in Devices
    /\ fresh \in Devices \cup {None}
    /\ flow \in [Flows -> FlowStates]
    /\ dev \in [Flows -> Devices]
    /\ pairAdv \in [Flows -> Advs \cup {None}]
    /\ queued \subseteq Flows
    /\ shown \in {"none", "connected", "disconnected", "connectFailure"}

\* The stream has just read an event of one of these kinds.
StreamReads(kinds) ==
    /\ queue[Stream] # << >> /\ Head(queue[Stream]).kind \in kinds
    /\ queue'[Stream] = Tail(queue[Stream])

\* The reconnect that the server forces after a pairing stays hidden from the
\* application, unless a flow has failed (post_pair_reconnect).
WindowIsSilent ==
    [][prompt /\ StreamReads({"forced", "streamError"})
              /\ (\A f \in Flows : flow[f] # "failed")
           => shown' = shown]_vars

\* A connection that is lost after the post-pair reconnect is reported
\* ("so subsequent real disconnects are not suppressed").
RealDropShown ==
    [][prompt /\ StreamReads({"lost"}) /\ linked = "settled"
           => shown' = "disconnected"]_vars

\* The client has reconnected after a pairing, the stream has caught up, and
\* its load did not fail.
Reloaded ==
    /\ conn = "up" /\ linked = "settled" /\ fresh # None
    /\ streamPc = "idle" /\ queue[Stream] = << >>
    /\ \A f \in Flows : flow[f] \notin {"cloning", "responding", "saving"}

\* If the tasks keep up, the device in memory is then the paired one of the
\* backend (run_post_connect_init's reload).
MemoryFresh ==
    prompt /\ Reloaded => memory = backend

\* f has read a pair-success whose signature its copy of the device bears out: it
\* answers with pair-device-sign, or has.
Answers(f) == pairAdv[f] # None /\ pairAdv[f] = dev[f].adv

\* The server links the companion only if the client has stored the pairing, or a
\* flow that answered the pair-success is about to store it, or has failed in the
\* send or in a save (handle_pair_success).  That failure a pair-code flow only
\* logs: its application then has a companion that only the phone knows of.
PairedTogether ==
    linked # "no" => \/ backend.paired
                     \/ \E f \in Flows : Answers(f) /\ flow[f] \in {"saving", "failed"}

\* A stored pairing is never overwritten by an older copy of the device
\* (handle_pair_code_notification and handle_pair_success both save clones).
PairingSurvives ==
    [][backend.paired => backend'.paired]_vars

\* Where both sides hold a pairing they hold the same secret, however the codes
\* of two requests were mixed up (do_pair_crypto checks the signature).
SecretsAgree ==
    backend.paired /\ linked # "no" => linkedAdv = backend.adv

\* Another request has been made, whose hello supersedes that of f.
Rival(f) == \E g \in CodeFlows \ {f} : flow[g] # "idle"

\* A confirmed code is spent: while a request waits for the phone, the server has
\* not taken its secret for finished, the device in memory does not hold it, and
\* the server has dropped the request only for that of a rival (mem::take).
ConfirmedOnce ==
    \A f \in CodeFlows : codeState = f =>
        /\ server[f] \in {"none", "hello", "confirmed"} /\ memory.adv # f
        /\ server[f] = "none" => Rival(f)

-----------------------------------------------------------------------------
(* The invariant that holds the properties up, in five parts.              *)

Active == {"waitRefs", "rotating", "waiting", "cloning", "responding", "saving", "uploading"}
Events(r) == {queue[r][i] : i \in 1..Len(queue[r])}
KindIn(kinds) == \E e \in Events(Stream) : e.kind \in kinds
Confirm(f) == Event("confirm", f)
Confirms == {e \in Events(Stream) : e.kind = "confirm"}
Confirming == streamPc \in {"saveAdv", "sendFinish"}

\* Who listens, and what the server can know of a flow.
RoleInv ==
    /\ Stream \in listening
    /\ \A e \in Confirms : e.arg \in CodeFlows \cup {Junk}
    /\ \A f, g \in Flows : flow[f] # "idle" /\ flow[g] # "idle" => (f \in QrFlows <=> g \in QrFlows)
    /\ \A f \in Flows : flow[f] \in Active => f \in listening
    /\ \A f \in QrFlows : /\ server[f] \in {"none", "success"}
                           /\ flow[f] \notin {"hello", "storing", "refused", "spawned", "waiting", "cloning"}
    /\ \A f \in Flows : flow[f] = "idle" => server[f] = "none"
    /\ \A f \in queued : flow[f] = "failed"
    /\ streamPc \in {"install", "saveAdv", "sendFinish"} => fresh # None

ShapeInv == TypeOK /\ RoleInv

\* No confirmation of a code is in the queue q twice; f's comes after the others.
Distinct(q) == \A i, j \in 1..Len(q) : i # j /\ q[i].kind = "confirm" /\ q[i].arg # Junk => q[i] # q[j]
IsLast(q, f) ==
    \A i \in 1..Len(q) : q[i].kind = "confirm" /\ q[i].arg # f
        => \E j \in (i + 1)..Len(q) : q[j] = Confirm(f)

\* What the server knows of a request whose call is not through, and is.
Called == {"idle", "hello", "refused"}
Asked(f) == flow[f] \notin Unasked
PhaseInv == \A f \in CodeFlows :
    /\ flow[f] \in Called => server[f] \in {"none", "sent", "hello"}
    /\ flow[f] = "storing" => server[f] \in {"none", "hello"}
    /\ flow[f] \notin Called => server[f] # "sent" /\ (server[f] = "none" => Rival(f))

\* The server wants one pair code at a time; what the phone confirms reaches
\* the stream once, and the last confirmation is the one the server waits on.
\* Only two requests can be mixed up.
Mixed == \E f, g \in CodeFlows : f # g /\ flow[f] # "idle" /\ flow[g] # "idle"
CodeInv ==
    /\ PhaseInv
    /\ \A f, g \in Flows : server[f] \in Wanted /\ server[g] \in Wanted => f = g
    /\ \A f, g \in Flows : server[f] = "success" /\ server[g] = "success" => f = g
    /\ \A f \in CodeFlows : Confirm(f) \in Confirms => Asked(f) /\ server[f] \in {"confirmed", "none"}
    /\ Confirm(Junk) \in Confirms => Mixed
    /\ Confirming => fresh.adv \in CodeFlows \/ (fresh.adv = Junk /\ Mixed)
    /\ Confirming => \A f \in CodeFlows : fresh.adv = f =>
            Asked(f) /\ server[f] \in {"confirmed", "none"} /\ Confirm(f) \notin Confirms
    /\ Distinct(queue[Stream])
    /\ \A f \in CodeFlows : server[f] = "confirmed" => IsLast(queue[Stream], f)
    /\ \A f \in Flows : server[f] \in {"finish", "success"} => Confirms = {} /\ ~Confirming

\* A secret is in a copy of the device only once its request is taken; and one
\* that no phone holds only if two requests were mixed up.
Held == {d.adv : d \in ({memory, backend, fresh} \cup {dev[f] : f \in Flows}) \ {None}}
SecretInv ==
    /\ \A f \in CodeFlows :
         /\ codeState = f => Asked(f) /\ server[f] \in {"none", "hello", "confirmed"}
         /\ f \in Held => Asked(f) /\ codeState # f
    /\ Junk \in Held => Mixed

\* Whatever follows a pair-success carries the secret of the flow g that the
\* phone has linked.
Success == \E g \in Flows : server[g] = "success"
Secret(g) == IF g \in CodeFlows THEN g ELSE dev[g].adv
LinkInv ==
    /\ \A r \in Receivers : \A e \in Events(r) : e.kind = "pairSuccess" => Success
    /\ \A f \in Flows : flow[f] \in {"cloning", "responding", "saving", "uploading"} => Success
    /\ queued # {} \/ linked # "no" \/ backend.paired \/ memory.paired => Success
    /\ fresh # None /\ fresh.paired => Success
    /\ \A g \in Flows : server[g] = "success" =>
         /\ \A r \in Receivers : \A e \in Events(r) : e.kind = "pairSuccess" => e.arg = Secret(g)
         /\ \A f \in Flows : flow[f] \in {"cloning", "responding", "saving"} \/ f \in queued
                => pairAdv[f] = Secret(g)
         /\ linked # "no" => linkedAdv = Secret(g)
         /\ backend.paired => backend.adv = Secret(g) /\ (prompt => linked # "no")
    /\ \A f \in Flows : flow[f] = "saving" \/ f \in queued => dev[f].adv = pairAdv[f]
    /\ \A f \in Flows : flow[f] = "saving" /\ prompt => linked # "no"
    /\ PairedTogether

\* What is left to do after the server has forced the reconnect.
LeftInv ==
    /\ linked \in {"dropped", "settled"} =>
         /\ \A r \in Receivers : \A e \in Events(r) : e.kind # "pairSuccess"
         /\ \A f \in Flows : /\ flow[f] \notin {"cloning", "saving"}
                             /\ flow[f] = "responding" => queue[f] # << >> /\ conn = "down"
    /\ linked = "dropped" => conn = "down"

\* Between the phone's confirmation and the reconnect the link holds.
BetweenInv ==
    /\ Success /\ linked # "settled" => streamPc = "idle" /\ ~KindIn({"connected"})
    /\ Success /\ linked \in {"no", "forcing", "ending"} => conn = "up"
    /\ KindIn({"forced", "streamError"}) => linked \in {"ending", "dropped"}

\* The flag is up while the server is to force the reconnect.
FlagInv ==
    \/ \E f \in Flows : flow[f] = "failed"
    \/ flag
    \/ /\ linked \notin {"forcing", "ending", "dropped"}
       /\ linked = "no" => \A f \in Flows : flow[f] \notin {"cloning", "responding", "saving"}

\* After the reconnect the stream loads the device, and takes the flag down.
ConnectedNext(q) ==
    \E i \in 1..Len(q) : q[i].kind = "connected" /\ \A j \in 1..(i - 1) : q[j].kind # "lost"
ReloadInv == linked = "settled" =>
    /\ \/ streamPc = "idle" /\ KindIn({"connected"})
       \/ streamPc = "load"
       \/ streamPc = "install" /\ fresh = backend
       \/ streamPc \in {"idle", "iqs"} /\ (fresh = None \/ memory = backend)
    /\ \/ ~flag
       \/ streamPc \in {"load", "install", "iqs"} /\ silent
       \/ streamPc = "idle" /\ ConnectedNext(queue[Stream])

PromptInv == prompt => LeftInv /\ BetweenInv /\ FlagInv /\ ReloadInv

\* How the pairing hangs together: the codes, the secrets, the copies of the
\* device and the link the server holds, at every point of both flows.
PairingInv == ShapeInv /\ CodeInv /\ SecretInv /\ LinkInv /\ PromptInv

=============================================================================
