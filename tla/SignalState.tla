---------------------------- MODULE SignalState ----------------------------
(***************************************************************************)
(* The Signal state that we share with one device of a peer: the session   *)
(* record and the peer's sender key, each in a cache in front of the       *)
(* session backend, and our one-time pre-key, in the backend only.  The    *)
(* update stream decrypts with them, calls of send_message encrypt with    *)
(* them, every so many events the stream flushes the cache, a read of the  *)
(* backend or what follows a decryption may fail, and the client may crash *)
(* at any point.                                                           *)
(*                                                                         *)
(* A ratchet is what it has been used for: which sessions the record       *)
(* knows, which messages it has decrypted, how many it has encrypted.  The *)
(* session that the peer opened is called Peer, one that a send opens is   *)
(* called after the send.                                                  *)
(***************************************************************************)
EXTENDS Naturals, Sequences, FiniteSets

CONSTANTS
    Sends,          \* calls of send_message to the peer
    Peer, Stream,   \* the peer's session, the update stream
    None,
    FlushEvery,     \* the 100 of run_update_stream
    MaxMessages,    \* Bound: messages, the peer's and ours
    MaxEvents,      \* Bound: events that the stream counts
    MaxFaults       \* Bound: crashes, reconnects, and failures at the peer's messages

Tasks == Sends \cup {Stream}
Sessions == Sends \cup {Peer}

\* A session record: the sessions it can decrypt with, the one it encrypts
\* with, the messages of the peer it has decrypted, and per session how many
\* messages it has encrypted.
SessionRecords ==
    [knows : SUBSET Sessions, current : Sessions \cup {None}, used : SUBSET Nat,
     sent : [Sessions -> Nat]]
NoSession == [knows |-> {}, current |-> None, used |-> {}, sent |-> [x \in Sessions |-> 0]]

SenderKeys == [known : BOOLEAN, used : SUBSET Nat]
NoSenderKey == [known |-> FALSE, used |-> {}]

ASSUME SignalAssumption ==
    /\ {Peer, Stream} \cap Sends = {} /\ None \notin Sends \cup {Peer}
    /\ None \notin SessionRecords \cup SenderKeys \cup (Sessions \X Nat)
    /\ IsFiniteSet(Sends) /\ FlushEvery \in Nat \ {0}
    /\ MaxMessages \in Nat /\ MaxEvents \in Nat /\ MaxFaults \in Nat

VARIABLES
    nodes,      \* the messages the peer has sent, in order
    replied,    \* the peer has had an answer: no pkmsg any more
    cursor,     \* the first message that this connection has yet to deliver
    receipted,  \* the messages for which the server has our receipt
    cached,     \* the cached session and sender key, None if not loaded
    stored,     \* the session and sender key in the backend
    oneTime,    \* the one-time key the peer named is still in the backend
    pc,         \* where each task is
    cur,        \* the message the stream works on, 0 if none
    loaded,     \* the record that a task has loaded and not stored yet
    key,        \* per send, the message key it encrypted with
    count,      \* event_count, modulo FlushEvery
    shown,      \* per message, how often the application has got it
    events,     \* events counted so far
    faults,     \* crashes, reconnects and failures so far
    overlapped, \* Ghost: a record was stored over a change it had not seen
    wiped,      \* Ghost: what a crash has set back
    dropped     \* Ghost: messages given up because something failed

peerVars == <<nodes, replied>>
netVars == <<cursor, receipted>>
storeVars == <<cached, stored, oneTime>>
taskVars == <<pc, cur, loaded>>
ghosts == <<overlapped, wiped, dropped>>
bounds == <<events, faults>>
vars == <<peerVars, netVars, storeVars, taskVars, key, count, shown, bounds, ghosts>>

Stores == {"session", "senderKey"}

Init ==
    /\ nodes = <<>> /\ replied = FALSE /\ cursor = 1 /\ receipted = {}
    /\ cached = [x \in Stores |-> None]
    /\ stored = [session |-> NoSession, senderKey |-> NoSenderKey]
    /\ oneTime = TRUE
    /\ pc = [t \in Tasks |-> IF t = Stream THEN "recv" ELSE "new"]
    /\ cur = 0 /\ loaded = [t \in Tasks |-> None] /\ key = [s \in Sends |-> None]
    /\ count = 0 /\ shown = [n \in 1..MaxMessages |-> 0]
    /\ events = 0 /\ faults = 0
    /\ overlapped = FALSE /\ wiped = {} /\ dropped = {}

Goto(t, place) == pc' = [pc EXCEPT ![t] = place]
Finish == Goto(Stream, "recv") /\ cur' = 0
OneMore == Len(nodes) + Cardinality({s \in Sends : pc[s] # "new"}) < MaxMessages
Fault == faults < MaxFaults /\ faults' = faults + 1

-----------------------------------------------------------------------------
(* The adapters: a read goes through the cache, a write stays in it.       *)

View(x) == IF cached[x] = None THEN stored[x] ELSE cached[x]

LoadSession(t, place) ==
    /\ loaded' = [loaded EXCEPT ![t] = View("session")]
    /\ Goto(t, place)

StoreSession(t, record) ==
    /\ cached' = [cached EXCEPT !["session"] = record]
    /\ overlapped' = (overlapped \/ loaded[t] # View("session"))
    /\ loaded' = [loaded EXCEPT ![t] = None]

StoreSenderKey(record) == cached' = [cached EXCEPT !["senderKey"] = record]

-----------------------------------------------------------------------------
(* The peer and the server.                                                *)

\* The first message to a group carries the sender key, encrypted in the
\* session, beside the text, encrypted with the sender key.
PeerSends(group) ==
    /\ OneMore
    /\ LET keySent == \E i \in 1..Len(nodes) : nodes[i].enc = "key"
           enc == IF ~group THEN "text" ELSE IF keySent THEN "none" ELSE "key"
       IN nodes' = Append(nodes, [enc |-> enc, group |-> group, pk |-> ~replied])
    /\ UNCHANGED <<replied, netVars, storeVars, taskVars, key, count, shown, bounds, ghosts>>

\* After a reconnect the server delivers again what has no receipt.
Reconnect ==
    /\ Fault
    /\ cursor' = 1
    /\ UNCHANGED <<peerVars, receipted, storeVars, taskVars, key, count, shown, events, ghosts>>

-----------------------------------------------------------------------------
(* The update stream.                                                      *)

\* A message; the session is loaded for its session part, if it has one.
ReceiveNode(n) ==
    /\ pc[Stream] = "recv"
    /\ n \in cursor..Len(nodes) /\ cursor..(n - 1) \subseteq receipted /\ n \notin receipted
    /\ cursor' = n + 1 /\ cur' = n
    /\ IF nodes[n].enc = "none" THEN Goto(Stream, "group") /\ UNCHANGED loaded
                                ELSE LoadSession(Stream, "session")
    /\ UNCHANGED <<peerVars, receipted, storeVars, key, count, shown, bounds, ghosts>>

\* A pkmsg opens the peer's session with the one-time key, if it is not open.
OpensSession == /\ nodes[cur].pk /\ oneTime /\ Peer \notin loaded[Stream].knows
Decrypts == /\ cur \notin loaded[Stream].used
            /\ Peer \in loaded[Stream].knows \/ OpensSession
Decrypted == [loaded[Stream] EXCEPT !.knows = @ \cup {Peer}, !.current = Peer, !.used = @ \cup {cur}]

\* A failure on the way of the message that the stream works on.
GiveUp == Fault /\ dropped' = dropped \cup {cur}

\* The session part decrypts: the record is stored, then the one-time key it
\* used is removed from the backend, and if that fails the text is given up.
DecryptSession ==
    /\ pc[Stream] = "session" /\ Decrypts
    /\ StoreSession(Stream, Decrypted)
    /\ \/ /\ Goto(Stream, IF nodes[cur].enc = "key" THEN "key" ELSE "receipt")
          /\ oneTime' = (oneTime /\ ~OpensSession)
          /\ UNCHANGED <<faults, dropped>>
       \/ /\ OpensSession /\ GiveUp
          /\ Goto(Stream, "group")
          /\ UNCHANGED oneTime
    /\ UNCHANGED <<peerVars, netVars, stored, cur, key, count, shown, events, wiped>>

\* It does not, or the session, the identity or a pre-key cannot be read:
\* nothing is stored, and the group part gets its turn.
SessionFails ==
    /\ pc[Stream] = "session"
    /\ \/ ~Decrypts /\ UNCHANGED <<faults, dropped>>
       \/ GiveUp
    /\ loaded' = [loaded EXCEPT ![Stream] = None]
    /\ Goto(Stream, "group")
    /\ UNCHANGED <<peerVars, netVars, storeVars, cur, key, count, shown, events, overlapped, wiped>>

\* What was decrypted does not decode, or it is a sender key that cannot be
\* taken over: the message is used up, and skipped.
PlaintextFails ==
    /\ pc[Stream] \in {"key", "receipt"}
    /\ GiveUp /\ Finish
    /\ UNCHANGED <<peerVars, netVars, storeVars, loaded, key, count, shown, events, overlapped, wiped>>

\* Faulty variant: the sender key is not stored.
ProcessKeyForgetting ==
    /\ pc[Stream] = "key"
    /\ Finish
    /\ UNCHANGED <<peerVars, netVars, storeVars, loaded, key, count, shown, bounds, ghosts>>

\* The plaintext is a sender key: it is stored and the message is done, with
\* no receipt and without a look at its group part.
ProcessKey ==
    /\ pc[Stream] = "key"
    /\ StoreSenderKey([View("senderKey") EXCEPT !.known = TRUE])
    /\ Finish
    /\ UNCHANGED <<peerVars, netVars, stored, oneTime, loaded, key, count, shown, bounds, ghosts>>

GroupDecrypts == nodes[cur].group /\ View("senderKey").known /\ cur \notin View("senderKey").used

\* Faulty variant: the advanced sender key is not stored.
DecryptGroupForgetting ==
    /\ pc[Stream] = "group" /\ GroupDecrypts
    /\ Goto(Stream, "receipt")
    /\ UNCHANGED <<peerVars, netVars, storeVars, cur, loaded, key, count, shown, bounds, ghosts>>

DecryptGroup ==
    /\ pc[Stream] = "group" /\ GroupDecrypts
    /\ StoreSenderKey([View("senderKey") EXCEPT !.used = @ \cup {cur}])
    /\ Goto(Stream, "receipt")
    /\ UNCHANGED <<peerVars, netVars, stored, oneTime, cur, loaded, key, count, shown, bounds, ghosts>>

\* All attempts have failed, perhaps because the sender key cannot be read: the
\* message is skipped.
SkipMessage ==
    /\ pc[Stream] = "group"
    /\ \/ ~GroupDecrypts /\ UNCHANGED <<faults, dropped>>
       \/ GiveUp
    /\ Finish
    /\ UNCHANGED <<peerVars, netVars, storeVars, loaded, key, count, shown, events, overlapped, wiped>>

\* The receipt precedes the update, and an error of it is only logged.
SendReceipt ==
    /\ pc[Stream] = "receipt"
    /\ receipted' = receipted \cup {cur} \/ UNCHANGED receipted
    /\ Goto(Stream, "emit")
    /\ UNCHANGED <<peerVars, cursor, storeVars, cur, loaded, key, count, shown, bounds, ghosts>>

EmitUpdate ==
    /\ pc[Stream] = "emit"
    /\ shown' = [shown EXCEPT ![cur] = @ + 1]
    /\ Finish
    /\ UNCHANGED <<peerVars, netVars, storeVars, loaded, key, count, bounds, ghosts>>

\* Any other event counts; a message returns to the top before the counter.
OtherEvent ==
    /\ pc[Stream] = "recv" /\ events < MaxEvents /\ events' = events + 1
    /\ count' = (count + 1) % FlushEvery
    /\ Goto(Stream, IF count' = 0 THEN "flush" ELSE "recv")
    /\ UNCHANGED <<peerVars, netVars, storeVars, cur, loaded, key, shown, faults, ghosts>>

\* The cache writes one record after the other; an error ends the flush.
Flush ==
    /\ pc[Stream] = "flush"
    /\ \E written \in SUBSET Stores :
          stored' = [x \in Stores |-> IF x \in written THEN View(x) ELSE stored[x]]
    /\ Goto(Stream, "recv")
    /\ UNCHANGED <<peerVars, netVars, cached, oneTime, cur, loaded, key, count, shown, bounds, ghosts>>

-----------------------------------------------------------------------------
(* send_message to the peer.                                               *)

\* Without a session the peer's pre-key bundle is fetched first.
StartSend(s) ==
    /\ pc[s] = "new" /\ OneMore
    /\ Goto(s, IF View("session").knows = {} THEN "fetch" ELSE "encrypt")
    /\ UNCHANGED <<peerVars, netVars, storeVars, cur, loaded, key, count, shown, bounds, ghosts>>

LoadForSend(s) ==
    /\ \/ pc[s] = "fetch" /\ LoadSession(s, "establish")
       \/ pc[s] = "encrypt" /\ LoadSession(s, "store")
    /\ UNCHANGED <<peerVars, netVars, storeVars, cur, key, count, shown, bounds, ghosts>>

\* The fetch, a read or the write fails, and the call with it; a stanza whose
\* send timed out may still be queued.
SendFails(s) ==
    /\ \/ pc[s] \in {"fetch", "establish", "encrypt", "store", "send"} /\ Goto(s, "done")
       \/ pc[s] = "send" /\ Goto(s, "queued")
    /\ loaded' = [loaded EXCEPT ![s] = None]
    /\ UNCHANGED <<peerVars, netVars, storeVars, cur, key, count, shown, bounds, ghosts>>

\* Faulty variant: the new session starts a record of its own.
EstablishAfresh(s) ==
    /\ pc[s] = "establish"
    /\ StoreSession(s, [NoSession EXCEPT !.knows = {s}, !.current = s])
    /\ Goto(s, "encrypt")
    /\ UNCHANGED <<peerVars, netVars, stored, oneTime, cur, key, count, shown, bounds, wiped, dropped>>

\* The bundle becomes the current session of the record.
Establish(s) ==
    /\ pc[s] = "establish"
    /\ StoreSession(s, [loaded[s] EXCEPT !.knows = @ \cup {s}, !.current = s])
    /\ Goto(s, "encrypt")
    /\ UNCHANGED <<peerVars, netVars, stored, oneTime, cur, key, count, shown, bounds, wiped, dropped>>

\* The next key of the current chain.
MessageKey(s) == <<loaded[s].current, loaded[s].sent[loaded[s].current]>>

\* Faulty variant: the advanced chain is not stored.
EncryptForgetting(s) ==
    /\ pc[s] = "store" /\ loaded[s].current # None
    /\ key' = [key EXCEPT ![s] = MessageKey(s)]
    /\ loaded' = [loaded EXCEPT ![s] = None]
    /\ Goto(s, "send")
    /\ UNCHANGED <<peerVars, netVars, storeVars, cur, count, shown, bounds, ghosts>>

\* Encryption takes the next key of the current chain.
Encrypt(s) ==
    /\ pc[s] = "store" /\ loaded[s].current # None
    /\ key' = [key EXCEPT ![s] = MessageKey(s)]
    /\ StoreSession(s, [loaded[s] EXCEPT !.sent[loaded[s].current] = @ + 1])
    /\ Goto(s, "send")
    /\ UNCHANGED <<peerVars, netVars, stored, oneTime, cur, count, shown, bounds, wiped, dropped>>

SendStanza(s) ==
    /\ pc[s] \in {"send", "queued"}
    /\ replied' = (replied \/ key[s][1] = Peer)
    /\ Goto(s, "done")
    /\ UNCHANGED <<nodes, netVars, storeVars, cur, loaded, key, count, shown, bounds, ghosts>>

-----------------------------------------------------------------------------

\* The cache and every task are gone; calls that had not started may follow.
Crash ==
    /\ Fault
    /\ cached' = [x \in Stores |-> None]
    /\ pc' = [t \in Tasks |-> IF t = Stream THEN "recv"
                              ELSE IF pc[t] = "new" THEN "new" ELSE "done"]
    /\ loaded' = [t \in Tasks |-> None] /\ cur' = 0
    /\ cursor' = 1 /\ count' = 0
    /\ wiped' = wiped \cup {x \in Stores : View(x) # stored[x]}
    /\ dropped' = IF pc[Stream] \in {"receipt", "emit"} THEN dropped \cup {cur} ELSE dropped
    /\ UNCHANGED <<peerVars, receipted, stored, oneTime, key, shown, events, overlapped>>

StreamNext ==
    \/ \E n \in 1..MaxMessages : ReceiveNode(n)
    \/ DecryptSession \/ SessionFails \/ PlaintextFails \/ ProcessKey
    \/ DecryptGroup \/ SkipMessage \/ SendReceipt \/ EmitUpdate \/ OtherEvent \/ Flush

SendNext(s) ==
    \/ StartSend(s) \/ LoadForSend(s) \/ Establish(s) \/ Encrypt(s) \/ SendStanza(s)
    \/ SendFails(s)

Next ==
    \/ \E group \in BOOLEAN : PeerSends(group)
    \/ StreamNext \/ Reconnect \/ Crash
    \/ \E s \in Sends : SendNext(s)

Spec == Init /\ [][Next]_vars

-----------------------------------------------------------------------------
(* Properties.                                                             *)

Nodes == [enc : {"text", "key", "none"}, group : BOOLEAN, pk : BOOLEAN]
Places == {"recv", "session", "key", "group", "receipt", "emit", "flush", "new", "fetch",
           "establish", "encrypt", "store", "send", "queued", "done"}

\* Every variable has its type; of the counters, event_count stays below the
\* number at which the cache is flushed.
TypeOK ==
    /\ nodes \in Seq(Nodes) /\ replied \in BOOLEAN
    /\ cursor \in Nat /\ receipted \subseteq Nat
    /\ stored \in [Stores -> SessionRecords \cup SenderKeys]
    /\ cached \in [Stores -> SessionRecords \cup SenderKeys \cup {None}]
    /\ stored["session"] \in SessionRecords /\ stored["senderKey"] \in SenderKeys
    /\ cached["session"] \in SessionRecords \cup {None}
    /\ cached["senderKey"] \in SenderKeys \cup {None}
    /\ oneTime \in BOOLEAN /\ pc \in [Tasks -> Places] /\ cur \in Nat
    /\ loaded \in [Tasks -> SessionRecords \cup {None}]
    /\ key \in [Sends -> (Sessions \X Nat) \cup {None}]
    /\ count \in 0..(FlushEvery - 1) /\ shown \in [1..MaxMessages -> Nat]
    /\ events \in Nat /\ faults \in Nat
    /\ overlapped \in BOOLEAN /\ wiped \subseteq Stores /\ dropped \subseteq Nat

\* Two stanzas are encrypted with the same message key only after a crash has
\* set the session back to the last flush, or a task has stored the session
\* over a change that it had not seen (no lock spans load and store).
KeyReuseExplained ==
    (\E s, t \in Sends : s # t /\ key[s] # None /\ key[s] = key[t])
        => overlapped \/ "session" \in wiped

\* A one-time key that is gone has left the session it opened: remove_pre_key
\* reaches the backend at once, the session only with the next flush, and
\* nothing but a crash in between or an overlap loses the session.
OneTimeKeyLeavesSession ==
    ~oneTime => Peer \in View("session").knows \/ overlapped \/ "session" \in wiped

\* A task that is to store a session record has loaded one.
LoadedInv == \A t \in Tasks : pc[t] \in {"session", "establish", "store"} => loaded[t] # None

\* Why no message key comes twice: the record counts past every key in use.
CountedInv ==
    \/ overlapped \/ "session" \in wiped
    \/ \A s \in Sends : key[s] # None => key[s][2] < View("session").sent[key[s][1]]

\* The later of two session records.
Extends(new, old) ==
    /\ old.knows \subseteq new.knows /\ old.used \subseteq new.used
    /\ \A x \in Sessions : old.sent[x] <= new.sent[x]

\* The later of two sender keys.
ExtendsKey(new, old) == old.used \subseteq new.used /\ (old.known => new.known)

\* The cache is never behind the backend.
AheadInv == overlapped \/ Extends(View("session"), stored["session"])
SenderKeyInv == ExtendsKey(View("senderKey"), stored["senderKey"])

\* The inductive invariant of the session record.
SessionInv ==
    /\ TypeOK /\ LoadedInv /\ CountedInv /\ AheadInv /\ SenderKeyInv
    /\ KeyReuseExplained /\ OneTimeKeyLeavesSession

\* The application gets a message twice only if what decrypted it the first
\* time was set back; a message that is delivered again is not enough.
ShownOnce ==
    \A n \in 1..MaxMessages : shown[n] > 1 => overlapped \/ wiped # {}

\* Message n was given up, or the message that brought its sender key was.
GivenUp(n) ==
    n \in dropped \/ (nodes[n].enc = "none" /\ \E m \in dropped : nodes[m].enc = "key")

\* No message is lost without a reason.  One for which the server has our
\* receipt, and which it will not deliver again, was handed to the application
\* or is about to be, unless the client crashed between the receipt and the
\* update.  One that the stream is done with (decrypt_e2e_message) was handed
\* to the application, unless its text came with the sender key, or it or the
\* message that brought its sender key was given up (a read, the removal of the
\* one-time key or the plaintext failed), or a crash or an overlap has taken
\* its key away.
NothingLost ==
    /\ \A n \in receipted : shown[n] > 0 \/ (pc[Stream] = "emit" /\ cur = n) \/ n \in dropped
    /\ \A n \in 1..Len(nodes) :
          n < cursor /\ n # cur =>
              shown[n] > 0 \/ nodes[n].enc = "key" \/ GivenUp(n) \/ overlapped \/ wiped # {}

\* What is in the backend never goes back, whatever order flushes, crashes and
\* tasks come in, as long as no task overlaps another.
StoredNeverGoesBack ==
    [][/\ Extends(stored'["session"], stored["session"]) \/ overlapped'
       /\ ExtendsKey(stored'["senderKey"], stored["senderKey"])]_stored

\* The comment on decrypt_e2e_message: it "decrypts each" enc node of the
\* session and of the group bucket.
EachDecrypted ==
    \A n \in 1..Len(nodes) :
        n < cursor /\ n # cur =>
            /\ nodes[n].enc # "none" => n \in View("session").used
            /\ nodes[n].group => n \in View("senderKey").used

=============================================================================
