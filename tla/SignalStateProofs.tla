------------------------- MODULE SignalStateProofs -------------------------
(***************************************************************************)
(* Proofs about SignalState, for any number of messages, sends, crashes    *)
(* and reconnects and any flush interval: that message keys and the        *)
(* one-time key are used up in step with the session record, that the      *)
(* backend never goes back, and that a message is shown at most once and   *)
(* is not lost, unless a crash or an overlap has set something back.       *)
(***************************************************************************)
EXTENDS SignalState, FiniteSetTheorems, TLAPS

USE SignalAssumption

-----------------------------------------------------------------------------
(* Session records.                                                        *)

\* What the adapters read is a session record and a sender key.
LEMMA ViewType == TypeOK => View("session") \in SessionRecords /\ View("senderKey") \in SenderKeys
BY DEF TypeOK, View

\* A later record than a later record is a later record.
LEMMA ExtendsTransitive ==
    ASSUME NEW a \in SessionRecords, NEW b \in SessionRecords, NEW c \in SessionRecords,
           Extends(b, a), Extends(c, b)
    PROVE  Extends(c, a)
<1>1. \A x \in Sessions : a.sent[x] \in Nat /\ b.sent[x] \in Nat /\ c.sent[x] \in Nat
  BY DEF SessionRecords
<1>2. \A x \in Sessions : a.sent[x] <= c.sent[x]
  BY <1>1 DEF Extends
<1> QED BY <1>2 DEF Extends

\* A record extends itself.
LEMMA ExtendsReflexive == ASSUME NEW a \in SessionRecords PROVE Extends(a, a)
<1>1. \A x \in Sessions : a.sent[x] \in Nat
  BY DEF SessionRecords
<1> QED BY <1>1 DEF Extends

\* What DecryptSession stores.
LEMMA DecryptedType ==
    ASSUME TypeOK, LoadedInv, DecryptSession
    PROVE  /\ Decrypted \in SessionRecords /\ Extends(Decrypted, loaded[Stream])
           /\ Decrypted.sent = loaded[Stream].sent /\ Peer \in Decrypted.knows
<1>1. Stream \in Tasks /\ Peer \in Sessions
  BY DEF Tasks, Sessions
<1>2. loaded[Stream] \in SessionRecords /\ cur \in Nat
  BY <1>1 DEF TypeOK, LoadedInv, DecryptSession
<1>3. \A x \in Sessions : loaded[Stream].sent[x] \in Nat
  BY <1>2 DEF SessionRecords
<1>4. /\ Decrypted \in SessionRecords
      /\ Decrypted.knows = loaded[Stream].knows \cup {Peer}
      /\ Decrypted.used = loaded[Stream].used \cup {cur}
      /\ Decrypted.sent = loaded[Stream].sent
  BY <1>1, <1>2 DEF Decrypted, SessionRecords
<1> QED BY <1>3, <1>4 DEF Extends

-----------------------------------------------------------------------------
(* Types.                                                                  *)

\* The types of the records: cache, backend and what the tasks have loaded.
RecordsOK ==
    /\ stored \in [Stores -> SessionRecords \cup SenderKeys]
    /\ cached \in [Stores -> SessionRecords \cup SenderKeys \cup {None}]
    /\ stored["session"] \in SessionRecords /\ stored["senderKey"] \in SenderKeys
    /\ cached["session"] \in SessionRecords \cup {None}
    /\ cached["senderKey"] \in SenderKeys \cup {None}
    /\ loaded \in [Tasks -> SessionRecords \cup {None}]

\* The types of everything else.
PlainOK ==
    /\ nodes \in Seq(Nodes) /\ replied \in BOOLEAN
    /\ cursor \in Nat /\ receipted \subseteq Nat
    /\ oneTime \in BOOLEAN /\ pc \in [Tasks -> Places] /\ cur \in Nat
    /\ key \in [Sends -> (Sessions \X Nat) \cup {None}]
    /\ count \in 0..(FlushEvery - 1) /\ shown \in [1..MaxMessages -> Nat]
    /\ events \in Nat /\ faults \in Nat
    /\ overlapped \in BOOLEAN /\ wiped \subseteq Stores /\ dropped \subseteq Nat

LEMMA TypeParts == TypeOK <=> RecordsOK /\ PlainOK
  BY DEF TypeOK, RecordsOK, PlainOK

LEMMA Names == /\ Stream \in Tasks /\ Sends \subseteq Tasks /\ Sends \subseteq Sessions
               /\ Peer \in Sessions /\ "session" \in Stores /\ "senderKey" \in Stores
  BY DEF Tasks, Sessions, Stores

\* Storing a record of the right type in the cache keeps the types.
LEMMA StoreTypes ==
    ASSUME TypeOK, NEW t \in Tasks, NEW record \in SessionRecords,
           StoreSession(t, record), UNCHANGED stored
    PROVE  RecordsOK'
  BY Names DEF TypeOK, RecordsOK, StoreSession, Stores

LEMMA LoadTypes ==
    ASSUME TypeOK, NEW t \in Tasks, NEW place, LoadSession(t, place), UNCHANGED <<cached, stored>>
    PROVE  RecordsOK'
  BY ViewType, Names DEF TypeOK, RecordsOK, LoadSession

LEMMA SenderKeyTypes ==
    ASSUME TypeOK, NEW record \in SenderKeys, StoreSenderKey(record), UNCHANGED <<stored, loaded>>
    PROVE  RecordsOK'
  BY Names DEF TypeOK, RecordsOK, StoreSenderKey, Stores

\* What Establish and Encrypt store.
LEMMA EstablishedType ==
    ASSUME TypeOK, LoadedInv, NEW s \in Sends, Establish(s)
    PROVE  LET record == [loaded[s] EXCEPT !.knows = @ \cup {s}, !.current = s]
           IN /\ record \in SessionRecords /\ Extends(record, loaded[s])
              /\ record.sent = loaded[s].sent
<1> DEFINE record == [loaded[s] EXCEPT !.knows = @ \cup {s}, !.current = s]
<1>1. loaded[s] \in SessionRecords
  BY Names DEF TypeOK, LoadedInv, Establish
<1>2. record \in SessionRecords /\ record.knows = loaded[s].knows \cup {s}
      /\ record.used = loaded[s].used /\ record.sent = loaded[s].sent
  BY <1>1, Names DEF SessionRecords
<1>3. \A x \in Sessions : loaded[s].sent[x] \in Nat
  BY <1>1 DEF SessionRecords
<1> QED BY <1>2, <1>3 DEF Extends

LEMMA EncryptedType ==
    ASSUME TypeOK, LoadedInv, NEW s \in Sends, Encrypt(s)
    PROVE  LET record == [loaded[s] EXCEPT !.sent[loaded[s].current] = @ + 1]
           IN /\ record \in SessionRecords /\ Extends(record, loaded[s])
              /\ record.knows = loaded[s].knows
              /\ record.sent = [loaded[s].sent EXCEPT ![loaded[s].current] = @ + 1]
              /\ MessageKey(s) \in Sessions \X Nat
<1> DEFINE record == [loaded[s] EXCEPT !.sent[loaded[s].current] = @ + 1]
<1>1. loaded[s] \in SessionRecords
  BY Names DEF TypeOK, LoadedInv, Encrypt
<1>2. loaded[s].current \in Sessions /\ loaded[s].sent \in [Sessions -> Nat]
  BY <1>1 DEF SessionRecords, Encrypt
<1>3. record = [loaded[s] EXCEPT !.sent = [loaded[s].sent EXCEPT ![loaded[s].current] = @ + 1]]
  OBVIOUS
<1>4. [loaded[s].sent EXCEPT ![loaded[s].current] = @ + 1] \in [Sessions -> Nat]
  BY <1>2
<1>5. record \in SessionRecords /\ record.knows = loaded[s].knows
      /\ record.used = loaded[s].used
      /\ record.sent = [loaded[s].sent EXCEPT ![loaded[s].current] = @ + 1]
  BY <1>1, <1>3, <1>4 DEF SessionRecords
<1>6. \A x \in Sessions : loaded[s].sent[x] <= record.sent[x]
  BY <1>2, <1>5
<1>7. MessageKey(s) \in Sessions \X Nat
  BY <1>2 DEF MessageKey
<1> QED BY <1>5, <1>6, <1>7 DEF Extends

\* Every step keeps the types of the records.
LEMMA RecordStep == TypeOK /\ LoadedInv /\ [Next]_vars => RecordsOK'
<1> SUFFICES ASSUME TypeOK, LoadedInv, [Next]_vars PROVE RecordsOK'
  OBVIOUS
<1>0. RecordsOK
  BY TypeParts
<1>1. CASE UNCHANGED <<cached, stored, loaded>>
  BY <1>0, <1>1 DEF RecordsOK
<1>2. ASSUME NEW n \in 1..MaxMessages, ReceiveNode(n) PROVE RecordsOK'
  <2>1. CASE UNCHANGED loaded
    BY <1>1, <1>2, <2>1 DEF ReceiveNode, storeVars
  <2>2. CASE LoadSession(Stream, "session")
    BY <1>2, <2>2, LoadTypes, Names DEF ReceiveNode, storeVars
  <2> QED
    BY <1>2, <2>1, <2>2 DEF ReceiveNode
<1>3. CASE DecryptSession
  BY <1>3, DecryptedType, StoreTypes, Names DEF DecryptSession
<1>4. CASE SessionFails
  BY <1>0, <1>4, Names DEF SessionFails, RecordsOK, storeVars
<1>5. CASE ProcessKey
  <2>1. [View("senderKey") EXCEPT !.known = TRUE] \in SenderKeys
    BY ViewType DEF SenderKeys
  <2> QED
    BY <1>5, <2>1, SenderKeyTypes DEF ProcessKey
<1>6. CASE DecryptGroup
  <2>1. cur \in Nat
    BY DEF TypeOK
  <2>2. [View("senderKey") EXCEPT !.used = @ \cup {cur}] \in SenderKeys
    BY <2>1, ViewType DEF SenderKeys
  <2> QED
    BY <1>6, <2>2, SenderKeyTypes DEF DecryptGroup
<1>7. CASE Flush
  <2>1. UNCHANGED <<cached, loaded>>
    BY <1>7 DEF Flush
  <2>2. PICK written \in SUBSET Stores :
          stored' = [x \in Stores |-> IF x \in written THEN View(x) ELSE stored[x]]
    BY <1>7 DEF Flush
  <2> QED
    BY <1>0, <2>1, <2>2, ViewType, Names DEF RecordsOK, Stores
<1>8. ASSUME NEW s \in Sends, SendNext(s) PROVE RecordsOK'
  <2>1. CASE StartSend(s) \/ SendStanza(s)
    BY <1>1, <2>1 DEF StartSend, SendStanza, storeVars
  <2>5. CASE SendFails(s)
    BY <1>0, <2>5, Names DEF SendFails, RecordsOK, storeVars
  <2>2. CASE LoadForSend(s)
    BY <2>2, LoadTypes, Names DEF LoadForSend, storeVars
  <2>3. CASE Establish(s)
    BY <2>3, EstablishedType, StoreTypes, Names DEF Establish
  <2>4. CASE Encrypt(s)
    BY <2>4, EncryptedType, StoreTypes, Names DEF Encrypt
  <2> QED
    BY <1>8, <2>1, <2>2, <2>3, <2>4, <2>5 DEF SendNext
<1>9. CASE Crash
  BY <1>0, <1>9, Names DEF Crash, RecordsOK, Stores
<1>10. CASE PlaintextFails \/ SkipMessage \/ SendReceipt \/ EmitUpdate \/ OtherEvent \/ Reconnect
  BY <1>1, <1>10
  DEF PlaintextFails, SkipMessage, SendReceipt, EmitUpdate, OtherEvent, Reconnect, storeVars, taskVars
<1>11. ASSUME NEW group \in BOOLEAN, PeerSends(group) PROVE RecordsOK'
  BY <1>1, <1>11 DEF PeerSends, storeVars, taskVars
<1>12. CASE UNCHANGED vars
  BY <1>1, <1>12 DEF vars, storeVars, taskVars
<1> QED
  BY <1>2, <1>3, <1>4, <1>5, <1>6, <1>7, <1>8, <1>9, <1>10, <1>11, <1>12 DEF Next, StreamNext

\* Every step keeps the types of everything else.
LEMMA PlainStep == TypeOK /\ LoadedInv /\ [Next]_vars => PlainOK'
<1> SUFFICES ASSUME TypeOK, LoadedInv, [Next]_vars PROVE PlainOK'
  OBVIOUS
<1>0. PlainOK
  BY TypeParts
<1> USE Names DEF PlainOK, Places, peerVars, netVars, storeVars, taskVars, bounds, ghosts,
                  Goto, Finish, Fault, GiveUp, LoadSession, StoreSession, StoreSenderKey
<1>1. ASSUME NEW n \in 1..MaxMessages, ReceiveNode(n) PROVE PlainOK'
  <2>1. /\ UNCHANGED <<peerVars, receipted, oneTime, key, count, shown, bounds, ghosts>>
        /\ cursor' = n + 1 /\ cur' = n
    BY <1>1 DEF ReceiveNode
  <2>2. PICK place \in {"group", "session"} : pc' = [pc EXCEPT ![Stream] = place]
    BY <1>1 DEF ReceiveNode
  <2>3. pc' \in [Tasks -> Places]
    BY <1>0, <2>2
  <2> QED
    BY <1>0, <2>1, <2>3
<1>2. CASE DecryptSession
  <2>1. oneTime' \in BOOLEAN
    BY <1>0, <1>2 DEF DecryptSession
  <2>2. UNCHANGED <<peerVars, netVars, cur, key, count, shown, events, wiped>>
    BY <1>2 DEF DecryptSession
  <2>3. faults' \in Nat /\ dropped' \subseteq Nat
    <3>1. \/ faults' = faults /\ dropped' = dropped
          \/ faults' = faults + 1 /\ dropped' = dropped \cup {cur}
      BY <1>2 DEF DecryptSession
    <3>2. faults \in Nat /\ dropped \subseteq Nat /\ cur \in Nat
      BY <1>0
    <3>3. faults' \in Nat
      BY <3>1, <3>2
    <3>4. dropped' \subseteq Nat
      BY <3>1, <3>2, Zenon
    <3> QED
      BY <3>3, <3>4
  <2>4. overlapped' \in BOOLEAN
    BY <1>0, <1>2 DEF DecryptSession
  <2>5. PICK place \in {"key", "receipt", "group"} : pc' = [pc EXCEPT ![Stream] = place]
    BY <1>2 DEF DecryptSession
  <2>6. pc' \in [Tasks -> Places]
    BY <1>0, <2>5
  <2> QED
    BY <1>0, <2>1, <2>2, <2>3, <2>4, <2>6
<1>3. CASE SessionFails \/ PlaintextFails \/ SkipMessage
  <2>1. \/ faults' = faults /\ dropped' = dropped
        \/ faults' = faults + 1 /\ dropped' = dropped \cup {cur}
    BY <1>3 DEF SessionFails, PlaintextFails, SkipMessage
  <2>2. faults \in Nat /\ dropped \subseteq Nat /\ cur \in Nat
    BY <1>0
  <2>3. faults' \in Nat
    BY <2>1, <2>2
  <2>4. dropped' \subseteq Nat
    BY <2>1, <2>2, Zenon
  <2>5. PICK place \in {"group", "recv"} : pc' = [pc EXCEPT ![Stream] = place]
    BY <1>3 DEF SessionFails, PlaintextFails, SkipMessage
  <2>6. pc' \in [Tasks -> Places]
    BY <1>0, <2>5
  <2>7. /\ UNCHANGED <<peerVars, netVars, oneTime, key, count, shown, events, overlapped, wiped>>
        /\ cur' \in {cur, 0}
    BY <1>3 DEF SessionFails, PlaintextFails, SkipMessage
  <2> QED
    BY <1>0, <2>3, <2>4, <2>6, <2>7
<1>12. CASE ProcessKey \/ DecryptGroup
  BY <1>0, <1>12 DEF ProcessKey, DecryptGroup
<1>4. CASE SendReceipt \/ Flush
  BY <1>0, <1>4 DEF SendReceipt, Flush
<1>5. CASE EmitUpdate
  <2>1. \A n \in 1..MaxMessages : shown[n] + 1 \in Nat
    BY <1>0
  <2>2. shown' \in [1..MaxMessages -> Nat]
    BY <1>0, <1>5, <2>1 DEF EmitUpdate
  <2> QED
    BY <1>0, <1>5, <2>2 DEF EmitUpdate
<1>6. CASE OtherEvent
  <2>1. (count + 1) % FlushEvery \in 0..(FlushEvery - 1)
    BY <1>0
  <2> QED
    BY <1>0, <1>6, <2>1 DEF OtherEvent
<1>7. ASSUME NEW s \in Sends, SendNext(s) PROVE PlainOK'
  <2>1. CASE StartSend(s) \/ SendFails(s) \/ LoadForSend(s) \/ Establish(s)
    BY <1>0, <2>1 DEF StartSend, SendFails, LoadForSend, Establish
  <2>2. CASE Encrypt(s)
    BY <1>0, <2>2, EncryptedType DEF Encrypt
  <2>3. CASE SendStanza(s)
    BY <1>0, <2>3 DEF SendStanza
  <2> QED
    BY <1>7, <2>1, <2>2, <2>3 DEF SendNext
<1>8. CASE Crash
  <2>1. pc' \in [Tasks -> Places]
    BY <1>8 DEF Crash
  <2>2. count' = 0 /\ 0 \in 0..(FlushEvery - 1)
    BY <1>8 DEF Crash
  <2> QED
    BY <1>0, <1>8, <2>1, <2>2 DEF Crash
<1>9. CASE Reconnect
  BY <1>0, <1>9 DEF Reconnect
<1>10. ASSUME NEW group \in BOOLEAN, PeerSends(group) PROVE PlainOK'
  <2> DEFINE node(enc) == [enc |-> enc, group |-> group, pk |-> ~replied]
  <2>1. \A enc \in {"text", "key", "none"} : node(enc) \in Nodes
    BY <1>0, <1>10 DEF Nodes
  <2>2. PICK enc \in {"text", "key", "none"} : nodes' = Append(nodes, node(enc))
    BY <1>10 DEF PeerSends
  <2>3. nodes' \in Seq(Nodes)
    BY <1>0, <2>1, <2>2
  <2> QED
    BY <1>0, <1>10, <2>3 DEF PeerSends
<1>11. CASE UNCHANGED vars
  BY <1>0, <1>11 DEF vars
<1> QED
  BY <1>1, <1>2, <1>3, <1>4, <1>5, <1>6, <1>7, <1>8, <1>9, <1>10, <1>11, <1>12 DEF Next, StreamNext

\* A task that is to store has loaded.
LEMMA LoadedStep == TypeOK /\ LoadedInv /\ [Next]_vars => LoadedInv'
<1> SUFFICES ASSUME TypeOK, LoadedInv, [Next]_vars PROVE LoadedInv'
  OBVIOUS
<1> USE Names DEF LoadedInv, peerVars, netVars, storeVars, taskVars, Goto, Finish, LoadSession,
                  StoreSession
<1>0. /\ pc \in [Tasks -> Places] /\ loaded \in [Tasks -> SessionRecords \cup {None}]
      /\ View("session") # None /\ Stream \notin Sends
  BY ViewType DEF TypeOK
<1>1. ASSUME NEW n \in 1..MaxMessages, ReceiveNode(n) PROVE LoadedInv'
  BY <1>0, <1>1 DEF ReceiveNode
<1>2. CASE DecryptSession \/ SessionFails
  BY <1>0, <1>2 DEF DecryptSession, SessionFails
<1>3. CASE PlaintextFails \/ ProcessKey \/ DecryptGroup \/ SkipMessage \/ SendReceipt
           \/ EmitUpdate \/ OtherEvent
  BY <1>0, <1>3 DEF PlaintextFails, ProcessKey, DecryptGroup, SkipMessage, SendReceipt, EmitUpdate, OtherEvent
<1>4. CASE Flush \/ Reconnect
  BY <1>0, <1>4 DEF Flush, Reconnect
<1>5. ASSUME NEW s \in Sends, SendNext(s) PROVE LoadedInv'
  <2>1. CASE StartSend(s) \/ SendFails(s) \/ SendStanza(s)
    BY <1>0, <2>1 DEF StartSend, SendFails, SendStanza
  <2>2. CASE LoadForSend(s)
    BY <1>0, <2>2 DEF LoadForSend
  <2>3. CASE Establish(s) \/ Encrypt(s)
    BY <1>0, <2>3 DEF Establish, Encrypt
  <2> QED
    BY <1>5, <2>1, <2>2, <2>3 DEF SendNext
<1>6. CASE Crash
  BY <1>6 DEF Crash
<1>7. ASSUME NEW group \in BOOLEAN, PeerSends(group) PROVE LoadedInv'
  BY <1>7 DEF PeerSends
<1>8. CASE UNCHANGED vars
  BY <1>8 DEF vars
<1> QED
  BY <1>1, <1>2, <1>3, <1>4, <1>5, <1>6, <1>7, <1>8 DEF Next, StreamNext

-----------------------------------------------------------------------------
(* The session record.                                                     *)

\* What SessionInv says beside the types.
RatchetInv == CountedInv /\ AheadInv /\ KeyReuseExplained /\ OneTimeKeyLeavesSession

\* Nothing has set the session back.
Clean == ~overlapped /\ "session" \notin wiped

\* A step that leaves the session and what was made of it alone.
LEMMA QuietStep ==
    ASSUME RatchetInv, View("session")' = View("session"),
           UNCHANGED <<stored, oneTime, key, overlapped, wiped>>
    PROVE  RatchetInv'
  BY DEF RatchetInv, CountedInv, AheadInv, KeyReuseExplained, OneTimeKeyLeavesSession

\* A task stores a later record than the one it has loaded.
LEMMA StoreStep ==
    ASSUME TypeOK, RatchetInv, NEW t \in Tasks, NEW record \in SessionRecords,
           loaded[t] \in SessionRecords, Extends(record, loaded[t]),
           StoreSession(t, record), UNCHANGED <<stored, wiped>>
    PROVE  /\ View("session")' = record /\ AheadInv'
           /\ ~overlapped' => ~overlapped /\ loaded[t] = View("session")
<1>1. View("session")' = record
  BY Names DEF TypeOK, StoreSession, View
<1>2. ~overlapped' => ~overlapped /\ loaded[t] = View("session")
  BY DEF StoreSession
<1>3. ASSUME ~overlapped' PROVE Extends(record, stored["session"])
  <2>1. Extends(View("session"), stored["session"]) /\ stored["session"] \in SessionRecords
    BY <1>2, <1>3 DEF RatchetInv, AheadInv, TypeOK
  <2> QED
    BY <1>2, <1>3, <2>1, ExtendsTransitive
<1> QED
  BY <1>1, <1>2, <1>3 DEF AheadInv

LEMMA DecryptStep == TypeOK /\ LoadedInv /\ RatchetInv /\ DecryptSession => RatchetInv'
<1> SUFFICES ASSUME TypeOK, LoadedInv, RatchetInv, DecryptSession PROVE RatchetInv'
  OBVIOUS
<1>1. /\ loaded[Stream] \in SessionRecords /\ StoreSession(Stream, Decrypted)
      /\ UNCHANGED <<stored, key, wiped>>
  BY Names DEF TypeOK, LoadedInv, DecryptSession
<1>2. /\ View("session")' = Decrypted /\ AheadInv'
      /\ ~overlapped' => ~overlapped /\ loaded[Stream] = View("session")
  BY <1>1, DecryptedType, StoreStep, Names
<1>3. CountedInv' /\ KeyReuseExplained'
  BY <1>1, <1>2, DecryptedType DEF RatchetInv, CountedInv, KeyReuseExplained
<1>4. OneTimeKeyLeavesSession'
  BY <1>2, DecryptedType DEF OneTimeKeyLeavesSession
<1> QED
  BY <1>2, <1>3, <1>4 DEF RatchetInv

LEMMA EstablishStep ==
    ASSUME TypeOK, LoadedInv, RatchetInv, NEW s \in Sends, Establish(s)
    PROVE  RatchetInv'
<1> DEFINE record == [loaded[s] EXCEPT !.knows = @ \cup {s}, !.current = s]
<1>1. /\ loaded[s] \in SessionRecords /\ StoreSession(s, record)
      /\ UNCHANGED <<stored, key, oneTime, wiped>>
  BY Names DEF TypeOK, LoadedInv, Establish
<1>2. /\ record \in SessionRecords /\ Extends(record, loaded[s]) /\ record.sent = loaded[s].sent
  BY EstablishedType
<1>3. /\ View("session")' = record /\ AheadInv'
      /\ ~overlapped' => ~overlapped /\ loaded[s] = View("session")
  BY <1>1, <1>2, StoreStep, Names
<1> HIDE DEF record
<1>4. CountedInv' /\ KeyReuseExplained'
  BY <1>1, <1>2, <1>3 DEF RatchetInv, CountedInv, KeyReuseExplained
<1>5. OneTimeKeyLeavesSession'
  BY <1>1, <1>2, <1>3 DEF RatchetInv, OneTimeKeyLeavesSession, Extends
<1> QED
  BY <1>3, <1>4, <1>5 DEF RatchetInv

LEMMA EncryptStep ==
    ASSUME TypeOK, LoadedInv, RatchetInv, NEW s \in Sends, Encrypt(s)
    PROVE  RatchetInv'
<1> DEFINE record == [loaded[s] EXCEPT !.sent[loaded[s].current] = @ + 1]
           current == loaded[s].current
<1>1. /\ loaded[s] \in SessionRecords /\ StoreSession(s, record)
      /\ UNCHANGED <<stored, oneTime, wiped>> /\ key' = [key EXCEPT ![s] = MessageKey(s)]
  BY Names DEF TypeOK, LoadedInv, Encrypt
<1>2. /\ record \in SessionRecords /\ Extends(record, loaded[s])
      /\ record.sent = [loaded[s].sent EXCEPT ![current] = @ + 1]
      /\ MessageKey(s) \in Sessions \X Nat
  BY EncryptedType
<1>3. /\ View("session")' = record /\ AheadInv'
      /\ ~overlapped' => ~overlapped /\ loaded[s] = View("session")
  BY <1>1, <1>2, StoreStep, Names
<1>4. OneTimeKeyLeavesSession'
  <2> HIDE DEF record
  <2> QED
    BY <1>1, <1>2, <1>3 DEF RatchetInv, OneTimeKeyLeavesSession, Extends
<1>5. ASSUME Clean' PROVE
      /\ \A r \in Sends : key'[r] # None => key'[r][2] < record.sent[key'[r][1]]
      /\ \A r \in Sends : r # s /\ key[r] # None => key[r] # MessageKey(s)
  <2>1. /\ loaded[s] = View("session") /\ ~overlapped /\ "session" \notin wiped
    BY <1>1, <1>3, <1>5 DEF Clean
  <2>2. \A r \in Sends : key[r] # None => key[r][2] < loaded[s].sent[key[r][1]]
    BY <2>1 DEF RatchetInv, CountedInv
  <2>3. \A r \in Sends : key[r] # None => key[r][1] \in Sessions /\ key[r][2] \in Nat
    BY DEF TypeOK
  <2>4. /\ MessageKey(s)[1] = current /\ MessageKey(s)[2] = loaded[s].sent[current]
        /\ current \in Sessions /\ loaded[s].sent \in [Sessions -> Nat]
    BY <1>1, <1>2 DEF MessageKey, SessionRecords
  <2>5. /\ key' \in [Sends -> (Sessions \X Nat) \cup {None}] /\ key'[s] = MessageKey(s)
        /\ \A r \in Sends \ {s} : key'[r] = key[r]
    BY <1>1, <1>2 DEF TypeOK
  <2>6. \A r \in Sends : r # s /\ key[r] # None => key[r] # MessageKey(s)
    BY <2>2, <2>3, <2>4
  <2>7. \A x \in Sessions : record.sent[x] = loaded[s].sent[x] + (IF x = current THEN 1 ELSE 0)
    BY <1>2, <2>4
  <2> HIDE DEF record, current
  <2>8. ASSUME NEW r \in Sends, key'[r] # None PROVE key'[r][2] < record.sent[key'[r][1]]
    <3>1. CASE r = s
      BY <2>4, <2>5, <2>7, <3>1
    <3>2. CASE r # s
      BY <2>2, <2>3, <2>4, <2>5, <2>7, <2>8, <3>2
    <3> QED
      BY <3>1, <3>2
  <2> QED
    BY <2>6, <2>8
<1>6. CountedInv'
  BY <1>3, <1>5 DEF CountedInv, Clean
<1>7. KeyReuseExplained'
  <2> SUFFICES ASSUME Clean', NEW r \in Sends, NEW q \in Sends, r # q,
                      key'[r] # None, key'[r] = key'[q]
               PROVE  FALSE
    BY DEF KeyReuseExplained, Clean
  <2>1. key'[s] = MessageKey(s) /\ \A p \in Sends \ {s} : key'[p] = key[p]
    BY <1>1 DEF TypeOK
  <2>2. CASE r = s \/ q = s
    BY <1>5, <2>1, <2>2
  <2>3. CASE r # s /\ q # s
    BY <1>1, <1>3, <2>1, <2>3 DEF RatchetInv, KeyReuseExplained, Clean
  <2> QED
    BY <2>2, <2>3
<1> QED
  BY <1>3, <1>4, <1>6, <1>7 DEF RatchetInv

\* A flush that writes the session catches up with the cache.
LEMMA FlushStep == TypeOK /\ RatchetInv /\ Flush => RatchetInv'
<1> SUFFICES ASSUME TypeOK, RatchetInv, Flush PROVE RatchetInv'
  OBVIOUS
<1>1. PICK written \in SUBSET Stores :
        stored' = [x \in Stores |-> IF x \in written THEN View(x) ELSE stored[x]]
  BY DEF Flush
<1>2. UNCHANGED <<cached, oneTime, key, overlapped, wiped>>
  BY DEF Flush, ghosts
<1>3. stored'["session"] \in {stored["session"], View("session")}
  BY <1>1, Names
<1>4. View("session")' = View("session")
  BY <1>1, <1>2, Names DEF View
<1>5. AheadInv'
  BY <1>2, <1>3, <1>4, ViewType, ExtendsReflexive DEF RatchetInv, AheadInv
<1> QED
  BY <1>2, <1>4, <1>5
  DEF RatchetInv, CountedInv, KeyReuseExplained, OneTimeKeyLeavesSession

\* A crash sets the session back to the backend's, or is not noticed.
LEMMA CrashStep == TypeOK /\ RatchetInv /\ Crash => RatchetInv'
<1> SUFFICES ASSUME TypeOK, RatchetInv, Crash PROVE RatchetInv'
  OBVIOUS
<1>1. UNCHANGED <<stored, oneTime, key, overlapped>>
  BY DEF Crash
<1>2. View("session")' = stored["session"]
  BY <1>1, Names DEF Crash, View
<1>3. "session" \notin wiped' => "session" \notin wiped /\ View("session") = stored["session"]
  BY Names DEF Crash
<1>4. AheadInv'
  BY <1>1, <1>2, ExtendsReflexive DEF AheadInv, TypeOK
<1> QED
  BY <1>1, <1>2, <1>3, <1>4
  DEF RatchetInv, CountedInv, KeyReuseExplained, OneTimeKeyLeavesSession

LEMMA RatchetStep == TypeOK /\ LoadedInv /\ RatchetInv /\ [Next]_vars => RatchetInv'
<1> SUFFICES ASSUME TypeOK, LoadedInv, RatchetInv, [Next]_vars PROVE RatchetInv'
  OBVIOUS
<1> USE Names DEF peerVars, netVars, storeVars, taskVars, ghosts, StoreSenderKey
<1>1. CASE UNCHANGED <<cached, stored, oneTime, key, overlapped, wiped>>
  BY <1>1, QuietStep DEF View
<1>2. CASE ProcessKey \/ DecryptGroup
  <2>1. /\ cached'["session"] = cached["session"]
        /\ UNCHANGED <<stored, oneTime, key, overlapped, wiped>>
    BY <1>2 DEF ProcessKey, DecryptGroup, TypeOK
  <2>2. View("session")' = View("session")
    BY <2>1 DEF View
  <2> QED
    BY <2>1, <2>2, QuietStep
<1>3. ASSUME NEW n \in 1..MaxMessages, ReceiveNode(n) PROVE RatchetInv'
  BY <1>1, <1>3 DEF ReceiveNode
<1>4. CASE SessionFails \/ PlaintextFails \/ SkipMessage \/ SendReceipt \/ EmitUpdate \/ OtherEvent
           \/ Reconnect
  BY <1>1, <1>4 DEF SessionFails, PlaintextFails, SkipMessage, SendReceipt, EmitUpdate, OtherEvent,
                   Reconnect
<1>5. ASSUME NEW group \in BOOLEAN, PeerSends(group) PROVE RatchetInv'
  BY <1>1, <1>5 DEF PeerSends
<1>6. ASSUME NEW s \in Sends, SendNext(s) PROVE RatchetInv'
  <2>1. CASE StartSend(s) \/ LoadForSend(s) \/ SendFails(s) \/ SendStanza(s)
    BY <1>1, <2>1 DEF StartSend, LoadForSend, SendFails, SendStanza
  <2> QED
    BY <1>6, <2>1, EstablishStep, EncryptStep DEF SendNext
<1>7. CASE UNCHANGED vars
  BY <1>1, <1>7 DEF vars
<1> QED
  BY <1>2, <1>3, <1>4, <1>5, <1>6, <1>7, DecryptStep, FlushStep, CrashStep DEF Next, StreamNext

\* The sender key in the cache is never behind the backend's.
LEMMA SenderKeyStep == TypeOK /\ SenderKeyInv /\ [Next]_vars => SenderKeyInv'
<1> SUFFICES ASSUME TypeOK, SenderKeyInv, [Next]_vars PROVE SenderKeyInv'
  OBVIOUS
<1> USE Names DEF peerVars, netVars, storeVars, taskVars, ghosts
<1>1. CASE cached'["senderKey"] = cached["senderKey"] /\ UNCHANGED stored
  BY <1>1 DEF SenderKeyInv, View
<1>2. ASSUME NEW record \in SenderKeys, ExtendsKey(record, View("senderKey")),
             StoreSenderKey(record), UNCHANGED stored
      PROVE  SenderKeyInv'
  <2>1. View("senderKey")' = record
    BY <1>2 DEF TypeOK, StoreSenderKey, View
  <2> QED
    BY <1>2, <2>1 DEF SenderKeyInv, ExtendsKey
<1>3. ASSUME NEW t \in Tasks, NEW record, StoreSession(t, record), UNCHANGED stored
      PROVE  SenderKeyInv'
  <2>1. cached'["senderKey"] = cached["senderKey"]
    BY <1>3 DEF StoreSession, TypeOK
  <2> QED
    BY <1>1, <1>3, <2>1
<1>4. CASE ProcessKey
  <2>1. /\ [View("senderKey") EXCEPT !.known = TRUE] \in SenderKeys
        /\ ExtendsKey([View("senderKey") EXCEPT !.known = TRUE], View("senderKey"))
    BY ViewType DEF SenderKeys, ExtendsKey
  <2> QED
    BY <1>2, <1>4, <2>1 DEF ProcessKey
<1>5. CASE DecryptGroup
  <2>1. cur \in Nat
    BY DEF TypeOK
  <2>2. /\ [View("senderKey") EXCEPT !.used = @ \cup {cur}] \in SenderKeys
        /\ ExtendsKey([View("senderKey") EXCEPT !.used = @ \cup {cur}], View("senderKey"))
    BY <2>1, ViewType DEF SenderKeys, ExtendsKey
  <2> QED
    BY <1>2, <1>5, <2>2 DEF DecryptGroup
<1>6. CASE Flush
  <2>1. PICK written \in SUBSET Stores :
          stored' = [x \in Stores |-> IF x \in written THEN View(x) ELSE stored[x]]
    BY <1>6 DEF Flush
  <2>2. UNCHANGED cached /\ stored'["senderKey"] \in {stored["senderKey"], View("senderKey")}
    BY <1>6, <2>1 DEF Flush
  <2> QED
    BY <2>2 DEF SenderKeyInv, ExtendsKey, View
<1>7. CASE Crash
  <2>1. View("senderKey")' = stored["senderKey"] /\ UNCHANGED stored
    BY <1>7 DEF Crash, View
  <2> QED
    BY <2>1 DEF SenderKeyInv, ExtendsKey
<1>8. CASE DecryptSession
  BY <1>3, <1>8 DEF DecryptSession
<1>9. ASSUME NEW s \in Sends, SendNext(s) PROVE SenderKeyInv'
  <2>1. CASE Establish(s) \/ Encrypt(s)
    BY <1>3, <2>1 DEF Establish, Encrypt
  <2>2. CASE StartSend(s) \/ LoadForSend(s) \/ SendFails(s) \/ SendStanza(s)
    BY <1>1, <2>2 DEF StartSend, LoadForSend, SendFails, SendStanza
  <2> QED
    BY <1>9, <2>1, <2>2 DEF SendNext
<1>10. ASSUME NEW n \in 1..MaxMessages, ReceiveNode(n) PROVE SenderKeyInv'
  BY <1>1, <1>10 DEF ReceiveNode
<1>11. CASE SessionFails \/ PlaintextFails \/ SkipMessage \/ SendReceipt \/ EmitUpdate \/ OtherEvent
           \/ Reconnect
  BY <1>1, <1>11 DEF SessionFails, PlaintextFails, SkipMessage, SendReceipt, EmitUpdate, OtherEvent,
                   Reconnect
<1>12. ASSUME NEW group \in BOOLEAN, PeerSends(group) PROVE SenderKeyInv'
  BY <1>1, <1>12 DEF PeerSends
<1>13. CASE UNCHANGED vars
  BY <1>1, <1>13 DEF vars
<1> QED
  BY <1>4, <1>5, <1>6, <1>7, <1>8, <1>9, <1>10, <1>11, <1>12, <1>13 DEF Next, StreamNext

-----------------------------------------------------------------------------
(* The theorems.                                                           *)

LEMMA Parts == SessionInv <=> TypeOK /\ LoadedInv /\ RatchetInv /\ SenderKeyInv
  BY DEF SessionInv, RatchetInv

LEMMA InitInv == Init => SessionInv
<1> SUFFICES ASSUME Init PROVE SessionInv
  OBVIOUS
<1>1. NoSession \in SessionRecords /\ NoSenderKey \in SenderKeys
  BY DEF NoSession, NoSenderKey, SessionRecords, SenderKeys
<1>2. RecordsOK
  BY <1>1 DEF Init, RecordsOK, Stores
<1>3. PlainOK
  <2>1. pc \in [Tasks -> Places]
    BY DEF Init, Places
  <2>2. 0 \in 0..(FlushEvery - 1) /\ <<>> \in Seq(Nodes)
    OBVIOUS
  <2> QED
    BY <2>1, <2>2 DEF Init, PlainOK
<1>4. LoadedInv
  BY DEF Init, LoadedInv
<1>5. View("session") = NoSession
  BY Names DEF Init, View, Stores
<1>6. RatchetInv
  BY <1>1, <1>5, ExtendsReflexive
  DEF Init, RatchetInv, CountedInv, AheadInv, KeyReuseExplained, OneTimeKeyLeavesSession
<1>7. SenderKeyInv
  BY Names DEF Init, SenderKeyInv, ExtendsKey, View, Stores, NoSenderKey
<1> QED
  BY <1>2, <1>3, <1>4, <1>6, <1>7, TypeParts, Parts

LEMMA StepInv == SessionInv /\ [Next]_vars => SessionInv'
<1> SUFFICES ASSUME SessionInv, [Next]_vars PROVE SessionInv'
  OBVIOUS
<1>1. TypeOK'
  BY RecordStep, PlainStep, Parts DEF TypeOK, RecordsOK, PlainOK
<1>2. LoadedInv' /\ RatchetInv' /\ SenderKeyInv'
  BY LoadedStep, RatchetStep, SenderKeyStep, Parts
<1> QED
  BY <1>1, <1>2 DEF SessionInv, RatchetInv

\* The inductive invariant: types, a task that stores has loaded, the cached
\* session counts past every message key in use and extends the stored one
\* (the update stream and send_message share the record without a lock).
THEOREM SessionInvariant == Spec => []SessionInv
  BY InitInv, StepInv, PTL DEF Spec

\* No message key comes twice unless a crash or an overlap has set the
\* session back (store_session puts into the cache, flush comes later).
THEOREM KeysOnce == Spec => []KeyReuseExplained
<1>1. SessionInv => KeyReuseExplained
  BY DEF SessionInv
<1> QED
  BY <1>1, SessionInvariant, PTL

\* The session that used up the one-time key is still there, unless a crash
\* or an overlap has lost it (remove_pre_key goes to the backend at once).
THEOREM OneTimeKey == Spec => []OneTimeKeyLeavesSession
<1>1. SessionInv => OneTimeKeyLeavesSession
  BY DEF SessionInv
<1> QED
  BY <1>1, SessionInvariant, PTL

\* What a step writes to the backend extends what was there.
LEMMA StoredStep ==
    SessionInv /\ [Next]_vars =>
        [/\ Extends(stored'["session"], stored["session"]) \/ overlapped'
         /\ ExtendsKey(stored'["senderKey"], stored["senderKey"])]_stored
<1> SUFFICES ASSUME SessionInv, [Next]_vars, stored' # stored
             PROVE  /\ Extends(stored'["session"], stored["session"]) \/ overlapped'
                    /\ ExtendsKey(stored'["senderKey"], stored["senderKey"])
  OBVIOUS
<1>1. Flush
  <2>1. \A n \in 1..MaxMessages : ~ReceiveNode(n)
    BY DEF ReceiveNode, storeVars
  <2>2. ~(DecryptSession \/ SessionFails \/ PlaintextFails \/ ProcessKey \/ DecryptGroup \/ SkipMessage)
    BY DEF DecryptSession, SessionFails, PlaintextFails, ProcessKey, DecryptGroup, SkipMessage,
           storeVars
  <2>3. ~(SendReceipt \/ EmitUpdate \/ OtherEvent \/ Reconnect \/ Crash)
    BY DEF SendReceipt, EmitUpdate, OtherEvent, Reconnect, Crash, storeVars, taskVars
  <2>4. \A s \in Sends : ~SendNext(s)
    BY DEF SendNext, StartSend, LoadForSend, SendFails, Establish, Encrypt, SendStanza, storeVars
  <2>5. \A group \in BOOLEAN : ~PeerSends(group)
    BY DEF PeerSends, storeVars
  <2>6. ~UNCHANGED vars
    BY DEF vars, storeVars
  <2> QED
    BY <2>1, <2>2, <2>3, <2>4, <2>5, <2>6 DEF Next, StreamNext
<1>2. PICK written \in SUBSET Stores :
        stored' = [x \in Stores |-> IF x \in written THEN View(x) ELSE stored[x]]
  BY <1>1 DEF Flush
<1>3. \A x \in Stores : stored'[x] \in {stored[x], View(x)}
  BY <1>2
<1>4. UNCHANGED overlapped
  BY <1>1 DEF Flush, ghosts
<1>5. Extends(stored'["session"], stored["session"]) \/ overlapped'
  BY <1>3, <1>4, Names, ExtendsReflexive DEF SessionInv, AheadInv, TypeOK
<1>6. ExtendsKey(stored'["senderKey"], stored["senderKey"])
  BY <1>3, Names DEF SessionInv, SenderKeyInv, ExtendsKey
<1> QED
  BY <1>5, <1>6

\* The backend never goes back: a flush after any order of loads, stores and
\* crashes writes a later session and a later sender key, unless two tasks
\* have overlapped on the session (updates.rs flushes, signal_adapter.rs reads
\* through the cache).
THEOREM NeverGoesBack == Spec => StoredNeverGoesBack
  BY SessionInvariant, StoredStep, PTL DEF Spec, StoredNeverGoesBack

-----------------------------------------------------------------------------
(* Delivery: what the stream decrypts, shows and acknowledges.             *)

\* Nothing has set back what was decrypted.
Untouched == ~overlapped /\ wiped = {}

\* The messages decrypted in the session and with the sender key, whether the
\* sender key is known and whether the peer's session is open.
SessionUsed == View("session").used
GroupUsed == View("senderKey").used
KeyKnown == View("senderKey").known
Opened == Peer \in View("session").knows

\* The stream is at work on a message, and past its decryption.
Working == pc[Stream] \notin {"recv", "flush"}
Passing == pc[Stream] \in {"receipt", "emit"}

\* The application has been handed message n, is about to be, or never will be.
Handled(n) == shown[n] > 0 \/ (Passing /\ cur = n) \/ n \in dropped

\* The stream is done with message n on this connection.
Past(n) == n # cur /\ (n < cursor \/ n < cur)

\* What the peer sends, and where the stream is with it.
PlaceInv ==
    /\ Len(nodes) <= MaxMessages
    /\ cursor \in 1..(Len(nodes) + 1) /\ receipted \subseteq 1..Len(nodes)
    /\ dropped \subseteq 1..Len(nodes)
    /\ pc[Stream] \in {"recv", "session", "key", "group", "receipt", "emit", "flush"}
    /\ IF Working THEN cur \in 1..Len(nodes) ELSE cur = 0
    /\ pc[Stream] = "session" => nodes[cur].enc # "none"
    /\ pc[Stream] = "key" => nodes[cur].enc = "key"
    /\ \A n \in 1..Len(nodes) :
          /\ nodes[n].enc = "text" => ~nodes[n].group
          /\ nodes[n].enc = "none" => \E k \in 1..(n - 1) : nodes[k].enc = "key"
          /\ nodes[n].enc = "none" => nodes[n].group

\* A send whose stanza is about to be written has encrypted it.
KeyedInv == \A s \in Sends : pc[s] \in {"send", "queued"} => key[s] # None

\* A message with a receipt was shown, is about to be, or was given up.
ReceiptInv ==
    \A n \in receipted : shown[n] > 0 \/ (pc[Stream] = "emit" /\ cur = n) \/ n \in dropped

\* The peer's session stays once it is open, and until then the peer's
\* messages can open it.
OpenInv ==
    /\ View("session").current = Peer => Opened
    /\ \/ Opened
       \/ /\ oneTime /\ ~replied
          /\ \A n \in 1..Len(nodes) : nodes[n].pk
          /\ \A s \in Sends : key[s] # None => key[s][1] # Peer
    /\ pc[Stream] = "session" =>
          /\ loaded[Stream].used = SessionUsed
          /\ Peer \in loaded[Stream].knows <=> Opened

\* What was decrypted was handed on.
UsedInv ==
    /\ \A n \in SessionUsed :
          /\ n \in 1..Len(nodes)
          /\ nodes[n].enc = "text" => Handled(n)
          /\ nodes[n].enc = "key" => KeyKnown \/ n \in dropped \/ (pc[Stream] = "key" /\ cur = n)
    /\ \A n \in GroupUsed : n \in 1..Len(nodes) /\ Handled(n)
    /\ pc[Stream] = "key" => cur \in SessionUsed \ stored["session"].used
    /\ pc[Stream] = "group" /\ nodes[cur].enc = "text" => Handled(cur)
    /\ pc[Stream] = "group" \/ Passing => (nodes[cur].enc = "key" => KeyKnown \/ cur \in dropped)

\* What the stream is done with was shown, or has a reason.
DoneInv ==
    /\ \A n \in 1..Len(nodes) :
          nodes[n].enc = "key" /\ (Past(n) \/ n \in receipted) => KeyKnown \/ n \in dropped
    /\ \A n \in 1..Len(nodes) :
          n < cursor /\ n # cur => shown[n] > 0 \/ nodes[n].enc = "key" \/ GivenUp(n)

\* What was shown was decrypted.
Read(n) == IF nodes[n].enc = "text" THEN n \in SessionUsed ELSE n \in GroupUsed

OnceInv ==
    /\ \A n \in 1..MaxMessages :
          shown[n] <= 1 /\ (shown[n] > 0 => n \in 1..Len(nodes) /\ Read(n))
    /\ Passing => shown[cur] = 0 /\ Read(cur)

DeliveryInv ==
    /\ PlaceInv /\ KeyedInv /\ ReceiptInv
    /\ Untouched => OpenInv /\ UsedInv /\ DoneInv /\ OnceInv

\* What was set back stays set back.
LEMMA UntouchedBefore ==
    ASSUME SessionInv, [Next]_vars, Untouched' PROVE Untouched
<1> USE DEF Untouched, ghosts
<1>1. ASSUME NEW n \in 1..MaxMessages, ReceiveNode(n) PROVE Untouched
  BY <1>1 DEF ReceiveNode
<1>2. CASE DecryptSession
  BY <1>2 DEF DecryptSession, StoreSession
<1>3. CASE SessionFails \/ PlaintextFails \/ ProcessKey \/ DecryptGroup \/ SkipMessage
           \/ SendReceipt \/ EmitUpdate \/ OtherEvent \/ Flush \/ Reconnect
  BY <1>3 DEF SessionFails, PlaintextFails, ProcessKey, DecryptGroup, SkipMessage, SendReceipt, EmitUpdate,
              OtherEvent, Flush, Reconnect
<1>4. ASSUME NEW s \in Sends, SendNext(s) PROVE Untouched
  <2>1. CASE StartSend(s) \/ LoadForSend(s) \/ SendFails(s) \/ SendStanza(s)
    BY <2>1 DEF StartSend, LoadForSend, SendFails, SendStanza
  <2>2. CASE Establish(s) \/ Encrypt(s)
    BY <2>2 DEF Establish, Encrypt, StoreSession
  <2> QED
    BY <1>4, <2>1, <2>2 DEF SendNext
<1>5. CASE Crash
  BY <1>5 DEF Crash
<1>6. ASSUME NEW group \in BOOLEAN, PeerSends(group) PROVE Untouched
  BY <1>6 DEF PeerSends
<1>7. CASE UNCHANGED vars
  BY <1>7 DEF vars
<1> QED
  BY <1>1, <1>2, <1>3, <1>4, <1>5, <1>6, <1>7 DEF Next, StreamNext

\* A send leaves everything that is the stream's alone.
LEMMA SendFrame ==
    ASSUME SessionInv, NEW s \in Sends, SendNext(s)
    PROVE  /\ UNCHANGED <<stored, oneTime, nodes, cursor, receipted, cur, shown, dropped, wiped>>
           /\ pc'[Stream] = pc[Stream] /\ loaded'[Stream] = loaded[Stream]
<1>0. /\ s \in Tasks /\ s # Stream /\ Stream \in Tasks
      /\ pc \in [Tasks -> Places] /\ loaded \in [Tasks -> SessionRecords \cup {None}]
  BY Parts, Names DEF TypeOK
<1> USE DEF storeVars, peerVars, netVars, ghosts
<1>1. CASE StartSend(s) \/ SendStanza(s)
  <2>1. PICK place : pc' = [pc EXCEPT ![s] = place]
    BY <1>1 DEF StartSend, SendStanza, Goto
  <2>2. pc'[Stream] = pc[Stream]
    BY <1>0, <2>1
  <2>3. /\ UNCHANGED <<stored, oneTime, nodes, cursor, receipted, cur, shown, dropped, wiped>>
        /\ UNCHANGED loaded
    <3>1. CASE StartSend(s)
      BY <3>1 DEF StartSend
    <3>2. CASE SendStanza(s)
      BY <3>2 DEF SendStanza
    <3> QED
      BY <1>1, <3>1, <3>2
  <2> QED
    BY <2>2, <2>3
<1>2. CASE LoadForSend(s)
  BY <1>0, <1>2 DEF LoadForSend, LoadSession, Goto
<1>3. CASE Establish(s)
  BY <1>0, <1>3 DEF Establish, StoreSession, Goto
<1>4. CASE Encrypt(s)
  BY <1>0, <1>4 DEF Encrypt, StoreSession, Goto
<1>5. CASE SendFails(s)
  <2>1. PICK place : pc' = [pc EXCEPT ![s] = place]
    BY <1>5 DEF SendFails, Goto
  <2>2. loaded' = [loaded EXCEPT ![s] = None]
    BY <1>5 DEF SendFails
  <2>3. UNCHANGED <<stored, oneTime, nodes, cursor, receipted, cur, shown, dropped, wiped>>
    BY <1>5 DEF SendFails
  <2> QED
    BY <1>0, <2>1, <2>2, <2>3
<1> QED
  BY <1>1, <1>2, <1>3, <1>4, <1>5 DEF SendNext

\* The session that a send stores has decrypted what the one before had, and
\* is no closer to the peer's.
LEMMA SendView ==
    ASSUME SessionInv, NEW s \in Sends, SendNext(s), Untouched'
    PROVE  /\ SessionUsed' = SessionUsed /\ GroupUsed' = GroupUsed /\ KeyKnown' = KeyKnown
           /\ Opened' = Opened
           /\ View("session")'.current = Peer => View("session").current = Peer
<1> USE DEF SessionUsed, GroupUsed, KeyKnown, Opened
<1>0. /\ TypeOK /\ LoadedInv /\ RatchetInv /\ s \in Tasks
      /\ loaded \in [Tasks -> SessionRecords \cup {None}]
  BY Parts, Names DEF TypeOK
<1>1. CASE StartSend(s) \/ LoadForSend(s) \/ SendFails(s) \/ SendStanza(s)
  <2>1. UNCHANGED <<cached, stored>>
    BY <1>1 DEF StartSend, LoadForSend, SendFails, SendStanza, storeVars
  <2> QED
    BY <2>1 DEF View
<1>2. ASSUME NEW record \in SessionRecords, Extends(record, loaded[s]),
             loaded[s] \in SessionRecords, StoreSession(s, record),
             record.used = loaded[s].used, Peer \in record.knows <=> Peer \in loaded[s].knows,
             record.current = Peer => loaded[s].current = Peer,
             UNCHANGED <<stored, wiped>>
      PROVE  /\ SessionUsed' = SessionUsed /\ GroupUsed' = GroupUsed /\ KeyKnown' = KeyKnown
             /\ Opened' = Opened
             /\ View("session")'.current = Peer => View("session").current = Peer
  <2>1. View("session")' = record /\ loaded[s] = View("session")
    BY <1>0, <1>2, StoreStep DEF Untouched
  <2>2. View("senderKey")' = View("senderKey")
    BY <1>0, <1>2 DEF TypeOK, StoreSession, View
  <2> QED
    BY <1>2, <2>1, <2>2
<1>3. CASE Establish(s)
  <2> DEFINE record == [loaded[s] EXCEPT !.knows = @ \cup {s}, !.current = s]
  <2>1. record \in SessionRecords /\ Extends(record, loaded[s]) /\ loaded[s] \in SessionRecords
    BY <1>0, <1>3, EstablishedType DEF Establish, LoadedInv
  <2>2. /\ record.used = loaded[s].used /\ record.current = s
        /\ record.knows = loaded[s].knows \cup {s}
    BY <2>1 DEF SessionRecords
  <2>3. s # Peer
    OBVIOUS
  <2>4. UNCHANGED <<stored, wiped>> /\ StoreSession(s, record)
    BY <1>3 DEF Establish
  <2> HIDE DEF record
  <2> QED
    BY <1>2, <2>1, <2>2, <2>3, <2>4
<1>4. CASE Encrypt(s)
  <2> DEFINE record == [loaded[s] EXCEPT !.sent[loaded[s].current] = @ + 1]
  <2>1. record \in SessionRecords /\ Extends(record, loaded[s]) /\ loaded[s] \in SessionRecords
    BY <1>0, <1>4, EncryptedType DEF Encrypt, LoadedInv
  <2>2. /\ record.used = loaded[s].used /\ record.current = loaded[s].current
        /\ record.knows = loaded[s].knows
    BY <2>1 DEF SessionRecords
  <2>4. UNCHANGED <<stored, wiped>> /\ StoreSession(s, record)
    BY <1>4 DEF Encrypt
  <2> HIDE DEF record
  <2> QED
    BY <1>2, <2>1, <2>2, <2>4
<1> QED
  BY <1>1, <1>3, <1>4 DEF SendNext

\* What a send encrypts with is the session as it is.
LEMMA EncryptView ==
    ASSUME SessionInv, NEW s \in Sends, Encrypt(s), Untouched'
    PROVE  loaded[s] = View("session")
<1>1. TypeOK
  BY Parts
<1> QED
  BY <1>1, Names DEF Encrypt, StoreSession, Untouched, TypeOK

\* A step of the stream, the peer or the network that stores nothing, and a
\* crash that sets nothing back, leave what was decrypted.
LEMMA QuietView ==
    ASSUME UNCHANGED <<cached, stored>>
    PROVE  /\ SessionUsed' = SessionUsed /\ GroupUsed' = GroupUsed /\ KeyKnown' = KeyKnown
           /\ Opened' = Opened /\ View("session")' = View("session")
  BY DEF SessionUsed, GroupUsed, KeyKnown, Opened, View

LEMMA FlushView ==
    ASSUME SessionInv, Flush
    PROVE  /\ SessionUsed' = SessionUsed /\ GroupUsed' = GroupUsed /\ KeyKnown' = KeyKnown
           /\ Opened' = Opened /\ View("session")' = View("session")
<1>1. PICK written \in SUBSET Stores :
        stored' = [x \in Stores |-> IF x \in written THEN View(x) ELSE stored[x]]
  BY DEF Flush
<1>2. View("session")' = View("session") /\ View("senderKey")' = View("senderKey")
  BY <1>1, Names DEF Flush, View
<1> QED
  BY <1>2 DEF SessionUsed, GroupUsed, KeyKnown, Opened

LEMMA CrashView ==
    ASSUME SessionInv, Crash, Untouched'
    PROVE  /\ SessionUsed' = SessionUsed /\ GroupUsed' = GroupUsed /\ KeyKnown' = KeyKnown
           /\ Opened' = Opened /\ View("session")' = View("session")
           /\ stored["session"] = View("session")
<1>1. \A x \in Stores : View(x)' = stored[x] /\ View(x) = stored[x]
  BY DEF Crash, View, Untouched
<1> QED
  BY <1>1, Names DEF SessionUsed, GroupUsed, KeyKnown, Opened

\* The session part of a message is decrypted.
LEMMA DecryptView ==
    ASSUME SessionInv, DecryptSession, Untouched'
    PROVE  /\ View("session") = loaded[Stream] /\ View("session")'.current = Peer
           /\ SessionUsed' = SessionUsed \cup {cur} /\ cur \notin SessionUsed
           /\ GroupUsed' = GroupUsed /\ KeyKnown' = KeyKnown /\ Opened'
<1>0. TypeOK /\ LoadedInv /\ RatchetInv /\ loaded[Stream] \in SessionRecords
  BY Parts, Names DEF DecryptSession, LoadedInv, TypeOK
<1>1. StoreSession(Stream, Decrypted) /\ UNCHANGED <<stored, wiped>>
  BY DEF DecryptSession
<1>2. View("session")' = Decrypted /\ loaded[Stream] = View("session")
  BY <1>0, <1>1, DecryptedType, StoreStep, Names DEF Untouched
<1>3. /\ Decrypted.used = loaded[Stream].used \cup {cur} /\ Decrypted.current = Peer
      /\ Peer \in Decrypted.knows
  BY <1>0 DEF Decrypted, SessionRecords
<1>4. View("senderKey")' = View("senderKey")
  BY <1>0, <1>1 DEF TypeOK, StoreSession, View
<1> QED
  BY <1>2, <1>3, <1>4
  DEF DecryptSession, Decrypts, SessionUsed, GroupUsed, KeyKnown, Opened

\* A sender key is stored, new or advanced.
LEMMA ProcessView ==
    ASSUME SessionInv, ProcessKey
    PROVE  /\ SessionUsed' = SessionUsed /\ GroupUsed' = GroupUsed /\ KeyKnown'
           /\ Opened' = Opened /\ View("session")' = View("session")
<1>0. TypeOK /\ View("senderKey") \in SenderKeys
  BY Parts, ViewType
<1>1. /\ View("senderKey")' = [View("senderKey") EXCEPT !.known = TRUE]
      /\ View("session")' = View("session")
  BY <1>0, Names DEF ProcessKey, StoreSenderKey, TypeOK, View, SenderKeys
<1> QED
  BY <1>0, <1>1 DEF SessionUsed, GroupUsed, KeyKnown, Opened, SenderKeys

LEMMA GroupView ==
    ASSUME SessionInv, DecryptGroup
    PROVE  /\ SessionUsed' = SessionUsed /\ GroupUsed' = GroupUsed \cup {cur}
           /\ cur \notin GroupUsed /\ KeyKnown /\ KeyKnown' /\ nodes[cur].group
           /\ Opened' = Opened /\ View("session")' = View("session")
<1>0. TypeOK /\ View("senderKey") \in SenderKeys
  BY Parts, ViewType
<1>1. /\ View("senderKey")' = [View("senderKey") EXCEPT !.used = @ \cup {cur}]
      /\ View("session")' = View("session")
  BY <1>0, Names DEF DecryptGroup, StoreSenderKey, TypeOK, View, SenderKeys
<1> QED
  BY <1>0, <1>1 DEF DecryptGroup, GroupDecrypts, SessionUsed, GroupUsed, KeyKnown, Opened, SenderKeys

\* What the peer appends.
LEMMA PeerView ==
    ASSUME SessionInv, PlaceInv, NEW group \in BOOLEAN, PeerSends(group)
    PROVE  /\ UNCHANGED <<replied, netVars, storeVars, taskVars, key, shown, ghosts>>
           /\ Len(nodes') = Len(nodes) + 1 /\ Len(nodes') <= MaxMessages
           /\ \A n \in 1..Len(nodes) : nodes'[n] = nodes[n]
           /\ LET new == nodes'[Len(nodes) + 1]
              IN /\ new.pk = ~replied
                 /\ new.enc = "text" => ~new.group
                 /\ new.enc = "none" => new.group /\ \E k \in 1..Len(nodes) : nodes[k].enc = "key"
<1>1. nodes \in Seq(Nodes) /\ Len(nodes) \in Nat /\ replied \in BOOLEAN
  BY Parts DEF TypeOK
<1>2. Len(nodes) < MaxMessages
  <2> DEFINE started == {s \in Sends : pc[s] # "new"}
  <2>1. Cardinality(started) \in Nat
    BY FS_Subset, FS_CardinalityType
  <2>2. Len(nodes) + Cardinality(started) < MaxMessages
    BY DEF PeerSends, OneMore
  <2> HIDE DEF started
  <2> QED
    BY <1>1, <2>1, <2>2
<1> DEFINE keySent == \E i \in 1..Len(nodes) : nodes[i].enc = "key"
           enc == IF ~group THEN "text" ELSE IF keySent THEN "none" ELSE "key"
           new == [enc |-> enc, group |-> group, pk |-> ~replied]
<1>3. nodes' = Append(nodes, new)
  BY DEF PeerSends
<1>4. /\ new.pk = ~replied
      /\ new.enc = "text" => ~new.group
      /\ new.enc = "none" => new.group /\ keySent
  OBVIOUS
<1>5. /\ Len(nodes') = Len(nodes) + 1 /\ nodes'[Len(nodes) + 1] = new
      /\ \A n \in 1..Len(nodes) : nodes'[n] = nodes[n]
  <2> HIDE DEF new
  <2>1. new \in Nodes
    BY <1>1 DEF new, Nodes
  <2> QED
    BY <1>1, <1>3, <2>1
<1>6. UNCHANGED <<replied, netVars, storeVars, taskVars, key, shown, ghosts>>
  BY DEF PeerSends
<1> QED
  BY <1>1, <1>2, <1>4, <1>5, <1>6

\* The steps of the stream, as far as places and numbers go.
LEMMA ReceiveMove ==
    ASSUME SessionInv, NEW n \in 1..MaxMessages, ReceiveNode(n)
    PROVE  /\ pc[Stream] = "recv" /\ n \in cursor..Len(nodes) /\ n \in 1..MaxMessages
           /\ cursor..(n - 1) \subseteq receipted /\ cursor' = n + 1 /\ cur' = n
           /\ UNCHANGED <<peerVars, receipted, storeVars, key, shown, ghosts>>
           /\ \/ pc'[Stream] = "group" /\ nodes[n].enc = "none"
              \/ /\ pc'[Stream] = "session" /\ nodes[n].enc # "none"
                 /\ loaded'[Stream] = View("session")
           /\ \A s \in Sends : pc'[s] = pc[s]
<1>1. pc \in [Tasks -> Places] /\ loaded \in [Tasks -> SessionRecords \cup {None}]
  BY Parts DEF TypeOK
<1> QED
  BY <1>1, Names DEF ReceiveNode, LoadSession, Goto

LEMMA DecryptMove ==
    ASSUME SessionInv, DecryptSession
    PROVE  /\ pc[Stream] = "session" /\ Decrypts
           /\ UNCHANGED <<peerVars, netVars, stored, cur, key, shown, wiped>>
           /\ \/ pc'[Stream] = "key" /\ nodes[cur].enc = "key" /\ UNCHANGED dropped
              \/ pc'[Stream] = "receipt" /\ nodes[cur].enc # "key" /\ UNCHANGED dropped
              \/ pc'[Stream] = "group" /\ dropped' = dropped \cup {cur}
           /\ \A s \in Sends : pc'[s] = pc[s]
<1>1. pc \in [Tasks -> Places]
  BY Parts DEF TypeOK
<1> QED
  BY <1>1, Names DEF DecryptSession, GiveUp, Goto

LEMMA StreamMove ==
    ASSUME SessionInv
    PROVE  /\ SessionFails => /\ pc[Stream] = "session" /\ pc'[Stream] = "group"
                              /\ \/ ~Decrypts /\ UNCHANGED dropped
                                 \/ dropped' = dropped \cup {cur}
                              /\ UNCHANGED <<peerVars, netVars, storeVars, cur, key, shown>>
           /\ PlaintextFails => /\ pc[Stream] \in {"key", "receipt"} /\ pc'[Stream] = "recv"
                                /\ cur' = 0 /\ dropped' = dropped \cup {cur}
                                /\ UNCHANGED <<peerVars, netVars, storeVars, key, shown>>
           /\ ProcessKey => /\ pc[Stream] = "key" /\ pc'[Stream] = "recv" /\ cur' = 0
                            /\ UNCHANGED <<peerVars, netVars, stored, oneTime, key, shown, ghosts>>
           /\ DecryptGroup => /\ pc[Stream] = "group" /\ GroupDecrypts /\ pc'[Stream] = "receipt"
                              /\ UNCHANGED <<peerVars, netVars, stored, oneTime, cur, key, shown,
                                             ghosts>>
           /\ SkipMessage => /\ pc[Stream] = "group" /\ pc'[Stream] = "recv" /\ cur' = 0
                             /\ \/ ~GroupDecrypts /\ UNCHANGED dropped
                                \/ dropped' = dropped \cup {cur}
                             /\ UNCHANGED <<peerVars, netVars, storeVars, key, shown>>
           /\ SendReceipt => /\ pc[Stream] = "receipt" /\ pc'[Stream] = "emit"
                             /\ receipted' \in {receipted, receipted \cup {cur}}
                             /\ UNCHANGED <<peerVars, cursor, storeVars, cur, key, shown, ghosts>>
           /\ EmitUpdate => /\ pc[Stream] = "emit" /\ pc'[Stream] = "recv" /\ cur' = 0
                            /\ shown' = [shown EXCEPT ![cur] = @ + 1]
                            /\ UNCHANGED <<peerVars, netVars, storeVars, key, ghosts>>
           /\ OtherEvent => /\ pc[Stream] = "recv" /\ pc'[Stream] \in {"recv", "flush"}
                            /\ UNCHANGED <<peerVars, netVars, storeVars, cur, key, shown, ghosts>>
           /\ Flush => /\ pc[Stream] = "flush" /\ pc'[Stream] = "recv"
                       /\ UNCHANGED <<peerVars, netVars, cached, oneTime, cur, key, shown, ghosts>>
           /\ SessionFails \/ PlaintextFails \/ ProcessKey \/ DecryptGroup \/ SkipMessage \/ SendReceipt
              \/ EmitUpdate \/ OtherEvent \/ Flush => \A s \in Sends : pc'[s] = pc[s]
<1>1. pc \in [Tasks -> Places] /\ Stream \in Tasks /\ Stream \notin Sends /\ Sends \subseteq Tasks
  BY Parts, Names DEF TypeOK
<1>2. SessionFails \/ PlaintextFails \/ ProcessKey \/ DecryptGroup \/ SkipMessage \/ SendReceipt
              \/ EmitUpdate \/ OtherEvent \/ Flush => \E place : pc' = [pc EXCEPT ![Stream] = place]
  BY DEF SessionFails, PlaintextFails, ProcessKey, DecryptGroup, SkipMessage, SendReceipt, EmitUpdate,
         OtherEvent, Flush, GiveUp, Goto, Finish
<1>3. SessionFails \/ PlaintextFails \/ ProcessKey \/ DecryptGroup \/ SkipMessage \/ SendReceipt
              \/ EmitUpdate \/ OtherEvent \/ Flush => \A s \in Sends : pc'[s] = pc[s]
  BY <1>1, <1>2
<1> QED
  BY <1>1, <1>3
  DEF SessionFails, PlaintextFails, ProcessKey, DecryptGroup, SkipMessage, SendReceipt, EmitUpdate,
      OtherEvent, Flush, GiveUp, Goto, Finish

LEMMA CrashMove ==
    ASSUME SessionInv, Crash
    PROVE  /\ pc'[Stream] = "recv" /\ cur' = 0 /\ cursor' = 1
           /\ UNCHANGED <<peerVars, receipted, stored, oneTime, key, shown>>
           /\ dropped \subseteq dropped' /\ (Passing => cur \in dropped')
           /\ dropped' \subseteq dropped \cup {cur} /\ (~Passing => UNCHANGED dropped)
           /\ \A s \in Sends : pc'[s] \notin {"send", "queued"}
  BY Names DEF Crash, Passing

\* Where the stream is with the peer's messages.
LEMMA PlaceStep == SessionInv /\ PlaceInv /\ [Next]_vars => PlaceInv'
<1> SUFFICES ASSUME SessionInv, PlaceInv, [Next]_vars PROVE PlaceInv'
  OBVIOUS
<1>0. Len(nodes) \in Nat /\ cursor \in Nat /\ cur \in Nat /\ nodes \in Seq(Nodes)
  BY Parts DEF TypeOK
<1> USE DEF PlaceInv, Working
<1>1. ASSUME NEW n \in 1..MaxMessages, ReceiveNode(n) PROVE PlaceInv'
  <2>1. /\ nodes' = nodes /\ receipted' = receipted /\ cursor' = n + 1 /\ cur' = n
        /\ dropped' = dropped /\ n \in cursor..Len(nodes)
    BY <1>1, ReceiveMove DEF peerVars, ghosts
  <2>2. n \in 1..Len(nodes) /\ cursor' \in 1..(Len(nodes) + 1)
    BY <1>0, <2>1
  <2>3. \/ pc'[Stream] = "group"
        \/ pc'[Stream] = "session" /\ nodes[n].enc # "none"
    BY <1>1, ReceiveMove
  <2>4. CASE pc'[Stream] = "group"
    BY <2>1, <2>2, <2>4
  <2>5. CASE pc'[Stream] = "session" /\ nodes[n].enc # "none"
    BY <2>1, <2>2, <2>5
  <2> QED
    BY <2>3, <2>4, <2>5
<1>2. CASE DecryptSession
  BY <1>0, <1>2, DecryptMove DEF peerVars, netVars
<1>3. CASE SessionFails \/ PlaintextFails \/ ProcessKey \/ DecryptGroup \/ SkipMessage
  BY <1>0, <1>3, StreamMove DEF peerVars, netVars, ghosts
<1>4. CASE SendReceipt \/ EmitUpdate \/ OtherEvent \/ Flush
  BY <1>0, <1>4, StreamMove DEF peerVars, netVars, ghosts
<1>5. ASSUME NEW s \in Sends, SendNext(s) PROVE PlaceInv'
  BY <1>0, <1>5, SendFrame
<1>6. CASE Crash
  <2>1. /\ nodes' = nodes /\ receipted' = receipted /\ cursor' = 1 /\ cur' = 0
        /\ pc'[Stream] = "recv" /\ dropped' \subseteq 1..Len(nodes)
    BY <1>6, CrashMove DEF peerVars, Passing
  <2>2. cursor' \in 1..(Len(nodes) + 1)
    BY <1>0, <2>1
  <2> QED
    BY <2>1, <2>2
<1>7. CASE Reconnect
  BY <1>0, <1>7 DEF Reconnect, peerVars, taskVars, ghosts
<1>8. ASSUME NEW group \in BOOLEAN, PeerSends(group) PROVE PlaceInv'
  <2>1. UNCHANGED <<cursor, receipted, dropped, pc, cur>> /\ Len(nodes') = Len(nodes) + 1
    BY <1>8, PeerView DEF netVars, taskVars, ghosts
  <2>2. \A n \in 1..Len(nodes') :
          /\ nodes'[n].enc = "text" => ~nodes'[n].group
          /\ nodes'[n].enc = "none" => \E k \in 1..(n - 1) : nodes'[k].enc = "key"
          /\ nodes'[n].enc = "none" => nodes'[n].group
    <3>1. ASSUME NEW n \in 1..Len(nodes), nodes'[n].enc = "none"
          PROVE  \E k \in 1..(n - 1) : nodes'[k].enc = "key"
      <4>1. PICK k \in 1..(n - 1) : nodes[k].enc = "key"
        BY <1>8, <3>1, PeerView
      <4>2. k \in 1..Len(nodes)
        BY <1>0
      <4> QED
        BY <1>8, <4>1, <4>2, PeerView
    <3>2. nodes'[Len(nodes) + 1].enc = "none" =>
            \E k \in 1..(Len(nodes) + 1 - 1) : nodes'[k].enc = "key"
      BY <1>0, <1>8, PeerView
    <3>3. \A n \in 1..Len(nodes') : n \in 1..Len(nodes) \/ n = Len(nodes) + 1
      BY <1>0, <2>1
    <3>4. \A n \in 1..Len(nodes') :
            /\ nodes'[n].enc = "text" => ~nodes'[n].group
            /\ nodes'[n].enc = "none" => nodes'[n].group
      BY <1>8, <3>3, PeerView
    <3> QED
      BY <3>1, <3>2, <3>3, <3>4
  <2>3. Len(nodes') <= MaxMessages /\ \A n \in 1..Len(nodes) : nodes'[n] = nodes[n]
    BY <1>8, PeerView
  <2> QED
    BY <1>0, <2>1, <2>2, <2>3
<1>9. CASE UNCHANGED vars
  BY <1>9 DEF vars, peerVars, netVars, taskVars, ghosts
<1> QED
  BY <1>1, <1>2, <1>3, <1>4, <1>5, <1>6, <1>7, <1>8, <1>9 DEF Next, StreamNext

\* A send has its key before it is written.
LEMMA KeyedStep == SessionInv /\ PlaceInv /\ KeyedInv /\ [Next]_vars => KeyedInv'
<1> SUFFICES ASSUME SessionInv, PlaceInv, KeyedInv, [Next]_vars PROVE KeyedInv'
  OBVIOUS
<1>0. /\ pc \in [Tasks -> Places] /\ key \in [Sends -> (Sessions \X Nat) \cup {None}]
      /\ TypeOK /\ LoadedInv
  BY Parts DEF TypeOK
<1> USE DEF KeyedInv
<1>1. ASSUME NEW n \in 1..MaxMessages, ReceiveNode(n) PROVE KeyedInv'
  BY <1>1, ReceiveMove
<1>2. CASE DecryptSession
  BY <1>2, DecryptMove
<1>3. CASE SessionFails \/ PlaintextFails \/ ProcessKey \/ DecryptGroup \/ SkipMessage \/ SendReceipt
           \/ EmitUpdate \/ OtherEvent \/ Flush
  BY <1>3, StreamMove
<1>4. ASSUME NEW s \in Sends, SendNext(s) PROVE KeyedInv'
  <2>1. CASE StartSend(s)
    BY <1>0, <2>1, Names DEF StartSend, Goto
  <2>2. CASE LoadForSend(s)
    BY <1>0, <2>2, Names DEF LoadForSend, LoadSession, Goto
  <2>3. CASE SendFails(s) \/ SendStanza(s)
    BY <1>0, <2>3, Names DEF SendFails, SendStanza, Goto
  <2>4. CASE Establish(s)
    BY <1>0, <2>4, Names DEF Establish, Goto
  <2>5. CASE Encrypt(s)
    <3>1. key'[s] = MessageKey(s) /\ MessageKey(s) # None
      BY <1>0, <2>5, EncryptedType DEF Encrypt
    <3>2. \A r \in Sends \ {s} : key'[r] = key[r] /\ pc'[r] = pc[r]
      BY <1>0, <2>5, Names DEF Encrypt, Goto
    <3> QED
      BY <3>1, <3>2
  <2> QED
    BY <1>4, <2>1, <2>2, <2>3, <2>4, <2>5 DEF SendNext
<1>5. CASE Crash
  BY <1>5, CrashMove
<1>6. CASE Reconnect
  BY <1>6 DEF Reconnect, taskVars
<1>7. ASSUME NEW group \in BOOLEAN, PeerSends(group) PROVE KeyedInv'
  BY <1>7, PeerView DEF taskVars
<1>8. CASE UNCHANGED vars
  BY <1>8 DEF vars, taskVars
<1> QED
  BY <1>1, <1>2, <1>3, <1>4, <1>5, <1>6, <1>7, <1>8 DEF Next, StreamNext

\* The server's receipts.
LEMMA ReceiptStep == SessionInv /\ PlaceInv /\ ReceiptInv /\ [Next]_vars => ReceiptInv'
<1> SUFFICES ASSUME SessionInv, PlaceInv, ReceiptInv, [Next]_vars PROVE ReceiptInv'
  OBVIOUS
<1>0. /\ Len(nodes) \in Nat /\ cur \in Nat /\ shown \in [1..MaxMessages -> Nat]
      /\ \A n \in receipted : n \in 1..MaxMessages
  BY Parts DEF TypeOK, PlaceInv
<1> USE DEF ReceiptInv
<1>1. ASSUME NEW n \in 1..MaxMessages, ReceiveNode(n) PROVE ReceiptInv'
  BY <1>1, ReceiveMove DEF ghosts
<1>2. CASE DecryptSession
  BY <1>2, DecryptMove DEF netVars
<1>3. CASE SessionFails \/ PlaintextFails \/ ProcessKey \/ DecryptGroup \/ SkipMessage \/ OtherEvent \/ Flush
  BY <1>3, StreamMove DEF netVars, ghosts
<1>4. CASE SendReceipt
  BY <1>4, StreamMove DEF ghosts
<1>5. CASE EmitUpdate
  <2>1. cur \in 1..MaxMessages
    BY <1>0, <1>5, StreamMove DEF PlaceInv, Working
  <2>2. shown'[cur] > 0 /\ \A n \in (1..MaxMessages) \ {cur} : shown'[n] = shown[n]
    BY <1>0, <1>5, <2>1, StreamMove
  <2> QED
    BY <1>0, <1>5, <2>2, StreamMove DEF netVars, ghosts
<1>6. ASSUME NEW s \in Sends, SendNext(s) PROVE ReceiptInv'
  BY <1>6, SendFrame
<1>7. CASE Crash
  BY <1>7, CrashMove DEF Passing
<1>8. CASE Reconnect
  BY <1>8 DEF Reconnect, taskVars, ghosts
<1>9. ASSUME NEW group \in BOOLEAN, PeerSends(group) PROVE ReceiptInv'
  BY <1>9, PeerView DEF netVars, taskVars, ghosts
<1>10. CASE UNCHANGED vars
  BY <1>10 DEF vars, netVars, taskVars, ghosts
<1> QED
  BY <1>1, <1>2, <1>3, <1>4, <1>5, <1>6, <1>7, <1>8, <1>9, <1>10 DEF Next, StreamNext

\* The peer's session, open or still to be opened.
LEMMA OpenStep ==
    ASSUME SessionInv, PlaceInv, KeyedInv, OpenInv, [Next]_vars, Untouched'
    PROVE  OpenInv'
<1>0. /\ Len(nodes) \in Nat /\ replied \in BOOLEAN
      /\ key \in [Sends -> (Sessions \X Nat) \cup {None}]
  BY Parts DEF TypeOK
<1> USE DEF OpenInv
<1>1. ASSUME NEW n \in 1..MaxMessages, ReceiveNode(n) PROVE OpenInv'
  <2>1. UNCHANGED <<nodes, replied, cached, stored, oneTime, key>>
    BY <1>1, ReceiveMove DEF peerVars, storeVars
  <2>2. pc'[Stream] = "session" => loaded'[Stream] = View("session")
    BY <1>1, ReceiveMove
  <2> QED
    BY <2>1, <2>2, QuietView DEF SessionUsed, Opened
<1>2. CASE DecryptSession
  BY <1>2, DecryptMove, DecryptView
<1>3. CASE SessionFails \/ PlaintextFails \/ SkipMessage \/ SendReceipt \/ EmitUpdate \/ OtherEvent
  <2>1. UNCHANGED <<nodes, replied, cached, stored, oneTime, key>> /\ pc'[Stream] # "session"
    BY <1>3, StreamMove DEF peerVars, storeVars
  <2> QED
    BY <2>1, QuietView
<1>4. CASE ProcessKey \/ DecryptGroup \/ Flush
  <2>1. UNCHANGED <<nodes, replied, oneTime, key>> /\ pc'[Stream] # "session"
    BY <1>4, StreamMove DEF peerVars
  <2> QED
    BY <1>4, <2>1, ProcessView, GroupView, FlushView
<1>5. ASSUME NEW s \in Sends, SendNext(s) PROVE OpenInv'
  <2>1. /\ SessionUsed' = SessionUsed /\ Opened' = Opened
        /\ View("session")'.current = Peer => View("session").current = Peer
        /\ UNCHANGED <<nodes, oneTime>>
        /\ pc'[Stream] = pc[Stream] /\ loaded'[Stream] = loaded[Stream]
    BY <1>5, SendFrame, SendView
  <2>2. ASSUME ~Opened
        PROVE  ~replied' /\ \A r \in Sends : key'[r] # None => key'[r][1] # Peer
    <3>1. CASE StartSend(s) \/ LoadForSend(s) \/ SendFails(s) \/ Establish(s)
      BY <2>2, <3>1 DEF StartSend, LoadForSend, SendFails, Establish, peerVars
    <3>2. CASE SendStanza(s)
      <4>1. key[s] # None /\ key[s][1] # Peer
        BY <2>2, <3>2 DEF SendStanza, KeyedInv
      <4> QED
        BY <2>2, <3>2, <4>1 DEF SendStanza
    <3>3. CASE Encrypt(s)
      <4>1. loaded[s] = View("session") /\ MessageKey(s)[1] # Peer
        BY <1>5, <2>2, <3>3, EncryptView DEF MessageKey
      <4>2. key'[s] = MessageKey(s) /\ \A r \in Sends \ {s} : key'[r] = key[r]
        BY <1>0, <3>3 DEF Encrypt
      <4>3. replied' = replied
        BY <3>3 DEF Encrypt, peerVars
      <4> QED
        BY <2>2, <4>1, <4>2, <4>3
    <3> QED
      BY <1>5, <3>1, <3>2, <3>3 DEF SendNext
  <2> QED
    BY <2>1, <2>2
<1>6. CASE Crash
  BY <1>6, CrashMove, CrashView DEF peerVars
<1>7. CASE Reconnect
  <2>1. UNCHANGED <<nodes, replied, cached, stored, oneTime, key, pc, loaded>>
    BY <1>7 DEF Reconnect, peerVars, storeVars, taskVars
  <2> QED
    BY <2>1, QuietView
<1>8. ASSUME NEW group \in BOOLEAN, PeerSends(group) PROVE OpenInv'
  <2>1. UNCHANGED <<replied, cached, stored, oneTime, key, pc, loaded>>
    BY <1>8, PeerView DEF storeVars, taskVars
  <2>2. \A n \in 1..Len(nodes') : n \in 1..Len(nodes) \/ n = Len(nodes) + 1
    BY <1>0, <1>8, PeerView
  <2>3. /\ \A n \in 1..Len(nodes) : nodes'[n] = nodes[n]
        /\ nodes'[Len(nodes) + 1].pk = ~replied
    BY <1>8, PeerView
  <2>4. ~Opened => \A n \in 1..Len(nodes') : nodes'[n].pk
    BY <2>2, <2>3
  <2> QED
    BY <2>1, <2>4, QuietView
<1>9. CASE UNCHANGED vars
  <2>1. UNCHANGED <<nodes, replied, cached, stored, oneTime, key, pc, loaded>>
    BY <1>9 DEF vars, peerVars, storeVars, taskVars
  <2> QED
    BY <2>1, QuietView
<1> QED
  BY <1>1, <1>2, <1>3, <1>4, <1>5, <1>6, <1>7, <1>8, <1>9 DEF Next, StreamNext

\* What was decrypted is handed on.
LEMMA UsedStep ==
    ASSUME SessionInv, PlaceInv, OpenInv, UsedInv, [Next]_vars, Untouched'
    PROVE  UsedInv'
<1>0. /\ Len(nodes) \in Nat /\ cur \in Nat /\ shown \in [1..MaxMessages -> Nat]
      /\ \A n \in 1..Len(nodes) : n \in 1..MaxMessages
  BY Parts DEF TypeOK, PlaceInv
<1> USE DEF UsedInv, Handled, Passing
<1>1. ASSUME NEW n \in 1..MaxMessages, ReceiveNode(n) PROVE UsedInv'
  <2>1. UNCHANGED <<nodes, cached, stored, shown, dropped>> /\ ~Passing /\ pc[Stream] # "key"
    BY <1>1, ReceiveMove DEF peerVars, storeVars, ghosts
  <2>2. /\ cur' = n /\ pc'[Stream] \in {"group", "session"}
        /\ pc'[Stream] = "group" => nodes[n].enc = "none"
    BY <1>1, ReceiveMove
  <2> QED
    BY <2>1, <2>2, QuietView
<1>2. CASE DecryptSession
  <2>1. /\ UNCHANGED <<nodes, cur, stored, shown>> /\ pc[Stream] = "session"
        /\ \/ pc'[Stream] = "key" /\ nodes[cur].enc = "key" /\ UNCHANGED dropped
           \/ pc'[Stream] = "receipt" /\ nodes[cur].enc # "key" /\ UNCHANGED dropped
           \/ pc'[Stream] = "group" /\ dropped' = dropped \cup {cur}
    BY <1>2, DecryptMove DEF peerVars
  <2>2. /\ SessionUsed' = SessionUsed \cup {cur} /\ cur \notin SessionUsed
        /\ GroupUsed' = GroupUsed /\ KeyKnown' = KeyKnown /\ cur \in 1..Len(nodes)
    BY <1>2, <2>1, DecryptView DEF PlaceInv, Working
  <2>3. stored["session"].used \subseteq SessionUsed
    BY UntouchedBefore DEF SessionInv, AheadInv, Extends, Untouched, SessionUsed
  <2>4. Handled(cur)' \/ nodes[cur].enc = "key"
    BY <2>1
  <2>5. nodes[cur].enc = "key" => cur \in dropped' \/ pc'[Stream] = "key"
    BY <2>1
  <2>6. \A n \in 1..Len(nodes) : Handled(n) /\ n # cur => Handled(n)'
    BY <2>1
  <2>7. ~Passing /\ pc[Stream] # "key" /\ dropped \subseteq dropped'
    BY <2>1
  <2>8. \A n \in GroupUsed' : n \in 1..Len(nodes') /\ Handled(n)'
    BY <2>1, <2>2, <2>7
  <2>9. \A n \in SessionUsed' :
          /\ n \in 1..Len(nodes')
          /\ nodes'[n].enc = "text" => Handled(n)'
          /\ nodes'[n].enc = "key" =>
                KeyKnown' \/ n \in dropped' \/ (pc'[Stream] = "key" /\ cur' = n)
    BY <2>1, <2>2, <2>4, <2>5, <2>6, <2>7
  <2>10. /\ pc'[Stream] = "key" => cur' \in SessionUsed' \ stored'["session"].used
         /\ pc'[Stream] = "group" /\ nodes'[cur'].enc = "text" => Handled(cur)'
         /\ pc'[Stream] = "group" \/ Passing' =>
               (nodes'[cur'].enc = "key" => KeyKnown' \/ cur' \in dropped')
    BY <2>1, <2>2, <2>3, <2>4, <2>5
  <2> QED
    BY <2>1, <2>8, <2>9, <2>10
<1>3. CASE SessionFails
  <2>1. /\ UNCHANGED <<nodes, cached, stored, shown, cur>> /\ dropped \subseteq dropped'
        /\ pc[Stream] = "session" /\ pc'[Stream] = "group"
        /\ ~Decrypts \/ cur \in dropped'
    BY <1>3, StreamMove DEF peerVars, storeVars
  <2>2. cur \in SessionUsed \/ cur \in dropped'
    BY <2>1 DEF OpenInv, Decrypts, OpensSession, PlaceInv, Working
  <2> QED
    BY <2>1, <2>2, QuietView
<1>4. CASE ProcessKey
  BY <1>4, StreamMove, ProcessView DEF peerVars, ghosts
<1>5. CASE DecryptGroup
  <2>1. /\ UNCHANGED <<nodes, cur, stored, shown, dropped>>
        /\ pc[Stream] = "group" /\ pc'[Stream] = "receipt"
    BY <1>5, StreamMove DEF peerVars, ghosts
  <2>2. cur \in 1..Len(nodes)
    BY <2>1 DEF PlaceInv, Working
  <2> QED
    BY <1>5, <2>1, <2>2, GroupView
<1>6. CASE SkipMessage \/ SendReceipt \/ OtherEvent
  <2>1. UNCHANGED <<nodes, cached, stored, shown>> /\ dropped \subseteq dropped'
    BY <1>6, StreamMove DEF peerVars, storeVars, ghosts
  <2>2. \/ pc[Stream] \in {"group", "recv"} /\ pc'[Stream] \in {"recv", "flush"}
        \/ pc[Stream] = "receipt" /\ pc'[Stream] = "emit" /\ cur' = cur
    BY <1>6, StreamMove
  <2> QED
    BY <2>1, <2>2, QuietView
<1>13. CASE PlaintextFails
  <2>1. /\ UNCHANGED <<nodes, cached, stored, shown>> /\ dropped \subseteq dropped'
        /\ pc'[Stream] = "recv" /\ cur \in dropped'
    BY <1>13, StreamMove DEF peerVars, storeVars
  <2> QED
    BY <2>1, QuietView
<1>7. CASE EmitUpdate
  <2>1. /\ UNCHANGED <<nodes, cached, stored, dropped>>
        /\ pc[Stream] = "emit" /\ pc'[Stream] = "recv"
        /\ shown' = [shown EXCEPT ![cur] = @ + 1]
    BY <1>7, StreamMove DEF peerVars, storeVars, ghosts
  <2>2. cur \in 1..Len(nodes)
    BY <2>1 DEF PlaceInv, Working
  <2>3. shown'[cur] > 0 /\ \A n \in (1..MaxMessages) \ {cur} : shown'[n] = shown[n]
    BY <1>0, <2>1, <2>2
  <2>4. \A n \in 1..Len(nodes) : Handled(n) => Handled(n)'
    BY <1>0, <2>1, <2>3
  <2> QED
    BY <2>1, <2>4, QuietView
<1>8. CASE Flush
  BY <1>8, StreamMove, FlushView DEF peerVars, ghosts
<1>9. ASSUME NEW s \in Sends, SendNext(s) PROVE UsedInv'
  BY <1>9, SendFrame, SendView
<1>10. CASE Crash
  <2>1. /\ UNCHANGED <<nodes, shown>> /\ pc'[Stream] = "recv"
        /\ dropped \subseteq dropped' /\ (Passing => cur \in dropped')
    BY <1>10, CrashMove DEF peerVars
  <2>2. pc[Stream] # "key"
    BY <1>10, CrashView DEF SessionUsed
  <2> QED
    BY <1>10, <2>1, <2>2, CrashView
<1>11. CASE Reconnect \/ UNCHANGED vars
  <2>1. UNCHANGED <<nodes, cached, stored, shown, dropped, pc, cur>>
    BY <1>11 DEF Reconnect, vars, peerVars, storeVars, taskVars, ghosts
  <2> QED
    BY <2>1, QuietView
<1>12. ASSUME NEW group \in BOOLEAN, PeerSends(group) PROVE UsedInv'
  <2>1. UNCHANGED <<cached, stored, shown, dropped, pc, cur>>
    BY <1>12, PeerView DEF storeVars, taskVars, ghosts
  <2>2. /\ Len(nodes') = Len(nodes) + 1
        /\ \A n \in 1..Len(nodes) : nodes'[n] = nodes[n]
    BY <1>12, PeerView
  <2>3. \A n \in 1..Len(nodes) : n \in 1..Len(nodes')
    BY <1>0, <2>2
  <2>4. pc[Stream] \in {"key", "group", "receipt", "emit"} => cur \in 1..Len(nodes)
    BY DEF PlaceInv, Working
  <2> QED
    BY <2>1, <2>2, <2>3, <2>4, QuietView
<1> QED
  BY <1>1, <1>2, <1>3, <1>4, <1>5, <1>6, <1>7, <1>8, <1>9, <1>10, <1>11, <1>12, <1>13
  DEF Next, StreamNext

\* What the stream is done with.
LEMMA DoneStep ==
    ASSUME SessionInv, PlaceInv, ReceiptInv, UsedInv, DoneInv, [Next]_vars, Untouched'
    PROVE  DoneInv'
<1>0. /\ Len(nodes) \in Nat /\ cur \in Nat /\ cursor \in Nat
      /\ shown \in [1..MaxMessages -> Nat] /\ receipted \subseteq 1..Len(nodes)
      /\ \A n \in 1..Len(nodes) : n \in 1..MaxMessages
      /\ nodes \in Seq(Nodes) /\ dropped \subseteq 1..Len(nodes)
  BY Parts DEF TypeOK, PlaceInv
<1> USE DEF DoneInv, Past, GivenUp
<1>1. ASSUME NEW n \in 1..MaxMessages, ReceiveNode(n) PROVE DoneInv'
  <2>1. /\ UNCHANGED <<nodes, receipted, cached, stored, shown, dropped>>
        /\ pc[Stream] = "recv" /\ cursor' = n + 1 /\ cur' = n /\ n \in cursor..Len(nodes)
        /\ cursor..(n - 1) \subseteq receipted
    BY <1>1, ReceiveMove DEF peerVars, storeVars, ghosts
  <2>2. cur = 0
    BY <2>1 DEF PlaceInv, Working
  <2>3. \A m \in 1..Len(nodes) : Past(m)' => (m < cursor /\ m # cur) \/ m \in receipted
    BY <1>0, <2>1, <2>2
  <2>4. \A m \in receipted : shown[m] > 0 \/ m \in dropped
    BY <2>1 DEF ReceiptInv
  <2>5. \A m \in 1..Len(nodes) :
          m < cursor' /\ m # cur' => shown[m] > 0 \/ nodes[m].enc = "key" \/ GivenUp(m)
    BY <1>0, <2>1, <2>3, <2>4
  <2> QED
    BY <2>1, <2>3, <2>5, QuietView
<1>2. CASE DecryptSession
  <2>1. UNCHANGED <<nodes, cursor, receipted, cur, shown>> /\ dropped \subseteq dropped'
    BY <1>2, DecryptMove DEF peerVars, netVars
  <2> QED
    BY <1>2, <2>1, DecryptView
<1>3. CASE SessionFails \/ DecryptGroup \/ OtherEvent \/ Flush
  <2>1. UNCHANGED <<nodes, cursor, receipted, cur, shown>> /\ dropped \subseteq dropped'
    BY <1>3, StreamMove DEF peerVars, netVars, ghosts
  <2>2. KeyKnown' <=> KeyKnown
    <3>1. SessionFails \/ OtherEvent => UNCHANGED <<cached, stored>>
      BY StreamMove DEF storeVars
    <3> QED
      BY <1>3, <3>1, QuietView, GroupView, FlushView
  <2> QED
    BY <2>1, <2>2
<1>4. CASE ProcessKey
  <2>1. /\ UNCHANGED <<nodes, cursor, receipted, shown, dropped>>
        /\ pc[Stream] = "key" /\ cur' = 0
    BY <1>4, StreamMove DEF peerVars, netVars, ghosts
  <2>2. nodes[cur].enc = "key"
    BY <2>1 DEF PlaceInv
  <2>3. \A n \in 1..Len(nodes) :
          n < cursor' /\ n # cur' => shown[n] > 0 \/ nodes[n].enc = "key" \/ GivenUp(n)
    BY <2>1, <2>2
  <2> QED
    BY <1>4, <2>1, <2>3, ProcessView
<1>5. CASE SkipMessage /\ UNCHANGED dropped /\ ~GroupDecrypts
  <2>1. /\ UNCHANGED <<nodes, cursor, receipted, cached, stored, shown, dropped>>
        /\ pc[Stream] = "group" /\ cur' = 0 /\ ~GroupDecrypts
    BY <1>5, StreamMove DEF peerVars, netVars, storeVars
  <2>2. cur \in 1..Len(nodes)
    BY <2>1 DEF PlaceInv, Working
  <2>3. nodes[cur].enc = "key" => KeyKnown \/ cur \in dropped
    BY <2>1 DEF UsedInv
  <2>4. Handled(cur) => shown[cur] > 0 \/ GivenUp(cur)
    BY <1>0, <2>1 DEF Handled, Passing
  <2>5. nodes[cur].enc = "text" => shown[cur] > 0 \/ GivenUp(cur)
    BY <2>1, <2>4 DEF UsedInv
  <2>6. ASSUME nodes[cur].enc = "none" PROVE shown[cur] > 0 \/ GivenUp(cur)
    <3>1. ~KeyKnown \/ cur \in GroupUsed
      BY <2>1, <2>2, <2>6 DEF GroupDecrypts, KeyKnown, GroupUsed, PlaceInv
    <3>2. ASSUME ~KeyKnown PROVE GivenUp(cur)
      <4>1. PICK k \in 1..(cur - 1) : nodes[k].enc = "key"
        BY <2>2, <2>6 DEF PlaceInv
      <4>2. k \in 1..Len(nodes) /\ k < cur /\ Past(k)
        BY <1>0, <2>2, <4>1
      <4>3. k \in dropped
        BY <3>2, <4>1, <4>2
      <4> QED
        BY <2>6, <4>1, <4>3
    <3> QED
      BY <2>4, <3>1, <3>2 DEF UsedInv
  <2>7. nodes[cur].enc \in {"text", "key", "none"}
    <3>1. nodes[cur] \in Nodes
      BY <1>0, <2>2
    <3> QED
      BY <3>1 DEF Nodes
  <2>8. shown[cur] > 0 \/ nodes[cur].enc = "key" \/ GivenUp(cur)
    BY <2>5, <2>6, <2>7
  <2>9. \A n \in 1..Len(nodes) : Past(n)' => Past(n) \/ n = cur
    BY <1>0, <2>1
  <2>10. \A n \in 1..Len(nodes) :
           n < cursor' /\ n # cur' => shown[n] > 0 \/ nodes[n].enc = "key" \/ GivenUp(n)
    BY <2>1, <2>8
  <2>11. \A n \in 1..Len(nodes) :
           nodes[n].enc = "key" /\ (Past(n)' \/ n \in receipted) => KeyKnown \/ n \in dropped
    BY <2>3, <2>9
  <2> QED
    BY <2>1, <2>10, <2>11, QuietView
<1>13. CASE (SkipMessage \/ PlaintextFails) /\ dropped' = dropped \cup {cur}
  <2>1. /\ UNCHANGED <<nodes, cursor, receipted, cached, stored, shown>> /\ cur' = 0
        /\ dropped' = dropped \cup {cur}
    BY <1>13, StreamMove DEF peerVars, netVars, storeVars
  <2>2. KeyKnown' <=> KeyKnown
    BY <2>1, QuietView
  <2>3. \A n \in 1..Len(nodes) : Past(n)' => Past(n) \/ n = cur
    BY <1>0, <2>1
  <2>4. \A n \in 1..Len(nodes) : GivenUp(n) \/ n = cur => GivenUp(n)'
    BY <2>1
  <2> QED
    BY <2>1, <2>2, <2>3, <2>4
<1>6. CASE SendReceipt
  <2>1. /\ UNCHANGED <<nodes, cursor, cur, cached, stored, shown, dropped>>
        /\ pc[Stream] = "receipt" /\ receipted' \subseteq receipted \cup {cur}
    BY <1>6, StreamMove DEF peerVars, storeVars, ghosts
  <2>2. nodes[cur].enc = "key" => KeyKnown \/ cur \in dropped
    BY <2>1 DEF UsedInv, Passing
  <2> QED
    BY <2>1, <2>2, QuietView
<1>7. CASE EmitUpdate
  <2>1. /\ UNCHANGED <<nodes, cursor, receipted, cached, stored, dropped>>
        /\ pc[Stream] = "emit" /\ cur' = 0 /\ shown' = [shown EXCEPT ![cur] = @ + 1]
    BY <1>7, StreamMove DEF peerVars, netVars, storeVars, ghosts
  <2>2. cur \in 1..Len(nodes)
    BY <2>1 DEF PlaceInv, Working
  <2>3. shown'[cur] > 0 /\ \A n \in (1..MaxMessages) \ {cur} : shown'[n] = shown[n]
    BY <1>0, <2>1, <2>2
  <2>4. nodes[cur].enc = "key" => KeyKnown \/ cur \in dropped
    BY <2>1 DEF UsedInv, Passing
  <2>5. \A n \in 1..Len(nodes) : Past(n)' => Past(n) \/ n = cur
    BY <1>0, <2>1
  <2>6. \A n \in 1..Len(nodes) :
          n < cursor' /\ n # cur' => shown'[n] > 0 \/ nodes[n].enc = "key" \/ GivenUp(n)
    BY <1>0, <2>1, <2>3
  <2>7. \A n \in 1..Len(nodes) :
          nodes[n].enc = "key" /\ (Past(n)' \/ n \in receipted) => KeyKnown \/ n \in dropped
    BY <2>4, <2>5
  <2> QED
    BY <2>1, <2>6, <2>7, QuietView
<1>8. ASSUME NEW s \in Sends, SendNext(s) PROVE DoneInv'
  BY <1>8, SendFrame, SendView
<1>9. CASE Crash
  <2>1. /\ UNCHANGED <<nodes, receipted, shown>> /\ cursor' = 1 /\ cur' = 0
        /\ dropped \subseteq dropped' /\ KeyKnown' = KeyKnown
    BY <1>9, CrashMove, CrashView DEF peerVars
  <2>2. \A n \in 1..Len(nodes) : ~(n < cursor') /\ ~Past(n)'
    BY <1>0, <2>1
  <2> QED
    BY <2>1, <2>2
<1>10. CASE Reconnect
  <2>1. /\ UNCHANGED <<nodes, receipted, shown, cur, dropped, cached, stored>> /\ cursor' = 1
    BY <1>10 DEF Reconnect, peerVars, storeVars, taskVars, ghosts
  <2>2. \A n \in 1..Len(nodes) : ~(n < cursor') /\ (Past(n)' => Past(n))
    BY <1>0, <2>1
  <2> QED
    BY <2>1, <2>2, QuietView
<1>11. ASSUME NEW group \in BOOLEAN, PeerSends(group) PROVE DoneInv'
  <2>1. UNCHANGED <<cached, stored, shown, dropped, cursor, receipted, cur>>
    BY <1>11, PeerView DEF netVars, storeVars, taskVars, ghosts
  <2>2. /\ Len(nodes') = Len(nodes) + 1
        /\ \A n \in 1..Len(nodes) : nodes'[n] = nodes[n]
    BY <1>11, PeerView
  <2>3. \A n \in 1..Len(nodes') : n \in 1..Len(nodes) \/ n = Len(nodes) + 1
    BY <1>0, <2>2
  <2>4. /\ ~(Len(nodes) + 1 < cursor) /\ ~(Len(nodes) + 1 < cur)
        /\ Len(nodes) + 1 \notin receipted
    BY <1>0 DEF PlaceInv
  <2>5. \A n \in 1..Len(nodes) : GivenUp(n) => GivenUp(n)'
    BY <1>0, <2>1, <2>2
  <2> QED
    BY <2>1, <2>2, <2>3, <2>4, <2>5, QuietView
<1>12. CASE UNCHANGED vars
  <2>1. UNCHANGED <<nodes, receipted, shown, cur, cursor, dropped, cached, stored>>
    BY <1>12 DEF vars, peerVars, netVars, storeVars, taskVars, ghosts
  <2> QED
    BY <2>1, QuietView
<1>14. SkipMessage => \/ UNCHANGED dropped /\ ~GroupDecrypts
                      \/ dropped' = dropped \cup {cur}
  BY StreamMove
<1>15. PlaintextFails => dropped' = dropped \cup {cur}
  BY StreamMove
<1> QED
  BY <1>1, <1>2, <1>3, <1>4, <1>5, <1>6, <1>7, <1>8, <1>9, <1>10, <1>11, <1>12, <1>13,
     <1>14, <1>15
  DEF Next, StreamNext

\* What was shown has been decrypted, and is shown once.
LEMMA OnceStep ==
    ASSUME SessionInv, PlaceInv, OnceInv, [Next]_vars, Untouched'
    PROVE  OnceInv'
<1>0. /\ Len(nodes) \in Nat /\ cur \in Nat /\ shown \in [1..MaxMessages -> Nat]
      /\ \A n \in 1..Len(nodes) : n \in 1..MaxMessages
      /\ nodes \in Seq(Nodes)
  BY Parts DEF TypeOK, PlaceInv
<1> USE DEF OnceInv, Read
<1>1. ASSUME UNCHANGED <<nodes, shown>>, SessionUsed \subseteq SessionUsed',
             GroupUsed \subseteq GroupUsed', Passing' => Passing /\ cur' = cur
      PROVE  OnceInv'
  BY <1>1
<1>2. ASSUME NEW n \in 1..MaxMessages, ReceiveNode(n) PROVE OnceInv'
  <2>1. UNCHANGED <<nodes, cached, stored, shown>> /\ ~Passing'
    BY <1>2, ReceiveMove DEF peerVars, storeVars, Passing
  <2> QED
    BY <1>1, <2>1, QuietView
<1>3. CASE DecryptSession
  <2>1. /\ UNCHANGED <<nodes, cur, shown>> /\ pc[Stream] = "session"
        /\ Passing' => nodes[cur].enc # "key"
    BY <1>3, DecryptMove DEF peerVars, Passing
  <2>2. /\ SessionUsed' = SessionUsed \cup {cur} /\ cur \notin SessionUsed
        /\ GroupUsed' = GroupUsed /\ cur \in 1..Len(nodes) /\ nodes[cur].enc # "none"
    BY <1>3, <2>1, DecryptView DEF PlaceInv, Working
  <2>3. nodes[cur].enc \in {"text", "key", "none"}
    <3>1. nodes[cur] \in Nodes
      BY <1>0, <2>2
    <3> QED
      BY <3>1 DEF Nodes
  <2>4. Passing' => shown[cur] = 0 /\ Read(cur)'
    BY <1>0, <2>1, <2>2, <2>3
  <2> QED
    BY <2>1, <2>2, <2>4
<1>4. CASE SessionFails \/ PlaintextFails \/ SkipMessage \/ SendReceipt \/ OtherEvent
  <2>1. /\ UNCHANGED <<nodes, cached, stored, shown>>
        /\ Passing' => Passing /\ cur' = cur
    BY <1>4, StreamMove DEF peerVars, storeVars, Passing
  <2> QED
    BY <1>1, <2>1, QuietView
<1>5. CASE ProcessKey \/ Flush
  <2>1. UNCHANGED <<nodes, shown>> /\ ~Passing'
    BY <1>5, StreamMove DEF peerVars, Passing
  <2>2. SessionUsed' = SessionUsed /\ GroupUsed' = GroupUsed
    BY <1>5, ProcessView, FlushView
  <2> QED
    BY <1>1, <2>1, <2>2
<1>6. CASE DecryptGroup
  <2>1. UNCHANGED <<nodes, cur, shown>> /\ pc[Stream] = "group"
    BY <1>6, StreamMove DEF peerVars
  <2>2. /\ SessionUsed' = SessionUsed /\ GroupUsed' = GroupUsed \cup {cur}
        /\ cur \notin GroupUsed /\ nodes[cur].group /\ cur \in 1..Len(nodes)
    BY <1>6, <2>1, GroupView DEF PlaceInv, Working
  <2>3. nodes[cur].enc # "text"
    BY <2>2 DEF PlaceInv
  <2>4. shown[cur] = 0 /\ Read(cur)'
    BY <1>0, <2>1, <2>2, <2>3
  <2> QED
    BY <2>1, <2>2, <2>4
<1>7. CASE EmitUpdate
  <2>1. /\ UNCHANGED <<nodes, cached, stored>>
        /\ pc[Stream] = "emit" /\ ~Passing' /\ shown' = [shown EXCEPT ![cur] = @ + 1]
    BY <1>7, StreamMove DEF peerVars, storeVars, Passing
  <2>2. cur \in 1..Len(nodes) /\ shown[cur] = 0 /\ Read(cur)
    BY <2>1 DEF PlaceInv, Working, Passing
  <2>3. shown'[cur] = 1 /\ \A n \in (1..MaxMessages) \ {cur} : shown'[n] = shown[n]
    BY <1>0, <2>1, <2>2
  <2> QED
    BY <2>1, <2>2, <2>3, QuietView
<1>8. ASSUME NEW s \in Sends, SendNext(s) PROVE OnceInv'
  BY <1>1, <1>8, SendFrame, SendView DEF Passing
<1>9. CASE Crash
  BY <1>1, <1>9, CrashMove, CrashView DEF peerVars, Passing
<1>10. CASE Reconnect \/ UNCHANGED vars
  <2>1. UNCHANGED <<nodes, cached, stored, shown, pc, cur>>
    BY <1>10 DEF Reconnect, vars, peerVars, storeVars, taskVars
  <2> QED
    BY <1>1, <2>1, QuietView DEF Passing
<1>11. ASSUME NEW group \in BOOLEAN, PeerSends(group) PROVE OnceInv'
  <2>1. UNCHANGED <<cached, stored, shown, pc, cur>>
    BY <1>11, PeerView DEF storeVars, taskVars
  <2>2. \A n \in 1..Len(nodes) : n \in 1..Len(nodes') /\ nodes'[n] = nodes[n]
    BY <1>0, <1>11, PeerView
  <2>3. Passing => cur \in 1..Len(nodes)
    BY DEF PlaceInv, Working, Passing
  <2> QED
    BY <2>1, <2>2, <2>3, QuietView DEF Passing
<1> QED
  BY <1>2, <1>3, <1>4, <1>5, <1>6, <1>7, <1>8, <1>9, <1>10, <1>11 DEF Next, StreamNext

LEMMA InitDelivery == Init => DeliveryInv
<1> SUFFICES ASSUME Init PROVE DeliveryInv
  OBVIOUS
<1>1. /\ nodes = <<>> /\ Len(nodes) = 0 /\ cursor = 1 /\ receipted = {} /\ cur = 0
      /\ pc[Stream] = "recv" /\ \A n \in 1..MaxMessages : shown[n] = 0
      /\ oneTime /\ ~replied /\ key = [s \in Sends |-> None] /\ dropped = {}
  BY Names DEF Init
<1>2. \A s \in Sends : pc[s] = "new"
  BY Names DEF Init
<1>3. View("session") = NoSession /\ View("senderKey") = NoSenderKey
  BY Names DEF Init, View, Stores
<1>4. SessionUsed = {} /\ GroupUsed = {} /\ View("session").current # Peer
  BY <1>3 DEF SessionUsed, GroupUsed, NoSession, NoSenderKey
<1>5. PlaceInv
  BY <1>1 DEF PlaceInv, Working
<1>6. KeyedInv /\ ReceiptInv
  BY <1>1, <1>2 DEF KeyedInv, ReceiptInv
<1>7. OpenInv
  BY <1>1, <1>4 DEF OpenInv
<1>8. UsedInv /\ DoneInv /\ OnceInv
  BY <1>1, <1>4 DEF UsedInv, DoneInv, OnceInv, Passing
<1> QED
  BY <1>5, <1>6, <1>7, <1>8 DEF DeliveryInv

LEMMA DeliveryStep == SessionInv /\ DeliveryInv /\ [Next]_vars => DeliveryInv'
<1> SUFFICES ASSUME SessionInv, DeliveryInv, [Next]_vars PROVE DeliveryInv'
  OBVIOUS
<1>1. PlaceInv' /\ KeyedInv' /\ ReceiptInv'
  BY PlaceStep, KeyedStep, ReceiptStep DEF DeliveryInv
<1>2. ASSUME Untouched' PROVE OpenInv' /\ UsedInv' /\ DoneInv' /\ OnceInv'
  <2>1. OpenInv /\ UsedInv /\ DoneInv /\ OnceInv /\ PlaceInv /\ KeyedInv /\ ReceiptInv
    BY <1>2, UntouchedBefore DEF DeliveryInv
  <2> QED
    BY <1>2, <2>1, OpenStep, UsedStep, DoneStep, OnceStep
<1> QED
  BY <1>1, <1>2 DEF DeliveryInv

\* The inductive invariant of delivery: as long as no crash and no overlap has
\* set back what was decrypted, a message is shown only after the cached
\* session or sender key has it, what they have is shown or given up, and a
\* message the stream has passed by is one of these (handle_message decrypts,
\* then sends the receipt, then the update).
THEOREM DeliveryInvariant == Spec => []DeliveryInv
  BY InitDelivery, DeliveryStep, SessionInvariant, PTL DEF Spec

\* A message that the server delivers again is shown once all the same: the
\* ratchets refuse it (decrypt_message skips it), unless they were set back.
THEOREM ShownAtMostOnce == Spec => []ShownOnce
<1>1. TypeOK /\ DeliveryInv => ShownOnce
  <2> SUFFICES ASSUME TypeOK, DeliveryInv, NEW n \in 1..MaxMessages, shown[n] > 1,
                      ~overlapped, wiped = {}
               PROVE  FALSE
    BY DEF ShownOnce
  <2>1. shown[n] \in Nat /\ shown[n] <= 1
    BY DEF DeliveryInv, OnceInv, Untouched, TypeOK
  <2> QED
    BY <2>1
<1>2. SessionInv => TypeOK
  BY Parts
<1> QED
  BY <1>1, <1>2, SessionInvariant, DeliveryInvariant, PTL

\* No message is lost without a reason, whether the server has our receipt or
\* the stream has merely passed it by (a failed decryption is skipped).
THEOREM NoneLost == Spec => []NothingLost
<1>1. DeliveryInv => NothingLost
  BY DEF DeliveryInv, ReceiptInv, DoneInv, GivenUp, NothingLost, Untouched
<1> QED
  BY <1>1, DeliveryInvariant, PTL

=============================================================================
