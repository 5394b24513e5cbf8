------------------------------ MODULE PreKeys ------------------------------
(***************************************************************************)
(* One-time pre-keys: upload_prekeys_if_needed, which the pairing task and *)
(* every post-connect init run, the keys the server hands out to peers,    *)
(* and the messages that come back encrypted under them.                   *)
(*                                                                         *)
(* A key pair is named by the upload that generated it and its id.  The    *)
(* device's next_pre_key_id is read by every upload and written by none,   *)
(* so that all uploads number their keys from 1.                           *)
(***************************************************************************)
EXTENDS Naturals, FiniteSets

CONSTANTS
    Uploads,        \* the calls of upload_prekeys_if_needed
    NoKey,          \* no key under this id
    MinPrekeyCount, \* MIN_PREKEY_COUNT
    Sequential,     \* TRUE: no two uploads overlap
    Failures        \* Bound: IQs, reads and writes that fail, and restarts

ASSUME PreKeysAssumption ==
    /\ NoKey \notin Uploads /\ IsFiniteSet(Uploads)
    /\ MinPrekeyCount \in Nat \ {0} /\ Failures \in Nat /\ Sequential \in BOOLEAN

Ids == 1..MinPrekeyCount

\* The first message of a peer: the id it names, the key it is encrypted to.
Messages == [id : Ids, by : Uploads]

VARIABLES
    published,  \* per id, whose key the server still has to hand out
    store,      \* per id, whose private key the session backend holds
    pc,         \* where each upload is
    needed,     \* how many keys it generated
    kept,       \* the ids whose private key it has stored
    tried,      \* how many of its keys it has tried to store
    reached,    \* the uploads that the server has executed
    mail,       \* messages on their way to us
    stage,      \* how far the stream is with a message
    inHand,     \* that message, NoKey if there is none
    sessions,   \* the messages whose session we have
    reads,      \* per message, how often it was decrypted
    lost,       \* messages that arrived and were not handed on
    forgotten,  \* Ghost: messages whose session we no longer have
    unread,     \* Ghost: messages for which a read of the backend failed
    undone,     \* Ghost: messages whose key was used and not removed
    failures    \* how many failures there have been

uploadVars == <<pc, needed, kept, tried>>
streamVars == <<stage, inHand>>
ghosts == <<forgotten, unread, undone>>
mailVars == <<mail, streamVars, sessions, reads, lost, ghosts>>
vars == <<published, store, uploadVars, reached, mailVars, failures>>

Init ==
    /\ published = [id \in Ids |-> NoKey] /\ store = [id \in Ids |-> NoKey]
    /\ pc = [u \in Uploads |-> "idle"]
    /\ needed = [u \in Uploads |-> 0] /\ tried = [u \in Uploads |-> 0]
    /\ kept = [u \in Uploads |-> {}]
    /\ reached = {} /\ mail = {} /\ lost = {} /\ failures = 0
    /\ reads = [m \in Messages |-> 0]
    /\ stage = "recv" /\ inHand = NoKey /\ sessions = {}
    /\ forgotten = {} /\ unread = {} /\ undone = {}

Running == {"uploading", "storing"}
Goto(u, place) == pc' = [pc EXCEPT ![u] = place]

Fails == failures < Failures /\ failures' = failures + 1

-----------------------------------------------------------------------------
(* upload_prekeys_if_needed.                                               *)

ServerCount == Cardinality({id \in Ids : published[id] # NoKey})

\* Ask how many keys the server has left and generate what is missing.
QueryCount(u) ==
    /\ pc[u] = "idle"
    /\ Sequential => \A v \in Uploads : pc[v] \notin Running
    /\ IF ServerCount >= MinPrekeyCount
       THEN Goto(u, "done") /\ UNCHANGED needed
       ELSE /\ Goto(u, "uploading")
            /\ needed' = [needed EXCEPT ![u] = MinPrekeyCount - ServerCount]
    /\ UNCHANGED <<published, store, kept, tried, reached, mailVars, failures>>

QueryFails(u) ==
    /\ pc[u] = "idle" /\ Fails
    /\ Goto(u, "done")
    /\ UNCHANGED <<published, store, needed, kept, tried, reached, mailVars>>

\* The upload reaches the server, perhaps after we have given up on it.  For
\* an id it knows, the server may keep the old key or take the new one.
UploadReaches(u) ==
    /\ pc[u] \in {"uploading", "failed"} /\ u \notin reached /\ needed[u] > 0
    /\ reached' = reached \cup {u}
    /\ \E replace \in BOOLEAN :
          published' = [id \in Ids |->
              IF id <= needed[u] /\ (replace \/ published[id] = NoKey) THEN u ELSE published[id]]
    /\ UNCHANGED <<store, uploadVars, mailVars, failures>>

UploadReturns(u) ==
    /\ pc[u] = "uploading" /\ u \in reached
    /\ Goto(u, "storing")
    /\ UNCHANGED <<published, store, needed, kept, tried, reached, mailVars, failures>>

\* The IQ fails or times out: none of the keys is stored.  An upload that is
\* cancelled with its task leaves the rest of its keys out.
UploadStops(u) ==
    /\ pc[u] \in Running /\ Fails
    /\ Goto(u, "failed")
    /\ UNCHANGED <<published, store, needed, kept, tried, reached, mailVars>>

\* Faulty variant: a key is stored under the id that follows its own.
StoreKeyShifted(u) ==
    LET id == tried[u] + 1 IN
    /\ pc[u] = "storing"
    /\ tried' = [tried EXCEPT ![u] = id]
    /\ \/ /\ store' = [store EXCEPT ![(id % MinPrekeyCount) + 1] = u]
          /\ kept' = [kept EXCEPT ![u] = @ \cup {id}]
          /\ UNCHANGED failures
       \/ Fails /\ UNCHANGED <<store, kept>>
    /\ IF id = needed[u] THEN Goto(u, "done") ELSE UNCHANGED pc
    /\ UNCHANGED <<published, needed, reached, mailVars>>

\* The private keys are stored one by one (INSERT OR REPLACE) after the server
\* has the public ones; a store that fails is only logged.
StoreKey(u) ==
    LET id == tried[u] + 1 IN
    /\ pc[u] = "storing"
    /\ tried' = [tried EXCEPT ![u] = id]
    /\ \/ /\ store' = [store EXCEPT ![id] = u] /\ kept' = [kept EXCEPT ![u] = @ \cup {id}]
          /\ UNCHANGED failures
       \/ Fails /\ UNCHANGED <<store, kept>>
    /\ IF id = needed[u] THEN Goto(u, "done") ELSE UNCHANGED pc
    /\ UNCHANGED <<published, needed, reached, mailVars>>

-----------------------------------------------------------------------------
(* Peers, and decrypt_e2e_message.                                         *)

\* The server hands out a key once; the peer's message is under way.
PeerFetches(id) ==
    /\ published[id] # NoKey
    /\ published' = [published EXCEPT ![id] = NoKey]
    /\ mail' = mail \cup {[id |-> id, by |-> published[id]]}
    /\ UNCHANGED <<store, uploadVars, reached, streamVars, sessions, reads, lost, ghosts, failures>>

\* The server delivers a message again unless it was told not to.
Handled(m) == mail' \in {mail, mail \ {m}}
Lose(m) == lost' = (IF reads[m] = 0 THEN lost \cup {m} ELSE lost)

\* A message of a session that we have is a duplicate.  For any other the key
\* it names is read from the backend; one under another key than the stored
\* one is skipped with a warning.
LoadKey(m) ==
    /\ stage = "recv" /\ m \in mail
    /\ \/ /\ m \in sessions
          /\ Handled(m) /\ UNCHANGED <<streamVars, lost>>
       \/ /\ m \notin sessions /\ store[m.id] = m.by
          /\ stage' = "opened" /\ inHand' = m
          /\ UNCHANGED <<mail, lost>>
       \/ /\ m \notin sessions /\ store[m.id] # m.by
          /\ Handled(m) /\ Lose(m) /\ UNCHANGED streamVars
    /\ UNCHANGED <<published, store, uploadVars, reached, sessions, reads, ghosts, failures>>

\* Another error before the decryption, most of them a read of the backend
\* that fails, has the message skipped as well.
ReadFails(m) ==
    /\ m \in mail /\ Fails
    /\ \/ stage = "recv"
       \/ stage = "opened" /\ m = inHand
    /\ stage' = "recv" /\ inHand' = NoKey
    /\ Handled(m) /\ Lose(m) /\ unread' = unread \cup {m}
    /\ UNCHANGED <<published, store, uploadVars, reached, sessions, reads, forgotten, undone>>

\* The message is decrypted and the session it opens is stored in the cache.
Decrypt ==
    /\ stage = "opened"
    /\ stage' = "decrypted"
    /\ reads' = [reads EXCEPT ![inHand] = IF @ < 2 THEN @ + 1 ELSE 2]
    /\ sessions' = sessions \cup {inHand}
    /\ UNCHANGED <<published, store, uploadVars, reached, mail, inHand, lost, ghosts, failures>>

\* Faulty variant: the key is left in the store.
RemoveKeyForgetting ==
    /\ stage = "decrypted"
    /\ stage' = "recv" /\ inHand' = NoKey /\ Handled(inHand)
    /\ UNCHANGED <<published, store, uploadVars, reached, sessions, reads, lost, ghosts, failures>>

\* Last, whatever key is now stored under the id is removed.  If that fails,
\* the decrypted text is given up.
RemoveKey ==
    /\ stage = "decrypted"
    /\ stage' = "recv" /\ inHand' = NoKey /\ Handled(inHand)
    /\ \/ /\ store' = [store EXCEPT ![inHand.id] = NoKey]
          /\ UNCHANGED <<lost, undone, failures>>
       \/ /\ Fails
          /\ lost' = lost \cup {inHand} /\ undone' = undone \cup {inHand}
          /\ UNCHANGED store
    /\ UNCHANGED <<published, uploadVars, reached, sessions, reads, forgotten, unread>>

Forget(some) == sessions' = sessions \ some /\ forgotten' = forgotten \cup some

\* Another task stores the session record over a change it has not seen.
Overwrite(m) ==
    /\ m \in sessions /\ Fails
    /\ Forget({m})
    /\ UNCHANGED <<published, store, uploadVars, reached, mail, streamVars, reads, lost, unread, undone>>

\* The client is restarted: its uploads and the stream are gone, and sessions
\* that were not flushed.
Restart ==
    /\ Fails
    /\ pc' = [u \in Uploads |-> IF pc[u] \in Running THEN "failed" ELSE pc[u]]
    /\ stage' = "recv" /\ inHand' = NoKey
    /\ undone' = IF stage = "decrypted" THEN undone \cup {inHand} ELSE undone
    /\ \E some \in SUBSET sessions : Forget(some)
    /\ UNCHANGED <<published, store, needed, kept, tried, reached, mail, reads, lost, unread>>

-----------------------------------------------------------------------------

Next ==
    \/ \E u \in Uploads :
          \/ QueryCount(u) \/ QueryFails(u) \/ UploadReaches(u) \/ UploadReturns(u)
          \/ UploadStops(u) \/ StoreKey(u)
    \/ \E id \in Ids : PeerFetches(id)
    \/ \E m \in Messages : LoadKey(m) \/ ReadFails(m) \/ Overwrite(m)
    \/ Decrypt \/ RemoveKey \/ Restart

Spec == Init /\ [][Next]_vars

-----------------------------------------------------------------------------
(* Properties.                                                             *)

\* The types of the stores, the uploads and the mail.
TypeOK ==
    /\ published \in [Ids -> Uploads \cup {NoKey}] /\ store \in [Ids -> Uploads \cup {NoKey}]
    /\ pc \in [Uploads -> Running \cup {"idle", "done", "failed"}]
    /\ needed \in [Uploads -> 0..MinPrekeyCount] /\ tried \in [Uploads -> 0..MinPrekeyCount]
    /\ kept \in [Uploads -> SUBSET Ids] /\ reached \subseteq Uploads
    /\ mail \subseteq Messages /\ lost \subseteq Messages /\ sessions \subseteq Messages
    /\ forgotten \subseteq Messages /\ unread \subseteq Messages /\ undone \subseteq Messages
    /\ stage \in {"recv", "opened", "decrypted"}
    /\ IF stage = "recv" THEN inHand = NoKey ELSE inHand \in Messages
    /\ reads \in [Messages -> 0..2] /\ failures \in 0..Failures

\* A one-time key decrypts a message a second time only if it was not removed
\* when it was used (remove_pre_key failed, or the client was restarted before
\* it) and the session that would tell the duplicate is gone too.  Neither a
\* second delivery nor a second upload under the same id is enough.
KeyUsedOnce == \A m \in Messages : reads[m] > 1 => m \in undone \cap forgotten

\* Why KeyUsedOnce holds: an upload stores each of its ids once, in order, and
\* a key that was used has left the store or is about to.
KeyInv ==
    /\ TypeOK
    /\ \A u \in Uploads :
          /\ pc[u] = "uploading" => tried[u] < needed[u]
          /\ pc[u] = "storing" => tried[u] < needed[u]
          /\ pc[u] = "idle" => tried[u] = 0
    /\ \A m \in Messages :
          /\ store[m.id] = m.by => m.id <= tried[m.by]
          /\ reads[m] > 0 =>
                /\ m.id <= tried[m.by] /\ m \in sessions \cup forgotten
                /\ store[m.id] = m.by => m \in undone \/ (stage = "decrypted" /\ inHand = m)
          /\ stage = "opened" /\ inHand = m =>
                m.id <= tried[m.by] /\ m \notin sessions /\ (reads[m] > 0 => m \in undone)
          /\ stage = "decrypted" /\ inHand = m => reads[m] > 0
    /\ KeyUsedOnce

\* A message is lost only because its private key was never stored or not yet,
\* because another upload has stored its own key under the same id, or because
\* a read or the removal of the key failed.
LossExplained ==
    [][\A m \in lost' \ lost :
           \/ m.id \notin kept[m.by]
           \/ \E u \in Uploads \ {m.by} : m.id \in kept[u]
           \/ m \in unread' \cup undone']_vars

\* updates.rs: "upload prekeys so the phone can encrypt messages to us": a
\* message under a key that we have stored is not lost.
StoredKeysDecrypt ==
    [][\A m \in lost' \ lost : m.id \notin kept[m.by]]_vars

=============================================================================
