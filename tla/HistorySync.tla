---------------------------- MODULE HistorySync ----------------------------
(***************************************************************************)
(* History sync over the update stream.  The server sends a chunk and,     *)
(* when it has a receipt for it, the next one.  A chunk arrives in a       *)
(* <message>, as a payload (inline) or as something to be downloaded       *)
(* (cdn), which the stream does before it reads on; or in a notification   *)
(* or an <ib> (legacy).  A task of its own hands the updates of a chunk to *)
(* the application and sends the receipt, for a legacy chunk the other way *)
(* round.  The stream reads the device whenever it decrypts, and a task    *)
(* before it sends its receipt: neither has a deadline for that, and while *)
(* a writer holds the device or waits for it no read is granted.           *)
(***************************************************************************)
EXTENDS MediaDownloads

CONSTANTS
    History,   \* the update stream's download
    NoChunk,   \* no chunk
    MaxChunks  \* bound: how many chunks there are

ASSUME HistoryAssumption ==
    /\ History \in Downloads \ Writers
    /\ MaxChunks \in Nat /\ NoChunk \notin 1..MaxChunks

Chunks == 1..MaxChunks

VARIABLES
    auto,      \* Config::auto_history_sync
    barred,    \* whether a writer holds the device or waits for it
    sent,      \* how many chunks the server has sent
    chunk,     \* per chunk, how it arrives and what its payload is
    arriving,  \* the chunk that the stream has not read
    fetching,  \* the chunk that the stream downloads
    todo,      \* per chunk, what its task has to do
    shown,     \* the updates the application has been handed
    receipted, \* the chunks whose receipt has reached the server
    dropped    \* the chunks whose receipt failed or is not to be sent

chunkVars == <<auto, sent, chunk, arriving, fetching, todo, shown, receipted, dropped>>
historyVars == <<barred, chunkVars>>
syncVars == <<mediaVars, historyVars>>

Entries(s) == {s[i] : i \in 1..Len(s)}

Update(kind, n) == [kind |-> kind, chunk |-> n]
Receipt(n) == Update("receipt", n)

\* How a chunk arrives (unnamed is legacy without an id), and whether its
\* payload is missing, not a history sync, empty or holds conversations.
Arrivals == [by : {"inline", "cdn", "legacy", "unnamed"}, payload : {"missing", "bad", "empty", "full"}]

SyncInit ==
    /\ MediaInit
    /\ auto \in BOOLEAN /\ barred = FALSE
    /\ sent = 0
    /\ chunk = [n \in Chunks |-> [by |-> "inline", payload |-> "missing"]]
    /\ arriving = NoChunk /\ fetching = NoChunk
    /\ todo = [n \in Chunks |-> << >>]
    /\ shown = << >> /\ receipted = {} /\ dropped = {}

-----------------------------------------------------------------------------

\* The server sends the first chunk, and one after each receipt.
ServerSends ==
    /\ sent < MaxChunks /\ arriving = NoChunk
    /\ sent = 0 \/ sent \in receipted
    /\ sent' = sent + 1 /\ arriving' = sent + 1
    /\ \E a \in Arrivals : chunk' = [chunk EXCEPT ![sent + 1] = a]
    /\ UNCHANGED <<mediaVars, auto, barred, fetching, todo, shown, receipted, dropped>>

\* process_history_sync_payload: nothing for a payload that does not decode,
\* else the conversations, if there are any, and the completion.
Updates(n) ==
    CASE chunk[n].payload = "full" -> <<Update("chunk", n), Update("completed", n)>>
      [] chunk[n].payload = "empty" -> <<Update("completed", n)>>
      [] OTHER -> << >>

Acknowledged(n) == auto /\ chunk[n].by # "unnamed"
Receipts(n) == IF Acknowledged(n) THEN <<Receipt(n)>> ELSE << >>

InMessage(n) == chunk[n].by \in {"inline", "cdn"}

\* Faulty variant: the receipt is sent before the updates.
BackgroundEarly(n) == Receipts(n) \o Updates(n)

\* The task of a chunk that came in a <message>.
Background(n) == Updates(n) \o Receipts(n)

\* The task of handle_history_sync, which returns the updates to its caller.
Legacy(n) == Receipts(n) \o Updates(n)

\* The stream reads the node, and decrypts it if it is a <message>.  A payload
\* that is not there, or a notification that does not say where it is, ends in
\* nothing.
StreamReads ==
    LET n == arriving IN
    /\ n # NoChunk /\ fetching = NoChunk
    /\ InMessage(n) => ~barred
    /\ arriving' = NoChunk
    /\ \/ /\ chunk[n].payload = "missing"
          /\ dropped' = dropped \cup {n}
          /\ UNCHANGED <<mediaVars, fetching, todo>>
       \/ /\ chunk[n].payload # "missing" /\ chunk[n].by = "cdn"
          /\ Begin(History)
          /\ fetching' = n
          /\ UNCHANGED <<todo, dropped>>
       \/ /\ chunk[n].payload # "missing" /\ chunk[n].by # "cdn"
          /\ todo' = [todo EXCEPT ![n] = IF InMessage(n) THEN Background(n) ELSE Legacy(n)]
          /\ dropped' = IF Acknowledged(n) THEN dropped ELSE dropped \cup {n}
          /\ UNCHANGED <<mediaVars, fetching>>
    /\ UNCHANGED <<auto, barred, sent, chunk, shown, receipted>>

\* Faulty variant: only a full payload gets its receipt.
DownloadReturnsPicky ==
    LET n == fetching IN
    /\ n # NoChunk /\ Returned(History)
    /\ fetching' = NoChunk
    /\ todo' = [todo EXCEPT ![n] = IF dl[History].at = "ok" /\ Updates(n) # << >>
                                   THEN Background(n) ELSE << >>]
    /\ dropped' = IF dl[History].at = "error" \/ ~Acknowledged(n) THEN dropped \cup {n} ELSE dropped
    /\ dl' = [dl EXCEPT ![History] = Idle]
    /\ UNCHANGED <<cache, expired, writer, auto, barred, sent, chunk, arriving, shown, receipted>>

\* The download returns: its task begins, or the chunk is given up.
DownloadReturns ==
    LET n == fetching IN
    /\ n # NoChunk /\ Returned(History)
    /\ fetching' = NoChunk
    /\ todo' = [todo EXCEPT ![n] = IF dl[History].at = "ok" THEN Background(n) ELSE << >>]
    /\ dropped' = IF dl[History].at = "error" \/ ~Acknowledged(n) THEN dropped \cup {n} ELSE dropped
    /\ dl' = [dl EXCEPT ![History] = Idle]
    /\ UNCHANGED <<cache, expired, writer, auto, barred, sent, chunk, arriving, shown, receipted>>

\* The task of chunk n takes its next step: an update goes into the channel,
\* which has room for any number; a receipt needs a read of the device, and is
\* then sent, or fails, or is not sent for want of a phone number.
TaskStep(n) ==
    /\ todo[n] # << >>
    /\ Head(todo[n]).kind = "receipt" => ~barred
    /\ todo' = [todo EXCEPT ![n] = Tail(@)]
    /\ IF Head(todo[n]).kind = "receipt"
       THEN /\ \/ receipted' = receipted \cup {n} /\ UNCHANGED dropped
               \/ dropped' = dropped \cup {n} /\ UNCHANGED receipted
            /\ UNCHANGED shown
       ELSE /\ shown' = Append(shown, Head(todo[n]))
            /\ UNCHANGED <<receipted, dropped>>
    /\ UNCHANGED <<mediaVars, auto, barred, sent, chunk, arriving, fetching>>

-----------------------------------------------------------------------------

\* The application's own downloads run beside the stream's.
AppBegins(d) == d # History /\ Begin(d) /\ UNCHANGED historyVars

\* A writer of the device comes, while there is a chunk for which it is to be
\* read, or lets go of it (or gives up the wait).
DeviceWriter ==
    /\ barred \/ arriving # NoChunk \/ \E n \in Chunks : Receipt(n) \in Entries(todo[n])
    /\ barred' = ~barred
    /\ UNCHANGED <<mediaVars, chunkVars>>

MediaNext == (\E d \in Downloads : DownloadNext(d)) \/ Expire

SyncNext ==
    \/ ServerSends \/ StreamReads \/ DownloadReturns
    \/ \E n \in Chunks : TaskStep(n)
    \/ \E d \in Downloads : AppBegins(d)
    \/ MediaNext /\ UNCHANGED historyVars
    \/ DeviceWriter

SyncSpec == SyncInit /\ [][SyncNext]_syncVars

\* Tasks run, and the stream's requests to the server are answered or time
\* out.  A host on the CDN owes nothing, and neither do the writers of the
\* device: the stream, which may be at another message, reads on only while
\* there is none, and a reader that waits need not get in between two writers.
Fairness ==
    /\ WF_syncVars(~barred /\ StreamReads) /\ WF_syncVars(DownloadReturns)
    /\ \A n \in Chunks : WF_syncVars(TaskStep(n))
    /\ WF_syncVars((ClientStep(History) \/ IqAnswered(History)) /\ UNCHANGED historyVars)

FairSpec == SyncSpec /\ Fairness

-----------------------------------------------------------------------------
(* Properties.                                                             *)

HistoryTypeOK ==
    /\ MediaTypeOK
    /\ auto \in BOOLEAN /\ barred \in BOOLEAN /\ sent \in 0..MaxChunks
    /\ chunk \in [Chunks -> Arrivals]
    /\ arriving \in Chunks \cup {NoChunk} /\ fetching \in Chunks \cup {NoChunk}
    /\ todo \in [Chunks -> Seq([kind : {"chunk", "completed", "receipt"}, chunk : Chunks])]
    /\ shown \in Seq([kind : {"chunk", "completed"}, chunk : Chunks])
    /\ receipted \subseteq Chunks /\ dropped \subseteq Chunks

\* A chunk that came in a <message> is handed over in full before the server
\* knows of it, so it comes before every later chunk; no update comes twice,
\* and a chunk's completion comes after its conversations.
HistoryInOrder ==
    /\ \A i, j \in 1..Len(shown) : shown[i] = shown[j] => i = j
    /\ \A j \in 1..Len(shown) : LET u == shown[j] IN
          /\ u \in Entries(Updates(u.chunk))
          /\ u.kind = "completed" /\ chunk[u.chunk].payload = "full"
                => \E i \in 1..(j - 1) : shown[i] = Update("chunk", u.chunk)
    /\ \A n \in receipted : InMessage(n) => Entries(Updates(n)) \subseteq Entries(shown)
    /\ \A i, j \in 1..Len(shown) :
          i < j /\ shown[i].chunk > shown[j].chunk => ~InMessage(shown[j].chunk)

\* The server is one chunk ahead of the receipts at most; a chunk that has not
\* been read has no task yet.
ChunksInTurn ==
    /\ \A n \in Chunks : n < sent => n \in receipted
    /\ arriving # NoChunk => arriving = sent /\ fetching = NoChunk
    /\ fetching # NoChunk => fetching = sent
    /\ \A n \in Chunks : n > sent \/ n \in {arriving, fetching} =>
          todo[n] = << >> /\ n \notin receipted /\ \A u \in Entries(shown) : u.chunk # n

\* What is left of a task: its receipt and the updates that have not been
\* handed over, in order, and for a chunk in a <message> the receipt last.
TaskLeft(n) == LET q == todo[n] IN
    /\ \A i, j \in 1..Len(q) : q[i] = q[j] => i = j
    /\ \A i \in 1..Len(q) :
          /\ q[i] \in Entries(Updates(n)) \cup {Receipt(n)} /\ q[i] \notin Entries(shown)
          /\ q[i].kind = "completed" /\ chunk[n].payload = "full" =>
                Update("chunk", n) \in Entries(shown) \/ \E j \in 1..(i - 1) : q[j] = Update("chunk", n)
          /\ InMessage(n) => n \notin receipted /\ (q[i].kind = "receipt" => i = Len(q))
    /\ q # << >> => Entries(Updates(n)) \subseteq Entries(shown) \cup Entries(q)

\* How a chunk goes from the server to the application and its receipt back
\* (run_update_stream and its tasks): the order of updates and receipts, with
\* what holds it up.
HistoryInv ==
    /\ MediaInv /\ HistoryTypeOK /\ HistoryInOrder
    /\ ChunksInTurn /\ \A n \in Chunks : TaskLeft(n)

\* The stream waits for a host.
Hangs == fetching # NoChunk /\ dl[History].at = "http"

\* Every chunk the server sends gets its receipt, or is given up, unless the
\* stream waits for ever for a host that does not answer (decrypt_e2e_message),
\* or writers of the device come again and again or one waits for ever, so that
\* the stream or the chunk's task may never get to read it (run_update_stream,
\* handle_history_sync).
HistoryMovesOn ==
    \/ <>[]Hangs
    \/ []<>barred
    \/ \A n \in Chunks : (sent >= n) ~> (n \in receipted \cup dropped)

=============================================================================
