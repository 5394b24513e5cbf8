--------------------------- MODULE MediaDownloads ---------------------------
(***************************************************************************)
(* Client::download and Client::download_to_writer: concurrent downloads   *)
(* that share one cached media connection.  A download asks the hosts of a *)
(* connection one after the other; a connection that is refused, or a file *)
(* that is not there, makes it invalidate the cache and try once more with *)
(* a connection it asks the server for.  The cache is not locked while an  *)
(* IQ is under way, so downloads refresh and invalidate it side by side.   *)
(***************************************************************************)
EXTENDS Naturals, Sequences

CONSTANTS
    Downloads,  \* the calls of download and download_to_writer
    Writers,    \* those of download_to_writer
    NoConn,     \* no media connection
    MaxHosts,   \* bound: how many hosts a connection has
    MaxJunk     \* bound: how many cells a failed host writes

ASSUME MediaAssumption ==
    /\ Writers \subseteq Downloads
    /\ NoConn \notin [after : SUBSET Downloads]
    /\ MaxHosts \in Nat /\ MaxJunk \in Nat

VARIABLES
    cache,    \* the cached media connection
    expired,  \* whether its time to live has passed
    dl,       \* per download, where it is
    writer    \* per download, the writer's content and its position

mediaVars == <<cache, expired, dl, writer>>

File == <<"first", "last">>
Retries == 1

Idle == [at |-> "idle", attempt |-> 0, force |-> FALSE, conn |-> NoConn, hosts |-> 0]

NewWriter == [cells |-> << >>, pos |-> 0]

MediaInit ==
    /\ cache = NoConn /\ expired = FALSE
    /\ dl = [d \in Downloads |-> Idle]
    /\ writer = [d \in Downloads |-> NewWriter]

\* A connection is known by the downloads that had been refused when the
\* server was asked for it.
Asked == [after |-> {e \in Downloads : dl[e].attempt > 0}]

MediaGoto(d, place) == dl' = [dl EXCEPT ![d].at = place]

\* The call returns.
Finish(d, outcome) == dl' = [dl EXCEPT ![d] = [Idle EXCEPT !.at = outcome]]

-----------------------------------------------------------------------------
(* refresh_media_conn.                                                     *)

Returned(d) == dl[d].at \in {"ok", "error"}

Begin(d) ==
    /\ dl[d].at = "idle" \/ Returned(d)
    /\ dl' = [dl EXCEPT ![d] = [Idle EXCEPT !.at = "refresh"]]
    /\ writer' = [writer EXCEPT ![d] = NewWriter]
    /\ UNCHANGED <<cache, expired>>

\* Faulty variant: a host's bytes follow those of the one before.
NextHostUnsought(d, conn, n, w) ==
    \/ /\ n > 0
       /\ dl' = [dl EXCEPT ![d].at = "http", ![d].conn = conn, ![d].hosts = n - 1]
       /\ writer' = [writer EXCEPT ![d] = w]
    \/ /\ n = 0 \/ d \in Writers
       /\ Finish(d, "error")
       /\ writer' = [writer EXCEPT ![d] = w]

\* The first of n hosts is asked, for the writer w from its start; after the
\* last one the download fails, and so it does when the writer cannot seek.
NextHost(d, conn, n, w) ==
    \/ /\ n > 0
       /\ dl' = [dl EXCEPT ![d].at = "http", ![d].conn = conn, ![d].hosts = n - 1]
       /\ writer' = [writer EXCEPT ![d] = [w EXCEPT !.pos = 0]]
    \/ /\ n = 0 \/ d \in Writers
       /\ Finish(d, "error")
       /\ writer' = [writer EXCEPT ![d] = w]

\* One request per host; DownloadUtils may refuse what is to be downloaded.
PrepareRequests(d, conn) ==
    \/ Finish(d, "error") /\ UNCHANGED writer
    \/ \E n \in 0..MaxHosts : NextHost(d, conn, n, writer[d])

\* Faulty variant: the retry takes the cached connection if there is one.
ReadCacheAlways(d) ==
    /\ dl[d].at = "refresh"
    /\ IF cache # NoConn /\ ~expired
       THEN PrepareRequests(d, cache)
       ELSE dl' = [dl EXCEPT ![d].at = "asking", ![d].conn = Asked] /\ UNCHANGED writer
    /\ UNCHANGED <<cache, expired>>

\* The cached connection, or an IQ.
ReadCache(d) ==
    /\ dl[d].at = "refresh"
    /\ IF ~dl[d].force /\ cache # NoConn /\ ~expired
       THEN PrepareRequests(d, cache)
       ELSE dl' = [dl EXCEPT ![d].at = "asking", ![d].conn = Asked] /\ UNCHANGED writer
    /\ UNCHANGED <<cache, expired>>

\* An IQ fails or times out: the download returns its error.
IqAnswered(d) ==
    /\ dl[d].at = "asking"
    /\ MediaGoto(d, "store") \/ Finish(d, "error")
    /\ UNCHANGED <<cache, expired, writer>>

WriteCache(d) ==
    /\ dl[d].at = "store"
    /\ cache' = dl[d].conn /\ expired' = FALSE
    /\ PrepareRequests(d, dl[d].conn)

Expire ==
    /\ cache # NoConn /\ ~expired
    /\ expired' = TRUE
    /\ UNCHANGED <<cache, dl, writer>>

-----------------------------------------------------------------------------
(* What a host answers.                                                    *)

Junk(n) == [i \in 1..n |-> "junk"]

Written(w, bytes) ==
    [cells |-> SubSeq(w.cells, 1, w.pos) \o bytes
                   \o SubSeq(w.cells, w.pos + Len(bytes) + 1, Len(w.cells)),
     pos |-> w.pos + Len(bytes)]

\* The host has the file, and it verifies.
HostServes(d) ==
    /\ dl[d].at = "http"
    /\ Finish(d, "ok")
    /\ writer' = IF d \in Writers THEN [writer EXCEPT ![d] = Written(@, File)] ELSE writer
    /\ UNCHANGED <<cache, expired>>

\* 401, 403, 404 or 410.
HostRefuses(d) ==
    /\ dl[d].at = "http"
    /\ IF dl[d].attempt < Retries
       THEN dl' = [dl EXCEPT ![d].at = "invalidate", ![d].attempt = @ + 1,
                             ![d].force = TRUE, ![d].conn = NoConn, ![d].hosts = 0]
       ELSE Finish(d, "error")
    /\ UNCHANGED <<cache, expired, writer>>

\* Anything else that fails, for a writer after some bytes: the file is
\* verified when all of it is written.
HostFails(d) ==
    /\ dl[d].at = "http"
    /\ \E n \in 0..(IF d \in Writers THEN MaxJunk ELSE 0) :
          NextHost(d, dl[d].conn, dl[d].hosts, Written(writer[d], Junk(n)))
    /\ UNCHANGED <<cache, expired>>

InvalidateMediaConn(d) ==
    /\ dl[d].at = "invalidate"
    /\ cache' = NoConn /\ expired' = FALSE
    /\ MediaGoto(d, "refresh")
    /\ UNCHANGED writer

-----------------------------------------------------------------------------

\* The steps that the client takes, and those it waits for: an IQ is answered
\* or times out, a host may not answer at all.
ClientStep(d) ==
    ReadCache(d) \/ WriteCache(d) \/ InvalidateMediaConn(d)

HostAnswers(d) == HostServes(d) \/ HostRefuses(d) \/ HostFails(d)

DownloadNext(d) == ClientStep(d) \/ IqAnswered(d) \/ HostAnswers(d)

-----------------------------------------------------------------------------
(* Properties.                                                             *)

Conns == [after : SUBSET Downloads] \cup {NoConn}

MediaTypeOK ==
    /\ cache \in Conns /\ expired \in BOOLEAN
    /\ dl \in [Downloads ->
          [at : {"idle", "refresh", "asking", "store", "http", "invalidate", "ok", "error"},
           attempt : 0..Retries, force : BOOLEAN, conn : Conns, hosts : 0..MaxHosts]]
    /\ writer \in [Downloads -> [cells : Seq({"junk", "first", "last"}), pos : Nat]]

\* A download that was refused asks its hosts again only with a connection
\* that the server was asked for after the refusal, whatever the other
\* downloads put into the cache meanwhile.
RetryIsFresh ==
    \A d \in Downloads :
        dl[d].attempt > 0 /\ dl[d].at = "http" => d \in dl[d].conn.after

\* When download_to_writer returns Ok the writer starts with the file, whatever
\* the hosts that failed before have written.
WriterHoldsFile ==
    \A d \in Writers :
        dl[d].at = "ok" => /\ Len(writer[d].cells) >= Len(File)
                           /\ SubSeq(writer[d].cells, 1, Len(File)) = File

\* The types, and what holds the two properties up: a download that was refused
\* goes back to the server, and a host writes from the start of the file.
MediaInv ==
    /\ MediaTypeOK /\ WriterHoldsFile
    /\ \A d \in Downloads :
          /\ dl[d].attempt > 0 => dl[d].force
          /\ dl[d].attempt > 0 /\ dl[d].at \in {"asking", "store", "http"} => d \in dl[d].conn.after
          /\ dl[d].at = "http" => writer[d].pos = 0

=============================================================================
