-------------------------- MODULE BackgroundProofs --------------------------
(***************************************************************************)
(* Proofs about the two jobs that a connected client does in the           *)
(* background.  HistorySync, with the downloads it makes: the order of     *)
(* updates and receipts, fresh retries and the writer's content, for any   *)
(* number of chunks, downloads and hosts.  PreKeys: types, when a one-time *)
(* key may decrypt twice, and why a message is lost, for any number of     *)
(* uploads, keys and failures.                                             *)
(***************************************************************************)
EXTENDS HistorySync, PreKeys, SequenceTheorems, FiniteSetTheorems, TLAPS

-----------------------------------------------------------------------------
(* MediaDownloads: the writer.                                             *)

Cells == {"junk", "first", "last"}
WriterStates == [cells : Seq(Cells), pos : Nat]

\* What is written from the start replaces the start of the writer's content
\* (streaming_download_to_writer).
LEMMA WrittenAtStart ==
  ASSUME NEW w \in WriterStates, w.pos = 0, NEW b \in Seq(Cells)
  PROVE  /\ Written(w, b) \in WriterStates
         /\ Len(Written(w, b).cells) >= Len(b)
         /\ \A i \in 1..Len(b) : Written(w, b).cells[i] = b[i]
<1> DEFINE pre == SubSeq(w.cells, 1, w.pos)
           rest == SubSeq(w.cells, w.pos + Len(b) + 1, Len(w.cells))
<1>1. w.cells \in Seq(Cells) /\ Len(w.cells) \in Nat /\ Len(b) \in Nat
  BY LenProperties DEF WriterStates
<1>2. pre = << >>
  BY SubSeqEmpty
<1>3. rest \in Seq(Cells)
  <2>1. \A i \in (w.pos + Len(b) + 1) .. Len(w.cells) : w.cells[i] \in Cells
    BY <1>1, ElementOfSeq
  <2> QED
    BY <1>1, <2>1, SubSeqProperties
<1>4. pre \o b = b
  BY <1>2, ConcatEmptySeq
<1>5. Written(w, b).cells = b \o rest /\ Written(w, b).pos = Len(b)
  BY <1>1, <1>4 DEF Written
<1>6. /\ b \o rest \in Seq(Cells) /\ Len(b \o rest) = Len(b) + Len(rest)
      /\ \A i \in 1..(Len(b) + Len(rest)) :
            (b \o rest)[i] = IF i <= Len(b) THEN b[i] ELSE rest[i - Len(b)]
  BY <1>3, ConcatProperties
<1>7. Len(rest) \in Nat
  BY <1>3, LenProperties
<1> HIDE DEF pre, rest
<1>8. Written(w, b) \in WriterStates
  BY <1>1, <1>5, <1>6 DEF Written, WriterStates
<1> QED
  BY <1>1, <1>5, <1>6, <1>7, <1>8

\* A failed host's bytes are cells.
LEMMA JunkIsCells == ASSUME NEW n \in Nat PROVE Junk(n) \in Seq(Cells)
BY DEF Junk, Cells

\* A writer that got the file from its start holds it.
LEMMA FileIsHeld ==
  ASSUME NEW c \in Seq(Cells), Len(c) >= Len(File), \A i \in 1..Len(File) : c[i] = File[i]
  PROVE  SubSeq(c, 1, Len(File)) = File
<1>1. File \in Seq(Cells) /\ Len(File) = 2
  BY DEF File, Cells
<1>2. Len(c) \in Nat
  BY LenProperties
<1>3. \A i \in 1..2 : c[i] \in Cells
  BY <1>1, <1>2, ElementOfSeq
<1>4. /\ SubSeq(c, 1, 2) \in Seq(Cells) /\ Len(SubSeq(c, 1, 2)) = 2
      /\ \A i \in 1..2 : SubSeq(c, 1, 2)[i] = c[i]
  BY <1>3, SubSeqProperties
<1> QED
  BY <1>1, <1>4, SeqEqual

-----------------------------------------------------------------------------
(* MediaDownloads: the steps of a download.                                *)

Places == {"idle", "refresh", "asking", "store", "http", "invalidate", "ok", "error"}
DlStates ==
  [at : Places, attempt : 0..1, force : BOOLEAN, conn : Conns, hosts : 0..MaxHosts]

\* A download that may be in state r with the writer w.
Sound(d, r, w) ==
  /\ r \in DlStates /\ w \in WriterStates
  /\ r.attempt > 0 => r.force
  /\ r.attempt > 0 /\ r.at \in {"asking", "store", "http"} => d \in r.conn.after
  /\ r.at = "http" => w.pos = 0
  /\ d \in Writers /\ r.at = "ok" =>
        Len(w.cells) >= Len(File) /\ SubSeq(w.cells, 1, Len(File)) = File

\* The invariant says that every download is sound.
AllSound ==
  /\ cache \in Conns /\ expired \in BOOLEAN
  /\ dl \in [Downloads -> DlStates] /\ writer \in [Downloads -> WriterStates]
  /\ \A d \in Downloads : Sound(d, dl[d], writer[d])

LEMMA MediaSound == MediaInv <=> AllSound
<1>1. MediaInv => \A d \in Downloads : dl[d] \in DlStates /\ writer[d] \in WriterStates
  BY DEF MediaInv, MediaTypeOK, DlStates, WriterStates, Cells, Places, Retries
<1> QED
  BY <1>1, MediaAssumption
  DEF MediaInv, MediaTypeOK, WriterHoldsFile, AllSound, Sound, DlStates, WriterStates, Cells,
      Places, Retries

\* A step of one download to a sound state keeps the invariant.
LEMMA SoundStep ==
  ASSUME MediaInv, NEW d \in Downloads, NEW r, NEW w, Sound(d, r, w),
         dl' = [dl EXCEPT ![d] = r], writer' = [writer EXCEPT ![d] = w],
         cache' \in Conns, expired' \in BOOLEAN
  PROVE  MediaInv'
<1>1. /\ dl \in [Downloads -> DlStates] /\ writer \in [Downloads -> WriterStates]
      /\ \A e \in Downloads : Sound(e, dl[e], writer[e])
  BY MediaSound DEF AllSound
<1>2. r \in DlStates /\ w \in WriterStates
  BY DEF Sound
<1>3. dl' \in [Downloads -> DlStates] /\ writer' \in [Downloads -> WriterStates]
  BY <1>1, <1>2
<1>4. ASSUME NEW e \in Downloads PROVE Sound(e, dl'[e], writer'[e])
  <2>1. CASE e = d
    BY <1>1, <2>1
  <2>2. CASE e # d
    BY <1>1, <2>2
  <2> QED
    BY <2>1, <2>2
<1>5. \A e \in Downloads : Sound(e, dl[e], writer[e])'
  BY <1>4 DEF Sound
<1>6. AllSound'
  BY <1>3, <1>5 DEF AllSound, DlStates, WriterStates, Conns
<1> QED
  BY <1>6, MediaSound, PTL

\* What the steps need to know of the download d.
LEMMA OfOne ==
  ASSUME MediaInv, NEW d \in Downloads
  PROVE  /\ Sound(d, dl[d], writer[d])
         /\ dl \in [Downloads -> DlStates] /\ writer \in [Downloads -> WriterStates]
         /\ writer = [writer EXCEPT ![d] = writer[d]]
         /\ cache \in Conns /\ expired \in BOOLEAN /\ Asked \in Conns /\ NoConn \in Conns
<1>1. Asked \in Conns /\ NoConn \in Conns
  BY DEF Asked, Conns
<1> QED
  BY <1>1, MediaSound DEF AllSound

\* The call returns with an error, or the stream takes its result.
LEMMA IdleIsSound ==
  ASSUME NEW d \in Downloads, NEW w \in WriterStates
  PROVE  /\ Sound(d, [Idle EXCEPT !.at = "error"], w)
         /\ Sound(d, [Idle EXCEPT !.at = "refresh"], w)
         /\ Sound(d, Idle, w)
<1>1. Idle \in DlStates /\ Idle.attempt = 0 /\ Idle.at = "idle"
  BY MediaAssumption DEF Idle, DlStates, Conns, Places
<1>2. ASSUME NEW p \in Places
      PROVE  /\ [Idle EXCEPT !.at = p] \in DlStates
             /\ [Idle EXCEPT !.at = p].attempt = 0 /\ [Idle EXCEPT !.at = p].at = p
  BY <1>1 DEF DlStates
<1> QED
  BY <1>1, <1>2 DEF Sound, Places

\* Asking the next host, with a connection that is fresh if it has to be and a
\* writer that will be written from its start (download_to_writer).
LEMMA NextHostKeeps ==
  ASSUME MediaInv, NEW d \in Downloads, NEW conn \in Conns, NEW n \in 0..MaxHosts,
         NEW w \in WriterStates, NextHost(d, conn, n, w),
         dl[d].attempt > 0 => d \in conn.after,
         cache' \in Conns, expired' \in BOOLEAN
  PROVE  MediaInv'
<1>1. CASE n > 0 /\ dl' = [dl EXCEPT ![d].at = "http", ![d].conn = conn, ![d].hosts = n - 1]
           /\ writer' = [writer EXCEPT ![d] = [w EXCEPT !.pos = 0]]
  <2> DEFINE r == [dl[d] EXCEPT !.at = "http", !.conn = conn, !.hosts = n - 1]
  <2>1. n - 1 \in 0..MaxHosts
    BY <1>1, MediaAssumption
  <2>2. Sound(d, r, [w EXCEPT !.pos = 0])
    <3>1. dl[d] \in DlStates /\ (dl[d].attempt > 0 => dl[d].force)
      BY OfOne DEF Sound
    <3>2. r \in DlStates
      BY <2>1, <3>1 DEF DlStates, Places
    <3>3. r.at = "http" /\ r.conn = conn /\ r.attempt = dl[d].attempt /\ r.force = dl[d].force
      BY <3>1 DEF DlStates
    <3>4. [w EXCEPT !.pos = 0] \in WriterStates /\ [w EXCEPT !.pos = 0].pos = 0
      BY DEF WriterStates
    <3> HIDE DEF r
    <3> QED
      BY <3>1, <3>2, <3>3, <3>4 DEF Sound
  <2>3. dl' = [dl EXCEPT ![d] = r]
    BY <1>1, OfOne DEF DlStates
  <2> QED
    BY <1>1, <2>2, <2>3, SoundStep
<1>2. CASE Finish(d, "error") /\ writer' = [writer EXCEPT ![d] = w]
  BY <1>2, IdleIsSound, SoundStep DEF Finish
<1> QED
  BY <1>1, <1>2 DEF NextHost

\* prepare_requests and the first host.
LEMMA PrepareKeeps ==
  ASSUME MediaInv, NEW d \in Downloads, NEW conn \in Conns, PrepareRequests(d, conn),
         dl[d].attempt > 0 => d \in conn.after,
         cache' \in Conns, expired' \in BOOLEAN
  PROVE  MediaInv'
<1>1. writer[d] \in WriterStates
  BY OfOne DEF Sound
<1>2. CASE Finish(d, "error") /\ UNCHANGED writer
  BY <1>1, <1>2, OfOne, IdleIsSound, SoundStep DEF Finish
<1>3. CASE \E n \in 0..MaxHosts : NextHost(d, conn, n, writer[d])
  BY <1>1, <1>3, NextHostKeeps
<1> QED
  BY <1>2, <1>3 DEF PrepareRequests

\* A download begins anew (download, download_to_writer).
LEMMA BeginKeeps == ASSUME MediaInv, NEW d \in Downloads, Begin(d) PROVE MediaInv'
<1>1. NewWriter \in WriterStates
  BY EmptySeq DEF NewWriter, WriterStates
<1> QED
  BY <1>1, OfOne, IdleIsSound, SoundStep DEF Begin

\* Every step of a download keeps the media invariant.
LEMMA DownloadKeeps == ASSUME MediaInv, NEW d \in Downloads, DownloadNext(d) PROVE MediaInv'
<1>0. /\ Sound(d, dl[d], writer[d]) /\ dl \in [Downloads -> DlStates]
      /\ writer = [writer EXCEPT ![d] = writer[d]]
      /\ cache \in Conns /\ expired \in BOOLEAN /\ Asked \in Conns /\ NoConn \in Conns
  BY OfOne
<1>1. CASE ReadCache(d)
  <2>1. CASE ~dl[d].force /\ PrepareRequests(d, cache) /\ UNCHANGED <<cache, expired>>
    <3>1. ~ dl[d].attempt > 0
      BY <1>0, <2>1 DEF Sound
    <3> QED
      BY <1>0, <2>1, <3>1, PrepareKeeps
  <2>2. CASE /\ dl' = [dl EXCEPT ![d].at = "asking", ![d].conn = Asked]
             /\ UNCHANGED <<writer, cache, expired>>
    <3> DEFINE r == [dl[d] EXCEPT !.at = "asking", !.conn = Asked]
    <3>1. dl[d].attempt > 0 => d \in Asked.after
      BY DEF Asked
    <3>2. Sound(d, r, writer[d])
      <4>1. r \in DlStates /\ r.at = "asking" /\ r.conn = Asked /\ r.attempt = dl[d].attempt
            /\ r.force = dl[d].force
        BY <1>0 DEF Sound, DlStates, Places
      <4> HIDE DEF r
      <4> QED
        BY <1>0, <3>1, <4>1 DEF Sound
    <3>3. dl' = [dl EXCEPT ![d] = r]
      BY <1>0, <2>2 DEF DlStates
    <3> HIDE DEF r
    <3> QED
      BY <1>0, <2>2, <3>2, <3>3, SoundStep
  <2> QED
    BY <1>1, <2>1, <2>2 DEF ReadCache
<1>2. CASE WriteCache(d)
  <2>1. (dl[d].attempt > 0 => d \in dl[d].conn.after) /\ dl[d].conn \in Conns
    BY <1>0, <1>2 DEF WriteCache, Sound, DlStates
  <2> QED
    BY <1>0, <1>2, <2>1, PrepareKeeps DEF WriteCache
<1>3. CASE InvalidateMediaConn(d)
  <2> DEFINE r == [dl[d] EXCEPT !.at = "refresh"]
  <2>1. Sound(d, r, writer[d])
    BY <1>0 DEF Sound, DlStates, Places
  <2>2. dl' = [dl EXCEPT ![d] = r]
    BY <1>0, <1>3 DEF InvalidateMediaConn, MediaGoto, DlStates
  <2> QED
    BY <1>0, <1>3, <2>1, <2>2, SoundStep DEF InvalidateMediaConn
<1>4. CASE IqAnswered(d)
  <2>1. CASE MediaGoto(d, "store")
    <3> DEFINE r == [dl[d] EXCEPT !.at = "store"]
    <3>1. Sound(d, r, writer[d])
      BY <1>0, <1>4 DEF Sound, DlStates, Places, IqAnswered
    <3>2. dl' = [dl EXCEPT ![d] = r]
      BY <1>0, <2>1 DEF MediaGoto, DlStates
    <3> QED
      BY <1>0, <1>4, <3>1, <3>2, SoundStep DEF IqAnswered
  <2>2. CASE Finish(d, "error")
    BY <1>0, <1>4, <2>2, IdleIsSound, SoundStep DEF IqAnswered, Finish, Sound
  <2> QED
    BY <1>4, <2>1, <2>2 DEF IqAnswered
<1>5. CASE HostServes(d)
  <2> DEFINE r == [Idle EXCEPT !.at = "ok"]
             w == IF d \in Writers THEN Written(writer[d], File) ELSE writer[d]
  <2>1. File \in Seq(Cells) /\ Len(File) = 2
    BY DEF File, Cells
  <2>2. writer[d].pos = 0 /\ writer[d] \in WriterStates
    BY <1>0, <1>5 DEF HostServes, Sound
  <2>3. /\ Written(writer[d], File) \in WriterStates
        /\ Len(Written(writer[d], File).cells) >= Len(File)
        /\ \A i \in 1..Len(File) : Written(writer[d], File).cells[i] = File[i]
    BY <2>1, <2>2, WrittenAtStart
  <2>4. SubSeq(Written(writer[d], File).cells, 1, Len(File)) = File
    BY <2>3, FileIsHeld DEF WriterStates
  <2>5. Sound(d, r, w)
    <3>1. w \in WriterStates
      BY <2>2, <2>3
    <3>2. d \in Writers => Len(w.cells) >= Len(File) /\ SubSeq(w.cells, 1, Len(File)) = File
      BY <2>3, <2>4
    <3>3. r \in DlStates /\ r.attempt = 0 /\ r.at = "ok"
      <4>1. Idle \in DlStates /\ Idle.attempt = 0
        BY MediaAssumption DEF Idle, DlStates, Places, Conns
      <4> QED
        BY <4>1 DEF DlStates, Places
    <3> HIDE DEF w, r
    <3> QED
      BY <3>1, <3>2, <3>3 DEF Sound
  <2>6. dl' = [dl EXCEPT ![d] = r] /\ writer' = [writer EXCEPT ![d] = w]
    BY <1>0, <1>5 DEF HostServes, Finish
  <2> HIDE DEF r, w
  <2> QED
    BY <1>0, <1>5, <2>5, <2>6, SoundStep DEF HostServes
<1>6. CASE HostRefuses(d)
  <2>1. CASE dl[d].attempt < Retries
    <3> DEFINE n == dl[d].attempt + 1
    <3> DEFINE r == [dl[d] EXCEPT !.at = "invalidate", !.attempt = n,
                                  !.force = TRUE, !.conn = NoConn, !.hosts = 0]
    <3>1. r \in DlStates /\ r.force /\ r.at = "invalidate"
      <4>1. dl[d] \in DlStates /\ n \in 0..1 /\ 0 \in 0..MaxHosts /\ NoConn \in Conns
        BY <1>0, <2>1, MediaAssumption DEF DlStates, Retries
      <4> HIDE DEF n
      <4> QED
        BY <4>1 DEF DlStates, Places
    <3> HIDE DEF r
    <3>2. Sound(d, r, writer[d])
      BY <1>0, <3>1 DEF Sound
    <3> USE DEF r
    <3>3. dl' = [dl EXCEPT ![d] = r]
      BY <1>0, <1>6, <2>1 DEF HostRefuses, DlStates
    <3> QED
      BY <1>0, <1>6, <3>2, <3>3, SoundStep DEF HostRefuses
  <2>2. CASE Finish(d, "error")
    BY <1>0, <1>6, <2>2, IdleIsSound, SoundStep DEF HostRefuses, Finish, Sound
  <2> QED
    BY <1>6, <2>1, <2>2 DEF HostRefuses
<1>7. CASE HostFails(d)
  <2>1. PICK n \in Nat : NextHost(d, dl[d].conn, dl[d].hosts, Written(writer[d], Junk(n)))
    BY <1>7, MediaAssumption DEF HostFails
  <2>2. Junk(n) \in Seq(Cells)
    BY JunkIsCells
  <2>3. dl[d].at = "http" /\ UNCHANGED <<cache, expired>>
    BY <1>7 DEF HostFails
  <2>4. /\ writer[d] \in WriterStates /\ writer[d].pos = 0
        /\ dl[d].conn \in Conns /\ dl[d].hosts \in 0..MaxHosts
        /\ dl[d].attempt > 0 => d \in dl[d].conn.after
    BY <1>0, <2>3 DEF Sound, DlStates
  <2>5. Written(writer[d], Junk(n)) \in WriterStates
    BY <2>2, <2>4, WrittenAtStart
  <2> QED
    BY <1>0, <2>1, <2>3, <2>4, <2>5, NextHostKeeps
<1> QED
  BY <1>1, <1>2, <1>3, <1>4, <1>5, <1>6, <1>7 DEF DownloadNext, ClientStep, HostAnswers

\* The time to live of a connection passes.
LEMMA ExpireKeeps == MediaInv /\ Expire => MediaInv'
BY DEF MediaInv, MediaTypeOK, WriterHoldsFile, Expire

\* The stream takes the result of its download.
LEMMA IdleKeeps ==
  ASSUME MediaInv, dl' = [dl EXCEPT ![History] = Idle], UNCHANGED <<cache, expired, writer>>
  PROVE  MediaInv'
<1>1. History \in Downloads
  BY HistoryAssumption
<1>2. writer[History] \in WriterStates
  BY <1>1, OfOne DEF Sound
<1> QED
  BY <1>1, <1>2, OfOne, IdleIsSound, SoundStep

-----------------------------------------------------------------------------
(* HistorySync: the task of a chunk.                                       *)

Shown == [kind : {"chunk", "completed"}, chunk : Chunks]
Steps == [kind : {"chunk", "completed", "receipt"}, chunk : Chunks]

\* The updates of a chunk are its own, none comes twice, and the completion
\* comes after the conversations (process_history_sync_payload).
LEMMA UpdatesAre ==
  ASSUME NEW n \in Chunks
  PROVE  /\ Updates(n) \in Seq(Shown) /\ Len(Updates(n)) \in Nat
         /\ \A u \in Entries(Updates(n)) :
               u \in Shown /\ u \in Steps /\ u.chunk = n /\ u.kind # "receipt"
         /\ \A i, j \in 1..Len(Updates(n)) : Updates(n)[i] = Updates(n)[j] => i = j
         /\ \A i \in 1..Len(Updates(n)) :
               Updates(n)[i].kind = "completed" /\ chunk[n].payload = "full" =>
                  \E j \in 1..(i - 1) : Updates(n)[j] = Update("chunk", n)
<1>1. CASE chunk[n].payload = "full"
  <2>1. Updates(n) = <<Update("chunk", n), Update("completed", n)>>
    BY <1>1 DEF Updates
  <2> QED
    BY <2>1 DEF Entries, Update, Shown, Steps
<1>2. CASE chunk[n].payload = "empty"
  <2>1. Updates(n) = <<Update("completed", n)>>
    BY <1>2 DEF Updates
  <2> QED
    BY <1>2, <2>1 DEF Entries, Update, Shown, Steps
<1>3. CASE chunk[n].payload \notin {"full", "empty"}
  <2>1. Updates(n) = << >>
    BY <1>3 DEF Updates
  <2> QED
    BY <2>1 DEF Entries
<1> QED
  BY <1>1, <1>2, <1>3

\* A chunk has one receipt at most.
LEMMA ReceiptsAre ==
  ASSUME NEW n \in Chunks
  PROVE  /\ Receipts(n) \in Seq(Steps) /\ Len(Receipts(n)) \in 0..1
         /\ \A i \in 1..Len(Receipts(n)) : Receipts(n)[i] = Receipt(n)
         /\ Receipt(n) \in Steps /\ Receipt(n).kind = "receipt" /\ Receipt(n).chunk = n
<1>1. Receipt(n) \in Steps /\ Receipt(n).kind = "receipt" /\ Receipt(n).chunk = n
  BY DEF Receipt, Update, Steps
<1>2. CASE Acknowledged(n)
  <2>1. Receipts(n) = <<Receipt(n)>>
    BY <1>2 DEF Receipts
  <2> QED
    BY <1>1, <2>1
<1>3. CASE ~Acknowledged(n)
  <2>1. Receipts(n) = << >>
    BY <1>3 DEF Receipts
  <2> QED
    BY <1>1, <2>1
<1> QED
  BY <1>2, <1>3

\* What the task of a chunk consists of, in either order of receipt and
\* updates; in a <message> the receipt comes last.
Task(n, q) ==
  /\ q \in Seq(Steps)
  /\ \A i, j \in 1..Len(q) : q[i] = q[j] => i = j
  /\ \A i \in 1..Len(q) :
        /\ q[i] \in Entries(Updates(n)) \cup {Receipt(n)}
        /\ q[i].kind = "completed" /\ chunk[n].payload = "full" =>
              \E j \in 1..(i - 1) : q[j] = Update("chunk", n)
        /\ InMessage(n) /\ q[i].kind = "receipt" => i = Len(q)
  /\ q # << >> => Entries(Updates(n)) \subseteq Entries(q)

\* The task of a chunk in a <message> hands over the updates and sends the
\* receipt (run_update_stream).
LEMMA BackgroundIsTask == ASSUME NEW n \in Chunks PROVE Task(n, Background(n))
<1> DEFINE u == Updates(n)  r == Receipts(n)  q == u \o r
<1>1. u \in Seq(Steps) /\ Len(u) \in Nat
  <2>1. u \in Seq(Shown) /\ Shown \subseteq Steps
    BY UpdatesAre DEF Shown, Steps
  <2> QED
    BY <2>1, SeqMonotonic, LenProperties
<1>2. /\ \A v \in Entries(u) : v.kind # "receipt"
      /\ \A i, j \in 1..Len(u) : u[i] = u[j] => i = j
      /\ \A i \in 1..Len(u) : u[i].kind = "completed" /\ chunk[n].payload = "full" =>
            \E j \in 1..(i - 1) : u[j] = Update("chunk", n)
  BY UpdatesAre
<1>3. /\ r \in Seq(Steps) /\ Len(r) \in 0..1
      /\ \A i \in 1..Len(r) : r[i] = Receipt(n)
      /\ Receipt(n).kind = "receipt"
  BY ReceiptsAre
<1>4. /\ q \in Seq(Steps) /\ Len(q) = Len(u) + Len(r)
      /\ \A i \in 1..(Len(u) + Len(r)) : q[i] = IF i <= Len(u) THEN u[i] ELSE r[i - Len(u)]
  BY <1>1, <1>3, ConcatProperties
<1>5. Background(n) = q
  BY DEF Background
<1> HIDE DEF u, r, q
<1>6. \A i \in 1..Len(u) : q[i] = u[i] /\ u[i] \in Entries(u) /\ u[i].kind # "receipt"
  BY <1>1, <1>2, <1>3, <1>4 DEF Entries
<1>7. \A i \in 1..Len(q) : i \notin 1..Len(u) => i = Len(u) + 1 /\ i = Len(q) /\ q[i] = Receipt(n)
  BY <1>1, <1>3, <1>4
<1>8. \A i, j \in 1..Len(q) : q[i] = q[j] => i = j
  BY <1>2, <1>3, <1>6, <1>7
<1>9. \A i \in 1..Len(q) : q[i].kind = "completed" /\ chunk[n].payload = "full" =>
         \E j \in 1..(i - 1) : q[j] = Update("chunk", n)
  <2>1. ASSUME NEW i \in 1..Len(q), q[i].kind = "completed", chunk[n].payload = "full"
        PROVE  \E j \in 1..(i - 1) : q[j] = Update("chunk", n)
    <3>1. i \in 1..Len(u) /\ u[i].kind = "completed"
      BY <1>3, <1>6, <1>7, <2>1
    <3>2. PICK j \in 1..(i - 1) : u[j] = Update("chunk", n)
      BY <1>2, <2>1, <3>1
    <3>3. j \in 1..Len(u)
      BY <1>1, <3>1
    <3> QED
      BY <1>6, <3>2, <3>3
  <2> QED
    BY <2>1
<1>10. Entries(u) \subseteq Entries(q)
  <2>1. 1..Len(u) \subseteq 1..Len(q)
    BY <1>1, <1>3, <1>4
  <2> QED
    BY <1>6, <2>1 DEF Entries
<1>11. \A i \in 1..Len(q) :
          q[i] \in Entries(u) \cup {Receipt(n)} /\ (q[i].kind = "receipt" => i = Len(q))
  BY <1>6, <1>7
<1>12. Entries(u) = Entries(Updates(n))
  BY DEF u
<1> QED
  BY <1>4, <1>5, <1>8, <1>9, <1>10, <1>11, <1>12 DEF Task

\* The task of a legacy chunk sends the receipt and hands over the updates
\* (handle_history_sync).
LEMMA LegacyIsTask == ASSUME NEW n \in Chunks, ~InMessage(n) PROVE Task(n, Legacy(n))
<1> DEFINE u == Updates(n)  r == Receipts(n)  q == r \o u
<1>1. u \in Seq(Steps) /\ Len(u) \in Nat
  <2>1. u \in Seq(Shown) /\ Shown \subseteq Steps
    BY UpdatesAre DEF Shown, Steps
  <2> QED
    BY <2>1, SeqMonotonic, LenProperties
<1>2. /\ \A v \in Entries(u) : v.kind # "receipt"
      /\ \A i, j \in 1..Len(u) : u[i] = u[j] => i = j
      /\ \A i \in 1..Len(u) : u[i].kind = "completed" /\ chunk[n].payload = "full" =>
            \E j \in 1..(i - 1) : u[j] = Update("chunk", n)
  BY UpdatesAre
<1>3. /\ r \in Seq(Steps) /\ Len(r) \in 0..1
      /\ \A i \in 1..Len(r) : r[i] = Receipt(n)
      /\ Receipt(n).kind = "receipt"
  BY ReceiptsAre
<1>4. /\ q \in Seq(Steps) /\ Len(q) = Len(r) + Len(u)
      /\ \A i \in 1..(Len(r) + Len(u)) : q[i] = IF i <= Len(r) THEN r[i] ELSE u[i - Len(r)]
  BY <1>1, <1>3, ConcatProperties
<1>5. Legacy(n) = q
  BY DEF Legacy
<1> HIDE DEF u, r, q
<1>6. ASSUME NEW i \in 1..Len(u)
      PROVE  /\ i + Len(r) \in 1..Len(q) /\ q[i + Len(r)] = u[i]
             /\ u[i] \in Entries(u) /\ u[i].kind # "receipt"
  <2>1. i + Len(r) \in 1..(Len(r) + Len(u)) /\ ~(i + Len(r) <= Len(r)) /\ (i + Len(r)) - Len(r) = i
    BY <1>1, <1>3
  <2>2. q[i + Len(r)] = u[i]
    BY <1>4, <2>1
  <2>3. u[i] \in Entries(u)
    BY DEF Entries
  <2> QED
    BY <1>2, <1>4, <2>1, <2>2, <2>3
<1>7. ASSUME NEW i \in 1..Len(q)
      PROVE  \/ i = 1 /\ Len(r) = 1 /\ q[i] = Receipt(n) /\ q[i].kind = "receipt"
             \/ i - Len(r) \in 1..Len(u) /\ q[i] = u[i - Len(r)] /\ q[i].kind # "receipt"
  <2>1. CASE i <= Len(r)
    BY <1>1, <1>3, <1>4, <2>1
  <2>2. CASE ~(i <= Len(r))
    BY <1>1, <1>3, <1>4, <1>6, <2>2
  <2> QED
    BY <2>1, <2>2
<1>8. \A i, j \in 1..Len(q) : q[i] = q[j] => i = j
  <2> SUFFICES ASSUME NEW i \in 1..Len(q), NEW j \in 1..Len(q), q[i] = q[j] PROVE i = j
    OBVIOUS
  <2>1. CASE q[i].kind # "receipt"
    <3>1. /\ i - Len(r) \in 1..Len(u) /\ j - Len(r) \in 1..Len(u)
          /\ q[i] = u[i - Len(r)] /\ q[j] = u[j - Len(r)]
      BY <1>7, <2>1
    <3>2. i - Len(r) = j - Len(r)
      BY <1>2, <3>1
    <3> QED
      BY <1>3, <3>2
  <2>2. CASE q[i].kind = "receipt"
    BY <1>7, <2>2
  <2> QED
    BY <2>1, <2>2
<1>9. \A i \in 1..Len(q) : q[i].kind = "completed" /\ chunk[n].payload = "full" =>
         \E j \in 1..(i - 1) : q[j] = Update("chunk", n)
  <2>1. ASSUME NEW i \in 1..Len(q), q[i].kind = "completed", chunk[n].payload = "full"
        PROVE  \E j \in 1..(i - 1) : q[j] = Update("chunk", n)
    <3>1. i - Len(r) \in 1..Len(u) /\ u[i - Len(r)].kind = "completed"
      BY <1>3, <1>7, <2>1
    <3>2. PICK j \in 1..(i - Len(r) - 1) : u[j] = Update("chunk", n)
      BY <1>2, <2>1, <3>1
    <3>3. j \in 1..Len(u) /\ j + Len(r) \in 1..(i - 1)
      BY <1>1, <1>3, <3>1
    <3> QED
      BY <1>6, <3>2, <3>3
  <2> QED
    BY <2>1
<1>10. Entries(u) \subseteq Entries(q)
  BY <1>6 DEF Entries
<1>11. \A i \in 1..Len(q) : q[i] \in Entries(u) \cup {Receipt(n)}
  BY <1>6, <1>7
<1>12. Entries(u) = Entries(Updates(n))
  BY DEF u
<1> QED
  BY <1>4, <1>5, <1>8, <1>9, <1>10, <1>11, <1>12 DEF Task

-----------------------------------------------------------------------------
(* HistorySync: the invariant, by what the application and the server have *)
(* been given (S, R), the updates a chunk has (U), the chunks with          *)
(* conversations (F) and those that came in a <message> (M).                *)

Ups == [n \in Chunks |-> Entries(Updates(n))]
Full == {n \in Chunks : chunk[n].payload = "full"}
InMsg == {n \in Chunks : InMessage(n)}

InOrder(S, R, U, F, M) ==
  /\ \A i, j \in 1..Len(S) : S[i] = S[j] => i = j
  /\ \A j \in 1..Len(S) :
        /\ S[j] \in U[S[j].chunk]
        /\ S[j].kind = "completed" /\ S[j].chunk \in F =>
              \E i \in 1..(j - 1) : S[i] = Update("chunk", S[j].chunk)
  /\ \A n \in R : n \in M => U[n] \subseteq Entries(S)
  /\ \A i, j \in 1..Len(S) : i < j /\ S[i].chunk > S[j].chunk => S[j].chunk \notin M

\* What is left of the task of chunk n.
Left(n, q, S, R, U, F, M) ==
  /\ \A i, j \in 1..Len(q) : q[i] = q[j] => i = j
  /\ \A i \in 1..Len(q) :
        /\ q[i] \in U[n] \cup {Receipt(n)} /\ q[i] \notin S
        /\ q[i].kind = "completed" /\ n \in F =>
              Update("chunk", n) \in S \/ \E j \in 1..(i - 1) : q[j] = Update("chunk", n)
        /\ n \in M => n \notin R /\ (q[i].kind = "receipt" => i = Len(q))
  /\ q # << >> => U[n] \subseteq S \cup Entries(q)

InTurn(S, R, T, last, a, f) ==
  /\ \A n \in Chunks : n < last => n \in R
  /\ a # NoChunk => a = last /\ f = NoChunk
  /\ f # NoChunk => f = last
  /\ \A n \in Chunks : n > last \/ n \in {a, f} =>
        T[n] = << >> /\ n \notin R /\ \A u \in S : u.chunk # n

AllLeft ==
  \A n \in Chunks : Left(n, todo[n], Entries(shown), receipted, Ups, Full, InMsg)

Parts ==
  /\ InOrder(shown, receipted, Ups, Full, InMsg)
  /\ InTurn(Entries(shown), receipted, todo, sent, arriving, fetching)
  /\ AllLeft

\* These are the parts of the invariant.
LEMMA InvParts == HistoryInv <=> MediaInv /\ HistoryTypeOK /\ Parts
<1>1. HistoryTypeOK => (HistoryInOrder <=> InOrder(shown, receipted, Ups, Full, InMsg))
  <2> SUFFICES ASSUME HistoryTypeOK
               PROVE  HistoryInOrder <=> InOrder(shown, receipted, Ups, Full, InMsg)
    OBVIOUS
  <2>1. \A j \in 1..Len(shown) : shown[j].chunk \in Chunks
    <3>1. shown \in Seq(Shown)
      BY DEF HistoryTypeOK, Shown
    <3>2. \A j \in 1..Len(shown) : shown[j] \in Shown
      BY <3>1, ElementOfSeq
    <3> QED
      BY <3>2 DEF Shown
  <2>2. receipted \subseteq Chunks
    BY DEF HistoryTypeOK
  <2>3. \A n \in Chunks : /\ Ups[n] = Entries(Updates(n))
                          /\ n \in Full <=> chunk[n].payload = "full"
                          /\ n \in InMsg <=> InMessage(n)
    BY DEF Ups, Full, InMsg
  <2> QED
    BY <2>1, <2>2, <2>3 DEF HistoryInOrder, InOrder
<1>2. ChunksInTurn <=> InTurn(Entries(shown), receipted, todo, sent, arriving, fetching)
  BY DEF ChunksInTurn, InTurn
<1>3. ASSUME NEW n \in Chunks
      PROVE  TaskLeft(n) <=> Left(n, todo[n], Entries(shown), receipted, Ups, Full, InMsg)
  <2>1. /\ Ups[n] = Entries(Updates(n))
        /\ n \in Full <=> chunk[n].payload = "full"
        /\ n \in InMsg <=> InMessage(n)
    BY DEF Ups, Full, InMsg
  <2> QED
    BY <2>1 DEF TaskLeft, Left
<1> QED
  BY <1>1, <1>2, <1>3 DEF HistoryInv, Parts, AllLeft

\* The updates of a chunk are its own.
LEMMA UpsAre ==
  \A n \in Chunks : \A u \in Ups[n] : u \in Shown /\ u.chunk = n /\ u.kind # "receipt"
BY UpdatesAre DEF Ups

\* What a chunk is does not change once it is sent.
LEMMA SameChunks == UNCHANGED chunk => Ups' = Ups /\ Full' = Full /\ InMsg' = InMsg
BY DEF Ups, Full, InMsg, Updates, InMessage

\* The steps of downloads and of the device's writers do not touch the history.
LEMMA MediaKeeps ==
  ASSUME HistoryInv, MediaInv', UNCHANGED chunkVars, barred' \in {barred, ~barred}
  PROVE  HistoryInv'
<1>0. barred' \in BOOLEAN
  BY DEF HistoryInv, HistoryTypeOK
<1>1. HistoryTypeOK'
  BY <1>0 DEF HistoryInv, HistoryTypeOK, MediaInv, Arrivals, chunkVars
<1>2. UNCHANGED <<shown, receipted, todo, sent, arriving, fetching, Ups, Full, InMsg>>
  BY SameChunks DEF chunkVars
<1>3. Parts
  BY InvParts
<1>4. Parts'
  BY <1>2, <1>3 DEF Parts, AllLeft
<1> QED
  BY <1>1, <1>4, InvParts, PTL

LEMMA SameMedia == MediaInv /\ UNCHANGED mediaVars => MediaInv'
BY DEF MediaInv, MediaTypeOK, WriterHoldsFile, mediaVars

\* Lengths are numbers, and a chunk that was shown is one.
LEMMA Lengths ==
  ASSUME HistoryInv
  PROVE  /\ shown \in Seq(Shown) /\ Len(shown) \in Nat
         /\ \A i \in 1..Len(shown) : shown[i] \in Shown
         /\ \A n \in Chunks : todo[n] \in Seq(Steps) /\ Len(todo[n]) \in Nat
<1>1. shown \in Seq(Shown) /\ todo \in [Chunks -> Seq(Steps)]
  BY DEF HistoryInv, HistoryTypeOK, Shown, Steps
<1> QED
  BY <1>1, LenProperties, ElementOfSeq

\* The server sends the next chunk; nothing has been done about it.
LEMMA ServerKeeps == ASSUME HistoryInv, ServerSends PROVE HistoryInv'
<1> DEFINE n == sent + 1
<1>1. /\ sent \in 0..MaxChunks /\ n \in Chunks /\ sent < n /\ arriving = NoChunk
      /\ sent' = n /\ arriving' = n /\ \A m \in Chunks : m # n => chunk'[m] = chunk[m]
      /\ UNCHANGED <<mediaVars, auto, barred, fetching, todo, shown, receipted, dropped>>
  BY HistoryAssumption DEF HistoryInv, HistoryTypeOK, ServerSends, Chunks
<1>2. Parts
  BY InvParts
<1>3. HistoryTypeOK'
  <2>1. MediaTypeOK'
    BY <1>1, SameMedia DEF HistoryInv, MediaInv
  <2>2. chunk' \in [Chunks -> Arrivals]
    <3>1. chunk \in [Chunks -> Arrivals]
      BY DEF HistoryInv, HistoryTypeOK
    <3>2. PICK a \in Arrivals : chunk' = [chunk EXCEPT ![sent + 1] = a]
      BY DEF ServerSends
    <3> QED
      BY <3>1, <3>2
  <2>3. sent' \in 0..MaxChunks /\ arriving' \in Chunks
    BY <1>1, HistoryAssumption DEF Chunks
  <2> QED
    BY <1>1, <2>1, <2>2, <2>3 DEF HistoryInv, HistoryTypeOK
<1>4. \A m \in Chunks : m # n => /\ Ups'[m] = Ups[m] /\ (m \in Full' <=> m \in Full)
                                 /\ (m \in InMsg' <=> m \in InMsg)
  BY <1>1 DEF Ups, Full, InMsg, Updates, InMessage
<1>5. InTurn(Entries(shown), receipted, todo, sent, arriving, fetching)
  BY <1>2 DEF Parts
<1>6. todo[n] = << >> /\ n \notin receipted /\ \A u \in Entries(shown) : u.chunk # n
  BY <1>1, <1>5 DEF InTurn
<1>7. fetching = NoChunk
  <2>1. CASE sent = 0
    BY <1>1, <1>5, <2>1 DEF InTurn, HistoryInv, HistoryTypeOK, Chunks
  <2>2. CASE sent \in receipted
    BY <1>1, <1>5, <2>2 DEF InTurn, HistoryInv, HistoryTypeOK
  <2> QED
    BY <2>1, <2>2 DEF ServerSends
<1>8. \A m \in Chunks : m < n => m \in receipted
  <2>1. CASE sent = 0
    BY <2>1 DEF Chunks
  <2>2. CASE sent \in receipted
    BY <1>1, <1>5, <2>2 DEF InTurn, Chunks
  <2> QED
    BY <2>1, <2>2 DEF ServerSends
<1> HIDE DEF n
<1>9. InTurn(Entries(shown), receipted, todo, n, n, NoChunk)
  BY <1>1, <1>5, <1>6, <1>8 DEF InTurn, Chunks
<1>10. \A j \in 1..Len(shown) : shown[j].chunk \in Chunks /\ shown[j].chunk # n
  <2>1. \A j \in 1..Len(shown) : shown[j] \in Entries(shown)
    BY DEF Entries
  <2> QED
    BY <1>6, <2>1, Lengths DEF Shown
<1>11. InOrder(shown, receipted, Ups, Full, InMsg)' = InOrder(shown, receipted, Ups', Full', InMsg')
  BY <1>1
<1>12. InOrder(shown, receipted, Ups', Full', InMsg')
  <2>1. InOrder(shown, receipted, Ups, Full, InMsg) /\ receipted \subseteq Chunks
    BY <1>2 DEF Parts, HistoryInv, HistoryTypeOK
  <2> QED
    BY <1>4, <1>6, <1>10, <2>1 DEF InOrder
<1>13. ASSUME NEW m \in Chunks
       PROVE  Left(m, todo[m], Entries(shown), receipted, Ups', Full', InMsg')
  <2>1. Left(m, todo[m], Entries(shown), receipted, Ups, Full, InMsg)
    BY <1>2 DEF Parts, AllLeft
  <2>2. CASE m = n
    BY <1>6, <2>2 DEF Left
  <2>3. CASE m # n
    BY <1>4, <2>1, <2>3 DEF Left
  <2> QED
    BY <2>2, <2>3
<1>14. Parts'
  BY <1>1, <1>7, <1>9, <1>11, <1>12, <1>13 DEF Parts, AllLeft
<1>15. MediaInv'
  BY <1>1, SameMedia DEF HistoryInv
<1> QED
  BY <1>3, <1>14, <1>15, InvParts, PTL

\* The stream reads a chunk, begins or ends its download, and gives it up: it
\* has no task.
LEMMA MovesOn ==
  ASSUME HistoryInv, MediaInv', arriving' = NoChunk, fetching' \in {NoChunk, arriving, fetching},
         UNCHANGED <<auto, barred, sent, chunk, todo, shown, receipted>>, dropped' \subseteq Chunks
  PROVE  HistoryInv'
<1>1. fetching' \in Chunks \cup {NoChunk}
  BY DEF HistoryInv, HistoryTypeOK
<1>2. HistoryTypeOK'
  BY <1>1 DEF HistoryInv, HistoryTypeOK, MediaInv, Arrivals
<1>3. Parts
  BY InvParts
<1>4. InTurn(Entries(shown), receipted, todo, sent, arriving', fetching')
  BY <1>3, HistoryAssumption DEF Parts, InTurn, Chunks
<1>5. Parts'
  BY <1>3, <1>4, SameChunks DEF Parts, AllLeft
<1> QED
  BY <1>2, <1>5, InvParts, PTL

\* The task of the chunk that the stream has just read begins.
LEMMA TaskBegins ==
  ASSUME HistoryInv, MediaInv', NEW n \in Chunks, n \in {arriving, fetching}, NEW q, Task(n, q),
         todo' = [todo EXCEPT ![n] = q], arriving' = NoChunk, fetching' = NoChunk,
         UNCHANGED <<auto, barred, sent, chunk, shown, receipted>>, dropped' \subseteq Chunks
  PROVE  HistoryInv'
<1>1. todo \in [Chunks -> Seq(Steps)] /\ q \in Seq(Steps) /\ NoChunk \notin Chunks
  BY HistoryAssumption DEF HistoryInv, HistoryTypeOK, Steps, Task, Chunks
<1>2. todo' \in [Chunks -> Seq(Steps)]
  BY <1>1
<1>3. HistoryTypeOK'
  BY <1>2 DEF HistoryInv, HistoryTypeOK, MediaInv, Steps, Arrivals
<1>4. Parts
  BY InvParts
<1>5. InTurn(Entries(shown), receipted, todo, sent, arriving, fetching)
  BY <1>4 DEF Parts
<1>6. n = sent /\ n \notin receipted /\ \A u \in Entries(shown) : u.chunk # n
  BY <1>1, <1>5 DEF InTurn
<1>7. InTurn(Entries(shown), receipted, todo', sent, NoChunk, NoChunk)
  BY <1>1, <1>5, <1>6 DEF InTurn, Chunks
<1>8. ASSUME NEW m \in Chunks
      PROVE  Left(m, todo'[m], Entries(shown), receipted, Ups, Full, InMsg)
  <2>1. Left(m, todo[m], Entries(shown), receipted, Ups, Full, InMsg)
    BY <1>4 DEF Parts, AllLeft
  <2>2. CASE m = n
    <3>1. \A i \in 1..Len(q) : q[i].chunk = n
      BY UpsAre, ReceiptsAre DEF Task, Ups
    <3>2. /\ Ups[n] = Entries(Updates(n))
          /\ n \in Full <=> chunk[n].payload = "full"
          /\ n \in InMsg <=> InMessage(n)
      BY DEF Ups, Full, InMsg
    <3>3. todo'[m] = q
      BY <1>1, <2>2
    <3> QED
      BY <1>6, <2>2, <3>1, <3>2, <3>3 DEF Left, Task
  <2>3. CASE m # n
    BY <1>1, <2>1, <2>3
  <2> QED
    BY <2>2, <2>3
<1>9. Parts'
  BY <1>4, <1>7, <1>8, SameChunks DEF Parts, AllLeft
<1> QED
  BY <1>3, <1>9, InvParts, PTL

\* The first step of a task, and what is left of it.
LEMMA HeadOfTask ==
  ASSUME HistoryInv, NEW n \in Chunks, todo[n] # << >>
  PROVE  /\ Len(todo[n]) \in Nat \ {0} /\ 1 \in 1..Len(todo[n]) /\ Head(todo[n]) = todo[n][1]
         /\ Tail(todo[n]) \in Seq(Steps) /\ Len(Tail(todo[n])) = Len(todo[n]) - 1
         /\ \A i \in 1..Len(Tail(todo[n])) :
               Tail(todo[n])[i] = todo[n][i + 1] /\ i + 1 \in 1..Len(todo[n])
         /\ Entries(todo[n]) \subseteq {Head(todo[n])} \cup Entries(Tail(todo[n]))
<1> DEFINE q == todo[n]
<1>1. q \in Seq(Steps) /\ q # << >>
  BY Lengths
<1> HIDE DEF q
<1>2. Len(q) \in Nat \ {0} /\ Head(q) = q[1]
  BY <1>1, EmptySeq
<1>3. /\ Tail(q) \in Seq(Steps) /\ Len(Tail(q)) = Len(q) - 1
      /\ \A i \in 1..Len(Tail(q)) : Tail(q)[i] = q[i + 1]
  BY <1>1, HeadTailProperties
<1>4. ASSUME NEW i \in 1..Len(q) PROVE q[i] \in {Head(q)} \cup Entries(Tail(q))
  <2>1. CASE i = 1
    BY <1>2, <2>1
  <2>2. CASE i # 1
    <3>1. i - 1 \in 1..Len(Tail(q)) /\ (i - 1) + 1 = i
      BY <1>2, <1>3, <2>2
    <3>2. Tail(q)[i - 1] = q[i]
      BY <1>3, <3>1
    <3> QED
      BY <3>1, <3>2 DEF Entries
  <2> QED
    BY <2>1, <2>2
<1>5. Entries(q) \subseteq {Head(q)} \cup Entries(Tail(q))
  BY <1>4 DEF Entries
<1>6. \A i \in 1..Len(Tail(q)) : Tail(q)[i] = q[i + 1] /\ i + 1 \in 1..Len(q)
  BY <1>2, <1>3
<1> QED
  BY <1>2, <1>3, <1>5, <1>6 DEF q

\* The receipt of a chunk is sent, or fails.
LEMMA ReceiptKeeps ==
  ASSUME HistoryInv, NEW n \in Chunks, TaskStep(n), Head(todo[n]).kind = "receipt"
  PROVE  HistoryInv'
<1> DEFINE q == todo[n]  t == Tail(q)  h == Head(q)
<1>1. /\ q # << >> /\ todo' = [todo EXCEPT ![n] = t]
      /\ receipted' \in {receipted, receipted \cup {n}} /\ dropped' \in {dropped, dropped \cup {n}}
      /\ UNCHANGED <<mediaVars, auto, barred, sent, chunk, arriving, fetching, shown>>
  BY DEF TaskStep
<1>2. /\ Len(q) \in Nat \ {0} /\ 1 \in 1..Len(q) /\ h = q[1]
      /\ t \in Seq(Steps) /\ Len(t) = Len(q) - 1
      /\ \A i \in 1..Len(t) : t[i] = q[i + 1] /\ i + 1 \in 1..Len(q)
      /\ Entries(q) \subseteq {h} \cup Entries(t)
  BY <1>1, HeadOfTask
<1>3. /\ InOrder(shown, receipted, Ups, Full, InMsg)
      /\ InTurn(Entries(shown), receipted, todo, sent, arriving, fetching)
      /\ \A m \in Chunks : Left(m, todo[m], Entries(shown), receipted, Ups, Full, InMsg)
  BY InvParts DEF Parts, AllLeft
<1>4. Left(n, q, Entries(shown), receipted, Ups, Full, InMsg)
  BY <1>3
<1>5. h.kind = "receipt" /\ h \notin Ups[n] /\ h # Update("chunk", n)
  BY UpsAre DEF Update
<1>6. todo \in [Chunks -> Seq(Steps)] /\ receipted \subseteq Chunks /\ dropped \subseteq Chunks
  BY DEF HistoryInv, HistoryTypeOK, Steps
<1>7. todo' \in [Chunks -> Seq(Steps)]
  BY <1>1, <1>2, <1>6
<1> HIDE DEF q, t, h
<1>8. MediaInv'
  BY <1>1, SameMedia DEF HistoryInv
<1>9. HistoryTypeOK'
  BY <1>1, <1>6, <1>7, <1>8 DEF HistoryInv, HistoryTypeOK, MediaInv, Steps, Arrivals
<1>10. n \in InMsg => Len(q) = 1 /\ Ups[n] \subseteq Entries(shown)
  BY <1>1, <1>2, <1>4, <1>5 DEF Left, Entries
<1>11. InOrder(shown, receipted', Ups, Full, InMsg)
  BY <1>1, <1>3, <1>10 DEF InOrder
<1>12. n <= sent /\ n \notin {arriving, fetching}
  <2>1. sent \in Nat /\ n \in Nat
    BY HistoryAssumption DEF HistoryInv, HistoryTypeOK, Chunks
  <2> QED
    BY <1>1, <1>3, <2>1 DEF InTurn, q
<1>13. InTurn(Entries(shown), receipted', todo', sent, arriving, fetching)
  <2>1. sent \in Nat /\ n \in Nat /\ Chunks \subseteq Nat
    BY HistoryAssumption DEF HistoryInv, HistoryTypeOK, Chunks
  <2>2. \A m \in Chunks : m > sent \/ m \in {arriving, fetching} => m # n
    BY <1>12, <2>1
  <2>3. \A m \in Chunks : m # n => todo'[m] = todo[m] /\ (m \in receipted' <=> m \in receipted)
    BY <1>1, <1>6
  <2> QED
    BY <1>1, <1>3, <2>2, <2>3 DEF InTurn
<1>14. ASSUME NEW m \in Chunks
       PROVE  Left(m, todo'[m], Entries(shown), receipted', Ups, Full, InMsg)
  <2>1. CASE m = n
    <3>1. todo'[m] = t
      BY <1>1, <1>6, <2>1
    <3>2. ASSUME NEW i \in 1..Len(t), NEW j \in 1..Len(t), t[i] = t[j] PROVE i = j
      <4>1. i + 1 \in 1..Len(q) /\ j + 1 \in 1..Len(q) /\ q[i + 1] = q[j + 1]
        BY <1>2, <3>2
      <4>2. i + 1 = j + 1
        BY <1>4, <4>1 DEF Left
      <4> QED
        BY <4>2
    <3>3. ASSUME NEW i \in 1..Len(t)
          PROVE  /\ t[i] \in Ups[n] \cup {Receipt(n)} /\ t[i] \notin Entries(shown)
                 /\ n \notin InMsg
      <4>1. i + 1 \in 1..Len(q) /\ t[i] = q[i + 1] /\ Len(q) # 1
        BY <1>2
      <4>2. q[i + 1] \in Ups[n] \cup {Receipt(n)} /\ q[i + 1] \notin Entries(shown)
        BY <1>4, <4>1 DEF Left
      <4> QED
        BY <1>10, <4>1, <4>2
    <3>4. ASSUME NEW i \in 1..Len(t), t[i].kind = "completed", n \in Full,
                 Update("chunk", n) \notin Entries(shown)
          PROVE  \E j \in 1..(i - 1) : t[j] = Update("chunk", n)
      <4>1. PICK j \in 1..((i + 1) - 1) : q[j] = Update("chunk", n)
        BY <1>2, <1>4, <3>4 DEF Left
      <4>2. j # 1
        BY <1>2, <1>5, <4>1
      <4>3. j - 1 \in 1..(i - 1) /\ j - 1 \in 1..Len(t) /\ (j - 1) + 1 = j
        BY <1>2, <4>2
      <4> QED
        BY <1>2, <4>1, <4>3
    <3>5. t # << >> => Ups[n] \subseteq Entries(shown) \cup Entries(t)
      BY <1>1, <1>2, <1>4, <1>5 DEF Left, q
    <3> QED
      BY <2>1, <3>1, <3>2, <3>3, <3>4, <3>5 DEF Left
  <2>2. CASE m # n
    <3>1. todo'[m] = todo[m] /\ (m \in receipted' <=> m \in receipted)
      BY <1>1, <1>6, <2>2
    <3> QED
      BY <1>3, <3>1 DEF Left
  <2> QED
    BY <2>1, <2>2
<1>15. Parts'
  BY <1>1, <1>11, <1>13, <1>14, SameChunks DEF Parts, AllLeft
<1> QED
  BY <1>8, <1>9, <1>15, InvParts, PTL

\* An update goes to the application: what was shown before stays where it was.
LEMMA ShownGrows ==
  ASSUME HistoryInv, NEW h \in Shown
  PROVE  /\ Append(shown, h) \in Seq(Shown) /\ Len(Append(shown, h)) = Len(shown) + 1
         /\ \A i \in 1..Len(shown) : Append(shown, h)[i] = shown[i] /\ shown[i] \in Entries(shown)
         /\ Append(shown, h)[Len(shown) + 1] = h
         /\ Entries(Append(shown, h)) = Entries(shown) \cup {h}
<1> DEFINE s == Append(shown, h)
<1>1. shown \in Seq(Shown) /\ Len(shown) \in Nat
  BY Lengths
<1>2. /\ s \in Seq(Shown) /\ Len(s) = Len(shown) + 1
      /\ \A i \in 1..Len(shown) : s[i] = shown[i]
      /\ s[Len(shown) + 1] = h
  BY <1>1, AppendProperties
<1> HIDE DEF s
<1>3. 1..Len(s) = 1..Len(shown) \cup {Len(shown) + 1}
  BY <1>1, <1>2
<1>4. Entries(s) = Entries(shown) \cup {h}
  BY <1>2, <1>3 DEF Entries
<1>5. \A i \in 1..Len(shown) : shown[i] \in Entries(shown)
  BY DEF Entries
<1> QED
  BY <1>2, <1>4, <1>5 DEF s

\* An update is handed to the application.
LEMMA UpdateKeeps ==
  ASSUME HistoryInv, NEW n \in Chunks, TaskStep(n), Head(todo[n]).kind # "receipt"
  PROVE  HistoryInv'
<1> DEFINE q == todo[n]  t == Tail(q)  h == Head(q)
           S == Entries(shown)  k == Len(shown)  s == Append(shown, h)
<1>1. /\ q # << >> /\ todo' = [todo EXCEPT ![n] = t] /\ shown' = s /\ h.kind # "receipt"
      /\ UNCHANGED <<mediaVars, auto, barred, sent, chunk, arriving, fetching, receipted, dropped>>
  BY DEF TaskStep
<1>2. /\ Len(q) \in Nat \ {0} /\ 1 \in 1..Len(q) /\ h = q[1]
      /\ t \in Seq(Steps) /\ Len(t) = Len(q) - 1
      /\ \A i \in 1..Len(t) : t[i] = q[i + 1] /\ i + 1 \in 1..Len(q)
      /\ Entries(q) \subseteq {h} \cup Entries(t)
  BY <1>1, HeadOfTask
<1>3. /\ InOrder(shown, receipted, Ups, Full, InMsg)
      /\ InTurn(S, receipted, todo, sent, arriving, fetching)
      /\ \A m \in Chunks : Left(m, todo[m], S, receipted, Ups, Full, InMsg)
  BY InvParts DEF Parts, AllLeft
<1>4. Left(n, q, S, receipted, Ups, Full, InMsg)
  BY <1>3
<1> HIDE DEF q, t, h
<1>5. h \in Ups[n] /\ h \notin S /\ (n \in InMsg => n \notin receipted)
  <2>1. q[1] \in Ups[n] \cup {Receipt(n)} /\ q[1] \notin S /\ (n \in InMsg => n \notin receipted)
    BY <1>2, <1>4 DEF Left
  <2> QED
    BY <1>1, <1>2, <2>1, ReceiptsAre
<1>6. h \in Shown /\ h.chunk = n
  BY <1>5, UpsAre
<1>7. h.kind = "completed" /\ n \in Full => Update("chunk", n) \in S
  <2>1. \A j : j \notin 1..(1 - 1)
    OBVIOUS
  <2> QED
    BY <1>2, <1>4, <2>1 DEF Left
<1>8. /\ s \in Seq(Shown) /\ Len(s) = k + 1
      /\ \A i \in 1..k : s[i] = shown[i] /\ shown[i] \in S
      /\ s[k + 1] = h
      /\ Entries(s) = S \cup {h}
  BY <1>6, ShownGrows
<1>9. k = Len(shown) /\ S = Entries(shown) /\ k \in Nat /\ \A i \in 1..k : shown[i] \in Shown
  BY Lengths
<1>10. todo \in [Chunks -> Seq(Steps)] /\ receipted \subseteq Chunks
  BY DEF HistoryInv, HistoryTypeOK, Steps
<1>11. todo' \in [Chunks -> Seq(Steps)]
  BY <1>1, <1>2, <1>10
<1>12. MediaInv'
  BY <1>1, SameMedia DEF HistoryInv
<1> HIDE DEF s, S, k
<1>13. HistoryTypeOK'
  BY <1>1, <1>8, <1>11, <1>12 DEF HistoryInv, HistoryTypeOK, MediaInv, Steps, Shown, Arrivals
<1>14. sent \in Nat /\ n \in Nat /\ Chunks \subseteq Nat
  BY HistoryAssumption DEF HistoryInv, HistoryTypeOK, Chunks
<1>15. n <= sent /\ n \notin {arriving, fetching}
  BY <1>1, <1>3, <1>14 DEF InTurn, q
<1>16. \A i \in 1..k : shown[i].chunk <= sent
  <2>1. \A i \in 1..k : shown[i].chunk \in Chunks /\ shown[i].chunk \in Nat
    BY <1>9, <1>14 DEF Shown
  <2> QED
    BY <1>3, <1>8, <1>14, <2>1 DEF InTurn
<1>17. InOrder(s, receipted, Ups, Full, InMsg)
  <2>1. \A j \in 1..Len(s) : j \in 1..k \/ j = k + 1
    BY <1>8, <1>9
  <2>2. \A i, j \in 1..Len(s) : s[i] = s[j] => i = j
    BY <1>3, <1>5, <1>8, <1>9, <2>1 DEF InOrder
  <2>3. ASSUME NEW j \in 1..Len(s) PROVE s[j] \in Ups[s[j].chunk]
    BY <1>3, <1>5, <1>6, <1>8, <1>9, <2>1 DEF InOrder
  <2>4. ASSUME NEW j \in 1..Len(s), s[j].kind = "completed", s[j].chunk \in Full
        PROVE  \E i \in 1..(j - 1) : s[i] = Update("chunk", s[j].chunk)
    <3>1. CASE j \in 1..k
      <4>1. PICK i \in 1..(j - 1) : shown[i] = Update("chunk", shown[j].chunk)
        BY <1>3, <1>8, <1>9, <2>4, <3>1 DEF InOrder
      <4>2. i \in 1..k
        BY <1>9, <3>1
      <4> QED
        BY <1>8, <3>1, <4>1, <4>2
    <3>2. CASE j = k + 1
      <4>1. PICK i \in 1..k : shown[i] = Update("chunk", n)
        BY <1>6, <1>7, <1>8, <1>9, <2>4, <3>2 DEF Entries
      <4>2. i \in 1..(j - 1)
        BY <1>9, <3>2
      <4> QED
        BY <1>6, <1>8, <3>2, <4>1, <4>2
    <3> QED
      BY <2>1, <3>1, <3>2
  <2>5. \A m \in receipted : m \in InMsg => Ups[m] \subseteq Entries(s)
    BY <1>3, <1>8, <1>9 DEF InOrder
  <2>6. ASSUME NEW i \in 1..Len(s), NEW j \in 1..Len(s), i < j, s[i].chunk > s[j].chunk
        PROVE  s[j].chunk \notin InMsg
    <3>1. CASE j \in 1..k
      <4>1. i \in 1..k
        BY <1>9, <2>6, <3>1
      <4> QED
        BY <1>3, <1>8, <1>9, <2>6, <3>1, <4>1 DEF InOrder
    <3>2. CASE j = k + 1
      <4>1. i \in 1..k
        BY <1>9, <2>1, <2>6, <3>2
      <4>2. shown[i].chunk > n /\ shown[i].chunk <= sent /\ shown[i].chunk \in Nat
        BY <1>6, <1>8, <1>9, <1>14, <1>16, <2>6, <3>2, <4>1 DEF Shown
      <4>3. n < sent
        BY <1>14, <4>2
      <4>4. n \in receipted
        BY <1>3, <4>3 DEF InTurn
      <4> QED
        BY <1>5, <1>6, <1>8, <3>2, <4>4
    <3> QED
      BY <2>1, <3>1, <3>2
  <2> QED
    BY <2>2, <2>3, <2>4, <2>5, <2>6 DEF InOrder
<1>18. InTurn(S \cup {h}, receipted, todo', sent, arriving, fetching)
  <2>1. \A m \in Chunks : m > sent \/ m \in {arriving, fetching} => m # n
    BY <1>14, <1>15
  <2>2. \A m \in Chunks : m # n => todo'[m] = todo[m]
    BY <1>1, <1>10
  <2> QED
    BY <1>3, <1>6, <2>1, <2>2 DEF InTurn
<1>19. ASSUME NEW m \in Chunks
       PROVE  Left(m, todo'[m], S \cup {h}, receipted, Ups, Full, InMsg)
  <2>1. CASE m = n
    <3>1. todo'[m] = t
      BY <1>1, <1>10, <2>1
    <3>2. ASSUME NEW i \in 1..Len(t), NEW j \in 1..Len(t), t[i] = t[j] PROVE i = j
      <4>1. i + 1 \in 1..Len(q) /\ j + 1 \in 1..Len(q) /\ q[i + 1] = q[j + 1]
        BY <1>2, <3>2
      <4>2. i + 1 = j + 1
        BY <1>4, <4>1 DEF Left
      <4> QED
        BY <4>2
    <3>3. ASSUME NEW i \in 1..Len(t)
          PROVE  /\ t[i] \in Ups[n] \cup {Receipt(n)} /\ t[i] \notin S \cup {h}
                 /\ n \in InMsg => n \notin receipted /\ (t[i].kind = "receipt" => i = Len(t))
      <4>1. i + 1 \in 1..Len(q) /\ t[i] = q[i + 1] /\ i + 1 # 1
        BY <1>2
      <4>2. q[i + 1] \in Ups[n] \cup {Receipt(n)} /\ q[i + 1] \notin S /\ q[i + 1] # q[1]
            /\ (n \in InMsg => n \notin receipted /\ (q[i + 1].kind = "receipt" => i + 1 = Len(q)))
        BY <1>2, <1>4, <4>1 DEF Left
      <4> QED
        BY <1>2, <4>1, <4>2
    <3>4. ASSUME NEW i \in 1..Len(t), t[i].kind = "completed", n \in Full,
                 Update("chunk", n) \notin S \cup {h}
          PROVE  \E j \in 1..(i - 1) : t[j] = Update("chunk", n)
      <4>1. PICK j \in 1..((i + 1) - 1) : q[j] = Update("chunk", n)
        BY <1>2, <1>4, <3>4 DEF Left
      <4>2. j # 1
        BY <1>2, <3>4, <4>1
      <4>3. j - 1 \in 1..(i - 1) /\ j - 1 \in 1..Len(t) /\ (j - 1) + 1 = j
        BY <1>2, <4>2
      <4> QED
        BY <1>2, <4>1, <4>3
    <3>5. t # << >> => Ups[n] \subseteq (S \cup {h}) \cup Entries(t)
      BY <1>1, <1>2, <1>4 DEF Left
    <3> QED
      BY <2>1, <3>1, <3>2, <3>3, <3>4, <3>5 DEF Left
  <2>2. CASE m # n
    <3>1. todo'[m] = todo[m] /\ Left(m, todo[m], S, receipted, Ups, Full, InMsg)
      BY <1>1, <1>3, <1>10, <2>2
    <3>2. \A u \in Ups[m] \cup {Receipt(m)} : u # h
      BY <1>6, <2>2, UpsAre, ReceiptsAre
    <3> QED
      BY <3>1, <3>2 DEF Left
  <2> QED
    BY <2>1, <2>2
<1>20. Parts'
  BY <1>1, <1>8, <1>17, <1>18, <1>19, SameChunks DEF Parts, AllLeft
<1> QED
  BY <1>12, <1>13, <1>20, InvParts, PTL

\* The stream reads a node (run_update_stream).
LEMMA ReadKeeps == ASSUME HistoryInv, StreamReads PROVE HistoryInv'
<1> DEFINE n == arriving
<1>1. n \in Chunks /\ fetching = NoChunk /\ arriving' = NoChunk
      /\ UNCHANGED <<auto, barred, sent, chunk, shown, receipted>> /\ MediaInv /\ dropped \subseteq Chunks
  BY DEF StreamReads, HistoryInv, HistoryTypeOK
<1>2. CASE dropped' = dropped \cup {n} /\ UNCHANGED <<mediaVars, fetching, todo>>
  BY <1>1, <1>2, SameMedia, MovesOn
<1>3. CASE Begin(History) /\ fetching' = n /\ UNCHANGED <<todo, dropped>>
  <2>1. MediaInv'
    BY <1>1, <1>3, BeginKeeps, HistoryAssumption
  <2> QED
    BY <1>1, <1>3, <2>1, MovesOn
<1>4. CASE /\ todo' = [todo EXCEPT ![n] = IF InMessage(n) THEN Background(n) ELSE Legacy(n)]
           /\ dropped' = IF Acknowledged(n) THEN dropped ELSE dropped \cup {n}
           /\ UNCHANGED <<mediaVars, fetching>>
  <2> DEFINE q == IF InMessage(n) THEN Background(n) ELSE Legacy(n)
  <2>1. Task(n, q)
    BY <1>1, BackgroundIsTask, LegacyIsTask
  <2>2. todo' = [todo EXCEPT ![n] = q] /\ dropped' \subseteq Chunks /\ fetching' = NoChunk
    BY <1>1, <1>4
  <2>3. MediaInv'
    BY <1>1, <1>4, SameMedia
  <2> HIDE DEF q
  <2> QED
    BY <1>1, <2>1, <2>2, <2>3, TaskBegins
<1> QED
  BY <1>2, <1>3, <1>4 DEF StreamReads

\* The stream's download returns (decrypt_e2e_message).
LEMMA ReturnKeeps == ASSUME HistoryInv, DownloadReturns PROVE HistoryInv'
<1> DEFINE n == fetching
           q == IF dl[History].at = "ok" THEN Background(n) ELSE << >>
<1>1. n \in Chunks /\ fetching' = NoChunk /\ todo' = [todo EXCEPT ![n] = q]
      /\ dropped' \in {dropped, dropped \cup {n}} /\ dl' = [dl EXCEPT ![History] = Idle]
      /\ UNCHANGED <<cache, expired, writer, auto, barred, sent, chunk, arriving, shown, receipted>>
  BY DEF DownloadReturns, HistoryInv, HistoryTypeOK
<1>2. MediaInv'
  BY <1>1, IdleKeeps DEF HistoryInv
<1>3. arriving' = NoChunk
  <2>1. n # NoChunk
    BY DEF DownloadReturns
  <2> QED
    BY <1>1, <2>1, InvParts DEF Parts, InTurn
<1>4. Task(n, q)
  <2>1. Task(n, << >>)
    BY DEF Task
  <2> QED
    BY <1>1, <2>1, BackgroundIsTask
<1>5. dropped' \subseteq Chunks
  BY <1>1 DEF HistoryInv, HistoryTypeOK
<1> HIDE DEF q
<1> QED
  BY <1>1, <1>2, <1>3, <1>4, <1>5, TaskBegins

\* At first nothing is cached, sent, shown or downloaded.
LEMMA HistoryStarts == SyncInit => HistoryInv
<1> SUFFICES ASSUME SyncInit PROVE HistoryInv
  OBVIOUS
<1>1. MediaInv
  <2>1. Idle \in DlStates /\ Idle.attempt = 0 /\ Idle.at = "idle"
    BY MediaAssumption DEF Idle, DlStates, Conns, Places
  <2>2. NewWriter \in WriterStates
    BY EmptySeq DEF NewWriter, WriterStates
  <2>3. NoConn \in Conns
    BY DEF Conns
  <2>4. \A d \in Downloads : dl[d] = Idle /\ writer[d] = NewWriter
    BY DEF SyncInit, MediaInit
  <2>5. dl \in [Downloads -> DlStates] /\ writer \in [Downloads -> WriterStates]
    BY <2>1, <2>2 DEF SyncInit, MediaInit
  <2>6. \A d \in Downloads : Sound(d, dl[d], writer[d])
    BY <2>2, <2>4, IdleIsSound
  <2>7. cache \in Conns /\ expired \in BOOLEAN
    BY <2>3 DEF SyncInit, MediaInit
  <2> QED
    BY <2>5, <2>6, <2>7, MediaSound DEF AllSound
<1>2. HistoryTypeOK
  <2>1. [by |-> "inline", payload |-> "missing"] \in Arrivals /\ 0 \in 0..MaxChunks
    BY HistoryAssumption DEF Arrivals
  <2>2. << >> \in Seq([kind : {"chunk", "completed", "receipt"}, chunk : Chunks])
        /\ << >> \in Seq([kind : {"chunk", "completed"}, chunk : Chunks])
    BY EmptySeq
  <2>3. /\ auto \in BOOLEAN /\ barred \in BOOLEAN /\ sent \in 0..MaxChunks
        /\ chunk \in [Chunks -> Arrivals]
    BY <2>1 DEF SyncInit
  <2>4. todo \in [Chunks -> Seq([kind : {"chunk", "completed", "receipt"}, chunk : Chunks])]
    BY <2>2 DEF SyncInit
  <2> QED
    BY <1>1, <2>2, <2>3, <2>4 DEF SyncInit, HistoryTypeOK, MediaInv
<1>3. Entries(<< >>) = {} /\ Len(<< >>) = 0
  BY DEF Entries
<1>4. InOrder(shown, receipted, Ups, Full, InMsg)
  BY <1>3 DEF SyncInit, InOrder
<1>5. InTurn(Entries(shown), receipted, todo, sent, arriving, fetching)
  BY <1>3 DEF SyncInit, InTurn, Chunks
<1>6. AllLeft
  BY <1>3 DEF SyncInit, AllLeft, Left
<1> QED
  BY <1>1, <1>2, <1>4, <1>5, <1>6, InvParts DEF Parts

\* Every step keeps the invariant.
LEMMA HistoryStep == HistoryInv /\ [SyncNext]_syncVars => HistoryInv'
<1> SUFFICES ASSUME HistoryInv, [SyncNext]_syncVars PROVE HistoryInv'
  OBVIOUS
<1>0. MediaInv
  BY DEF HistoryInv
<1>1. CASE ServerSends
  BY <1>1, ServerKeeps
<1>2. CASE StreamReads
  BY <1>2, ReadKeeps
<1>3. CASE DownloadReturns
  BY <1>3, ReturnKeeps
<1>4. ASSUME NEW n \in Chunks, TaskStep(n) PROVE HistoryInv'
  BY <1>4, ReceiptKeeps, UpdateKeeps
<1>5. ASSUME NEW d \in Downloads, AppBegins(d) PROVE HistoryInv'
  BY <1>0, <1>5, BeginKeeps, MediaKeeps DEF AppBegins, historyVars
<1>6. CASE MediaNext /\ UNCHANGED historyVars
  <2>1. MediaInv'
    BY <1>0, <1>6, DownloadKeeps, ExpireKeeps DEF MediaNext
  <2> QED
    BY <1>6, <2>1, MediaKeeps DEF historyVars
<1>7. CASE UNCHANGED syncVars
  <2>1. MediaInv' /\ UNCHANGED historyVars
    BY <1>0, <1>7, SameMedia DEF syncVars
  <2> QED
    BY <2>1, MediaKeeps DEF historyVars
<1>8. CASE DeviceWriter
  <2>1. MediaInv' /\ UNCHANGED chunkVars
    BY <1>0, <1>8, SameMedia DEF DeviceWriter
  <2> QED
    BY <1>8, <2>1, MediaKeeps DEF DeviceWriter
<1> QED
  BY <1>1, <1>2, <1>3, <1>4, <1>5, <1>6, <1>7, <1>8 DEF SyncNext

\* For any number of chunks and downloads: a chunk that came in a <message> is
\* handed over in full before its receipt and before every later chunk, no
\* update comes twice, a chunk's completion comes after its conversations, and
\* the server is at most one chunk ahead of the receipts (run_update_stream,
\* handle_history_sync, process_history_sync_payload).
THEOREM HistoryInvariant == SyncSpec => []HistoryInv
<1> QED
  BY HistoryStarts, HistoryStep, PTL DEF SyncSpec

\* A download that was refused asks its hosts again only with a connection that
\* the server was asked for after the refusal, for any number of downloads that
\* share the cache (refresh_media_conn, invalidate_media_conn).
THEOREM FreshRetry == SyncSpec => []RetryIsFresh
<1>1. HistoryInv => RetryIsFresh
  BY DEF HistoryInv, MediaInv, RetryIsFresh
<1> QED
  BY <1>1, HistoryInvariant, PTL

\* When download_to_writer returns Ok the writer starts with the file, for any
\* number of hosts that failed before and whatever they wrote.
THEOREM WholeFile == SyncSpec => []WriterHoldsFile
<1>1. HistoryInv => WriterHoldsFile
  BY DEF HistoryInv, MediaInv
<1> QED
  BY <1>1, HistoryInvariant, PTL

-----------------------------------------------------------------------------
(* PreKeys.                                                                *)

USE PreKeysAssumption

\* The server's count of our keys is a number, at most as large as the number
\* of ids.
LEMMA CountIsNat == ServerCount \in Nat
<1> DEFINE S == {id \in Ids : published[id] # NoKey}
<1>1. IsFiniteSet(Ids)
  BY FS_Interval DEF Ids
<1>2. IsFiniteSet(S)
  BY <1>1, FS_Subset
<1>3. Cardinality(S) \in Nat
  BY <1>2, FS_CardinalityType
<1> QED
  BY <1>3 DEF ServerCount

\* Every step keeps the types (upload_prekeys_if_needed and the receive path).
LEMMA TypeStep == TypeOK /\ KeyInv /\ [Next]_vars => TypeOK'
<1> SUFFICES ASSUME TypeOK, KeyInv, [Next]_vars PROVE TypeOK'
  OBVIOUS
<1> USE DEF TypeOK, Running, Goto, Fails, uploadVars, mailVars, streamVars, ghosts
<1>1. ASSUME NEW u \in Uploads, QueryCount(u) PROVE TypeOK'
  <2>1. ServerCount < MinPrekeyCount => MinPrekeyCount - ServerCount \in 0..MinPrekeyCount
    BY CountIsNat
  <2>2. needed' \in [Uploads -> 0..MinPrekeyCount]
    BY <1>1, <2>1, CountIsNat DEF QueryCount
  <2> QED
    BY <1>1, <2>2 DEF QueryCount
<1>2. ASSUME NEW u \in Uploads, QueryFails(u) PROVE TypeOK'
  BY <1>2 DEF QueryFails
<1>3. ASSUME NEW u \in Uploads, UploadReaches(u) PROVE TypeOK'
  BY <1>3 DEF UploadReaches
<1>4. ASSUME NEW u \in Uploads, UploadReturns(u) PROVE TypeOK'
  BY <1>4 DEF UploadReturns
<1>5. ASSUME NEW u \in Uploads, UploadStops(u) PROVE TypeOK'
  BY <1>5 DEF UploadStops
<1>6. ASSUME NEW u \in Uploads, StoreKey(u) PROVE TypeOK'
  <2>1. tried[u] + 1 \in Ids /\ tried[u] + 1 \in 0..MinPrekeyCount
    BY <1>6 DEF StoreKey, KeyInv, Ids
  <2>2. tried' \in [Uploads -> 0..MinPrekeyCount]
    BY <1>6, <2>1 DEF StoreKey
  <2>3. store' \in [Ids -> Uploads \cup {NoKey}] /\ kept' \in [Uploads -> SUBSET Ids]
    BY <1>6, <2>1 DEF StoreKey
  <2>4. failures' \in 0..Failures
    BY <1>6 DEF StoreKey
  <2>5. pc' \in [Uploads -> Running \cup {"idle", "done", "failed"}]
    BY <1>6 DEF StoreKey
  <2> QED
    BY <1>6, <2>2, <2>3, <2>4, <2>5 DEF StoreKey
<1>7. ASSUME NEW id \in Ids, PeerFetches(id) PROVE TypeOK'
  BY <1>7 DEF PeerFetches, Messages
<1>8. ASSUME NEW m \in Messages, LoadKey(m) PROVE TypeOK'
  BY <1>8 DEF LoadKey, Handled, Lose, streamVars, ghosts
<1>a. ASSUME NEW m \in Messages, ReadFails(m) PROVE TypeOK'
  BY <1>a DEF ReadFails, Handled, Lose
<1>b. CASE Decrypt
  <2>1. inHand \in Messages /\ reads' \in [Messages -> 0..2]
    BY <1>b DEF Decrypt
  <2> QED
    BY <1>b, <2>1 DEF Decrypt, ghosts
<1>c. CASE RemoveKey
  <2>1. inHand \in Messages /\ inHand.id \in Ids
    BY <1>c DEF RemoveKey, Messages
  <2>2. store' \in [Ids -> Uploads \cup {NoKey}]
    BY <1>c, <2>1 DEF RemoveKey
  <2> QED
    BY <1>c, <2>1, <2>2 DEF RemoveKey, Handled
<1>d. ASSUME NEW m \in Messages, Overwrite(m) PROVE TypeOK'
  BY <1>d DEF Overwrite, Forget, streamVars
<1>e. CASE Restart
  BY <1>e DEF Restart, Forget
<1>9. CASE UNCHANGED vars
  BY <1>9 DEF vars
<1> QED
  BY <1>1, <1>2, <1>3, <1>4, <1>5, <1>6, <1>7, <1>8, <1>9, <1>a, <1>b, <1>c, <1>d, <1>e DEF Next

\* What KeyInv says of one upload, and of one message.
UploadOK(u) ==
    /\ pc[u] = "uploading" => tried[u] < needed[u]
    /\ pc[u] = "storing" => tried[u] < needed[u]
    /\ pc[u] = "idle" => tried[u] = 0
MessageOK(m) ==
    /\ store[m.id] = m.by => m.id <= tried[m.by]
    /\ reads[m] > 0 =>
          /\ m.id <= tried[m.by] /\ m \in sessions \cup forgotten
          /\ store[m.id] = m.by => m \in undone \/ (stage = "decrypted" /\ inHand = m)
    /\ stage = "opened" /\ inHand = m =>
          m.id <= tried[m.by] /\ m \notin sessions /\ (reads[m] > 0 => m \in undone)
    /\ stage = "decrypted" /\ inHand = m => reads[m] > 0
    /\ reads[m] > 1 => m \in undone \cap forgotten

LEMMA KeyInvParts ==
    KeyInv <=> TypeOK /\ (\A u \in Uploads : UploadOK(u)) /\ (\A m \in Messages : MessageOK(m))
  BY DEF KeyInv, UploadOK, MessageOK, KeyUsedOnce

\* An upload's ids are stored one after the other.
LEMMA UploadStep ==
    ASSUME KeyInv, [Next]_vars, NEW v \in Uploads PROVE UploadOK(v)'
<1>0. TypeOK /\ UploadOK(v)
  BY KeyInvParts
<1> USE DEF TypeOK, UploadOK, Running, Goto, Fails, uploadVars, mailVars
<1>1. ASSUME NEW u \in Uploads, QueryCount(u) PROVE UploadOK(v)'
  <2>1. ServerCount < MinPrekeyCount => MinPrekeyCount - ServerCount > 0
    BY CountIsNat
  <2>2. CASE ServerCount >= MinPrekeyCount
    BY <1>0, <1>1, <2>2 DEF QueryCount
  <2>3. CASE ~(ServerCount >= MinPrekeyCount)
    <3>1. ServerCount < MinPrekeyCount
      BY <2>3, CountIsNat
    <3>2. pc' = [pc EXCEPT ![u] = "uploading"] /\ tried' = tried
          /\ needed' = [needed EXCEPT ![u] = MinPrekeyCount - ServerCount]
          /\ pc[u] = "idle"
      BY <1>1, <2>3 DEF QueryCount
    <3>3. CASE u = v
      BY <1>0, <2>1, <3>1, <3>2, <3>3, CountIsNat
    <3>4. CASE u # v
      BY <1>0, <3>2, <3>4
    <3> QED
      BY <3>3, <3>4
  <2> QED
    BY <2>2, <2>3
<1>2. ASSUME NEW u \in Uploads, QueryFails(u) PROVE UploadOK(v)'
  BY <1>0, <1>2 DEF QueryFails
<1>3. ASSUME NEW u \in Uploads, UploadReaches(u) PROVE UploadOK(v)'
  BY <1>0, <1>3 DEF UploadReaches
<1>4. ASSUME NEW u \in Uploads, UploadReturns(u) PROVE UploadOK(v)'
  BY <1>0, <1>4 DEF UploadReturns
<1>5. ASSUME NEW u \in Uploads, UploadStops(u) PROVE UploadOK(v)'
  BY <1>0, <1>5 DEF UploadStops
<1>6. ASSUME NEW u \in Uploads, StoreKey(u) PROVE UploadOK(v)'
  <2>1. tried' = [tried EXCEPT ![u] = tried[u] + 1] /\ needed' = needed /\ pc[u] = "storing"
        /\ pc' = IF tried[u] + 1 = needed[u] THEN [pc EXCEPT ![u] = "done"] ELSE pc
    BY <1>6 DEF StoreKey
  <2>2. tried[u] < needed[u] /\ tried[u] \in Nat /\ needed[u] \in Nat
    BY <2>1, KeyInvParts
  <2>3. CASE u = v
    BY <1>0, <2>1, <2>2, <2>3
  <2>4. CASE u # v
    BY <1>0, <2>1, <2>4
  <2> QED
    BY <2>3, <2>4
<1>7. ASSUME NEW id \in Ids, PeerFetches(id) PROVE UploadOK(v)'
  BY <1>0, <1>7 DEF PeerFetches
<1>8. CASE UNCHANGED uploadVars
  BY <1>0, <1>8
<1>a. ASSUME NEW m \in Messages, LoadKey(m) \/ ReadFails(m) \/ Overwrite(m) PROVE UNCHANGED uploadVars
  BY <1>a DEF LoadKey, ReadFails, Overwrite
<1>b. Decrypt \/ RemoveKey => UNCHANGED uploadVars
  BY DEF Decrypt, RemoveKey
<1>c. CASE Restart
  BY <1>0, <1>c DEF Restart
<1>9. CASE UNCHANGED vars
  BY <1>0, <1>9 DEF vars
<1> QED
  BY <1>1, <1>2, <1>3, <1>4, <1>5, <1>6, <1>7, <1>8, <1>9, <1>a, <1>b, <1>c DEF Next

\* A key enters the store once, unused, and leaves it when it is used.
LEMMA MessageStep ==
    ASSUME KeyInv, [Next]_vars, NEW n \in Messages PROVE MessageOK(n)'
<1>0. TypeOK /\ MessageOK(n) /\ n.id \in Ids /\ n.by \in Uploads /\ n.by # NoKey
  BY KeyInvParts DEF Messages, TypeOK
<1>a. n.id \in Nat /\ tried[n.by] \in Nat /\ reads[n] \in 0..2
  BY <1>0 DEF TypeOK, Ids
<1>1. CASE UNCHANGED <<store, tried, mailVars>>
  BY <1>0, <1>1 DEF MessageOK, mailVars, streamVars, ghosts
<1>2. ASSUME NEW u \in Uploads, StoreKey(u) PROVE MessageOK(n)'
  <2>1. /\ tried' = [tried EXCEPT ![u] = tried[u] + 1] /\ UNCHANGED mailVars
        /\ store' = [store EXCEPT ![tried[u] + 1] = u] \/ store' = store
    BY <1>2 DEF StoreKey
  <2>2. tried[u] \in Nat /\ tried \in [Uploads -> 0..MinPrekeyCount]
        /\ store \in [Ids -> Uploads \cup {NoKey}]
    BY <1>0 DEF TypeOK
  <2>3. tried'[n.by] \in Nat /\ tried[n.by] <= tried'[n.by]
    BY <1>0, <2>1, <2>2
  <2>4. UNCHANGED <<reads, sessions, forgotten, undone, stage, inHand>>
    BY <2>1 DEF mailVars, streamVars, ghosts
  <2>5. CASE n.by = u /\ n.id = tried[u] + 1
    <3>1. reads[n] = 0
      BY <1>0, <1>a, <2>5 DEF MessageOK
    <3>2. tried'[n.by] = n.id
      BY <1>0, <2>1, <2>2, <2>5
    <3> QED
      BY <1>0, <1>a, <2>4, <3>1, <3>2 DEF MessageOK
  <2>6. CASE ~(n.by = u /\ n.id = tried[u] + 1)
    <3>1. store'[n.id] = n.by => store[n.id] = n.by
      BY <1>0, <2>1, <2>2, <2>6
    <3> QED
      BY <1>0, <1>a, <2>3, <2>4, <3>1 DEF MessageOK
  <2> QED
    BY <2>5, <2>6
<1>3. ASSUME NEW m \in Messages, LoadKey(m) PROVE MessageOK(n)'
  <2>1. UNCHANGED <<store, tried, reads, sessions, forgotten, undone>> /\ stage = "recv"
    BY <1>3 DEF LoadKey, uploadVars, ghosts
  <2>2. CASE UNCHANGED streamVars
    BY <1>0, <2>1, <2>2 DEF MessageOK, streamVars
  <2>3. CASE m \notin sessions /\ store[m.id] = m.by /\ stage' = "opened" /\ inHand' = m
    BY <1>0, <2>1, <2>3 DEF MessageOK
  <2> QED
    BY <1>3, <2>2, <2>3 DEF LoadKey
<1>4. ASSUME NEW m \in Messages, ReadFails(m) PROVE MessageOK(n)'
  <2>1. UNCHANGED <<store, tried, reads, sessions, forgotten, undone>> /\ stage # "decrypted"
        /\ stage' = "recv"
    BY <1>4 DEF ReadFails, uploadVars
  <2> QED
    BY <1>0, <2>1 DEF MessageOK
<1>5. CASE Decrypt
  <2>1. /\ UNCHANGED <<store, tried, inHand, forgotten, undone>> /\ inHand \in Messages
        /\ stage = "opened" /\ stage' = "decrypted" /\ sessions' = sessions \cup {inHand}
        /\ reads' = [reads EXCEPT ![inHand] = IF @ < 2 THEN @ + 1 ELSE 2]
    BY <1>0, <1>5 DEF Decrypt, ghosts, uploadVars, TypeOK
  <2>2. CASE inHand = n
    <3>1. reads'[n] > 0 /\ reads'[n] \in 1..2 /\ (reads'[n] > 1 => reads[n] > 0)
      BY <1>0, <1>a, <2>1, <2>2 DEF TypeOK
    <3>2. reads[n] > 0 => n \in undone \cap forgotten
      BY <1>0, <2>1, <2>2 DEF MessageOK
    <3>3. n.id <= tried[n.by]
      BY <1>0, <2>1, <2>2 DEF MessageOK
    <3> QED
      BY <2>1, <2>2, <3>1, <3>2, <3>3 DEF MessageOK
  <2>3. CASE inHand # n
    <3>1. reads'[n] = reads[n]
      BY <1>0, <2>1, <2>3 DEF TypeOK
    <3> QED
      BY <1>0, <2>1, <2>3, <3>1 DEF MessageOK
  <2> QED
    BY <2>2, <2>3
<1>6. CASE RemoveKey
  <2>1. /\ UNCHANGED <<tried, reads, sessions, forgotten>> /\ inHand \in Messages
        /\ stage = "decrypted" /\ stage' = "recv"
    BY <1>0, <1>6 DEF RemoveKey, uploadVars, TypeOK
  <2>2. CASE store' = [store EXCEPT ![inHand.id] = NoKey] /\ undone' = undone
    <3>1. store'[n.id] = n.by => store[n.id] = n.by /\ n # inHand
      BY <1>0, <2>2 DEF TypeOK
    <3> QED
      BY <1>0, <2>1, <2>2, <3>1 DEF MessageOK
  <2>3. CASE store' = store /\ undone' = undone \cup {inHand}
    BY <1>0, <2>1, <2>3 DEF MessageOK
  <2> QED
    BY <1>6, <2>2, <2>3 DEF RemoveKey
<1>7. ASSUME NEW some \in SUBSET sessions, Forget(some), UNCHANGED <<store, tried, reads>>,
             \/ UNCHANGED <<stage, inHand, undone>>
             \/ /\ stage' = "recv"
                /\ undone' = IF stage = "decrypted" THEN undone \cup {inHand} ELSE undone
      PROVE MessageOK(n)'
  <2>1. sessions' \subseteq sessions /\ forgotten \subseteq forgotten'
        /\ sessions \cup forgotten \subseteq sessions' \cup forgotten' /\ undone \subseteq undone'
    BY <1>7 DEF Forget
  <2> QED
    BY <1>0, <1>7, <2>1 DEF MessageOK
<1>8. ASSUME NEW m \in Messages, Overwrite(m) PROVE MessageOK(n)'
  BY <1>7, <1>8 DEF Overwrite, uploadVars, streamVars
<1>9. CASE Restart
  BY <1>7, <1>9 DEF Restart
<1>b. ASSUME NEW u \in Uploads,
             QueryCount(u) \/ QueryFails(u) \/ UploadReaches(u) \/ UploadReturns(u) \/ UploadStops(u)
      PROVE MessageOK(n)'
  BY <1>1, <1>b DEF QueryCount, QueryFails, UploadReaches, UploadReturns, UploadStops, uploadVars
<1>c. ASSUME NEW id \in Ids, PeerFetches(id) PROVE MessageOK(n)'
  <2>1. UNCHANGED <<store, tried, streamVars, sessions, reads, ghosts>>
    BY <1>c DEF PeerFetches, uploadVars
  <2> QED
    BY <1>0, <2>1 DEF MessageOK, streamVars, ghosts
<1>d. CASE UNCHANGED vars
  BY <1>1, <1>d DEF vars, uploadVars
<1> QED
  BY <1>2, <1>3, <1>4, <1>5, <1>6, <1>8, <1>9, <1>b, <1>c, <1>d DEF Next

\* The inductive invariant of the pre-key store.
THEOREM KeyInvariant == Spec => []KeyInv
<1>1. Init => KeyInv
  <2> SUFFICES ASSUME Init PROVE KeyInv
    OBVIOUS
  <2>1. TypeOK
    BY DEF Init, TypeOK, Running
  <2>2. \A u \in Uploads : UploadOK(u)
    BY DEF Init, UploadOK
  <2>3. \A m \in Messages : MessageOK(m)
    BY DEF Init, MessageOK, Messages
  <2> QED
    BY <2>1, <2>2, <2>3, KeyInvParts
<1>2. KeyInv /\ [Next]_vars => KeyInv'
  <2> SUFFICES ASSUME KeyInv, [Next]_vars PROVE KeyInv'
    OBVIOUS
  <2>1. TypeOK'
    BY TypeStep, KeyInvParts
  <2>2. \A u \in Uploads : UploadOK(u)'
    BY UploadStep
  <2>3. \A m \in Messages : MessageOK(m)'
    BY MessageStep
  <2>4. (\A u \in Uploads : UploadOK(u))' /\ (\A m \in Messages : MessageOK(m))'
    BY <2>2, <2>3
  <2> QED
    BY <2>1, <2>4 DEF KeyInv, UploadOK, MessageOK, KeyUsedOnce
<1> QED
  BY <1>1, <1>2, PTL DEF Spec

\* A one-time key decrypts a second time only if its removal failed or was cut
\* short (remove_pre_key) and the session it opened is gone as well, whatever
\* uploads overlap, fail or repeat ids, and however often mail is delivered.
THEOREM UsedOnce == Spec => []KeyUsedOnce
<1>1. KeyInv => KeyUsedOnce
  BY DEF KeyInv
<1> QED
  BY <1>1, KeyInvariant, PTL

-----------------------------------------------------------------------------
(* Lost messages.                                                          *)

\* A private key that was stored is still there, has been used, or another
\* upload stored its own under the same id; one in the store or in use was
\* stored by its upload.
KeptOK(u, id) ==
    /\ id \in kept[u] =>
          \/ store[id] = u
          \/ reads[[id |-> id, by |-> u]] > 0
          \/ \E v \in Uploads \ {u} : id \in kept[v]
    /\ store[id] = u => id \in kept[u]
    /\ stage # "recv" /\ inHand = [id |-> id, by |-> u] => id \in kept[u]

KeptInv == \A u \in Uploads, id \in Ids : KeptOK(u, id)

LEMMA KeptStep ==
    ASSUME KeyInv, KeptInv, [Next]_vars, NEW v \in Uploads, NEW k \in Ids
    PROVE  KeptOK(v, k)'
<1> DEFINE n == [id |-> k, by |-> v]
<1>0. TypeOK /\ KeptOK(v, k) /\ n \in Messages /\ n.id = k /\ n.by = v /\ reads[n] \in 0..2 /\ v # NoKey
  BY KeyInvParts DEF KeptInv, Messages, TypeOK
<1>1. CASE /\ UNCHANGED <<store, kept, reads>>
           /\ UNCHANGED <<stage, inHand>> \/ stage' = "recv"
  BY <1>0, <1>1 DEF KeptOK
<1>2. ASSUME NEW u \in Uploads, StoreKey(u) PROVE KeptOK(v, k)'
  <2>1. UNCHANGED <<reads, stage, inHand>>
    BY <1>2 DEF StoreKey, mailVars, streamVars
  <2>2. CASE UNCHANGED <<store, kept>>
    BY <1>1, <2>1, <2>2
  <2>3. CASE /\ store' = [store EXCEPT ![tried[u] + 1] = u]
             /\ kept' = [kept EXCEPT ![u] = @ \cup {tried[u] + 1}]
    <3>1. \A w \in Uploads : kept[w] \subseteq kept'[w]
      BY <1>0, <2>3 DEF TypeOK
    <3>2. CASE tried[u] + 1 # k
      <4>1. store'[k] = store[k] /\ (k \in kept'[v] <=> k \in kept[v])
        BY <1>0, <2>3, <3>2 DEF TypeOK
      <4> QED
        BY <1>0, <2>1, <3>1, <4>1 DEF KeptOK
    <3>3. CASE tried[u] + 1 = k
      <4>1. store'[k] = u /\ k \in kept'[u]
        BY <1>0, <2>3, <3>3 DEF TypeOK
      <4> QED
        BY <1>0, <1>2, <2>1, <3>1, <4>1 DEF KeptOK
    <3> QED
      BY <3>2, <3>3
  <2> QED
    BY <1>2, <2>2, <2>3 DEF StoreKey
<1>3. ASSUME NEW m \in Messages, LoadKey(m) PROVE KeptOK(v, k)'
  <2>1. UNCHANGED <<store, kept, reads>>
    BY <1>3 DEF LoadKey, uploadVars
  <2>2. CASE UNCHANGED streamVars
    BY <1>1, <2>1, <2>2 DEF streamVars
  <2>3. CASE store[m.id] = m.by /\ inHand' = m
    <3>1. m = n => k \in kept[v]
      BY <1>0, <2>3 DEF KeptOK
    <3> QED
      BY <1>0, <2>1, <2>3, <3>1 DEF KeptOK
  <2> QED
    BY <1>3, <2>2, <2>3 DEF LoadKey
<1>4. CASE Decrypt
  <2>1. UNCHANGED <<store, kept, inHand>> /\ stage # "recv" /\ inHand \in Messages
        /\ reads' = [reads EXCEPT ![inHand] = IF @ < 2 THEN @ + 1 ELSE 2]
    BY <1>0, <1>4 DEF Decrypt, uploadVars, TypeOK
  <2>2. reads[n] > 0 => reads'[n] > 0
    BY <1>0, <2>1 DEF TypeOK
  <2> QED
    BY <1>0, <2>1, <2>2 DEF KeptOK
<1>5. CASE RemoveKey
  <2>1. UNCHANGED <<kept, reads>> /\ stage = "decrypted" /\ stage' = "recv" /\ inHand \in Messages
    BY <1>0, <1>5 DEF RemoveKey, uploadVars, TypeOK
  <2>2. CASE store' = store
    BY <1>1, <2>1, <2>2
  <2>3. CASE store' = [store EXCEPT ![inHand.id] = NoKey]
    <3>1. CASE inHand.id # k
      <4>1. store'[k] = store[k]
        BY <1>0, <2>3, <3>1 DEF TypeOK
      <4> QED
        BY <1>0, <2>1, <4>1 DEF KeptOK
    <3>2. CASE inHand = n
      <4>1. reads[n] > 0
        BY <1>0, <2>1, <3>2, KeyInvParts DEF MessageOK
      <4>2. store'[k] = NoKey
        BY <1>0, <2>3, <3>2 DEF TypeOK
      <4> QED
        BY <1>0, <2>1, <4>1, <4>2 DEF KeptOK
    <3>3. CASE inHand.id = k /\ inHand.by # v
      <4>1. inHand = [id |-> inHand.id, by |-> inHand.by] /\ inHand.by \in Uploads
        BY <2>1 DEF Messages
      <4>2. KeptOK(inHand.by, k)
        BY <4>1 DEF KeptInv
      <4>3. k \in kept[inHand.by]
        BY <2>1, <3>3, <4>1, <4>2 DEF KeptOK
      <4>4. store'[k] = NoKey
        BY <1>0, <2>3, <3>3 DEF TypeOK
      <4> QED
        BY <1>0, <2>1, <3>3, <4>1, <4>3, <4>4 DEF KeptOK
    <3> QED
      BY <2>1, <3>1, <3>2, <3>3 DEF Messages
  <2> QED
    BY <1>5, <2>2, <2>3 DEF RemoveKey
<1>6. ASSUME NEW m \in Messages, ReadFails(m) \/ Overwrite(m) PROVE KeptOK(v, k)'
  BY <1>1, <1>6 DEF ReadFails, Overwrite, uploadVars, streamVars
<1>7. CASE Restart
  BY <1>1, <1>7 DEF Restart
<1>8. ASSUME NEW u \in Uploads,
             QueryCount(u) \/ QueryFails(u) \/ UploadReaches(u) \/ UploadReturns(u) \/ UploadStops(u)
      PROVE KeptOK(v, k)'
  BY <1>1, <1>8 DEF QueryCount, QueryFails, UploadReaches, UploadReturns, UploadStops,
                    mailVars, uploadVars, streamVars
<1>9. ASSUME NEW id \in Ids, PeerFetches(id) PROVE KeptOK(v, k)'
  BY <1>1, <1>9 DEF PeerFetches, uploadVars, streamVars
<1>a. CASE UNCHANGED vars
  BY <1>1, <1>a DEF vars, uploadVars, mailVars, streamVars
<1> QED
  BY <1>2, <1>3, <1>4, <1>5, <1>6, <1>7, <1>8, <1>9, <1>a DEF Next

LEMMA KeptInvariant == Spec => [](KeyInv /\ KeptInv)
<1>1. Init => KeptInv
  BY PreKeysAssumption DEF Init, KeptInv, KeptOK
<1>2. KeyInv /\ KeptInv /\ [Next]_vars => KeptInv'
  <2> SUFFICES ASSUME KeyInv, KeptInv, [Next]_vars PROVE KeptInv'
    OBVIOUS
  <2>1. \A u \in Uploads, id \in Ids : KeptOK(u, id)'
    BY KeptStep
  <2> QED
    BY <2>1 DEF KeptInv
<1> QED
  BY <1>1, <1>2, KeyInvariant, PTL DEF Spec

\* A message is lost only if its private key is not stored, another upload has
\* stored a key under the same id (next_pre_key_id is never advanced), or a
\* read or the removal of its key failed.
THEOREM LossHasReason == Spec => LossExplained
<1> DEFINE Explained(m) ==
      \/ m.id \notin kept[m.by]
      \/ \E u \in Uploads \ {m.by} : m.id \in kept[u]
      \/ m \in unread' \cup undone'
<1>1. KeyInv /\ KeptInv /\ [Next]_vars => [\A m \in lost' \ lost : Explained(m)]_vars
  <2> SUFFICES ASSUME KeyInv, KeptInv, [Next]_vars, NEW m \in lost' \ lost PROVE Explained(m)
    OBVIOUS
  <2>1. (\E n \in Messages : LoadKey(n) \/ ReadFails(n)) \/ RemoveKey
    BY DEF Next, QueryCount, QueryFails, UploadReaches, UploadReturns, UploadStops, StoreKey,
           PeerFetches, Overwrite, Decrypt, Restart, mailVars, vars
  <2>2. ASSUME NEW n \in Messages, LoadKey(n) PROVE Explained(m)
    <3>1. m = n /\ store[m.id] # m.by /\ reads[m] = 0
      BY <2>2 DEF LoadKey, Lose
    <3>2. m.id \in Ids /\ m.by \in Uploads /\ m = [id |-> m.id, by |-> m.by]
      BY <3>1 DEF Messages
    <3>3. KeptOK(m.by, m.id)
      BY <3>2 DEF KeptInv
    <3> QED
      BY <3>1, <3>2, <3>3 DEF KeptOK
  <2>3. ASSUME NEW n \in Messages, ReadFails(n) PROVE Explained(m)
    BY <2>3 DEF ReadFails, Lose
  <2>4. CASE RemoveKey
    BY <2>4 DEF RemoveKey
  <2> QED
    BY <2>1, <2>2, <2>3, <2>4
<1> QED
  BY <1>1, KeptInvariant, PTL DEF Spec, LossExplained

=============================================================================
