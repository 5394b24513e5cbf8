---------------------------- MODULE NoiseSocket ----------------------------
(***************************************************************************)
(* The Noise transport phase of one connection: NoiseSocket's two AES-GCM  *)
(* counters, the write path from handle_send_node down to the WebSocket    *)
(* sink, and the read path of decrypt_frame.                               *)
(*                                                                         *)
(* A write is one call of encrypt_and_send: a queued command, the answer   *)
(* to a set IQ, or a keepalive ping, which alone runs under a deadline.    *)
(* Frames are abstracted to the counter (the nonce) they are sealed with.  *)
(***************************************************************************)
EXTENDS Naturals, Sequences

CONSTANTS
    Writes,      \* the calls of encrypt_and_send on this socket
    Keepalives,  \* those made by send_keepalive, under KEEPALIVE_DEADLINE
    NoWrite,     \* the write counter's lock is free
    CounterMax,  \* u32::MAX
    BadFrames    \* Bound: how many frames of the server do not decrypt

ASSUME NoiseAssumption ==
    /\ Keepalives \subseteq Writes
    /\ NoWrite \notin Writes
    /\ CounterMax \in Nat \ {0}
    /\ BadFrames \in Nat

VARIABLES
    writeCounter,  \* write_counter
    holder,        \* the write that holds write_counter's lock, or NoWrite
    outcome,       \* per write, "none" while it has not returned
    wire,          \* the frames the WebSocket has accepted, in order
    readCounter,   \* read_counter
    serverCounter, \* the counter of the server's next frame
    inbound,       \* the server's frames that are still to be read
    readOutcome,   \* what decrypt_frame returned last
    bad            \* how many bad frames the server has sent

writeVars == <<writeCounter, holder, outcome, wire>>
readVars == <<readCounter, serverCounter, inbound, readOutcome, bad>>
vars == <<writeVars, readVars>>

Cut == {"failed", "cancelled"}
Outcomes == {"none", "ok", "exhausted"} \cup Cut

\* NoiseSocket::new
Init ==
    /\ writeCounter = 0 /\ holder = NoWrite
    /\ outcome = [w \in Writes |-> "none"]
    /\ wire = << >>
    /\ readCounter = 0 /\ serverCounter = 0
    /\ inbound = << >> /\ readOutcome = "none" /\ bad = 0

-----------------------------------------------------------------------------
(* encrypt_and_send: take the lock, seal with the counter, hand the frame  *)
(* to the transport, and only then advance the counter.                    *)

\* Faulty variant: the counter is not checked before it is used.
AcquireUnchecked(w) ==
    /\ holder = NoWrite /\ outcome[w] = "none"
    /\ holder' = w
    /\ UNCHANGED <<outcome, writeCounter, wire, readVars>>

Acquire(w) ==
    /\ holder = NoWrite /\ outcome[w] = "none"
    /\ IF writeCounter = CounterMax
       THEN /\ outcome' = [outcome EXCEPT ![w] = "exhausted"]
            /\ UNCHANGED holder
       ELSE /\ holder' = w
            /\ UNCHANGED outcome
    /\ UNCHANGED <<writeCounter, wire, readVars>>

Frame(w) == [write |-> w, nonce |-> writeCounter]

\* Faulty variant: a frame that fails to go out uses its counter up.
ReturnAdvancing(w, result, reached) ==
    /\ holder = w /\ holder' = NoWrite
    /\ outcome' = [outcome EXCEPT ![w] = result]
    /\ wire' = IF reached THEN Append(wire, Frame(w)) ELSE wire
    /\ writeCounter' = (writeCounter + 1) % (CounterMax + 1)
    /\ UNCHANGED readVars

\* transport.send returns, or its future is dropped; "reached" says whether
\* the sink has taken the frame.  The counter advances (wrapping_add) only
\* after a success.
Return(w, result, reached) ==
    /\ holder = w /\ holder' = NoWrite
    /\ outcome' = [outcome EXCEPT ![w] = result]
    /\ wire' = IF reached THEN Append(wire, Frame(w)) ELSE wire
    /\ writeCounter' = IF result = "ok" THEN (writeCounter + 1) % (CounterMax + 1)
                       ELSE writeCounter
    /\ UNCHANGED readVars

SendSucceeds(w) == Return(w, "ok", TRUE)

SendFails(w) == \E reached \in BOOLEAN : Return(w, "failed", reached)

\* KEEPALIVE_DEADLINE passes while the sink is still flushing.
KeepaliveTimesOut(w) ==
    /\ w \in Keepalives
    /\ \E reached \in BOOLEAN : Return(w, "cancelled", reached)

-----------------------------------------------------------------------------
(* The server's frames and decrypt_frame.                                  *)

\* The server seals its frames with consecutive counters; a bad one is one
\* that fails to decrypt, whatever the reason.
ServerSends ==
    /\ serverCounter <= CounterMax
    /\ \E intact \in BOOLEAN :
          /\ ~intact => bad < BadFrames
          /\ bad' = IF intact THEN bad ELSE bad + 1
          /\ inbound' = Append(inbound, [nonce |-> serverCounter, intact |-> intact])
    /\ serverCounter' = serverCounter + 1
    /\ UNCHANGED <<readCounter, readOutcome, writeVars>>

Opens(f) == f.intact /\ f.nonce = readCounter

\* Faulty variant: the counter advances only when the frame decrypts.
DecryptFrameOnSuccess ==
    /\ inbound # << >>
    /\ inbound' = Tail(inbound)
    /\ IF readCounter = CounterMax
       THEN readOutcome' = "exhausted" /\ UNCHANGED readCounter
       ELSE /\ readOutcome' = IF Opens(Head(inbound)) THEN "ok" ELSE "failed"
            /\ readCounter' = IF Opens(Head(inbound)) THEN readCounter + 1 ELSE readCounter
    /\ UNCHANGED <<serverCounter, bad, writeVars>>

\* fetch_update with checked_add claims the counter before the frame is
\* opened, so a bad frame uses its counter up too.
DecryptFrame ==
    /\ inbound # << >>
    /\ inbound' = Tail(inbound)
    /\ IF readCounter = CounterMax
       THEN readOutcome' = "exhausted" /\ UNCHANGED readCounter
       ELSE /\ readOutcome' = IF Opens(Head(inbound)) THEN "ok" ELSE "failed"
            /\ readCounter' = readCounter + 1
    /\ UNCHANGED <<serverCounter, bad, writeVars>>

-----------------------------------------------------------------------------

Next ==
    \/ \E w \in Writes : Acquire(w) \/ SendSucceeds(w) \/ SendFails(w) \/ KeepaliveTimesOut(w)
    \/ ServerSends \/ DecryptFrame

Spec == Init /\ [][Next]_vars

-----------------------------------------------------------------------------
(* Properties.                                                             *)

\* Both counters keep the range of their u32.
TypeOK ==
    /\ writeCounter \in 0..CounterMax
    /\ holder \in Writes \cup {NoWrite}
    /\ outcome \in [Writes -> Outcomes]
    /\ wire \in Seq([write : Writes, nonce : 0..CounterMax])
    /\ readCounter \in 0..CounterMax /\ serverCounter \in 0..(CounterMax + 1)
    /\ inbound \in Seq([nonce : 0..CounterMax, intact : BOOLEAN])
    /\ readOutcome \in {"none", "ok", "failed", "exhausted"}
    /\ bad \in 0..BadFrames

\* Two frames on the wire are sealed with the same counter only if the
\* earlier one belongs to a send that failed or was cancelled: a write that
\* encrypt_and_send reported as done never shares its nonce with a later one,
\* also at the end of the counter's range.
ReuseOnlyAfterCut ==
    \A i, j \in 1..Len(wire) :
        i < j /\ wire[i].nonce = wire[j].nonce => outcome[wire[i].write] \in Cut

\* The server, which counts the frames it receives, expects counter i - 1 for
\* the i-th: what reaches it is out of step only after a frame of a failed or
\* cancelled send reached it too.
OutOfStepOnlyAfterCut ==
    \A i \in 1..Len(wire) :
        wire[i].nonce # i - 1 => \E j \in 1..(i - 1) : outcome[wire[j].write] \in Cut

\* A bad frame costs only itself: every intact frame decrypts, until the read
\* counter is exhausted (fetch_update in decrypt_frame).
ReadsInStep ==
    [][inbound # << >> /\ inbound' = Tail(inbound) /\ Head(inbound).intact
           => readOutcome' = (IF readCounter = CounterMax THEN "exhausted" ELSE "ok")]_vars

\* Why ReuseOnlyAfterCut holds: the counter never falls behind the wire, only
\* cut frames carry its current value, and no frame carries CounterMax.
WriteInv ==
    /\ TypeOK
    /\ holder # NoWrite => outcome[holder] = "none" /\ writeCounter < CounterMax
    /\ \A i \in 1..Len(wire) :
          /\ outcome[wire[i].write] \in Cut \cup {"ok"}
          /\ wire[i].nonce < CounterMax
          /\ wire[i].nonce <= writeCounter
          /\ wire[i].nonce = writeCounter => outcome[wire[i].write] \in Cut
    /\ ReuseOnlyAfterCut

\* Why OutOfStepOnlyAfterCut holds: while no frame on the wire was cut, the
\* counter is the number of frames on it.
StepInv ==
    /\ WriteInv /\ OutOfStepOnlyAfterCut
    /\ (\A i \in 1..Len(wire) : outcome[wire[i].write] \notin Cut)
          => writeCounter = Len(wire)

\* Why ReadsInStep holds: the frames still to be read carry the counters that
\* follow readCounter.
ReadInv ==
    /\ TypeOK
    /\ readCounter < CounterMax =>
          /\ serverCounter = readCounter + Len(inbound)
          /\ \A i \in 1..Len(inbound) : inbound[i].nonce = readCounter + i - 1

\* Both counters count what has passed on the wire: ours the frames it took,
\* as long as none of them was cut, and the read counter the frames it gave,
\* whatever came out of them.
CounterInv == StepInv /\ ReadInv

=============================================================================
