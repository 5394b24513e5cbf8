------------------------- MODULE NoiseSocketProofs -------------------------
(***************************************************************************)
(* Proofs about NoiseSocket for every set of writes and every width of the *)
(* counters.                                                               *)
(***************************************************************************)
EXTENDS NoiseSocket, SequenceTheorems, TLAPS

USE NoiseAssumption

-----------------------------------------------------------------------------
(* Types.                                                                  *)

WireFrame == [write : Writes, nonce : 0..CounterMax]
InFrame == [nonce : 0..CounterMax, intact : BOOLEAN]

\* The frames on the wire.
LEMMA WireFacts ==
    ASSUME TypeOK
    PROVE  /\ Len(wire) \in Nat
           /\ \A i \in 1..Len(wire) : wire[i].write \in Writes /\ wire[i].nonce \in 0..CounterMax
<1>1. wire \in Seq(WireFrame)
  BY DEF TypeOK, WireFrame
<1>2. Len(wire) \in Nat /\ \A i \in 1..Len(wire) : wire[i] \in WireFrame
  BY <1>1, ElementOfSeq, LenProperties
<1> QED
  BY <1>2 DEF WireFrame

\* The frame a write seals has the type of a frame on the wire.
LEMMA FrameType == ASSUME TypeOK, NEW w \in Writes PROVE Frame(w) \in WireFrame
  BY DEF TypeOK, Frame, WireFrame

\* A write's return keeps the types.
LEMMA ReturnType ==
    ASSUME TypeOK, NEW w \in Writes, NEW r \in Outcomes, NEW reached \in BOOLEAN,
           Return(w, r, reached)
    PROVE  TypeOK'
<1>1. wire \in Seq(WireFrame)
  BY DEF TypeOK, WireFrame
<1>2. wire' \in Seq(WireFrame)
  BY <1>1, FrameType, AppendProperties, LenProperties DEF Return
<1>3. writeCounter' \in 0..CounterMax
  <2>1. (writeCounter + 1) % (CounterMax + 1) \in 0..CounterMax
    BY DEF TypeOK
  <2> QED
    BY <2>1 DEF Return, TypeOK
<1> QED
  BY <1>2, <1>3 DEF Return, TypeOK, WireFrame, readVars

LEMMA TypeInit == Init => TypeOK
  BY EmptySeq DEF Init, TypeOK, Outcomes

LEMMA TypeStep == TypeOK /\ [Next]_vars => TypeOK'
<1> SUFFICES ASSUME TypeOK, [Next]_vars PROVE TypeOK'
  OBVIOUS
<1>1. CASE UNCHANGED vars
  BY <1>1 DEF vars, writeVars, readVars, TypeOK
<1>2. CASE \E w \in Writes : Acquire(w)
  BY <1>2 DEF Acquire, TypeOK, Outcomes, readVars
<1>3. CASE \E w \in Writes : SendSucceeds(w) \/ SendFails(w) \/ KeepaliveTimesOut(w)
  BY <1>3, ReturnType DEF SendSucceeds, SendFails, KeepaliveTimesOut, Outcomes, Cut
<1>4. CASE ServerSends
  <2>1. inbound \in Seq(InFrame)
    BY DEF TypeOK, InFrame
  <2>2. inbound' \in Seq(InFrame)
    BY <1>4, <2>1, AppendProperties, LenProperties DEF ServerSends, TypeOK, InFrame
  <2>3. serverCounter' \in 0..(CounterMax + 1) /\ bad' \in 0..BadFrames
    BY <1>4 DEF ServerSends, TypeOK
  <2> QED
    BY <1>4, <2>2, <2>3 DEF ServerSends, TypeOK, InFrame, writeVars
<1>5. CASE DecryptFrame
  <2>1. inbound \in Seq(InFrame)
    BY DEF TypeOK, InFrame
  <2>2. inbound' \in Seq(InFrame)
    BY <1>5, <2>1, HeadTailProperties, LenProperties DEF DecryptFrame
  <2> QED
    BY <1>5, <2>2 DEF DecryptFrame, TypeOK, InFrame, writeVars
<1> QED
  BY <1>1, <1>2, <1>3, <1>4, <1>5 DEF Next

\* Both counters stay within their u32 (NoiseSocket's fields).
THEOREM TypeCorrect == Spec => []TypeOK
<1> QED
  BY TypeInit, TypeStep, PTL DEF Spec

-----------------------------------------------------------------------------
(* The write counter.                                                      *)

LEMMA SmallMod == \A a, m \in Nat : a < m => (a + 1) % (m + 1) = a + 1
  OBVIOUS

\* A write's return, as the invariants see it: what it does to the wire.
ReturnEffect(w, r, reached) ==
    /\ outcome[w] = "none" /\ writeCounter < CounterMax
    /\ outcome'[w] = r
    /\ writeCounter' = IF r = "ok" THEN writeCounter + 1 ELSE writeCounter
    /\ \A i \in 1..Len(wire) : outcome'[wire[i].write] = outcome[wire[i].write]
    /\ ~reached => wire' = wire
    /\ reached => /\ Len(wire') = Len(wire) + 1
                  /\ \A i \in 1..Len(wire) : wire'[i] = wire[i]
                  /\ wire'[Len(wire) + 1].write = w
                  /\ wire'[Len(wire) + 1].nonce = writeCounter

LEMMA ReturnFacts ==
    ASSUME WriteInv, NEW w \in Writes, NEW r \in Cut \cup {"ok"}, NEW reached \in BOOLEAN,
           Return(w, r, reached)
    PROVE  ReturnEffect(w, r, reached)
<1>0. holder = w /\ w # NoWrite /\ writeCounter \in 0..CounterMax
  BY DEF WriteInv, TypeOK, Return
<1>1. outcome[w] = "none" /\ writeCounter < CounterMax
  BY <1>0 DEF WriteInv
<1>2. \A i \in 1..Len(wire) : wire[i].write \in Writes /\ wire[i].write # w
  BY <1>1, WireFacts DEF WriteInv, Cut
<1>3. writeCounter' = IF r = "ok" THEN writeCounter + 1 ELSE writeCounter
  <2>1. (writeCounter + 1) % (CounterMax + 1) = writeCounter + 1
    BY <1>0, <1>1, SmallMod
  <2> QED
    BY <2>1 DEF Return
<1>4. outcome'[w] = r /\ \A v \in Writes : v # w => outcome'[v] = outcome[v]
  BY DEF Return, WriteInv, TypeOK
<1>5. \A i \in 1..Len(wire) : outcome'[wire[i].write] = outcome[wire[i].write]
  BY <1>2, <1>4
<1>6. wire \in Seq(WireFrame) /\ Frame(w) \in WireFrame
  BY FrameType DEF WriteInv, TypeOK, WireFrame
<1>7. reached => /\ Len(wire') = Len(wire) + 1
                 /\ \A i \in 1..Len(wire) : wire'[i] = wire[i]
                 /\ wire'[Len(wire) + 1] = Frame(w)
  BY <1>6, AppendProperties, LenProperties DEF Return
<1>8. ~reached => wire' = wire
  BY DEF Return
<1>9. Frame(w).write = w /\ Frame(w).nonce = writeCounter
  BY DEF Frame
<1> QED
  BY <1>1, <1>3, <1>4, <1>5, <1>7, <1>8, <1>9 DEF ReturnEffect

LEMMA WriteInit == Init => WriteInv
<1> SUFFICES ASSUME Init PROVE WriteInv
  OBVIOUS
<1>1. Len(wire) = 0
  BY EmptySeq DEF Init
<1> QED
  BY <1>1, TypeInit DEF Init, WriteInv, ReuseOnlyAfterCut

\* A return preserves the invariant of the write side.
LEMMA ReturnWriteInv ==
    ASSUME WriteInv, TypeOK', NEW w \in Writes, NEW r \in Cut \cup {"ok"},
           NEW reached \in BOOLEAN, r = "ok" => reached, Return(w, r, reached)
    PROVE  WriteInv'
<1> DEFINE n == Len(wire)
<1>0. n \in Nat /\ writeCounter \in 0..CounterMax /\ WriteInv
      /\ \A i \in 1..n : wire[i].nonce \in 0..CounterMax
  BY WireFacts DEF WriteInv, TypeOK
<1>e. ReturnEffect(w, r, reached)
  BY ReturnFacts
<1>1. (holder # NoWrite => outcome[holder] = "none" /\ writeCounter < CounterMax)'
  BY DEF Return
<1>2. ASSUME NEW i \in 1..Len(wire')
      PROVE  /\ outcome'[wire'[i].write] \in Cut \cup {"ok"}
             /\ wire'[i].nonce < CounterMax
             /\ wire'[i].nonce <= writeCounter'
             /\ wire'[i].nonce = writeCounter' => outcome'[wire'[i].write] \in Cut
  <2>1. CASE i \in 1..n
    <3>1. wire'[i] = wire[i] /\ outcome'[wire[i].write] = outcome[wire[i].write]
      BY <2>1, <1>e DEF ReturnEffect
    <3> QED
      BY <1>0, <2>1, <3>1, <1>e DEF ReturnEffect, WriteInv
  <2>2. CASE i \notin 1..n
    <3>1. reached /\ i = n + 1
      BY <1>0, <2>2, <1>e DEF ReturnEffect
    <3> QED
      BY <1>0, <3>1, <1>e DEF ReturnEffect, Cut
  <2> QED
    BY <2>1, <2>2
<1>3. ASSUME NEW i \in 1..Len(wire'), NEW j \in 1..Len(wire'),
             i < j, wire'[i].nonce = wire'[j].nonce
      PROVE  outcome'[wire'[i].write] \in Cut
  <2>1. i \in 1..n /\ wire'[i] = wire[i] /\ outcome'[wire[i].write] = outcome[wire[i].write]
    BY <1>0, <1>3, <1>e DEF ReturnEffect
  <2>2. CASE j \in 1..n
    BY <1>0, <1>3, <2>1, <2>2, <1>e DEF ReturnEffect, WriteInv, ReuseOnlyAfterCut
  <2>3. CASE j \notin 1..n
    <3>1. reached /\ j = n + 1
      BY <1>0, <2>3, <1>e DEF ReturnEffect
    <3>2. wire[i].nonce = writeCounter
      BY <1>3, <2>1, <3>1, <1>e DEF ReturnEffect
    <3> QED
      BY <1>0, <2>1, <3>2 DEF WriteInv
  <2> QED
    BY <2>2, <2>3
<1> QED
  BY <1>1, <1>2, <1>3 DEF WriteInv, ReuseOnlyAfterCut

\* What leaves the write side alone preserves its invariant, and so does
\* taking the lock.
LEMMA WriteStep == WriteInv /\ [Next]_vars => WriteInv'
<1> SUFFICES ASSUME WriteInv, [Next]_vars PROVE WriteInv'
  OBVIOUS
<1>0. TypeOK'
  BY TypeStep DEF WriteInv
<1>1. CASE UNCHANGED vars \/ ServerSends \/ DecryptFrame
  <2>1. UNCHANGED <<writeCounter, holder, outcome, wire>>
    BY <1>1 DEF vars, writeVars, ServerSends, DecryptFrame
  <2> QED
    BY <1>0, <2>1 DEF WriteInv, ReuseOnlyAfterCut
<1>2. CASE \E w \in Writes : Acquire(w)
  <2>1. PICK w \in Writes : Acquire(w)
    BY <1>2
  <2>2. wire' = wire /\ writeCounter' = writeCounter
    BY <2>1 DEF Acquire
  <2>3. \A i \in 1..Len(wire) :
          wire[i].write \in Writes /\ outcome'[wire[i].write] = outcome[wire[i].write]
    <3>1. \A i \in 1..Len(wire) : wire[i].write \in Writes /\ outcome[wire[i].write] # "none"
      BY WireFacts DEF WriteInv, Cut
    <3>2. \A v \in Writes : outcome[v] # "none" => outcome'[v] = outcome[v]
      BY <2>1 DEF Acquire, WriteInv, TypeOK
    <3> QED
      BY <3>1, <3>2
  <2>4. (holder # NoWrite => outcome[holder] = "none" /\ writeCounter < CounterMax)'
    <3>1. CASE writeCounter = CounterMax
      BY <2>1, <3>1 DEF Acquire
    <3>2. CASE writeCounter # CounterMax
      BY <2>1, <3>2 DEF Acquire, WriteInv, TypeOK
    <3> QED
      BY <3>1, <3>2
  <2>5. \A i \in 1..Len(wire) :
          /\ outcome'[wire[i].write] \in Cut \cup {"ok"}
          /\ wire[i].nonce < CounterMax
          /\ wire[i].nonce <= writeCounter
          /\ wire[i].nonce = writeCounter => outcome'[wire[i].write] \in Cut
    BY <2>3 DEF WriteInv
  <2>6. ReuseOnlyAfterCut'
    BY <2>2, <2>3 DEF WriteInv, ReuseOnlyAfterCut
  <2> QED
    BY <1>0, <2>2, <2>4, <2>5, <2>6 DEF WriteInv
<1>3. CASE \E w \in Writes : SendSucceeds(w) \/ SendFails(w) \/ KeepaliveTimesOut(w)
  BY <1>0, <1>3, ReturnWriteInv DEF SendSucceeds, SendFails, KeepaliveTimesOut, Cut
<1> QED
  BY <1>1, <1>2, <1>3 DEF Next

\* No write that was reported as done shares its nonce with a later one
\* (encrypt_and_send), for a counter of any width.
THEOREM ReuseIsCut == Spec => []ReuseOnlyAfterCut
<1>1. WriteInv => ReuseOnlyAfterCut
  BY DEF WriteInv
<1> QED
  BY WriteInit, WriteStep, <1>1, PTL DEF Spec

LEMMA StepInit == Init => StepInv
<1> SUFFICES ASSUME Init PROVE StepInv
  OBVIOUS
<1>1. Len(wire) = 0
  BY EmptySeq DEF Init
<1> QED
  BY <1>1, WriteInit DEF Init, StepInv, OutOfStepOnlyAfterCut

\* A return preserves the step between the counter and the wire.
LEMMA ReturnStepInv ==
    ASSUME StepInv, WriteInv', NEW w \in Writes, NEW r \in Cut \cup {"ok"},
           NEW reached \in BOOLEAN, r = "ok" => reached, Return(w, r, reached)
    PROVE  StepInv'
<1> DEFINE n == Len(wire)
           clean == \A i \in 1..n : outcome[wire[i].write] \notin Cut
<1>w. WriteInv /\ (clean => writeCounter = n)
  BY DEF StepInv
<1>0. WriteInv /\ n \in Nat /\ writeCounter \in Nat /\ (clean => writeCounter = n)
  BY <1>w, WireFacts DEF WriteInv, TypeOK
<1>e. ReturnEffect(w, r, reached)
  BY <1>0, ReturnFacts
<1>1. ASSUME NEW i \in 1..Len(wire'), wire'[i].nonce # i - 1
      PROVE  \E j \in 1..(i - 1) : outcome'[wire'[j].write] \in Cut
  <2>1. CASE i \in 1..n
    <3>1. wire'[i] = wire[i]
      BY <2>1, <1>e DEF ReturnEffect
    <3>2. PICK j \in 1..(i - 1) : outcome[wire[j].write] \in Cut
      BY <1>1, <2>1, <3>1 DEF StepInv, OutOfStepOnlyAfterCut
    <3>3. j \in 1..n
      BY <1>0, <2>1
    <3>4. wire'[j] = wire[j] /\ outcome'[wire[j].write] = outcome[wire[j].write]
      BY <3>3, <1>e DEF ReturnEffect
    <3> QED
      BY <3>2, <3>4
  <2>2. CASE i \notin 1..n
    <3>1. reached /\ i = n + 1
      BY <1>0, <2>2, <1>e DEF ReturnEffect
    <3>2. wire'[n + 1].nonce = writeCounter
      BY <3>1, <1>e DEF ReturnEffect
    <3>3. ~clean
      BY <1>0, <1>1, <3>1, <3>2
    <3>4. PICK j \in 1..n : outcome[wire[j].write] \in Cut
      BY <3>3
    <3>5. wire'[j] = wire[j] /\ outcome'[wire[j].write] = outcome[wire[j].write]
      BY <3>1, <3>4, <1>e DEF ReturnEffect
    <3> QED
      BY <1>0, <3>1, <3>4, <3>5
  <2> QED
    BY <2>1, <2>2
<1>2. ASSUME \A i \in 1..Len(wire') : outcome'[wire'[i].write] \notin Cut
      PROVE  writeCounter' = Len(wire')
  <2>1. clean
    BY <1>0, <1>2, <1>e DEF ReturnEffect
  <2>2. CASE reached
    <3>1. outcome'[wire'[n + 1].write] = r /\ n + 1 \in 1..Len(wire')
      BY <1>0, <2>2, <1>e DEF ReturnEffect
    <3>2. r = "ok"
      BY <1>2, <3>1
    <3> QED
      BY <1>0, <2>1, <2>2, <3>2, <1>e DEF ReturnEffect
  <2>3. CASE ~reached
    BY <1>0, <2>1, <2>3, <1>e DEF ReturnEffect
  <2> QED
    BY <2>2, <2>3
<1> QED
  BY <1>1, <1>2 DEF StepInv, OutOfStepOnlyAfterCut

LEMMA StepStep == StepInv /\ [Next]_vars => StepInv'
<1> SUFFICES ASSUME StepInv, [Next]_vars PROVE StepInv'
  OBVIOUS
<1>0. WriteInv'
  BY WriteStep DEF StepInv
<1>1. CASE UNCHANGED vars \/ ServerSends \/ DecryptFrame
  <2>1. writeCounter' = writeCounter /\ outcome' = outcome /\ wire' = wire
    BY <1>1 DEF vars, writeVars, ServerSends, DecryptFrame
  <2>2. OutOfStepOnlyAfterCut'
    BY <2>1 DEF StepInv, OutOfStepOnlyAfterCut
  <2> QED
    BY <1>0, <2>1, <2>2 DEF StepInv
<1>2. CASE \E w \in Writes : Acquire(w)
  <2>1. PICK w \in Writes : Acquire(w)
    BY <1>2
  <2>2. wire' = wire /\ writeCounter' = writeCounter
    BY <2>1 DEF Acquire
  <2>3. \A i \in 1..Len(wire) : outcome'[wire[i].write] = outcome[wire[i].write]
    <3>1. \A i \in 1..Len(wire) : wire[i].write \in Writes /\ outcome[wire[i].write] # "none"
      BY WireFacts DEF StepInv, WriteInv, Cut
    <3>2. \A v \in Writes : outcome[v] # "none" => outcome'[v] = outcome[v]
      BY <2>1 DEF Acquire, StepInv, WriteInv, TypeOK
    <3> QED
      BY <3>1, <3>2
  <2>4. Len(wire) \in Nat
    BY WireFacts DEF StepInv, WriteInv
  <2>5. OutOfStepOnlyAfterCut'
    <3>1. ASSUME NEW i \in 1..Len(wire), wire[i].nonce # i - 1
          PROVE  \E j \in 1..(i - 1) : outcome'[wire[j].write] \in Cut
      <4>1. PICK j \in 1..(i - 1) : outcome[wire[j].write] \in Cut
        BY <3>1 DEF StepInv, OutOfStepOnlyAfterCut
      <4> QED
        BY <2>3, <2>4, <4>1
    <3> QED
      BY <2>2, <3>1 DEF OutOfStepOnlyAfterCut
  <2> QED
    BY <1>0, <2>2, <2>3, <2>5 DEF StepInv
<1>3. CASE \E w \in Writes : SendSucceeds(w) \/ SendFails(w) \/ KeepaliveTimesOut(w)
  BY <1>0, <1>3, ReturnStepInv DEF SendSucceeds, SendFails, KeepaliveTimesOut, Cut
<1> QED
  BY <1>1, <1>2, <1>3 DEF Next

\* What reaches the server is out of step with its counter only after a frame
\* of a failed or cancelled send reached it (encrypt_and_send).
THEOREM StepIsKept == Spec => []OutOfStepOnlyAfterCut
<1>1. StepInv => OutOfStepOnlyAfterCut
  BY DEF StepInv
<1> QED
  BY StepInit, StepStep, <1>1, PTL DEF Spec

-----------------------------------------------------------------------------
(* The read counter.                                                       *)

LEMMA ReadInit == Init => ReadInv
  BY TypeInit, EmptySeq DEF Init, ReadInv

LEMMA ReadStep == ReadInv /\ [Next]_vars => ReadInv'
<1> SUFFICES ASSUME ReadInv, [Next]_vars PROVE ReadInv'
  OBVIOUS
<1>0. TypeOK /\ TypeOK' /\ inbound \in Seq(InFrame) /\ Len(inbound) \in Nat
  BY TypeStep DEF ReadInv, TypeOK, InFrame
<1>1. CASE UNCHANGED vars \/ \E w \in Writes :
              Acquire(w) \/ SendSucceeds(w) \/ SendFails(w) \/ KeepaliveTimesOut(w)
  <2>1. UNCHANGED readVars
    BY <1>1 DEF vars, Acquire, SendSucceeds, SendFails, KeepaliveTimesOut, Return
  <2> QED
    BY <1>0, <2>1 DEF ReadInv, readVars
<1>2. CASE ServerSends
  <2>1. PICK b \in BOOLEAN :
          inbound' = Append(inbound, [nonce |-> serverCounter, intact |-> b])
    BY <1>2 DEF ServerSends
  <2>2. [nonce |-> serverCounter, intact |-> b] \in InFrame
    BY <1>0, <1>2 DEF ServerSends, TypeOK, InFrame
  <2>3. /\ Len(inbound') = Len(inbound) + 1
        /\ \A i \in 1..Len(inbound) : inbound'[i] = inbound[i]
        /\ inbound'[Len(inbound) + 1].nonce = serverCounter
    BY <1>0, <2>1, <2>2, AppendProperties, LenProperties
  <2>4. readCounter' = readCounter /\ serverCounter' = serverCounter + 1
    BY <1>2 DEF ServerSends
  <2>5. ASSUME readCounter < CounterMax
        PROVE  /\ serverCounter' = readCounter' + Len(inbound')
               /\ \A i \in 1..Len(inbound') : inbound'[i].nonce = readCounter' + i - 1
    <3>1. /\ serverCounter = readCounter + Len(inbound) /\ readCounter \in Nat
          /\ \A i \in 1..Len(inbound) : inbound[i].nonce = readCounter + i - 1
      BY <2>5 DEF ReadInv, TypeOK
    <3>2. ASSUME NEW i \in 1..Len(inbound')
          PROVE  inbound'[i].nonce = readCounter' + i - 1
      <4>1. CASE i \in 1..Len(inbound)
        BY <2>3, <2>4, <3>1, <4>1
      <4>2. CASE i = Len(inbound) + 1
        BY <1>0, <2>3, <2>4, <3>1, <4>2
      <4> QED
        BY <1>0, <2>3, <4>1, <4>2
    <3> QED
      BY <1>0, <2>3, <2>4, <3>1, <3>2
  <2> QED
    BY <1>0, <2>4, <2>5 DEF ReadInv
<1>3. CASE DecryptFrame
  <2>1. CASE readCounter = CounterMax
    BY <1>0, <1>3, <2>1 DEF DecryptFrame, ReadInv
  <2>2. CASE readCounter # CounterMax
    <3>1. readCounter' = readCounter + 1 /\ serverCounter' = serverCounter
      BY <1>3, <2>2 DEF DecryptFrame
    <3>2. /\ Len(inbound) >= 1 /\ Len(inbound') = Len(inbound) - 1
          /\ \A i \in 1..Len(inbound') : i + 1 \in 1..Len(inbound) /\ inbound'[i] = inbound[i + 1]
      BY <1>0, <1>3, HeadTailProperties, LenProperties DEF DecryptFrame
    <3>3. readCounter \in Nat /\ readCounter < CounterMax
      BY <1>0, <2>2 DEF TypeOK
    <3> QED
      BY <1>0, <3>1, <3>2, <3>3 DEF ReadInv
  <2> QED
    BY <2>1, <2>2
<1> QED
  BY <1>1, <1>2, <1>3 DEF Next

\* Both counters count what has passed on the wire (encrypt_and_send and
\* decrypt_frame).
THEOREM CountersCount == Spec => []CounterInv
<1>1. StepInv /\ ReadInv => CounterInv
  BY DEF CounterInv
<1> QED
  BY StepInit, StepStep, ReadInit, ReadStep, <1>1, PTL DEF Spec

\* A bad frame costs only itself: the frames behind it still decrypt
\* (decrypt_frame's fetch_update).
THEOREM ReadsStayInStep == Spec => ReadsInStep
<1>1. ReadInv /\ [Next]_vars =>
        [inbound # << >> /\ inbound' = Tail(inbound) /\ Head(inbound).intact
           => readOutcome' = (IF readCounter = CounterMax THEN "exhausted" ELSE "ok")]_vars
  <2> SUFFICES ASSUME ReadInv, [Next]_vars, inbound # << >>,
                      inbound' = Tail(inbound), Head(inbound).intact
               PROVE  \/ readOutcome' = (IF readCounter = CounterMax THEN "exhausted" ELSE "ok")
                      \/ UNCHANGED vars
    OBVIOUS
  <2>1. inbound \in Seq(InFrame) /\ readCounter \in 0..CounterMax
    BY DEF ReadInv, TypeOK, InFrame
  <2>2. Len(inbound) \in Nat /\ Len(inbound') = Len(inbound) - 1 /\ Len(inbound) >= 1
        /\ Head(inbound) = inbound[1]
    BY <2>1, HeadTailProperties, LenProperties
  <2>3. CASE DecryptFrame
    <3>1. readCounter < CounterMax => Head(inbound).nonce = readCounter
      BY <2>1, <2>2 DEF ReadInv
    <3> QED
      BY <2>1, <2>3, <3>1 DEF DecryptFrame, Opens
  <2>4. CASE ServerSends
    <3>1. PICK b \in BOOLEAN :
            inbound' = Append(inbound, [nonce |-> serverCounter, intact |-> b])
      BY <2>4 DEF ServerSends
    <3>3. [nonce |-> serverCounter, intact |-> b] \in InFrame
      BY <2>4 DEF ServerSends, ReadInv, TypeOK, InFrame
    <3>2. Len(inbound') = Len(inbound) + 1
      BY <2>1, <3>1, <3>3, AppendProperties, LenProperties
    <3> QED
      BY <2>2, <3>2
  <2>5. CASE \E w \in Writes :
               Acquire(w) \/ SendSucceeds(w) \/ SendFails(w) \/ KeepaliveTimesOut(w)
    <3>1. inbound' = inbound
      BY <2>5 DEF Acquire, SendSucceeds, SendFails, KeepaliveTimesOut, Return, readVars
    <3> QED
      BY <2>2, <3>1
  <2> QED
    BY <2>3, <2>4, <2>5 DEF Next
<1> QED
  BY ReadInit, ReadStep, <1>1, PTL DEF Spec, ReadsInStep

=============================================================================
