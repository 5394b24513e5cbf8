--------------------------- MODULE PairingProofs ---------------------------
(***************************************************************************)
(* The invariant of Pairing and what follows from it, for any number of    *)
(* QR and pair-code flows, any capacity of the bus and any number of       *)
(* drops.  CodeInv, SecretInv and LinkInv use each other's facts; PromptInv *)
(* is about runs whose tasks keep up and uses them all.                    *)
(***************************************************************************)
EXTENDS Pairing, SequenceTheorems, TLAPS

-----------------------------------------------------------------------------
(* The events of a queue and what the bus does to them.                    *)

BusEvents == [kind : Kinds, arg : Advs \cup {None}]
Elems(q) == {q[i] : i \in 1..Len(q)}

LEMMA EventsElems == \A r : Events(r) = Elems(queue[r]) /\ Events(r)' = Elems(queue'[r])
  BY DEF Events, Elems

LEMMA ElemsEmpty == Elems(<< >>) = {}
  BY DEF Elems

LEMMA ElemsType == ASSUME NEW q \in Seq(BusEvents) PROVE Elems(q) \subseteq BusEvents
  BY ElementOfSeq, LenProperties DEF Elems

LEMMA ElemsAppend ==
    ASSUME NEW q \in Seq(BusEvents), NEW e \in BusEvents
    PROVE  /\ Append(q, e) \in Seq(BusEvents)
           /\ Len(Append(q, e)) = Len(q) + 1
           /\ \A i \in 1..Len(q) : Append(q, e)[i] = q[i]
           /\ Append(q, e)[Len(q) + 1] = e
           /\ Elems(Append(q, e)) = Elems(q) \cup {e}
           /\ Append(q, e) # << >>
<1>1. /\ Append(q, e) \in Seq(BusEvents) /\ Len(Append(q, e)) = Len(q) + 1
      /\ \A i \in 1..Len(q) : Append(q, e)[i] = q[i]
      /\ Append(q, e)[Len(q) + 1] = e
  BY AppendProperties, LenProperties
<1>2. Len(q) \in Nat
  BY LenProperties
<1>3. Elems(Append(q, e)) = Elems(q) \cup {e}
  BY <1>1, <1>2 DEF Elems
<1>4. Append(q, e) # << >>
  BY <1>1, <1>2, EmptySeq
<1> QED
  BY <1>1, <1>3, <1>4

LEMMA ElemsPop ==
    ASSUME NEW q \in Seq(BusEvents), q # << >>
    PROVE  /\ Tail(q) \in Seq(BusEvents) /\ Head(q) \in BusEvents
           /\ Len(q) \in Nat \ {0} /\ Len(Tail(q)) = Len(q) - 1
           /\ Head(q) = q[1] /\ \A i \in 1..Len(Tail(q)) : Tail(q)[i] = q[i + 1]
           /\ Elems(q) = {Head(q)} \cup Elems(Tail(q))
<1>1. /\ Tail(q) \in Seq(BusEvents) /\ Head(q) \in BusEvents
      /\ Len(Tail(q)) = Len(q) - 1
      /\ \A i \in 1..Len(Tail(q)) : Tail(q)[i] = q[i + 1]
  BY HeadTailProperties
<1>2. Len(q) \in Nat \ {0}
  BY LenProperties, EmptySeq
<1>3. Head(q) = q[1]
  OBVIOUS
<1>4. ASSUME NEW i \in 1..Len(q)
      PROVE  q[i] = Head(q) \/ q[i] \in Elems(Tail(q))
  <2>1. CASE i = 1
    BY <1>3, <2>1
  <2>2. CASE i # 1
    <3>1. i - 1 \in 1..Len(Tail(q))
      BY <1>1, <1>2, <2>2
    <3>2. Tail(q)[i - 1] = q[i]
      BY <3>1, <1>1
    <3> QED
      BY <3>1, <3>2 DEF Elems
  <2> QED
    BY <2>1, <2>2
<1>5. ASSUME NEW i \in 1..Len(Tail(q))
      PROVE  Tail(q)[i] \in Elems(q)
  <2>1. i + 1 \in 1..Len(q)
    BY <1>1, <1>2
  <2> QED
    BY <2>1, <1>1 DEF Elems
<1>6. Head(q) \in Elems(q)
  BY <1>2, <1>3 DEF Elems
<1>7. Elems(q) \subseteq {Head(q)} \cup Elems(Tail(q))
  BY <1>4 DEF Elems
<1>8. Elems(Tail(q)) \subseteq Elems(q)
  BY <1>5 DEF Elems
<1> QED
  BY <1>1, <1>2, <1>3, <1>6, <1>7, <1>8

LEMMA ElemsNonempty == ASSUME NEW q \in Seq(BusEvents) PROVE Elems(q) = {} <=> q = << >>
<1>1. q = << >> => Elems(q) = {}
  BY ElemsEmpty
<1>2. q # << >> => Head(q) \in Elems(q)
  BY ElemsPop
<1> QED
  BY <1>1, <1>2

\* What every step says of the queues: they are well formed again.
QueueOK ==
    /\ queue \in [Receivers -> Seq(BusEvents)]
    /\ \A r \in Receivers : Len(queue[r]) <= BusCapacity

LocalOK ==
    /\ prompt \in BOOLEAN /\ conn \in {"up", "down"}
    /\ linked \in {"no", "forcing", "ending", "dropped", "settled"}
    /\ linkedAdv \in Advs \cup {None} /\ offered \in BOOLEAN
    /\ server \in [Flows -> ServerStates]
    /\ drops \in 0..Drops
    /\ listening \subseteq Receivers
    /\ streamPc \in {"idle", "load", "install", "iqs", "saveAdv", "sendFinish"}
    /\ silent \in BOOLEAN /\ flag \in BOOLEAN
    /\ codeState \in CodeFlows \cup {"idle", "completed"}
    /\ memory \in Devices /\ backend \in Devices
    /\ fresh \in Devices \cup {None}
    /\ flow \in [Flows -> FlowStates]
    /\ dev \in [Flows -> Devices]
    /\ pairAdv \in [Flows -> Advs \cup {None}]
    /\ queued \subseteq Flows
    /\ shown \in {"none", "connected", "disconnected", "connectFailure"}

LEMMA TypeSplit == (TypeOK <=> QueueOK /\ LocalOK) /\ (QueueOK' /\ LocalOK' => TypeOK')
  BY DEF TypeOK, QueueOK, LocalOK, BusEvents

LEMMA QueueTyped == TypeOK => QueueOK /\ listening \subseteq Receivers
  BY DEF TypeOK, QueueOK, BusEvents

LEMMA DeliveredFacts ==
    ASSUME QueueOK, listening \subseteq Receivers, NEW e \in BusEvents,
           queue' = Delivered(e), Room
    PROVE  /\ QueueOK'
           /\ \A r \in Receivers : /\ Events(r) \subseteq Events(r)'
                                   /\ Events(r)' \subseteq Events(r) \cup {e}
           /\ \A r \in listening : queue'[r] = Append(queue[r], e)
<1>1. \A r \in Receivers : queue'[r] = IF r \in listening THEN Append(queue[r], e) ELSE queue[r]
  BY DEF Delivered
<1>2. \A r \in Receivers : queue[r] \in Seq(BusEvents) /\ Len(queue[r]) \in Nat
  BY LenProperties DEF QueueOK
<1>3. BusCapacity \in Nat
  BY PairingAssumption
<1>4. \A r \in Receivers : queue'[r] \in Seq(BusEvents) /\ Len(queue'[r]) <= BusCapacity
  <2> TAKE r \in Receivers
  <2>1. /\ Append(queue[r], e) \in Seq(BusEvents)
        /\ Len(Append(queue[r], e)) = Len(queue[r]) + 1
    BY <1>2, ElemsAppend
  <2>2. CASE r \in listening
    <3>1. queue'[r] = Append(queue[r], e)
      BY <2>2, <1>1
    <3>2. Len(queue[r]) < BusCapacity
      BY <2>2 DEF Room
    <3> QED
      BY <3>1, <3>2, <2>1, <1>2, <1>3
  <2>3. CASE r \notin listening
    BY <2>3, <1>1, <1>2 DEF QueueOK
  <2> QED
    BY <2>2, <2>3
<1>5. \A r \in Receivers : Elems(queue'[r]) = Elems(queue[r]) \cup {e} \/ queue'[r] = queue[r]
  BY <1>1, <1>2, ElemsAppend
<1>6. \A r \in Receivers : Elems(queue[r]) \subseteq Elems(queue'[r]) /\ Elems(queue'[r]) \subseteq Elems(queue[r]) \cup {e}
  BY <1>5
<1>7. queue' \in [Receivers -> Seq(BusEvents)]
  BY <1>4 DEF Delivered
<1>8. QueueOK'
  BY <1>4, <1>7 DEF QueueOK
<1>9. listening \subseteq Receivers => \A r \in listening : queue'[r] = Append(queue[r], e)
  BY <1>1
<1> QED
  BY <1>1, <1>6, <1>8, <1>9, EventsElems DEF QueueOK

LEMMA TryPublishFacts ==
    ASSUME QueueOK, listening \subseteq Receivers, NEW e \in BusEvents, TryPublish(e)
    PROVE  /\ QueueOK'
           /\ \A r \in Receivers : /\ Events(r) \subseteq Events(r)'
                                   /\ Events(r)' \subseteq Events(r) \cup {e}
           /\ \/ queue' = queue /\ ~Room
              \/ \A r \in listening : queue'[r] = Append(queue[r], e)
<1>1. CASE Room
  BY <1>1, DeliveredFacts DEF TryPublish
<1>2. CASE ~Room
  <2>1. queue' = queue
    BY <1>2 DEF TryPublish
  <2> QED
    BY <2>1, <1>2 DEF QueueOK, Events
<1> QED
  BY <1>1, <1>2

LEMMA PublishFacts ==
    ASSUME QueueOK, listening \subseteq Receivers, NEW e \in BusEvents, Publish(e)
    PROVE  /\ QueueOK'
           /\ \A r \in Receivers : /\ Events(r) \subseteq Events(r)'
                                   /\ Events(r)' \subseteq Events(r) \cup {e}
           /\ \A r \in listening : queue'[r] = Append(queue[r], e)
  BY DeliveredFacts DEF Publish

LEMMA PopFacts ==
    ASSUME QueueOK, NEW r \in Receivers, Next1(r)
    PROVE  /\ QueueOK'
           /\ queue[r] # << >> /\ queue'[r] = Tail(queue[r])
           /\ \A s \in Receivers \ {r} : queue'[s] = queue[s]
           /\ \A s \in Receivers : Events(s)' \subseteq Events(s)
           /\ Head(queue[r]) \in BusEvents /\ Head(queue[r]) \in Events(r)
           /\ Events(r) = {Head(queue[r])} \cup Events(r)'
<1>1. /\ queue[r] # << >> /\ queue[r] \in Seq(BusEvents) /\ Len(queue[r]) <= BusCapacity
      /\ BusCapacity \in Nat
  BY PairingAssumption DEF Next1, QueueOK
<1>2. \A s \in Receivers : queue'[s] = IF s = r THEN Tail(queue[r]) ELSE queue[s]
  BY DEF Next1, QueueOK
<1>3. /\ Tail(queue[r]) \in Seq(BusEvents) /\ Head(queue[r]) \in BusEvents
      /\ Len(queue[r]) \in Nat \ {0} /\ Len(Tail(queue[r])) = Len(queue[r]) - 1
      /\ Elems(queue[r]) = {Head(queue[r])} \cup Elems(Tail(queue[r]))
  BY <1>1, ElemsPop
<1>4. \A s \in Receivers : queue'[s] \in Seq(BusEvents) /\ Len(queue'[s]) <= BusCapacity
  <2> TAKE s \in Receivers
  <2>1. CASE s = r
    <3>1. queue'[s] = Tail(queue[r])
      BY <2>1, <1>2
    <3>2. /\ Tail(queue[r]) \in Seq(BusEvents) /\ Len(Tail(queue[r])) = Len(queue[r]) - 1
          /\ Len(queue[r]) \in Nat /\ Len(queue[r]) <= BusCapacity /\ BusCapacity \in Nat
      BY <1>1, <1>3
    <3>3. Len(Tail(queue[r])) <= BusCapacity
      BY <3>2
    <3> QED
      BY <3>1, <3>2, <3>3
  <2>2. CASE s # r
    BY <2>2, <1>2 DEF QueueOK
  <2> QED
    BY <2>1, <2>2
<1>5. queue' \in [Receivers -> Seq(BusEvents)]
  BY <1>4 DEF Next1, QueueOK
<1>6. \A s \in Receivers : Elems(queue'[s]) \subseteq Elems(queue[s])
  BY <1>2, <1>3
<1>7. QueueOK'
  BY <1>4, <1>5 DEF QueueOK
<1>8. /\ \A s \in Receivers : Events(s)' \subseteq Events(s)
      /\ Events(r) = {Head(queue[r])} \cup Events(r)'
  <2>1. queue'[r] = Tail(queue[r])
    BY <1>2
  <2> QED
    BY <2>1, <1>3, <1>6 DEF Events, Elems
<1> QED
  BY <1>1, <1>2, <1>3, <1>7, <1>8

LEMMA LeaveFacts ==
    ASSUME QueueOK, listening \subseteq Receivers, Stream \in listening,
           NEW f \in Flows, NEW outcome \in Ended, Leave(f, outcome)
    PROVE  /\ QueueOK'
           /\ \A s \in Receivers \ {f} : queue'[s] = queue[s]
           /\ \A s \in Receivers : Events(s)' \subseteq Events(s)
           /\ queue'[Stream] = queue[Stream] /\ Events(Stream)' = Events(Stream)
           /\ Stream \in listening' /\ listening' = listening \ {f}
<1>1. \A s \in Receivers : queue'[s] = IF s = f THEN << >> ELSE queue[s]
  BY DEF Leave, QueueOK
<1>2. << >> \in Seq(BusEvents) /\ Len(<< >>) = 0 /\ BusCapacity \in Nat
  BY PairingAssumption, EmptySeq
<1>3. QueueOK'
  <2>1. \A s \in Receivers : queue'[s] \in Seq(BusEvents) /\ Len(queue'[s]) <= BusCapacity
    <3> TAKE s \in Receivers
    <3>1. CASE s = f
      <4>1. queue'[s] = << >>
        BY <3>1, <1>1
      <4> QED
        BY <4>1, <1>2
    <3>2. CASE s # f
      BY <3>2, <1>1 DEF QueueOK
    <3> QED
      BY <3>1, <3>2
  <2>2. queue' \in [Receivers -> Seq(BusEvents)]
    BY <2>1 DEF Leave, QueueOK
  <2> QED
    BY <2>1, <2>2 DEF QueueOK
<1>4. Stream # f /\ Stream \in Receivers
  BY PairingAssumption DEF Receivers
<1>5. \A s \in Receivers : Elems(queue'[s]) \subseteq Elems(queue[s])
  BY <1>1, ElemsEmpty
<1>6. listening' = listening \ {f}
  BY DEF Leave
<1>7. queue'[Stream] = queue[Stream]
  BY <1>1, <1>4
<1>8. Events(Stream)' = Events(Stream) /\ \A s \in Receivers : Events(s)' \subseteq Events(s)
  BY <1>5, <1>7 DEF Events, Elems
<1> QED
  BY <1>1, <1>3, <1>4, <1>6, <1>7, <1>8

LEMMA QueueSame ==
    ASSUME queue' = queue
    PROVE  /\ QueueOK => QueueOK'
           /\ \A s : Events(s)' = Events(s)
           /\ Confirms' = Confirms
  BY DEF QueueOK, Events, Confirms

-----------------------------------------------------------------------------
(* The records.                                                            *)

LEMMA EventFacts ==
    ASSUME NEW kind \in Kinds, NEW arg \in Advs \cup {None}
    PROVE  Event(kind, arg) \in BusEvents /\ Event(kind, arg).kind = kind /\ Event(kind, arg).arg = arg
  BY DEF Event, BusEvents

LEMMA DeviceFacts ==
    /\ \A d \in Devices : d # None /\ d.adv \in Advs /\ d.paired \in BOOLEAN
    /\ \A d \in Devices, a \in Advs : /\ [d EXCEPT !.adv = a] \in Devices
                                     /\ [d EXCEPT !.adv = a].adv = a
                                     /\ [d EXCEPT !.adv = a].paired = d.paired
    /\ \A d \in Devices : /\ [d EXCEPT !.paired = TRUE] \in Devices
                          /\ [d EXCEPT !.paired = TRUE].adv = d.adv
                          /\ [d EXCEPT !.paired = TRUE].paired
  BY PairingAssumption DEF Devices

LEMMA Names ==
    /\ CodeFlows \subseteq Flows /\ QrFlows \subseteq Flows /\ CodeFlows \subseteq Advs
    /\ \A f \in QrFlows : f \notin CodeFlows
    /\ \A f \in Flows : f \in QrFlows \/ f \in CodeFlows
    /\ Flows \subseteq Receivers /\ Stream \in Receivers /\ Stream \notin Flows
    /\ None \notin Advs /\ Adv0 \notin CodeFlows /\ Adv0 \in Advs
    /\ Junk \in Advs /\ Junk \notin CodeFlows /\ Junk # Adv0
    /\ "idle" \notin CodeFlows /\ "completed" \notin CodeFlows
  BY PairingAssumption DEF Flows, Receivers, Advs

-----------------------------------------------------------------------------
(* Types and shape.                                                        *)

LEMMA InitShape == Init => ShapeInv
<1> SUFFICES ASSUME Init PROVE ShapeInv
  OBVIOUS
<1>1. \A r \in Receivers : queue[r] = << >> /\ Events(r) = {}
  BY ElemsEmpty, EventsElems DEF Init
<1>2. QueueOK
  BY <1>1, EmptySeq, PairingAssumption DEF Init, QueueOK
<1>3. memory \in Devices
  BY Names DEF Init, Devices
<1>4. LocalOK
  <2>1. /\ drops \in 0..Drops /\ listening \subseteq Receivers /\ backend = memory /\ fresh = memory
    BY Names, PairingAssumption DEF Init
  <2>2. /\ server \in [Flows -> ServerStates]
        /\ flow \in [Flows -> FlowStates]
        /\ dev \in [Flows -> Devices] /\ pairAdv \in [Flows -> Advs \cup {None}]
    BY <1>3 DEF Init, FlowStates, ServerStates
  <2> QED
    BY <1>3, <2>1, <2>2 DEF Init, LocalOK, FlowStates, ServerStates
<1>5. RoleInv
  BY <1>1, Names DEF Init, RoleInv, Confirms, Active
<1> QED
  BY <1>2, <1>4, <1>5, TypeSplit DEF ShapeInv

LEMMA ShapeStep == ShapeInv /\ Next => ShapeInv'
<1> SUFFICES ASSUME ShapeInv, Next PROVE ShapeInv'
  OBVIOUS
<1>0. /\ TypeOK /\ QueueOK /\ listening \subseteq Receivers /\ Stream \in listening
      /\ Stream \in Receivers /\ prompt' = prompt /\ LocalOK
  BY QueueTyped, TypeSplit, Names DEF ShapeInv, RoleInv, Next
<1>1. CASE Connect
  <2>1. QueueOK' /\ Events(Stream)' \subseteq Events(Stream) \cup {Event("connected", None)}
    BY <1>0, <1>1, TryPublishFacts, EventFacts DEF Connect, Kinds
  <2>2. LocalOK'
    <3>1. linked' \in {"no", "forcing", "ending", "dropped", "settled"}
      BY <1>0, <1>1 DEF LocalOK, FlowStates, ServerStates, Connect
    <3>2. UNCHANGED <<linkedAdv, server, drops, listening, streamVars, flag, backend, flowVars>>
      BY <1>1 DEF Connect
    <3>3. conn' = "up" /\ offered' = FALSE
      BY <1>1 DEF Connect
    <3> QED
      BY <1>0, <3>1, <3>2, <3>3 DEF LocalOK, streamVars, flowVars
  <2>3. RoleInv'
    BY <1>0, <1>1, <2>1, <2>2, EventFacts, Names DEF ShapeInv, RoleInv, LocalOK, Confirms, Kinds,
        Active, Connect, streamVars, flowVars
  <2> QED
    BY <2>1, <2>2, <2>3, TypeSplit DEF ShapeInv
<1>2. CASE Drop
  <2>1. QueueOK' /\ Events(Stream)' \subseteq Events(Stream) \cup {Event("lost", None)}
    BY <1>0, <1>2, TryPublishFacts, EventFacts DEF Drop, Kinds
  <2>2. LocalOK'
    <3>1. drops' \in 0..Drops
      BY <1>0, <1>2, PairingAssumption DEF LocalOK, FlowStates, ServerStates, Drop
    <3> QED
      BY <1>0, <1>2, <3>1 DEF LocalOK, FlowStates, ServerStates, Drop, serverVars, streamVars, flowVars
  <2>3. RoleInv'
    BY <1>0, <1>2, <2>1, <2>2, EventFacts, Names DEF ShapeInv, RoleInv, LocalOK, Confirms, Kinds,
        Active, Drop, serverVars, streamVars, flowVars
  <2> QED
    BY <2>1, <2>2, <2>3, TypeSplit DEF ShapeInv
<1>3. CASE ForcedDrop
  <2>1. QueueOK' /\ Events(Stream)' \subseteq Events(Stream) \cup {Event("forced", None)}
    BY <1>0, <1>3, TryPublishFacts, EventFacts DEF ForcedDrop, Kinds
  <2>2. LocalOK'
    BY <1>0, <1>3, <2>1, DeviceFacts, Names DEF LocalOK, FlowStates, ServerStates, ForcedDrop, streamVars, flowVars
  <2>3. RoleInv'
    BY <1>0, <1>3, <2>1, <2>2, EventFacts, Names DEF ShapeInv, RoleInv, LocalOK, Confirms, Kinds,
        Active, ForcedDrop, streamVars, flowVars
  <2> QED
    BY <2>1, <2>2, <2>3, TypeSplit DEF ShapeInv
<1>4. CASE SendPairDevice
  <2>1. QueueOK' /\ Events(Stream)' \subseteq Events(Stream) \cup {Event("pairDevice", None)}
    BY <1>0, <1>4, PublishFacts, EventFacts DEF SendPairDevice, Kinds
  <2>2. LocalOK'
    BY <1>0, <1>4, <2>1, DeviceFacts, Names DEF LocalOK, FlowStates, ServerStates, SendPairDevice, FromServer, streamVars,
        flowVars
  <2>3. RoleInv'
    BY <1>0, <1>4, <2>1, <2>2, EventFacts, Names DEF ShapeInv, RoleInv, LocalOK, Confirms, Kinds,
        Active, SendPairDevice, FromServer, streamVars, flowVars
  <2> QED
    BY <2>1, <2>2, <2>3, TypeSplit DEF ShapeInv
<1>5. CASE SendStreamError
  <2>1. QueueOK' /\ Events(Stream)' \subseteq Events(Stream) \cup {Event("streamError", None)}
    BY <1>0, <1>5, PublishFacts, EventFacts DEF SendStreamError, Kinds
  <2>2. LocalOK'
    BY <1>0, <1>5, <2>1, DeviceFacts, Names DEF LocalOK, FlowStates, ServerStates, SendStreamError, FromServer, streamVars,
        flowVars
  <2>3. RoleInv'
    BY <1>0, <1>5, <2>1, <2>2, EventFacts, Names DEF ShapeInv, RoleInv, LocalOK, Confirms, Kinds,
        Active, SendStreamError, FromServer, streamVars, flowVars
  <2> QED
    BY <2>1, <2>2, <2>3, TypeSplit DEF ShapeInv
<1>6. ASSUME NEW f \in QrFlows, UserScans(f) PROVE ShapeInv'
  <2>1. QueueOK' /\ Events(Stream)' \subseteq Events(Stream) \cup {Event("pairSuccess", dev[f].adv)}
    BY <1>0, <1>6, PublishFacts, EventFacts, DeviceFacts, Names DEF UserScans, Kinds, LocalOK
  <2>2. LocalOK'
    BY <1>0, <1>6, <2>1, DeviceFacts, Names DEF LocalOK, FlowStates, ServerStates, UserScans, FromServer, streamVars,
        flowVars, Unlinked
  <2>3. Event("pairSuccess", dev[f].adv).kind = "pairSuccess"
    BY DEF Event
  <2>4. RoleInv'
    BY <1>0, <1>6, <2>1, <2>2, <2>3, Names DEF ShapeInv, RoleInv, LocalOK, Confirms, Kinds,
        Active, UserScans, FromServer, streamVars, flowVars, Unlinked
  <2> QED
    BY <2>1, <2>2, <2>4, TypeSplit DEF ShapeInv
<1>7. ASSUME NEW f \in CodeFlows, UserConfirms(f) PROVE ShapeInv'
  <2>1. QueueOK' /\ Events(Stream)' \subseteq Events(Stream) \cup {Event("confirm", f)}
    BY <1>0, <1>7, PublishFacts, EventFacts, Names DEF UserConfirms, Kinds
  <2>2. LocalOK'
    BY <1>0, <1>7, <2>1, DeviceFacts, Names DEF LocalOK, FlowStates, ServerStates, UserConfirms, FromServer, streamVars,
        flowVars, Unlinked
  <2>3. RoleInv'
    BY <1>0, <1>7, <2>1, <2>2, EventFacts, Names DEF ShapeInv, RoleInv, LocalOK, Confirms, Kinds,
        Active, UserConfirms, FromServer, streamVars, flowVars, Unlinked
  <2> QED
    BY <2>1, <2>2, <2>3, TypeSplit DEF ShapeInv
<1>29. ASSUME NEW f \in CodeFlows, UserMistypes(f) PROVE ShapeInv'
  <2>1. QueueOK' /\ Events(Stream)' \subseteq Events(Stream) \cup {Event("confirm", Junk)}
    BY <1>0, <1>29, PublishFacts, EventFacts, Names DEF UserMistypes, Kinds
  <2>2. LocalOK'
    BY <1>0, <1>29, <2>1, DeviceFacts, Names DEF LocalOK, FlowStates, ServerStates, UserMistypes, FromServer, streamVars,
        flowVars, Unlinked
  <2>3. RoleInv'
    BY <1>0, <1>29, <2>1, <2>2, EventFacts, Names DEF ShapeInv, RoleInv, LocalOK, Confirms, Kinds,
        Active, UserMistypes, FromServer, streamVars, flowVars, Unlinked
  <2> QED
    BY <2>1, <2>2, <2>3, TypeSplit DEF ShapeInv
<1>30. ASSUME NEW f \in CodeFlows, HelloArrives(f) PROVE ShapeInv'
  <2>1. QueueOK' /\ Events(Stream)' = Events(Stream)
    BY <1>0, <1>30, QueueSame DEF HelloArrives, busVars
  <2>2. /\ server' \in [Flows -> ServerStates]
        /\ flow' \in [Flows -> FlowStates]
    BY <1>0, <1>30 DEF LocalOK, FlowStates, ServerStates, HelloArrives
  <2>3. LocalOK'
    BY <1>0, <1>30, <2>2 DEF LocalOK, HelloArrives, busVars, streamVars
  <2>4. \A g \in Flows : /\ flow'[g] = flow[g] \/ (g = f /\ flow[g] = "hello" /\ flow'[g] = "storing")
                         /\ g # f => server'[g] \in {server[g], "none"}
    <3>1. \A g \in Flows : g # f => server'[g] \in {server[g], "none"}
      BY <1>0, <1>30 DEF LocalOK, FlowStates, ServerStates, HelloArrives
    <3>2. \A g \in Flows : flow'[g] = flow[g] \/ (g = f /\ flow[g] = "hello" /\ flow'[g] = "storing")
      BY <1>0, <1>30 DEF LocalOK, FlowStates, ServerStates, HelloArrives
    <3> QED
      BY <3>1, <3>2
  <2>5. /\ server[f] = "sent" /\ listening' = listening /\ queued' = queued /\ streamPc' = streamPc
        /\ fresh' = fresh /\ Confirms' = Confirms
    BY <1>30, <2>1 DEF HelloArrives, busVars, streamVars, Confirms
  <2>6. \A g \in Flows : flow'[g] \in Active => flow[g] \in Active
    BY <2>4 DEF Active
  <2>7. \A g \in Flows : (flow'[g] = "idle" <=> flow[g] = "idle") /\ (flow[g] = "failed" => flow'[g] = "failed")
    BY <2>4
  <2>8. \A g \in QrFlows : g # f /\ g \in Flows
    BY Names
  <2>9. \A g \in Flows : flow'[g] = "idle" => server'[g] = "none"
    BY <2>4, <2>5, <2>7 DEF ShapeInv, RoleInv
  <2>10. RoleInv'
    <3>1. \A g \in QrFlows : /\ server'[g] \in {"none", "success"}
                              /\ flow'[g] \notin {"hello", "storing", "refused", "spawned", "waiting", "cloning"}
      BY <2>4, <2>8 DEF ShapeInv, RoleInv
    <3>2. \A g, h \in Flows : flow'[g] # "idle" /\ flow'[h] # "idle" => (g \in QrFlows <=> h \in QrFlows)
      BY <2>7 DEF ShapeInv, RoleInv
    <3>3. \A g \in Flows : flow'[g] \in Active => g \in listening'
      BY <2>5, <2>6 DEF ShapeInv, RoleInv
    <3>4. \A g \in queued' : flow'[g] = "failed"
      BY <1>0, <2>5, <2>7 DEF ShapeInv, RoleInv, LocalOK
    <3> QED
      BY <1>0, <2>5, <2>9, <3>1, <3>2, <3>3, <3>4 DEF ShapeInv, RoleInv
  <2> QED
    BY <2>1, <2>3, <2>10, TypeSplit DEF ShapeInv
<1>8. ASSUME NEW f \in CodeFlows, SendPairSuccess(f) PROVE ShapeInv'
  <2>1. QueueOK' /\ Events(Stream)' \subseteq Events(Stream) \cup {Event("pairSuccess", f)}
    BY <1>0, <1>8, PublishFacts, EventFacts, Names DEF SendPairSuccess, Kinds
  <2>2. LocalOK'
    BY <1>0, <1>8, <2>1, DeviceFacts, Names DEF LocalOK, FlowStates, ServerStates, SendPairSuccess, FromServer, streamVars,
        flowVars, Unlinked
  <2>3. RoleInv'
    BY <1>0, <1>8, <2>1, <2>2, EventFacts, Names DEF ShapeInv, RoleInv, LocalOK, Confirms, Kinds,
        Active, SendPairSuccess, FromServer, streamVars, flowVars, Unlinked
  <2> QED
    BY <2>1, <2>2, <2>3, TypeSplit DEF ShapeInv
<1>9. ASSUME NEW f \in Flows, QueuedSignSent(f) PROVE ShapeInv'
  <2>1. QueueOK' /\ Events(Stream)' \subseteq Events(Stream)
    BY <1>0, <1>9, QueueSame DEF QueuedSignSent, busVars
  <2>2. LocalOK'
    BY <1>0, <1>9, <2>1, DeviceFacts, Names DEF LocalOK, FlowStates, ServerStates, QueuedSignSent, Link, busVars, streamVars
  <2>3. RoleInv'
    BY <1>0, <1>9, <2>1, <2>2, EventFacts, Names DEF ShapeInv, RoleInv, LocalOK, Confirms, Kinds,
        Active, QueuedSignSent, Link, busVars, streamVars
  <2> QED
    BY <2>1, <2>2, <2>3, TypeSplit DEF ShapeInv
<1>10. CASE HandleConnected
  <2>1. QueueOK' /\ Events(Stream)' \subseteq Events(Stream)
    BY <1>0, <1>10, PopFacts, Names DEF HandleConnected
  <2>2. LocalOK'
    BY <1>0, <1>10, <2>1, DeviceFacts, Names DEF LocalOK, FlowStates, ServerStates, HandleConnected, FromStream, flowVars
  <2>3. RoleInv'
    BY <1>0, <1>10, <2>1, <2>2, EventFacts, Names DEF ShapeInv, RoleInv, LocalOK, Confirms, Kinds,
        Active, HandleConnected, FromStream, flowVars
  <2> QED
    BY <2>1, <2>2, <2>3, TypeSplit DEF ShapeInv
<1>11. CASE HandleDisconnected
  <2>1. QueueOK' /\ Events(Stream)' \subseteq Events(Stream)
    BY <1>0, <1>11, PopFacts, Names DEF HandleDisconnected
  <2>2. LocalOK'
    BY <1>0, <1>11, <2>1, DeviceFacts, Names DEF LocalOK, FlowStates, ServerStates, HandleDisconnected, FromStream, flowVars
  <2>3. RoleInv'
    BY <1>0, <1>11, <2>1, <2>2, EventFacts, Names DEF ShapeInv, RoleInv, LocalOK, Confirms, Kinds,
        Active, HandleDisconnected, FromStream, flowVars
  <2> QED
    BY <2>1, <2>2, <2>3, TypeSplit DEF ShapeInv
<1>12. CASE HandleStreamError
  <2>1. QueueOK' /\ Events(Stream)' \subseteq Events(Stream)
    BY <1>0, <1>12, PopFacts, Names DEF HandleStreamError
  <2>2. LocalOK'
    BY <1>0, <1>12, <2>1, DeviceFacts, Names DEF LocalOK, FlowStates, ServerStates, HandleStreamError, FromStream, flowVars
  <2>3. RoleInv'
    BY <1>0, <1>12, <2>1, <2>2, EventFacts, Names DEF ShapeInv, RoleInv, LocalOK, Confirms, Kinds,
        Active, HandleStreamError, FromStream, flowVars
  <2> QED
    BY <2>1, <2>2, <2>3, TypeSplit DEF ShapeInv
<1>13. CASE IgnoreNode
  <2>1. QueueOK' /\ Events(Stream)' \subseteq Events(Stream)
    BY <1>0, <1>13, PopFacts, Names DEF IgnoreNode
  <2>2. LocalOK'
    BY <1>0, <1>13, <2>1, DeviceFacts, Names DEF LocalOK, FlowStates, ServerStates, IgnoreNode, FromStream, flowVars,
        streamVars
  <2>3. RoleInv'
    BY <1>0, <1>13, <2>1, <2>2, EventFacts, Names DEF ShapeInv, RoleInv, LocalOK, Confirms, Kinds,
        Active, IgnoreNode, FromStream, flowVars, streamVars
  <2> QED
    BY <2>1, <2>2, <2>3, TypeSplit DEF ShapeInv
<1>14. CASE LoadDevice
  <2>1. QueueOK' /\ Events(Stream)' \subseteq Events(Stream)
    BY <1>0, <1>14, QueueSame DEF LoadDevice, busVars
  <2>2. LocalOK'
    BY <1>0, <1>14, <2>1, DeviceFacts, Names DEF LocalOK, FlowStates, ServerStates, LoadDevice, FromStream, flowVars
  <2>3. RoleInv'
    BY <1>0, <1>14, <2>1, <2>2, DeviceFacts, Names DEF ShapeInv, RoleInv, LocalOK, Confirms,
        Kinds, Active, LoadDevice, FromStream, flowVars
  <2> QED
    BY <2>1, <2>2, <2>3, TypeSplit DEF ShapeInv
<1>15. CASE InstallDevice
  <2>1. QueueOK' /\ Events(Stream)' \subseteq Events(Stream)
    BY <1>0, <1>15, QueueSame DEF InstallDevice, busVars
  <2>2. LocalOK'
    <3>1. memory' \in Devices
      BY <1>0, <1>15 DEF LocalOK, FlowStates, ServerStates, RoleInv, ShapeInv, InstallDevice
    <3> QED
      BY <1>0, <1>15, <3>1 DEF LocalOK, FlowStates, ServerStates, InstallDevice, FromStream, flowVars
  <2>3. RoleInv'
    BY <1>0, <1>15, <2>1, <2>2, EventFacts, Names DEF ShapeInv, RoleInv, LocalOK, Confirms, Kinds,
        Active, InstallDevice, FromStream, flowVars
  <2> QED
    BY <2>1, <2>2, <2>3, TypeSplit DEF ShapeInv
<1>16. CASE FinishInit
  <2>1. QueueOK' /\ Events(Stream)' \subseteq Events(Stream)
    BY <1>0, <1>16, QueueSame DEF FinishInit, busVars
  <2>2. LocalOK'
    BY <1>0, <1>16, <2>1, DeviceFacts, Names DEF LocalOK, FlowStates, ServerStates, FinishInit, FromStream, flowVars
  <2>3. RoleInv'
    BY <1>0, <1>16, <2>1, <2>2, EventFacts, Names DEF ShapeInv, RoleInv, LocalOK, Confirms, Kinds,
        Active, FinishInit, FromStream, flowVars
  <2> QED
    BY <2>1, <2>2, <2>3, TypeSplit DEF ShapeInv
<1>17. CASE HandleConfirm
  <2>1. QueueOK' /\ Events(Stream)' \subseteq Events(Stream)
    BY <1>0, <1>17, PopFacts, Names DEF HandleConfirm
  <2>2. /\ memory' \in Devices /\ fresh' \in Devices \cup {None}
        /\ streamPc' \in {"idle", "saveAdv"} /\ codeState' = "idle"
        /\ streamPc' = "saveAdv" => fresh' # None
    <3>1. CASE codeState \in CodeFlows
      <4>1. Unwrapped(codeState, Head(queue[Stream]).arg) \in Advs
        BY <3>1, Names DEF Unwrapped
      <4> QED
        BY <1>0, <1>17, <3>1, <4>1, DeviceFacts DEF LocalOK, FlowStates, ServerStates, HandleConfirm
    <3>2. CASE codeState \notin CodeFlows
      BY <1>0, <1>17, <3>2 DEF LocalOK, FlowStates, ServerStates, HandleConfirm
    <3> QED
      BY <3>1, <3>2
  <2>3. LocalOK'
    BY <1>0, <1>17, <2>2 DEF LocalOK, FlowStates, ServerStates, HandleConfirm, FromStream, flowVars
  <2>4. RoleInv'
    BY <1>0, <1>17, <2>1, <2>2, Names DEF ShapeInv, RoleInv, LocalOK, Confirms, Active,
        HandleConfirm, FromStream, flowVars
  <2> QED
    BY <2>1, <2>3, <2>4, TypeSplit DEF ShapeInv
<1>18. CASE SaveAdv
  <2>1. QueueOK' /\ Events(Stream)' \subseteq Events(Stream)
    BY <1>0, <1>18, QueueSame DEF SaveAdv, busVars
  <2>2. LocalOK'
    <3>1. backend' \in Devices
      BY <1>0, <1>18 DEF LocalOK, FlowStates, ServerStates, RoleInv, ShapeInv, SaveAdv
    <3> QED
      BY <1>0, <1>18, <3>1 DEF LocalOK, FlowStates, ServerStates, SaveAdv, FromStream, flowVars
  <2>3. RoleInv'
    BY <1>0, <1>18, <2>1, <2>2, EventFacts, Names DEF ShapeInv, RoleInv, LocalOK, Confirms, Kinds,
        Active, SaveAdv, FromStream, flowVars
  <2> QED
    BY <2>1, <2>2, <2>3, TypeSplit DEF ShapeInv
<1>19. CASE SendFinish
  <2>1. QueueOK' /\ Events(Stream)' \subseteq Events(Stream)
    BY <1>0, <1>19, QueueSame DEF SendFinish, busVars
  <2>2. LocalOK'
    BY <1>0, <1>19, <2>1, DeviceFacts, Names DEF LocalOK, FlowStates, ServerStates, SendFinish, Finish, FromStream, flowVars
  <2>3. RoleInv'
    BY <1>0, <1>19, <2>1, <2>2, EventFacts, Names DEF ShapeInv, RoleInv, LocalOK, Confirms, Kinds,
        Active, SendFinish, Finish, FromStream, flowVars
  <2> QED
    BY <2>1, <2>2, <2>3, TypeSplit DEF ShapeInv
<1>20. ASSUME NEW f \in QrFlows, RequestPairing(f) PROVE ShapeInv'
  <2>1. QueueOK' /\ Events(Stream)' \subseteq Events(Stream)
    BY <1>0, <1>20, QueueSame DEF RequestPairing, busVars
  <2>2. LocalOK'
    BY <1>0, <1>20, <2>1, DeviceFacts, Names DEF LocalOK, FlowStates, ServerStates, RequestPairing, FromFlow, OneMethod
  <2>3. RoleInv'
    BY <1>0, <1>20, <2>1, <2>2, EventFacts, Names DEF ShapeInv, RoleInv, LocalOK, Confirms, Kinds,
        Active, RequestPairing, FromFlow, OneMethod
  <2> QED
    BY <2>1, <2>2, <2>3, TypeSplit DEF ShapeInv
<1>21. ASSUME NEW f \in QrFlows, QrEnds(f) PROVE ShapeInv'
  <2>1. QueueOK' /\ Events(Stream)' \subseteq Events(Stream)
    BY <1>0, <1>21, LeaveFacts, Names DEF QrEnds, Ended
  <2>2. LocalOK'
    BY <1>0, <1>21, <2>1, DeviceFacts, Names DEF LocalOK, FlowStates, ServerStates, QrEnds, FromFlow, Leave, Ended
  <2>3. RoleInv'
    BY <1>0, <1>21, <2>1, <2>2, EventFacts, Names DEF ShapeInv, RoleInv, LocalOK, Confirms, Kinds,
        Active, QrEnds, FromFlow, Leave, Ended
  <2> QED
    BY <2>1, <2>2, <2>3, TypeSplit DEF ShapeInv
<1>22. ASSUME NEW f \in CodeFlows, RequestPairCode(f) PROVE ShapeInv'
  <2>1. QueueOK' /\ Events(Stream)' \subseteq Events(Stream)
    BY <1>0, <1>22, QueueSame DEF RequestPairCode, busVars
  <2>2. LocalOK'
    BY <1>0, <1>22, Names DEF LocalOK, FlowStates, ServerStates, RequestPairCode, FromFlow, busVars
  <2>3. RoleInv'
    BY <1>0, <1>22, <2>1, <2>2, EventFacts, Names DEF ShapeInv, RoleInv, LocalOK, Confirms, Kinds,
        Active, RequestPairCode, FromFlow, OneMethod, busVars
  <2> QED
    BY <2>1, <2>2, <2>3, TypeSplit DEF ShapeInv
<1>31. ASSUME NEW f \in CodeFlows, HelloFails(f) PROVE ShapeInv'
  <2>1. QueueOK' /\ Events(Stream)' \subseteq Events(Stream)
    BY <1>0, <1>31, QueueSame DEF HelloFails, busVars
  <2>2. LocalOK'
    BY <1>0, <1>31, Names DEF LocalOK, FlowStates, ServerStates, HelloFails, FromFlow, busVars, Ended
  <2>3. RoleInv'
    BY <1>0, <1>31, <2>1, <2>2, Names DEF ShapeInv, RoleInv, LocalOK, Confirms, Active,
        HelloFails, FromFlow, busVars
  <2> QED
    BY <2>1, <2>2, <2>3, TypeSplit DEF ShapeInv
<1>32. ASSUME NEW f \in CodeFlows, StoreCode(f) PROVE ShapeInv'
  <2>1. QueueOK' /\ Events(Stream)' \subseteq Events(Stream)
    BY <1>0, <1>32, QueueSame DEF StoreCode, busVars
  <2>2. LocalOK'
    BY <1>0, <1>32, Names DEF LocalOK, FlowStates, ServerStates, StoreCode, FromFlow, busVars
  <2>3. RoleInv'
    BY <1>0, <1>32, <2>1, <2>2, Names DEF ShapeInv, RoleInv, LocalOK, Confirms, Active,
        StoreCode, FromFlow, busVars
  <2> QED
    BY <2>1, <2>2, <2>3, TypeSplit DEF ShapeInv
<1>23. ASSUME NEW f \in CodeFlows, TaskStarts(f) PROVE ShapeInv'
  <2>1. QueueOK' /\ Events(Stream)' \subseteq Events(Stream)
    BY <1>0, <1>23, QueueSame DEF TaskStarts, busVars
  <2>2. LocalOK'
    BY <1>0, <1>23, <2>1, DeviceFacts, Names DEF LocalOK, FlowStates, ServerStates, TaskStarts, FromFlow
  <2>3. RoleInv'
    BY <1>0, <1>23, <2>1, <2>2, EventFacts, Names DEF ShapeInv, RoleInv, LocalOK, Confirms, Kinds,
        Active, TaskStarts, FromFlow
  <2> QED
    BY <2>1, <2>2, <2>3, TypeSplit DEF ShapeInv
<1>24. ASSUME NEW f \in CodeFlows, CloneDevice(f) PROVE ShapeInv'
  <2>1. QueueOK' /\ Events(Stream)' \subseteq Events(Stream)
    BY <1>0, <1>24, QueueSame DEF CloneDevice, busVars
  <2>2. LocalOK'
    BY <1>0, <1>24, <2>1, DeviceFacts, Names DEF LocalOK, FlowStates, ServerStates, CloneDevice, FromFlow, busVars
  <2>3. RoleInv'
    BY <1>0, <1>24, <2>1, <2>2, EventFacts, Names DEF ShapeInv, RoleInv, LocalOK, Confirms, Kinds,
        Active, CloneDevice, FromFlow, busVars
  <2> QED
    BY <2>1, <2>2, <2>3, TypeSplit DEF ShapeInv
<1>25. ASSUME NEW f \in Flows, FinishFlow(f) PROVE ShapeInv'
  <2>1. QueueOK' /\ Events(Stream)' \subseteq Events(Stream)
    BY <1>0, <1>25, LeaveFacts, Names DEF FinishFlow, Ended
  <2>2. LocalOK'
    BY <1>0, <1>25, <2>1, DeviceFacts, Names DEF LocalOK, FlowStates, ServerStates, FinishFlow, FromFlow, Leave, Ended
  <2>3. RoleInv'
    BY <1>0, <1>25, <2>1, <2>2, EventFacts, Names DEF ShapeInv, RoleInv, LocalOK, Confirms, Kinds,
        Active, FinishFlow, FromFlow, Leave, Ended
  <2> QED
    BY <2>1, <2>2, <2>3, TypeSplit DEF ShapeInv
<1>26. ASSUME NEW f \in Flows, ReadEvent(f) PROVE ShapeInv'
  <2>0. queue[f] \in Seq(BusEvents) /\ queue[f] # << >> /\ f \in Receivers
    BY <1>0, <1>26, Names DEF ReadEvent, QueueOK
  <2>1. QueueOK' /\ Events(Stream)' \subseteq Events(Stream) /\ Head(queue[f]).arg \in Advs \cup {None}
    <3>1. Head(queue[f]).arg \in Advs \cup {None}
      BY <2>0, ElemsPop DEF BusEvents
    <3>2. CASE Leave(f, "failed")
      BY <1>0, <3>1, <3>2, LeaveFacts DEF Ended
    <3>3. CASE Next1(f)
      BY <1>0, <2>0, <3>1, <3>3, PopFacts
    <3> QED
      BY <1>26, <3>2, <3>3 DEF ReadEvent
  <2>2. LocalOK'
    <3>1. flow' \in [Flows -> FlowStates]
      BY <1>0, <1>26 DEF LocalOK, FlowStates, ServerStates, ReadEvent, Leave, Ended
    <3>2. /\ pairAdv' \in [Flows -> Advs \cup {None}] /\ flag' \in BOOLEAN
          /\ listening' \subseteq Receivers
      BY <1>0, <1>26, <2>1 DEF LocalOK, FlowStates, ServerStates, ReadEvent, Leave
    <3> QED
      BY <1>0, <1>26, <3>1, <3>2 DEF LocalOK, FlowStates, ServerStates, ReadEvent, FromFlow
  <2>3. RoleInv'
    BY <1>0, <1>26, <2>1, <2>2, Names DEF ShapeInv, RoleInv, LocalOK, Confirms, Active, ReadEvent,
        FromFlow, Leave
  <2> QED
    BY <2>1, <2>2, <2>3, TypeSplit DEF ShapeInv
<1>27. ASSUME NEW f \in Flows, Respond(f) PROVE ShapeInv'
  <2>1. QueueOK' /\ Events(Stream)' \subseteq Events(Stream)
    <3>1. CASE Leave(f, "failed")
      BY <1>0, <3>1, LeaveFacts DEF Ended
    <3>2. CASE UNCHANGED busVars
      BY <1>0, <3>2, QueueSame DEF busVars
    <3> QED
      BY <1>27, <3>1, <3>2 DEF Respond
  <2>2. LocalOK'
    <3>1. flow' \in [Flows -> FlowStates]
      BY <1>0, <1>27 DEF LocalOK, FlowStates, ServerStates, Respond, Leave, Ended
    <3>2. /\ linked' \in {"no", "forcing", "ending", "dropped", "settled"}
          /\ linkedAdv' \in Advs \cup {None} /\ queued' \subseteq Flows
          /\ flag' \in BOOLEAN /\ listening' \subseteq Receivers
      BY <1>0, <1>27 DEF LocalOK, FlowStates, ServerStates, Respond, Leave, Link, busVars
    <3> QED
      BY <1>0, <1>27, <3>1, <3>2 DEF LocalOK, FlowStates, ServerStates, Respond, FromFlow
  <2>3. RoleInv'
    BY <1>0, <1>27, <2>1, <2>2, Names DEF ShapeInv, RoleInv, LocalOK, Confirms, Active, Respond,
        FromFlow, Leave, Link, busVars
  <2> QED
    BY <2>1, <2>2, <2>3, TypeSplit DEF ShapeInv
<1>28. ASSUME NEW f \in Flows, Save(f) PROVE ShapeInv'
  <2>1. QueueOK' /\ Events(Stream)' \subseteq Events(Stream)
    <3>1. CASE Leave(f, "failed")
      BY <1>0, <3>1, LeaveFacts DEF Ended
    <3>2. CASE UNCHANGED busVars
      BY <1>0, <3>2, QueueSame DEF busVars
    <3> QED
      BY <1>28, <3>1, <3>2 DEF Save
  <2>2. LocalOK'
    <3>0. dev[f] \in Devices
      BY <1>0, <1>28 DEF LocalOK, FlowStates, ServerStates
    <3>1. flow' \in [Flows -> FlowStates]
      BY <1>0, <1>28 DEF LocalOK, FlowStates, ServerStates, Save, Leave, Ended
    <3>2. backend' \in Devices
      <4>1. backend' \in {backend, [dev[f] EXCEPT !.paired = TRUE]}
        BY <1>28 DEF Save
      <4> QED
        BY <1>0, <3>0, <4>1, DeviceFacts DEF LocalOK, FlowStates, ServerStates
    <3>3. flag' \in BOOLEAN /\ listening' \subseteq Receivers
      BY <1>0, <1>28 DEF LocalOK, FlowStates, ServerStates, Save, Leave, busVars
    <3> QED
      BY <1>0, <1>28, <3>1, <3>2, <3>3 DEF LocalOK, FlowStates, ServerStates, Save, FromFlow
  <2>3. RoleInv'
    BY <1>0, <1>28, <2>1, <2>2, Names DEF ShapeInv, RoleInv, LocalOK, Confirms, Active, Save,
        FromFlow, Leave, busVars
  <2> QED
    BY <2>1, <2>2, <2>3, TypeSplit DEF ShapeInv
<1> QED
  BY <1>1, <1>2, <1>3, <1>4, <1>5, <1>6, <1>7, <1>8, <1>9, <1>10, <1>11, <1>12, <1>13, <1>14,
     <1>15, <1>16,
     <1>17, <1>18, <1>19, <1>20, <1>21, <1>22, <1>23, <1>24, <1>25, <1>26, <1>27, <1>28,
     <1>29, <1>30, <1>31, <1>32, Names
  DEF Next, ServerNext, StreamNext, FlowNext

-----------------------------------------------------------------------------
(* The codes: which request the server waits on, and its confirmation.     *)

LEMMA ConfirmFacts ==
    /\ \A f \in CodeFlows \cup {Junk} :
          Confirm(f) \in BusEvents /\ Confirm(f).kind = "confirm" /\ Confirm(f).arg = f
    /\ \A e \in BusEvents : e.kind = "confirm" => e = Confirm(e.arg)
    /\ \A f, g : Confirm(f) = Confirm(g) => f = g
<1>1. \A f : Confirm(f) = [kind |-> "confirm", arg |-> f]
  BY DEF Confirm, Event
<1> QED
  BY <1>1, Names DEF BusEvents, Kinds

LEMMA OrderPop ==
    ASSUME NEW q \in Seq(BusEvents), q # << >>
    PROVE  /\ Distinct(q) => Distinct(Tail(q))
           /\ Distinct(q) /\ Head(q).kind = "confirm" /\ Head(q).arg # Junk
                => Head(q) \notin Elems(Tail(q))
           /\ \A f : IsLast(q, f) => IsLast(Tail(q), f)
<1> DEFINE t == Tail(q)
<1>1. /\ Len(q) \in Nat \ {0} /\ Len(t) = Len(q) - 1 /\ Head(q) = q[1]
      /\ \A i \in 1..Len(t) : t[i] = q[i + 1]
  BY ElemsPop
<1>2. \A i \in 1..Len(t) : i + 1 \in 1..Len(q) /\ i + 1 # 1
  BY <1>1
<1> HIDE DEF t
<1>3. ASSUME Distinct(q), NEW i \in 1..Len(t), NEW j \in 1..Len(t), i # j,
             t[i].kind = "confirm", t[i].arg # Junk
      PROVE  t[i] # t[j]
  <2>1. i + 1 # j + 1
    BY <1>1, <1>3
  <2> QED
    BY <1>1, <1>2, <1>3, <2>1 DEF Distinct
<1>4. ASSUME Distinct(q), Head(q).kind = "confirm", Head(q).arg # Junk
      PROVE  Head(q) \notin Elems(t)
  <2>1. 1 \in 1..Len(q)
    BY <1>1
  <2>2. \A i \in 1..Len(t) : q[1] # q[i + 1]
    BY <1>1, <1>2, <1>4, <2>1 DEF Distinct
  <2> QED
    BY <1>1, <2>2 DEF Elems
<1>5. ASSUME NEW f, IsLast(q, f), NEW i \in 1..Len(t), t[i].kind = "confirm", t[i].arg # f
      PROVE  \E j \in (i + 1)..Len(t) : t[j] = Confirm(f)
  <2>1. PICK k \in (i + 2)..Len(q) : q[k] = Confirm(f)
    BY <1>1, <1>2, <1>5 DEF IsLast
  <2>2. k - 1 \in (i + 1)..Len(t) /\ k - 1 \in 1..Len(t) /\ (k - 1) + 1 = k
    BY <2>1, <1>1
  <2>3. t[k - 1] = Confirm(f)
    BY <1>1, <2>1, <2>2
  <2> QED
    BY <2>2, <2>3
<1> QED
  BY <1>3, <1>4, <1>5 DEF Distinct, IsLast, t

LEMMA OrderPush ==
    ASSUME NEW q \in Seq(BusEvents), NEW e \in BusEvents
    PROVE  /\ Distinct(q) /\ e \notin Elems(q) => Distinct(Append(q, e))
           /\ Distinct(q) /\ (e.kind = "confirm" => e.arg = Junk) => Distinct(Append(q, e))
           /\ \A f : IsLast(q, f) /\ (e.kind = "confirm" => e.arg = f) => IsLast(Append(q, e), f)
           /\ \A f : e = Confirm(f) => IsLast(Append(q, e), f)
<1> DEFINE a == Append(q, e)
<1>1. /\ Len(q) \in Nat /\ Len(a) = Len(q) + 1 /\ a[Len(q) + 1] = e
      /\ \A i \in 1..Len(q) : a[i] = q[i]
  BY ElemsAppend, LenProperties
<1>2. \A i \in 1..Len(a) : i \in 1..Len(q) \/ i = Len(q) + 1
  BY <1>1
<1> HIDE DEF a
<1>3. ASSUME Distinct(q), (e.kind = "confirm" => e.arg = Junk) \/ e \notin Elems(q),
             NEW i \in 1..Len(a), NEW j \in 1..Len(a), i # j, a[i].kind = "confirm", a[i].arg # Junk
      PROVE  a[i] # a[j]
  <2>1. CASE i \in 1..Len(q) /\ j \in 1..Len(q)
    BY <1>1, <1>3, <2>1 DEF Distinct
  <2>2. CASE i \in 1..Len(q) /\ j = Len(q) + 1
    BY <1>1, <1>3, <2>2 DEF Elems
  <2>3. CASE i = Len(q) + 1 /\ j \in 1..Len(q)
    BY <1>1, <1>3, <2>3 DEF Elems
  <2> QED
    BY <1>2, <1>3, <2>1, <2>2, <2>3
<1>4. ASSUME NEW f, IsLast(q, f), e.kind = "confirm" => e.arg = f,
             NEW i \in 1..Len(a), a[i].kind = "confirm", a[i].arg # f
      PROVE  \E j \in (i + 1)..Len(a) : a[j] = Confirm(f)
  <2>1. i \in 1..Len(q)
    BY <1>1, <1>2, <1>4
  <2>2. PICK k \in (i + 1)..Len(q) : q[k] = Confirm(f)
    BY <1>1, <1>4, <2>1 DEF IsLast
  <2>3. k \in (i + 1)..Len(a) /\ k \in 1..Len(q)
    BY <1>1, <2>1, <2>2
  <2> QED
    BY <1>1, <2>2, <2>3
<1>5. ASSUME NEW f, e = Confirm(f), NEW i \in 1..Len(a), a[i].kind = "confirm", a[i].arg # f
      PROVE  \E j \in (i + 1)..Len(a) : a[j] = Confirm(f)
  <2>1. e.arg = f
    BY <1>5 DEF Confirm, Event
  <2>2. i \in 1..Len(q)
    BY <1>1, <1>2, <1>5, <2>1
  <2>3. Len(q) + 1 \in (i + 1)..Len(a)
    BY <1>1, <2>2
  <2> QED
    BY <1>1, <1>5, <2>3
<1> QED
  BY <1>3, <1>4, <1>5 DEF Distinct, IsLast, a

\* What a step does to the queue of the stream, if it publishes no confirmation.
StreamQueue ==
    \/ queue'[Stream] = queue[Stream]
    \/ queue[Stream] # << >> /\ queue'[Stream] = Tail(queue[Stream])
    \/ \E e \in BusEvents : e.kind # "confirm" /\ queue'[Stream] = Append(queue[Stream], e)

LEMMA StreamQueueFacts ==
    ASSUME ShapeInv, CodeInv, StreamQueue
    PROVE  /\ Confirms' \subseteq Confirms
           /\ Distinct(queue'[Stream])
           /\ \A f \in CodeFlows : server[f] = "confirmed" => IsLast(queue'[Stream], f)
<1> DEFINE q == queue[Stream]
           p == queue'[Stream]
<1>1. q \in Seq(BusEvents) /\ Distinct(q) /\ \A f \in CodeFlows : server[f] = "confirmed" => IsLast(q, f)
  BY QueueTyped, Names DEF ShapeInv, CodeInv, QueueOK
<1>2. Confirms = {e \in Elems(q) : e.kind = "confirm"} /\ Confirms' = {e \in Elems(p) : e.kind = "confirm"}
  BY DEF Confirms, Events, Elems
<1>3. p = q \/ (q # << >> /\ p = Tail(q)) \/ \E e \in BusEvents : e.kind # "confirm" /\ p = Append(q, e)
  BY DEF StreamQueue
<1> HIDE DEF q, p
<1>4. CASE p = q
  BY <1>1, <1>2, <1>4 DEF q, p
<1>5. CASE q # << >> /\ p = Tail(q)
  <2>1. Elems(p) \subseteq Elems(q)
    BY <1>1, <1>5, ElemsPop
  <2> QED
    BY <1>1, <1>2, <1>5, <2>1, OrderPop DEF q, p
<1>6. ASSUME NEW e \in BusEvents, e.kind # "confirm", p = Append(q, e)
      PROVE  /\ Confirms' \subseteq Confirms /\ Distinct(p)
             /\ \A f \in CodeFlows : server[f] = "confirmed" => IsLast(p, f)
  <2>1. Elems(p) = Elems(q) \cup {e}
    BY <1>1, <1>6, ElemsAppend
  <2>2. Distinct(p) /\ \A f : IsLast(q, f) => IsLast(p, f)
    BY <1>1, <1>6, OrderPush
  <2> QED
    BY <1>1, <1>2, <1>6, <2>1, <2>2
<1> QED
  BY <1>3, <1>4, <1>5, <1>6 DEF p

\* The phases of the requests stay as they are.
SamePhases == \A f \in CodeFlows :
    flow'[f] = flow[f] \/ (flow[f] \notin Unasked /\ flow'[f] \notin Unasked)

LEMMA PhaseFacts ==
    ASSUME SamePhases
    PROVE  /\ \A f \in CodeFlows : Asked(f) <=> Asked(f)'
           /\ \A f \in CodeFlows : Rival(f) => Rival(f)'
           /\ Mixed => Mixed'
           /\ (\A f \in CodeFlows : server'[f] = server[f]) /\ PhaseInv => PhaseInv'
<1>1. \A f \in CodeFlows : /\ flow'[f] = "idle" <=> flow[f] = "idle"
                           /\ flow'[f] \in Called <=> flow[f] \in Called
                           /\ flow'[f] = "storing" <=> flow[f] = "storing"
                           /\ flow'[f] \in Unasked <=> flow[f] \in Unasked
                           /\ flow'[f] \in Called => flow'[f] = flow[f]
  BY DEF SamePhases, Unasked, Called
<1>2. \A f \in CodeFlows : Rival(f) => Rival(f)'
  BY <1>1 DEF Rival
<1>3. Mixed => Mixed'
  BY <1>1 DEF Mixed
<1>4. \A f \in CodeFlows : Asked(f) <=> Asked(f)'
  BY <1>1 DEF Asked
<1>5. (\A f \in CodeFlows : server'[f] = server[f]) /\ PhaseInv => PhaseInv'
  BY <1>1, <1>2 DEF PhaseInv
<1> QED
  BY <1>2, <1>3, <1>4, <1>5

LEMMA CodeKept ==
    ASSUME ShapeInv, CodeInv, StreamQueue, server' = server, SamePhases,
           Confirming' => Confirming /\ fresh' = fresh
    PROVE  CodeInv'
<1>1. /\ Confirms' \subseteq Confirms /\ Distinct(queue'[Stream])
      /\ \A f \in CodeFlows : server[f] = "confirmed" => IsLast(queue'[Stream], f)
  BY StreamQueueFacts
<1>2. PhaseInv' /\ (Mixed => Mixed') /\ \A f \in CodeFlows : Asked(f) => Asked(f)'
  BY PhaseFacts DEF CodeInv
<1>3. \A f : Confirm(f)' = Confirm(f)
  BY DEF Confirm
<1>4. /\ Confirming' => \A f \in CodeFlows : fresh'.adv = f =>
          Asked(f)' /\ server'[f] \in {"confirmed", "none"} /\ Confirm(f) \notin Confirms'
      /\ Confirming' => fresh'.adv \in CodeFlows \/ (fresh'.adv = Junk /\ Mixed')
  BY <1>1, <1>2 DEF CodeInv
<1>5. /\ \A f \in CodeFlows : Confirm(f) \in Confirms' => Asked(f)' /\ server'[f] \in {"confirmed", "none"}
      /\ Confirm(Junk) \in Confirms' => Mixed'
  BY <1>1, <1>2 DEF CodeInv
<1>6. \A f \in Flows : server'[f] \in {"finish", "success"} => Confirms' = {} /\ ~Confirming'
  BY <1>1 DEF CodeInv
<1>7. /\ \A f, g \in Flows : server'[f] \in Wanted /\ server'[g] \in Wanted => f = g
      /\ \A f, g \in Flows : server'[f] = "success" /\ server'[g] = "success" => f = g
  BY DEF CodeInv
<1>8. \A f \in CodeFlows : server'[f] = "confirmed" => IsLast(queue'[Stream], f)
  BY <1>1
<1> QED
  BY <1>1, <1>2, <1>3, <1>4, <1>5, <1>6, <1>7, <1>8 DEF CodeInv

LEMMA InitCode == Init => CodeInv
<1> SUFFICES ASSUME Init PROVE CodeInv
  OBVIOUS
<1>1. queue[Stream] = << >> /\ Events(Stream) = {} /\ Len(queue[Stream]) = 0
  BY ElemsEmpty, EventsElems, EmptySeq, Names DEF Init
<1>2. Confirms = {} /\ ~Confirming /\ \A f \in Flows : server[f] = "none" /\ flow[f] = "idle"
  BY <1>1 DEF Init, Confirms, Confirming
<1>3. Distinct(queue[Stream])
  BY <1>1 DEF Distinct
<1> QED
  BY <1>2, <1>3, Names DEF CodeInv, Wanted, PhaseInv, Called

\* A call that gets on, or gives up, without a change at the server.
LEMMA MovedKeeps ==
    ASSUME ShapeInv, CodeInv, server' = server, queue' = queue, streamPc' = streamPc, fresh' = fresh,
           NEW f \in CodeFlows, flow[f] \in {"hello", "storing"},
           \A g \in CodeFlows : g # f => flow'[g] = flow[g],
           \/ flow[f] = "hello" /\ flow'[f] = "refused"
           \/ flow[f] = "storing" /\ flow'[f] = "spawned"
    PROVE  CodeInv'
<1>1. \A g \in CodeFlows : flow'[g] # "idle" <=> flow[g] # "idle"
  OBVIOUS
<1>2. /\ \A g \in CodeFlows : Rival(g) => Rival(g)'
      /\ Mixed => Mixed'
  BY <1>1 DEF Rival, Mixed
<1>3. \A g \in CodeFlows : Asked(g) => Asked(g)'
  BY DEF Asked, Unasked
<1>4. PhaseInv'
  BY <1>2 DEF CodeInv, PhaseInv, Called
<1>5. Confirms' = Confirms /\ (Confirming' <=> Confirming)
  BY QueueSame DEF Confirms, Confirming
<1>6. \A g : Confirm(g)' = Confirm(g)
  BY DEF Confirm
<1> QED
  BY <1>2, <1>3, <1>4, <1>5, <1>6 DEF CodeInv

LEMMA CodeStep == ShapeInv /\ CodeInv /\ SecretInv /\ Next => CodeInv'
<1> SUFFICES ASSUME ShapeInv, CodeInv, SecretInv, Next PROVE CodeInv'
  OBVIOUS
<1>0. /\ QueueOK /\ LocalOK /\ listening \subseteq Receivers /\ Stream \in listening
      /\ Stream \in Receivers /\ \A f \in Flows : f # Stream
  BY QueueTyped, TypeSplit, Names DEF ShapeInv, RoleInv
<1>1. CASE Connect
  <2>1. StreamQueue
    BY <1>0, <1>1, TryPublishFacts, EventFacts DEF StreamQueue, Connect, Kinds
  <2>2. server' = server /\ SamePhases
    BY <1>0, <1>1, Names DEF LocalOK, Ended, FlowStates, SamePhases, Unasked, Connect, streamVars, flowVars
  <2>3. Confirming' => Confirming /\ fresh' = fresh
    BY <1>1 DEF Confirming, Connect, streamVars, flowVars
  <2> QED
    BY <2>1, <2>2, <2>3, CodeKept
<1>2. CASE Drop
  <2>1. StreamQueue
    BY <1>0, <1>2, TryPublishFacts, EventFacts DEF StreamQueue, Drop, Kinds
  <2>2. server' = server /\ SamePhases
    BY <1>0, <1>2, Names DEF LocalOK, Ended, FlowStates, SamePhases, Unasked, Drop, serverVars, streamVars, flowVars
  <2>3. Confirming' => Confirming /\ fresh' = fresh
    BY <1>2 DEF Confirming, Drop, serverVars, streamVars, flowVars
  <2> QED
    BY <2>1, <2>2, <2>3, CodeKept
<1>3. CASE ForcedDrop
  <2>1. StreamQueue
    BY <1>0, <1>3, TryPublishFacts, EventFacts DEF StreamQueue, ForcedDrop, Kinds
  <2>2. server' = server /\ SamePhases
    BY <1>0, <1>3, Names DEF LocalOK, Ended, FlowStates, SamePhases, Unasked, ForcedDrop, streamVars, flowVars
  <2>3. Confirming' => Confirming /\ fresh' = fresh
    BY <1>3 DEF Confirming, ForcedDrop, streamVars, flowVars
  <2> QED
    BY <2>1, <2>2, <2>3, CodeKept
<1>4. CASE SendPairDevice
  <2>1. StreamQueue
    BY <1>0, <1>4, PublishFacts, EventFacts DEF StreamQueue, SendPairDevice, Kinds
  <2>2. server' = server /\ SamePhases
    BY <1>0, <1>4, Names DEF LocalOK, Ended, FlowStates, SamePhases, Unasked, SendPairDevice, FromServer, streamVars, flowVars
  <2>3. Confirming' => Confirming /\ fresh' = fresh
    BY <1>4 DEF Confirming, SendPairDevice, FromServer, streamVars, flowVars
  <2> QED
    BY <2>1, <2>2, <2>3, CodeKept
<1>5. CASE SendStreamError
  <2>1. StreamQueue
    BY <1>0, <1>5, PublishFacts, EventFacts DEF StreamQueue, SendStreamError, Kinds
  <2>2. server' = server /\ SamePhases
    BY <1>0, <1>5, Names DEF LocalOK, Ended, FlowStates, SamePhases, Unasked, SendStreamError, FromServer, streamVars, flowVars
  <2>3. Confirming' => Confirming /\ fresh' = fresh
    BY <1>5 DEF Confirming, SendStreamError, FromServer, streamVars, flowVars
  <2> QED
    BY <2>1, <2>2, <2>3, CodeKept
<1>6. ASSUME NEW f \in Flows, QueuedSignSent(f) PROVE CodeInv'
  <2>1. StreamQueue
    BY <1>6 DEF StreamQueue, QueuedSignSent, busVars, FromStream
  <2>2. server' = server /\ SamePhases
    BY <1>0, <1>6, Names DEF LocalOK, Ended, FlowStates, SamePhases, Unasked, QueuedSignSent, Link, busVars, streamVars
  <2>3. Confirming' => Confirming /\ fresh' = fresh
    BY <1>6 DEF Confirming, QueuedSignSent, busVars, streamVars
  <2> QED
    BY <2>1, <2>2, <2>3, CodeKept
<1>7. CASE HandleConnected
  <2>1. StreamQueue
    BY <1>0, <1>7, PopFacts DEF StreamQueue, HandleConnected
  <2>2. server' = server /\ SamePhases
    BY <1>0, <1>7, Names DEF LocalOK, Ended, FlowStates, SamePhases, Unasked, HandleConnected, FromStream, flowVars
  <2>3. Confirming' => Confirming /\ fresh' = fresh
    BY <1>7 DEF Confirming, HandleConnected, FromStream, flowVars
  <2> QED
    BY <2>1, <2>2, <2>3, CodeKept
<1>8. CASE HandleDisconnected
  <2>1. StreamQueue
    BY <1>0, <1>8, PopFacts DEF StreamQueue, HandleDisconnected
  <2>2. server' = server /\ SamePhases
    BY <1>0, <1>8, Names DEF LocalOK, Ended, FlowStates, SamePhases, Unasked, HandleDisconnected, FromStream, flowVars
  <2>3. Confirming' => Confirming /\ fresh' = fresh
    BY <1>8 DEF Confirming, HandleDisconnected, FromStream, flowVars
  <2> QED
    BY <2>1, <2>2, <2>3, CodeKept
<1>9. CASE HandleStreamError
  <2>1. StreamQueue
    BY <1>0, <1>9, PopFacts DEF StreamQueue, HandleStreamError
  <2>2. server' = server /\ SamePhases
    BY <1>0, <1>9, Names DEF LocalOK, Ended, FlowStates, SamePhases, Unasked, HandleStreamError, FromStream, flowVars
  <2>3. Confirming' => Confirming /\ fresh' = fresh
    BY <1>9 DEF Confirming, HandleStreamError, FromStream, flowVars
  <2> QED
    BY <2>1, <2>2, <2>3, CodeKept
<1>10. CASE IgnoreNode
  <2>1. StreamQueue
    BY <1>0, <1>10, PopFacts DEF StreamQueue, IgnoreNode
  <2>2. server' = server /\ SamePhases
    BY <1>0, <1>10, Names DEF LocalOK, Ended, FlowStates, SamePhases, Unasked, IgnoreNode, FromStream, flowVars, streamVars
  <2>3. Confirming' => Confirming /\ fresh' = fresh
    BY <1>10 DEF Confirming, IgnoreNode, FromStream, flowVars, streamVars
  <2> QED
    BY <2>1, <2>2, <2>3, CodeKept
<1>11. CASE LoadDevice
  <2>1. StreamQueue
    BY <1>11 DEF StreamQueue, LoadDevice, busVars, FromStream
  <2>2. server' = server /\ SamePhases
    BY <1>0, <1>11, Names DEF LocalOK, Ended, FlowStates, SamePhases, Unasked, LoadDevice, FromStream, flowVars
  <2>3. Confirming' => Confirming /\ fresh' = fresh
    BY <1>11 DEF Confirming, LoadDevice, FromStream, flowVars
  <2> QED
    BY <2>1, <2>2, <2>3, CodeKept
<1>12. CASE InstallDevice
  <2>1. StreamQueue
    BY <1>12 DEF StreamQueue, InstallDevice, busVars, FromStream
  <2>2. server' = server /\ SamePhases
    BY <1>0, <1>12, Names DEF LocalOK, Ended, FlowStates, SamePhases, Unasked, InstallDevice, FromStream, flowVars
  <2>3. Confirming' => Confirming /\ fresh' = fresh
    BY <1>12 DEF Confirming, InstallDevice, FromStream, flowVars
  <2> QED
    BY <2>1, <2>2, <2>3, CodeKept
<1>13. CASE FinishInit
  <2>1. StreamQueue
    BY <1>13 DEF StreamQueue, FinishInit, busVars, FromStream
  <2>2. server' = server /\ SamePhases
    BY <1>0, <1>13, Names DEF LocalOK, Ended, FlowStates, SamePhases, Unasked, FinishInit, FromStream, flowVars
  <2>3. Confirming' => Confirming /\ fresh' = fresh
    BY <1>13 DEF Confirming, FinishInit, FromStream, flowVars
  <2> QED
    BY <2>1, <2>2, <2>3, CodeKept
<1>14. CASE SaveAdv
  <2>1. StreamQueue
    BY <1>14 DEF StreamQueue, SaveAdv, busVars, FromStream
  <2>2. server' = server /\ SamePhases
    BY <1>0, <1>14, Names DEF LocalOK, Ended, FlowStates, SamePhases, Unasked, SaveAdv, FromStream, flowVars
  <2>3. Confirming' => Confirming /\ fresh' = fresh
    BY <1>14 DEF Confirming, SaveAdv, FromStream, flowVars
  <2> QED
    BY <2>1, <2>2, <2>3, CodeKept
<1>15. ASSUME NEW f \in QrFlows, RequestPairing(f) PROVE CodeInv'
  <2>1. StreamQueue
    BY <1>15 DEF StreamQueue, RequestPairing, busVars, FromStream
  <2>2. server' = server /\ SamePhases
    BY <1>0, <1>15, Names DEF LocalOK, Ended, FlowStates, SamePhases, Unasked, RequestPairing, FromFlow, OneMethod
  <2>3. Confirming' => Confirming /\ fresh' = fresh
    BY <1>15 DEF Confirming, RequestPairing, FromFlow
  <2> QED
    BY <2>1, <2>2, <2>3, CodeKept
<1>16. ASSUME NEW f \in QrFlows, QrEnds(f) PROVE CodeInv'
  <2>1. StreamQueue
    BY <1>0, <1>16, LeaveFacts, Names DEF StreamQueue, QrEnds, Ended
  <2>2. server' = server /\ SamePhases
    BY <1>0, <1>16, Names DEF LocalOK, Ended, FlowStates, SamePhases, Unasked, QrEnds, FromFlow, Leave
  <2>3. Confirming' => Confirming /\ fresh' = fresh
    BY <1>16 DEF Confirming, QrEnds, FromFlow
  <2> QED
    BY <2>1, <2>2, <2>3, CodeKept
<1>17. ASSUME NEW f \in CodeFlows, TaskStarts(f) PROVE CodeInv'
  <2>1. StreamQueue
    BY <1>17 DEF StreamQueue, TaskStarts, busVars, FromStream
  <2>2. server' = server /\ SamePhases
    BY <1>0, <1>17, Names DEF LocalOK, Ended, FlowStates, SamePhases, Unasked, TaskStarts, FromFlow
  <2>3. Confirming' => Confirming /\ fresh' = fresh
    BY <1>17 DEF Confirming, TaskStarts, FromFlow
  <2> QED
    BY <2>1, <2>2, <2>3, CodeKept
<1>18. ASSUME NEW f \in CodeFlows, CloneDevice(f) PROVE CodeInv'
  <2>1. StreamQueue
    BY <1>18 DEF StreamQueue, CloneDevice, busVars, FromStream
  <2>2. server' = server /\ SamePhases
    BY <1>0, <1>18, Names DEF LocalOK, Ended, FlowStates, SamePhases, Unasked, CloneDevice, FromFlow, busVars
  <2>3. Confirming' => Confirming /\ fresh' = fresh
    BY <1>18 DEF Confirming, CloneDevice, FromFlow, busVars
  <2> QED
    BY <2>1, <2>2, <2>3, CodeKept
<1>19. ASSUME NEW f \in Flows, FinishFlow(f) PROVE CodeInv'
  <2>1. StreamQueue
    BY <1>0, <1>19, LeaveFacts DEF StreamQueue, FinishFlow, Ended
  <2>2. server' = server /\ SamePhases
    BY <1>0, <1>19, Names DEF LocalOK, Ended, FlowStates, SamePhases, Unasked, FinishFlow, FromFlow, Leave
  <2>3. Confirming' => Confirming /\ fresh' = fresh
    BY <1>19 DEF Confirming, FinishFlow, FromFlow
  <2> QED
    BY <2>1, <2>2, <2>3, CodeKept
<1>20. ASSUME NEW f \in Flows, ReadEvent(f) PROVE CodeInv'
  <2>1. StreamQueue
    <3>1. ASSUME Leave(f, "failed") PROVE StreamQueue
      BY <1>0, <3>1, LeaveFacts DEF StreamQueue, Ended
    <3>2. ASSUME Next1(f) PROVE StreamQueue
      BY <1>0, <1>20, <3>2, PopFacts, Names DEF StreamQueue
    <3> QED
      BY <1>20, <3>1, <3>2 DEF ReadEvent
  <2>2. server' = server /\ SamePhases
    BY <1>0, <1>20, Names DEF LocalOK, Ended, FlowStates, SamePhases, Unasked, ReadEvent, FromFlow, Leave
  <2>3. Confirming' => Confirming /\ fresh' = fresh
    BY <1>20 DEF Confirming, ReadEvent, FromFlow
  <2> QED
    BY <2>1, <2>2, <2>3, CodeKept
<1>21. ASSUME NEW f \in Flows, Respond(f) PROVE CodeInv'
  <2>1. StreamQueue
    <3>1. ASSUME Leave(f, "failed") PROVE StreamQueue
      BY <1>0, <3>1, LeaveFacts DEF StreamQueue, Ended
    <3>2. ASSUME UNCHANGED busVars PROVE StreamQueue
      BY <3>2 DEF StreamQueue, busVars
    <3> QED
      BY <1>21, <3>1, <3>2 DEF Respond
  <2>2. server' = server /\ SamePhases
    BY <1>0, <1>21, Names DEF LocalOK, Ended, FlowStates, SamePhases, Unasked, Respond, FromFlow, Leave, Link, busVars
  <2>3. Confirming' => Confirming /\ fresh' = fresh
    BY <1>21 DEF Confirming, Respond, FromFlow, busVars
  <2> QED
    BY <2>1, <2>2, <2>3, CodeKept
<1>22. ASSUME NEW f \in Flows, Save(f) PROVE CodeInv'
  <2>1. StreamQueue
    <3>1. ASSUME Leave(f, "failed") PROVE StreamQueue
      BY <1>0, <3>1, LeaveFacts DEF StreamQueue, Ended
    <3>2. ASSUME UNCHANGED busVars PROVE StreamQueue
      BY <3>2 DEF StreamQueue, busVars
    <3> QED
      BY <1>22, <3>1, <3>2 DEF Save
  <2>2. server' = server /\ SamePhases
    BY <1>0, <1>22, Names DEF LocalOK, Ended, FlowStates, SamePhases, Unasked, Save, FromFlow, Leave, busVars
  <2>3. Confirming' => Confirming /\ fresh' = fresh
    BY <1>22 DEF Confirming, Save, FromFlow, busVars
  <2> QED
    BY <2>1, <2>2, <2>3, CodeKept
<1>23. ASSUME NEW f \in QrFlows, UserScans(f) PROVE CodeInv'
  <2>1. StreamQueue
    <3>1. Event("pairSuccess", dev[f].adv) \in BusEvents /\ Event("pairSuccess", dev[f].adv).kind # "confirm"
      BY <1>0, DeviceFacts, EventFacts, Names DEF LocalOK, Kinds
    <3> QED
      BY <1>0, <1>23, <3>1, PublishFacts DEF StreamQueue, UserScans
  <2>2. /\ server' = [server EXCEPT ![f] = "success"] /\ flow[f] = "rotating"
        /\ \A g \in Flows : server[g] # "success"
        /\ flow' = flow /\ fresh' = fresh /\ streamPc' = streamPc
    BY <1>23 DEF UserScans, Unlinked, FromServer, streamVars, flowVars
  <2>3. \A g \in CodeFlows : flow[g] = "idle"
    BY <2>2, Names DEF ShapeInv, RoleInv
  <2>4. Confirms = {} /\ ~Confirming
    <3>1. \A g \in CodeFlows : ~Asked(g)
      BY <2>3 DEF Asked, Unasked
    <3>2. ~Mixed
      BY <2>3 DEF Mixed
    <3>3. \A e \in Confirms : e.arg \in CodeFlows \cup {Junk} /\ e = Confirm(e.arg)
      BY <1>0, ConfirmFacts, EventsElems, ElemsType DEF ShapeInv, RoleInv, Confirms, QueueOK
    <3>4. Confirms = {}
      BY <3>1, <3>2, <3>3 DEF CodeInv
    <3>5. ~Confirming
      BY <3>1, <3>2 DEF CodeInv
    <3> QED
      BY <3>4, <3>5
  <2>5. /\ Confirms' \subseteq Confirms /\ Distinct(queue'[Stream])
        /\ \A g \in CodeFlows : server[g] = "confirmed" => IsLast(queue'[Stream], g)
    BY <2>1, StreamQueueFacts
  <2>6. \A g \in Flows : server'[g] = IF g = f THEN "success" ELSE server[g]
    BY <1>0, <2>2 DEF LocalOK
  <2>7. Confirms' = {} /\ ~Confirming'
    BY <2>2, <2>4, <2>5 DEF Confirming
  <2>8. /\ \A g, h \in Flows : server'[g] \in Wanted /\ server'[h] \in Wanted => g = h
        /\ \A g, h \in Flows : server'[g] = "success" /\ server'[h] = "success" => g = h
    BY <2>2, <2>6 DEF CodeInv, Wanted
  <2>9. \A g \in CodeFlows : server'[g] = "confirmed" => IsLast(queue'[Stream], g)
    BY <2>5, <2>6, Names
  <2>10. PhaseInv'
    BY <2>2, <2>6, PhaseFacts, Names DEF CodeInv, SamePhases
  <2> QED
    BY <2>5, <2>7, <2>8, <2>9, <2>10 DEF CodeInv
<1>24. ASSUME NEW f \in CodeFlows, UserConfirms(f) PROVE CodeInv'
  <2>1. /\ server' = [server EXCEPT ![f] = "confirmed"] /\ server[f] = "hello" /\ Asked(f)
        /\ \A g \in Flows : server[g] # "success"
        /\ flow' = flow /\ fresh' = fresh /\ streamPc' = streamPc /\ f \in Flows
    BY <1>24, Names DEF UserConfirms, Unlinked, FromServer, streamVars, flowVars, Asked
  <2>2. Confirm(f) \in BusEvents /\ Confirm(f) = Event("confirm", f) /\ Confirm(f).arg = f
    BY ConfirmFacts DEF Confirm
  <2>3. /\ queue'[Stream] = Append(queue[Stream], Confirm(f)) /\ queue[Stream] \in Seq(BusEvents)
        /\ Events(Stream)' \subseteq Events(Stream) \cup {Confirm(f)}
    BY <1>0, <1>24, <2>2, PublishFacts DEF UserConfirms, QueueOK
  <2>4. \A g \in Flows : server'[g] = IF g = f THEN "confirmed" ELSE server[g]
    BY <1>0, <2>1 DEF LocalOK
  <2>5. \A g \in Flows : server[g] \in Wanted => g = f
    BY <2>1 DEF CodeInv, Wanted
  <2>6. Confirm(f) \notin Elems(queue[Stream])
    BY <2>1, <2>2, EventsElems, ConfirmFacts DEF CodeInv, Confirms
  <2>7. Distinct(queue'[Stream]) /\ IsLast(queue'[Stream], f)
    BY <2>2, <2>3, <2>6, OrderPush DEF CodeInv
  <2>8. Confirms' \subseteq Confirms \cup {Confirm(f)} /\ (Confirming' <=> Confirming)
    BY <2>1, <2>3 DEF Confirms, Confirming
  <2>9. (\A g \in CodeFlows : Asked(g)' <=> Asked(g)) /\ (Mixed => Mixed')
    BY <2>1 DEF Asked, Mixed
  <2>10. /\ \A g \in CodeFlows : Confirm(g) = Confirm(f) => g = f
         /\ Confirm(Junk) # Confirm(f)
    BY ConfirmFacts, Names
  <2>11. /\ \A g \in CodeFlows : Confirm(g) \in Confirms' => Asked(g)' /\ server'[g] \in {"confirmed", "none"}
         /\ Confirm(Junk) \in Confirms' => Mixed'
    BY <2>1, <2>4, <2>8, <2>9, <2>10, Names DEF CodeInv
  <2>12. Confirming' => \A g \in CodeFlows : fresh'.adv = g =>
            Asked(g)' /\ server'[g] \in {"confirmed", "none"} /\ Confirm(g) \notin Confirms'
    <3> SUFFICES ASSUME Confirming, NEW g \in CodeFlows, fresh.adv = g
                 PROVE  Asked(g)' /\ server'[g] \in {"confirmed", "none"} /\ Confirm(g) \notin Confirms'
      BY <2>1, <2>8
    <3>1. Asked(g) /\ server[g] \in {"confirmed", "none"} /\ Confirm(g) \notin Confirms
      BY DEF CodeInv
    <3>2. g # f /\ g \in Flows
      BY <2>1, <3>1, Names
    <3> QED
      BY <2>4, <2>8, <2>9, <2>10, <3>1, <3>2
  <2>13. Confirming' => fresh'.adv \in CodeFlows \/ (fresh'.adv = Junk /\ Mixed')
    BY <2>1, <2>8, <2>9 DEF CodeInv
  <2>14. \A g \in Flows : server'[g] \notin {"finish", "success"}
    BY <2>1, <2>4, <2>5 DEF Wanted
  <2>15. \A g, h \in Flows : server'[g] \in Wanted /\ server'[h] \in Wanted => g = h
    BY <2>4, <2>5
  <2>16. \A g \in CodeFlows : server'[g] = "confirmed" => IsLast(queue'[Stream], g)
    BY <2>4, <2>5, <2>7, Names DEF Wanted
  <2>17. PhaseInv'
    <3>1. \A g \in CodeFlows : Rival(g) => Rival(g)'
      BY <2>1 DEF Rival
    <3>2. flow[f] \notin Called \cup {"storing"}
      BY <2>1 DEF Asked, Unasked, Called
    <3> QED
      BY <2>1, <2>4, <3>1, <3>2, Names DEF CodeInv, PhaseInv
  <2>18. \A g : Confirm(g)' = Confirm(g)
    BY DEF Confirm
  <2> QED
    BY <2>7, <2>11, <2>12, <2>13, <2>14, <2>15, <2>16, <2>17, <2>18 DEF CodeInv
<1>25. ASSUME NEW f \in CodeFlows, SendPairSuccess(f) PROVE CodeInv'
  <2>1. StreamQueue
    <3>1. Event("pairSuccess", f) \in BusEvents /\ Event("pairSuccess", f).kind # "confirm"
      BY EventFacts, Names DEF Kinds
    <3> QED
      BY <1>0, <1>25, <3>1, PublishFacts DEF StreamQueue, SendPairSuccess
  <2>2. /\ server' = [server EXCEPT ![f] = "success"] /\ server[f] = "finish"
        /\ \A g \in Flows : server[g] # "success"
        /\ flow' = flow /\ fresh' = fresh /\ streamPc' = streamPc /\ f \in Flows
    BY <1>25, Names DEF SendPairSuccess, Unlinked, FromServer, streamVars, flowVars
  <2>4. Confirms = {} /\ ~Confirming
    BY <2>2 DEF CodeInv
  <2>5. /\ Confirms' \subseteq Confirms /\ Distinct(queue'[Stream])
        /\ \A g \in CodeFlows : server[g] = "confirmed" => IsLast(queue'[Stream], g)
    BY <2>1, StreamQueueFacts
  <2>6. \A g \in Flows : server'[g] = IF g = f THEN "success" ELSE server[g]
    BY <1>0, <2>2 DEF LocalOK
  <2>7. Confirms' = {} /\ ~Confirming'
    BY <2>2, <2>4, <2>5 DEF Confirming
  <2>8. /\ \A g, h \in Flows : server'[g] \in Wanted /\ server'[h] \in Wanted => g = h
        /\ \A g, h \in Flows : server'[g] = "success" /\ server'[h] = "success" => g = h
    BY <2>2, <2>6 DEF CodeInv, Wanted
  <2>9. \A g \in CodeFlows : server'[g] = "confirmed" => IsLast(queue'[Stream], g)
    BY <2>5, <2>6, Names
  <2>10. PhaseInv'
    <3>1. \A g \in CodeFlows : Rival(g) => Rival(g)'
      BY <2>2 DEF Rival
    <3>2. flow[f] \notin Called \cup {"storing"}
      BY <2>2 DEF CodeInv, PhaseInv
    <3> QED
      BY <2>2, <2>6, <3>1, <3>2, Names DEF CodeInv, PhaseInv
  <2>11. \A g : Confirm(g)' = Confirm(g)
    BY DEF Confirm
  <2> QED
    BY <2>5, <2>7, <2>8, <2>9, <2>10, <2>11 DEF CodeInv
<1>26. CASE SendFinish
  <2>1. CASE server' = server
    <3>1. StreamQueue /\ flow' = flow /\ ~Confirming'
      BY <1>26 DEF SendFinish, StreamQueue, FromStream, flowVars, Confirming
    <3>2. SamePhases
      BY <3>1 DEF SamePhases
    <3> QED
      BY <2>1, <3>1, <3>2, CodeKept
  <2>2. CASE server' # server
    <3> DEFINE f == fresh.adv
               q == queue[Stream]
    <3>1. /\ f \in CodeFlows /\ f \in Flows /\ server[f] = "confirmed"
          /\ server' = [server EXCEPT ![f] = "finish"]
          /\ Confirming /\ ~Confirming' /\ Confirm(f) \notin Confirms
          /\ queue' = queue /\ Confirms' = Confirms /\ flow' = flow
      <4>1. /\ f \in CodeFlows /\ server[f] = "confirmed" /\ server' = [server EXCEPT ![f] = "finish"]
            /\ queue' = queue /\ flow' = flow
        BY <1>26, <2>2 DEF SendFinish, Finish, FromStream, flowVars
      <4>2. Confirming /\ ~Confirming'
        BY <1>26 DEF SendFinish, Confirming
      <4>3. Confirm(f) \notin Confirms
        BY <4>1, <4>2 DEF CodeInv
      <4>4. Confirms' = Confirms
        BY <4>1, QueueSame DEF Confirms
      <4> QED
        BY <4>1, <4>2, <4>3, <4>4, Names
    <3>2. \A g \in Flows : server'[g] = IF g = f THEN "finish" ELSE server[g]
      BY <1>0, <3>1 DEF LocalOK
    <3>3. \A g \in Flows : server[g] \in Wanted => g = f
      BY <3>1 DEF CodeInv, Wanted
    <3>4. IsLast(q, f) /\ Distinct(q) /\ q \in Seq(BusEvents) /\ Len(q) \in Nat
      BY <1>0, <3>1, LenProperties DEF CodeInv, QueueOK
    <3>5. Confirms = {}
      <4>1. SUFFICES ASSUME NEW e \in Confirms PROVE FALSE
        OBVIOUS
      <4>2. e \in Elems(q) /\ e.kind = "confirm" /\ Confirms \subseteq Elems(q)
        BY <4>1, EventsElems DEF Confirms
      <4>3. PICK i \in 1..Len(q) : q[i] = e
        BY <4>2 DEF Elems
      <4>4. e = Confirm(e.arg)
        BY <3>4, <4>2, ElemsType, ConfirmFacts
      <4>5. e.arg # f
        BY <3>1, <4>1, <4>4
      <4>6. PICK j \in (i + 1)..Len(q) : q[j] = Confirm(f)
        BY <3>4, <4>2, <4>3, <4>5 DEF IsLast
      <4>7. j \in 1..Len(q)
        BY <3>4, <4>3, <4>6
      <4>8. Confirm(f) \in Events(Stream) /\ Confirm(f).kind = "confirm"
        BY <3>1, <4>6, <4>7, EventsElems, ConfirmFacts DEF Elems
      <4> QED
        BY <3>1, <4>8 DEF Confirms
    <3>6. /\ \A g, h \in Flows : server'[g] \in Wanted /\ server'[h] \in Wanted => g = h
          /\ \A g, h \in Flows : server'[g] = "success" /\ server'[h] = "success" => g = h
      BY <3>2, <3>3 DEF CodeInv, Wanted
    <3>7. \A g \in CodeFlows : server'[g] = "confirmed" => IsLast(queue'[Stream], g)
      BY <3>1, <3>2, Names DEF CodeInv
    <3>8. PhaseInv'
      <4>1. \A g \in CodeFlows : Rival(g) => Rival(g)'
        BY <3>1 DEF Rival
      <4>2. flow[f] \notin Called \cup {"storing"}
        BY <3>1 DEF CodeInv, PhaseInv
      <4>3. f \in CodeFlows /\ flow' = flow
        BY <3>1
      <4> HIDE DEF f
      <4> QED
        BY <3>2, <4>1, <4>2, <4>3, Names DEF CodeInv, PhaseInv
    <3>9. Confirms' = {} /\ ~Confirming' /\ Distinct(queue'[Stream])
      BY <3>1, <3>4, <3>5
    <3>10. \A g : Confirm(g)' = Confirm(g)
      BY DEF Confirm
    <3> QED
      BY <3>6, <3>7, <3>8, <3>9, <3>10 DEF CodeInv
  <2> QED
    BY <2>1, <2>2
<1>27. ASSUME NEW f \in CodeFlows, RequestPairCode(f) PROVE CodeInv'
  <2>1. /\ server' = [server EXCEPT ![f] = "sent"] /\ flow' = [flow EXCEPT ![f] = "hello"]
        /\ flow[f] = "idle" /\ server[f] = "none"
        /\ queue' = queue /\ streamPc' = streamPc /\ fresh' = fresh /\ f \in Flows
    BY <1>27, Names DEF RequestPairCode, FromFlow, busVars, ShapeInv, RoleInv
  <2>2. \A g \in Flows : /\ server'[g] = IF g = f THEN "sent" ELSE server[g]
                         /\ flow'[g] = IF g = f THEN "hello" ELSE flow[g]
    BY <1>0, <2>1 DEF LocalOK
  <2>3. \A g \in CodeFlows : (Asked(g) <=> Asked(g)') /\ (Asked(g) => g # f)
    BY <2>1, <2>2, Names DEF Asked, Unasked
  <2>4. (\A g \in CodeFlows : Rival(g) => Rival(g)') /\ (Mixed => Mixed')
    <3>1. \A g \in CodeFlows : flow[g] # "idle" => flow'[g] # "idle"
      BY <2>2, Names
    <3> QED
      BY <3>1 DEF Rival, Mixed
  <2>5. PhaseInv'
    <3>1. flow'[f] \in Called /\ "hello" \in Called /\ "hello" # "storing"
      BY <2>2, <2>1 DEF Called
    <3> QED
      BY <2>1, <2>2, <2>4, <3>1, Names DEF CodeInv, PhaseInv
  <2>6. Confirms' = Confirms /\ (Confirming' <=> Confirming)
    BY <2>1, QueueSame DEF Confirms, Confirming
  <2>7. /\ \A g \in CodeFlows : Confirm(g) \in Confirms' => Asked(g)' /\ server'[g] \in {"confirmed", "none"}
        /\ Confirm(Junk) \in Confirms' => Mixed'
    BY <2>2, <2>3, <2>4, <2>6, Names DEF CodeInv
  <2>8. /\ Confirming' => \A g \in CodeFlows : fresh'.adv = g =>
              Asked(g)' /\ server'[g] \in {"confirmed", "none"} /\ Confirm(g) \notin Confirms'
        /\ Confirming' => fresh'.adv \in CodeFlows \/ (fresh'.adv = Junk /\ Mixed')
    BY <2>1, <2>2, <2>3, <2>4, <2>6, Names DEF CodeInv
  <2>9. /\ \A g, h \in Flows : server'[g] \in Wanted /\ server'[h] \in Wanted => g = h
        /\ \A g, h \in Flows : server'[g] = "success" /\ server'[h] = "success" => g = h
        /\ \A g \in Flows : server'[g] \in {"finish", "success"} => Confirms' = {} /\ ~Confirming'
        /\ \A g \in CodeFlows : server'[g] = "confirmed" => IsLast(queue'[Stream], g)
    BY <2>1, <2>2, <2>6, Names DEF CodeInv, Wanted
  <2>10. \A g : Confirm(g)' = Confirm(g)
    BY DEF Confirm
  <2> QED
    BY <2>1, <2>5, <2>7, <2>8, <2>9, <2>10 DEF CodeInv
<1>28. CASE HandleConfirm
  <2> DEFINE e == Head(queue[Stream])
  <2>1. /\ queue[Stream] # << >> /\ queue'[Stream] = Tail(queue[Stream])
        /\ e \in Events(Stream) /\ e \in BusEvents /\ e.kind = "confirm" /\ e \in Confirms
        /\ server' = server /\ flow' = flow /\ ~Confirming
    BY <1>0, <1>28, PopFacts DEF HandleConfirm, FromStream, flowVars, Confirms, Confirming
  <2>2. StreamQueue
    BY <2>1 DEF StreamQueue
  <2>3. CASE ~Confirming'
    <3>1. SamePhases
      BY <2>1 DEF SamePhases
    <3> QED
      BY <2>1, <2>2, <2>3, <3>1, CodeKept
  <2>4. CASE Confirming'
    <3>1. codeState \in CodeFlows /\ fresh' = [memory EXCEPT !.adv = Unwrapped(codeState, e.arg)]
      BY <1>28, <2>1, <2>4 DEF HandleConfirm, Confirming
    <3>2. fresh'.adv = Unwrapped(codeState, e.arg) /\ Unwrapped(codeState, e.arg) \in Advs
      <4>1. Unwrapped(codeState, e.arg) \in Advs
        BY <3>1, Names DEF Unwrapped
      <4> QED
        BY <1>0, <3>1, <4>1, DeviceFacts DEF LocalOK
    <3>3. e = Confirm(e.arg) /\ e.arg \in CodeFlows \cup {Junk}
      BY <2>1, ConfirmFacts DEF ShapeInv, RoleInv
    <3>4. queue[Stream] \in Seq(BusEvents) /\ Distinct(queue[Stream])
      BY <1>0 DEF QueueOK, CodeInv
    <3>5. e.arg # Junk => e \notin Elems(queue'[Stream])
      BY <2>1, <3>4, OrderPop
    <3>6. Asked(codeState)
      BY <3>1 DEF SecretInv
    <3>7. \A f \in Flows : server'[f] \notin {"finish", "success"}
      BY <2>1 DEF CodeInv
    <3>8. /\ Confirms' \subseteq Confirms /\ Distinct(queue'[Stream])
          /\ \A f \in CodeFlows : server[f] = "confirmed" => IsLast(queue'[Stream], f)
      BY <2>2, StreamQueueFacts
    <3> HIDE DEF e
    <3>9. /\ \A f \in CodeFlows : Asked(f)' <=> Asked(f)
          /\ Mixed' <=> Mixed
      BY <2>1 DEF Asked, Mixed
    <3>10. \A f \in CodeFlows : fresh'.adv = f =>
              Asked(f)' /\ server'[f] \in {"confirmed", "none"} /\ Confirm(f) \notin Confirms'
      <4> SUFFICES ASSUME NEW f \in CodeFlows, fresh'.adv = f
                   PROVE  Asked(f)' /\ server'[f] \in {"confirmed", "none"} /\ Confirm(f) \notin Confirms'
        OBVIOUS
      <4>1. e.arg = f /\ e = Confirm(f)
        BY <3>2, <3>3, Names DEF Unwrapped
      <4>2. Confirm(f) \notin Confirms'
        BY <3>5, <4>1, EventsElems, Names DEF Confirms
      <4> QED
        BY <2>1, <3>9, <4>1, <4>2 DEF CodeInv
    <3>11. fresh'.adv \in CodeFlows \/ (fresh'.adv = Junk /\ Mixed')
      <4>1. CASE e.arg = codeState
        BY <3>1, <3>2, <4>1 DEF Unwrapped
      <4>2. CASE e.arg # codeState /\ e.arg = Junk
        BY <2>1, <3>2, <3>3, <3>9, <4>2 DEF CodeInv, Unwrapped
      <4>3. CASE e.arg # codeState /\ e.arg \in CodeFlows
        <5>1. Asked(e.arg) /\ flow[e.arg] # "idle" /\ flow[codeState] # "idle"
          BY <2>1, <3>1, <3>3, <3>6, <4>3 DEF CodeInv, Asked, Unasked
        <5> QED
          BY <3>1, <3>2, <3>9, <4>3, <5>1 DEF Unwrapped, Mixed
      <4> QED
        BY <3>3, <4>1, <4>2, <4>3
    <3>12. /\ \A f \in CodeFlows : Confirm(f) \in Confirms' => Asked(f)' /\ server'[f] \in {"confirmed", "none"}
           /\ Confirm(Junk) \in Confirms' => Mixed'
      BY <2>1, <3>8, <3>9 DEF CodeInv
    <3>13. /\ \A g, h \in Flows : server'[g] \in Wanted /\ server'[h] \in Wanted => g = h
           /\ \A g, h \in Flows : server'[g] = "success" /\ server'[h] = "success" => g = h
           /\ \A f \in CodeFlows : server'[f] = "confirmed" => IsLast(queue'[Stream], f)
      BY <2>1, <3>8 DEF CodeInv
    <3>14. PhaseInv'
      <4>1. SamePhases /\ \A f \in CodeFlows : server'[f] = server[f]
        BY <2>1 DEF SamePhases
      <4> QED
        BY <4>1, PhaseFacts DEF CodeInv
    <3>15. \A f : Confirm(f)' = Confirm(f)
      BY DEF Confirm
    <3> QED
      BY <3>7, <3>8, <3>10, <3>11, <3>12, <3>13, <3>14, <3>15 DEF CodeInv
  <2> QED
    BY <2>3, <2>4
<1>29. ASSUME NEW f \in CodeFlows, UserMistypes(f) PROVE CodeInv'
  <2>1. /\ server' = server /\ flow' = flow /\ fresh' = fresh /\ streamPc' = streamPc
        /\ server[f] = "hello" /\ f \in Flows
    BY <1>29, Names DEF UserMistypes, FromServer, streamVars, flowVars
  <2>2. Confirm(Junk) \in BusEvents /\ Confirm(Junk) = Event("confirm", Junk) /\ Confirm(Junk).arg = Junk
    BY ConfirmFacts DEF Confirm
  <2>3. /\ queue'[Stream] = Append(queue[Stream], Confirm(Junk)) /\ queue[Stream] \in Seq(BusEvents)
        /\ Events(Stream)' \subseteq Events(Stream) \cup {Confirm(Junk)}
    BY <1>0, <1>29, <2>2, PublishFacts DEF UserMistypes, QueueOK
  <2>4. \A g \in Flows : server[g] \in Wanted => g = f
    BY <2>1 DEF CodeInv, Wanted
  <2>5. \A g \in Flows : server[g] \notin {"confirmed", "finish"}
    BY <2>1, <2>4 DEF Wanted
  <2>6. \A g \in Flows : server[g] # "success"
    BY <1>29 DEF UserMistypes, Unlinked
  <2>7. Distinct(queue'[Stream])
    BY <2>2, <2>3, OrderPush DEF CodeInv
  <2>8. Confirms' \subseteq Confirms \cup {Confirm(Junk)} /\ (Confirming' <=> Confirming)
    BY <2>1, <2>3 DEF Confirms, Confirming
  <2>9. (\A g \in CodeFlows : Asked(g)' <=> Asked(g)) /\ Mixed'
    <3>1. PICK g \in CodeFlows \ {f} : flow[g] \notin Unasked
      BY <1>29 DEF UserMistypes
    <3>2. flow'[g] # "idle" /\ flow'[f] # "idle"
      BY <2>1, <3>1, Names DEF Unasked, ShapeInv, RoleInv
    <3>3. Mixed'
      BY <3>1, <3>2 DEF Mixed
    <3> QED
      BY <2>1, <3>3 DEF Asked
  <2>10. \A g \in CodeFlows : Confirm(g) # Confirm(Junk)
    BY ConfirmFacts, Names
  <2>11. \A g \in CodeFlows : Confirm(g) \in Confirms' => Asked(g)' /\ server'[g] \in {"confirmed", "none"}
    BY <2>1, <2>8, <2>9, <2>10 DEF CodeInv
  <2>12. Confirming' => \A g \in CodeFlows : fresh'.adv = g =>
            Asked(g)' /\ server'[g] \in {"confirmed", "none"} /\ Confirm(g) \notin Confirms'
    BY <2>1, <2>8, <2>9, <2>10 DEF CodeInv
  <2>13. Confirming' => fresh'.adv \in CodeFlows \/ (fresh'.adv = Junk /\ Mixed')
    BY <2>1, <2>8, <2>9 DEF CodeInv
  <2>14. PhaseInv'
    <3>1. SamePhases /\ \A g \in CodeFlows : server'[g] = server[g]
      BY <2>1 DEF SamePhases
    <3> QED
      BY <3>1, PhaseFacts DEF CodeInv
  <2>15. /\ \A g, h \in Flows : server'[g] \in Wanted /\ server'[h] \in Wanted => g = h
         /\ \A g \in Flows : server'[g] \notin {"finish", "success", "confirmed"}
    BY <2>1, <2>5, <2>6 DEF CodeInv
  <2>16. \A g : Confirm(g)' = Confirm(g)
    BY DEF Confirm
  <2> QED
    BY <2>7, <2>9, <2>11, <2>12, <2>13, <2>14, <2>15, <2>16, Names DEF CodeInv
<1>30. ASSUME NEW f \in CodeFlows, HelloArrives(f) PROVE CodeInv'
  <2>1. /\ server[f] = "sent" /\ f \in Flows /\ queue' = queue /\ streamPc' = streamPc /\ fresh' = fresh
        /\ server' = [g \in Flows |-> IF g = f THEN "hello"
                                       ELSE IF server[g] \in Wanted THEN "none" ELSE server[g]]
        /\ flow' = flow \/ (flow[f] = "hello" /\ flow' = [flow EXCEPT ![f] = "storing"])
    BY <1>30, Names DEF HelloArrives, busVars, streamVars
  <2>2. \A g \in Flows : server'[g] = IF g = f THEN "hello"
                                      ELSE IF server[g] \in Wanted THEN "none" ELSE server[g]
    BY <2>1
  <2>3. \A g \in Flows : flow'[g] = flow[g] \/ (g = f /\ flow[f] = "hello" /\ flow'[f] = "storing")
    BY <1>0, <2>1 DEF LocalOK
  <2>4. flow[f] \in Called /\ flow[f] # "idle" /\ ~Asked(f) /\ "storing" \notin Called
    BY <2>1 DEF CodeInv, PhaseInv, ShapeInv, RoleInv, Called, Asked, Unasked
  <2>5. /\ \A g \in CodeFlows : Asked(g)' <=> Asked(g)
        /\ \A g \in CodeFlows : flow'[g] # "idle" <=> flow[g] # "idle"
    BY <2>3, Names DEF Asked, Unasked
  <2>6. (\A g \in CodeFlows : Rival(g) => Rival(g)') /\ (Mixed => Mixed')
    BY <2>5 DEF Rival, Mixed
  <2>7. \A g \in CodeFlows \ {f} : Rival(g)'
    BY <2>4, <2>5 DEF Rival
  <2>8. PhaseInv'
    <3> SUFFICES ASSUME NEW g \in CodeFlows
                 PROVE  /\ flow'[g] \in Called => server'[g] \in {"none", "sent", "hello"}
                        /\ flow'[g] = "storing" => server'[g] \in {"none", "hello"}
                        /\ flow'[g] \notin Called => server'[g] # "sent" /\ (server'[g] = "none" => Rival(g)')
      BY DEF PhaseInv
    <3>1. CASE g = f
      BY <2>1, <2>2, <3>1
    <3>2. CASE g # f
      <4>1. flow'[g] = flow[g] /\ g \in Flows
        BY <2>3, <3>2, Names
      <4>2. server'[g] \in {"none", server[g]}
        BY <2>2, <3>2, <4>1
      <4> QED
        BY <2>7, <3>2, <4>1, <4>2 DEF CodeInv, PhaseInv
    <3> QED
      BY <3>1, <3>2
  <2>9. Confirms' = Confirms /\ (Confirming' <=> Confirming)
    BY <2>1, QueueSame DEF Confirms, Confirming
  <2>10. \A g \in CodeFlows : Asked(g) /\ server[g] \in {"confirmed", "none"}
            => Asked(g)' /\ server'[g] \in {"confirmed", "none"}
    BY <2>2, <2>4, <2>5, Names
  <2>11. /\ \A g \in CodeFlows : Confirm(g) \in Confirms' => Asked(g)' /\ server'[g] \in {"confirmed", "none"}
         /\ Confirm(Junk) \in Confirms' => Mixed'
    BY <2>6, <2>9, <2>10 DEF CodeInv
  <2>12. /\ Confirming' => \A g \in CodeFlows : fresh'.adv = g =>
              Asked(g)' /\ server'[g] \in {"confirmed", "none"} /\ Confirm(g) \notin Confirms'
         /\ Confirming' => fresh'.adv \in CodeFlows \/ (fresh'.adv = Junk /\ Mixed')
    BY <2>1, <2>6, <2>9, <2>10 DEF CodeInv
  <2>13. \A g \in Flows : g # f => server'[g] \notin Wanted
    BY <2>2 DEF Wanted
  <2>14. /\ \A g, h \in Flows : server'[g] \in Wanted /\ server'[h] \in Wanted => g = h
         /\ \A g \in Flows : server'[g] # "confirmed" /\ server'[g] # "finish"
         /\ \A g \in Flows : server'[g] = "success" => server[g] = "success"
    BY <2>2, <2>13 DEF Wanted
  <2>15. \A g : Confirm(g)' = Confirm(g)
    BY DEF Confirm
  <2>16. Distinct(queue'[Stream])
    BY <2>1 DEF CodeInv
  <2>17. /\ \A g, h \in Flows : server'[g] = "success" /\ server'[h] = "success" => g = h
         /\ \A g \in Flows : server'[g] \in {"finish", "success"} => Confirms' = {} /\ ~Confirming'
    BY <2>9, <2>14 DEF CodeInv
  <2> QED
    BY <2>8, <2>11, <2>12, <2>14, <2>15, <2>16, <2>17, Names DEF CodeInv
<1>31. ASSUME NEW f \in CodeFlows, HelloFails(f) PROVE CodeInv'
  <2>1. /\ server' = server /\ flow[f] = "hello" /\ flow' = [flow EXCEPT ![f] = "refused"]
        /\ queue' = queue /\ streamPc' = streamPc /\ fresh' = fresh /\ f \in Flows
    BY <1>31, Names DEF HelloFails, FromFlow, busVars
  <2>2. \A g \in Flows : flow'[g] = IF g = f THEN "refused" ELSE flow[g]
    BY <1>0, <2>1 DEF LocalOK
  <2> QED
    BY <2>1, <2>2, MovedKeeps, QueueSame, Names DEF Unasked, Called
<1>32. ASSUME NEW f \in CodeFlows, StoreCode(f) PROVE CodeInv'
  <2>1. /\ server' = server /\ flow[f] = "storing" /\ flow' = [flow EXCEPT ![f] = "spawned"]
        /\ queue' = queue /\ streamPc' = streamPc /\ fresh' = fresh /\ f \in Flows
    BY <1>32, Names DEF StoreCode, FromFlow, busVars
  <2>2. \A g \in Flows : flow'[g] = IF g = f THEN "spawned" ELSE flow[g]
    BY <1>0, <2>1 DEF LocalOK
  <2> QED
    BY <2>1, <2>2, MovedKeeps, QueueSame, Names DEF Unasked, Called
<1> QED
  BY <1>1, <1>2, <1>3, <1>4, <1>5, <1>6, <1>7, <1>8, <1>9, <1>10, <1>11, <1>12, <1>13, <1>14,
     <1>15, <1>16,
     <1>17, <1>18, <1>19, <1>20, <1>21, <1>22, <1>23, <1>24, <1>25, <1>26, <1>27, <1>28, <1>29,
     <1>30, <1>31, <1>32, Names
  DEF Next, ServerNext, StreamNext, FlowNext

-----------------------------------------------------------------------------
(* The secrets: which copies of the device hold the secret of a request.   *)

LEMMA HeldFacts ==
    ASSUME LocalOK
    PROVE  /\ memory.adv \in Held /\ backend.adv \in Held
           /\ fresh # None => fresh.adv \in Held
           /\ \A f \in Flows : dev[f].adv \in Held
<1>1. memory # None /\ backend # None /\ \A f \in Flows : dev[f] # None
  BY DeviceFacts DEF LocalOK
<1> QED
  BY <1>1 DEF Held

LEMMA SecretKept ==
    ASSUME SecretInv, codeState' = codeState, Held' \subseteq Held, Mixed => Mixed',
           \A f \in CodeFlows : Asked(f) => Asked(f)',
           \A f \in CodeFlows : Asked(f) /\ server[f] \in {"none", "hello", "confirmed"}
                => server'[f] \in {"none", "hello", "confirmed"}
    PROVE  SecretInv'
  BY DEF SecretInv

LEMMA InitSecret == Init => SecretInv
<1> SUFFICES ASSUME Init PROVE SecretInv
  OBVIOUS
<1>1. \A x \in Held : x = Adv0
  BY DEF Init, Held
<1> QED
  BY <1>1, Names DEF Init, SecretInv, Held

LEMMA SecretStep == ShapeInv /\ CodeInv /\ SecretInv /\ Next => SecretInv'
<1> SUFFICES ASSUME ShapeInv, CodeInv, SecretInv, Next PROVE SecretInv'
  OBVIOUS
<1>0. LocalOK
  BY TypeSplit DEF ShapeInv
<1>1. CASE Connect
  <2>1. Held' = Held /\ codeState' = codeState
    BY <1>1 DEF Held, Connect, streamVars, flowVars
  <2>2. SamePhases
    BY <1>0, <1>1, Names DEF LocalOK, Ended, FlowStates, SamePhases, Unasked, Connect, streamVars, flowVars
  <2>3. \A g \in CodeFlows : server[g] \in {"none", "hello", "confirmed"}
            => server'[g] \in {"none", "hello", "confirmed"}
    BY <1>0, <1>1, Names DEF LocalOK, Connect, streamVars, flowVars
  <2> QED
    BY <2>1, <2>2, <2>3, PhaseFacts, SecretKept
<1>2. CASE Drop
  <2>1. Held' = Held /\ codeState' = codeState
    BY <1>2 DEF Held, Drop, serverVars, streamVars, flowVars
  <2>2. SamePhases
    BY <1>0, <1>2, Names DEF LocalOK, Ended, FlowStates, SamePhases, Unasked, Drop, serverVars, streamVars, flowVars
  <2>3. \A g \in CodeFlows : server[g] \in {"none", "hello", "confirmed"}
            => server'[g] \in {"none", "hello", "confirmed"}
    BY <1>0, <1>2, Names DEF LocalOK, Drop, serverVars, streamVars, flowVars
  <2> QED
    BY <2>1, <2>2, <2>3, PhaseFacts, SecretKept
<1>3. CASE ForcedDrop
  <2>1. Held' = Held /\ codeState' = codeState
    BY <1>3 DEF Held, ForcedDrop, streamVars, flowVars
  <2>2. SamePhases
    BY <1>0, <1>3, Names DEF LocalOK, Ended, FlowStates, SamePhases, Unasked, ForcedDrop, streamVars, flowVars
  <2>3. \A g \in CodeFlows : server[g] \in {"none", "hello", "confirmed"}
            => server'[g] \in {"none", "hello", "confirmed"}
    BY <1>0, <1>3, Names DEF LocalOK, ForcedDrop, streamVars, flowVars
  <2> QED
    BY <2>1, <2>2, <2>3, PhaseFacts, SecretKept
<1>4. CASE SendPairDevice
  <2>1. Held' = Held /\ codeState' = codeState
    BY <1>4 DEF Held, SendPairDevice, FromServer, streamVars, flowVars
  <2>2. SamePhases
    BY <1>0, <1>4, Names DEF LocalOK, Ended, FlowStates, SamePhases, Unasked, SendPairDevice, FromServer, streamVars, flowVars
  <2>3. \A g \in CodeFlows : server[g] \in {"none", "hello", "confirmed"}
            => server'[g] \in {"none", "hello", "confirmed"}
    BY <1>0, <1>4, Names DEF LocalOK, SendPairDevice, FromServer, streamVars, flowVars
  <2> QED
    BY <2>1, <2>2, <2>3, PhaseFacts, SecretKept
<1>5. CASE SendStreamError
  <2>1. Held' = Held /\ codeState' = codeState
    BY <1>5 DEF Held, SendStreamError, FromServer, streamVars, flowVars
  <2>2. SamePhases
    BY <1>0, <1>5, Names DEF LocalOK, Ended, FlowStates, SamePhases, Unasked, SendStreamError, FromServer, streamVars, flowVars
  <2>3. \A g \in CodeFlows : server[g] \in {"none", "hello", "confirmed"}
            => server'[g] \in {"none", "hello", "confirmed"}
    BY <1>0, <1>5, Names DEF LocalOK, SendStreamError, FromServer, streamVars, flowVars
  <2> QED
    BY <2>1, <2>2, <2>3, PhaseFacts, SecretKept
<1>6. ASSUME NEW f \in QrFlows, UserScans(f) PROVE SecretInv'
  <2>1. Held' = Held /\ codeState' = codeState
    BY <1>6 DEF Held, UserScans, FromServer, streamVars, flowVars
  <2>2. SamePhases
    BY <1>0, <1>6, Names DEF LocalOK, Ended, FlowStates, SamePhases, Unasked, UserScans, FromServer, streamVars, flowVars
  <2>3. \A g \in CodeFlows : server[g] \in {"none", "hello", "confirmed"}
            => server'[g] \in {"none", "hello", "confirmed"}
    BY <1>0, <1>6, Names DEF LocalOK, UserScans, FromServer, streamVars, flowVars
  <2> QED
    BY <2>1, <2>2, <2>3, PhaseFacts, SecretKept
<1>7. ASSUME NEW f \in CodeFlows, UserConfirms(f) PROVE SecretInv'
  <2>1. Held' = Held /\ codeState' = codeState
    BY <1>7 DEF Held, UserConfirms, FromServer, streamVars, flowVars
  <2>2. SamePhases
    BY <1>0, <1>7, Names DEF LocalOK, Ended, FlowStates, SamePhases, Unasked, UserConfirms, FromServer, streamVars, flowVars
  <2>3. \A g \in CodeFlows : server[g] \in {"none", "hello", "confirmed"}
            => server'[g] \in {"none", "hello", "confirmed"}
    BY <1>0, <1>7, Names DEF LocalOK, UserConfirms, FromServer, streamVars, flowVars
  <2> QED
    BY <2>1, <2>2, <2>3, PhaseFacts, SecretKept
<1>8. ASSUME NEW f \in Flows, QueuedSignSent(f) PROVE SecretInv'
  <2>1. Held' = Held /\ codeState' = codeState
    BY <1>8 DEF Held, QueuedSignSent, busVars, streamVars
  <2>2. SamePhases
    BY <1>0, <1>8, Names DEF LocalOK, Ended, FlowStates, SamePhases, Unasked, QueuedSignSent, Link, busVars, streamVars
  <2>3. \A g \in CodeFlows : server[g] \in {"none", "hello", "confirmed"}
            => server'[g] \in {"none", "hello", "confirmed"}
    BY <1>0, <1>8, Names DEF LocalOK, QueuedSignSent, busVars, streamVars
  <2> QED
    BY <2>1, <2>2, <2>3, PhaseFacts, SecretKept
<1>9. CASE HandleConnected
  <2>1. Held' = Held /\ codeState' = codeState
    BY <1>9 DEF Held, HandleConnected, FromStream, flowVars
  <2>2. SamePhases
    BY <1>0, <1>9, Names DEF LocalOK, Ended, FlowStates, SamePhases, Unasked, HandleConnected, FromStream, flowVars
  <2>3. \A g \in CodeFlows : server[g] \in {"none", "hello", "confirmed"}
            => server'[g] \in {"none", "hello", "confirmed"}
    BY <1>0, <1>9, Names DEF LocalOK, HandleConnected, FromStream, flowVars
  <2> QED
    BY <2>1, <2>2, <2>3, PhaseFacts, SecretKept
<1>10. CASE HandleDisconnected
  <2>1. Held' = Held /\ codeState' = codeState
    BY <1>10 DEF Held, HandleDisconnected, FromStream, flowVars
  <2>2. SamePhases
    BY <1>0, <1>10, Names DEF LocalOK, Ended, FlowStates, SamePhases, Unasked, HandleDisconnected, FromStream, flowVars
  <2>3. \A g \in CodeFlows : server[g] \in {"none", "hello", "confirmed"}
            => server'[g] \in {"none", "hello", "confirmed"}
    BY <1>0, <1>10, Names DEF LocalOK, HandleDisconnected, FromStream, flowVars
  <2> QED
    BY <2>1, <2>2, <2>3, PhaseFacts, SecretKept
<1>11. CASE HandleStreamError
  <2>1. Held' = Held /\ codeState' = codeState
    BY <1>11 DEF Held, HandleStreamError, FromStream, flowVars
  <2>2. SamePhases
    BY <1>0, <1>11, Names DEF LocalOK, Ended, FlowStates, SamePhases, Unasked, HandleStreamError, FromStream, flowVars
  <2>3. \A g \in CodeFlows : server[g] \in {"none", "hello", "confirmed"}
            => server'[g] \in {"none", "hello", "confirmed"}
    BY <1>0, <1>11, Names DEF LocalOK, HandleStreamError, FromStream, flowVars
  <2> QED
    BY <2>1, <2>2, <2>3, PhaseFacts, SecretKept
<1>12. CASE IgnoreNode
  <2>1. Held' = Held /\ codeState' = codeState
    BY <1>12 DEF Held, IgnoreNode, FromStream, flowVars, streamVars
  <2>2. SamePhases
    BY <1>0, <1>12, Names DEF LocalOK, Ended, FlowStates, SamePhases, Unasked, IgnoreNode, FromStream, flowVars, streamVars
  <2>3. \A g \in CodeFlows : server[g] \in {"none", "hello", "confirmed"}
            => server'[g] \in {"none", "hello", "confirmed"}
    BY <1>0, <1>12, Names DEF LocalOK, IgnoreNode, FromStream, flowVars, streamVars
  <2> QED
    BY <2>1, <2>2, <2>3, PhaseFacts, SecretKept
<1>13. CASE LoadDevice
  <2>1. Held' \subseteq Held /\ codeState' = codeState
    <3>1. codeState' = codeState /\ fresh' \in {None, backend} /\ UNCHANGED <<memory, backend, dev>>
      BY <1>13 DEF LoadDevice, FromStream, flowVars
    <3> QED
      BY <3>1 DEF Held
  <2>2. SamePhases
    BY <1>0, <1>13, Names DEF LocalOK, Ended, FlowStates, SamePhases, Unasked, LoadDevice, FromStream, flowVars
  <2>3. \A g \in CodeFlows : server[g] \in {"none", "hello", "confirmed"}
            => server'[g] \in {"none", "hello", "confirmed"}
    BY <1>0, <1>13, Names DEF LocalOK, LoadDevice, FromStream, flowVars
  <2> QED
    BY <2>1, <2>2, <2>3, PhaseFacts, SecretKept
<1>14. CASE InstallDevice
  <2>1. Held' \subseteq Held /\ codeState' = codeState
    <3>1. codeState' = codeState /\ memory' = fresh /\ UNCHANGED <<backend, fresh, dev>>
      BY <1>14 DEF InstallDevice, FromStream, flowVars
    <3> QED
      BY <3>1 DEF Held
  <2>2. SamePhases
    BY <1>0, <1>14, Names DEF LocalOK, Ended, FlowStates, SamePhases, Unasked, InstallDevice, FromStream, flowVars
  <2>3. \A g \in CodeFlows : server[g] \in {"none", "hello", "confirmed"}
            => server'[g] \in {"none", "hello", "confirmed"}
    BY <1>0, <1>14, Names DEF LocalOK, InstallDevice, FromStream, flowVars
  <2> QED
    BY <2>1, <2>2, <2>3, PhaseFacts, SecretKept
<1>15. CASE FinishInit
  <2>1. Held' = Held /\ codeState' = codeState
    BY <1>15 DEF Held, FinishInit, FromStream, flowVars
  <2>2. SamePhases
    BY <1>0, <1>15, Names DEF LocalOK, Ended, FlowStates, SamePhases, Unasked, FinishInit, FromStream, flowVars
  <2>3. \A g \in CodeFlows : server[g] \in {"none", "hello", "confirmed"}
            => server'[g] \in {"none", "hello", "confirmed"}
    BY <1>0, <1>15, Names DEF LocalOK, FinishInit, FromStream, flowVars
  <2> QED
    BY <2>1, <2>2, <2>3, PhaseFacts, SecretKept
<1>16. CASE SaveAdv
  <2>1. Held' \subseteq Held /\ codeState' = codeState
    <3>1. codeState' = codeState /\ backend' \in {fresh, backend} /\ UNCHANGED <<memory, fresh, dev>>
      BY <1>16 DEF SaveAdv, FromStream, flowVars
    <3> QED
      BY <3>1 DEF Held
  <2>2. SamePhases
    BY <1>0, <1>16, Names DEF LocalOK, Ended, FlowStates, SamePhases, Unasked, SaveAdv, FromStream, flowVars
  <2>3. \A g \in CodeFlows : server[g] \in {"none", "hello", "confirmed"}
            => server'[g] \in {"none", "hello", "confirmed"}
    BY <1>0, <1>16, Names DEF LocalOK, SaveAdv, FromStream, flowVars
  <2> QED
    BY <2>1, <2>2, <2>3, PhaseFacts, SecretKept
<1>17. ASSUME NEW f \in QrFlows, RequestPairing(f) PROVE SecretInv'
  <2>1. Held' \subseteq Held /\ codeState' = codeState
    <3>1. codeState' = codeState /\ dev' = [dev EXCEPT ![f] = backend] /\ UNCHANGED <<memory, fresh, backend>>
      BY <1>17 DEF RequestPairing, FromFlow
    <3>2. \A g \in Flows : dev'[g] = IF g = f THEN backend ELSE dev[g]
      BY <1>0, <3>1 DEF LocalOK
    <3> QED
      BY <3>1, <3>2 DEF Held
  <2>2. SamePhases
    BY <1>0, <1>17, Names DEF LocalOK, Ended, FlowStates, SamePhases, Unasked, RequestPairing, FromFlow
  <2>3. \A g \in CodeFlows : server[g] \in {"none", "hello", "confirmed"}
            => server'[g] \in {"none", "hello", "confirmed"}
    BY <1>0, <1>17, Names DEF LocalOK, RequestPairing, FromFlow
  <2> QED
    BY <2>1, <2>2, <2>3, PhaseFacts, SecretKept
<1>18. ASSUME NEW f \in QrFlows, QrEnds(f) PROVE SecretInv'
  <2>1. Held' = Held /\ codeState' = codeState
    BY <1>18 DEF Held, QrEnds, FromFlow
  <2>2. SamePhases
    BY <1>0, <1>18, Names DEF LocalOK, Ended, FlowStates, SamePhases, Unasked, QrEnds, FromFlow, Leave
  <2>3. \A g \in CodeFlows : server[g] \in {"none", "hello", "confirmed"}
            => server'[g] \in {"none", "hello", "confirmed"}
    BY <1>0, <1>18, Names DEF LocalOK, QrEnds, FromFlow
  <2> QED
    BY <2>1, <2>2, <2>3, PhaseFacts, SecretKept
<1>19. ASSUME NEW f \in CodeFlows, TaskStarts(f) PROVE SecretInv'
  <2>1. Held' = Held /\ codeState' = codeState
    BY <1>19 DEF Held, TaskStarts, FromFlow
  <2>2. SamePhases
    BY <1>0, <1>19, Names DEF LocalOK, Ended, FlowStates, SamePhases, Unasked, TaskStarts, FromFlow
  <2>3. \A g \in CodeFlows : server[g] \in {"none", "hello", "confirmed"}
            => server'[g] \in {"none", "hello", "confirmed"}
    BY <1>0, <1>19, Names DEF LocalOK, TaskStarts, FromFlow
  <2> QED
    BY <2>1, <2>2, <2>3, PhaseFacts, SecretKept
<1>20. ASSUME NEW f \in CodeFlows, CloneDevice(f) PROVE SecretInv'
  <2>1. Held' \subseteq Held /\ codeState' = codeState
    <3>1. codeState' = codeState /\ dev' = [dev EXCEPT ![f] = memory] /\ UNCHANGED <<memory, fresh, backend>>
      BY <1>20 DEF CloneDevice, FromFlow, busVars
    <3>2. \A g \in Flows : dev'[g] = IF g = f THEN memory ELSE dev[g]
      BY <1>0, <3>1 DEF LocalOK
    <3> QED
      BY <3>1, <3>2 DEF Held
  <2>2. SamePhases
    BY <1>0, <1>20, Names DEF LocalOK, Ended, FlowStates, SamePhases, Unasked, CloneDevice, FromFlow, busVars
  <2>3. \A g \in CodeFlows : server[g] \in {"none", "hello", "confirmed"}
            => server'[g] \in {"none", "hello", "confirmed"}
    BY <1>0, <1>20, Names DEF LocalOK, CloneDevice, FromFlow, busVars
  <2> QED
    BY <2>1, <2>2, <2>3, PhaseFacts, SecretKept
<1>21. ASSUME NEW f \in Flows, FinishFlow(f) PROVE SecretInv'
  <2>1. Held' = Held /\ codeState' = codeState
    BY <1>21 DEF Held, FinishFlow, FromFlow
  <2>2. SamePhases
    BY <1>0, <1>21, Names DEF LocalOK, Ended, FlowStates, SamePhases, Unasked, FinishFlow, FromFlow, Leave
  <2>3. \A g \in CodeFlows : server[g] \in {"none", "hello", "confirmed"}
            => server'[g] \in {"none", "hello", "confirmed"}
    BY <1>0, <1>21, Names DEF LocalOK, FinishFlow, FromFlow
  <2> QED
    BY <2>1, <2>2, <2>3, PhaseFacts, SecretKept
<1>22. ASSUME NEW f \in Flows, ReadEvent(f) PROVE SecretInv'
  <2>1. Held' = Held /\ codeState' = codeState
    BY <1>22 DEF Held, ReadEvent, FromFlow
  <2>2. SamePhases
    BY <1>0, <1>22, Names DEF LocalOK, Ended, FlowStates, SamePhases, Unasked, ReadEvent, FromFlow, Leave
  <2>3. \A g \in CodeFlows : server[g] \in {"none", "hello", "confirmed"}
            => server'[g] \in {"none", "hello", "confirmed"}
    BY <1>0, <1>22, Names DEF LocalOK, ReadEvent, FromFlow
  <2> QED
    BY <2>1, <2>2, <2>3, PhaseFacts, SecretKept
<1>23. ASSUME NEW f \in Flows, Respond(f) PROVE SecretInv'
  <2>1. Held' = Held /\ codeState' = codeState
    BY <1>23 DEF Held, Respond, FromFlow, busVars
  <2>2. SamePhases
    BY <1>0, <1>23, Names DEF LocalOK, Ended, FlowStates, SamePhases, Unasked, Respond, FromFlow, Leave, Link, busVars
  <2>3. \A g \in CodeFlows : server[g] \in {"none", "hello", "confirmed"}
            => server'[g] \in {"none", "hello", "confirmed"}
    BY <1>0, <1>23, Names DEF LocalOK, Respond, FromFlow, busVars
  <2> QED
    BY <2>1, <2>2, <2>3, PhaseFacts, SecretKept
<1>24. ASSUME NEW f \in Flows, Save(f) PROVE SecretInv'
  <2>1. Held' \subseteq Held /\ codeState' = codeState
    <3>1. codeState' = codeState /\ backend' \in {backend, [dev[f] EXCEPT !.paired = TRUE]} /\ UNCHANGED <<memory, fresh, dev>>
      BY <1>24 DEF Save, FromFlow, busVars
    <3>2. /\ [dev[f] EXCEPT !.paired = TRUE].adv = dev[f].adv
          /\ [dev[f] EXCEPT !.paired = TRUE] # None /\ dev[f].adv \in Held
      BY <1>0, <1>24, DeviceFacts, HeldFacts DEF LocalOK
    <3>3. \/ backend' = backend
          \/ backend' # None /\ backend'.adv = dev[f].adv
      BY <3>1, <3>2
    <3>4. \A d : d \in ({memory', backend', fresh'} \cup {dev'[g] : g \in Flows}) \ {None}
                  => d.adv \in Held
      BY <1>0, <3>1, <3>2, <3>3, HeldFacts
    <3> QED
      BY <3>1, <3>4 DEF Held
  <2>2. SamePhases
    BY <1>0, <1>24, Names DEF LocalOK, Ended, FlowStates, SamePhases, Unasked, Save, FromFlow, Leave, busVars
  <2>3. \A g \in CodeFlows : server[g] \in {"none", "hello", "confirmed"}
            => server'[g] \in {"none", "hello", "confirmed"}
    BY <1>0, <1>24, Names DEF LocalOK, Save, FromFlow, busVars
  <2> QED
    BY <2>1, <2>2, <2>3, PhaseFacts, SecretKept
<1>25. ASSUME NEW f \in CodeFlows, SendPairSuccess(f) PROVE SecretInv'
  <2>1. /\ server' = [server EXCEPT ![f] = "success"] /\ server[f] = "finish"
        /\ flow' = flow /\ codeState' = codeState /\ Held' = Held
    BY <1>25 DEF SendPairSuccess, FromServer, streamVars, flowVars, Held
  <2>2. \A g \in Flows : server'[g] = IF g = f THEN "success" ELSE server[g]
    BY <1>0, <2>1 DEF LocalOK
  <2>3. (\A g \in CodeFlows : Asked(g) => Asked(g)') /\ (Mixed => Mixed')
    BY <2>1 DEF Asked, Mixed
  <2> QED
    BY <2>1, <2>2, <2>3, SecretKept, Names
<1>26. CASE HandleConfirm
  <2>1. codeState' = "idle" /\ server' = server /\ flow' = flow /\ UNCHANGED <<backend, dev>>
    BY <1>26 DEF HandleConfirm, FromStream, flowVars
  <2>2. (\A g \in CodeFlows : Asked(g) <=> Asked(g)') /\ (Mixed <=> Mixed')
    BY <2>1 DEF Asked, Mixed
  <2>3. CASE UNCHANGED <<memory, fresh>>
    <3>1. Held' = Held
      BY <2>1, <2>3 DEF Held
    <3> QED
      BY <2>1, <2>2, <3>1, Names DEF SecretInv
  <2>4. CASE codeState \in CodeFlows
    <3> DEFINE e == Head(queue[Stream])
               a == Unwrapped(codeState, e.arg)
    <3>1. /\ memory' = [memory EXCEPT !.adv = a] /\ fresh' = memory'
      BY <1>26, <2>4 DEF HandleConfirm
    <3>2. a \in {codeState, Junk} /\ a \in Advs
      BY <2>4, Names DEF Unwrapped
    <3>3. memory'.adv = a /\ fresh'.adv = a
      BY <1>0, <3>1, <3>2, DeviceFacts DEF LocalOK
    <3>4. Held' \subseteq Held \cup {a}
      <4> HIDE DEF a
      <4> QED
        BY <2>1, <3>1, <3>3 DEF Held
    <3>5. Asked(codeState)
      BY <2>4 DEF SecretInv
    <3>6. a = Junk => Mixed
      <4> SUFFICES ASSUME a = Junk PROVE Mixed
        OBVIOUS
      <4>1. e.arg # codeState
        BY <2>4, Names DEF Unwrapped
      <4>2. e \in Confirms /\ e = Confirm(e.arg) /\ e.arg \in CodeFlows \cup {Junk}
        BY <1>26, PopFacts, QueueTyped, ConfirmFacts, Names DEF HandleConfirm, ShapeInv, RoleInv, Confirms
      <4> HIDE DEF e
      <4>3. CASE e.arg = Junk
        BY <4>2, <4>3 DEF CodeInv
      <4>4. CASE e.arg \in CodeFlows
        BY <2>4, <3>5, <4>1, <4>2, <4>4 DEF CodeInv, Mixed, Asked, Unasked
      <4> QED
        BY <4>2, <4>3, <4>4
    <3> HIDE DEF a
    <3> QED
      BY <2>1, <2>2, <3>2, <3>4, <3>5, <3>6, Names DEF SecretInv
  <2> QED
    BY <1>26, <2>3, <2>4 DEF HandleConfirm
<1>27. CASE SendFinish
  <2>1. /\ flow' = flow /\ Held' = Held /\ fresh # None /\ codeState' \in {codeState, "completed"}
    BY <1>27 DEF SendFinish, FromStream, flowVars, Held, ShapeInv, RoleInv
  <2>2. \A g \in CodeFlows : server'[g] = server[g] \/ g = fresh.adv
    BY <1>0, <1>27, Names DEF SendFinish, Finish, LocalOK
  <2>3. fresh.adv \in Held
    BY <1>0, <2>1, HeldFacts
  <2>4. (\A g \in CodeFlows : Asked(g) <=> Asked(g)') /\ (Mixed <=> Mixed')
    BY <2>1 DEF Asked, Mixed
  <2> QED
    BY <2>1, <2>2, <2>3, <2>4, Names DEF SecretInv
<1>28. ASSUME NEW f \in CodeFlows, RequestPairCode(f) PROVE SecretInv'
  <2>1. /\ Held' = Held /\ flow[f] = "idle" /\ codeState' = codeState /\ f \in Flows
        /\ flow' = [flow EXCEPT ![f] = "hello"] /\ server' = [server EXCEPT ![f] = "sent"]
    BY <1>28, Names DEF RequestPairCode, FromFlow, Held
  <2>2. \A g \in Flows : /\ flow'[g] = IF g = f THEN "hello" ELSE flow[g]
                         /\ g # f => server'[g] = server[g]
    BY <1>0, <2>1 DEF LocalOK
  <2>3. \A g \in CodeFlows : Asked(g) => g # f /\ Asked(g)' /\ server'[g] = server[g]
    BY <2>1, <2>2, Names DEF Asked, Unasked
  <2>4. \A g \in CodeFlows : flow[g] # "idle" => flow'[g] # "idle"
    BY <2>2, Names
  <2>5. Mixed => Mixed'
    BY <2>4 DEF Mixed
  <2> QED
    BY <2>1, <2>3, <2>5, SecretKept
<1>29. ASSUME NEW f \in CodeFlows, UserMistypes(f) PROVE SecretInv'
  <2>1. /\ Held' = Held /\ codeState' = codeState /\ server' = server /\ flow' = flow
    BY <1>29 DEF Held, UserMistypes, FromServer, streamVars, flowVars
  <2>2. SamePhases
    BY <2>1 DEF SamePhases
  <2> QED
    BY <2>1, <2>2, PhaseFacts, SecretKept
<1>30. ASSUME NEW f \in CodeFlows, HelloArrives(f) PROVE SecretInv'
  <2>1. /\ Held' = Held /\ codeState' = codeState /\ f \in Flows
        /\ flow' = flow \/ (flow[f] = "hello" /\ flow' = [flow EXCEPT ![f] = "storing"])
        /\ server' = [g \in Flows |-> IF g = f THEN "hello"
                                       ELSE IF server[g] \in Wanted THEN "none" ELSE server[g]]
    BY <1>30, Names DEF Held, HelloArrives, busVars, streamVars
  <2>2. \A g \in Flows : flow'[g] = flow[g] \/ (g = f /\ flow[f] = "hello" /\ flow'[f] = "storing")
    BY <1>0, <2>1 DEF LocalOK
  <2>3. (\A g \in CodeFlows : Asked(g) => Asked(g)') /\ (Mixed => Mixed')
    <3>1. \A g \in CodeFlows : (flow[g] # "idle" => flow'[g] # "idle") /\ (Asked(g) => Asked(g)')
      BY <2>2, Names DEF Asked, Unasked
    <3> QED
      BY <3>1 DEF Mixed
  <2>4. \A g \in Flows : server'[g] \in {"hello", "none", server[g]}
    BY <2>1
  <2> QED
    BY <2>1, <2>3, <2>4, SecretKept, Names
<1>31. ASSUME NEW f \in CodeFlows, HelloFails(f) PROVE SecretInv'
  <2>1. /\ Held' = Held /\ codeState' = codeState /\ server' = server /\ f \in Flows
        /\ flow[f] = "hello" /\ flow' = [flow EXCEPT ![f] = "refused"]
    BY <1>31, Names DEF Held, HelloFails, FromFlow, busVars
  <2>2. \A g \in Flows : flow'[g] = IF g = f THEN "refused" ELSE flow[g]
    BY <1>0, <2>1 DEF LocalOK
  <2>3. (\A g \in CodeFlows : Asked(g) => Asked(g)') /\ (Mixed => Mixed')
    <3>1. \A g \in CodeFlows : (flow[g] # "idle" => flow'[g] # "idle") /\ (Asked(g) => Asked(g)')
      BY <2>1, <2>2, Names DEF Asked, Unasked
    <3> QED
      BY <3>1 DEF Mixed
  <2> QED
    BY <2>1, <2>3, SecretKept
<1>32. ASSUME NEW f \in CodeFlows, StoreCode(f) PROVE SecretInv'
  <2>1. /\ Held' = Held /\ codeState' = f /\ server' = server /\ f \in Flows
        /\ flow[f] = "storing" /\ flow' = [flow EXCEPT ![f] = "spawned"]
    BY <1>32, Names DEF Held, StoreCode, FromFlow, busVars
  <2>2. \A g \in Flows : flow'[g] = IF g = f THEN "spawned" ELSE flow[g]
    BY <1>0, <2>1 DEF LocalOK
  <2>3. (\A g \in CodeFlows : Asked(g) => Asked(g)') /\ (Mixed => Mixed') /\ Asked(f)' /\ ~Asked(f)
    <3>1. \A g \in CodeFlows : (flow[g] # "idle" => flow'[g] # "idle") /\ (Asked(g) => Asked(g)')
      BY <2>1, <2>2, Names DEF Asked, Unasked
    <3> QED
      BY <2>1, <2>2, <3>1 DEF Mixed, Asked, Unasked
  <2>4. server'[f] \in {"none", "hello"}
    BY <2>1 DEF CodeInv, PhaseInv
  <2> QED
    BY <2>1, <2>3, <2>4, Names DEF SecretInv
<1> QED
  BY <1>1, <1>2, <1>3, <1>4, <1>5, <1>6, <1>7, <1>8, <1>9, <1>10, <1>11, <1>12, <1>13, <1>14,
     <1>15, <1>16,
     <1>17, <1>18, <1>19, <1>20, <1>21, <1>22, <1>23, <1>24, <1>25, <1>26, <1>27, <1>28,
     <1>29, <1>30, <1>31, <1>32, Names
  DEF Next, ServerNext, StreamNext, FlowNext

-----------------------------------------------------------------------------
(* The link: what follows a pair-success carries the secret of its flow.   *)

Pairs == {"cloning", "responding", "saving"}

\* What most steps leave alone: the successes and their events, the flows that
\* have read one, and the link.
SameSuccess ==
    /\ \A g \in Flows : server'[g] = "success" <=> server[g] = "success"
    /\ \A g \in Flows : server[g] = "success" /\ g \in QrFlows => dev'[g] = dev[g]
NoNewSuccess == \A r \in Receivers : \A e \in Events(r)' : e.kind = "pairSuccess" => e \in Events(r)
SamePairs == \A f \in Flows :
    /\ flow'[f] \in Pairs => flow[f] \in Pairs
    /\ flow'[f] = "uploading" => flow[f] = "uploading"
    /\ flow'[f] = "saving" => flow[f] = "saving"
    /\ flow[f] \in {"saving", "failed"} => flow'[f] \in {"saving", "failed"} /\ dev'[f] = dev[f]
SameLink == prompt' = prompt /\ linkedAdv' = linkedAdv /\ (linked' = "no" <=> linked = "no")

LEMMA SuccessFacts ==
    ASSUME SameSuccess
    PROVE  /\ Success' <=> Success
           /\ \A g \in Flows : server[g] = "success" => Secret(g)' = Secret(g)
<1>1. Success' <=> Success
  BY DEF SameSuccess, Success
<1>2. \A g \in Flows : server[g] = "success" => Secret(g)' = Secret(g)
  BY Names DEF SameSuccess, Secret
<1> QED
  BY <1>1, <1>2

LEMMA EventSecrets ==
    ASSUME LinkInv, SameSuccess, NoNewSuccess
    PROVE  /\ \A r \in Receivers : \A e \in Events(r)' : e.kind = "pairSuccess" => Success'
           /\ \A g \in Flows : server'[g] = "success" =>
                 \A r \in Receivers : \A e \in Events(r)' : e.kind = "pairSuccess" => e.arg = Secret(g)'
  BY SuccessFacts DEF LinkInv, NoNewSuccess, SameSuccess

LEMMA LinkKept ==
    ASSUME ShapeInv, LinkInv, SameSuccess, NoNewSuccess, SamePairs, SameLink,
           pairAdv' = pairAdv, queued' = queued, backend' = backend,
           memory'.paired => Success, fresh' # None /\ fresh'.paired => Success
    PROVE  LinkInv'
<1>1. /\ Success' <=> Success
      /\ \A g \in Flows : server[g] = "success" => Secret(g)' = Secret(g)
  BY SuccessFacts
<1>2. /\ \A r \in Receivers : \A e \in Events(r)' : e.kind = "pairSuccess" => Success'
      /\ \A g \in Flows : server'[g] = "success" =>
            \A r \in Receivers : \A e \in Events(r)' : e.kind = "pairSuccess" => e.arg = Secret(g)'
  BY EventSecrets
<1>3. \A f \in Flows : flow'[f] \in {"cloning", "responding", "saving", "uploading"} => Success'
  BY <1>1 DEF LinkInv, SamePairs, Pairs
<1>4. /\ queued' # {} \/ linked' # "no" \/ backend'.paired \/ memory'.paired => Success'
      /\ fresh' # None /\ fresh'.paired => Success'
  BY <1>1 DEF LinkInv, SameLink
<1>5. ASSUME NEW g \in Flows, server'[g] = "success"
      PROVE  /\ \A f \in Flows : flow'[f] \in {"cloning", "responding", "saving"} \/ f \in queued'
                    => pairAdv'[f] = Secret(g)'
             /\ linked' # "no" => linkedAdv' = Secret(g)'
             /\ backend'.paired => backend'.adv = Secret(g)' /\ (prompt' => linked' # "no")
  <2>1. server[g] = "success" /\ Secret(g)' = Secret(g)
    BY <1>1, <1>5 DEF SameSuccess
  <2> QED
    BY <2>1 DEF LinkInv, SamePairs, SameLink, Pairs
<1>6. \A f \in queued : f \in Flows /\ flow[f] = "failed"
  BY TypeSplit DEF ShapeInv, RoleInv, LocalOK
<1>7. \A f \in Flows : flow'[f] = "saving" \/ f \in queued' => dev'[f].adv = pairAdv'[f]
  BY <1>6 DEF LinkInv, SamePairs
<1>8. \A f \in Flows : flow'[f] = "saving" /\ prompt' => linked' # "no"
  BY DEF LinkInv, SamePairs, SameLink
<1>9. PairedTogether'
  <2>1. \A f \in Flows : Answers(f) /\ flow[f] \in {"saving", "failed"}
            => Answers(f)' /\ flow'[f] \in {"saving", "failed"}
    BY DEF SamePairs, Answers
  <2> QED
    BY <2>1 DEF LinkInv, SameLink, PairedTogether
<1> QED
  BY <1>2, <1>3, <1>4, <1>5, <1>7, <1>8, <1>9 DEF LinkInv

LEMMA InitLink == Init => LinkInv
<1> SUFFICES ASSUME Init PROVE LinkInv
  OBVIOUS
<1>1. \A r \in Receivers : Events(r) = {}
  BY ElemsEmpty, EventsElems DEF Init
<1>2. \A f \in Flows : server[f] = "none" /\ flow[f] = "idle"
  BY DEF Init
<1>3. ~memory.paired /\ ~backend.paired /\ ~fresh.paired /\ queued = {} /\ linked = "no"
  BY DEF Init
<1> QED
  BY <1>1, <1>2, <1>3 DEF LinkInv, PairedTogether

LEMMA NoNewFacts ==
    /\ (\A r \in Receivers : Events(r)' \subseteq Events(r)) => NoNewSuccess
    /\ queue' = queue => NoNewSuccess
    /\ \A e : e.kind # "pairSuccess" /\ (\A r \in Receivers : Events(r)' \subseteq Events(r) \cup {e}) => NoNewSuccess
<1>1. queue' = queue => \A r \in Receivers : Events(r)' \subseteq Events(r)
  BY QueueSame
<1> QED
  BY <1>1 DEF NoNewSuccess

LEMMA LinkStep == ShapeInv /\ CodeInv /\ LinkInv /\ Next => LinkInv'
<1> SUFFICES ASSUME ShapeInv, CodeInv, LinkInv, Next PROVE LinkInv'
  OBVIOUS
<1>0. /\ QueueOK /\ LocalOK /\ listening \subseteq Receivers /\ Stream \in listening
      /\ Stream \in Receivers /\ \A f \in Flows : f # Stream /\ f \in Receivers
      /\ prompt' = prompt
  BY QueueTyped, TypeSplit, Names DEF ShapeInv, RoleInv, Next
<1>00. backend.paired \/ memory.paired \/ (fresh # None /\ fresh.paired) => Success
  BY DEF LinkInv
<1>1. CASE Connect
  <2>1. NoNewSuccess
    <3>1. Event("connected", None) \in BusEvents /\ Event("connected", None).kind # "pairSuccess"
      BY EventFacts, Names DEF Kinds
    <3> QED
      BY <1>0, <1>1, <3>1, TryPublishFacts, NoNewFacts DEF Connect
  <2>2. SameSuccess
    BY <1>1 DEF SameSuccess, Connect, streamVars, flowVars
  <2>3. SamePairs
    BY <1>0, <1>1, Names DEF SamePairs, Pairs, LocalOK, Connect, streamVars, flowVars
  <2>4. /\ SameLink /\ pairAdv' = pairAdv /\ queued' = queued /\ backend' = backend
        /\ memory'.paired => Success
        /\ fresh' # None /\ fresh'.paired => Success
    BY <1>0, <1>00, <1>1 DEF SameLink, Connect, streamVars, flowVars
  <2> QED
    BY <2>1, <2>2, <2>3, <2>4, LinkKept
<1>2. CASE Drop
  <2>1. NoNewSuccess
    <3>1. Event("lost", None) \in BusEvents /\ Event("lost", None).kind # "pairSuccess"
      BY EventFacts, Names DEF Kinds
    <3> QED
      BY <1>0, <1>2, <3>1, TryPublishFacts, NoNewFacts DEF Drop
  <2>2. SameSuccess
    BY <1>2 DEF SameSuccess, Drop, serverVars, streamVars, flowVars
  <2>3. SamePairs
    BY <1>0, <1>2, Names DEF SamePairs, Pairs, LocalOK, Drop, serverVars, streamVars, flowVars
  <2>4. /\ SameLink /\ pairAdv' = pairAdv /\ queued' = queued /\ backend' = backend
        /\ memory'.paired => Success
        /\ fresh' # None /\ fresh'.paired => Success
    BY <1>0, <1>00, <1>2 DEF SameLink, Drop, serverVars, streamVars, flowVars
  <2> QED
    BY <2>1, <2>2, <2>3, <2>4, LinkKept
<1>3. CASE ForcedDrop
  <2>1. NoNewSuccess
    <3>1. Event("forced", None) \in BusEvents /\ Event("forced", None).kind # "pairSuccess"
      BY EventFacts, Names DEF Kinds
    <3> QED
      BY <1>0, <1>3, <3>1, TryPublishFacts, NoNewFacts DEF ForcedDrop
  <2>2. SameSuccess
    BY <1>3 DEF SameSuccess, ForcedDrop, streamVars, flowVars
  <2>3. SamePairs
    BY <1>0, <1>3, Names DEF SamePairs, Pairs, LocalOK, ForcedDrop, streamVars, flowVars
  <2>4. /\ SameLink /\ pairAdv' = pairAdv /\ queued' = queued /\ backend' = backend
        /\ memory'.paired => Success
        /\ fresh' # None /\ fresh'.paired => Success
    BY <1>0, <1>00, <1>3 DEF SameLink, ForcedDrop, streamVars, flowVars
  <2> QED
    BY <2>1, <2>2, <2>3, <2>4, LinkKept
<1>4. CASE SendPairDevice
  <2>1. NoNewSuccess
    <3>1. Event("pairDevice", None) \in BusEvents /\ Event("pairDevice", None).kind # "pairSuccess"
      BY EventFacts, Names DEF Kinds
    <3> QED
      BY <1>0, <1>4, <3>1, PublishFacts, NoNewFacts DEF SendPairDevice
  <2>2. SameSuccess
    BY <1>4 DEF SameSuccess, SendPairDevice, FromServer, streamVars, flowVars
  <2>3. SamePairs
    BY <1>0, <1>4, Names DEF SamePairs, Pairs, LocalOK, SendPairDevice, FromServer, streamVars,
        flowVars
  <2>4. /\ SameLink /\ pairAdv' = pairAdv /\ queued' = queued /\ backend' = backend
        /\ memory'.paired => Success
        /\ fresh' # None /\ fresh'.paired => Success
    BY <1>0, <1>00, <1>4 DEF SameLink, SendPairDevice, FromServer, streamVars, flowVars
  <2> QED
    BY <2>1, <2>2, <2>3, <2>4, LinkKept
<1>5. CASE SendStreamError
  <2>1. NoNewSuccess
    <3>1. Event("streamError", None) \in BusEvents /\ Event("streamError", None).kind # "pairSuccess"
      BY EventFacts, Names DEF Kinds
    <3> QED
      BY <1>0, <1>5, <3>1, PublishFacts, NoNewFacts DEF SendStreamError
  <2>2. SameSuccess
    BY <1>5 DEF SameSuccess, SendStreamError, FromServer, streamVars, flowVars
  <2>3. SamePairs
    BY <1>0, <1>5, Names DEF SamePairs, Pairs, LocalOK, SendStreamError, FromServer, streamVars,
        flowVars
  <2>4. /\ SameLink /\ pairAdv' = pairAdv /\ queued' = queued /\ backend' = backend
        /\ memory'.paired => Success
        /\ fresh' # None /\ fresh'.paired => Success
    BY <1>0, <1>00, <1>5 DEF SameLink, SendStreamError, FromServer, streamVars, flowVars
  <2> QED
    BY <2>1, <2>2, <2>3, <2>4, LinkKept
<1>6. ASSUME NEW f \in CodeFlows, UserConfirms(f) PROVE LinkInv'
  <2>1. NoNewSuccess
    <3>1. Event("confirm", f) \in BusEvents /\ Event("confirm", f).kind # "pairSuccess"
      BY EventFacts, Names DEF Kinds
    <3> QED
      BY <1>0, <1>6, <3>1, PublishFacts, NoNewFacts DEF UserConfirms
  <2>2. SameSuccess
    BY <1>0, <1>6, Names DEF ShapeInv, RoleInv, SameSuccess, LocalOK, UserConfirms, FromServer,
        streamVars, flowVars
  <2>3. SamePairs
    BY <1>0, <1>6, Names DEF SamePairs, Pairs, LocalOK, UserConfirms, FromServer, streamVars,
        flowVars
  <2>4. /\ SameLink /\ pairAdv' = pairAdv /\ queued' = queued /\ backend' = backend
        /\ memory'.paired => Success
        /\ fresh' # None /\ fresh'.paired => Success
    BY <1>0, <1>00, <1>6 DEF SameLink, UserConfirms, FromServer, streamVars, flowVars
  <2> QED
    BY <2>1, <2>2, <2>3, <2>4, LinkKept
<1>7. CASE HandleConnected
  <2>1. NoNewSuccess
    BY <1>0, <1>7, PopFacts, NoNewFacts DEF HandleConnected
  <2>2. SameSuccess
    BY <1>7 DEF SameSuccess, HandleConnected, FromStream, flowVars
  <2>3. SamePairs
    BY <1>0, <1>7, Names DEF SamePairs, Pairs, LocalOK, HandleConnected, FromStream, flowVars
  <2>4. /\ SameLink /\ pairAdv' = pairAdv /\ queued' = queued /\ backend' = backend
        /\ memory'.paired => Success
        /\ fresh' # None /\ fresh'.paired => Success
    BY <1>0, <1>00, <1>7 DEF SameLink, HandleConnected, FromStream, flowVars
  <2> QED
    BY <2>1, <2>2, <2>3, <2>4, LinkKept
<1>8. CASE HandleDisconnected
  <2>1. NoNewSuccess
    BY <1>0, <1>8, PopFacts, NoNewFacts DEF HandleDisconnected
  <2>2. SameSuccess
    BY <1>8 DEF SameSuccess, HandleDisconnected, FromStream, flowVars
  <2>3. SamePairs
    BY <1>0, <1>8, Names DEF SamePairs, Pairs, LocalOK, HandleDisconnected, FromStream, flowVars
  <2>4. /\ SameLink /\ pairAdv' = pairAdv /\ queued' = queued /\ backend' = backend
        /\ memory'.paired => Success
        /\ fresh' # None /\ fresh'.paired => Success
    BY <1>0, <1>00, <1>8 DEF SameLink, HandleDisconnected, FromStream, flowVars
  <2> QED
    BY <2>1, <2>2, <2>3, <2>4, LinkKept
<1>9. CASE HandleStreamError
  <2>1. NoNewSuccess
    BY <1>0, <1>9, PopFacts, NoNewFacts DEF HandleStreamError
  <2>2. SameSuccess
    BY <1>9 DEF SameSuccess, HandleStreamError, FromStream, flowVars
  <2>3. SamePairs
    BY <1>0, <1>9, Names DEF SamePairs, Pairs, LocalOK, HandleStreamError, FromStream, flowVars
  <2>4. /\ SameLink /\ pairAdv' = pairAdv /\ queued' = queued /\ backend' = backend
        /\ memory'.paired => Success
        /\ fresh' # None /\ fresh'.paired => Success
    BY <1>0, <1>00, <1>9 DEF SameLink, HandleStreamError, FromStream, flowVars
  <2> QED
    BY <2>1, <2>2, <2>3, <2>4, LinkKept
<1>10. CASE IgnoreNode
  <2>1. NoNewSuccess
    BY <1>0, <1>10, PopFacts, NoNewFacts DEF IgnoreNode
  <2>2. SameSuccess
    BY <1>10 DEF SameSuccess, IgnoreNode, FromStream, flowVars, streamVars
  <2>3. SamePairs
    BY <1>0, <1>10, Names DEF SamePairs, Pairs, LocalOK, IgnoreNode, FromStream, flowVars,
        streamVars
  <2>4. /\ SameLink /\ pairAdv' = pairAdv /\ queued' = queued /\ backend' = backend
        /\ memory'.paired => Success
        /\ fresh' # None /\ fresh'.paired => Success
    BY <1>0, <1>00, <1>10 DEF SameLink, IgnoreNode, FromStream, flowVars, streamVars
  <2> QED
    BY <2>1, <2>2, <2>3, <2>4, LinkKept
<1>11. CASE LoadDevice
  <2>1. NoNewSuccess
    BY <1>11, NoNewFacts DEF LoadDevice, busVars, FromStream
  <2>2. SameSuccess
    BY <1>11 DEF SameSuccess, LoadDevice, FromStream, flowVars
  <2>3. SamePairs
    BY <1>0, <1>11, Names DEF SamePairs, Pairs, LocalOK, LoadDevice, FromStream, flowVars
  <2>4. /\ SameLink /\ pairAdv' = pairAdv /\ queued' = queued /\ backend' = backend
        /\ memory'.paired => Success
        /\ fresh' # None /\ fresh'.paired => Success
    BY <1>0, <1>00, <1>11, DeviceFacts DEF SameLink, LoadDevice, FromStream, flowVars
  <2> QED
    BY <2>1, <2>2, <2>3, <2>4, LinkKept
<1>12. CASE InstallDevice
  <2>1. NoNewSuccess
    BY <1>12, NoNewFacts DEF InstallDevice, busVars, FromStream
  <2>2. SameSuccess
    BY <1>12 DEF SameSuccess, InstallDevice, FromStream, flowVars
  <2>3. SamePairs
    BY <1>0, <1>12, Names DEF SamePairs, Pairs, LocalOK, InstallDevice, FromStream, flowVars
  <2>4. /\ SameLink /\ pairAdv' = pairAdv /\ queued' = queued /\ backend' = backend
        /\ memory'.paired => Success
        /\ fresh' # None /\ fresh'.paired => Success
    BY <1>0, <1>00, <1>12, DeviceFacts DEF SameLink, InstallDevice, ShapeInv, RoleInv, FromStream,
        flowVars
  <2> QED
    BY <2>1, <2>2, <2>3, <2>4, LinkKept
<1>13. CASE FinishInit
  <2>1. NoNewSuccess
    BY <1>13, NoNewFacts DEF FinishInit, busVars, FromStream
  <2>2. SameSuccess
    BY <1>13 DEF SameSuccess, FinishInit, FromStream, flowVars
  <2>3. SamePairs
    BY <1>0, <1>13, Names DEF SamePairs, Pairs, LocalOK, FinishInit, FromStream, flowVars
  <2>4. /\ SameLink /\ pairAdv' = pairAdv /\ queued' = queued /\ backend' = backend
        /\ memory'.paired => Success
        /\ fresh' # None /\ fresh'.paired => Success
    BY <1>0, <1>00, <1>13 DEF SameLink, FinishInit, FromStream, flowVars
  <2> QED
    BY <2>1, <2>2, <2>3, <2>4, LinkKept
<1>14. CASE HandleConfirm
  <2>1. NoNewSuccess
    BY <1>0, <1>14, PopFacts, NoNewFacts DEF HandleConfirm
  <2>2. SameSuccess
    BY <1>14 DEF SameSuccess, HandleConfirm, FromStream, flowVars
  <2>3. SamePairs
    BY <1>0, <1>14, Names DEF SamePairs, Pairs, LocalOK, HandleConfirm, FromStream, flowVars
  <2>4. /\ SameLink /\ pairAdv' = pairAdv /\ queued' = queued /\ backend' = backend
        /\ memory'.paired => Success
        /\ fresh' # None /\ fresh'.paired => Success
    <3>1. \A a : [memory EXCEPT !.adv = a].paired = memory.paired
      BY <1>0 DEF LocalOK, Devices
    <3>2. memory'.paired = memory.paired /\ (fresh' = memory' \/ fresh' = fresh)
      BY <1>14, <3>1 DEF HandleConfirm
    <3> QED
      BY <1>0, <1>00, <1>14, <3>2 DEF SameLink, HandleConfirm, FromStream, flowVars
  <2> QED
    BY <2>1, <2>2, <2>3, <2>4, LinkKept
<1>15. CASE SendFinish
  <2>1. NoNewSuccess
    BY <1>15, NoNewFacts DEF SendFinish, busVars, FromStream
  <2>2. SameSuccess
    BY <1>0, <1>15, Names DEF ShapeInv, RoleInv, SameSuccess, LocalOK, SendFinish, Finish, FromStream,
        flowVars
  <2>3. SamePairs
    BY <1>0, <1>15, Names DEF SamePairs, Pairs, LocalOK, SendFinish, FromStream, flowVars
  <2>4. /\ SameLink /\ pairAdv' = pairAdv /\ queued' = queued /\ backend' = backend
        /\ memory'.paired => Success
        /\ fresh' # None /\ fresh'.paired => Success
    BY <1>0, <1>00, <1>15 DEF SameLink, SendFinish, FromStream, flowVars
  <2> QED
    BY <2>1, <2>2, <2>3, <2>4, LinkKept
<1>16. ASSUME NEW f \in QrFlows, RequestPairing(f) PROVE LinkInv'
  <2>1. NoNewSuccess
    BY <1>16, NoNewFacts DEF RequestPairing, busVars, FromStream
  <2>2. SameSuccess
    BY <1>0, <1>16, Names DEF ShapeInv, RoleInv, SameSuccess, LocalOK, RequestPairing, FromFlow
  <2>3. SamePairs
    BY <1>0, <1>16, Names DEF SamePairs, Pairs, LocalOK, RequestPairing, FromFlow
  <2>4. /\ SameLink /\ pairAdv' = pairAdv /\ queued' = queued /\ backend' = backend
        /\ memory'.paired => Success
        /\ fresh' # None /\ fresh'.paired => Success
    BY <1>0, <1>00, <1>16 DEF SameLink, RequestPairing, FromFlow
  <2> QED
    BY <2>1, <2>2, <2>3, <2>4, LinkKept
<1>17. ASSUME NEW f \in QrFlows, QrEnds(f) PROVE LinkInv'
  <2>1. NoNewSuccess
    BY <1>0, <1>17, LeaveFacts, NoNewFacts, Names DEF QrEnds, Ended
  <2>2. SameSuccess
    BY <1>17 DEF SameSuccess, QrEnds, FromFlow
  <2>3. SamePairs
    BY <1>0, <1>17, Names DEF SamePairs, Pairs, LocalOK, QrEnds, FromFlow, Leave
  <2>4. /\ SameLink /\ pairAdv' = pairAdv /\ queued' = queued /\ backend' = backend
        /\ memory'.paired => Success
        /\ fresh' # None /\ fresh'.paired => Success
    BY <1>0, <1>00, <1>17 DEF SameLink, QrEnds, FromFlow
  <2> QED
    BY <2>1, <2>2, <2>3, <2>4, LinkKept
<1>18. ASSUME NEW f \in CodeFlows, RequestPairCode(f) PROVE LinkInv'
  <2>1. NoNewSuccess
    BY <1>18, NoNewFacts DEF RequestPairCode, busVars, FromStream
  <2>2. SameSuccess
    BY <1>0, <1>18, Names DEF ShapeInv, RoleInv, SameSuccess, LocalOK, RequestPairCode, FromFlow,
        busVars
  <2>3. SamePairs
    BY <1>0, <1>18, Names DEF SamePairs, Pairs, LocalOK, RequestPairCode, FromFlow, busVars
  <2>4. /\ SameLink /\ pairAdv' = pairAdv /\ queued' = queued /\ backend' = backend
        /\ memory'.paired => Success
        /\ fresh' # None /\ fresh'.paired => Success
    BY <1>0, <1>00, <1>18 DEF SameLink, RequestPairCode, FromFlow, busVars
  <2> QED
    BY <2>1, <2>2, <2>3, <2>4, LinkKept
<1>19. ASSUME NEW f \in CodeFlows, TaskStarts(f) PROVE LinkInv'
  <2>1. NoNewSuccess
    BY <1>19, NoNewFacts DEF TaskStarts, busVars, FromStream
  <2>2. SameSuccess
    BY <1>19 DEF SameSuccess, TaskStarts, FromFlow
  <2>3. SamePairs
    BY <1>0, <1>19, Names DEF SamePairs, Pairs, LocalOK, TaskStarts, FromFlow
  <2>4. /\ SameLink /\ pairAdv' = pairAdv /\ queued' = queued /\ backend' = backend
        /\ memory'.paired => Success
        /\ fresh' # None /\ fresh'.paired => Success
    BY <1>0, <1>00, <1>19 DEF SameLink, TaskStarts, FromFlow
  <2> QED
    BY <2>1, <2>2, <2>3, <2>4, LinkKept
<1>20. ASSUME NEW f \in CodeFlows, CloneDevice(f) PROVE LinkInv'
  <2>1. NoNewSuccess
    BY <1>20, NoNewFacts DEF CloneDevice, busVars, FromStream
  <2>2. SameSuccess
    BY <1>0, <1>20, Names DEF ShapeInv, RoleInv, SameSuccess, LocalOK, CloneDevice, FromFlow,
        busVars
  <2>3. SamePairs
    BY <1>0, <1>20, Names DEF SamePairs, Pairs, LocalOK, CloneDevice, FromFlow, busVars
  <2>4. /\ SameLink /\ pairAdv' = pairAdv /\ queued' = queued /\ backend' = backend
        /\ memory'.paired => Success
        /\ fresh' # None /\ fresh'.paired => Success
    BY <1>0, <1>00, <1>20 DEF SameLink, CloneDevice, FromFlow, busVars
  <2> QED
    BY <2>1, <2>2, <2>3, <2>4, LinkKept
<1>21. ASSUME NEW f \in Flows, FinishFlow(f) PROVE LinkInv'
  <2>1. NoNewSuccess
    BY <1>0, <1>21, LeaveFacts, NoNewFacts, Names DEF FinishFlow, Ended
  <2>2. SameSuccess
    BY <1>21 DEF SameSuccess, FinishFlow, FromFlow
  <2>3. SamePairs
    BY <1>0, <1>21, Names DEF SamePairs, Pairs, LocalOK, FinishFlow, FromFlow, Leave
  <2>4. /\ SameLink /\ pairAdv' = pairAdv /\ queued' = queued /\ backend' = backend
        /\ memory'.paired => Success
        /\ fresh' # None /\ fresh'.paired => Success
    BY <1>0, <1>00, <1>21 DEF SameLink, FinishFlow, FromFlow
  <2> QED
    BY <2>1, <2>2, <2>3, <2>4, LinkKept
<1>22. ASSUME NEW f \in QrFlows, UserScans(f) PROVE LinkInv'
  <2>1. /\ f \in Flows /\ server' = [server EXCEPT ![f] = "success"]
        /\ \A g \in Flows : server[g] # "success"
        /\ Publish(Event("pairSuccess", dev[f].adv))
        /\ linked' = linked
        /\ UNCHANGED <<linkedAdv, fresh, memory, backend, flow, dev, pairAdv, queued>>
    BY <1>22, Names DEF UserScans, Unlinked, FromServer, streamVars, flowVars
  <2>2. /\ Event("pairSuccess", dev[f].adv) \in BusEvents
        /\ Event("pairSuccess", dev[f].adv).arg = dev[f].adv
    BY <1>0, <2>1, DeviceFacts, EventFacts DEF LocalOK, Kinds
  <2>3. \A g \in Flows : server'[g] = "success" <=> g = f
    BY <1>0, <2>1 DEF LocalOK
  <2>4. Success' /\ Secret(f)' = dev[f].adv
    BY <2>1, <2>3, Names DEF Success, Secret
  <2>5. \A r \in Receivers : \A e \in Events(r)' : e.kind = "pairSuccess" => e.arg = dev[f].adv
    BY <1>0, <2>1, <2>2, PublishFacts DEF LinkInv, Success
  <2>6. ~Success /\ linked = "no" /\ queued = {} /\ ~backend.paired
    BY <2>1 DEF Success, LinkInv
  <2>7. \A g \in Flows : flow[g] \notin {"cloning", "responding", "saving", "uploading"}
    BY <2>6 DEF LinkInv
  <2> QED
    BY <2>1, <2>3, <2>4, <2>5, <2>6, <2>7 DEF LinkInv, PairedTogether
<1>23. ASSUME NEW f \in CodeFlows, SendPairSuccess(f) PROVE LinkInv'
  <2>1. /\ f \in Flows /\ server' = [server EXCEPT ![f] = "success"]
        /\ \A g \in Flows : server[g] # "success"
        /\ Publish(Event("pairSuccess", f))
        /\ linked' = linked
        /\ UNCHANGED <<linkedAdv, fresh, memory, backend, flow, dev, pairAdv, queued>>
    BY <1>23, Names DEF SendPairSuccess, Unlinked, FromServer, streamVars, flowVars
  <2>2. Event("pairSuccess", f) \in BusEvents /\ Event("pairSuccess", f).arg = f
    BY EventFacts, Names DEF Kinds
  <2>3. \A g \in Flows : server'[g] = "success" <=> g = f
    BY <1>0, <2>1 DEF LocalOK
  <2>4. Success' /\ Secret(f)' = f
    BY <1>23, <2>1, <2>3 DEF Success, Secret
  <2>5. \A r \in Receivers : \A e \in Events(r)' : e.kind = "pairSuccess" => e.arg = f
    BY <1>0, <2>1, <2>2, PublishFacts DEF LinkInv, Success
  <2>6. ~Success /\ linked = "no" /\ queued = {} /\ ~backend.paired
    BY <2>1 DEF Success, LinkInv
  <2>7. \A g \in Flows : flow[g] \notin {"cloning", "responding", "saving", "uploading"}
    BY <2>6 DEF LinkInv
  <2> QED
    BY <2>1, <2>3, <2>4, <2>5, <2>6, <2>7 DEF LinkInv, PairedTogether
<1>24. ASSUME NEW f \in Flows, QueuedSignSent(f) PROVE LinkInv'
  <2>1. /\ f \in queued /\ queued' \subseteq queued /\ Link(f) /\ flow[f] = "failed"
        /\ UNCHANGED <<server, queue, fresh, memory, backend, flow, dev, pairAdv>>
    BY <1>24 DEF QueuedSignSent, busVars, streamVars, ShapeInv, RoleInv
  <2>2. SameSuccess /\ NoNewSuccess /\ Success
    BY <2>1, NoNewFacts DEF SameSuccess, LinkInv
  <2>3. /\ Success' /\ \A g \in Flows : server[g] = "success" => Secret(g)' = Secret(g)
        /\ \A r \in Receivers : \A e \in Events(r)' : e.kind = "pairSuccess" => Success'
        /\ \A g \in Flows : server'[g] = "success" =>
              \A r \in Receivers : \A e \in Events(r)' : e.kind = "pairSuccess" => e.arg = Secret(g)'
    BY <2>2, SuccessFacts, EventSecrets
  <2>4. linked' # "no"
    BY <2>1 DEF Link
  <2>5. \A g \in Flows : server[g] = "success" => linkedAdv' = Secret(g)
    BY <2>1 DEF Link, LinkInv
  <2>6. PairedTogether'
    <3>1. pairAdv[f] = dev[f].adv /\ dev[f].adv # None
      BY <1>0, <2>1, DeviceFacts, Names DEF LinkInv, LocalOK
    <3> QED
      BY <2>1, <3>1 DEF PairedTogether, Answers
  <2>7. \A g \in Flows : flow'[g] = "saving" \/ g \in queued' => dev'[g].adv = pairAdv'[g]
    BY <2>1 DEF LinkInv
  <2> QED
    BY <2>1, <2>3, <2>4, <2>5, <2>6, <2>7 DEF LinkInv
<1>25. CASE SaveAdv
  <2>1. /\ backend' \in {fresh, backend} /\ Confirming /\ fresh # None
        /\ UNCHANGED <<server, queue, linked, linkedAdv, fresh, memory, flow, dev, pairAdv, queued>>
    BY <1>25 DEF SaveAdv, FromStream, flowVars, Confirming, ShapeInv, RoleInv
  <2>2. ~Success
    BY <2>1 DEF CodeInv, Success
  <2>3. ~backend'.paired /\ linked = "no"
    BY <2>1, <2>2 DEF LinkInv
  <2>4. SameSuccess /\ NoNewSuccess
    BY <2>1, NoNewFacts DEF SameSuccess
  <2>5. ~Success' /\ \A r \in Receivers : \A e \in Events(r)' : e.kind # "pairSuccess"
    BY <2>2, <2>4, SuccessFacts DEF LinkInv, NoNewSuccess
  <2>6. \A g \in Flows : server'[g] # "success"
    BY <2>5 DEF Success
  <2>7. \A f \in Flows : flow[f] # "saving" /\ f \notin queued
    BY <2>2 DEF LinkInv
  <2> QED
    BY <2>1, <2>2, <2>3, <2>5, <2>6, <2>7 DEF LinkInv, PairedTogether
<1>26. ASSUME NEW f \in Flows, ReadEvent(f) PROVE LinkInv'
  <2>1. /\ UNCHANGED <<server, linked, linkedAdv, fresh, memory, backend, dev, queued>>
        /\ flow[f] \in {"waitRefs", "rotating", "waiting"} /\ queue[f] # << >>
    BY <1>26 DEF ReadEvent, FromFlow
  <2>2. SameSuccess /\ SameLink
    BY <1>0, <2>1 DEF SameSuccess, SameLink
  <2>3. CASE Leave(f, "failed") /\ UNCHANGED pairAdv
    <3>1. NoNewSuccess
      BY <1>0, <2>3, LeaveFacts, NoNewFacts DEF Ended
    <3>2. SamePairs
      BY <1>0, <2>1, <2>3 DEF SamePairs, Pairs, LocalOK, Leave
    <3> QED
      BY <1>00, <2>1, <2>2, <2>3, <3>1, <3>2, LinkKept
  <2>4. CASE Next1(f) /\ UNCHANGED pairAdv /\ flow' \in {flow, [flow EXCEPT ![f] = "rotating"]}
    <3>1. NoNewSuccess
      BY <1>0, <2>4, PopFacts, NoNewFacts
    <3>2. SamePairs
      BY <1>0, <2>1, <2>4 DEF SamePairs, Pairs, LocalOK
    <3> QED
      BY <1>00, <2>1, <2>2, <2>4, <3>1, <3>2, LinkKept
  <2>5. CASE /\ Next1(f) /\ Head(queue[f]).kind = "pairSuccess"
             /\ flow' = [flow EXCEPT ![f] = IF f \in QrFlows THEN "responding" ELSE "cloning"]
             /\ pairAdv' = [pairAdv EXCEPT ![f] = Head(queue[f]).arg]
    <3>1. Head(queue[f]) \in Events(f) /\ NoNewSuccess
      BY <1>0, <2>5, PopFacts, NoNewFacts
    <3>2. /\ Success' /\ Success /\ \A g \in Flows : server[g] = "success" => Secret(g)' = Secret(g)
          /\ \A r \in Receivers : \A e \in Events(r)' : e.kind = "pairSuccess" => Success'
          /\ \A g \in Flows : server'[g] = "success" =>
                \A r \in Receivers : \A e \in Events(r)' : e.kind = "pairSuccess" => e.arg = Secret(g)'
      BY <1>0, <2>2, <2>5, <3>1, SuccessFacts, EventSecrets DEF LinkInv
    <3>3. \A g \in Flows : server[g] = "success" => Head(queue[f]).arg = Secret(g)
      BY <1>0, <2>5, <3>1 DEF LinkInv
    <3>4. \A g \in Flows : /\ g # f => flow'[g] = flow[g] /\ pairAdv'[g] = pairAdv[g]
                           /\ flow'[f] \in {"responding", "cloning"} /\ pairAdv'[f] = Head(queue[f]).arg
      BY <1>0, <2>5 DEF LocalOK
    <3>5. ASSUME NEW g \in Flows, server'[g] = "success", NEW h \in Flows,
                 flow'[h] \in {"cloning", "responding", "saving"} \/ h \in queued'
          PROVE  pairAdv'[h] = Secret(g)'
      <4>1. server[g] = "success" /\ Secret(g)' = Secret(g)
        BY <2>1, <3>2, <3>5
      <4>2. CASE h = f
        BY <3>3, <3>4, <4>1, <4>2
      <4>3. CASE h # f
        BY <2>1, <3>4, <3>5, <4>1, <4>3 DEF LinkInv
      <4> QED
        BY <4>2, <4>3
    <3>6. /\ \A g \in Flows : flow'[g] = "saving" => flow[g] = "saving" /\ g # f
          /\ f \notin queued
      BY <2>1, <3>4 DEF ShapeInv, RoleInv
    <3>7. PairedTogether'
      <4>1. \A g \in Flows : Answers(g) /\ flow[g] \in {"saving", "failed"}
                => Answers(g)' /\ flow'[g] \in {"saving", "failed"}
        BY <2>1, <3>4 DEF Answers
      <4> QED
        BY <2>1, <4>1 DEF LinkInv, PairedTogether
    <3>8. \A g \in Flows : flow'[g] = "saving" \/ g \in queued' => dev'[g].adv = pairAdv'[g]
      BY <2>1, <3>4, <3>6 DEF LinkInv
    <3>9. \A g \in Flows : flow'[g] = "saving" /\ prompt' => linked' # "no"
      BY <1>0, <2>1, <3>6 DEF LinkInv
    <3>10. /\ \A g \in Flows : server'[g] = "success" => (linked' # "no" => linkedAdv' = Secret(g)')
           /\ \A g \in Flows : server'[g] = "success" /\ backend'.paired =>
                  backend'.adv = Secret(g)' /\ (prompt' => linked' # "no")
      BY <1>0, <2>1, <3>2 DEF LinkInv
    <3>11. /\ queued' # {} \/ linked' # "no" \/ backend'.paired \/ memory'.paired => Success'
           /\ fresh' # None /\ fresh'.paired => Success'
      BY <3>2
    <3> QED
      BY <3>2, <3>5, <3>7, <3>8, <3>9, <3>10, <3>11 DEF LinkInv
  <2> QED
    BY <1>26, <2>3, <2>4, <2>5 DEF ReadEvent
<1>27. ASSUME NEW f \in Flows, Respond(f) PROVE LinkInv'
  <2>1. /\ UNCHANGED <<server, fresh, memory, backend, dev, pairAdv>> /\ flow[f] = "responding"
    BY <1>27 DEF Respond, FromFlow
  <2>2. SameSuccess /\ Success
    BY <2>1 DEF SameSuccess, LinkInv
  <2>3. /\ Success' /\ \A g \in Flows : server[g] = "success" => Secret(g)' = Secret(g)
        /\ \A g \in Flows : server[g] = "success" => pairAdv[f] = Secret(g)
    BY <2>1, <2>2, SuccessFacts DEF LinkInv
  <2>4. CASE /\ pairAdv[f] = dev[f].adv /\ flow' = [flow EXCEPT ![f] = "saving"]
             /\ Link(f) \/ (~prompt /\ UNCHANGED <<linked, linkedAdv>>)
             /\ UNCHANGED busVars /\ queued' = queued
    <3>1. /\ \A r \in Receivers : \A e \in Events(r)' : e.kind = "pairSuccess" => Success'
          /\ \A g \in Flows : server'[g] = "success" =>
                \A r \in Receivers : \A e \in Events(r)' : e.kind = "pairSuccess" => e.arg = Secret(g)'
      BY <2>2, <2>4, EventSecrets, NoNewFacts DEF busVars
    <3>2. \A g \in Flows : /\ g # f => flow'[g] = flow[g]
                           /\ flow'[f] = "saving"
      BY <1>0, <2>4 DEF LocalOK
    <3>3. /\ prompt => linked' # "no"
          /\ \A g \in Flows : server[g] = "success" /\ linked' # "no" => linkedAdv' = Secret(g)
      BY <2>3, <2>4 DEF Link, LinkInv
    <3>4. PairedTogether'
      <4>1. pairAdv'[f] # None /\ pairAdv'[f] = dev'[f].adv
        BY <1>0, <2>1, <2>4, DeviceFacts, Names DEF LocalOK
      <4> QED
        BY <3>2, <4>1 DEF PairedTogether, Answers
    <3>5. ASSUME NEW g \in Flows, server'[g] = "success"
          PROVE  /\ \A h \in Flows : flow'[h] \in {"cloning", "responding", "saving"} \/ h \in queued'
                      => pairAdv'[h] = Secret(g)'
                 /\ linked' # "no" => linkedAdv' = Secret(g)'
                 /\ backend'.paired => backend'.adv = Secret(g)' /\ (prompt' => linked' # "no")
      BY <1>0, <2>1, <2>3, <2>4, <3>2, <3>3, <3>5 DEF LinkInv
    <3>6. \A g \in Flows : flow'[g] = "saving" \/ g \in queued' => dev'[g].adv = pairAdv'[g]
      BY <2>1, <2>4, <3>2 DEF LinkInv
    <3>7. \A g \in Flows : flow'[g] = "saving" /\ prompt' => linked' # "no"
      BY <1>0, <3>3
    <3> QED
      BY <2>3, <3>1, <3>4, <3>5, <3>6, <3>7 DEF LinkInv
  <2>5. CASE /\ Leave(f, "failed") /\ UNCHANGED <<linked, linkedAdv>>
             /\ queued' \in {queued, IF pairAdv[f] = dev[f].adv THEN queued \cup {f} ELSE queued}
    <3>1. /\ \A r \in Receivers : \A e \in Events(r)' : e.kind = "pairSuccess" => Success'
          /\ \A g \in Flows : server'[g] = "success" =>
                \A r \in Receivers : \A e \in Events(r)' : e.kind = "pairSuccess" => e.arg = Secret(g)'
      BY <1>0, <2>2, <2>5, EventSecrets, NoNewFacts, LeaveFacts DEF Ended
    <3>2. \A g \in Flows : /\ g # f => flow'[g] = flow[g]
                           /\ flow'[f] = "failed"
      BY <1>0, <2>5 DEF LocalOK, Leave
    <3>3. PairedTogether'
      <4>1. \A g \in Flows : Answers(g) /\ flow[g] \in {"saving", "failed"}
                => Answers(g)' /\ flow'[g] \in {"saving", "failed"}
        BY <2>1, <3>2 DEF Answers
      <4> QED
        BY <2>1, <2>5, <4>1 DEF LinkInv, PairedTogether
    <3>4. ASSUME NEW g \in Flows, server'[g] = "success"
          PROVE  /\ \A h \in Flows : flow'[h] \in {"cloning", "responding", "saving"} \/ h \in queued'
                      => pairAdv'[h] = Secret(g)'
                 /\ linked' # "no" => linkedAdv' = Secret(g)'
                 /\ backend'.paired => backend'.adv = Secret(g)' /\ (prompt' => linked' # "no")
      BY <1>0, <2>1, <2>3, <2>5, <3>2, <3>4 DEF LinkInv
    <3>5. \A g \in Flows : flow'[g] = "saving" \/ g \in queued' => dev'[g].adv = pairAdv'[g]
      BY <2>1, <2>5, <3>2 DEF LinkInv
    <3>6. \A g \in Flows : flow'[g] = "saving" /\ prompt' => linked' # "no"
      BY <1>0, <2>5, <3>2 DEF LinkInv
    <3> QED
      BY <2>3, <3>1, <3>3, <3>4, <3>5, <3>6 DEF LinkInv
  <2> QED
    BY <1>27, <2>4, <2>5 DEF Respond
<1>28. ASSUME NEW f \in Flows, Save(f) PROVE LinkInv'
  <2> DEFINE paired == [dev[f] EXCEPT !.paired = TRUE]
  <2>1. /\ UNCHANGED <<server, linked, linkedAdv, fresh, memory, dev, pairAdv, queued>> /\ flow[f] = "saving"
        /\ prompt => linked # "no"
        /\ pairAdv[f] = dev[f].adv
        /\ backend' \in {backend, paired}
    BY <1>28 DEF Save, FromFlow, LinkInv
  <2>2. SameSuccess /\ Success
    BY <2>1 DEF SameSuccess, LinkInv
  <2>3. /\ Success' /\ \A g \in Flows : server[g] = "success" => Secret(g)' = Secret(g)
        /\ \A g \in Flows : server[g] = "success" => pairAdv[f] = Secret(g)
    BY <2>1, <2>2, SuccessFacts DEF LinkInv
  <2>4. NoNewSuccess
    <3>1. ASSUME Leave(f, "failed") PROVE NoNewSuccess
      BY <1>0, <3>1, LeaveFacts, NoNewFacts DEF Ended
    <3>2. ASSUME UNCHANGED busVars PROVE NoNewSuccess
      BY <3>2, NoNewFacts DEF busVars
    <3> QED
      BY <1>28, <3>1, <3>2 DEF Save
  <2>5. /\ \A r \in Receivers : \A e \in Events(r)' : e.kind = "pairSuccess" => Success'
        /\ \A g \in Flows : server'[g] = "success" =>
              \A r \in Receivers : \A e \in Events(r)' : e.kind = "pairSuccess" => e.arg = Secret(g)'
    BY <2>2, <2>4, EventSecrets
  <2>6. /\ \A g \in Flows : g # f => flow'[g] = flow[g]
        /\ flow'[f] = "failed" \/ (flow'[f] = "uploading" /\ backend' = paired)
    BY <1>0, <1>28 DEF LocalOK, Save, Leave
  <2>7. paired.paired /\ paired.adv = dev[f].adv
    BY <1>0, DeviceFacts DEF LocalOK
  <2>8. PairedTogether'
    <3>1. pairAdv'[f] # None /\ pairAdv'[f] = dev'[f].adv
      BY <1>0, <2>1, DeviceFacts, Names DEF LocalOK
    <3> QED
      BY <2>6, <2>7, <3>1 DEF PairedTogether, Answers
  <2>9. \A g \in Flows : server[g] = "success" => (backend'.paired => backend'.adv = Secret(g))
    BY <2>1, <2>3, <2>7 DEF LinkInv
  <2>10. \A g \in Flows : flow'[g] \in {"cloning", "responding", "saving"} => flow'[g] = flow[g]
    BY <2>6
  <2> HIDE DEF paired
  <2>11. ASSUME NEW g \in Flows, server'[g] = "success"
         PROVE  /\ \A h \in Flows : flow'[h] \in {"cloning", "responding", "saving"} \/ h \in queued'
                      => pairAdv'[h] = Secret(g)'
                /\ linked' # "no" => linkedAdv' = Secret(g)'
                /\ backend'.paired => backend'.adv = Secret(g)' /\ (prompt' => linked' # "no")
    BY <1>0, <2>1, <2>3, <2>9, <2>10, <2>11 DEF LinkInv
  <2>12. /\ \A g \in Flows : flow'[g] = "saving" \/ g \in queued' => dev'[g].adv = pairAdv'[g]
         /\ \A g \in Flows : flow'[g] = "saving" /\ prompt' => linked' # "no"
    BY <1>0, <2>1, <2>10 DEF LinkInv
  <2> QED
    BY <2>3, <2>5, <2>8, <2>11, <2>12 DEF LinkInv
<1>29. ASSUME NEW f \in CodeFlows, UserMistypes(f) PROVE LinkInv'
  <2>1. NoNewSuccess
    <3>1. Event("confirm", Junk) \in BusEvents /\ Event("confirm", Junk).kind # "pairSuccess"
      BY EventFacts, Names DEF Kinds
    <3> QED
      BY <1>0, <1>29, <3>1, PublishFacts, NoNewFacts DEF UserMistypes
  <2>2. SameSuccess
    BY <1>0, <1>29, Names DEF ShapeInv, RoleInv, SameSuccess, LocalOK, UserMistypes, FromServer, streamVars, flowVars
  <2>3. SamePairs
    BY <1>0, <1>29, Names DEF SamePairs, Pairs, LocalOK, UserMistypes, FromServer, streamVars, flowVars
  <2>4. /\ SameLink /\ pairAdv' = pairAdv /\ queued' = queued /\ backend' = backend
        /\ memory'.paired => Success
        /\ fresh' # None /\ fresh'.paired => Success
    BY <1>0, <1>00, <1>29 DEF SameLink, UserMistypes, FromServer, streamVars, flowVars
  <2> QED
    BY <2>1, <2>2, <2>3, <2>4, LinkKept
<1>30. ASSUME NEW f \in CodeFlows, HelloArrives(f) PROVE LinkInv'
  <2>1. NoNewSuccess
    BY <1>30, NoNewFacts DEF HelloArrives, busVars
  <2>2. SameSuccess
    BY <1>0, <1>30, Names DEF ShapeInv, RoleInv, SameSuccess, LocalOK, HelloArrives, busVars, streamVars, Wanted
  <2>3. SamePairs
    BY <1>0, <1>30, Names DEF SamePairs, Pairs, LocalOK, HelloArrives, busVars, streamVars
  <2>4. /\ SameLink /\ pairAdv' = pairAdv /\ queued' = queued /\ backend' = backend
        /\ memory'.paired => Success
        /\ fresh' # None /\ fresh'.paired => Success
    BY <1>0, <1>00, <1>30 DEF SameLink, HelloArrives, busVars, streamVars
  <2> QED
    BY <2>1, <2>2, <2>3, <2>4, LinkKept
<1>31. ASSUME NEW f \in CodeFlows, HelloFails(f) PROVE LinkInv'
  <2>1. NoNewSuccess
    BY <1>31, NoNewFacts DEF HelloFails, busVars
  <2>2. SameSuccess
    BY <1>0, <1>31, Names DEF ShapeInv, RoleInv, SameSuccess, LocalOK, HelloFails, FromFlow, busVars
  <2>3. SamePairs
    BY <1>0, <1>31, Names DEF SamePairs, Pairs, LocalOK, HelloFails, FromFlow, busVars
  <2>4. /\ SameLink /\ pairAdv' = pairAdv /\ queued' = queued /\ backend' = backend
        /\ memory'.paired => Success
        /\ fresh' # None /\ fresh'.paired => Success
    BY <1>0, <1>00, <1>31 DEF SameLink, HelloFails, FromFlow, busVars
  <2> QED
    BY <2>1, <2>2, <2>3, <2>4, LinkKept
<1>32. ASSUME NEW f \in CodeFlows, StoreCode(f) PROVE LinkInv'
  <2>1. NoNewSuccess
    BY <1>32, NoNewFacts DEF StoreCode, busVars
  <2>2. SameSuccess
    BY <1>0, <1>32, Names DEF ShapeInv, RoleInv, SameSuccess, LocalOK, StoreCode, FromFlow, busVars
  <2>3. SamePairs
    BY <1>0, <1>32, Names DEF SamePairs, Pairs, LocalOK, StoreCode, FromFlow, busVars
  <2>4. /\ SameLink /\ pairAdv' = pairAdv /\ queued' = queued /\ backend' = backend
        /\ memory'.paired => Success
        /\ fresh' # None /\ fresh'.paired => Success
    BY <1>0, <1>00, <1>32 DEF SameLink, StoreCode, FromFlow, busVars
  <2> QED
    BY <2>1, <2>2, <2>3, <2>4, LinkKept
<1> QED
  BY <1>1, <1>2, <1>3, <1>4, <1>5, <1>6, <1>7, <1>8, <1>9, <1>10, <1>11, <1>12, <1>13, <1>14,
     <1>15, <1>16,
     <1>17, <1>18, <1>19, <1>20, <1>21, <1>22, <1>23, <1>24, <1>25, <1>26, <1>27, <1>28,
     <1>29, <1>30, <1>31, <1>32, Names
  DEF Next, ServerNext, StreamNext, FlowNext

-----------------------------------------------------------------------------
(* The reconnect, if the tasks keep up.                                    *)

LEMMA ConnectedPop ==
    ASSUME NEW q \in Seq(BusEvents), q # << >>
    PROVE  /\ ConnectedNext(q) /\ Head(q).kind # "connected" => ConnectedNext(Tail(q))
           /\ ConnectedNext(q) => Head(q).kind # "lost"
<1> DEFINE t == Tail(q)
<1>1. /\ Len(q) \in Nat \ {0} /\ Len(t) = Len(q) - 1 /\ Head(q) = q[1]
      /\ \A i \in 1..Len(t) : t[i] = q[i + 1]
  BY ElemsPop
<1> HIDE DEF t
<1> SUFFICES ASSUME ConnectedNext(q)
             PROVE  (Head(q).kind # "connected" => ConnectedNext(t)) /\ Head(q).kind # "lost"
  BY DEF t
<1>2. PICK i \in 1..Len(q) : q[i].kind = "connected" /\ \A j \in 1..(i - 1) : q[j].kind # "lost"
  BY DEF ConnectedNext
<1>3. CASE i = 1
  BY <1>1, <1>2, <1>3
<1>4. CASE i # 1
  <2>1. 1 \in 1..(i - 1) /\ i - 1 \in 1..Len(t) /\ t[i - 1] = q[i]
    BY <1>1, <1>2, <1>4
  <2>2. \A j \in 1..((i - 1) - 1) : t[j] = q[j + 1] /\ j + 1 \in 1..(i - 1)
    BY <1>1, <1>2, <1>4
  <2>3. ConnectedNext(t)
    BY <1>2, <2>1, <2>2 DEF ConnectedNext
  <2> QED
    BY <1>1, <1>2, <2>1, <2>3
<1> QED
  BY <1>3, <1>4

LEMMA ConnectedPush ==
    ASSUME NEW q \in Seq(BusEvents), NEW e \in BusEvents
    PROVE  /\ ConnectedNext(q) => ConnectedNext(Append(q, e))
           /\ q = << >> /\ e.kind = "connected" => ConnectedNext(Append(q, e))
<1> DEFINE a == Append(q, e)
<1>1. /\ Len(q) \in Nat /\ Len(a) = Len(q) + 1 /\ a[Len(q) + 1] = e
      /\ \A i \in 1..Len(q) : a[i] = q[i]
      /\ q = << >> => Len(q) = 0
  BY ElemsAppend, LenProperties, EmptySeq
<1> HIDE DEF a
<1>2. ASSUME ConnectedNext(q) PROVE ConnectedNext(a)
  <2>1. PICK i \in 1..Len(q) : q[i].kind = "connected" /\ \A j \in 1..(i - 1) : q[j].kind # "lost"
    BY <1>2 DEF ConnectedNext
  <2>2. i \in 1..Len(a) /\ \A j \in 1..(i - 1) : j \in 1..Len(q)
    BY <1>1, <2>1
  <2> QED
    BY <1>1, <2>1, <2>2 DEF ConnectedNext
<1>3. ASSUME q = << >>, e.kind = "connected" PROVE ConnectedNext(a)
  <2>1. 1 \in 1..Len(a) /\ a[1] = e /\ \A j \in 1..(1 - 1) : FALSE
    BY <1>1, <1>3
  <2> QED
    BY <1>3, <2>1 DEF ConnectedNext
<1> QED
  BY <1>2, <1>3 DEF a

LEMMA KeepUpFacts ==
    ASSUME QueueOK, prompt, TasksKeepUp
    PROVE  /\ \A r \in Receivers : queue[r] = << >> /\ Events(r) = {}
           /\ Room \/ ~(listening \subseteq Receivers)
           /\ streamPc = "idle" /\ \A f \in Flows : flow[f] \notin {"spawned", "cloning", "saving"}
<1>1. \A r \in Receivers : queue[r] = << >>
  BY DEF TasksKeepUp
<1>2. \A r \in Receivers : Events(r) = {} /\ Len(queue[r]) = 0
  BY <1>1, ElemsEmpty, EventsElems, EmptySeq
<1>3. Room \/ ~(listening \subseteq Receivers)
  BY <1>2, PairingAssumption DEF Room
<1> QED
  BY <1>1, <1>2, <1>3 DEF TasksKeepUp

LEMMA NotLinkedFacts ==
    ASSUME LinkInv, ~Success
    PROVE  linked = "no" /\ \A f \in Flows : flow[f] \notin {"cloning", "responding", "saving", "uploading"}
  BY DEF LinkInv

\* A step of a flow that reads no pair-success and ends no pairing.
LEMMA PromptKept ==
    ASSUME PromptInv, prompt' = prompt, Success' <=> Success, NoNewSuccess,
           UNCHANGED <<conn, linked, streamPc, silent, fresh, memory, backend, flag>>,
           queue'[Stream] = queue[Stream],
           \A f \in Flows : /\ flow'[f] \in {"cloning", "responding", "saving"}
                                 => flow'[f] = flow[f] /\ queue'[f] = queue[f]
                            /\ flow[f] = "failed" => flow'[f] = "failed"
    PROVE  PromptInv'
<1> SUFFICES ASSUME prompt PROVE LeftInv' /\ BetweenInv' /\ FlagInv' /\ ReloadInv'
  BY DEF PromptInv
<1>1. Events(Stream)' = Events(Stream)
  BY DEF Events
<1>2. LeftInv'
  BY DEF PromptInv, LeftInv, NoNewSuccess
<1>3. BetweenInv'
  BY <1>1 DEF PromptInv, BetweenInv, KindIn
<1>4. FlagInv'
  BY DEF PromptInv, FlagInv
<1>5. ReloadInv'
  BY <1>1 DEF PromptInv, ReloadInv, KindIn
<1> QED
  BY <1>2, <1>3, <1>4, <1>5

LEMMA InitPrompt == Init => PromptInv
<1> SUFFICES ASSUME Init PROVE PromptInv
  OBVIOUS
<1>1. \A f \in Flows : server[f] = "none" /\ flow[f] = "idle"
  BY DEF Init
<1>2. ~Success /\ Events(Stream) = {} /\ linked = "no"
  BY <1>1, ElemsEmpty, EventsElems, Names DEF Init, Success
<1> QED
  BY <1>1, <1>2 DEF PromptInv, LeftInv, BetweenInv, FlagInv, ReloadInv, KindIn

LEMMA PromptStep == ShapeInv /\ CodeInv /\ LinkInv /\ PromptInv /\ Next => PromptInv'
<1> SUFFICES ASSUME ShapeInv, CodeInv, LinkInv, PromptInv, Next, prompt PROVE PromptInv'
  BY DEF PromptInv, Next
<1>0. /\ QueueOK /\ LocalOK /\ listening \subseteq Receivers /\ Stream \in listening
      /\ Stream \in Receivers /\ \A f \in Flows : f # Stream /\ f \in Receivers
      /\ LeftInv /\ BetweenInv /\ FlagInv /\ ReloadInv /\ prompt' = prompt
      /\ queue[Stream] \in Seq(BusEvents)
  BY QueueTyped, TypeSplit, Names DEF ShapeInv, RoleInv, PromptInv, Next, QueueOK
<1>1. CASE Connect
  <2> DEFINE e == Event("connected", None)
  <2>1. /\ conn' = "up" /\ linked' = IF linked = "dropped" THEN "settled" ELSE linked
        /\ conn = "down" /\ TasksKeepUp /\ TryPublish(e)
        /\ UNCHANGED <<server, listening, streamPc, silent, fresh, memory, flag, backend, flow, dev>>
    BY <1>1 DEF Connect, streamVars, flowVars
  <2>2. e \in BusEvents /\ e.kind = "connected"
    BY EventFacts DEF Kinds
  <2>3. /\ \A r \in Receivers : queue[r] = << >> /\ Events(r) = {}
        /\ Room /\ streamPc = "idle" /\ \A f \in Flows : flow[f] \notin {"spawned", "cloning", "saving"}
    BY <1>0, <2>1, KeepUpFacts
  <2>4. /\ \A r \in Receivers : Events(r)' \subseteq {e}
        /\ queue'[Stream] = Append(queue[Stream], e)
    BY <1>0, <2>1, <2>2, <2>3, TryPublishFacts
  <2>5. e \in Events(Stream)' /\ ConnectedNext(queue'[Stream])
    <3>1. Elems(queue'[Stream]) = Elems(queue[Stream]) \cup {e}
      BY <1>0, <2>2, <2>4, ElemsAppend
    <3> QED
      BY <1>0, <2>2, <2>3, <2>4, <3>1, ConnectedPush, EventsElems
  <2>6. Success' <=> Success
    BY <2>1, SuccessFacts DEF SameSuccess
  <2>7. Success => linked \in {"dropped", "settled"}
    BY <1>0, <2>1 DEF BetweenInv, LocalOK
  <2>8. ~Success => linked = "no" /\ \A f \in Flows : flow[f] \notin {"cloning", "responding", "saving"}
    BY NotLinkedFacts
  <2> HIDE DEF e
  <2>9. LeftInv'
    BY <1>0, <2>1, <2>2, <2>3, <2>4, <2>7, <2>8 DEF LeftInv
  <2>10. BetweenInv'
    BY <2>1, <2>2, <2>4, <2>6, <2>7, <1>0 DEF BetweenInv, KindIn
  <2>11. FlagInv'
    BY <2>1, <2>7, <2>8 DEF FlagInv
  <2>12. ReloadInv'
    BY <2>1, <2>2, <2>3, <2>5 DEF ReloadInv, KindIn
  <2> QED
    BY <2>9, <2>10, <2>11, <2>12 DEF PromptInv
<1>2. CASE ForcedDrop
  <2> DEFINE e == Event("forced", None)
  <2>1. /\ conn' = "down" /\ linked' = "dropped" /\ linked \in {"forcing", "ending"}
        /\ TasksKeepUp /\ TryPublish(e)
        /\ UNCHANGED <<server, listening, streamPc, silent, fresh, memory, flag, backend, flow, dev>>
    BY <1>2 DEF ForcedDrop, streamVars, flowVars
  <2>2. e \in BusEvents /\ e.kind = "forced"
    BY EventFacts DEF Kinds
  <2>3. /\ \A r \in Receivers : queue[r] = << >> /\ Events(r) = {}
        /\ Room /\ streamPc = "idle" /\ \A f \in Flows : flow[f] \notin {"spawned", "cloning", "saving"}
    BY <1>0, <2>1, KeepUpFacts
  <2>4. /\ \A r \in Receivers : Events(r)' \subseteq {e}
        /\ \A r \in listening : queue'[r] = Append(queue[r], e)
    BY <1>0, <2>1, <2>2, <2>3, TryPublishFacts
  <2>5. \A f \in Flows : flow[f] = "responding" => queue'[f] # << >>
    <3> TAKE f \in Flows
    <3> HAVE flow[f] = "responding"
    <3>1. f \in listening /\ queue[f] \in Seq(BusEvents)
      BY <1>0 DEF ShapeInv, RoleInv, Active, QueueOK
    <3> QED
      BY <2>2, <2>4, <3>1, ElemsAppend
  <2> HIDE DEF e
  <2>6. LeftInv'
    BY <2>1, <2>2, <2>3, <2>4, <2>5 DEF LeftInv
  <2>7. BetweenInv'
    BY <1>0, <2>1, <2>2, <2>3, <2>4 DEF BetweenInv, KindIn
  <2>8. FlagInv'
    BY <1>0, <2>1 DEF FlagInv
  <2>9. ReloadInv'
    BY <2>1 DEF ReloadInv
  <2> QED
    BY <2>6, <2>7, <2>8, <2>9 DEF PromptInv
<1>3. CASE Drop
  <2> DEFINE e == Event("lost", None)
  <2>1. /\ conn' = "down" /\ linked' = linked /\ linked = "settled" /\ conn = "up" /\ TryPublish(e)
        /\ UNCHANGED <<server, listening, streamPc, silent, fresh, memory, flag, backend, flow, dev>>
    BY <1>3 DEF Drop, serverVars, streamVars, flowVars
  <2>2. e \in BusEvents /\ e.kind = "lost"
    BY EventFacts DEF Kinds
  <2>3. /\ \A r \in Receivers : Events(r) \subseteq Events(r)' /\ Events(r)' \subseteq Events(r) \cup {e}
        /\ queue'[Stream] = queue[Stream] \/ queue'[Stream] = Append(queue[Stream], e)
    BY <1>0, <2>1, <2>2, TryPublishFacts
  <2> HIDE DEF e
  <2>4. \A f \in Flows : flow[f] \notin {"cloning", "responding", "saving"}
    BY <1>0, <2>1 DEF LeftInv
  <2>5. LeftInv'
    BY <1>0, <2>1, <2>2, <2>3, <2>4 DEF LeftInv
  <2>6. BetweenInv'
    BY <1>0, <2>1, <2>2, <2>3 DEF BetweenInv, KindIn
  <2>7. FlagInv'
    BY <2>1 DEF FlagInv
  <2>8. ConnectedNext(queue[Stream]) => ConnectedNext(queue'[Stream])
    BY <1>0, <2>2, <2>3, ConnectedPush
  <2>9. KindIn({"connected"}) => KindIn({"connected"})'
    BY <1>0, <2>3 DEF KindIn
  <2>10. ReloadInv'
    BY <1>0, <2>1, <2>8, <2>9 DEF ReloadInv
  <2> QED
    BY <2>5, <2>6, <2>7, <2>10 DEF PromptInv
<1>4. CASE SendPairDevice
  <2> DEFINE e == Event("pairDevice", None)
  <2>1. /\ conn' = conn /\ linked' = linked /\ linked = "no" /\ Publish(e)
        /\ UNCHANGED <<server, listening, streamPc, silent, fresh, memory, flag, backend, flow, dev>>
    BY <1>4 DEF SendPairDevice, FromServer, streamVars, flowVars
  <2>2. e \in BusEvents /\ e.kind = "pairDevice"
    BY EventFacts DEF Kinds
  <2>3. Events(Stream)' \subseteq Events(Stream) \cup {e}
    BY <1>0, <2>1, <2>2, PublishFacts
  <2>4. Success' <=> Success
    BY <2>1, SuccessFacts DEF SameSuccess
  <2> HIDE DEF e
  <2>5. BetweenInv'
    BY <1>0, <2>1, <2>2, <2>3, <2>4 DEF BetweenInv, KindIn
  <2> QED
    BY <1>0, <2>1, <2>5 DEF PromptInv, LeftInv, FlagInv, ReloadInv
<1>5. CASE SendStreamError
  <2> DEFINE e == Event("streamError", None)
  <2>1. /\ conn' = conn /\ linked' = "ending" /\ linked = "forcing" /\ conn = "up" /\ Publish(e)
        /\ UNCHANGED <<server, listening, streamPc, silent, fresh, memory, flag, backend, flow, dev>>
    BY <1>5 DEF SendStreamError, FromServer, streamVars, flowVars
  <2>2. e \in BusEvents /\ e.kind = "streamError"
    BY EventFacts DEF Kinds
  <2>3. Events(Stream)' \subseteq Events(Stream) \cup {e}
    BY <1>0, <2>1, <2>2, PublishFacts
  <2>4. (Success' <=> Success) /\ Success
    BY <2>1, SuccessFacts DEF SameSuccess, LinkInv
  <2> HIDE DEF e
  <2>5. BetweenInv'
    BY <1>0, <2>1, <2>2, <2>3, <2>4 DEF BetweenInv, KindIn
  <2> QED
    BY <1>0, <2>1, <2>5 DEF PromptInv, LeftInv, FlagInv, ReloadInv
<1>6. ASSUME NEW f \in Flows, NEW e \in BusEvents, e.kind \in {"pairSuccess", "confirm"},
             Unlinked, TasksKeepUp, Publish(e), conn' = conn, linked' = linked,
             UNCHANGED <<listening, streamPc, silent, fresh, memory, flag, backend, flow>>
      PROVE  PromptInv'
  <2>1. linked = "no" /\ conn = "up" /\ ~Success
    BY <1>6 DEF Unlinked, Success
  <2>2. Events(Stream) = {} /\ streamPc = "idle"
    BY <1>0, <1>6, KeepUpFacts
  <2>3. Events(Stream)' \subseteq {e}
    BY <1>0, <1>6, <2>2, PublishFacts
  <2>4. \A g \in Flows : flow[g] \notin {"cloning", "responding", "saving"}
    BY <2>1, NotLinkedFacts
  <2>5. BetweenInv'
    BY <1>6, <2>1, <2>2, <2>3 DEF BetweenInv, KindIn
  <2> QED
    BY <1>6, <2>1, <2>4, <2>5 DEF PromptInv, LeftInv, FlagInv, ReloadInv
<1>7. ASSUME NEW f \in QrFlows, UserScans(f) PROVE PromptInv'
  <2>1. Event("pairSuccess", dev[f].adv) \in BusEvents /\ Event("pairSuccess", dev[f].adv).kind = "pairSuccess"
    BY <1>0, DeviceFacts, EventFacts, Names DEF LocalOK, Kinds
  <2> QED
    BY <1>6, <1>7, <2>1, Names DEF UserScans, FromServer, streamVars, flowVars
<1>8. ASSUME NEW f \in CodeFlows, UserConfirms(f) PROVE PromptInv'
  <2>1. Event("confirm", f) \in BusEvents /\ Event("confirm", f).kind = "confirm"
    BY EventFacts, Names DEF Kinds
  <2> QED
    BY <1>6, <1>8, <2>1, Names DEF UserConfirms, FromServer, streamVars, flowVars
<1>9. ASSUME NEW f \in CodeFlows, SendPairSuccess(f) PROVE PromptInv'
  <2>1. Event("pairSuccess", f) \in BusEvents /\ Event("pairSuccess", f).kind = "pairSuccess"
    BY EventFacts, Names DEF Kinds
  <2> QED
    BY <1>6, <1>9, <2>1, Names DEF SendPairSuccess, FromServer, streamVars, flowVars
<1>10. ASSUME NEW f \in Flows, QueuedSignSent(f) PROVE PromptInv'
  <2>1. /\ linked' = IF linked = "no" THEN "forcing" ELSE linked
        /\ flow[f] = "failed" /\ Success /\ conn' = conn
        /\ UNCHANGED <<server, queue, streamPc, silent, fresh, memory, flag, backend, flow, dev>>
    BY <1>10 DEF QueuedSignSent, Link, busVars, streamVars, ShapeInv, RoleInv, LinkInv
  <2>2. (Success' <=> Success) /\ \A r : Events(r)' = Events(r)
    BY <2>1, SuccessFacts, QueueSame DEF SameSuccess
  <2>3. LeftInv'
    BY <1>0, <2>1, <2>2 DEF LeftInv
  <2>4. BetweenInv'
    BY <1>0, <2>1, <2>2 DEF BetweenInv, KindIn
  <2>5. FlagInv'
    BY <2>1 DEF FlagInv
  <2>6. ReloadInv'
    BY <1>0, <2>1, <2>2 DEF ReloadInv, KindIn
  <2> QED
    BY <2>3, <2>4, <2>5, <2>6 DEF PromptInv
<1>11. ASSUME streamPc = "idle", Next1(Stream), server' = server, conn' = conn, linked' = linked,
              listening' = listening, flow' = flow, backend' = backend, flag' = flag
       PROVE  /\ LeftInv' /\ FlagInv'
              /\ Success' <=> Success
              /\ KindIn({"forced", "streamError"})' => linked' \in {"ending", "dropped"}
              /\ KindIn({"connected"})' => KindIn({"connected"})
              /\ \A k \in Kinds : Head(queue[Stream]).kind = k => KindIn({k})
              /\ Head(queue[Stream]).kind # "connected" => (KindIn({"connected"}) => KindIn({"connected"})')
  <2>1. /\ \A r \in Receivers : Events(r)' \subseteq Events(r)
        /\ \A f \in Flows : queue'[f] = queue[f]
        /\ Events(Stream) = {Head(queue[Stream])} \cup Events(Stream)'
    BY <1>0, <1>11, PopFacts
  <2>2. LeftInv'
    BY <1>0, <1>11, <2>1 DEF LeftInv
  <2>3. FlagInv'
    BY <1>0, <1>11 DEF FlagInv
  <2>5. Success' <=> Success
    BY <1>11 DEF Success
  <2> QED
    BY <1>0, <1>11, <2>1, <2>2, <2>3, <2>5 DEF KindIn, BetweenInv
<1>12. CASE HandleConnected
  <2>1. /\ LeftInv' /\ FlagInv'
        /\ Success' <=> Success
        /\ KindIn({"forced", "streamError"})' => linked' \in {"ending", "dropped"}
        /\ KindIn({"connected"})' => KindIn({"connected"})
        /\ \A k \in Kinds : Head(queue[Stream]).kind = k => KindIn({k})
        /\ Head(queue[Stream]).kind # "connected" => (KindIn({"connected"}) => KindIn({"connected"})')
    BY <1>11, <1>12 DEF HandleConnected, FromStream, flowVars
  <2>2. /\ KindIn({"connected"}) /\ streamPc' = "load" /\ silent' = flag /\ flag' = flag
        /\ conn' = conn /\ linked' = linked
    BY <1>12, <2>1 DEF HandleConnected, FromStream, Kinds
  <2>3. Success => linked = "settled"
    BY <1>0, <2>2 DEF BetweenInv
  <2>4. BetweenInv'
    BY <1>0, <2>1, <2>2, <2>3 DEF BetweenInv
  <2>5. ReloadInv'
    BY <1>0, <2>2 DEF ReloadInv, LocalOK
  <2> QED
    BY <2>1, <2>4, <2>5 DEF PromptInv
<1>13. CASE HandleDisconnected
  <2>1. /\ LeftInv' /\ FlagInv'
        /\ Success' <=> Success
        /\ KindIn({"forced", "streamError"})' => linked' \in {"ending", "dropped"}
        /\ KindIn({"connected"})' => KindIn({"connected"})
        /\ \A k \in Kinds : Head(queue[Stream]).kind = k => KindIn({k})
        /\ Head(queue[Stream]).kind # "connected" => (KindIn({"connected"}) => KindIn({"connected"})')
    BY <1>11, <1>13 DEF HandleDisconnected, FromStream, flowVars
  <2>2. /\ streamPc = "idle" /\ queue[Stream] # << >> /\ queue'[Stream] = Tail(queue[Stream])
        /\ UNCHANGED <<streamPc, silent, fresh, memory, backend, flag, conn, linked>>
        /\ Head(queue[Stream]).kind # "connected"
    BY <1>0, <1>13, PopFacts DEF HandleDisconnected, FromStream
  <2>3. BetweenInv'
    BY <1>0, <2>1, <2>2 DEF BetweenInv
  <2>4. ConnectedNext(queue[Stream]) => ConnectedNext(queue'[Stream])
    BY <1>0, <2>2, ConnectedPop
  <2>5. ReloadInv'
    BY <1>0, <2>1, <2>2, <2>4 DEF ReloadInv
  <2> QED
    BY <2>1, <2>3, <2>5 DEF PromptInv
<1>14. CASE HandleStreamError
  <2>1. /\ LeftInv' /\ FlagInv'
        /\ Success' <=> Success
        /\ KindIn({"forced", "streamError"})' => linked' \in {"ending", "dropped"}
        /\ KindIn({"connected"})' => KindIn({"connected"})
        /\ \A k \in Kinds : Head(queue[Stream]).kind = k => KindIn({k})
        /\ Head(queue[Stream]).kind # "connected" => (KindIn({"connected"}) => KindIn({"connected"})')
    BY <1>11, <1>14 DEF HandleStreamError, FromStream, flowVars
  <2>2. /\ streamPc = "idle" /\ queue[Stream] # << >> /\ queue'[Stream] = Tail(queue[Stream])
        /\ UNCHANGED <<streamPc, silent, fresh, memory, backend, flag, conn, linked>>
        /\ Head(queue[Stream]).kind # "connected"
    BY <1>0, <1>14, PopFacts DEF HandleStreamError, FromStream
  <2>3. BetweenInv'
    BY <1>0, <2>1, <2>2 DEF BetweenInv
  <2>4. ConnectedNext(queue[Stream]) => ConnectedNext(queue'[Stream])
    BY <1>0, <2>2, ConnectedPop
  <2>5. ReloadInv'
    BY <1>0, <2>1, <2>2, <2>4 DEF ReloadInv
  <2> QED
    BY <2>1, <2>3, <2>5 DEF PromptInv
<1>15. CASE IgnoreNode
  <2>1. /\ LeftInv' /\ FlagInv'
        /\ Success' <=> Success
        /\ KindIn({"forced", "streamError"})' => linked' \in {"ending", "dropped"}
        /\ KindIn({"connected"})' => KindIn({"connected"})
        /\ \A k \in Kinds : Head(queue[Stream]).kind = k => KindIn({k})
        /\ Head(queue[Stream]).kind # "connected" => (KindIn({"connected"}) => KindIn({"connected"})')
    BY <1>11, <1>15 DEF IgnoreNode, FromStream, flowVars, streamVars
  <2>2. /\ streamPc = "idle" /\ queue[Stream] # << >> /\ queue'[Stream] = Tail(queue[Stream])
        /\ UNCHANGED <<streamPc, silent, fresh, memory, backend, flag, conn, linked>>
        /\ Head(queue[Stream]).kind # "connected"
    BY <1>0, <1>15, PopFacts DEF IgnoreNode, FromStream, streamVars
  <2>3. BetweenInv'
    BY <1>0, <2>1, <2>2 DEF BetweenInv
  <2>4. ConnectedNext(queue[Stream]) => ConnectedNext(queue'[Stream])
    BY <1>0, <2>2, ConnectedPop
  <2>5. ReloadInv'
    BY <1>0, <2>1, <2>2, <2>4 DEF ReloadInv
  <2> QED
    BY <2>1, <2>3, <2>5 DEF PromptInv
<1>16. CASE HandleConfirm
  <2>1. /\ LeftInv' /\ FlagInv'
        /\ Success' <=> Success
        /\ KindIn({"forced", "streamError"})' => linked' \in {"ending", "dropped"}
        /\ KindIn({"connected"})' => KindIn({"connected"})
        /\ \A k \in Kinds : Head(queue[Stream]).kind = k => KindIn({k})
        /\ Head(queue[Stream]).kind # "connected" => (KindIn({"connected"}) => KindIn({"connected"})')
    BY <1>11, <1>16 DEF HandleConfirm, FromStream, flowVars
  <2>2. Head(queue[Stream]) \in Confirms /\ linked' = linked /\ conn' = conn
    BY <1>0, <1>16, PopFacts DEF HandleConfirm, Confirms, FromStream
  <2>3. ~Success
    BY <2>2 DEF CodeInv, Success
  <2>4. linked = "no"
    BY <2>3, NotLinkedFacts
  <2>5. BetweenInv' /\ ReloadInv'
    BY <2>1, <2>2, <2>3, <2>4 DEF BetweenInv, ReloadInv
  <2> QED
    BY <2>1, <2>5 DEF PromptInv
<1>17. CASE LoadDevice
  <2>1. /\ UNCHANGED <<server, queue, conn, linked, flow, backend>>
        /\ streamPc = "load" /\ UNCHANGED <<silent, memory, flag>>
        /\ \/ fresh' = backend /\ streamPc' = "install"
           \/ fresh' = None /\ streamPc' = "iqs"
    BY <1>17 DEF LoadDevice, FromStream, flowVars
  <2>2. (Success' <=> Success) /\ \A r : Events(r)' = Events(r)
    BY <2>1, QueueSame DEF Success
  <2>3. Success => linked = "settled"
    BY <1>0, <2>1 DEF BetweenInv
  <2>4. LeftInv'
    BY <1>0, <2>1, <2>2 DEF LeftInv
  <2>5. BetweenInv'
    BY <1>0, <2>1, <2>2, <2>3 DEF BetweenInv, KindIn
  <2>6. FlagInv'
    BY <1>0, <2>1, <2>3, NotLinkedFacts DEF FlagInv
  <2>7. ReloadInv'
    BY <1>0, <2>1, <2>2 DEF ReloadInv, KindIn
  <2> QED
    BY <2>4, <2>5, <2>6, <2>7 DEF PromptInv
<1>18. CASE InstallDevice
  <2>1. /\ UNCHANGED <<server, queue, conn, linked, flow, backend>>
        /\ streamPc = "install" /\ UNCHANGED <<silent, fresh, flag>>
        /\ memory' = fresh /\ streamPc' = "iqs"
    BY <1>18 DEF InstallDevice, FromStream, flowVars
  <2>2. (Success' <=> Success) /\ \A r : Events(r)' = Events(r)
    BY <2>1, QueueSame DEF Success
  <2>3. Success => linked = "settled"
    BY <1>0, <2>1 DEF BetweenInv
  <2>4. LeftInv'
    BY <1>0, <2>1, <2>2 DEF LeftInv
  <2>5. BetweenInv'
    BY <1>0, <2>1, <2>2, <2>3 DEF BetweenInv, KindIn
  <2>6. FlagInv'
    BY <1>0, <2>1, <2>3, NotLinkedFacts DEF FlagInv
  <2>7. ReloadInv'
    BY <1>0, <2>1, <2>2 DEF ReloadInv, KindIn
  <2> QED
    BY <2>4, <2>5, <2>6, <2>7 DEF PromptInv
<1>19. CASE FinishInit
  <2>1. /\ UNCHANGED <<server, queue, conn, linked, flow, backend>>
        /\ streamPc = "iqs" /\ UNCHANGED <<silent, fresh, memory>>
        /\ flag' = (flag /\ ~silent) /\ streamPc' = "idle"
    BY <1>19 DEF FinishInit, FromStream, flowVars
  <2>2. (Success' <=> Success) /\ \A r : Events(r)' = Events(r)
    BY <2>1, QueueSame DEF Success
  <2>3. Success => linked = "settled"
    BY <1>0, <2>1 DEF BetweenInv
  <2>4. LeftInv'
    BY <1>0, <2>1, <2>2 DEF LeftInv
  <2>5. BetweenInv'
    BY <1>0, <2>1, <2>2, <2>3 DEF BetweenInv, KindIn
  <2>6. FlagInv'
    BY <1>0, <2>1, <2>3, NotLinkedFacts DEF FlagInv
  <2>7. ReloadInv'
    BY <1>0, <2>1, <2>2 DEF ReloadInv, KindIn
  <2> QED
    BY <2>4, <2>5, <2>6, <2>7 DEF PromptInv
<1>20. CASE SaveAdv
  <2>1. UNCHANGED <<queue, conn, linked, flow, flag>> /\ Confirming
    BY <1>20 DEF SaveAdv, FromStream, flowVars, Confirming
  <2>2. ~Success
    BY <2>1 DEF CodeInv, Success
  <2>3. linked = "no"
    BY <2>2, NotLinkedFacts
  <2>4. ~Success' /\ Events(Stream)' = Events(Stream)
    BY <1>0, <1>20, <2>1, <2>2, QueueSame DEF SaveAdv, Success, LocalOK
  <2> QED
    BY <1>0, <2>1, <2>3, <2>4 DEF PromptInv, LeftInv, BetweenInv, FlagInv, ReloadInv, KindIn
<1>21. CASE SendFinish
  <2>1. UNCHANGED <<queue, conn, linked, flow, flag>> /\ Confirming
    BY <1>21 DEF SendFinish, FromStream, flowVars, Confirming
  <2>2. ~Success
    BY <2>1 DEF CodeInv, Success
  <2>3. linked = "no"
    BY <2>2, NotLinkedFacts
  <2>4. ~Success' /\ Events(Stream)' = Events(Stream)
    BY <1>0, <1>21, <2>1, <2>2, QueueSame DEF SendFinish, Finish, Success, LocalOK
  <2> QED
    BY <1>0, <2>1, <2>3, <2>4 DEF PromptInv, LeftInv, BetweenInv, FlagInv, ReloadInv, KindIn
<1>22. ASSUME NEW f \in QrFlows, RequestPairing(f) PROVE PromptInv'
  <2>1. /\ Success' <=> Success
        /\ UNCHANGED <<conn, linked, streamPc, silent, fresh, memory, backend, flag>>
    BY <1>0, <1>22, Names DEF Success, LocalOK, RequestPairing, FromFlow
  <2>2. /\ NoNewSuccess /\ queue'[Stream] = queue[Stream]
        /\ \A g \in Flows : g # f => queue'[g] = queue[g]
    BY <1>0, <1>22, NoNewFacts, Names DEF RequestPairing
  <2>3. \A g \in Flows : /\ g # f => flow'[g] = flow[g]
                         /\ flow'[f] \notin {"cloning", "responding", "saving"} /\ flow[f] # "failed"
    BY <1>0, <1>22, Names DEF LocalOK, RequestPairing
  <2> QED
    BY <1>0, <2>1, <2>2, <2>3, PromptKept
<1>23. ASSUME NEW f \in QrFlows, QrEnds(f) PROVE PromptInv'
  <2>1. /\ Success' <=> Success
        /\ UNCHANGED <<conn, linked, streamPc, silent, fresh, memory, backend, flag>>
    BY <1>0, <1>23, Names DEF Success, LocalOK, QrEnds, FromFlow
  <2>2. /\ NoNewSuccess /\ queue'[Stream] = queue[Stream]
        /\ \A g \in Flows : g # f => queue'[g] = queue[g]
    BY <1>0, <1>23, LeaveFacts, NoNewFacts, Names DEF QrEnds, Ended
  <2>3. \A g \in Flows : /\ g # f => flow'[g] = flow[g]
                         /\ flow'[f] \notin {"cloning", "responding", "saving"} /\ flow[f] # "failed"
    BY <1>0, <1>23, Names DEF LocalOK, QrEnds, Leave
  <2> QED
    BY <1>0, <2>1, <2>2, <2>3, PromptKept
<1>24. ASSUME NEW f \in CodeFlows, RequestPairCode(f) PROVE PromptInv'
  <2>1. /\ Success' <=> Success
        /\ UNCHANGED <<conn, linked, streamPc, silent, fresh, memory, backend, flag>>
    <3>1. SameSuccess
      BY <1>0, <1>24, Names DEF ShapeInv, RoleInv, SameSuccess, LocalOK, RequestPairCode,
          FromFlow, busVars
    <3> QED
      BY <1>24, <3>1, SuccessFacts DEF RequestPairCode, FromFlow
  <2>2. /\ NoNewSuccess /\ queue'[Stream] = queue[Stream]
        /\ \A g \in Flows : g # f => queue'[g] = queue[g]
    BY <1>0, <1>24, NoNewFacts, Names DEF RequestPairCode, busVars
  <2>3. \A g \in Flows : /\ g # f => flow'[g] = flow[g]
                         /\ flow'[f] \notin {"cloning", "responding", "saving"} /\ flow[f] # "failed"
    BY <1>0, <1>24, Names DEF LocalOK, RequestPairCode
  <2> QED
    BY <1>0, <2>1, <2>2, <2>3, PromptKept
<1>25. ASSUME NEW f \in CodeFlows, TaskStarts(f) PROVE PromptInv'
  <2>1. /\ Success' <=> Success
        /\ UNCHANGED <<conn, linked, streamPc, silent, fresh, memory, backend, flag>>
    BY <1>0, <1>25, Names DEF Success, LocalOK, TaskStarts, FromFlow
  <2>2. /\ NoNewSuccess /\ queue'[Stream] = queue[Stream]
        /\ \A g \in Flows : g # f => queue'[g] = queue[g]
    BY <1>0, <1>25, NoNewFacts, Names DEF TaskStarts
  <2>3. \A g \in Flows : /\ g # f => flow'[g] = flow[g]
                         /\ flow'[f] \notin {"cloning", "responding", "saving"} /\ flow[f] # "failed"
    BY <1>0, <1>25, Names DEF LocalOK, TaskStarts
  <2> QED
    BY <1>0, <2>1, <2>2, <2>3, PromptKept
<1>26. ASSUME NEW f \in Flows, FinishFlow(f) PROVE PromptInv'
  <2>1. /\ Success' <=> Success
        /\ UNCHANGED <<conn, linked, streamPc, silent, fresh, memory, backend, flag>>
    BY <1>0, <1>26, Names DEF Success, LocalOK, FinishFlow, FromFlow
  <2>2. /\ NoNewSuccess /\ queue'[Stream] = queue[Stream]
        /\ \A g \in Flows : g # f => queue'[g] = queue[g]
    BY <1>0, <1>26, LeaveFacts, NoNewFacts, Names DEF FinishFlow, Ended
  <2>3. \A g \in Flows : /\ g # f => flow'[g] = flow[g]
                         /\ flow'[f] \notin {"cloning", "responding", "saving"} /\ flow[f] # "failed"
    BY <1>0, <1>26, Names DEF LocalOK, FinishFlow, Leave
  <2> QED
    BY <1>0, <2>1, <2>2, <2>3, PromptKept
<1>27. ASSUME NEW f \in CodeFlows, CloneDevice(f) PROVE PromptInv'
  <2>1. /\ f \in Flows /\ flow[f] = "cloning" /\ flow' = [flow EXCEPT ![f] = "responding"]
        /\ UNCHANGED <<server, queue, conn, linked, streamPc, silent, fresh, memory, backend, flag>>
    BY <1>27, Names DEF CloneDevice, FromFlow, busVars
  <2>2. (Success' <=> Success) /\ Events(Stream)' = Events(Stream)
    BY <2>1, QueueSame DEF Success
  <2>3. linked \notin {"dropped", "settled"}
    BY <1>0, <2>1 DEF LeftInv
  <2>4. \E g \in Flows : flow[g] = "failed" \/ flag
    BY <1>0, <2>1, <2>3 DEF FlagInv, LocalOK
  <2>5. FlagInv'
    BY <1>0, <2>1, <2>4 DEF FlagInv, LocalOK
  <2>6. BetweenInv'
    BY <1>0, <2>1, <2>2 DEF BetweenInv, KindIn
  <2> QED
    BY <2>1, <2>3, <2>5, <2>6 DEF PromptInv, LeftInv, ReloadInv
<1>28. ASSUME NEW f \in Flows, ReadEvent(f) PROVE PromptInv'
  <2>1. /\ UNCHANGED <<server, conn, linked, streamPc, silent, fresh, memory, backend>>
        /\ flow[f] \in {"waitRefs", "rotating", "waiting"} /\ queue[f] # << >>
        /\ Success' <=> Success
    BY <1>28 DEF ReadEvent, FromFlow, Success
  <2>2. CASE Leave(f, "failed") /\ UNCHANGED flag
    <3>1. \A g \in Flows : flow'[g] = IF g = f THEN "failed" ELSE flow[g]
      BY <1>0, <2>2 DEF LocalOK, Leave
    <3>2. /\ NoNewSuccess /\ queue'[Stream] = queue[Stream]
          /\ \A g \in Flows : g # f => queue'[g] = queue[g]
      BY <1>0, <2>2, LeaveFacts, NoNewFacts DEF Ended
    <3> QED
      BY <1>0, <2>1, <2>2, <3>1, <3>2, PromptKept
  <2>3. CASE /\ Next1(f) /\ UNCHANGED flag /\ flow' \in {flow, [flow EXCEPT ![f] = "rotating"]}
    <3>1. \A g \in Flows : /\ g # f => flow'[g] = flow[g]
                           /\ flow'[f] \notin {"cloning", "responding", "saving"} /\ flow[f] # "failed"
      BY <1>0, <2>1, <2>3 DEF LocalOK
    <3>2. /\ NoNewSuccess /\ queue'[Stream] = queue[Stream]
          /\ \A g \in Flows : g # f => queue'[g] = queue[g]
      BY <1>0, <2>3, PopFacts, NoNewFacts
    <3> QED
      BY <1>0, <2>1, <2>3, <3>1, <3>2, PromptKept
  <2>4. CASE Next1(f) /\ Head(queue[f]).kind = "pairSuccess" /\ flag' = TRUE
    <3>1. /\ Head(queue[f]) \in Events(f) /\ queue'[Stream] = queue[Stream]
      BY <1>0, <2>4, PopFacts
    <3>2. linked \notin {"dropped", "settled"}
      BY <1>0, <2>4, <3>1 DEF LeftInv
    <3>3. BetweenInv'
      BY <1>0, <2>1, <3>1 DEF BetweenInv, KindIn, Events
    <3>4. FlagInv'
      BY <2>4 DEF FlagInv
    <3> QED
      BY <2>1, <3>2, <3>3, <3>4 DEF PromptInv, LeftInv, ReloadInv
  <2> QED
    BY <1>28, <2>2, <2>3, <2>4 DEF ReadEvent
<1>29. ASSUME NEW f \in Flows, Respond(f) PROVE PromptInv'
  <2>1. /\ UNCHANGED <<server, conn, streamPc, silent, fresh, memory, backend>>
        /\ flow[f] = "responding" /\ (Success' <=> Success) /\ Success
    BY <1>29 DEF Respond, FromFlow, Success, LinkInv
  <2>2. CASE /\ conn = "up" /\ flow' = [flow EXCEPT ![f] = "saving"]
             /\ Link(f) /\ UNCHANGED busVars /\ flag' = flag
    <3>1. linked \notin {"dropped", "settled"}
      BY <1>0, <2>1, <2>2 DEF LeftInv
    <3>2. linked' = IF linked = "no" THEN "forcing" ELSE linked
      BY <2>2 DEF Link
    <3>3. Events(Stream)' = Events(Stream)
      BY <2>2, QueueSame DEF busVars
    <3>4. BetweenInv'
      BY <1>0, <2>1, <2>2, <3>1, <3>2, <3>3 DEF BetweenInv, KindIn
    <3>5. \E g \in Flows : flow[g] = "failed" \/ flag
      BY <1>0, <2>1, <3>1 DEF FlagInv, LocalOK
    <3>6. FlagInv'
      BY <1>0, <2>1, <2>2, <3>5 DEF FlagInv, LocalOK
    <3> QED
      BY <3>1, <3>2, <3>4, <3>6 DEF PromptInv, LeftInv, ReloadInv
  <2>3. CASE Leave(f, "failed") /\ flag' = FALSE /\ linked' = linked
    <3>1. \A g \in Flows : flow'[g] = IF g = f THEN "failed" ELSE flow[g]
      BY <1>0, <2>3 DEF LocalOK, Leave
    <3>2. /\ NoNewSuccess /\ Events(Stream)' = Events(Stream)
          /\ \A g \in Flows : g # f => queue'[g] = queue[g]
      BY <1>0, <2>3, LeaveFacts, NoNewFacts DEF Ended
    <3>3. LeftInv'
      BY <1>0, <2>1, <2>3, <3>1, <3>2 DEF LeftInv, NoNewSuccess
    <3>4. BetweenInv'
      BY <1>0, <2>1, <2>3, <3>2 DEF BetweenInv, KindIn
    <3>5. FlagInv'
      BY <3>1 DEF FlagInv
    <3>6. ReloadInv'
      BY <1>0, <2>1, <2>3, <3>2 DEF ReloadInv, KindIn
    <3> QED
      BY <3>3, <3>4, <3>5, <3>6 DEF PromptInv
  <2> QED
    BY <1>29, <2>2, <2>3 DEF Respond
<1>30. ASSUME NEW f \in Flows, Save(f) PROVE PromptInv'
  <2>1. /\ UNCHANGED <<server, conn, linked, streamPc, silent, fresh, memory>>
        /\ flow[f] = "saving" /\ (Success' <=> Success)
    BY <1>30 DEF Save, FromFlow, Success
  <2>2. linked \notin {"dropped", "settled"} /\ linked # "no"
    BY <1>0, <2>1 DEF LeftInv, LinkInv
  <2>3. Events(Stream)' = Events(Stream)
    <3>1. ASSUME Leave(f, "failed") PROVE Events(Stream)' = Events(Stream)
      BY <1>0, <3>1, LeaveFacts DEF Ended
    <3>2. ASSUME UNCHANGED busVars PROVE Events(Stream)' = Events(Stream)
      BY <3>2, QueueSame DEF busVars
    <3> QED
      BY <1>30, <3>1, <3>2 DEF Save
  <2>4. BetweenInv'
    BY <1>0, <2>1, <2>3 DEF BetweenInv, KindIn
  <2>5. \E g \in Flows : flow[g] = "failed" \/ flag
    BY <1>0, <2>1, <2>2 DEF FlagInv, LocalOK
  <2>6. \/ flow'[f] = "failed"
        \/ flag' = flag /\ \A g \in Flows : flow[g] = "failed" => flow'[g] = "failed"
    BY <1>0, <1>30, <2>1 DEF Save, Leave, LocalOK
  <2>7. FlagInv'
    BY <2>5, <2>6 DEF FlagInv
  <2> QED
    BY <2>1, <2>2, <2>4, <2>7 DEF PromptInv, LeftInv, ReloadInv
<1>31. ASSUME NEW f \in CodeFlows, UserMistypes(f) PROVE PromptInv'
  <2>1. Event("confirm", Junk) \in BusEvents /\ Event("confirm", Junk).kind = "confirm"
    BY EventFacts, Names DEF Kinds
  <2> QED
    BY <1>6, <1>31, <2>1, Names DEF UserMistypes, FromServer, streamVars, flowVars
<1>32. ASSUME NEW f \in CodeFlows, HelloArrives(f) PROVE PromptInv'
  <2>1. /\ Success' <=> Success
        /\ UNCHANGED <<conn, linked, streamPc, silent, fresh, memory, backend, flag>>
    <3>1. SameSuccess
      BY <1>0, <1>32, Names DEF ShapeInv, RoleInv, SameSuccess, LocalOK, Wanted, HelloArrives, busVars, streamVars
    <3> QED
      BY <1>32, <3>1, SuccessFacts DEF HelloArrives, busVars, streamVars
  <2>2. /\ NoNewSuccess /\ queue'[Stream] = queue[Stream]
        /\ \A g \in Flows : queue'[g] = queue[g]
    BY <1>0, <1>32, NoNewFacts, Names DEF HelloArrives, busVars
  <2>3. \A g \in Flows : flow'[g] = flow[g] \/ (flow'[g] \in {"storing", "refused", "spawned"} /\ flow[g] # "failed")
    BY <1>0, <1>32, Names DEF LocalOK, HelloArrives
  <2> QED
    BY <1>0, <2>1, <2>2, <2>3, PromptKept
<1>33. ASSUME NEW f \in CodeFlows, HelloFails(f) PROVE PromptInv'
  <2>1. /\ Success' <=> Success
        /\ UNCHANGED <<conn, linked, streamPc, silent, fresh, memory, backend, flag>>
    <3>1. SameSuccess
      BY <1>0, <1>33, Names DEF ShapeInv, RoleInv, SameSuccess, LocalOK, Wanted, HelloFails, FromFlow, busVars
    <3> QED
      BY <1>33, <3>1, SuccessFacts DEF HelloFails, FromFlow, busVars
  <2>2. /\ NoNewSuccess /\ queue'[Stream] = queue[Stream]
        /\ \A g \in Flows : queue'[g] = queue[g]
    BY <1>0, <1>33, NoNewFacts, Names DEF HelloFails, busVars
  <2>3. \A g \in Flows : flow'[g] = flow[g] \/ (flow'[g] \in {"storing", "refused", "spawned"} /\ flow[g] # "failed")
    BY <1>0, <1>33, Names DEF LocalOK, HelloFails
  <2> QED
    BY <1>0, <2>1, <2>2, <2>3, PromptKept
<1>34. ASSUME NEW f \in CodeFlows, StoreCode(f) PROVE PromptInv'
  <2>1. /\ Success' <=> Success
        /\ UNCHANGED <<conn, linked, streamPc, silent, fresh, memory, backend, flag>>
    <3>1. SameSuccess
      BY <1>0, <1>34, Names DEF ShapeInv, RoleInv, SameSuccess, LocalOK, Wanted, StoreCode, FromFlow, busVars
    <3> QED
      BY <1>34, <3>1, SuccessFacts DEF StoreCode, FromFlow, busVars
  <2>2. /\ NoNewSuccess /\ queue'[Stream] = queue[Stream]
        /\ \A g \in Flows : queue'[g] = queue[g]
    BY <1>0, <1>34, NoNewFacts, Names DEF StoreCode, busVars
  <2>3. \A g \in Flows : flow'[g] = flow[g] \/ (flow'[g] \in {"storing", "refused", "spawned"} /\ flow[g] # "failed")
    BY <1>0, <1>34, Names DEF LocalOK, StoreCode
  <2> QED
    BY <1>0, <2>1, <2>2, <2>3, PromptKept
<1> QED
  BY <1>1, <1>2, <1>3, <1>4, <1>5, <1>7, <1>8, <1>9, <1>10, <1>12, <1>13, <1>14, <1>15, <1>16,
     <1>17, <1>18, <1>19, <1>20, <1>21, <1>22, <1>23, <1>24, <1>25, <1>26, <1>27, <1>28, <1>29, <1>30,
     <1>31, <1>32, <1>33, <1>34, Names
  DEF Next, ServerNext, StreamNext, FlowNext

-----------------------------------------------------------------------------
(* The theorems.                                                           *)

LEMMA PairingUnchanged == PairingInv /\ UNCHANGED vars => PairingInv'
<1> SUFFICES ASSUME PairingInv, UNCHANGED vars PROVE PairingInv'
  OBVIOUS
<1>1. /\ UNCHANGED <<prompt, conn, linked, linkedAdv, offered, server, drops, queue, listening>>
      /\ UNCHANGED <<streamPc, silent, fresh, codeState, memory, shown, flag, backend, flow, dev, pairAdv, queued>>
  BY DEF vars, serverVars, busVars, streamVars, flowVars
<1>2. TypeOK'
  <2>1. QueueOK' /\ LocalOK
    BY <1>1, QueueTyped, QueueSame, TypeSplit DEF PairingInv, ShapeInv
  <2>2. LocalOK'
    BY <1>1, <2>1 DEF LocalOK
  <2> QED
    BY <2>1, <2>2, TypeSplit
<1>3. (\A r : Events(r)' = Events(r)) /\ Confirms' = Confirms /\ (Confirming' <=> Confirming)
  BY <1>1, QueueSame DEF Confirming
<1>4. RoleInv'
  BY <1>1, <1>3 DEF PairingInv, ShapeInv, RoleInv, Active
<1>5. SamePhases /\ StreamQueue
  BY <1>1 DEF SamePhases, StreamQueue
<1>6. CodeInv'
  BY <1>1, <1>3, <1>5, CodeKept DEF PairingInv
<1>10. SecretInv'
  BY <1>1, <1>5, PhaseFacts, SecretKept DEF PairingInv, Held
<1>7. SameSuccess /\ NoNewSuccess /\ SamePairs /\ SameLink
  BY <1>1, NoNewFacts DEF SameSuccess, SamePairs, SameLink
<1>8. LinkInv'
  BY <1>1, <1>7, LinkKept DEF PairingInv, LinkInv
<1>9. PromptInv'
  BY <1>1, <1>7, SuccessFacts, PromptKept DEF PairingInv
<1> QED
  BY <1>2, <1>4, <1>6, <1>8, <1>9, <1>10 DEF PairingInv, ShapeInv

LEMMA PairingStep == PairingInv /\ [Next]_vars => PairingInv'
  BY ShapeStep, CodeStep, SecretStep, LinkStep, PromptStep, PairingUnchanged DEF PairingInv

\* For any number of flows, any capacity of the bus and any number of drops:
\* the types, and how codes, secrets, copies of the device and the link hang
\* together (the state that Pairing's flows and the update stream share).
THEOREM PairingInvariant == Spec => []PairingInv
<1>1. Init => PairingInv
  BY InitShape, InitCode, InitSecret, InitLink, InitPrompt DEF PairingInv
<1> QED
  BY <1>1, PairingStep, PTL DEF Spec

\* The server holds a link only if the client has stored the pairing, or a flow
\* that answered the pair-success is about to, or has failed in the send or in a
\* save (handle_pair_success; auth.rs only logs the failure of a pair code).
THEOREM Together == Spec => []PairedTogether
<1>1. PairingInv => PairedTogether
  BY DEF PairingInv, LinkInv
<1> QED
  BY <1>1, PairingInvariant, PTL

\* Once the server holds the link and the client the pairing, it is with one
\* secret, although flows and stream save copies of the device, requests replace
\* each other late, and a mistyped code rotates the secret to one nobody shares.
THEOREM Agree == Spec => []SecretsAgree
<1>1. ASSUME PairingInv, backend.paired, linked # "no" PROVE linkedAdv = backend.adv
  <2>1. PICK g \in Flows : server[g] = "success"
    BY <1>1 DEF PairingInv, LinkInv, Success
  <2> QED
    BY <1>1, <2>1 DEF PairingInv, LinkInv
<1>2. PairingInv => SecretsAgree
  BY <1>1 DEF SecretsAgree
<1> QED
  BY <1>2, PairingInvariant, PTL

\* A request waits only while its code is unspent: the server has not taken it
\* for finished, the device in memory does not hold its secret, and the server
\* has let it go only for the request of a rival.
THEOREM Confirmed == Spec => []ConfirmedOnce
<1>1. ASSUME PairingInv, NEW f \in CodeFlows, codeState = f
      PROVE  /\ server[f] \in {"none", "hello", "confirmed"} /\ memory.adv # f
             /\ server[f] = "none" => Rival(f)
  <2>1. Asked(f) /\ server[f] \in {"none", "hello", "confirmed"} /\ f \notin Held
    BY <1>1 DEF PairingInv, SecretInv
  <2>2. memory.adv # f
    BY <1>1, <2>1, TypeSplit, HeldFacts DEF PairingInv, ShapeInv
  <2>3. server[f] = "none" => Rival(f)
    BY <1>1, <2>1 DEF PairingInv, CodeInv, PhaseInv, Asked, Unasked, Called
  <2> QED
    BY <2>1, <2>2, <2>3
<1>2. PairingInv => ConfirmedOnce
  BY <1>1 DEF ConfirmedOnce
<1> QED
  BY <1>2, PairingInvariant, PTL

\* If the tasks keep up, the reconnect after a pairing leaves the backend's
\* device in memory (run_post_connect_init).
THEOREM FreshMemory == Spec => []MemoryFresh
<1>1. ASSUME PairingInv, prompt, Reloaded PROVE memory = backend
  <2>1. Events(Stream) = {}
    BY <1>1, ElemsEmpty, EventsElems DEF Reloaded
  <2> QED
    BY <1>1, <2>1 DEF PairingInv, PromptInv, ReloadInv, KindIn, Reloaded
<1>2. PairingInv => MemoryFresh
  BY <1>1 DEF MemoryFresh
<1> QED
  BY <1>2, PairingInvariant, PTL

\* No step overwrites a stored pairing by an older copy of the device.
THEOREM Survives == Spec => PairingSurvives
<1>1. ASSUME PairingInv, [Next]_vars, backend.paired PROVE backend'.paired
  <2>1. CASE backend' = backend
    BY <1>1, <2>1
  <2>2. ~SaveAdv
    <3>1. Success
      BY <1>1 DEF PairingInv, LinkInv
    <3>2. ~Confirming
      BY <1>1, <3>1 DEF PairingInv, CodeInv, Success
    <3> QED
      BY <3>2 DEF SaveAdv, Confirming
  <2>3. ASSUME NEW f \in Flows, Save(f) PROVE backend'.paired
    <3>1. dev[f] \in Devices
      BY <1>1, TypeSplit DEF PairingInv, ShapeInv, LocalOK
    <3>2. [dev[f] EXCEPT !.paired = TRUE].paired
      BY <3>1, DeviceFacts
    <3> QED
      BY <1>1, <2>3, <3>2 DEF Save
  <2>4. backend' = backend \/ SaveAdv \/ \E f \in Flows : Save(f)
    <3>0. ASSUME UNCHANGED vars PROVE backend' = backend
      BY <3>0 DEF vars
    <3>1. ASSUME Connect PROVE backend' = backend
      BY <3>1 DEF Connect
    <3>2. ASSUME Drop PROVE backend' = backend
      BY <3>2 DEF Drop
    <3>3. ASSUME ForcedDrop PROVE backend' = backend
      BY <3>3 DEF ForcedDrop
    <3>4. ASSUME SendPairDevice PROVE backend' = backend
      BY <3>4 DEF SendPairDevice, FromServer
    <3>5. ASSUME SendStreamError PROVE backend' = backend
      BY <3>5 DEF SendStreamError, FromServer
    <3>6. ASSUME NEW f \in QrFlows, UserScans(f) PROVE backend' = backend
      BY <3>6 DEF UserScans, FromServer
    <3>7. ASSUME NEW f \in CodeFlows, UserConfirms(f) PROVE backend' = backend
      BY <3>7 DEF UserConfirms, FromServer
    <3>8. ASSUME NEW f \in CodeFlows, SendPairSuccess(f) PROVE backend' = backend
      BY <3>8 DEF SendPairSuccess, FromServer
    <3>9. ASSUME NEW f \in Flows, QueuedSignSent(f) PROVE backend' = backend
      BY <3>9 DEF QueuedSignSent
    <3>10. ASSUME HandleConnected PROVE backend' = backend
      BY <3>10 DEF HandleConnected
    <3>11. ASSUME HandleDisconnected PROVE backend' = backend
      BY <3>11 DEF HandleDisconnected
    <3>12. ASSUME HandleStreamError PROVE backend' = backend
      BY <3>12 DEF HandleStreamError
    <3>13. ASSUME IgnoreNode PROVE backend' = backend
      BY <3>13 DEF IgnoreNode
    <3>14. ASSUME LoadDevice PROVE backend' = backend
      BY <3>14 DEF LoadDevice
    <3>15. ASSUME InstallDevice PROVE backend' = backend
      BY <3>15 DEF InstallDevice
    <3>16. ASSUME FinishInit PROVE backend' = backend
      BY <3>16 DEF FinishInit
    <3>17. ASSUME HandleConfirm PROVE backend' = backend
      BY <3>17 DEF HandleConfirm
    <3>18. ASSUME SendFinish PROVE backend' = backend
      BY <3>18 DEF SendFinish
    <3>19. ASSUME NEW f \in QrFlows, RequestPairing(f) PROVE backend' = backend
      BY <3>19 DEF RequestPairing
    <3>20. ASSUME NEW f \in QrFlows, QrEnds(f) PROVE backend' = backend
      BY <3>20 DEF QrEnds
    <3>21. ASSUME NEW f \in CodeFlows, RequestPairCode(f) PROVE backend' = backend
      BY <3>21 DEF RequestPairCode
    <3>22. ASSUME NEW f \in CodeFlows, TaskStarts(f) PROVE backend' = backend
      BY <3>22 DEF TaskStarts
    <3>23. ASSUME NEW f \in CodeFlows, CloneDevice(f) PROVE backend' = backend
      BY <3>23 DEF CloneDevice
    <3>24. ASSUME NEW f \in Flows, FinishFlow(f) PROVE backend' = backend
      BY <3>24 DEF FinishFlow
    <3>25. ASSUME NEW f \in Flows, ReadEvent(f) PROVE backend' = backend
      BY <3>25 DEF ReadEvent
    <3>26. ASSUME NEW f \in Flows, Respond(f) PROVE backend' = backend
      BY <3>26 DEF Respond
    <3>27. ASSUME NEW f \in CodeFlows, UserMistypes(f) PROVE backend' = backend
      BY <3>27 DEF UserMistypes, FromServer
    <3>28. ASSUME NEW f \in CodeFlows, HelloArrives(f) PROVE backend' = backend
      BY <3>28 DEF HelloArrives
    <3>29. ASSUME NEW f \in CodeFlows, HelloFails(f) PROVE backend' = backend
      BY <3>29 DEF HelloFails
    <3>30. ASSUME NEW f \in CodeFlows, StoreCode(f) PROVE backend' = backend
      BY <3>30 DEF StoreCode
    <3> QED
      BY <1>1, <3>0, <3>1, <3>2, <3>3, <3>4, <3>5, <3>6, <3>7, <3>8, <3>9, <3>10, <3>11, <3>12,
         <3>13, <3>14,
         <3>15, <3>16, <3>17, <3>18, <3>19, <3>20, <3>21, <3>22, <3>23, <3>24, <3>25, <3>26,
         <3>27, <3>28, <3>29, <3>30, Names
      DEF Next, ServerNext, StreamNext, FlowNext
  <2> QED
    BY <2>1, <2>2, <2>3, <2>4
<1>2. PairingInv /\ [Next]_vars => (backend.paired => backend'.paired)
  BY <1>1
<1> QED
  BY <1>2, PairingInvariant, PTL DEF Spec, PairingSurvives

\* Only the handlers of the stream take an event from its queue.
StreamHandles == HandleConnected \/ HandleDisconnected \/ HandleStreamError \/ IgnoreNode \/ HandleConfirm

LEMMA StreamReader ==
    ASSUME ShapeInv, [Next]_vars, NEW kinds, StreamReads(kinds)
    PROVE  StreamHandles
<1> SUFFICES ASSUME ~StreamHandles PROVE FALSE
  OBVIOUS
<1>0. /\ QueueOK /\ listening \subseteq Receivers /\ Stream \in listening /\ LocalOK
      /\ Stream \in Receivers /\ \A f \in Flows : f # Stream /\ f \in Receivers
      /\ queue[Stream] \in Seq(BusEvents) /\ queue[Stream] # << >> /\ queue'[Stream] = Tail(queue[Stream])
  BY QueueTyped, TypeSplit, Names DEF ShapeInv, RoleInv, StreamReads, QueueOK
<1>1. /\ Len(queue[Stream]) \in Nat /\ Len(queue'[Stream]) = Len(queue[Stream]) - 1
  BY <1>0, ElemsPop
<1>2. queue'[Stream] # queue[Stream]
  BY <1>1
<1>3. ASSUME NEW e \in BusEvents PROVE queue'[Stream] # Append(queue[Stream], e)
  BY <1>0, <1>1, ElemsAppend
<1>4. ASSUME UNCHANGED vars PROVE FALSE
  BY <1>2, <1>4 DEF vars, busVars
<1>5. ASSUME Connect PROVE FALSE
  <2>1. Event("connected", None) \in BusEvents
    BY EventFacts, Names DEF Kinds
  <2> QED
    BY <1>0, <1>2, <1>3, <1>5, <2>1, TryPublishFacts DEF Connect
<1>6. ASSUME Drop PROVE FALSE
  <2>1. Event("lost", None) \in BusEvents
    BY EventFacts, Names DEF Kinds
  <2> QED
    BY <1>0, <1>2, <1>3, <1>6, <2>1, TryPublishFacts DEF Drop
<1>7. ASSUME ForcedDrop PROVE FALSE
  <2>1. Event("forced", None) \in BusEvents
    BY EventFacts, Names DEF Kinds
  <2> QED
    BY <1>0, <1>2, <1>3, <1>7, <2>1, TryPublishFacts DEF ForcedDrop
<1>8. ASSUME SendPairDevice PROVE FALSE
  <2>1. Event("pairDevice", None) \in BusEvents
    BY EventFacts, Names DEF Kinds
  <2> QED
    BY <1>0, <1>2, <1>3, <1>8, <2>1, PublishFacts DEF SendPairDevice
<1>9. ASSUME SendStreamError PROVE FALSE
  <2>1. Event("streamError", None) \in BusEvents
    BY EventFacts, Names DEF Kinds
  <2> QED
    BY <1>0, <1>2, <1>3, <1>9, <2>1, PublishFacts DEF SendStreamError
<1>10. ASSUME NEW f \in QrFlows, UserScans(f) PROVE FALSE
  <2>1. Event("pairSuccess", dev[f].adv) \in BusEvents
    BY <1>0, DeviceFacts, EventFacts, Names DEF Kinds, LocalOK
  <2> QED
    BY <1>0, <1>2, <1>3, <1>10, <2>1, PublishFacts DEF UserScans
<1>11. ASSUME NEW f \in CodeFlows, UserConfirms(f) PROVE FALSE
  <2>1. Event("confirm", f) \in BusEvents
    BY EventFacts, Names DEF Kinds
  <2> QED
    BY <1>0, <1>2, <1>3, <1>11, <2>1, PublishFacts DEF UserConfirms
<1>12. ASSUME NEW f \in CodeFlows, SendPairSuccess(f) PROVE FALSE
  <2>1. Event("pairSuccess", f) \in BusEvents
    BY EventFacts, Names DEF Kinds
  <2> QED
    BY <1>0, <1>2, <1>3, <1>12, <2>1, PublishFacts DEF SendPairSuccess
<1>13. ASSUME NEW f \in Flows, QueuedSignSent(f) PROVE FALSE
  BY <1>2, <1>13 DEF QueuedSignSent, busVars, FromStream
<1>14. ASSUME LoadDevice PROVE FALSE
  BY <1>2, <1>14 DEF LoadDevice, busVars, FromStream
<1>15. ASSUME InstallDevice PROVE FALSE
  BY <1>2, <1>15 DEF InstallDevice, busVars, FromStream
<1>16. ASSUME FinishInit PROVE FALSE
  BY <1>2, <1>16 DEF FinishInit, busVars, FromStream
<1>17. ASSUME SaveAdv PROVE FALSE
  BY <1>2, <1>17 DEF SaveAdv, busVars, FromStream
<1>18. ASSUME SendFinish PROVE FALSE
  BY <1>2, <1>18 DEF SendFinish, busVars, FromStream
<1>19. ASSUME NEW f \in QrFlows, RequestPairing(f) PROVE FALSE
  BY <1>2, <1>19 DEF RequestPairing, busVars, FromStream
<1>20. ASSUME NEW f \in QrFlows, QrEnds(f) PROVE FALSE
  BY <1>0, <1>2, <1>20, LeaveFacts, Names DEF QrEnds, Ended
<1>21. ASSUME NEW f \in CodeFlows, RequestPairCode(f) PROVE FALSE
  BY <1>2, <1>21 DEF RequestPairCode, busVars, FromStream
<1>22. ASSUME NEW f \in CodeFlows, TaskStarts(f) PROVE FALSE
  BY <1>2, <1>22 DEF TaskStarts, busVars, FromStream
<1>23. ASSUME NEW f \in CodeFlows, CloneDevice(f) PROVE FALSE
  BY <1>2, <1>23 DEF CloneDevice, busVars, FromStream
<1>24. ASSUME NEW f \in Flows, FinishFlow(f) PROVE FALSE
  BY <1>0, <1>2, <1>24, LeaveFacts, Names DEF FinishFlow, Ended
<1>25. ASSUME NEW f \in Flows, ReadEvent(f) PROVE FALSE
  <2>1. ~Leave(f, "failed")
    BY <1>0, <1>2, LeaveFacts DEF Ended
  <2>2. ~Next1(f)
    BY <1>0, <1>2, <1>25, PopFacts
  <2> QED
    BY <1>25, <2>1, <2>2 DEF ReadEvent
<1>26. ASSUME NEW f \in Flows, Respond(f) PROVE FALSE
  <2>1. ~Leave(f, "failed")
    BY <1>0, <1>2, LeaveFacts DEF Ended
  <2> QED
    BY <1>2, <1>26, <2>1 DEF Respond, busVars
<1>27. ASSUME NEW f \in Flows, Save(f) PROVE FALSE
  <2>1. ~Leave(f, "failed")
    BY <1>0, <1>2, LeaveFacts DEF Ended
  <2> QED
    BY <1>2, <1>27, <2>1 DEF Save, busVars
<1>28. ASSUME NEW f \in CodeFlows, UserMistypes(f) PROVE FALSE
  <2>1. Event("confirm", Junk) \in BusEvents
    BY EventFacts, Names DEF Kinds
  <2> QED
    BY <1>0, <1>2, <1>3, <1>28, <2>1, PublishFacts DEF UserMistypes
<1>29. ASSUME NEW f \in CodeFlows, HelloArrives(f) PROVE FALSE
  BY <1>2, <1>29 DEF HelloArrives, busVars
<1>30. ASSUME NEW f \in CodeFlows, HelloFails(f) PROVE FALSE
  BY <1>2, <1>30 DEF HelloFails, busVars
<1>31. ASSUME NEW f \in CodeFlows, StoreCode(f) PROVE FALSE
  BY <1>2, <1>31 DEF StoreCode, busVars
<1> QED
  BY <1>4, <1>5, <1>6, <1>7, <1>8, <1>9, <1>10, <1>11, <1>12, <1>13, <1>14, <1>15, <1>16, <1>17,
     <1>18,
     <1>19, <1>20, <1>21, <1>22, <1>23, <1>24, <1>25, <1>26, <1>27,
     <1>28, <1>29, <1>30, <1>31, Names
  DEF Next, ServerNext, StreamNext, FlowNext, StreamHandles

\* If the tasks keep up and no flow has failed, the application is not told of
\* the reconnect that the server forces after a pairing (post_pair_reconnect).
THEOREM Silent == Spec => WindowIsSilent
<1>1. ASSUME PairingInv, [Next]_vars, prompt, StreamReads({"forced", "streamError"}),
             \A f \in Flows : flow[f] # "failed"
      PROVE  shown' = shown
  <2>1. StreamHandles
    BY <1>1, StreamReader DEF PairingInv
  <2>2. Head(queue[Stream]).kind \in {"forced", "streamError"} /\ Head(queue[Stream]) \in Events(Stream)
    <3>1. queue[Stream] \in Seq(BusEvents) /\ queue[Stream] # << >>
      BY <1>1, QueueTyped, Names DEF PairingInv, ShapeInv, QueueOK, StreamReads
    <3>2. Head(queue[Stream]) \in Elems(queue[Stream])
      BY <3>1, ElemsPop
    <3> QED
      BY <1>1, <3>2, EventsElems DEF StreamReads
  <2>3. linked \in {"ending", "dropped"}
    BY <1>1, <2>2 DEF PairingInv, PromptInv, BetweenInv, KindIn
  <2>4. flag
    BY <1>1, <2>3 DEF PairingInv, PromptInv, FlagInv
  <2> QED
    BY <2>1, <2>2, <2>4
    DEF StreamHandles, HandleConnected, HandleDisconnected, HandleStreamError, IgnoreNode,
        HandleConfirm, streamVars
<1>2. PairingInv /\ [Next]_vars =>
        (prompt /\ StreamReads({"forced", "streamError"}) /\ (\A f \in Flows : flow[f] # "failed")
            => shown' = shown)
  BY <1>1
<1> QED
  BY <1>2, PairingInvariant, PTL DEF Spec, WindowIsSilent

\* If the tasks keep up, a connection that is lost after the reconnect is
\* reported to the application: the flag does not outlive the reconnect.
THEOREM RealDrop == Spec => RealDropShown
<1>1. ASSUME PairingInv, [Next]_vars, prompt, StreamReads({"lost"}), linked = "settled"
      PROVE  shown' = "disconnected"
  <2>1. StreamHandles
    BY <1>1, StreamReader DEF PairingInv
  <2>2. Head(queue[Stream]).kind = "lost"
    BY <1>1 DEF StreamReads
  <2>3. HandleDisconnected
    BY <2>1, <2>2 DEF StreamHandles, HandleConnected, HandleStreamError, IgnoreNode, HandleConfirm
  <2>4. queue[Stream] \in Seq(BusEvents) /\ queue[Stream] # << >>
    BY <1>1, QueueTyped, Names DEF PairingInv, ShapeInv, QueueOK, StreamReads
  <2>5. ~ConnectedNext(queue[Stream])
    BY <2>2, <2>4, ConnectedPop
  <2>6. ~flag
    BY <1>1, <2>3, <2>5 DEF PairingInv, PromptInv, ReloadInv, HandleDisconnected
  <2> QED
    BY <2>3, <2>6 DEF HandleDisconnected
<1>2. PairingInv /\ [Next]_vars =>
        (prompt /\ StreamReads({"lost"}) /\ linked = "settled" => shown' = "disconnected")
  BY <1>1
<1> QED
  BY <1>2, PairingInvariant, PTL DEF Spec, RealDropShown

=============================================================================
