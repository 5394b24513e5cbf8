-------------------------- MODULE DeviceLifeProofs --------------------------
(***************************************************************************)
(* The invariant of DeviceLife and what follows from it, for any number of *)
(* identities, clients and restarts and any capacity of the bus.  The      *)
(* parts of DeviceInv depend on each other, so that a lemma on a part uses *)
(* the others; SignedKeyServes is needed for KeyInv and ConfirmInv.        *)
(***************************************************************************)
EXTENDS DeviceLife, SequenceTheorems, TLAPS

-----------------------------------------------------------------------------
(* Devices.                                                                *)

LEMMA NoDeviceFacts == NoDevice \in Devices /\ NoDevice.id = 0 /\ NoDevice.paired = FALSE
  BY DEF NoDevice, Device, Devices

LEMMA DeviceFacts ==
    ASSUME NEW x \in Devices
    PROVE  /\ x.id \in Ids \cup {0} /\ x.paired \in BOOLEAN
           /\ x # NoDevice => x.id \in Ids
           /\ x.paired => x # NoDevice
<1>1. CASE x \in [id : Ids, paired : BOOLEAN]
  <2>1. x.id \in Ids /\ x.paired \in BOOLEAN
    BY <1>1
  <2>2. x.id # 0 /\ NoDevice.id = 0
    BY <2>1 DEF NoDevice, Device, Ids
  <2>3. x # NoDevice
    BY <2>2
  <2> QED
    BY <2>1, <2>3
<1>2. CASE x = NoDevice
  BY <1>2, NoDeviceFacts
<1> QED
  BY <1>1, <1>2 DEF Devices

LEMMA SameDevice ==
    ASSUME NEW x \in Devices, NEW y \in Devices, x.id = y.id, x.paired <=> y.paired
    PROVE  x = y
<1>1. x.paired = y.paired
  BY DeviceFacts
<1>2. x = [id |-> x.id, paired |-> x.paired] /\ y = [id |-> y.id, paired |-> y.paired]
  BY DEF Devices, NoDevice, Device
<1> QED
  BY <1>1, <1>2

LEMMA MadeDevice ==
    ASSUME NEW i \in Ids, NEW p \in BOOLEAN
    PROVE  /\ Device(i, p) \in Devices /\ Device(i, p) # NoDevice
           /\ Device(i, p).id = i /\ Device(i, p).paired = p
  BY DEF NoDevice, Device, Devices, Ids

LEMMA NoIdZero == 0 \notin Ids /\ Ids \subseteq Nat
  BY DEF Ids

\* A device that is made is nobody else's.
LEMMA NewIdFacts == CanMake => NewId \in Ids /\ NewId \notin Known
  BY DEF CanMake, NewId

-----------------------------------------------------------------------------
(* The rejections among the events.                                        *)

LEMMA RejectionsKept == events' = events => Rejections' = Rejections
  BY DEF Rejections

LEMMA RejectionsIds == events \in Seq(Events) => Rejections \subseteq Ids
<1> SUFFICES ASSUME events \in Seq(Events) PROVE Rejections \subseteq Ids
  OBVIOUS
<1>1. \A n \in 1..Len(events) : events[n] \in Events
  BY ElementOfSeq, LenProperties
<1>2. \A e \in Events : e.id \in Ids
  BY DEF Events
<1> QED
  BY <1>1, <1>2 DEF Rejections

LEMMA RejectionsNone == (events = << >> => Rejections = {}) /\ (events' = << >> => Rejections' = {})
  BY DEF Rejections

LEMMA RejectionsPublished ==
    ASSUME events \in Seq(Events), NEW kind \in {"connected", "loggedOut", "refused", "confirm"},
           NEW i \in Ids, Publish(kind, i)
    PROVE  /\ kind = "loggedOut" => Rejections' = Rejections \cup {i}
           /\ kind # "loggedOut" => Rejections' = Rejections
<1> DEFINE e == [kind |-> kind, id |-> i]
<1>1. e \in Events /\ events' = Append(events, e)
  BY DEF Publish, Events
<1>2. /\ Len(events) \in Nat /\ Len(events') = Len(events) + 1
      /\ \A n \in 1..Len(events) : events'[n] = events[n]
      /\ events'[Len(events) + 1] = e
  BY <1>1, AppendProperties, LenProperties
<1>3. \A n \in 1..Len(events') : n \in 1..Len(events) \/ n = Len(events) + 1
  BY <1>2
<1>4. Len(events) + 1 \in 1..Len(events') /\ \A n \in 1..Len(events) : n \in 1..Len(events')
  BY <1>2
<1> QED
  BY <1>2, <1>3, <1>4 DEF Rejections

LEMMA RejectionsRead ==
    ASSUME events \in Seq(Events), events # << >>, events' = Tail(events)
    PROVE  /\ Head(events) \in Events
           /\ Rejections' \subseteq Rejections
           /\ Rejections \subseteq Rejections' \cup {Head(events).id}
           /\ Head(events).kind # "loggedOut" => Rejections = Rejections'
           /\ Head(events).kind = "loggedOut" => Head(events).id \in Rejections
<1>1. /\ Len(events) \in Nat /\ Len(events) >= 1 /\ Head(events) = events[1] /\ Head(events) \in Events
      /\ Len(events') = Len(events) - 1
      /\ \A n \in 1..Len(events') : n + 1 \in 1..Len(events) /\ events'[n] = events[n + 1]
  BY HeadTailProperties, LenProperties
<1>2. 1 \in 1..Len(events)
  BY <1>1
<1>3. ASSUME NEW n \in 1..Len(events), n # 1 PROVE n - 1 \in 1..Len(events') /\ events'[n - 1] = events[n]
  BY <1>1, <1>3
<1>4. Rejections' \subseteq Rejections
  BY <1>1 DEF Rejections
<1>5. ASSUME NEW n \in 1..Len(events), events[n].kind = "loggedOut"
      PROVE  events[n].id \in Rejections' \/ (n = 1)
  BY <1>3, <1>5 DEF Rejections
<1>6. Rejections \subseteq Rejections' \cup {Head(events).id}
  BY <1>1, <1>5 DEF Rejections
<1>7. Head(events).kind # "loggedOut" => Rejections \subseteq Rejections'
  BY <1>1, <1>5 DEF Rejections
<1>8. Head(events).kind = "loggedOut" => Head(events).id \in Rejections
  BY <1>1, <1>2 DEF Rejections
<1>9. Head(events).kind # "loggedOut" => Rejections = Rejections'
  <2>1. ASSUME NEW A, NEW B, A \subseteq B, B \subseteq A PROVE A = B
    BY <2>1
  <2> QED
    BY <1>4, <1>7, <2>1
<1> QED
  BY <1>1, <1>4, <1>6, <1>8, <1>9

-----------------------------------------------------------------------------
(* The types, and what is there without a client.                          *)

\* A step keeps, empties or reads the events, or publishes one when there is room;
\* a confirmation is the phone's.
EventStep ==
    \/ events' = events
    \/ events' = << >>
    \/ events # << >> /\ events' = Tail(events)
    \/ \E kind \in {"connected", "loggedOut", "refused", "confirm"} :
          /\ HasRoom /\ conn.id \in Ids /\ Publish(kind, conn.id)
          /\ runner # "stopped" /\ (kind = "confirm" => PhoneConfirms)

LEMMA EventSteps == TypeOK /\ ShapeInv /\ [Next]_vars => EventStep
<1> SUFFICES ASSUME TypeOK, ShapeInv, [Next]_vars PROVE EventStep
  OBVIOUS
<1> USE DEF EventStep, storeVars, clientVars, linkVars, streamVars, flowVars, ghostVars
<1>1. CASE Create
  BY <1>1 DEF Create
<1>2. CASE Connect
  BY <1>2 DEF Connect
<1>3. CASE LoadDevice
  BY <1>3 DEF LoadDevice
<1>4. CASE InstallLoaded
  BY <1>4 DEF InstallLoaded
<1>5. CASE CheckSigned
  BY <1>5 DEF CheckSigned
<1>6. CASE StoreSigned
  BY <1>6 DEF StoreSigned
<1>7. CASE BootFails
  BY <1>7 DEF BootFails
<1>8. CASE LoadForConnect
  BY <1>8 DEF LoadForConnect
<1>9. CASE HandshakeFails
  BY <1>9 DEF HandshakeFails
<1>10. CASE HandshakeDone
  <2>1. conn \in Devices /\ conn # NoDevice /\ runner # "stopped"
    BY <1>10 DEF HandshakeDone, TypeOK, ShapeInv, IsUp
  <2>2. conn.id \in Ids
    BY <2>1, DeviceFacts
  <2> QED
    BY <1>10, <2>1, <2>2 DEF HandshakeDone
<1>11. CASE LinkLost
  BY <1>11 DEF LinkLost
<1>12. CASE ServerRejects
  <2>1. conn \in Devices /\ conn # NoDevice /\ runner # "stopped"
    BY <1>12 DEF ServerRejects, Fail, TypeOK, ShapeInv, IsUp
  <2>2. conn.id \in Ids
    BY <2>1, DeviceFacts
  <2> QED
    BY <1>12, <2>1, <2>2 DEF ServerRejects, Fail
<1>13. CASE ServerRefuses
  <2>1. conn \in Devices /\ conn # NoDevice /\ runner # "stopped"
    BY <1>13 DEF ServerRefuses, Fail, TypeOK, ShapeInv, IsUp
  <2>2. conn.id \in Ids
    BY <2>1, DeviceFacts
  <2> QED
    BY <1>13, <2>1, <2>2 DEF ServerRefuses, Fail
<1>14. ASSUME NEW i \in Ids, PhoneRemoves(i) PROVE EventStep
  BY <1>14 DEF PhoneRemoves
<1>15. ASSUME NEW i \in Ids, LateClears(i) PROVE EventStep
  BY <1>15 DEF LateClears
<1>16. CASE StreamLoads
  BY <1>16 DEF StreamLoads
<1>17. CASE StreamInstalls
  BY <1>17 DEF StreamInstalls
<1>18. CASE StreamShows
  BY <1>18 DEF StreamShows
<1>19. CASE StreamClears
  BY <1>19 DEF StreamClears
<1>20. CASE AppClears
  BY <1>20 DEF AppClears
<1>21. CASE Logout
  BY <1>21 DEF Logout
<1>22. CASE Drop
  BY <1>22 DEF Drop
<1>23. CASE Crash
  BY <1>23 DEF Crash
<1>24. ASSUME NEW how \in {"qr", "code"}, RequestPairing(how) PROVE EventStep
  BY <1>24 DEF RequestPairing
<1>25. CASE PairCodeConfirmed
  BY <1>25 DEF PairCodeConfirmed
<1>26. CASE PairSuccess
  BY <1>26 DEF PairSuccess
<1>27. CASE SavePaired
  BY <1>27 DEF SavePaired
<1>28. CASE StorePairedKey
  BY <1>28 DEF StorePairedKey
<1>29. CASE PairingEnds
  BY <1>29 DEF PairingEnds
<1>31. CASE PhoneConfirms
  <2>1. conn \in Devices /\ conn # NoDevice /\ runner # "stopped"
    BY <1>31 DEF PhoneConfirms, Offered, TypeOK, ShapeInv, IsUp
  <2>2. conn.id \in Ids
    BY <2>1, DeviceFacts
  <2> QED
    BY <1>31, <2>1, <2>2 DEF PhoneConfirms, Offered
<1>32. CASE QueuedSignSent
  BY <1>32 DEF QueuedSignSent
<1>30. CASE UNCHANGED vars
  BY <1>30 DEF vars
<1> QED
    BY <1>1, <1>2, <1>3, <1>4, <1>5, <1>6, <1>7, <1>8, <1>9, <1>10, <1>11, <1>12, <1>13, <1>14,
     <1>15, <1>16, <1>17, <1>18, <1>19, <1>20, <1>21, <1>22, <1>23, <1>24, <1>25, <1>26, <1>27,
     <1>28, <1>29, <1>30, <1>31, <1>32 DEF Next
\* The events stay in the bus's capacity.
LEMMA EventsNext ==
    TypeOK /\ ShapeInv /\ [Next]_vars => events' \in Seq(Events) /\ Len(events') <= BusCapacity
<1> SUFFICES ASSUME TypeOK, ShapeInv, [Next]_vars
             PROVE  events' \in Seq(Events) /\ Len(events') <= BusCapacity
  OBVIOUS
<1>1. events \in Seq(Events) /\ Len(events) <= BusCapacity /\ BusCapacity \in Nat \ {0}
  BY DeviceAssumption DEF TypeOK
<1>2. CASE events' = events
  BY <1>1, <1>2
<1>5. CASE events' = << >>
  BY <1>1, <1>5, EmptySeq
<1>3. CASE events # << >> /\ events' = Tail(events)
  BY <1>1, <1>3, HeadTailProperties, LenProperties
<1>4. ASSUME NEW kind \in {"connected", "loggedOut", "refused", "confirm"}, HasRoom, conn.id \in Ids,
             Publish(kind, conn.id)
      PROVE  events' \in Seq(Events) /\ Len(events') <= BusCapacity
  <2> DEFINE e == [kind |-> kind, id |-> conn.id]
  <2>1. e \in Events /\ events' = Append(events, e)
    BY <1>4 DEF Publish, Events
  <2> QED
    BY <1>1, <1>4, <2>1, AppendProperties, LenProperties DEF HasRoom
<1> QED
  BY <1>2, <1>3, <1>4, <1>5, EventSteps DEF EventStep

\* The invariant holds when the process starts.
LEMMA TypeInit == Init => DeviceInv
<1> SUFFICES ASSUME Init PROVE DeviceInv
  OBVIOUS
<1>1. row \in Devices /\ signed = row.id /\ (row # NoDevice => row.id = 1 /\ row.paired /\ 1 \in Ids)
  <2>1. 1 \in Ids
    BY DeviceAssumption DEF Ids
  <2> QED
    BY <2>1, NoDeviceFacts, MadeDevice DEF Init
<1>2. Rejections = {} /\ events \in Seq(Events) /\ Len(events) = 0
  BY RejectionsNone, EmptySeq DEF Init
<1>3. TypeOK
  <2>1. Len(events) <= BusCapacity /\ 0 \in 0..MaxClients
    BY <1>2, DeviceAssumption
  <2>2. signed \in Ids \cup {0} /\ row \in Devices
    BY <1>1, DeviceFacts
  <2>3. server \in [Ids -> {"unknown", "linked", "removed"}]
    BY DEF Init
  <2> QED
    BY <1>2, <2>1, <2>2, <2>3, NoDeviceFacts DEF TypeOK, Init
<1>4. ShapeInv
  BY <1>1, <1>2, NoDeviceFacts DEF ShapeInv, Init, IsUp, Unanswered, Pairs, Unpaired
<1>5. FlowInv
  BY <1>1, <1>2, NoDeviceFacts DEF FlowInv, Init, Pairs
<1>6. CopyInv
  BY <1>1, <1>2, NoDeviceFacts DEF CopyInv, Init, Unpaired, Copies, Gone, Pending
<1>7. LostInv
  BY <1>1, <1>2, NoDeviceFacts DEF LostInv, Init, Unpaired, Copies, Gone, Pending, Linked
<1>8. KeyInv
  BY <1>1, <1>2, NoDeviceFacts DEF KeyInv, Init, Unpaired, Copies, Pairs
<1>9. ClientInv
  BY <1>1, <1>2, NoDeviceFacts DEF ClientInv, Init
<1>10. RejectedLast /\ ConfirmInv
  BY <1>2 DEF RejectedLast, ConfirmInv, ConfirmHeld
<1> QED
  BY <1>3, <1>4, <1>5, <1>6, <1>7, <1>8, <1>9, <1>10 DEF DeviceInv

\* Every step keeps the types.
LEMMA TypeNext == TypeOK /\ ShapeInv /\ [Next]_vars => TypeOK'
<1> SUFFICES ASSUME TypeOK /\ ShapeInv, [Next]_vars PROVE TypeOK'
  OBVIOUS
<1> USE DEF storeVars, clientVars, linkVars, streamVars, flowVars, ghostVars
<1>a. events' \in Seq(Events) /\ Len(events') <= BusCapacity
  BY EventsNext
<1>b. /\ row \in Devices /\ memory \in Devices /\ loaded \in Devices /\ conn \in Devices
      /\ fresh \in Devices /\ dev \in Devices
  BY DEF TypeOK
<1>c. Pairs => dev.id \in Ids
  BY <1>b, DeviceFacts DEF ShapeInv
<1>1. CASE Create
  <2>1. Device(NewId, FALSE) \in Devices
    BY <1>1, NewIdFacts, MadeDevice DEF Create
  <2> QED
    BY <1>1, <1>a, <2>1 DEF Create, TypeOK
<1>2. CASE Connect
  <2>1. Device(NewId, FALSE) \in Devices
    BY <1>2, NewIdFacts, MadeDevice DEF Connect
  <2>2. clients' \in 0..MaxClients
    BY <1>2, DeviceAssumption DEF Connect, TypeOK
  <2> QED
    BY <1>2, <1>a, <2>1, <2>2 DEF Connect, TypeOK
<1>3. CASE LoadDevice
  BY <1>3, <1>a, <1>b, NoDeviceFacts, DeviceFacts, DeviceAssumption DEF LoadDevice, TypeOK
<1>4. CASE InstallLoaded
  BY <1>4, <1>a, <1>b, NoDeviceFacts, DeviceFacts, DeviceAssumption DEF InstallLoaded, TypeOK
<1>5. CASE CheckSigned
  BY <1>5, <1>a, <1>b, NoDeviceFacts, DeviceFacts, DeviceAssumption DEF CheckSigned, TypeOK
<1>6. CASE StoreSigned
  BY <1>6, <1>a, <1>b, NoDeviceFacts, DeviceFacts, DeviceAssumption DEF StoreSigned, TypeOK
<1>7. CASE BootFails
  BY <1>7, <1>a, <1>b, NoDeviceFacts, DeviceFacts, DeviceAssumption DEF BootFails, TypeOK
<1>8. CASE LoadForConnect
  BY <1>8, <1>a, <1>b, NoDeviceFacts, DeviceFacts, DeviceAssumption DEF LoadForConnect, TypeOK
<1>9. CASE HandshakeFails
  BY <1>9, <1>a, <1>b, NoDeviceFacts, DeviceFacts, DeviceAssumption DEF HandshakeFails, TypeOK
<1>10. CASE HandshakeDone
  BY <1>10, <1>a, <1>b, NoDeviceFacts, DeviceFacts, DeviceAssumption DEF HandshakeDone, TypeOK
<1>11. CASE LinkLost
    BY <1>11, <1>a, <1>b, NoDeviceFacts, DeviceFacts, DeviceAssumption DEF LinkLost,
     StopUnanswered, Unanswered, IsUp, HasRoom, TypeOK
<1>12. CASE ServerRejects
    BY <1>12, <1>a, <1>b, NoDeviceFacts, DeviceFacts, DeviceAssumption DEF ServerRejects, Fail,
     StopUnanswered, Unanswered, IsUp, TypeOK
<1>13. CASE ServerRefuses
    BY <1>13, <1>a, <1>b, NoDeviceFacts, DeviceFacts, DeviceAssumption DEF ServerRefuses, Fail,
     StopUnanswered, Unanswered, IsUp, TypeOK
<1>14. ASSUME NEW i \in Ids, PhoneRemoves(i) PROVE TypeOK'
  BY <1>14, <1>a, <1>b, NoDeviceFacts, DeviceFacts, DeviceAssumption DEF PhoneRemoves, TypeOK
<1>15. ASSUME NEW i \in Ids, LateClears(i) PROVE TypeOK'
    BY <1>15, <1>a, <1>b, NoDeviceFacts, DeviceFacts, DeviceAssumption DEF LateClears,
     ClearRejected, Clear, Stored, TypeOK
<1>16. CASE StreamLoads
  BY <1>16, <1>a, <1>b, NoDeviceFacts, DeviceFacts, DeviceAssumption DEF StreamLoads, TypeOK
<1>17. CASE StreamInstalls
  BY <1>17, <1>a, <1>b, NoDeviceFacts, DeviceFacts, DeviceAssumption DEF StreamInstalls, TypeOK
<1>18. CASE StreamShows
  BY <1>18, <1>a, <1>b, NoDeviceFacts, DeviceFacts, DeviceAssumption DEF StreamShows, TypeOK
<1>19. CASE StreamClears
  <2>1. Head(events) \in Events
    BY <1>19, RejectionsRead DEF StreamClears, TypeOK
  <2>2. Head(events).id \in Ids /\ Stored \subseteq Ids
    BY <1>b, <2>1, DeviceFacts DEF Events, Stored
  <2>3. lost' \subseteq Ids /\ rejected' \subseteq Ids /\ row' \in Devices /\ undercut' \in BOOLEAN
    BY <1>19, <1>b, <2>2, NoDeviceFacts DEF StreamClears, ClearRejected, Clear, TypeOK
  <2> QED
    BY <1>19, <1>a, <2>3 DEF StreamClears, TypeOK
<1>20. CASE AppClears
  <2>1. Stored \subseteq Ids
    BY <1>b, DeviceFacts DEF Stored
  <2>2. lost' \subseteq Ids /\ row' \in Devices /\ undercut' \in BOOLEAN
    BY <1>20, <1>b, <2>1, NoDeviceFacts DEF AppClears, Clear, TypeOK
  <2> QED
    BY <1>20, <1>a, <2>2 DEF AppClears, TypeOK
<1>21. CASE Logout
    BY <1>21, <1>a, <1>b, NoDeviceFacts, DeviceFacts, DeviceAssumption DEF Logout,
     StopUnanswered, Unanswered, IsUp, TypeOK
<1>22. CASE Drop
  <2>1. late' \subseteq Ids
    BY <1>22, RejectionsIds DEF Drop, TypeOK
  <2>2. flow' \in {"none", "qr", "code", "confirmed", "saving", "signing"} /\ dev' \in Devices
    BY <1>22, <1>b, NoDeviceFacts DEF Drop, StopUnanswered, TypeOK
  <2> QED
    BY <1>22, <1>a, <2>1, <2>2, NoDeviceFacts DEF Drop, TypeOK
<1>23. CASE Crash
  <2>2. lost' \subseteq Ids /\ interrupted' \subseteq Ids
    BY <1>23, <1>c DEF Crash, TypeOK, Pairs
  <2>3. row' \in Devices /\ signed' \in Ids \cup {0}
    BY <1>23, <1>b, NoDeviceFacts DEF Crash, TypeOK
  <2> QED
    BY <1>23, <1>a, <2>2, <2>3, NoDeviceFacts DEF Crash, TypeOK
<1>24. ASSUME NEW how \in {"qr", "code"}, RequestPairing(how) PROVE TypeOK'
    BY <1>24, <1>a, <1>b, NoDeviceFacts, DeviceFacts, DeviceAssumption DEF RequestPairing, IsUp,
     TypeOK
<1>25. CASE PairCodeConfirmed
  <2>1. row' \in Devices /\ undercut' \in BOOLEAN /\ code' \in BOOLEAN
    BY <1>25, <1>b DEF PairCodeConfirmed, TypeOK
  <2>2. flow' \in {"none", "qr", "code", "confirmed", "saving", "signing"}
    BY <1>25 DEF PairCodeConfirmed, TypeOK
  <2>3. lost' \subseteq Ids
    BY <1>25, <1>b, DeviceFacts DEF PairCodeConfirmed, Stored, TypeOK
  <2> QED
    BY <1>25, <1>a, <2>1, <2>2, <2>3 DEF PairCodeConfirmed, TypeOK
<1>26. CASE PairSuccess
  <2>1. dev' \in Devices
    <3>1. ASSUME NEW x \in Devices, x # NoDevice PROVE Device(x.id, TRUE) \in Devices
      BY <3>1, DeviceFacts, MadeDevice
    <3>2. flow = "qr" => dev # NoDevice
      BY <1>26 DEF PairSuccess, ShapeInv, Unpaired
    <3>3. memory # NoDevice
      BY <1>26 DEF PairSuccess, Offered, ShapeInv
    <3> QED
      BY <1>26, <1>b, <3>1, <3>2, <3>3, NoDeviceFacts DEF PairSuccess
  <2>2. server' \in [Ids -> {"unknown", "linked", "removed"}]
    BY <1>26 DEF PairSuccess, TypeOK
  <2>3. /\ flow' \in {"none", "saving"}
        /\ runner' \in {"off", "start", "handshake", "up", "restarting", "stopped"}
    BY <1>26 DEF PairSuccess, TypeOK
  <2>4. queued' \in Ids \cup {0}
    <3>1. flow = "qr" => dev.id \in Ids
      BY <1>26, <1>b, DeviceFacts DEF PairSuccess, ShapeInv, Unpaired
    <3>2. memory.id \in Ids
      BY <1>26, <1>b, DeviceFacts DEF PairSuccess, Offered, ShapeInv
    <3> QED
      BY <1>26, <3>1, <3>2 DEF PairSuccess, TypeOK
  <2> QED
    BY <1>26, <1>a, <2>1, <2>2, <2>3, <2>4 DEF PairSuccess, TypeOK
<1>27. CASE SavePaired
  <2>1. lost' \subseteq Ids /\ row' \in Devices /\ dev' \in Devices /\ flow' \in {"none", "signing"}
    BY <1>27, <1>b, <1>c, NoDeviceFacts DEF SavePaired, TypeOK, Pairs
  <2> QED
    BY <1>27, <1>a, <2>1 DEF SavePaired, TypeOK
<1>28. CASE StorePairedKey
  <2>1. interrupted' \subseteq Ids /\ signed' \in Ids \cup {0}
    BY <1>28, <1>c DEF StorePairedKey, TypeOK, Pairs
  <2> QED
    BY <1>28, <1>a, <2>1, NoDeviceFacts DEF StorePairedKey, TypeOK
<1>29. CASE PairingEnds
    BY <1>29, <1>a, <1>b, NoDeviceFacts, DeviceFacts, DeviceAssumption DEF PairingEnds,
     Unanswered, TypeOK
<1>31. CASE PhoneConfirms
  BY <1>31, <1>a, <1>b DEF PhoneConfirms, TypeOK
<1>32. CASE QueuedSignSent
  <2>1. queued \in Ids
    BY <1>32 DEF QueuedSignSent, TypeOK
  <2>2. server' \in [Ids -> {"unknown", "linked", "removed"}] /\ lost' \subseteq Ids
    BY <1>32, <2>1 DEF QueuedSignSent, TypeOK
  <2>3. runner' \in {"off", "start", "handshake", "up", "restarting", "stopped"}
    BY <1>32 DEF QueuedSignSent, TypeOK
  <2> QED
    BY <1>32, <1>a, <2>2, <2>3 DEF QueuedSignSent, TypeOK
<1>30. CASE UNCHANGED vars
  BY <1>30, <1>a, <1>b, NoDeviceFacts, DeviceFacts, DeviceAssumption DEF vars, TypeOK
<1> QED
    BY <1>1, <1>2, <1>3, <1>4, <1>5, <1>6, <1>7, <1>8, <1>9, <1>10, <1>11, <1>12, <1>13, <1>14,
     <1>15, <1>16, <1>17, <1>18, <1>19, <1>20, <1>21, <1>22, <1>23, <1>24, <1>25, <1>26, <1>27,
     <1>28, <1>29, <1>30, <1>31, <1>32 DEF Next

\* Every step keeps what is there without a client and with a flow.
LEMMA ShapeNext == TypeOK /\ ShapeInv /\ FlowInv /\ [Next]_vars => ShapeInv'
<1> SUFFICES ASSUME TypeOK /\ ShapeInv /\ FlowInv, [Next]_vars PROVE ShapeInv'
  OBVIOUS
<1> USE DEF storeVars, clientVars, linkVars, streamVars, flowVars, ghostVars
<1>b. /\ row \in Devices /\ memory \in Devices /\ loaded \in Devices /\ conn \in Devices
      /\ fresh \in Devices /\ dev \in Devices
  BY DEF TypeOK
<1>c. NoDevice.paired = FALSE
  BY NoDeviceFacts
<1>d. ASSUME NEW i PROVE Device(i, TRUE).paired = TRUE /\ Device(i, FALSE).paired = FALSE
  BY DEF Device
<1>e. /\ boot \in {"none", "new", "locking", "checking", "storing", "ready"}
      /\ runner \in {"off", "start", "handshake", "up", "restarting", "stopped"}
      /\ stream \in {"idle", "install"}
      /\ flow \in {"none", "qr", "code", "confirmed", "saving", "signing"}
  BY DEF TypeOK
<1>1. CASE Create
  BY <1>1, <1>c, <1>d, <1>e DEF Create, ShapeInv, IsUp, Unanswered, Pairs, Unpaired
<1>2. CASE Connect
  <2>1. Device(NewId, FALSE) # NoDevice
    BY <1>2, NewIdFacts, MadeDevice DEF Connect
  <2> QED
    BY <1>2, <1>c, <2>1 DEF Connect, ShapeInv, IsUp, Unanswered, Pairs, Unpaired
<1>3. CASE LoadDevice
  BY <1>3, <1>c, <1>d, <1>e DEF LoadDevice, ShapeInv, IsUp, Unanswered, Pairs, Unpaired
<1>4. CASE InstallLoaded
  BY <1>4, <1>c, <1>d, <1>e DEF InstallLoaded, ShapeInv, IsUp, Unanswered, Pairs, Unpaired
<1>5. CASE CheckSigned
  BY <1>5, <1>c, <1>d, <1>e DEF CheckSigned, ShapeInv, IsUp, Unanswered, Pairs, Unpaired
<1>6. CASE StoreSigned
  BY <1>6, <1>c, <1>d, <1>e DEF StoreSigned, ShapeInv, IsUp, Unanswered, Pairs, Unpaired
<1>7. CASE BootFails
  BY <1>7, <1>c, <1>d, <1>e DEF BootFails, ShapeInv, IsUp, Unanswered, Pairs, Unpaired
<1>8. CASE LoadForConnect
  BY <1>8, <1>c, <1>d, <1>e DEF LoadForConnect, ShapeInv, IsUp, Unanswered, Pairs, Unpaired
<1>9. CASE HandshakeFails
  BY <1>9, <1>c, <1>d, <1>e DEF HandshakeFails, ShapeInv, IsUp, Unanswered, Pairs, Unpaired
<1>10. CASE HandshakeDone
  BY <1>10, <1>c, <1>d, <1>e DEF HandshakeDone, ShapeInv, IsUp, Unanswered, Pairs, Unpaired
<1>11. CASE LinkLost
    BY <1>11, <1>c, <1>d, <1>e DEF LinkLost, StopUnanswered, Unanswered, IsUp, HasRoom,
     ShapeInv, Pairs, Unpaired
<1>12. CASE ServerRejects
    BY <1>12, <1>c, <1>d, <1>e DEF ServerRejects, Fail, StopUnanswered, Unanswered, IsUp,
     ShapeInv, Pairs, Unpaired
<1>13. CASE ServerRefuses
    BY <1>13, <1>c, <1>d, <1>e DEF ServerRefuses, Fail, StopUnanswered, Unanswered, IsUp,
     ShapeInv, Pairs, Unpaired
<1>14. ASSUME NEW i \in Ids, PhoneRemoves(i) PROVE ShapeInv'
  BY <1>14, <1>c, <1>d, <1>e DEF PhoneRemoves, ShapeInv, IsUp, Unanswered, Pairs, Unpaired
<1>15. ASSUME NEW i \in Ids, LateClears(i) PROVE ShapeInv'
    BY <1>15, <1>c, <1>d, <1>e DEF LateClears, ClearRejected, Clear, Stored, ShapeInv, IsUp,
     Unanswered, Pairs, Unpaired
<1>16. CASE StreamLoads
  BY <1>16, <1>c, <1>d, <1>e DEF StreamLoads, ShapeInv, IsUp, Unanswered, Pairs, Unpaired
<1>17. CASE StreamInstalls
  BY <1>17, <1>c, <1>d, <1>e DEF StreamInstalls, ShapeInv, IsUp, Unanswered, Pairs, Unpaired
<1>18. CASE StreamShows
  BY <1>18, <1>c, <1>d, <1>e DEF StreamShows, ShapeInv, IsUp, Unanswered, Pairs, Unpaired
<1>19. CASE StreamClears
    BY <1>19, <1>c, <1>d, <1>e DEF StreamClears, ClearRejected, Clear, Stored, ShapeInv, IsUp,
     Unanswered, Pairs, Unpaired
<1>20. CASE AppClears
    BY <1>20, <1>c, <1>d, <1>e DEF AppClears, Clear, Stored, ShapeInv, IsUp, Unanswered, Pairs,
     Unpaired
<1>21. CASE Logout
  BY <1>21, <1>c, <1>d, <1>e DEF Logout, StopUnanswered, Unanswered, IsUp, ShapeInv, Pairs, Unpaired
<1>22. CASE Drop
  BY <1>22, <1>c, <1>d, <1>e DEF Drop, StopUnanswered, Unanswered, ShapeInv, IsUp, Pairs, Unpaired
<1>23. CASE Crash
  BY <1>23, <1>c, <1>d, <1>e DEF Crash, ShapeInv, IsUp, Unanswered, Pairs, Unpaired
<1>24. ASSUME NEW how \in {"qr", "code"}, RequestPairing(how) PROVE ShapeInv'
  BY <1>24, <1>c, <1>d, <1>e DEF RequestPairing, IsUp, ShapeInv, Unanswered, Pairs, Unpaired
<1>25. CASE PairCodeConfirmed
    BY <1>25, <1>c, <1>d, <1>e DEF PairCodeConfirmed, Offered, ShapeInv, IsUp, Unanswered,
     Pairs, Unpaired
<1>26. CASE PairSuccess
  BY <1>26, <1>c, <1>d, <1>e DEF PairSuccess, Offered, ShapeInv, IsUp, Unanswered, Pairs, Unpaired
<1>27. CASE SavePaired
  BY <1>27, <1>c, <1>d, <1>e DEF SavePaired, ShapeInv, IsUp, Unanswered, Pairs, Unpaired
<1>28. CASE StorePairedKey
  BY <1>28, <1>c, <1>d, <1>e DEF StorePairedKey, ShapeInv, IsUp, Unanswered, Pairs, Unpaired
<1>29. CASE PairingEnds
  BY <1>29, <1>c, <1>d, <1>e DEF PairingEnds, Unanswered, ShapeInv, IsUp, Pairs, Unpaired
<1>31. CASE PhoneConfirms
  BY <1>31, <1>c, <1>d, <1>e DEF PhoneConfirms, Offered, ShapeInv, IsUp, Unanswered, Pairs, Unpaired
<1>32. CASE QueuedSignSent
  BY <1>32, <1>c, <1>d, <1>e DEF QueuedSignSent, ShapeInv, IsUp, Unanswered, Pairs, Unpaired
<1>30. CASE UNCHANGED vars
  BY <1>30, <1>c, <1>d, <1>e DEF vars, ShapeInv, IsUp, Unanswered, Pairs, Unpaired
<1> QED
    BY <1>1, <1>2, <1>3, <1>4, <1>5, <1>6, <1>7, <1>8, <1>9, <1>10, <1>11, <1>12, <1>13, <1>14,
     <1>15, <1>16, <1>17, <1>18, <1>19, <1>20, <1>21, <1>22, <1>23, <1>24, <1>25, <1>26, <1>27,
     <1>28, <1>29, <1>30, <1>31, <1>32 DEF Next

-----------------------------------------------------------------------------
(* The confirmations and the rejections among the events.                  *)

\* The stream that reads a confirmation finds one held.
LEMMA PendingHead ==
    ASSUME events \in Seq(Events), events # << >>, Head(events).kind = "confirm"
    PROVE  ConfirmHeld
<1>1. 1 \in 1..Len(events) /\ Head(events) = events[1]
  BY HeadTailProperties, LenProperties
<1> QED
  BY <1>1 DEF ConfirmHeld

\* Every step keeps a rejection the last of the events.
LEMMA LastNext == DeviceInv /\ [Next]_vars => RejectedLast'
<1> SUFFICES ASSUME DeviceInv, [Next]_vars PROVE RejectedLast'
  OBVIOUS
<1>a. events \in Seq(Events) /\ Len(events) \in Nat /\ RejectedLast /\ EventStep
  BY EventSteps, LenProperties DEF DeviceInv, TypeOK
<1>1. CASE events' = events
  BY <1>a, <1>1 DEF RejectedLast
<1>2. CASE events' = << >>
  BY <1>2 DEF RejectedLast
<1>3. CASE events # << >> /\ events' = Tail(events)
  <2>1. /\ Len(events') = Len(events) - 1 /\ Len(events) >= 1
        /\ \A n \in 1..Len(events') : n + 1 \in 1..Len(events) /\ events'[n] = events[n + 1]
    BY <1>a, <1>3, HeadTailProperties, LenProperties
  <2> QED
    BY <1>a, <2>1 DEF RejectedLast
<1>4. ASSUME NEW kind \in {"connected", "loggedOut", "refused", "confirm"},
             Publish(kind, conn.id), conn.id \in Ids, runner # "stopped"
      PROVE  RejectedLast'
  <2> DEFINE e == [kind |-> kind, id |-> conn.id]
  <2>1. e \in Events /\ events' = Append(events, e)
    BY <1>4 DEF Publish, Events
  <2>2. /\ Len(events') = Len(events) + 1
        /\ \A n \in 1..Len(events) : events'[n] = events[n]
    BY <1>a, <2>1, AppendProperties
  <2>3. \A n \in 1..Len(events) : events[n].kind # "loggedOut"
    <3>1. Rejections = {}
      BY <1>4 DEF DeviceInv, CopyInv
    <3> QED
      BY <3>1 DEF Rejections
  <2> QED
    BY <1>a, <2>2, <2>3 DEF RejectedLast
<1> QED
  BY <1>a, <1>1, <1>2, <1>3, <1>4 DEF EventStep

\* Only the phone adds a confirmation.
LEMMA HeldNext == TypeOK /\ ShapeInv /\ [Next]_vars /\ ConfirmHeld' => ConfirmHeld \/ PhoneConfirms
<1> SUFFICES ASSUME TypeOK, ShapeInv, [Next]_vars, ConfirmHeld' PROVE ConfirmHeld \/ PhoneConfirms
  OBVIOUS
<1>a. events \in Seq(Events) /\ Len(events) \in Nat /\ EventStep
  BY EventSteps, LenProperties DEF TypeOK
<1>1. CASE events' = events
  BY <1>a, <1>1 DEF ConfirmHeld
<1>2. CASE events' = << >>
  BY <1>2 DEF ConfirmHeld
<1>3. CASE events # << >> /\ events' = Tail(events)
  <2>1. \A n \in 1..Len(events') : n + 1 \in 1..Len(events) /\ events'[n] = events[n + 1]
    BY <1>a, <1>3, HeadTailProperties, LenProperties
  <2> QED
    BY <2>1 DEF ConfirmHeld
<1>4. ASSUME NEW kind \in {"connected", "loggedOut", "refused", "confirm"},
             Publish(kind, conn.id), conn.id \in Ids, kind # "confirm"
      PROVE  ConfirmHeld
  <2> DEFINE e == [kind |-> kind, id |-> conn.id]
  <2>1. e \in Events /\ events' = Append(events, e)
    BY <1>4 DEF Publish, Events
  <2>2. /\ Len(events') = Len(events) + 1 /\ events'[Len(events) + 1] = e
        /\ \A n \in 1..Len(events) : events'[n] = events[n]
    BY <1>a, <2>1, AppendProperties
  <2>3. \A n \in 1..Len(events') : n \in 1..Len(events) \/ n = Len(events) + 1
    BY <1>a, <2>2
  <2> QED
    BY <1>4, <2>2, <2>3 DEF ConfirmHeld
<1> QED
  BY <1>a, <1>1, <1>2, <1>3, <1>4 DEF EventStep

\* After the rejection there is nothing to handle.
LEMMA NoneAfterRejection ==
    ASSUME events \in Seq(Events), RejectedLast, events # << >>, Head(events).kind = "loggedOut",
           events' = Tail(events)
    PROVE  ~ConfirmHeld'
<1>1. Len(events) \in Nat /\ 1 \in 1..Len(events) /\ Head(events) = events[1] /\ Len(events') = Len(events) - 1
  BY HeadTailProperties, LenProperties
<1>2. Len(events) = 1
  BY <1>1 DEF RejectedLast
<1>3. Len(events') = 0
  BY <1>1, <1>2
<1> QED
  BY <1>3 DEF ConfirmHeld

\* What the confirmation brings back into the row: the client's own device, given
\* up before unless nobody rejected it.
LEMMA BroughtBack ==
    ASSUME DeviceInv, PairCodeConfirmed, row' # row
    PROVE  /\ code /\ boot = "ready" /\ row' = memory /\ memory # NoDevice
           /\ fresh = NoDevice /\ loaded = NoDevice /\ lost' = lost \cup Stored
           /\ memory.paired => memory.id \in lost /\ Served(memory.id) /\ (Pairs => memory.id = dev.id)
           /\ ~memory.paired /\ memory.id \notin lost' =>
                 memory.id \notin Gone /\ ~(conn.paired /\ conn.id = memory.id)
<1>1. code /\ boot = "ready" /\ row' = memory /\ lost' = lost \cup Stored
  BY DEF PairCodeConfirmed, DeviceInv, ShapeInv
<1>2. memory # NoDevice /\ fresh = NoDevice /\ loaded = NoDevice
  BY <1>1 DEF PairCodeConfirmed, DeviceInv, ShapeInv
<1>3. ConfirmHeld /\ ConfirmInv
  BY PendingHead DEF PairCodeConfirmed, DeviceInv, TypeOK
<1>4. memory.paired => memory.id \in lost /\ Served(memory.id) /\ (Pairs => memory.id = dev.id)
  BY <1>1, <1>3 DEF ConfirmInv, Copies
<1>5. row.paired => row.id \in lost'
  BY <1>1 DEF Stored
<1>6. ~memory.paired /\ memory.id \notin lost' =>
        memory.id \notin Gone /\ ~(conn.paired /\ conn.id = memory.id)
  BY <1>1, <1>2, <1>3, <1>5 DEF ConfirmInv, Copies, Unpaired, Gone, Pending
<1> QED
  BY <1>1, <1>2, <1>4, <1>6

-----------------------------------------------------------------------------
(* Flows and copies.                                                       *)

\* Every step keeps what a flow may assume about the row: only a save and a confirmed
\* pair code write it while a flow is there.
LEMMA FlowNext == DeviceInv /\ [Next]_vars => FlowInv'
<1> SUFFICES ASSUME DeviceInv, [Next]_vars PROVE FlowInv'
  OBVIOUS
<1> USE DEF storeVars, clientVars, linkVars, streamVars, flowVars, ghostVars
<1>a. TypeOK /\ ShapeInv /\ FlowInv /\ CopyInv /\ LostInv /\ ConfirmInv
  BY DEF DeviceInv
<1>b. /\ row \in Devices /\ memory \in Devices /\ loaded \in Devices /\ conn \in Devices
      /\ fresh \in Devices /\ dev \in Devices
  BY <1>a DEF TypeOK
<1>c. NoDevice.paired = FALSE
  BY NoDeviceFacts
<1>d. ASSUME NEW i PROVE Device(i, TRUE).paired = TRUE /\ Device(i, FALSE).paired = FALSE /\ Device(i, TRUE).id = i
  BY DEF Device
<1>1. CASE Create
  BY <1>1, <1>a, <1>c, <1>d DEF Create, FlowInv, ShapeInv, Unanswered, Pairs
<1>2. CASE Connect
  BY <1>2, <1>a, <1>c, <1>d DEF Connect, FlowInv, ShapeInv, Unanswered, Pairs
<1>3. CASE LoadDevice
  BY <1>3, <1>a, <1>c, <1>d DEF LoadDevice, FlowInv, ShapeInv, Unanswered, Pairs
<1>4. CASE InstallLoaded
  BY <1>4, <1>a, <1>c, <1>d DEF InstallLoaded, FlowInv, ShapeInv, Unanswered, Pairs
<1>5. CASE CheckSigned
  BY <1>5, <1>a, <1>c, <1>d DEF CheckSigned, FlowInv, ShapeInv, Unanswered, Pairs
<1>6. CASE StoreSigned
  BY <1>6, <1>a, <1>c, <1>d DEF StoreSigned, FlowInv, ShapeInv, Unanswered, Pairs
<1>7. CASE BootFails
  BY <1>7, <1>a, <1>c, <1>d DEF BootFails, FlowInv, ShapeInv, Unanswered, Pairs
<1>8. CASE LoadForConnect
  BY <1>8, <1>a, <1>c, <1>d DEF LoadForConnect, FlowInv, ShapeInv, Unanswered, Pairs
<1>9. CASE HandshakeFails
  BY <1>9, <1>a, <1>c, <1>d DEF HandshakeFails, FlowInv, ShapeInv, Unanswered, Pairs
<1>10. CASE HandshakeDone
  BY <1>10, <1>a, <1>c, <1>d DEF HandshakeDone, FlowInv, ShapeInv, Unanswered, Pairs
<1>11. CASE LinkLost
    BY <1>11, <1>a, <1>c, <1>d DEF LinkLost, StopUnanswered, Unanswered, IsUp, HasRoom, FlowInv,
     ShapeInv, Pairs
<1>12. CASE ServerRejects
    BY <1>12, <1>a, <1>c, <1>d DEF ServerRejects, Fail, StopUnanswered, Unanswered, IsUp,
     FlowInv, ShapeInv, Pairs
<1>13. CASE ServerRefuses
    BY <1>13, <1>a, <1>c, <1>d DEF ServerRefuses, Fail, StopUnanswered, Unanswered, IsUp,
     FlowInv, ShapeInv, Pairs
<1>14. ASSUME NEW i \in Ids, PhoneRemoves(i) PROVE FlowInv'
  BY <1>14, <1>a, <1>c, <1>d DEF PhoneRemoves, FlowInv, ShapeInv, Unanswered, Pairs
<1>15. ASSUME NEW i \in Ids, LateClears(i) PROVE FlowInv'
    BY <1>15, <1>a, <1>c, <1>d DEF LateClears, ClearRejected, Clear, Stored, FlowInv, ShapeInv,
     Unanswered, Pairs
<1>16. CASE StreamLoads
  BY <1>16, <1>a, <1>c, <1>d DEF StreamLoads, FlowInv, ShapeInv, Unanswered, Pairs
<1>17. CASE StreamInstalls
  BY <1>17, <1>a, <1>c, <1>d DEF StreamInstalls, FlowInv, ShapeInv, Unanswered, Pairs
<1>18. CASE StreamShows
  BY <1>18, <1>a, <1>c, <1>d DEF StreamShows, FlowInv, ShapeInv, Unanswered, Pairs
<1>19. CASE StreamClears
    BY <1>19, <1>a, <1>c, <1>d DEF StreamClears, ClearRejected, Clear, Stored, FlowInv,
     ShapeInv, Unanswered, Pairs
<1>20. CASE AppClears
  BY <1>20, <1>a, <1>c, <1>d DEF AppClears, Clear, Stored, FlowInv, ShapeInv, Unanswered, Pairs
<1>21. CASE Logout
  BY <1>21, <1>a, <1>c, <1>d DEF Logout, StopUnanswered, Unanswered, IsUp, FlowInv, ShapeInv, Pairs
<1>22. CASE Drop
  BY <1>22, <1>a, <1>c, <1>d DEF Drop, StopUnanswered, Unanswered, FlowInv, ShapeInv, Pairs
<1>23. CASE Crash
  BY <1>23, <1>a, <1>c, <1>d DEF Crash, FlowInv, ShapeInv, Unanswered, Pairs
<1>24. ASSUME NEW how \in {"qr", "code"}, RequestPairing(how) PROVE FlowInv'
  BY <1>24, <1>a, <1>c, <1>d DEF RequestPairing, IsUp, FlowInv, ShapeInv, Unanswered, Pairs
<1>25. CASE PairCodeConfirmed
  <2>1. fresh = NoDevice /\ fresh' = fresh /\ memory' = memory /\ dev' = dev /\ code' = FALSE
    BY <1>25, <1>a DEF PairCodeConfirmed, ShapeInv
  <2>2. lost \subseteq lost' /\ flow' \in {flow, "confirmed"} /\ (flow' # flow => flow = "code" /\ code)
    BY <1>25 DEF PairCodeConfirmed
  <2>3. CASE row' = row
    BY <1>a, <1>c, <2>1, <2>2, <2>3 DEF FlowInv, Pairs
  <2>4. CASE row' = memory /\ memory # row
    <3>1. memory.paired => memory.id \in lost /\ (Pairs => memory.id = dev.id)
      BY <1>25, <1>a, <2>4, PendingHead DEF PairCodeConfirmed, ConfirmInv, Copies, TypeOK
    <3>2. flow = "qr" => ~memory.paired
      BY <1>a DEF CopyInv, Copies
    <3> QED
      BY <1>c, <2>1, <2>2, <2>4, <3>1, <3>2 DEF FlowInv, Pairs
  <2> QED
    BY <1>25, <2>3, <2>4 DEF PairCodeConfirmed
<1>26. CASE PairSuccess
  BY <1>26, <1>a, <1>c, <1>d DEF PairSuccess, Offered, FlowInv, ShapeInv, Unanswered, Pairs
<1>27. CASE SavePaired
  BY <1>27, <1>a, <1>c, <1>d DEF SavePaired, FlowInv, ShapeInv, Unanswered, Pairs
<1>28. CASE StorePairedKey
  BY <1>28, <1>a, <1>c, <1>d DEF StorePairedKey, FlowInv, ShapeInv, Unanswered, Pairs
<1>29. CASE PairingEnds
  BY <1>29, <1>a, <1>c, <1>d DEF PairingEnds, Unanswered, FlowInv, ShapeInv, Pairs
<1>31. CASE PhoneConfirms
  BY <1>31, <1>a, <1>c, <1>d DEF PhoneConfirms, FlowInv, ShapeInv, Unanswered, Pairs
<1>32. CASE QueuedSignSent
  BY <1>32, <1>a, <1>c, <1>d DEF QueuedSignSent, FlowInv, ShapeInv, Unanswered, Pairs
<1>30. CASE UNCHANGED vars
  BY <1>30, <1>a, <1>c, <1>d DEF vars, FlowInv, ShapeInv, Unanswered, Pairs
<1> QED
    BY <1>1, <1>2, <1>3, <1>4, <1>5, <1>6, <1>7, <1>8, <1>9, <1>10, <1>11, <1>12, <1>13, <1>14,
     <1>15, <1>16, <1>17, <1>18, <1>19, <1>20, <1>21, <1>22, <1>23, <1>24, <1>25, <1>26, <1>27,
     <1>28, <1>29, <1>30, <1>31, <1>32 DEF Next

\* Nothing is added to the devices that are or will be cleared.
GoneKept == Rejections' \subseteq Rejections /\ Pending' \subseteq Pending /\ Gone' \subseteq Gone

\* Only a rejection by the server adds one.
GoneStep ==
    \/ GoneKept
    \/ /\ ServerRejects
       /\ Rejections' = Rejections \cup {conn.id} /\ Pending' = Pending \cup {conn.id}
       /\ Gone' = Gone \cup {conn.id}

\* Only the server adds a rejection; the streams only move it on.
LEMMA GoneNext == TypeOK /\ ShapeInv /\ [Next]_vars => GoneStep
<1> SUFFICES ASSUME TypeOK /\ ShapeInv, [Next]_vars PROVE GoneStep
  OBVIOUS
<1> USE DEF storeVars, clientVars, linkVars, streamVars, flowVars, ghostVars
<1>a. events \in Seq(Events)
  BY DEF TypeOK
<1>b. events' = events => Rejections' = Rejections
  BY RejectionsKept
<1>c. events' = << >> => Rejections' = {}
  BY RejectionsNone
<1>1. CASE Create
  BY <1>1, <1>b, <1>c DEF Create, GoneStep, GoneKept, Gone, Pending
<1>2. CASE Connect
  BY <1>2, <1>b, <1>c DEF Connect, GoneStep, GoneKept, Gone, Pending
<1>3. CASE LoadDevice
  BY <1>3, <1>b, <1>c DEF LoadDevice, GoneStep, GoneKept, Gone, Pending
<1>4. CASE InstallLoaded
  BY <1>4, <1>b, <1>c DEF InstallLoaded, GoneStep, GoneKept, Gone, Pending
<1>5. CASE CheckSigned
  BY <1>5, <1>b, <1>c DEF CheckSigned, GoneStep, GoneKept, Gone, Pending
<1>6. CASE StoreSigned
  BY <1>6, <1>b, <1>c DEF StoreSigned, GoneStep, GoneKept, Gone, Pending
<1>7. CASE BootFails
  BY <1>7, <1>b, <1>c DEF BootFails, GoneStep, GoneKept, Gone, Pending
<1>8. CASE LoadForConnect
  BY <1>8, <1>b, <1>c DEF LoadForConnect, GoneStep, GoneKept, Gone, Pending
<1>9. CASE HandshakeFails
  BY <1>9, <1>b, <1>c DEF HandshakeFails, GoneStep, GoneKept, Gone, Pending
<1>10. CASE HandshakeDone
  <2>1. conn.id \in Ids
    BY <1>10, DeviceFacts DEF HandshakeDone, TypeOK, ShapeInv
  <2>2. Rejections' = Rejections
    BY <1>10, <1>a, <1>b, <2>1, RejectionsPublished DEF HandshakeDone
  <2> QED
    BY <1>10, <2>2 DEF HandshakeDone, GoneStep, GoneKept, Gone, Pending
<1>11. CASE LinkLost
    BY <1>11, <1>b, <1>c DEF LinkLost, StopUnanswered, Unanswered, IsUp, HasRoom, GoneStep,
     GoneKept, Gone, Pending
<1>12. CASE ServerRejects
  <2>1. conn.id \in Ids
    BY <1>12, DeviceFacts DEF ServerRejects, Fail, TypeOK, ShapeInv
  <2>2. Rejections' = Rejections \cup {conn.id}
    BY <1>12, <1>a, <2>1, RejectionsPublished DEF ServerRejects, Fail
  <2> QED
    BY <1>12, <2>2 DEF ServerRejects, Fail, GoneStep, GoneKept, Gone, Pending
<1>13. CASE ServerRefuses
  <2>1. conn.id \in Ids
    BY <1>13, DeviceFacts DEF ServerRefuses, Fail, TypeOK, ShapeInv
  <2>2. Rejections' = Rejections
    BY <1>13, <1>a, <2>1, RejectionsPublished DEF ServerRefuses, Fail
  <2> QED
    BY <1>13, <2>2 DEF ServerRefuses, Fail, GoneStep, GoneKept, Gone, Pending
<1>14. ASSUME NEW i \in Ids, PhoneRemoves(i) PROVE GoneStep
  BY <1>14, <1>b, <1>c DEF PhoneRemoves, GoneStep, GoneKept, Gone, Pending
<1>15. ASSUME NEW i \in Ids, LateClears(i) PROVE GoneStep
    BY <1>15, <1>b, <1>c DEF LateClears, ClearRejected, Clear, Stored, GoneStep, GoneKept, Gone,
     Pending
<1>16. CASE StreamLoads
  <2>1. Rejections' = Rejections
    BY <1>16, <1>a, RejectionsRead DEF StreamLoads
  <2> QED
    BY <1>16, <2>1 DEF StreamLoads, GoneStep, GoneKept, Gone, Pending
<1>17. CASE StreamInstalls
  BY <1>17, <1>b, <1>c DEF StreamInstalls, GoneStep, GoneKept, Gone, Pending
<1>18. CASE StreamShows
  <2>1. Rejections' = Rejections
    BY <1>18, <1>a, RejectionsRead DEF StreamShows
  <2> QED
    BY <1>18, <2>1 DEF StreamShows, GoneStep, GoneKept, Gone, Pending
<1>19. CASE StreamClears
  <2>1. Rejections' \subseteq Rejections /\ Head(events).id \in Rejections
    BY <1>19, <1>a, RejectionsRead DEF StreamClears
  <2> QED
    BY <1>19, <2>1 DEF StreamClears, ClearRejected, GoneStep, GoneKept, Gone, Pending
<1>20. CASE AppClears
  BY <1>20, <1>b, <1>c DEF AppClears, Clear, Stored, GoneStep, GoneKept, Gone, Pending
<1>21. CASE Logout
    BY <1>21, <1>b, <1>c DEF Logout, StopUnanswered, Unanswered, IsUp, GoneStep, GoneKept, Gone,
     Pending
<1>22. CASE Drop
  BY <1>22, <1>b, <1>c DEF Drop, StopUnanswered, Unanswered, GoneStep, GoneKept, Gone, Pending
<1>23. CASE Crash
  BY <1>23, <1>b, <1>c DEF Crash, GoneStep, GoneKept, Gone, Pending
<1>24. ASSUME NEW how \in {"qr", "code"}, RequestPairing(how) PROVE GoneStep
  BY <1>24, <1>b, <1>c DEF RequestPairing, IsUp, GoneStep, GoneKept, Gone, Pending
<1>25. CASE PairCodeConfirmed
  <2>1. Rejections' = Rejections
    BY <1>25, <1>a, RejectionsRead DEF PairCodeConfirmed
  <2> QED
    BY <1>25, <2>1 DEF PairCodeConfirmed, GoneStep, GoneKept, Gone, Pending
<1>26. CASE PairSuccess
  BY <1>26, <1>b, <1>c DEF PairSuccess, Offered, GoneStep, GoneKept, Gone, Pending
<1>27. CASE SavePaired
  BY <1>27, <1>b, <1>c DEF SavePaired, GoneStep, GoneKept, Gone, Pending
<1>28. CASE StorePairedKey
  BY <1>28, <1>b, <1>c DEF StorePairedKey, GoneStep, GoneKept, Gone, Pending
<1>29. CASE PairingEnds
  BY <1>29, <1>b, <1>c DEF PairingEnds, Unanswered, GoneStep, GoneKept, Gone, Pending
<1>31. CASE PhoneConfirms
  <2>1. conn.id \in Ids
    BY <1>31, DeviceFacts DEF PhoneConfirms, Offered, IsUp, TypeOK, ShapeInv
  <2>2. Rejections' = Rejections
    BY <1>31, <1>a, <2>1, RejectionsPublished DEF PhoneConfirms
  <2> QED
    BY <1>31, <2>2 DEF PhoneConfirms, GoneStep, GoneKept, Gone, Pending
<1>32. CASE QueuedSignSent
  BY <1>32, <1>b, <1>c DEF QueuedSignSent, GoneStep, GoneKept, Gone, Pending
<1>30. CASE UNCHANGED vars
  BY <1>30, <1>b, <1>c DEF vars, GoneStep, GoneKept, Gone, Pending
<1> QED
    BY <1>1, <1>2, <1>3, <1>4, <1>5, <1>6, <1>7, <1>8, <1>9, <1>10, <1>11, <1>12, <1>13, <1>14,
     <1>15, <1>16, <1>17, <1>18, <1>19, <1>20, <1>21, <1>22, <1>23, <1>24, <1>25, <1>26, <1>27,
     <1>28, <1>29, <1>30, <1>31, <1>32 DEF Next

\* The case that nothing is added, and the rejection.
LEMMA CopyKept == DeviceInv /\ GoneKept /\ [Next]_vars => CopyInv'
<1> SUFFICES ASSUME DeviceInv /\ GoneKept, [Next]_vars PROVE CopyInv'
  OBVIOUS
<1> USE DEF storeVars, clientVars, linkVars, streamVars, flowVars, ghostVars
<1>a. TypeOK /\ ShapeInv /\ FlowInv /\ CopyInv /\ ConfirmInv
  BY DEF DeviceInv
<1>b. /\ row \in Devices /\ memory \in Devices /\ loaded \in Devices /\ conn \in Devices
      /\ fresh \in Devices /\ dev \in Devices
  BY <1>a DEF TypeOK
<1>c. NoDevice.paired = FALSE
  BY NoDeviceFacts
<1>d. ASSUME NEW i PROVE Device(i, TRUE).paired = TRUE /\ Device(i, FALSE).paired = FALSE
  BY DEF Device
<1>e. ASSUME NEW i PROVE Device(i, TRUE).id = i /\ Device(i, FALSE).id = i
  BY DEF Device
<1>1. CASE Create
  <2>1. NewId \notin Gone
    BY <1>1, <1>a, NewIdFacts, RejectionsNone DEF Create, ShapeInv, Known, Gone, Pending
  <2> QED
        BY <1>1, <1>a, <1>c, <1>d, <1>e, <2>1 DEF Create, GoneKept, CopyInv, ShapeInv, Copies,
       Unpaired, Unanswered, IsUp
<1>2. CASE Connect
  <2>1. NewId \notin Gone
    BY <1>2, <1>a, NewIdFacts, RejectionsNone DEF Connect, ShapeInv, Known, Gone, Pending
  <2>2. /\ row' = row /\ conn' = NoDevice /\ fresh' = NoDevice /\ loaded' = NoDevice
        /\ flow' # "qr" /\ Rejections' = {} /\ lost' = lost
        /\ ~memory'.paired /\ memory'.id = NewId
    BY <1>2, <1>a, <1>d, <1>e, RejectionsNone DEF Connect, ShapeInv, Unanswered, IsUp
  <2> QED
    BY <1>a, <1>c, <2>1, <2>2 DEF GoneKept, CopyInv, Copies, Unpaired
<1>3. CASE LoadDevice
    BY <1>3, <1>a, <1>c, <1>d, <1>e DEF LoadDevice, GoneKept, CopyInv, ShapeInv, FlowInv,
     Copies, Unpaired, Unanswered, IsUp
<1>4. CASE InstallLoaded
    BY <1>4, <1>a, <1>c, <1>d, <1>e DEF InstallLoaded, GoneKept, CopyInv, ShapeInv, FlowInv,
     Copies, Unpaired, Unanswered, IsUp
<1>5. CASE CheckSigned
    BY <1>5, <1>a, <1>c, <1>d, <1>e DEF CheckSigned, GoneKept, CopyInv, ShapeInv, FlowInv,
     Copies, Unpaired, Unanswered, IsUp
<1>6. CASE StoreSigned
    BY <1>6, <1>a, <1>c, <1>d, <1>e DEF StoreSigned, GoneKept, CopyInv, ShapeInv, FlowInv,
     Copies, Unpaired, Unanswered, IsUp
<1>7. CASE BootFails
    BY <1>7, <1>a, <1>c, <1>d, <1>e DEF BootFails, GoneKept, CopyInv, ShapeInv, FlowInv, Copies,
     Unpaired, Unanswered, IsUp
<1>8. CASE LoadForConnect
    BY <1>8, <1>a, <1>c, <1>d, <1>e DEF LoadForConnect, GoneKept, CopyInv, ShapeInv, FlowInv,
     Copies, Unpaired, Unanswered, IsUp
<1>9. CASE HandshakeFails
    BY <1>9, <1>a, <1>c, <1>d, <1>e DEF HandshakeFails, GoneKept, CopyInv, ShapeInv, FlowInv,
     Copies, Unpaired, Unanswered, IsUp
<1>10. CASE HandshakeDone
    BY <1>10, <1>a, <1>c, <1>d, <1>e DEF HandshakeDone, GoneKept, CopyInv, ShapeInv, FlowInv,
     Copies, Unpaired, Unanswered, IsUp
<1>11. CASE LinkLost
    BY <1>11, <1>a, <1>c, <1>d, <1>e DEF LinkLost, StopUnanswered, Unanswered, IsUp, HasRoom,
     GoneKept, CopyInv, ShapeInv, FlowInv, Copies, Unpaired
<1>12. CASE ServerRejects
    BY <1>12, <1>a, <1>c, <1>d, <1>e DEF ServerRejects, Fail, StopUnanswered, Unanswered, IsUp,
     GoneKept, CopyInv, ShapeInv, FlowInv, Copies, Unpaired
<1>13. CASE ServerRefuses
    BY <1>13, <1>a, <1>c, <1>d, <1>e DEF ServerRefuses, Fail, StopUnanswered, Unanswered, IsUp,
     GoneKept, CopyInv, ShapeInv, FlowInv, Copies, Unpaired
<1>14. ASSUME NEW i \in Ids, PhoneRemoves(i) PROVE CopyInv'
    BY <1>14, <1>a, <1>c, <1>d, <1>e DEF PhoneRemoves, GoneKept, CopyInv, ShapeInv, FlowInv,
     Copies, Unpaired, Unanswered, IsUp
<1>15. ASSUME NEW i \in Ids, LateClears(i) PROVE CopyInv'
    BY <1>15, <1>a, <1>c, <1>d, <1>e DEF LateClears, ClearRejected, Clear, Stored, GoneKept,
     CopyInv, ShapeInv, FlowInv, Copies, Unpaired, Unanswered, IsUp
<1>16. CASE StreamLoads
    BY <1>16, <1>a, <1>c, <1>d, <1>e DEF StreamLoads, GoneKept, CopyInv, ShapeInv, FlowInv,
     Copies, Unpaired, Unanswered, IsUp
<1>17. CASE StreamInstalls
    BY <1>17, <1>a, <1>c, <1>d, <1>e DEF StreamInstalls, GoneKept, CopyInv, ShapeInv, FlowInv,
     Copies, Unpaired, Unanswered, IsUp
<1>18. CASE StreamShows
    BY <1>18, <1>a, <1>c, <1>d, <1>e DEF StreamShows, GoneKept, CopyInv, ShapeInv, FlowInv,
     Copies, Unpaired, Unanswered, IsUp
<1>19. CASE StreamClears
    BY <1>19, <1>a, <1>c, <1>d, <1>e DEF StreamClears, ClearRejected, Clear, Stored, GoneKept,
     CopyInv, ShapeInv, FlowInv, Copies, Unpaired, Unanswered, IsUp
<1>20. CASE AppClears
    BY <1>20, <1>a, <1>c, <1>d, <1>e DEF AppClears, Clear, Stored, GoneKept, CopyInv, ShapeInv,
     FlowInv, Copies, Unpaired, Unanswered, IsUp
<1>21. CASE Logout
    BY <1>21, <1>a, <1>c, <1>d, <1>e DEF Logout, StopUnanswered, Unanswered, IsUp, GoneKept,
     CopyInv, ShapeInv, FlowInv, Copies, Unpaired
<1>22. CASE Drop
  <2>1. /\ Rejections' = {} /\ memory' = NoDevice /\ loaded' = NoDevice /\ fresh' = NoDevice
        /\ conn' = NoDevice /\ row' = row /\ flow' # "qr" /\ lost' = lost
    BY <1>22, <1>a, RejectionsNone DEF Drop, StopUnanswered, Unanswered, ShapeInv, IsUp
  <2> QED
    BY <1>a, <1>c, <2>1 DEF GoneKept, CopyInv, Copies, Unpaired
<1>23. CASE Crash
  <2>1. /\ Rejections' = {} /\ memory' = NoDevice /\ loaded' = NoDevice /\ fresh' = NoDevice
        /\ conn' = NoDevice /\ row' \in {row, NoDevice} /\ flow' # "qr" /\ lost \subseteq lost'
    BY <1>23, RejectionsNone DEF Crash
  <2> QED
    BY <1>a, <1>c, <2>1 DEF GoneKept, CopyInv, Copies, Unpaired
<1>24. ASSUME NEW how \in {"qr", "code"}, RequestPairing(how) PROVE CopyInv'
    BY <1>24, <1>a, <1>c, <1>d, <1>e DEF RequestPairing, IsUp, GoneKept, CopyInv, ShapeInv,
     FlowInv, Copies, Unpaired, Unanswered
<1>25. CASE PairCodeConfirmed
  <2>1. /\ lost \subseteq lost' /\ (flow' = "qr" => flow = "qr") /\ dev' = dev /\ conn' = conn
        /\ runner' = runner /\ Copies' = Copies /\ Rejections' \subseteq Rejections
        /\ Gone' \subseteq Gone
    BY <1>25 DEF PairCodeConfirmed, Copies, GoneKept
  <2>2. CASE row' = row
    BY <1>a, <2>1, <2>2 DEF CopyInv, Unpaired
  <2>3. CASE row' # row
    <3>1. row' = memory /\ Copies = {memory, NoDevice}
      BY <1>25, <2>3, BroughtBack DEF Copies
    <3>2. Unpaired(memory) => memory.id \notin Gone \ lost' /\ ~(conn.paired /\ memory.id = conn.id /\ memory.id \notin lost')
      BY <1>25, <2>3, BroughtBack DEF Unpaired
    <3>3. Unpaired(memory) => \A x \in Copies : ~x.paired
      BY <1>c, <3>1 DEF Unpaired
    <3>4. Unpaired(row)' <=> Unpaired(memory)
      BY <3>1 DEF Unpaired
    <3>5. runner # "stopped" => \A x \in Copies : Unpaired(x) => x.id \notin Gone \ lost
      BY <1>a DEF CopyInv
    <3>6. Rejections # {} => runner = "stopped"
      BY <1>a DEF CopyInv
    <3>7. flow = "qr" => dev.id \notin Gone \ lost /\ \A x \in Copies : ~x.paired
      BY <1>a DEF CopyInv
    <3> QED
      BY <2>1, <3>1, <3>2, <3>3, <3>4, <3>5, <3>6, <3>7 DEF CopyInv, Unpaired
  <2> QED
    BY <2>2, <2>3
<1>26. CASE PairSuccess
    BY <1>26, <1>a, <1>c, <1>d, <1>e DEF PairSuccess, Offered, GoneKept, CopyInv, ShapeInv,
     FlowInv, Copies, Unpaired, Unanswered, IsUp
<1>27. CASE SavePaired
  <2>1. ~Unpaired(dev) /\ row' \in {row, dev} /\ flow' # "qr"
    BY <1>27, <1>a DEF SavePaired, ShapeInv, Pairs, Unpaired
  <2> QED
    BY <1>27, <1>a, <1>c, <2>1 DEF SavePaired, GoneKept, CopyInv, Copies, Unpaired
<1>28. CASE StorePairedKey
    BY <1>28, <1>a, <1>c, <1>d, <1>e DEF StorePairedKey, GoneKept, CopyInv, ShapeInv, FlowInv,
     Copies, Unpaired, Unanswered, IsUp
<1>29. CASE PairingEnds
    BY <1>29, <1>a, <1>c, <1>d, <1>e DEF PairingEnds, Unanswered, GoneKept, CopyInv, ShapeInv,
     FlowInv, Copies, Unpaired, IsUp
<1>31. CASE PhoneConfirms
    BY <1>31, <1>a, <1>c DEF PhoneConfirms, GoneKept, CopyInv, Copies, Unpaired
<1>32. CASE QueuedSignSent
    BY <1>32, <1>a, <1>c DEF QueuedSignSent, IsUp, GoneKept, CopyInv, Copies, Unpaired
<1>30. CASE UNCHANGED vars
    BY <1>30, <1>a, <1>c, <1>d, <1>e DEF vars, GoneKept, CopyInv, ShapeInv, FlowInv, Copies,
     Unpaired, Unanswered, IsUp
<1> QED
    BY <1>1, <1>2, <1>3, <1>4, <1>5, <1>6, <1>7, <1>8, <1>9, <1>10, <1>11, <1>12, <1>13, <1>14,
     <1>15, <1>16, <1>17, <1>18, <1>19, <1>20, <1>21, <1>22, <1>23, <1>24, <1>25, <1>26, <1>27,
     <1>28, <1>29, <1>30, <1>31, <1>32 DEF Next

LEMMA CopyRejected ==
    DeviceInv /\ ServerRejects /\ Rejections' = Rejections \cup {conn.id} /\ Gone' = Gone \cup {conn.id}
        => CopyInv'
<1> SUFFICES ASSUME DeviceInv, ServerRejects, Gone' = Gone \cup {conn.id} PROVE CopyInv'
  OBVIOUS
<1> USE DEF storeVars, clientVars, flowVars, ghostVars
<1>1. conn.paired /\ CopyInv /\ flow \in {"none", "qr", "code", "confirmed", "saving", "signing"}
  BY DEF ServerRejects, DeviceInv, TypeOK
<1>2. /\ row' = row /\ runner' = "stopped" /\ conn' = NoDevice /\ flow' # "qr"
      /\ lost' = lost /\ Copies' = Copies
  BY <1>1 DEF ServerRejects, Fail, StopUnanswered, Unanswered, Copies
<1>3. Unpaired(row) => row.id \notin Gone' \ lost /\ \A x \in Copies : ~x.paired
  BY <1>1 DEF CopyInv
<1> QED
  BY <1>2, <1>3, NoDeviceFacts DEF CopyInv, Unpaired

\* No step makes an unpaired copy that can be used of a rejected device.
LEMMA CopyNext == DeviceInv /\ [Next]_vars => CopyInv'
  BY GoneNext, CopyKept, CopyRejected DEF DeviceInv, GoneStep

-----------------------------------------------------------------------------
(* What was given up, and whose key is stored.                             *)

\* The case that nothing is added, and the rejection.
LEMMA LostKept == DeviceInv /\ GoneKept /\ [Next]_vars => LostInv'
<1> SUFFICES ASSUME DeviceInv /\ GoneKept, [Next]_vars PROVE LostInv'
  OBVIOUS
<1> USE DEF storeVars, clientVars, linkVars, streamVars, flowVars, ghostVars
<1>a. TypeOK /\ ShapeInv /\ FlowInv /\ CopyInv /\ LostInv
  BY DEF DeviceInv
<1>b. /\ row \in Devices /\ memory \in Devices /\ loaded \in Devices /\ conn \in Devices
      /\ fresh \in Devices /\ dev \in Devices
  BY <1>a DEF TypeOK
<1>c. NoDevice.paired = FALSE
  BY NoDeviceFacts
<1>d. ASSUME NEW i PROVE Device(i, TRUE).paired = TRUE /\ Device(i, FALSE).paired = FALSE
  BY DEF Device
<1>e. ASSUME NEW i PROVE Device(i, TRUE).id = i /\ Device(i, FALSE).id = i
  BY DEF Device
<1>1. CASE Create
    BY <1>1, <1>a, <1>c, <1>d, <1>e DEF Create, GoneKept, LostInv, ShapeInv, Copies, Unpaired,
     Unanswered, IsUp, Linked, Pairs
<1>2. CASE Connect
    BY <1>2, <1>a, <1>c, <1>d, <1>e DEF Connect, GoneKept, LostInv, ShapeInv, Copies, Unpaired,
     Unanswered, IsUp, Linked, Pairs
<1>3. CASE LoadDevice
    BY <1>3, <1>a, <1>c, <1>d, <1>e DEF LoadDevice, GoneKept, LostInv, ShapeInv, Copies,
     Unpaired, Unanswered, IsUp, Linked, Pairs
<1>4. CASE InstallLoaded
    BY <1>4, <1>a, <1>c, <1>d, <1>e DEF InstallLoaded, GoneKept, LostInv, ShapeInv, Copies,
     Unpaired, Unanswered, IsUp, Linked, Pairs
<1>5. CASE CheckSigned
    BY <1>5, <1>a, <1>c, <1>d, <1>e DEF CheckSigned, GoneKept, LostInv, ShapeInv, Copies,
     Unpaired, Unanswered, IsUp, Linked, Pairs
<1>6. CASE StoreSigned
    BY <1>6, <1>a, <1>c, <1>d, <1>e DEF StoreSigned, GoneKept, LostInv, ShapeInv, Copies,
     Unpaired, Unanswered, IsUp, Linked, Pairs
<1>7. CASE BootFails
    BY <1>7, <1>a, <1>c, <1>d, <1>e DEF BootFails, GoneKept, LostInv, ShapeInv, Copies,
     Unpaired, Unanswered, IsUp, Linked, Pairs
<1>8. CASE LoadForConnect
  <2>1. flow = "saving" /\ conn' = dev => dev.id \in lost
    BY <1>8, <1>a DEF LoadForConnect, FlowInv, ShapeInv, Pairs
  <2>2. Unpaired(conn') => ~row.paired /\ \A x \in Copies : ~x.paired
    BY <1>8, <1>a DEF LoadForConnect, CopyInv, Unpaired
  <2> QED
    BY <1>8, <1>a, <2>1, <2>2 DEF LoadForConnect, GoneKept, LostInv, Copies, Unpaired, Linked
<1>9. CASE HandshakeFails
    BY <1>9, <1>a, <1>c, <1>d, <1>e DEF HandshakeFails, GoneKept, LostInv, ShapeInv, Copies,
     Unpaired, Unanswered, IsUp, Linked, Pairs
<1>10. CASE HandshakeDone
    BY <1>10, <1>a, <1>c, <1>d, <1>e DEF HandshakeDone, GoneKept, LostInv, ShapeInv, Copies,
     Unpaired, Unanswered, IsUp, Linked, Pairs
<1>11. CASE LinkLost
    BY <1>11, <1>a, <1>c, <1>d, <1>e DEF LinkLost, StopUnanswered, Unanswered, IsUp, HasRoom,
     GoneKept, LostInv, ShapeInv, Copies, Unpaired, Linked, Pairs
<1>12. CASE ServerRejects
    BY <1>12, <1>a, <1>c, <1>d, <1>e DEF ServerRejects, Fail, StopUnanswered, Unanswered, IsUp,
     GoneKept, LostInv, ShapeInv, Copies, Unpaired, Linked, Pairs
<1>13. CASE ServerRefuses
    BY <1>13, <1>a, <1>c, <1>d, <1>e DEF ServerRefuses, Fail, StopUnanswered, Unanswered, IsUp,
     GoneKept, LostInv, ShapeInv, Copies, Unpaired, Linked, Pairs
<1>14. ASSUME NEW i \in Ids, PhoneRemoves(i) PROVE LostInv'
    BY <1>14, <1>a, <1>c, <1>d, <1>e DEF PhoneRemoves, GoneKept, LostInv, ShapeInv, Copies,
     Unpaired, Unanswered, IsUp, Linked, Pairs
<1>15. ASSUME NEW i \in Ids, LateClears(i) PROVE LostInv'
  <2>1. i \in Pending
    BY <1>15 DEF LateClears, Pending
  <2> QED
        BY <1>15, <1>a, <1>c, <2>1 DEF LateClears, ClearRejected, Clear, Stored, GoneKept,
       LostInv, Copies, Unpaired, Linked
<1>16. CASE StreamLoads
    BY <1>16, <1>a, <1>c, <1>d, <1>e DEF StreamLoads, GoneKept, LostInv, ShapeInv, Copies,
     Unpaired, Unanswered, IsUp, Linked, Pairs
<1>17. CASE StreamInstalls
    BY <1>17, <1>a, <1>c, <1>d, <1>e DEF StreamInstalls, GoneKept, LostInv, ShapeInv, Copies,
     Unpaired, Unanswered, IsUp, Linked, Pairs
<1>18. CASE StreamShows
    BY <1>18, <1>a, <1>c, <1>d, <1>e DEF StreamShows, GoneKept, LostInv, ShapeInv, Copies,
     Unpaired, Unanswered, IsUp, Linked, Pairs
<1>19. CASE StreamClears
  <2>1. Head(events).id \in Pending
    BY <1>19, <1>a, RejectionsRead DEF StreamClears, TypeOK, Pending
  <2> QED
        BY <1>19, <1>a, <1>c, <2>1 DEF StreamClears, ClearRejected, Clear, Stored, GoneKept,
       LostInv, Copies, Unpaired, Linked
<1>20. CASE AppClears
    BY <1>20, <1>a, <1>c, <1>d, <1>e DEF AppClears, Clear, Stored, GoneKept, LostInv, ShapeInv,
     Copies, Unpaired, Unanswered, IsUp, Linked, Pairs
<1>21. CASE Logout
  <2>1. ASSUME NEW i, Linked(i)' PROVE Linked(i)
    BY <1>21, <2>1, <1>a DEF Logout, Linked, TypeOK
  <2>2. /\ conn' = NoDevice /\ lost' = lost
        /\ flow' = "saving" => flow = "saving" /\ dev' = dev /\ dev.paired
    BY <1>21, <1>a DEF Logout, StopUnanswered, ShapeInv, Pairs
  <2> QED
    BY <1>a, <1>c, <2>1, <2>2 DEF GoneKept, LostInv, Unpaired
<1>22. CASE Drop
    BY <1>22, <1>a, <1>c, <1>d, <1>e DEF Drop, StopUnanswered, Unanswered, GoneKept, LostInv,
     ShapeInv, Copies, Unpaired, IsUp, Linked, Pairs
<1>23. CASE Crash
    BY <1>23, <1>a, <1>c, <1>d, <1>e DEF Crash, GoneKept, LostInv, ShapeInv, Copies, Unpaired,
     Unanswered, IsUp, Linked, Pairs
<1>24. ASSUME NEW how \in {"qr", "code"}, RequestPairing(how) PROVE LostInv'
    BY <1>24, <1>a, <1>c, <1>d, <1>e DEF RequestPairing, IsUp, GoneKept, LostInv, ShapeInv,
     Copies, Unpaired, Unanswered, Linked, Pairs
<1>25. CASE PairCodeConfirmed
  <2>1. /\ lost \subseteq lost' /\ (flow' = "saving" => flow = "saving") /\ dev' = dev /\ conn' = conn
        /\ server' = server /\ Copies' = Copies /\ Pending' \subseteq Pending /\ Gone' \subseteq Gone
    BY <1>25 DEF PairCodeConfirmed, Copies, GoneKept
  <2>2. row' # row => row' = memory /\ (memory.paired => memory.id \in lost) /\ (row.paired => row.id \in lost')
    BY <1>25, BroughtBack DEF Stored
  <2>3. Unpaired(conn) => \A x \in Copies : x.paired => x = row' \/ x.id \in lost'
    BY <1>a, <2>1, <2>2 DEF LostInv
  <2>4. Unpaired(conn) /\ row'.paired /\ row'.id \in Pending => row'.id \in lost'
    BY <1>a, <2>1, <2>2 DEF LostInv
  <2> QED
    BY <1>a, <2>1, <2>3, <2>4 DEF LostInv, Unpaired, Linked
<1>26. CASE PairSuccess
  <2> DEFINE used == IF flow = "qr" THEN dev ELSE memory
  <2>1. Unpaired(conn) /\ ~conn.paired /\ conn # NoDevice
    BY <1>26, <1>a DEF PairSuccess, Offered, ShapeInv, IsUp, Unpaired
  <2>2. CASE flow' = "none"
    BY <1>26, <1>a, <2>2 DEF PairSuccess, GoneKept, LostInv, Copies, Linked
  <2>3. CASE flow' = "saving"
    <3>1. used.id \in Gone => used.id \in lost
      <4>1. CASE flow = "qr"
        BY <1>26, <1>a, <4>1 DEF PairSuccess, CopyInv
      <4>2. CASE flow # "qr" /\ memory.paired
        BY <1>26, <1>a, <2>1, <4>2 DEF PairSuccess, LostInv, FlowInv, Copies
      <4>3. CASE flow # "qr" /\ ~memory.paired
        BY <1>26, <1>a, <4>3 DEF PairSuccess, Offered, CopyInv, ShapeInv, Copies, Unpaired
      <4> QED
        BY <4>1, <4>2, <4>3
    <3>2. dev' = Device(used.id, TRUE) /\ conn' = conn /\ lost' = lost
      BY <1>26, <2>3 DEF PairSuccess
    <3>6. dev'.id = used.id /\ dev'.paired /\ dev' # conn
      BY <1>d, <1>e, <2>1, <3>2
    <3>3. ASSUME NEW i, Linked(i)' PROVE Linked(i) \/ i = used.id
      BY <1>26, <1>a, <2>3, <3>3 DEF PairSuccess, Linked, TypeOK
    <3>4. \A i \in Pending' : Linked(i)' => i \in lost
      BY <1>a, <3>1, <3>3 DEF GoneKept, LostInv, Gone
    <3>5. row' = row /\ Copies' = Copies
      BY <1>26 DEF PairSuccess, Copies
    <3> QED
      BY <1>a, <3>1, <3>2, <3>4, <3>5, <3>6 DEF GoneKept, LostInv
  <2> QED
    BY <1>26, <2>2, <2>3 DEF PairSuccess
<1>27. CASE SavePaired
  <2>1. /\ flow' # "saving" /\ conn' = conn /\ Copies' = Copies /\ lost \subseteq lost'
        /\ server' = server /\ row' \in {row, dev}
    BY <1>27 DEF SavePaired, Copies
  <2>2. \A x \in Copies : Unpaired(conn) /\ x.paired => x.id \in lost
    BY <1>27, <1>a DEF SavePaired, LostInv, FlowInv
  <2>3. row'.paired /\ row'.id \in Pending => row'.id \in lost
    BY <1>27, <1>a, <2>1 DEF SavePaired, LostInv, FlowInv, Gone
  <2> QED
    BY <1>a, <2>1, <2>2, <2>3 DEF GoneKept, LostInv, Unpaired, Linked
<1>28. CASE StorePairedKey
    BY <1>28, <1>a, <1>c, <1>d, <1>e DEF StorePairedKey, GoneKept, LostInv, ShapeInv, Copies,
     Unpaired, Unanswered, IsUp, Linked, Pairs
<1>29. CASE PairingEnds
    BY <1>29, <1>a, <1>c, <1>d, <1>e DEF PairingEnds, Unanswered, GoneKept, LostInv, ShapeInv,
     Copies, Unpaired, IsUp, Linked, Pairs
<1>31. CASE PhoneConfirms
    BY <1>31, <1>a DEF PhoneConfirms, GoneKept, LostInv, Copies, Unpaired, Linked
<1>32. CASE QueuedSignSent
  <2>1. /\ lost \subseteq lost' /\ UNCHANGED <<row, conn, flow, dev>> /\ Copies' = Copies
        /\ Pending' \subseteq Pending /\ Gone' \subseteq Gone
    BY <1>32 DEF QueuedSignSent, Copies, GoneKept
  <2>2. ASSUME NEW i, Linked(i)' PROVE Linked(i) \/ i \in lost'
    BY <1>32, <1>a, <2>2 DEF QueuedSignSent, Linked, TypeOK
  <2> QED
    BY <1>a, <2>1, <2>2 DEF LostInv, Unpaired
<1>30. CASE UNCHANGED vars
    BY <1>30, <1>a, <1>c, <1>d, <1>e DEF vars, GoneKept, LostInv, ShapeInv, Copies, Unpaired,
     Unanswered, IsUp, Linked, Pairs
<1> QED
    BY <1>1, <1>2, <1>3, <1>4, <1>5, <1>6, <1>7, <1>8, <1>9, <1>10, <1>11, <1>12, <1>13, <1>14,
     <1>15, <1>16, <1>17, <1>18, <1>19, <1>20, <1>21, <1>22, <1>23, <1>24, <1>25, <1>26, <1>27,
     <1>28, <1>29, <1>30, <1>31, <1>32 DEF Next

LEMMA LostRejected ==
    DeviceInv /\ ServerRejects /\ Pending' = Pending \cup {conn.id} /\ Gone' = Gone \cup {conn.id} => LostInv'
<1> SUFFICES ASSUME DeviceInv, ServerRejects, Pending' = Pending \cup {conn.id}, Gone' = Gone \cup {conn.id}
             PROVE  LostInv'
  OBVIOUS
<1> USE DEF storeVars, clientVars, flowVars, ghostVars
<1>1. /\ conn.paired /\ ~Linked(conn.id) /\ server' = server /\ lost' = lost /\ conn' = NoDevice
      /\ flow' = "saving" => flow = "saving" /\ dev' = dev /\ dev.paired
  BY DEF ServerRejects, Fail, StopUnanswered, DeviceInv, ShapeInv, Pairs
<1>2. conn.paired /\ dev.paired /\ dev.id = conn.id => conn = dev
  BY SameDevice DEF DeviceInv, TypeOK
<1>3. flow' = "saving" /\ (dev'.id \in Gone' \/ conn' = dev') => dev'.id \in lost
  BY <1>1, <1>2, NoDeviceFacts DEF DeviceInv, LostInv
<1>4. \A i \in Pending' : Linked(i)' => i \in lost
  BY <1>1 DEF DeviceInv, LostInv, Linked
<1>5. ~Unpaired(conn')
  BY <1>1 DEF Unpaired
<1> QED
  BY <1>1, <1>3, <1>4, <1>5 DEF LostInv, Unpaired

\* Every step keeps that what can be brought back was given up.
LEMMA LostNext == DeviceInv /\ [Next]_vars => LostInv'
  BY GoneNext, LostKept, LostRejected DEF DeviceInv, GoneStep

\* Every step keeps the stored key with the copies that may be brought back.
LEMMA KeyNext == DeviceInv /\ SignedKeyServes /\ [Next]_vars => KeyInv'
<1> SUFFICES ASSUME DeviceInv /\ SignedKeyServes, [Next]_vars PROVE KeyInv'
  OBVIOUS
<1> USE DEF storeVars, clientVars, linkVars, streamVars, flowVars, ghostVars
<1>a. TypeOK /\ ShapeInv /\ FlowInv /\ CopyInv /\ KeyInv
  BY DEF DeviceInv
<1>b. /\ row \in Devices /\ memory \in Devices /\ loaded \in Devices /\ conn \in Devices
      /\ fresh \in Devices /\ dev \in Devices
  BY <1>a DEF TypeOK
<1>c. NoDevice.paired = FALSE /\ \A x \in Devices : x # NoDevice => x.id # 0
  BY NoDeviceFacts, DeviceFacts, NoIdZero
<1>d. ASSUME NEW i PROVE Device(i, TRUE).paired = TRUE /\ Device(i, FALSE).paired = FALSE
  BY DEF Device
<1>e. ASSUME NEW i PROVE Device(i, TRUE).id = i /\ Device(i, FALSE).id = i
  BY DEF Device
<1>1. CASE Create
    BY <1>1, <1>a, <1>b, <1>c, <1>d, <1>e DEF Create, KeyInv, SignedKeyServes, Served, ShapeInv,
     FlowInv, CopyInv, Copies, Unpaired, Unanswered, IsUp, Pairs
<1>2. CASE Connect
    BY <1>2, <1>a, <1>b, <1>c, <1>d, <1>e DEF Connect, KeyInv, SignedKeyServes, Served,
     ShapeInv, FlowInv, CopyInv, Copies, Unpaired, Unanswered, IsUp, Pairs
<1>3. CASE LoadDevice
    BY <1>3, <1>a, <1>b, <1>c, <1>d, <1>e DEF LoadDevice, KeyInv, SignedKeyServes, Served,
     ShapeInv, FlowInv, CopyInv, Copies, Unpaired, Unanswered, IsUp, Pairs
<1>4. CASE InstallLoaded
    BY <1>4, <1>a, <1>b, <1>c, <1>d, <1>e DEF InstallLoaded, KeyInv, SignedKeyServes, Served,
     ShapeInv, FlowInv, CopyInv, Copies, Unpaired, Unanswered, IsUp, Pairs
<1>5. CASE CheckSigned
    BY <1>5, <1>a, <1>b, <1>c, <1>d, <1>e DEF CheckSigned, KeyInv, SignedKeyServes, Served,
     ShapeInv, FlowInv, CopyInv, Copies, Unpaired, Unanswered, IsUp, Pairs
<1>6. CASE StoreSigned
    BY <1>6, <1>a, <1>b, <1>c, <1>d, <1>e DEF StoreSigned, KeyInv, SignedKeyServes, Served,
     ShapeInv, FlowInv, CopyInv, Copies, Unpaired, Unanswered, IsUp, Pairs
<1>7. CASE BootFails
    BY <1>7, <1>a, <1>b, <1>c, <1>d, <1>e DEF BootFails, KeyInv, SignedKeyServes, Served,
     ShapeInv, FlowInv, CopyInv, Copies, Unpaired, Unanswered, IsUp, Pairs
<1>8. CASE LoadForConnect
    BY <1>8, <1>a, <1>b, <1>c, <1>d, <1>e DEF LoadForConnect, KeyInv, SignedKeyServes, Served,
     ShapeInv, FlowInv, CopyInv, Copies, Unpaired, Unanswered, IsUp, Pairs
<1>9. CASE HandshakeFails
    BY <1>9, <1>a, <1>b, <1>c, <1>d, <1>e DEF HandshakeFails, KeyInv, SignedKeyServes, Served,
     ShapeInv, FlowInv, CopyInv, Copies, Unpaired, Unanswered, IsUp, Pairs
<1>10. CASE HandshakeDone
    BY <1>10, <1>a, <1>b, <1>c, <1>d, <1>e DEF HandshakeDone, KeyInv, SignedKeyServes, Served,
     ShapeInv, FlowInv, CopyInv, Copies, Unpaired, Unanswered, IsUp, Pairs
<1>11. CASE LinkLost
    BY <1>11, <1>a, <1>b, <1>c, <1>d, <1>e DEF LinkLost, StopUnanswered, Unanswered, IsUp,
     HasRoom, KeyInv, SignedKeyServes, Served, ShapeInv, FlowInv, CopyInv, Copies, Unpaired,
     Pairs
<1>12. CASE ServerRejects
    BY <1>12, <1>a, <1>b, <1>c, <1>d, <1>e DEF ServerRejects, Fail, StopUnanswered, Unanswered,
     IsUp, KeyInv, SignedKeyServes, Served, ShapeInv, FlowInv, CopyInv, Copies, Unpaired, Pairs
<1>13. CASE ServerRefuses
    BY <1>13, <1>a, <1>b, <1>c, <1>d, <1>e DEF ServerRefuses, Fail, StopUnanswered, Unanswered,
     IsUp, KeyInv, SignedKeyServes, Served, ShapeInv, FlowInv, CopyInv, Copies, Unpaired, Pairs
<1>14. ASSUME NEW i \in Ids, PhoneRemoves(i) PROVE KeyInv'
    BY <1>14, <1>a, <1>b, <1>c, <1>d, <1>e DEF PhoneRemoves, KeyInv, SignedKeyServes, Served,
     ShapeInv, FlowInv, CopyInv, Copies, Unpaired, Unanswered, IsUp, Pairs
<1>15. ASSUME NEW i \in Ids, LateClears(i) PROVE KeyInv'
    BY <1>15, <1>a, <1>b, <1>c, <1>d, <1>e DEF LateClears, ClearRejected, Clear, Stored, KeyInv,
     SignedKeyServes, Served, ShapeInv, FlowInv, CopyInv, Copies, Unpaired, Unanswered, IsUp,
     Pairs
<1>16. CASE StreamLoads
    BY <1>16, <1>a, <1>b, <1>c, <1>d, <1>e DEF StreamLoads, KeyInv, SignedKeyServes, Served,
     ShapeInv, FlowInv, CopyInv, Copies, Unpaired, Unanswered, IsUp, Pairs
<1>17. CASE StreamInstalls
    BY <1>17, <1>a, <1>b, <1>c, <1>d, <1>e DEF StreamInstalls, KeyInv, SignedKeyServes, Served,
     ShapeInv, FlowInv, CopyInv, Copies, Unpaired, Unanswered, IsUp, Pairs
<1>18. CASE StreamShows
    BY <1>18, <1>a, <1>b, <1>c, <1>d, <1>e DEF StreamShows, KeyInv, SignedKeyServes, Served,
     ShapeInv, FlowInv, CopyInv, Copies, Unpaired, Unanswered, IsUp, Pairs
<1>19. CASE StreamClears
    BY <1>19, <1>a, <1>b, <1>c, <1>d, <1>e DEF StreamClears, ClearRejected, Clear, Stored,
     KeyInv, SignedKeyServes, Served, ShapeInv, FlowInv, CopyInv, Copies, Unpaired, Unanswered,
     IsUp, Pairs
<1>20. CASE AppClears
    BY <1>20, <1>a, <1>b, <1>c, <1>d, <1>e DEF AppClears, Clear, Stored, KeyInv,
     SignedKeyServes, Served, ShapeInv, FlowInv, CopyInv, Copies, Unpaired, Unanswered, IsUp,
     Pairs
<1>21. CASE Logout
    BY <1>21, <1>a, <1>b, <1>c, <1>d, <1>e DEF Logout, StopUnanswered, Unanswered, IsUp, KeyInv,
     SignedKeyServes, Served, ShapeInv, FlowInv, CopyInv, Copies, Unpaired, Pairs
<1>22. CASE Drop
    BY <1>22, <1>a, <1>b, <1>c, <1>d, <1>e DEF Drop, StopUnanswered, Unanswered, KeyInv,
     SignedKeyServes, Served, ShapeInv, FlowInv, CopyInv, Copies, Unpaired, IsUp, Pairs
<1>23. CASE Crash
    BY <1>23, <1>a, <1>b, <1>c, <1>d, <1>e DEF Crash, KeyInv, SignedKeyServes, Served, ShapeInv,
     FlowInv, CopyInv, Copies, Unpaired, Unanswered, IsUp, Pairs
<1>24. ASSUME NEW how \in {"qr", "code"}, RequestPairing(how) PROVE KeyInv'
    BY <1>24, <1>a, <1>b, <1>c, <1>d, <1>e DEF RequestPairing, IsUp, KeyInv, SignedKeyServes,
     Served, ShapeInv, FlowInv, CopyInv, Copies, Unpaired, Unanswered, Pairs
<1>25. CASE PairCodeConfirmed
  <2>1. /\ UNCHANGED <<signed, interrupted, dev, boot, conn>> /\ Copies' = Copies
        /\ flow' = flow \/ (flow = "code" /\ flow' = "confirmed")
    BY <1>25 DEF PairCodeConfirmed, Copies
  <2>2. row.paired => Served(row.id)
    BY DEF SignedKeyServes, Served
  <2>3. ASSUME NEW i PROVE Served(i)' <=> Served(i)
    BY <2>1 DEF Served
  <2> QED
    BY <1>a, <2>1, <2>2, <2>3 DEF KeyInv, Unpaired, Pairs
<1>26. CASE PairSuccess
  <2> DEFINE used == IF flow = "qr" THEN dev ELSE memory
  <2>1. /\ boot = "ready" /\ loaded = NoDevice /\ flow \in {"qr", "confirmed"}
        /\ UNCHANGED <<row, signed, interrupted, boot, memory, loaded, fresh, conn>>
    BY <1>26, <1>a DEF PairSuccess, Offered, ShapeInv
  <2>2. (boot' = "ready" \/ flow' # "none" => signed' # 0) /\ (boot' = "storing" => signed' = 0)
    BY <1>a, <2>1 DEF KeyInv
  <2>3. Unpaired(conn)' => \A x \in Copies' : x.paired => x = row' \/ Served(x.id)'
    BY <1>a, <2>1 DEF KeyInv, Served, Copies, Unpaired
  <2>4. ASSUME flow' = "saving" PROVE dev'.id = used.id
    BY <1>26, <1>e, <2>4 DEF PairSuccess
  <2>5. flow = "qr" => \A x \in Copies' : ~x.paired
    BY <1>26, <1>a, <2>1 DEF PairSuccess, CopyInv, Copies
  <2>6. flow = "confirmed" => \A x \in Copies' : x.paired => x.id = used.id
    BY <1>26, <1>a, <1>c, <2>1 DEF PairSuccess, FlowInv, Copies
  <2>7. Pairs' => flow' = "saving"
    BY <1>26 DEF PairSuccess, Pairs
  <2> QED
    BY <2>1, <2>2, <2>3, <2>4, <2>5, <2>6, <2>7 DEF KeyInv
<1>27. CASE SavePaired
    BY <1>27, <1>a, <1>b, <1>c, <1>d, <1>e DEF SavePaired, KeyInv, SignedKeyServes, Served,
     ShapeInv, FlowInv, CopyInv, Copies, Unpaired, Unanswered, IsUp, Pairs
<1>28. CASE StorePairedKey
    BY <1>28, <1>a, <1>b, <1>c, <1>d, <1>e DEF StorePairedKey, KeyInv, SignedKeyServes, Served,
     ShapeInv, FlowInv, CopyInv, Copies, Unpaired, Unanswered, IsUp, Pairs
<1>29. CASE PairingEnds
    BY <1>29, <1>a, <1>b, <1>c, <1>d, <1>e DEF PairingEnds, Unanswered, KeyInv, SignedKeyServes,
     Served, ShapeInv, FlowInv, CopyInv, Copies, Unpaired, IsUp, Pairs
<1>31. CASE PhoneConfirms
    BY <1>31, <1>a DEF PhoneConfirms, KeyInv, Served, Copies, Unpaired, Pairs
<1>32. CASE QueuedSignSent
    BY <1>32, <1>a DEF QueuedSignSent, KeyInv, Served, Copies, Unpaired, Pairs
<1>30. CASE UNCHANGED vars
    BY <1>30, <1>a, <1>b, <1>c, <1>d, <1>e DEF vars, KeyInv, SignedKeyServes, Served, ShapeInv,
     FlowInv, CopyInv, Copies, Unpaired, Unanswered, IsUp, Pairs
<1> QED
    BY <1>1, <1>2, <1>3, <1>4, <1>5, <1>6, <1>7, <1>8, <1>9, <1>10, <1>11, <1>12, <1>13, <1>14,
     <1>15, <1>16, <1>17, <1>18, <1>19, <1>20, <1>21, <1>22, <1>23, <1>24, <1>25, <1>26, <1>27,
     <1>28, <1>29, <1>30, <1>31, <1>32 DEF Next

\* Every step keeps a key for the device in the row.
LEMMA ServesNext == DeviceInv /\ SignedKeyServes /\ [Next]_vars => SignedKeyServes'
<1> SUFFICES ASSUME DeviceInv /\ SignedKeyServes, [Next]_vars PROVE SignedKeyServes'
  OBVIOUS
<1> USE DEF storeVars, clientVars, linkVars, streamVars, flowVars, ghostVars
<1>a. TypeOK /\ ShapeInv /\ FlowInv /\ CopyInv /\ KeyInv
  BY DEF DeviceInv
<1>b. /\ row \in Devices /\ memory \in Devices /\ loaded \in Devices /\ conn \in Devices
      /\ fresh \in Devices /\ dev \in Devices
  BY <1>a DEF TypeOK
<1>c. NoDevice.paired = FALSE /\ \A x \in Devices : x # NoDevice => x.id # 0
  BY NoDeviceFacts, DeviceFacts, NoIdZero
<1>d. ASSUME NEW i PROVE Device(i, TRUE).paired = TRUE /\ Device(i, FALSE).paired = FALSE
  BY DEF Device
<1>e. ASSUME NEW i PROVE Device(i, TRUE).id = i /\ Device(i, FALSE).id = i
  BY DEF Device
<1>1. CASE Create
    BY <1>1, <1>a, <1>b, <1>c, <1>d, <1>e DEF Create, KeyInv, SignedKeyServes, Served, ShapeInv,
     FlowInv, Copies, Unpaired, Unanswered, IsUp, Pairs
<1>2. CASE Connect
    BY <1>2, <1>a, <1>b, <1>c, <1>d, <1>e DEF Connect, KeyInv, SignedKeyServes, Served,
     ShapeInv, FlowInv, Copies, Unpaired, Unanswered, IsUp, Pairs
<1>3. CASE LoadDevice
    BY <1>3, <1>a, <1>b, <1>c, <1>d, <1>e DEF LoadDevice, KeyInv, SignedKeyServes, Served,
     ShapeInv, FlowInv, Copies, Unpaired, Unanswered, IsUp, Pairs
<1>4. CASE InstallLoaded
    BY <1>4, <1>a, <1>b, <1>c, <1>d, <1>e DEF InstallLoaded, KeyInv, SignedKeyServes, Served,
     ShapeInv, FlowInv, Copies, Unpaired, Unanswered, IsUp, Pairs
<1>5. CASE CheckSigned
    BY <1>5, <1>a, <1>b, <1>c, <1>d, <1>e DEF CheckSigned, KeyInv, SignedKeyServes, Served,
     ShapeInv, FlowInv, Copies, Unpaired, Unanswered, IsUp, Pairs
<1>6. CASE StoreSigned
    BY <1>6, <1>a, <1>b, <1>c, <1>d, <1>e DEF StoreSigned, KeyInv, SignedKeyServes, Served,
     ShapeInv, FlowInv, Copies, Unpaired, Unanswered, IsUp, Pairs
<1>7. CASE BootFails
    BY <1>7, <1>a, <1>b, <1>c, <1>d, <1>e DEF BootFails, KeyInv, SignedKeyServes, Served,
     ShapeInv, FlowInv, Copies, Unpaired, Unanswered, IsUp, Pairs
<1>8. CASE LoadForConnect
    BY <1>8, <1>a, <1>b, <1>c, <1>d, <1>e DEF LoadForConnect, KeyInv, SignedKeyServes, Served,
     ShapeInv, FlowInv, Copies, Unpaired, Unanswered, IsUp, Pairs
<1>9. CASE HandshakeFails
    BY <1>9, <1>a, <1>b, <1>c, <1>d, <1>e DEF HandshakeFails, KeyInv, SignedKeyServes, Served,
     ShapeInv, FlowInv, Copies, Unpaired, Unanswered, IsUp, Pairs
<1>10. CASE HandshakeDone
    BY <1>10, <1>a, <1>b, <1>c, <1>d, <1>e DEF HandshakeDone, KeyInv, SignedKeyServes, Served,
     ShapeInv, FlowInv, Copies, Unpaired, Unanswered, IsUp, Pairs
<1>11. CASE LinkLost
    BY <1>11, <1>a, <1>b, <1>c, <1>d, <1>e DEF LinkLost, StopUnanswered, Unanswered, IsUp,
     HasRoom, KeyInv, SignedKeyServes, Served, ShapeInv, FlowInv, Copies, Unpaired, Pairs
<1>12. CASE ServerRejects
    BY <1>12, <1>a, <1>b, <1>c, <1>d, <1>e DEF ServerRejects, Fail, StopUnanswered, Unanswered,
     IsUp, KeyInv, SignedKeyServes, Served, ShapeInv, FlowInv, Copies, Unpaired, Pairs
<1>13. CASE ServerRefuses
    BY <1>13, <1>a, <1>b, <1>c, <1>d, <1>e DEF ServerRefuses, Fail, StopUnanswered, Unanswered,
     IsUp, KeyInv, SignedKeyServes, Served, ShapeInv, FlowInv, Copies, Unpaired, Pairs
<1>14. ASSUME NEW i \in Ids, PhoneRemoves(i) PROVE SignedKeyServes'
    BY <1>14, <1>a, <1>b, <1>c, <1>d, <1>e DEF PhoneRemoves, KeyInv, SignedKeyServes, Served,
     ShapeInv, FlowInv, Copies, Unpaired, Unanswered, IsUp, Pairs
<1>15. ASSUME NEW i \in Ids, LateClears(i) PROVE SignedKeyServes'
    BY <1>15, <1>a, <1>b, <1>c, <1>d, <1>e DEF LateClears, ClearRejected, Clear, Stored, KeyInv,
     SignedKeyServes, Served, ShapeInv, FlowInv, Copies, Unpaired, Unanswered, IsUp, Pairs
<1>16. CASE StreamLoads
    BY <1>16, <1>a, <1>b, <1>c, <1>d, <1>e DEF StreamLoads, KeyInv, SignedKeyServes, Served,
     ShapeInv, FlowInv, Copies, Unpaired, Unanswered, IsUp, Pairs
<1>17. CASE StreamInstalls
    BY <1>17, <1>a, <1>b, <1>c, <1>d, <1>e DEF StreamInstalls, KeyInv, SignedKeyServes, Served,
     ShapeInv, FlowInv, Copies, Unpaired, Unanswered, IsUp, Pairs
<1>18. CASE StreamShows
    BY <1>18, <1>a, <1>b, <1>c, <1>d, <1>e DEF StreamShows, KeyInv, SignedKeyServes, Served,
     ShapeInv, FlowInv, Copies, Unpaired, Unanswered, IsUp, Pairs
<1>19. CASE StreamClears
    BY <1>19, <1>a, <1>b, <1>c, <1>d, <1>e DEF StreamClears, ClearRejected, Clear, Stored,
     KeyInv, SignedKeyServes, Served, ShapeInv, FlowInv, Copies, Unpaired, Unanswered, IsUp,
     Pairs
<1>20. CASE AppClears
    BY <1>20, <1>a, <1>b, <1>c, <1>d, <1>e DEF AppClears, Clear, Stored, KeyInv,
     SignedKeyServes, Served, ShapeInv, FlowInv, Copies, Unpaired, Unanswered, IsUp, Pairs
<1>21. CASE Logout
    BY <1>21, <1>a, <1>b, <1>c, <1>d, <1>e DEF Logout, StopUnanswered, Unanswered, IsUp, KeyInv,
     SignedKeyServes, Served, ShapeInv, FlowInv, Copies, Unpaired, Pairs
<1>22. CASE Drop
    BY <1>22, <1>a, <1>b, <1>c, <1>d, <1>e DEF Drop, StopUnanswered, Unanswered, KeyInv,
     SignedKeyServes, Served, ShapeInv, FlowInv, Copies, Unpaired, IsUp, Pairs
<1>23. CASE Crash
    BY <1>23, <1>a, <1>b, <1>c, <1>d, <1>e DEF Crash, KeyInv, SignedKeyServes, Served, ShapeInv,
     FlowInv, Copies, Unpaired, Unanswered, IsUp, Pairs
<1>24. ASSUME NEW how \in {"qr", "code"}, RequestPairing(how) PROVE SignedKeyServes'
    BY <1>24, <1>a, <1>b, <1>c, <1>d, <1>e DEF RequestPairing, IsUp, KeyInv, SignedKeyServes,
     Served, ShapeInv, FlowInv, Copies, Unpaired, Unanswered, Pairs
<1>25. CASE PairCodeConfirmed
  <2>1. row' # row => row' = memory /\ (memory.paired => Served(memory.id))
    BY <1>25, BroughtBack
  <2>2. /\ UNCHANGED <<signed, interrupted, dev>>
        /\ flow' = flow \/ (flow = "code" /\ flow' = "confirmed")
    BY <1>25 DEF PairCodeConfirmed
  <2> QED
    BY <2>1, <2>2 DEF SignedKeyServes, Served
<1>26. CASE PairSuccess
    BY <1>26, <1>a, <1>b, <1>c, <1>d, <1>e DEF PairSuccess, Offered, KeyInv, SignedKeyServes,
     Served, ShapeInv, FlowInv, Copies, Unpaired, Unanswered, IsUp, Pairs
<1>27. CASE SavePaired
    BY <1>27, <1>a, <1>b, <1>c, <1>d, <1>e DEF SavePaired, KeyInv, SignedKeyServes, Served,
     ShapeInv, FlowInv, Copies, Unpaired, Unanswered, IsUp, Pairs
<1>28. CASE StorePairedKey
    BY <1>28, <1>a, <1>b, <1>c, <1>d, <1>e DEF StorePairedKey, KeyInv, SignedKeyServes, Served,
     ShapeInv, FlowInv, Copies, Unpaired, Unanswered, IsUp, Pairs
<1>29. CASE PairingEnds
    BY <1>29, <1>a, <1>b, <1>c, <1>d, <1>e DEF PairingEnds, Unanswered, KeyInv, SignedKeyServes,
     Served, ShapeInv, FlowInv, Copies, Unpaired, IsUp, Pairs
<1>31. CASE PhoneConfirms
    BY <1>31 DEF PhoneConfirms, SignedKeyServes
<1>32. CASE QueuedSignSent
    BY <1>32 DEF QueuedSignSent, SignedKeyServes
<1>30. CASE UNCHANGED vars
    BY <1>30, <1>a, <1>b, <1>c, <1>d, <1>e DEF vars, KeyInv, SignedKeyServes, Served, ShapeInv,
     FlowInv, Copies, Unpaired, Unanswered, IsUp, Pairs
<1> QED
    BY <1>1, <1>2, <1>3, <1>4, <1>5, <1>6, <1>7, <1>8, <1>9, <1>10, <1>11, <1>12, <1>13, <1>14,
     <1>15, <1>16, <1>17, <1>18, <1>19, <1>20, <1>21, <1>22, <1>23, <1>24, <1>25, <1>26, <1>27,
     <1>28, <1>29, <1>30, <1>31, <1>32 DEF Next

-----------------------------------------------------------------------------
(* What a confirmation that is handled late may bring back.                *)

\* While a confirmation is held, a step that leaves the row and gives up nothing
\* (Calm) keeps the facts; the others say what they gave up.
LEMMA ConfirmKept ==
    DeviceInv /\ SignedKeyServes /\ ConfirmHeld /\ ConfirmHeld' /\ [Next]_vars => ConfirmInv'
<1> SUFFICES ASSUME DeviceInv, SignedKeyServes, ConfirmHeld, ConfirmHeld', [Next]_vars PROVE ConfirmInv'
  OBVIOUS
<1> USE DEF storeVars, clientVars, linkVars, streamVars, flowVars, ghostVars
<1>a. TypeOK /\ ShapeInv /\ RejectedLast /\ FlowInv /\ CopyInv /\ LostInv /\ KeyInv
  BY DEF DeviceInv
<1>b. /\ row \in Devices /\ memory \in Devices /\ loaded \in Devices /\ conn \in Devices
      /\ fresh \in Devices /\ dev \in Devices
  BY <1>a DEF TypeOK
<1>c. NoDevice.paired = FALSE /\ \A x \in Devices : x # NoDevice => x.id # 0
  BY NoDeviceFacts, DeviceFacts, NoIdZero
<1>f. /\ row.paired /\ row.id \in late => row.id \in lost
      /\ \A x \in Copies \cup {NoDevice, row} : x.paired => x = row \/ (x.id \in lost /\ Served(x.id))
      /\ Pairs => \A x \in Copies \cup {NoDevice, row} : x.paired => x.id = dev.id
  BY <1>a, <1>c DEF DeviceInv, ConfirmInv, FlowInv
<1>g. \A i \in Rejections' : i \in Rejections \/ (conn.paired /\ i = conn.id)
  BY <1>a, GoneNext DEF GoneStep, GoneKept, ServerRejects
<1>h. row.paired => Served(row.id)
  BY DEF SignedKeyServes, Served
<1>i. boot # "none"
  BY <1>a DEF ShapeInv, ConfirmHeld
<1>j. ASSUME NEW x \in Copies \cup {NoDevice, row}, Unpaired(x), x.id \notin lost
      PROVE  /\ x.id \notin late \cup rejected
             /\ x.id \in Rejections \/ (conn.paired /\ conn.id = x.id) => row.paired /\ row.id = x.id
  <2>1. CASE x \in Copies
    BY <1>j, <2>1 DEF DeviceInv, ConfirmInv
  <2>2. CASE x = row
    BY <1>a, <1>j, <2>2 DEF CopyInv, Gone, Pending, Unpaired
  <2>3. x # NoDevice
    BY <1>j DEF Unpaired
  <2> QED
    BY <2>1, <2>2, <2>3
<1>k. Copies \cup {NoDevice, row} \subseteq Devices
  BY <1>b, NoDeviceFacts DEF Copies
<1> DEFINE Calm ==
      /\ row' = row /\ Copies' \subseteq Copies \cup {NoDevice, row} /\ late' \subseteq late
      /\ rejected' = rejected /\ lost \subseteq lost' /\ conn' \in {conn, NoDevice, row}
      /\ Pairs' => Pairs /\ dev' = dev
      /\ \A i : i # 0 /\ Served(i) => Served(i)'
<1>l. ASSUME Calm PROVE ConfirmInv'
  <2>1. \A x \in Copies' : x.paired => x = row' \/ (x.id \in lost' /\ Served(x.id)')
    <3>1. ASSUME NEW x \in Copies', x.paired PROVE x = row' \/ (x.id \in lost' /\ Served(x.id)')
      <4>1. x \in Copies \cup {NoDevice, row} /\ x.id # 0
        BY <1>c, <1>k, <1>l, <3>1
      <4> QED
        BY <1>f, <1>l, <3>1, <4>1
    <3> QED
      BY <3>1
  <2>2. Pairs' => \A x \in Copies' : x.paired => x.id = dev'.id
    BY <1>f, <1>l
  <2>3. row'.paired /\ row'.id \in late' => row'.id \in lost'
    BY <1>f, <1>l
  <2>4. ASSUME NEW x \in Copies', Unpaired(x), x.id \notin lost'
        PROVE  /\ x.id \notin late' \cup rejected'
               /\ x.id \in Rejections' \/ (conn'.paired /\ conn'.id = x.id) => row'.paired /\ row'.id = x.id
    <3>1. x \in Copies \cup {NoDevice, row} /\ x.id \notin lost
      BY <1>l, <2>4
    <3>2. conn' = NoDevice => ~conn'.paired
      BY <1>c
    <3> QED
      BY <1>g, <1>j, <1>l, <2>4, <3>1, <3>2
  <2> QED
    BY <2>1, <2>2, <2>3, <2>4 DEF ConfirmInv, Unpaired
<1>1. CASE Create
  BY <1>1, <1>i DEF Create
<1>2. CASE Connect
  BY <1>2, <1>i DEF Connect
<1>3. CASE LoadDevice
  <2>1. Calm
    BY <1>3 DEF LoadDevice, Copies, Served, Pairs
  <2> QED
    BY <1>l, <2>1
<1>4. CASE InstallLoaded
  <2>1. Calm
    BY <1>4 DEF InstallLoaded, Copies, Served, Pairs
  <2> QED
    BY <1>l, <2>1
<1>5. CASE CheckSigned
  <2>1. Calm
    BY <1>5 DEF CheckSigned, Copies, Served, Pairs
  <2> QED
    BY <1>l, <2>1
<1>6. CASE StoreSigned
  <2>1. Calm
    BY <1>6, <1>a DEF StoreSigned, Copies, Served, Pairs, KeyInv
  <2> QED
    BY <1>l, <2>1
<1>7. CASE BootFails
  <2>1. Calm
    BY <1>7 DEF BootFails, Copies, Served, Pairs
  <2> QED
    BY <1>l, <2>1
<1>8. CASE LoadForConnect
  <2>1. Calm
    BY <1>8 DEF LoadForConnect, Copies, Served, Pairs
  <2> QED
    BY <1>l, <2>1
<1>9. CASE HandshakeFails
  <2>1. Calm
    BY <1>9 DEF HandshakeFails, Copies, Served, Pairs
  <2> QED
    BY <1>l, <2>1
<1>10. CASE HandshakeDone
  <2>1. Calm
    BY <1>10 DEF HandshakeDone, Copies, Served, Pairs
  <2> QED
    BY <1>l, <2>1
<1>11. CASE LinkLost
  <2>1. Calm
    BY <1>11 DEF LinkLost, StopUnanswered, Unanswered, IsUp, HasRoom, Copies, Served, Pairs
  <2> QED
    BY <1>l, <2>1
<1>12. CASE ServerRejects
  <2>1. Calm
    BY <1>12 DEF ServerRejects, Fail, StopUnanswered, Unanswered, IsUp, Copies, Served, Pairs
  <2> QED
    BY <1>l, <2>1
<1>13. CASE ServerRefuses
  <2>1. Calm
    BY <1>13 DEF ServerRefuses, Fail, StopUnanswered, Unanswered, IsUp, Copies, Served, Pairs
  <2> QED
    BY <1>l, <2>1
<1>14. ASSUME NEW i \in Ids, PhoneRemoves(i) PROVE ConfirmInv'
  <2>1. Calm
    BY <1>14 DEF PhoneRemoves, Copies, Served, Pairs
  <2> QED
    BY <1>l, <2>1
<1>15. ASSUME NEW i \in Ids, LateClears(i) PROVE ConfirmInv'
  <2>1. /\ UNCHANGED <<conn, flow, dev, signed, interrupted, events>> /\ Copies' = Copies
        /\ late' = late \ {i} /\ lost \subseteq lost'
    BY <1>15 DEF LateClears, ClearRejected, Clear, Copies
  <2>2. CASE row' = row /\ rejected' = rejected
    <3>1. Calm
      BY <2>1, <2>2 DEF Served, Pairs
    <3> QED
      BY <1>l, <3>1
  <2>3. CASE Clear({i}) /\ rejected' = rejected \cup {i}
    <3>1. i \in late /\ (row' = row \/ (row' = NoDevice /\ (row.paired => row.id \in lost')))
      BY <1>15, <1>f, <2>3 DEF LateClears, Clear, Stored
    <3>2. \A x \in Copies : x.paired => x = row' \/ (x.id \in lost' /\ Served(x.id)')
      BY <1>f, <1>h, <2>1, <3>1 DEF Served
    <3>3. Pairs' => \A x \in Copies : x.paired => x.id = dev'.id
      BY <1>f, <2>1 DEF Pairs
    <3>4. row'.paired => row' = row
      BY <1>c, <3>1
    <3>5. ASSUME NEW x \in Copies, Unpaired(x), x.id \notin lost'
          PROVE  /\ x.id \notin late' \cup rejected'
                 /\ x.id \in Rejections' \/ (conn'.paired /\ conn'.id = x.id) => row'.paired /\ row'.id = x.id
      <4>1. /\ x.id \notin late \cup rejected
            /\ x.id \in Rejections \/ (conn.paired /\ conn.id = x.id) => row.paired /\ row.id = x.id
        BY <1>j, <2>1, <3>5
      <4>2. Rejections' = Rejections
        BY <2>1, RejectionsKept
      <4> QED
        BY <2>1, <2>3, <3>1, <3>5, <4>1, <4>2
    <3> QED
      BY <1>f, <2>1, <3>1, <3>2, <3>3, <3>4, <3>5 DEF ConfirmInv, Unpaired
  <2> QED
    BY <1>15, <2>2, <2>3 DEF LateClears, ClearRejected
<1>16. CASE StreamLoads
  <2>1. Calm
    BY <1>16 DEF StreamLoads, Copies, Served, Pairs
  <2> QED
    BY <1>l, <2>1
<1>17. CASE StreamInstalls
  <2>1. Calm
    BY <1>17 DEF StreamInstalls, Copies, Served, Pairs
  <2> QED
    BY <1>l, <2>1
<1>18. CASE StreamShows
  <2>1. Calm
    BY <1>18 DEF StreamShows, Copies, Served, Pairs
  <2> QED
    BY <1>l, <2>1
<1>19. CASE StreamClears
  BY <1>19, <1>a, NoneAfterRejection DEF StreamClears, TypeOK
<1>20. CASE AppClears
  <2>1. /\ UNCHANGED <<conn, flow, dev, signed, interrupted, events, late, rejected>> /\ Copies' = Copies
        /\ lost \subseteq lost'
    BY <1>20 DEF AppClears, Clear, Copies
  <2>2. CASE row' = row
    <3>1. Calm
      BY <2>1, <2>2 DEF Served, Pairs
    <3> QED
      BY <1>l, <3>1
  <2>3. CASE row' = NoDevice /\ lost' = lost \cup Stored
    <3>1. row.paired => row.id \in lost'
      BY <2>3 DEF Stored
    <3>2. \A x \in Copies : x.paired => x.id \in lost' /\ Served(x.id)'
      BY <1>f, <1>h, <2>1, <3>1 DEF Served
    <3>3. Pairs' => \A x \in Copies : x.paired => x.id = dev'.id
      BY <1>f, <2>1 DEF Pairs
    <3>4. Rejections' = Rejections /\ ~row'.paired
      BY <1>c, <2>1, <2>3, RejectionsKept
    <3> QED
      BY <1>j, <2>1, <3>1, <3>2, <3>3, <3>4 DEF ConfirmInv, Unpaired
  <2> QED
    BY <1>20, <2>2, <2>3 DEF AppClears, Clear
<1>21. CASE Logout
  <2>1. Calm
    BY <1>21 DEF Logout, StopUnanswered, Unanswered, IsUp, Copies, Served, Pairs
  <2> QED
    BY <1>l, <2>1
<1>22. CASE Drop
  BY <1>22 DEF Drop, ConfirmHeld
<1>23. CASE Crash
  BY <1>23 DEF Crash, ConfirmHeld
<1>24. ASSUME NEW how \in {"qr", "code"}, RequestPairing(how) PROVE ConfirmInv'
  <2>1. Calm
    BY <1>24 DEF RequestPairing, IsUp, Copies, Served, Pairs
  <2> QED
    BY <1>l, <2>1
<1>25. CASE PairCodeConfirmed
  <2>1. /\ UNCHANGED <<conn, dev, signed, interrupted, late, rejected>> /\ Copies' = Copies
        /\ lost \subseteq lost' /\ (flow' = flow \/ (flow = "code" /\ flow' = "confirmed"))
    BY <1>25 DEF PairCodeConfirmed, Copies
  <2>2. CASE row' = row
    <3>1. Calm
      BY <2>1, <2>2 DEF Served, Pairs
    <3> QED
      BY <1>l, <3>1
  <2>3. CASE row' # row
    <3>1. row' = memory /\ (row.paired => row.id \in lost') /\ (memory.paired => memory.id \in lost)
      BY <1>25, <2>3, BroughtBack DEF Stored
    <3>2. \A x \in Copies : x.paired => x.id \in lost' /\ Served(x.id)'
      BY <1>f, <1>h, <2>1, <3>1 DEF Served
    <3>3. Pairs' => \A x \in Copies : x.paired => x.id = dev'.id
      BY <1>f, <2>1 DEF Pairs
    <3>4. \A i \in Rejections' : i \in Rejections \/ (conn.paired /\ i = conn.id)
      BY <1>g
    <3>5. row'.paired => row'.id \in lost'
      BY <2>1, <3>1
    <3> QED
      BY <1>j, <2>1, <3>1, <3>2, <3>3, <3>4, <3>5 DEF ConfirmInv, Unpaired
  <2> QED
    BY <2>2, <2>3
<1>26. CASE PairSuccess
  <2> DEFINE used == IF flow = "qr" THEN dev ELSE memory
  <2>1. /\ UNCHANGED <<row, conn, signed, interrupted, late, rejected, lost, events, loaded>> /\ Copies' = Copies
        /\ flow \in {"qr", "confirmed"} /\ loaded = NoDevice
    BY <1>26, <1>a DEF PairSuccess, Offered, Copies, ShapeInv
  <2>2. Pairs' => dev'.id = used.id
    BY <1>26 DEF PairSuccess, Pairs, Device
  <2>3. flow = "qr" => \A x \in Copies : ~x.paired
    BY <1>a DEF CopyInv
  <2>4. flow = "confirmed" => \A x \in Copies : x.paired => x.id = used.id
    <3>1. ASSUME flow = "confirmed", NEW x \in Copies, x.paired PROVE x.id = memory.id
      BY <1>a, <1>c, <2>1, <3>1 DEF FlowInv, Copies
    <3> QED
      BY <3>1
  <2>5. \A i : Served(i) => Served(i)'
    BY <2>1 DEF Served
  <2>6. Pairs' => \A x \in Copies : x.paired => x.id = dev'.id
    BY <2>1, <2>2, <2>3, <2>4
  <2> QED
    BY <1>f, <1>g, <1>j, <2>1, <2>5, <2>6 DEF ConfirmInv, Unpaired
<1>27. CASE SavePaired
  <2>1. /\ UNCHANGED <<conn, signed, interrupted, late, rejected, events>> /\ Copies' = Copies
        /\ lost \subseteq lost' /\ Pairs
    BY <1>27 DEF SavePaired, Copies, Pairs
  <2>2. CASE row' = row /\ flow' = "none"
    <3>1. Calm
      BY <1>27, <2>1, <2>2 DEF SavePaired, Served, Pairs
    <3> QED
      BY <1>l, <3>1
  <2>3. CASE row' = dev /\ flow' = "signing" /\ dev' = dev
    <3>1. dev.paired /\ (row.paired => row.id = dev.id)
      BY <1>a, <2>1 DEF ShapeInv, FlowInv
    <3>2. ASSUME NEW x \in Copies, x.paired PROVE x = dev /\ x.id = dev.id
      <4>1. x.id = dev.id /\ x \in Devices
        BY <1>f, <1>k, <2>1, <3>2
      <4> QED
        BY <1>b, <3>1, <3>2, <4>1, SameDevice
    <3>3. row'.id \in late => row'.id \in lost'
      BY <1>27, <1>a, <2>1, <2>3 DEF SavePaired, LostInv, Gone, Pending
    <3> QED
      BY <1>g, <1>j, <2>1, <2>3, <3>1, <3>2, <3>3 DEF ConfirmInv, Unpaired
  <2> QED
    BY <1>27, <2>2, <2>3 DEF SavePaired
<1>28. CASE StorePairedKey
  <2>1. /\ UNCHANGED <<row, conn, late, rejected, lost, events>> /\ Copies' = Copies
        /\ Pairs /\ ~Pairs' /\ \A i : i = dev.id => Served(i)'
    BY <1>28 DEF StorePairedKey, Copies, Pairs, Served
  <2>2. \A x \in Copies : x.paired => x = row \/ (x.id \in lost /\ Served(x.id)')
    BY <1>f, <2>1
  <2> QED
    BY <1>f, <1>g, <1>j, <2>1, <2>2 DEF ConfirmInv, Unpaired
<1>29. CASE PairingEnds
  <2>1. Calm
    BY <1>29 DEF PairingEnds, Unanswered, Copies, Served, Pairs
  <2> QED
    BY <1>l, <2>1
<1>31. CASE PhoneConfirms
  <2>1. Calm
    BY <1>31 DEF PhoneConfirms, Copies, Served, Pairs
  <2> QED
    BY <1>l, <2>1
<1>32. CASE QueuedSignSent
  <2>1. Calm
    BY <1>32 DEF QueuedSignSent, Copies, Served, Pairs
  <2> QED
    BY <1>l, <2>1
<1>30. CASE UNCHANGED vars
  <2>1. Calm
    BY <1>30 DEF vars, Copies, Served, Pairs
  <2> QED
    BY <1>l, <2>1
<1> QED
    BY <1>1, <1>2, <1>3, <1>4, <1>5, <1>6, <1>7, <1>8, <1>9, <1>10, <1>11, <1>12, <1>13, <1>14,
     <1>15, <1>16, <1>17, <1>18, <1>19, <1>20, <1>21, <1>22, <1>23, <1>24, <1>25, <1>26, <1>27,
     <1>28, <1>29, <1>30, <1>31, <1>32 DEF Next

\* What the phone confirms finds the copies in order.
LEMMA ConfirmBegins == DeviceInv /\ PhoneConfirms => ConfirmInv'
<1> SUFFICES ASSUME DeviceInv, PhoneConfirms PROVE ConfirmInv'
  OBVIOUS
<1> USE DEF storeVars, clientVars, linkVars, flowVars, ghostVars
<1>a. CopyInv /\ LostInv /\ KeyInv /\ ShapeInv /\ TypeOK
  BY DEF DeviceInv
<1>1. /\ UNCHANGED <<row, signed, memory, loaded, fresh, conn, flow, dev, late, lost, rejected, interrupted>>
      /\ Unpaired(conn) /\ ~conn.paired /\ runner # "stopped"
  BY <1>a DEF PhoneConfirms, Offered, ShapeInv, IsUp, Unpaired
<1>2. conn.id \in Ids
  BY <1>a, <1>1, DeviceFacts DEF TypeOK, Unpaired
<1>3. Rejections' = Rejections
  BY <1>a, <1>2, RejectionsPublished DEF PhoneConfirms, TypeOK
<1>4. \A x \in Copies : x.paired => x = row \/ (x.id \in lost /\ Served(x.id))
  BY <1>a, <1>1 DEF LostInv, KeyInv
<1>5. Pairs => \A x \in Copies : x.paired => x.id = dev.id
  BY <1>a, <1>1 DEF KeyInv
<1>6. row.paired /\ row.id \in late => row.id \in lost
  BY <1>a, <1>1 DEF LostInv, Pending
<1>7. \A x \in Copies : Unpaired(x) /\ x.id \notin lost => x.id \notin late \cup rejected \cup Rejections
  BY <1>a, <1>1 DEF CopyInv, Gone, Pending
<1> QED
  BY <1>1, <1>3, <1>4, <1>5, <1>6, <1>7 DEF ConfirmInv, Copies, Unpaired, Served, Pairs

\* Every step keeps that what a confirmation brings back was given up, or is not
\* rejected.
LEMMA ConfirmNext == DeviceInv /\ SignedKeyServes /\ [Next]_vars => ConfirmInv'
<1> SUFFICES ASSUME DeviceInv, SignedKeyServes, [Next]_vars PROVE ConfirmInv'
  OBVIOUS
<1>1. CASE ~ConfirmHeld'
  BY <1>1 DEF ConfirmInv
<1>2. CASE ConfirmHeld' /\ ConfirmHeld
  BY <1>2, ConfirmKept
<1>3. CASE ConfirmHeld' /\ ~ConfirmHeld
  BY <1>3, HeldNext, ConfirmBegins DEF DeviceInv
<1> QED
  BY <1>1, <1>2, <1>3

-----------------------------------------------------------------------------
(* The client and its row.                                                 *)

\* The client works with the row until it is cleared.
LEMMA ClientNext == DeviceInv /\ [Next]_vars => ClientInv'
<1> SUFFICES ASSUME DeviceInv, [Next]_vars PROVE ClientInv'
  OBVIOUS
<1> USE DEF storeVars, clientVars, linkVars, streamVars, flowVars, ghostVars
<1>a. TypeOK /\ ShapeInv /\ FlowInv /\ ClientInv
  BY DEF DeviceInv
<1>b. /\ row \in Devices /\ memory \in Devices /\ loaded \in Devices /\ conn \in Devices
      /\ fresh \in Devices /\ dev \in Devices
  BY <1>a DEF TypeOK
<1>c. NoDevice.paired = FALSE
  BY NoDeviceFacts
<1>d. ASSUME NEW i PROVE Device(i, TRUE).paired = TRUE /\ Device(i, FALSE).paired = FALSE
  BY DEF Device
<1>1. CASE Create
    BY <1>1, <1>a, <1>c, <1>d DEF Create, ClientInv, ShapeInv, FlowInv, Unpaired, Unanswered,
     IsUp, Pairs
<1>2. CASE Connect
    BY <1>2, <1>a, <1>c, <1>d DEF Connect, ClientInv, ShapeInv, FlowInv, Unpaired, Unanswered,
     IsUp, Pairs
<1>3. CASE LoadDevice
    BY <1>3, <1>a, <1>c, <1>d DEF LoadDevice, ClientInv, ShapeInv, FlowInv, Unpaired,
     Unanswered, IsUp, Pairs
<1>4. CASE InstallLoaded
    BY <1>4, <1>a, <1>c, <1>d DEF InstallLoaded, ClientInv, ShapeInv, FlowInv, Unpaired,
     Unanswered, IsUp, Pairs
<1>5. CASE CheckSigned
    BY <1>5, <1>a, <1>c, <1>d DEF CheckSigned, ClientInv, ShapeInv, FlowInv, Unpaired,
     Unanswered, IsUp, Pairs
<1>6. CASE StoreSigned
    BY <1>6, <1>a, <1>c, <1>d DEF StoreSigned, ClientInv, ShapeInv, FlowInv, Unpaired,
     Unanswered, IsUp, Pairs
<1>7. CASE BootFails
    BY <1>7, <1>a, <1>c, <1>d DEF BootFails, ClientInv, ShapeInv, FlowInv, Unpaired, Unanswered,
     IsUp, Pairs
<1>8. CASE LoadForConnect
    BY <1>8, <1>a, <1>c, <1>d DEF LoadForConnect, ClientInv, ShapeInv, FlowInv, Unpaired,
     Unanswered, IsUp, Pairs
<1>9. CASE HandshakeFails
    BY <1>9, <1>a, <1>c, <1>d DEF HandshakeFails, ClientInv, ShapeInv, FlowInv, Unpaired,
     Unanswered, IsUp, Pairs
<1>10. CASE HandshakeDone
    BY <1>10, <1>a, <1>c, <1>d DEF HandshakeDone, ClientInv, ShapeInv, FlowInv, Unpaired,
     Unanswered, IsUp, Pairs
<1>11. CASE LinkLost
    BY <1>11, <1>a, <1>c, <1>d DEF LinkLost, StopUnanswered, Unanswered, IsUp, HasRoom,
     ClientInv, ShapeInv, FlowInv, Unpaired, Pairs
<1>12. CASE ServerRejects
    BY <1>12, <1>a, <1>c, <1>d DEF ServerRejects, Fail, StopUnanswered, Unanswered, IsUp,
     ClientInv, ShapeInv, FlowInv, Unpaired, Pairs
<1>13. CASE ServerRefuses
    BY <1>13, <1>a, <1>c, <1>d DEF ServerRefuses, Fail, StopUnanswered, Unanswered, IsUp,
     ClientInv, ShapeInv, FlowInv, Unpaired, Pairs
<1>14. ASSUME NEW i \in Ids, PhoneRemoves(i) PROVE ClientInv'
    BY <1>14, <1>a, <1>c, <1>d DEF PhoneRemoves, ClientInv, ShapeInv, FlowInv, Unpaired,
     Unanswered, IsUp, Pairs
<1>15. ASSUME NEW i \in Ids, LateClears(i) PROVE ClientInv'
    BY <1>15, <1>a, <1>c, <1>d DEF LateClears, ClearRejected, Clear, Stored, ClientInv,
     ShapeInv, FlowInv, Unpaired, Unanswered, IsUp, Pairs
<1>16. CASE StreamLoads
    BY <1>16, <1>a, <1>c, <1>d DEF StreamLoads, ClientInv, ShapeInv, FlowInv, Unpaired,
     Unanswered, IsUp, Pairs
<1>17. CASE StreamInstalls
    BY <1>17, <1>a, <1>c, <1>d DEF StreamInstalls, ClientInv, ShapeInv, FlowInv, Unpaired,
     Unanswered, IsUp, Pairs
<1>18. CASE StreamShows
    BY <1>18, <1>a, <1>c, <1>d DEF StreamShows, ClientInv, ShapeInv, FlowInv, Unpaired,
     Unanswered, IsUp, Pairs
<1>19. CASE StreamClears
    BY <1>19, <1>a, <1>c, <1>d DEF StreamClears, ClearRejected, Clear, Stored, ClientInv,
     ShapeInv, FlowInv, Unpaired, Unanswered, IsUp, Pairs
<1>20. CASE AppClears
    BY <1>20, <1>a, <1>c, <1>d DEF AppClears, Clear, Stored, ClientInv, ShapeInv, FlowInv,
     Unpaired, Unanswered, IsUp, Pairs
<1>21. CASE Logout
    BY <1>21, <1>a, <1>c, <1>d DEF Logout, StopUnanswered, Unanswered, IsUp, ClientInv,
     ShapeInv, FlowInv, Unpaired, Pairs
<1>22. CASE Drop
    BY <1>22, <1>a, <1>c, <1>d DEF Drop, StopUnanswered, Unanswered, ClientInv, ShapeInv,
     FlowInv, Unpaired, IsUp, Pairs
<1>23. CASE Crash
    BY <1>23, <1>a, <1>c, <1>d DEF Crash, ClientInv, ShapeInv, FlowInv, Unpaired, Unanswered,
     IsUp, Pairs
<1>24. ASSUME NEW how \in {"qr", "code"}, RequestPairing(how) PROVE ClientInv'
    BY <1>24, <1>a, <1>c, <1>d DEF RequestPairing, IsUp, ClientInv, ShapeInv, FlowInv, Unpaired,
     Unanswered, Pairs
<1>25. CASE PairCodeConfirmed
  <2>1. ~undercut' => row' = row /\ ~undercut
    <3>1. ASSUME ~undercut', row' # row PROVE FALSE
      <4>1. code /\ boot = "ready" /\ row' = memory
        BY <1>25, <3>1, BroughtBack
      <4>2. ~undercut /\ ~row.paired
        BY <1>25, <3>1, <1>b DEF PairCodeConfirmed, TypeOK
      <4>3. Unpaired(row)
        BY <1>a, <4>1, <4>2 DEF ClientInv, Unpaired
      <4> QED
        BY <1>a, <3>1, <4>1, <4>2, <4>3 DEF ClientInv
    <3> QED
      BY <1>25, <3>1 DEF PairCodeConfirmed
  <2>2. flow' # flow => flow = "code" /\ code /\ flow' = "confirmed"
    BY <1>25 DEF PairCodeConfirmed
  <2>3. flow = "code" /\ code => ~row.paired
    BY <1>a DEF FlowInv
  <2>4. UNCHANGED <<boot, memory, loaded, conn, fresh, dev, queued>> /\ ~code'
    BY <1>25 DEF PairCodeConfirmed
  <2> QED
    BY <1>a, <2>1, <2>2, <2>3, <2>4 DEF ClientInv, Unpaired
<1>26. CASE PairSuccess
  <2> DEFINE used == IF flow = "qr" THEN dev ELSE memory
  <2>1. boot = "ready" /\ conn # NoDevice /\ ~conn.paired
    BY <1>26, <1>a DEF PairSuccess, Offered, ShapeInv, IsUp
  <2>2. ~undercut => ~row.paired
    BY <1>26, <1>a, <2>1 DEF PairSuccess, FlowInv, ClientInv
  <2>3. ~undercut => Unpaired(row) /\ conn = row
    BY <1>a, <2>1, <2>2 DEF ClientInv, Unpaired
  <2>4. ~undercut => used = row
    BY <1>26, <1>a, <2>1, <2>3 DEF PairSuccess, ClientInv
  <2>5. queued' \in {queued, used.id} /\ flow' \in {"none", "saving"}
    BY <1>26 DEF PairSuccess
  <2>6. UNCHANGED <<row, boot, memory, loaded, conn, fresh, undercut, code>>
    BY <1>26 DEF PairSuccess
  <2> QED
    BY <1>a, <2>1, <2>3, <2>4, <2>5, <2>6 DEF ClientInv, Unpaired
<1>27. CASE SavePaired
    BY <1>27, <1>a, <1>c, <1>d DEF SavePaired, ClientInv, ShapeInv, FlowInv, Unpaired,
     Unanswered, IsUp, Pairs
<1>28. CASE StorePairedKey
    BY <1>28, <1>a, <1>c, <1>d DEF StorePairedKey, ClientInv, ShapeInv, FlowInv, Unpaired,
     Unanswered, IsUp, Pairs
<1>29. CASE PairingEnds
    BY <1>29, <1>a, <1>c, <1>d DEF PairingEnds, Unanswered, ClientInv, ShapeInv, FlowInv,
     Unpaired, IsUp, Pairs
<1>31. CASE PhoneConfirms
    BY <1>31, <1>a DEF PhoneConfirms, ClientInv, Unpaired
<1>32. CASE QueuedSignSent
    BY <1>32, <1>a DEF QueuedSignSent, ClientInv, Unpaired
<1>30. CASE UNCHANGED vars
    BY <1>30, <1>a, <1>c, <1>d DEF vars, ClientInv, ShapeInv, FlowInv, Unpaired, Unanswered,
     IsUp, Pairs
<1> QED
    BY <1>1, <1>2, <1>3, <1>4, <1>5, <1>6, <1>7, <1>8, <1>9, <1>10, <1>11, <1>12, <1>13, <1>14,
     <1>15, <1>16, <1>17, <1>18, <1>19, <1>20, <1>21, <1>22, <1>23, <1>24, <1>25, <1>26, <1>27,
     <1>28, <1>29, <1>30, <1>31, <1>32 DEF Next

-----------------------------------------------------------------------------
(* The properties.                                                         *)

\* Every step keeps the linked companions.
LEMMA KeptNext == DeviceInv /\ LinkedIsKept /\ [Next]_vars => LinkedIsKept'
<1> SUFFICES ASSUME DeviceInv /\ LinkedIsKept, [Next]_vars PROVE LinkedIsKept'
  OBVIOUS
<1> USE DEF storeVars, clientVars, linkVars, streamVars, flowVars, ghostVars
<1>a. TypeOK /\ ShapeInv /\ FlowInv /\ CopyInv /\ LostInv
  BY DEF DeviceInv
<1>b. row \in Devices /\ memory \in Devices /\ dev \in Devices /\ conn \in Devices
  BY <1>a DEF TypeOK
<1>c. \A i \in Ids : Device(i, TRUE).id = i /\ Device(i, TRUE).paired
  BY MadeDevice
<1>d. ASSUME \A i \in Ids : Linked(i)' => Linked(i), row' = row \/ ~row.paired \/ row.id \in lost',
             lost \subseteq lost', flow = "saving" => flow' = "saving" /\ dev' = dev
      PROVE  LinkedIsKept'
  BY <1>c, <1>d DEF LinkedIsKept
<1>1. CASE Create
  <2>1. ~row.paired
    BY <1>1, NoDeviceFacts DEF Create
  <2> QED
    BY <1>1, <1>d, <2>1 DEF Create, Linked
<1>2. CASE Connect
  <2>1. \A i \in Ids : Linked(i)' => Linked(i)
    BY <1>2, <1>a DEF Connect, Linked, TypeOK
  <2> QED
    BY <1>2, <1>a, <1>d, <2>1 DEF Connect
<1>3. CASE LoadDevice
  <2>1. \A i \in Ids : Linked(i)' => Linked(i)
    BY <1>3, <1>a DEF LoadDevice, Linked, TypeOK
  <2> QED
    BY <1>3, <1>a, <1>d, <2>1 DEF LoadDevice
<1>4. CASE InstallLoaded
  <2>1. \A i \in Ids : Linked(i)' => Linked(i)
    BY <1>4, <1>a DEF InstallLoaded, Linked, TypeOK
  <2> QED
    BY <1>4, <1>a, <1>d, <2>1 DEF InstallLoaded
<1>5. CASE CheckSigned
  <2>1. \A i \in Ids : Linked(i)' => Linked(i)
    BY <1>5, <1>a DEF CheckSigned, Linked, TypeOK
  <2> QED
    BY <1>5, <1>a, <1>d, <2>1 DEF CheckSigned
<1>6. CASE StoreSigned
  <2>1. \A i \in Ids : Linked(i)' => Linked(i)
    BY <1>6, <1>a DEF StoreSigned, Linked, TypeOK
  <2> QED
    BY <1>6, <1>a, <1>d, <2>1 DEF StoreSigned
<1>7. CASE BootFails
  <2>1. \A i \in Ids : Linked(i)' => Linked(i)
    BY <1>7, <1>a DEF BootFails, Linked, TypeOK
  <2> QED
    BY <1>7, <1>a, <1>d, <2>1 DEF BootFails
<1>8. CASE LoadForConnect
  <2>1. \A i \in Ids : Linked(i)' => Linked(i)
    BY <1>8, <1>a DEF LoadForConnect, Linked, TypeOK
  <2> QED
    BY <1>8, <1>a, <1>d, <2>1 DEF LoadForConnect
<1>9. CASE HandshakeFails
  <2>1. \A i \in Ids : Linked(i)' => Linked(i)
    BY <1>9, <1>a DEF HandshakeFails, Linked, TypeOK
  <2> QED
    BY <1>9, <1>a, <1>d, <2>1 DEF HandshakeFails
<1>10. CASE HandshakeDone
  <2>1. \A i \in Ids : Linked(i)' => Linked(i)
    BY <1>10, <1>a DEF HandshakeDone, Linked, TypeOK
  <2> QED
    BY <1>10, <1>a, <1>d, <2>1 DEF HandshakeDone
<1>11. CASE LinkLost
  <2>1. \A i \in Ids : Linked(i)' => Linked(i)
    BY <1>11, <1>a DEF LinkLost, Linked, TypeOK, StopUnanswered, Unanswered, IsUp, HasRoom
  <2> QED
    BY <1>11, <1>a, <1>d, <2>1 DEF LinkLost, StopUnanswered, Unanswered, IsUp, HasRoom
<1>12. CASE ServerRejects
  <2>1. \A i \in Ids : Linked(i)' => Linked(i)
    BY <1>12, <1>a DEF ServerRejects, Linked, TypeOK, Fail, StopUnanswered, Unanswered, IsUp
  <2> QED
    BY <1>12, <1>a, <1>d, <2>1 DEF ServerRejects, Fail, StopUnanswered, Unanswered, IsUp
<1>13. CASE ServerRefuses
  <2>1. \A i \in Ids : Linked(i)' => Linked(i)
    BY <1>13, <1>a DEF ServerRefuses, Linked, TypeOK, Fail, StopUnanswered, Unanswered, IsUp
  <2> QED
    BY <1>13, <1>a, <1>d, <2>1 DEF ServerRefuses, Fail, StopUnanswered, Unanswered, IsUp
<1>14. ASSUME NEW i \in Ids, PhoneRemoves(i) PROVE LinkedIsKept'
  <2>1. \A j \in Ids : Linked(j)' => Linked(j)
    BY <1>14, <1>a DEF PhoneRemoves, Linked, TypeOK
  <2> QED
    BY <1>14, <1>a, <1>d, <2>1 DEF PhoneRemoves
<1>15. ASSUME NEW i \in Ids, LateClears(i) PROVE LinkedIsKept'
  <2>1. i \in Pending
    BY <1>15, <1>a, RejectionsRead DEF LateClears, TypeOK, Pending
  <2>2. \A j \in Ids : Linked(j)' => Linked(j)
    BY <1>15 DEF LateClears, Linked
  <2>3. row' = row \/ ~row.paired \/ ~Linked(row.id) \/ row.id \in lost'
    BY <1>15, <1>a, <2>1 DEF LateClears, ClearRejected, Clear, Stored, LostInv
  <2>4. lost \subseteq lost' /\ flow' = flow /\ dev' = dev
    BY <1>15 DEF LateClears, ClearRejected, Clear
  <2> QED
    BY <1>c, <2>2, <2>3, <2>4 DEF LinkedIsKept
<1>16. CASE StreamLoads
  <2>1. \A i \in Ids : Linked(i)' => Linked(i)
    BY <1>16, <1>a DEF StreamLoads, Linked, TypeOK
  <2> QED
    BY <1>16, <1>a, <1>d, <2>1 DEF StreamLoads
<1>17. CASE StreamInstalls
  <2>1. \A i \in Ids : Linked(i)' => Linked(i)
    BY <1>17, <1>a DEF StreamInstalls, Linked, TypeOK
  <2> QED
    BY <1>17, <1>a, <1>d, <2>1 DEF StreamInstalls
<1>18. CASE StreamShows
  <2>1. \A i \in Ids : Linked(i)' => Linked(i)
    BY <1>18, <1>a DEF StreamShows, Linked, TypeOK
  <2> QED
    BY <1>18, <1>a, <1>d, <2>1 DEF StreamShows
<1>19. CASE StreamClears
  <2>1. Head(events).id \in Pending
    BY <1>19, <1>a, RejectionsRead DEF StreamClears, TypeOK, Pending
  <2>2. \A j \in Ids : Linked(j)' => Linked(j)
    BY <1>19 DEF StreamClears, Linked
  <2>3. row' = row \/ ~row.paired \/ ~Linked(row.id) \/ row.id \in lost'
    BY <1>19, <1>a, <2>1 DEF StreamClears, ClearRejected, Clear, Stored, LostInv
  <2>4. lost \subseteq lost' /\ flow' = flow /\ dev' = dev
    BY <1>19 DEF StreamClears, ClearRejected, Clear
  <2> QED
    BY <1>c, <2>2, <2>3, <2>4 DEF LinkedIsKept
<1>20. CASE AppClears
  <2>1. \A i \in Ids : Linked(i)' => Linked(i)
    BY <1>20, <1>a DEF AppClears, Linked, TypeOK, Clear, Stored
  <2> QED
    BY <1>20, <1>a, <1>d, <2>1 DEF AppClears, Clear, Stored
<1>21. CASE Logout
  <2>1. \A i \in Ids : Linked(i)' => Linked(i)
    BY <1>21, <1>a DEF Logout, Linked, TypeOK, StopUnanswered, Unanswered, IsUp
  <2> QED
    BY <1>21, <1>a, <1>d, <2>1 DEF Logout, StopUnanswered, Unanswered, IsUp
<1>22. CASE Drop
  <2>1. \A i \in Ids : Linked(i)' => Linked(i)
    BY <1>22, <1>a DEF Drop, Linked, TypeOK, StopUnanswered, Unanswered
  <2> QED
    BY <1>22, <1>a, <1>d, <2>1 DEF Drop, StopUnanswered, Unanswered
<1>23. CASE Crash
  <2>1. \A i \in Ids : Linked(i)' => Linked(i)
    BY <1>23 DEF Crash, Linked
  <2>2. CASE sqlite
    BY <1>23, <2>1, <2>2 DEF Crash, LinkedIsKept
  <2>3. CASE ~sqlite
    <3>1. \A i \in Ids : Linked(i) => i \in lost'
      BY <1>23, <2>3 DEF Crash
    <3> QED
      BY <2>1, <3>1 DEF LinkedIsKept
  <2> QED
    BY <2>2, <2>3
<1>24. ASSUME NEW how \in {"qr", "code"}, RequestPairing(how) PROVE LinkedIsKept'
  <2>1. \A i \in Ids : Linked(i)' => Linked(i)
    BY <1>24, <1>a DEF RequestPairing, Linked, TypeOK, IsUp
  <2> QED
    BY <1>24, <1>a, <1>d, <2>1 DEF RequestPairing, IsUp
<1>25. CASE PairCodeConfirmed
  <2>1. \A i \in Ids : Linked(i)' => Linked(i)
    BY <1>25 DEF PairCodeConfirmed, Linked
  <2>2. row' = row \/ ~row.paired \/ row.id \in lost'
    BY <1>25 DEF PairCodeConfirmed, Stored
  <2>3. lost \subseteq lost' /\ (flow = "saving" => flow' = "saving" /\ dev' = dev)
    BY <1>25 DEF PairCodeConfirmed
  <2> QED
    BY <1>d, <2>1, <2>2, <2>3
<1>26. CASE PairSuccess
  <2> DEFINE used == IF flow = "qr" THEN dev ELSE memory
  <2>1. CASE flow' = "none"
    BY <1>26, <1>a, <1>d, <2>1 DEF PairSuccess, Linked
  <2>2. CASE flow' = "saving"
    <3>1. used # NoDevice
      BY <1>26, <1>a DEF PairSuccess, Offered, ShapeInv, Unpaired
    <3>2. dev'.id = used.id
      BY <1>26, <1>b, <2>2, <3>1, DeviceFacts, MadeDevice DEF PairSuccess
    <3>3. \A i \in Ids : Linked(i)' => Linked(i) \/ i = used.id
      BY <1>26, <1>a, <2>2 DEF PairSuccess, Linked, TypeOK
    <3>4. row' = row /\ lost' = lost /\ flow # "saving"
      BY <1>26 DEF PairSuccess
    <3> QED
      BY <2>2, <3>2, <3>3, <3>4 DEF LinkedIsKept
  <2> QED
    BY <1>26, <2>1, <2>2 DEF PairSuccess
<1>27. CASE SavePaired
  <2>1. dev.paired /\ dev \in Devices
    BY <1>27, <1>a, <1>b DEF SavePaired, ShapeInv, Pairs
  <2>2. dev = Device(dev.id, TRUE)
    BY <2>1, DeviceFacts, MadeDevice, SameDevice
  <2>3. row.paired => row.id = dev.id
    BY <1>27, <1>a DEF SavePaired, FlowInv, Pairs
  <2>4. /\ server' = server
        /\ \/ row' = dev /\ lost' = lost
           \/ row' = row /\ dev.id \in lost' /\ lost \subseteq lost'
    BY <1>27 DEF SavePaired
  <2> QED
    BY <1>c, <2>1, <2>2, <2>3, <2>4 DEF LinkedIsKept, Linked
<1>28. CASE StorePairedKey
  <2>1. \A i \in Ids : Linked(i)' => Linked(i)
    BY <1>28, <1>a DEF StorePairedKey, Linked, TypeOK
  <2> QED
    BY <1>28, <1>a, <1>d, <2>1 DEF StorePairedKey
<1>29. CASE PairingEnds
  <2>1. \A i \in Ids : Linked(i)' => Linked(i)
    BY <1>29, <1>a DEF PairingEnds, Linked, TypeOK, Unanswered
  <2> QED
    BY <1>29, <1>a, <1>d, <2>1 DEF PairingEnds, Unanswered
<1>31. CASE PhoneConfirms
  <2>1. \A i \in Ids : Linked(i)' => Linked(i)
    BY <1>31 DEF PhoneConfirms, Linked
  <2> QED
    BY <1>31, <1>d, <2>1 DEF PhoneConfirms
<1>32. CASE QueuedSignSent
  <2>1. \A i \in Ids : Linked(i)' => Linked(i) \/ i \in lost'
    BY <1>32, <1>a DEF QueuedSignSent, Linked, TypeOK
  <2>2. lost \subseteq lost' /\ UNCHANGED <<row, flow, dev>>
    BY <1>32 DEF QueuedSignSent
  <2> QED
    BY <2>1, <2>2 DEF LinkedIsKept
<1>30. CASE UNCHANGED vars
  BY <1>30 DEF vars, LinkedIsKept, Linked
<1> QED
    BY <1>1, <1>2, <1>3, <1>4, <1>5, <1>6, <1>7, <1>8, <1>9, <1>10, <1>11, <1>12, <1>13, <1>14,
     <1>15, <1>16, <1>17, <1>18, <1>19, <1>20, <1>21, <1>22, <1>23, <1>24, <1>25, <1>26, <1>27,
     <1>28, <1>29, <1>30, <1>31, <1>32 DEF Next

\* No step brings a rejected device back.
LEMMA OutNext == DeviceInv /\ RejectedStaysOut /\ [Next]_vars => RejectedStaysOut'
<1> SUFFICES ASSUME DeviceInv /\ RejectedStaysOut, [Next]_vars PROVE RejectedStaysOut'
  OBVIOUS
<1> USE DEF storeVars, clientVars, linkVars, streamVars, flowVars, ghostVars
<1>a. TypeOK /\ ShapeInv /\ FlowInv /\ CopyInv /\ LostInv
  BY DEF DeviceInv
<1>b. row \in Devices /\ memory \in Devices /\ dev \in Devices /\ conn \in Devices
  BY <1>a DEF TypeOK
<1>c. NoDevice.id \notin rejected'
  BY NoDeviceFacts, NoIdZero, TypeNext DEF DeviceInv, TypeOK
<1>1. CASE Create
  <2>1. row'.id = NewId /\ NewId \notin rejected
    BY <1>1, NewIdFacts, MadeDevice DEF Create, Known
  <2> QED
    BY <1>1, <2>1 DEF Create, RejectedStaysOut
<1>2. CASE Connect
  BY <1>2 DEF Connect, RejectedStaysOut
<1>3. CASE LoadDevice
  BY <1>3 DEF LoadDevice, RejectedStaysOut
<1>4. CASE InstallLoaded
  BY <1>4 DEF InstallLoaded, RejectedStaysOut
<1>5. CASE CheckSigned
  BY <1>5 DEF CheckSigned, RejectedStaysOut
<1>6. CASE StoreSigned
  BY <1>6 DEF StoreSigned, RejectedStaysOut
<1>7. CASE BootFails
  BY <1>7 DEF BootFails, RejectedStaysOut
<1>8. CASE LoadForConnect
  BY <1>8 DEF LoadForConnect, RejectedStaysOut
<1>9. CASE HandshakeFails
  BY <1>9 DEF HandshakeFails, RejectedStaysOut
<1>10. CASE HandshakeDone
  BY <1>10 DEF HandshakeDone, RejectedStaysOut
<1>11. CASE LinkLost
  BY <1>11 DEF LinkLost, StopUnanswered, Unanswered, IsUp, HasRoom, RejectedStaysOut
<1>12. CASE ServerRejects
  BY <1>12 DEF ServerRejects, Fail, StopUnanswered, Unanswered, IsUp, RejectedStaysOut
<1>13. CASE ServerRefuses
  BY <1>13 DEF ServerRefuses, Fail, StopUnanswered, Unanswered, IsUp, RejectedStaysOut
<1>14. ASSUME NEW i \in Ids, PhoneRemoves(i) PROVE RejectedStaysOut'
  BY <1>14 DEF PhoneRemoves, RejectedStaysOut
<1>15. ASSUME NEW i \in Ids, LateClears(i) PROVE RejectedStaysOut'
  <2>1. CASE sqlite /\ row' = NoDevice
    BY <1>c, <2>1 DEF RejectedStaysOut
  <2>2. CASE row' = row /\ rejected' = rejected /\ lost' = lost
    BY <1>15, <2>2 DEF LateClears, RejectedStaysOut
  <2>3. CASE ~sqlite
    BY <1>15, <2>3 DEF LateClears, RejectedStaysOut
  <2> QED
    BY <1>15, <2>1, <2>2, <2>3 DEF LateClears, ClearRejected, Clear
<1>16. CASE StreamLoads
  BY <1>16 DEF StreamLoads, RejectedStaysOut
<1>17. CASE StreamInstalls
  BY <1>17 DEF StreamInstalls, RejectedStaysOut
<1>18. CASE StreamShows
  BY <1>18 DEF StreamShows, RejectedStaysOut
<1>19. CASE StreamClears
  <2>1. CASE sqlite /\ row' = NoDevice
    BY <1>c, <2>1 DEF RejectedStaysOut
  <2>2. CASE row' = row /\ rejected' = rejected /\ lost' = lost
    BY <1>19, <2>2 DEF StreamClears, RejectedStaysOut
  <2>3. CASE ~sqlite
    BY <1>19, <2>3 DEF StreamClears, RejectedStaysOut
  <2> QED
    BY <1>19, <2>1, <2>2, <2>3 DEF StreamClears, ClearRejected, Clear
<1>20. CASE AppClears
  <2>1. CASE sqlite /\ row' = NoDevice
    BY <1>c, <2>1 DEF RejectedStaysOut
  <2>2. CASE row' = row /\ rejected' = rejected /\ lost' = lost
    BY <1>20, <2>2 DEF AppClears, RejectedStaysOut
  <2>3. CASE ~sqlite
    BY <1>20, <2>3 DEF AppClears, RejectedStaysOut
  <2> QED
    BY <1>20, <2>1, <2>2, <2>3 DEF AppClears, Clear
<1>21. CASE Logout
  BY <1>21 DEF Logout, StopUnanswered, Unanswered, IsUp, RejectedStaysOut
<1>22. CASE Drop
  BY <1>22 DEF Drop, StopUnanswered, Unanswered, RejectedStaysOut
<1>23. CASE Crash
  <2>1. CASE sqlite
    BY <1>23, <2>1 DEF Crash, RejectedStaysOut
  <2>2. CASE ~sqlite
    BY <1>23, <2>2 DEF Crash, RejectedStaysOut
  <2> QED
    BY <2>1, <2>2
<1>24. ASSUME NEW how \in {"qr", "code"}, RequestPairing(how) PROVE RejectedStaysOut'
  BY <1>24 DEF RequestPairing, IsUp, RejectedStaysOut
<1>25. CASE PairCodeConfirmed
  <2>1. lost \subseteq lost' /\ sqlite' = sqlite /\ rejected' = rejected
    BY <1>25 DEF PairCodeConfirmed
  <2>2. row' # row => row' = memory /\ (memory.id \in rejected => memory.id \in lost')
    BY <1>25, <1>b, <2>1, BroughtBack, DeviceFacts DEF Gone
  <2> QED
    BY <2>1, <2>2 DEF RejectedStaysOut
<1>26. CASE PairSuccess
  BY <1>26 DEF PairSuccess, Offered, RejectedStaysOut
<1>27. CASE SavePaired
  <2>1. dev.id \in rejected => dev.id \in lost
    BY <1>27, <1>a DEF SavePaired, LostInv, Gone
  <2> QED
    BY <1>27, <2>1 DEF SavePaired, RejectedStaysOut
<1>28. CASE StorePairedKey
  BY <1>28 DEF StorePairedKey, RejectedStaysOut
<1>29. CASE PairingEnds
  BY <1>29 DEF PairingEnds, Unanswered, RejectedStaysOut
<1>31. CASE PhoneConfirms
  BY <1>31 DEF PhoneConfirms, RejectedStaysOut
<1>32. CASE QueuedSignSent
  BY <1>32 DEF QueuedSignSent, RejectedStaysOut
<1>30. CASE UNCHANGED vars
  BY <1>30 DEF vars, RejectedStaysOut
<1> QED
    BY <1>1, <1>2, <1>3, <1>4, <1>5, <1>6, <1>7, <1>8, <1>9, <1>10, <1>11, <1>12, <1>13, <1>14,
     <1>15, <1>16, <1>17, <1>18, <1>19, <1>20, <1>21, <1>22, <1>23, <1>24, <1>25, <1>26, <1>27,
     <1>28, <1>29, <1>30, <1>31, <1>32 DEF Next

\* What a step may link.
LinksPresented == \A i \in Ids : ~Linked(i) /\ Linked(i)' => i = conn.id \/ undercut

\* Only an answer to pair-device links, and what the connection presented.
LEMMA PresentedNext == DeviceInv /\ [Next]_vars => LinksPresented
<1> SUFFICES ASSUME DeviceInv, [Next]_vars PROVE LinksPresented
  OBVIOUS
<1> USE DEF storeVars, clientVars, linkVars, streamVars, flowVars, ghostVars
<1>a. TypeOK /\ ShapeInv /\ FlowInv /\ CopyInv /\ ClientInv
  BY DEF DeviceInv
<1>b. row \in Devices /\ memory \in Devices /\ dev \in Devices /\ conn \in Devices
  BY <1>a DEF TypeOK
<1> DEFINE Same == \A i \in Ids : Linked(i)' => Linked(i)
<1>c. ASSUME Same PROVE LinksPresented
  BY <1>c DEF LinksPresented
<1>1. CASE Create
  <2>1. Same
    BY <1>1, <1>a DEF Create, Linked, TypeOK
  <2> QED
    BY <1>c, <2>1
<1>2. CASE Connect
  <2>1. Same
    BY <1>2, <1>a DEF Connect, Linked, TypeOK
  <2> QED
    BY <1>c, <2>1
<1>3. CASE LoadDevice
  <2>1. Same
    BY <1>3, <1>a DEF LoadDevice, Linked, TypeOK
  <2> QED
    BY <1>c, <2>1
<1>4. CASE InstallLoaded
  <2>1. Same
    BY <1>4, <1>a DEF InstallLoaded, Linked, TypeOK
  <2> QED
    BY <1>c, <2>1
<1>5. CASE CheckSigned
  <2>1. Same
    BY <1>5, <1>a DEF CheckSigned, Linked, TypeOK
  <2> QED
    BY <1>c, <2>1
<1>6. CASE StoreSigned
  <2>1. Same
    BY <1>6, <1>a DEF StoreSigned, Linked, TypeOK
  <2> QED
    BY <1>c, <2>1
<1>7. CASE BootFails
  <2>1. Same
    BY <1>7, <1>a DEF BootFails, Linked, TypeOK
  <2> QED
    BY <1>c, <2>1
<1>8. CASE LoadForConnect
  <2>1. Same
    BY <1>8, <1>a DEF LoadForConnect, Linked, TypeOK
  <2> QED
    BY <1>c, <2>1
<1>9. CASE HandshakeFails
  <2>1. Same
    BY <1>9, <1>a DEF HandshakeFails, Linked, TypeOK
  <2> QED
    BY <1>c, <2>1
<1>10. CASE HandshakeDone
  <2>1. Same
    BY <1>10, <1>a DEF HandshakeDone, Linked, TypeOK
  <2> QED
    BY <1>c, <2>1
<1>11. CASE LinkLost
  <2>1. Same
    BY <1>11, <1>a DEF LinkLost, StopUnanswered, Unanswered, IsUp, HasRoom, Linked, TypeOK
  <2> QED
    BY <1>c, <2>1
<1>12. CASE ServerRejects
  <2>1. Same
    BY <1>12, <1>a DEF ServerRejects, Fail, StopUnanswered, Unanswered, IsUp, Linked, TypeOK
  <2> QED
    BY <1>c, <2>1
<1>13. CASE ServerRefuses
  <2>1. Same
    BY <1>13, <1>a DEF ServerRefuses, Fail, StopUnanswered, Unanswered, IsUp, Linked, TypeOK
  <2> QED
    BY <1>c, <2>1
<1>14. ASSUME NEW i \in Ids, PhoneRemoves(i) PROVE LinksPresented
  <2>1. Same
    BY <1>14, <1>a DEF PhoneRemoves, Linked, TypeOK
  <2> QED
    BY <1>c, <2>1
<1>15. ASSUME NEW i \in Ids, LateClears(i) PROVE LinksPresented
  <2>1. Same
    BY <1>15, <1>a DEF LateClears, ClearRejected, Clear, Stored, Linked, TypeOK
  <2> QED
    BY <1>c, <2>1
<1>16. CASE StreamLoads
  <2>1. Same
    BY <1>16, <1>a DEF StreamLoads, Linked, TypeOK
  <2> QED
    BY <1>c, <2>1
<1>17. CASE StreamInstalls
  <2>1. Same
    BY <1>17, <1>a DEF StreamInstalls, Linked, TypeOK
  <2> QED
    BY <1>c, <2>1
<1>18. CASE StreamShows
  <2>1. Same
    BY <1>18, <1>a DEF StreamShows, Linked, TypeOK
  <2> QED
    BY <1>c, <2>1
<1>19. CASE StreamClears
  <2>1. Same
    BY <1>19, <1>a DEF StreamClears, ClearRejected, Clear, Stored, Linked, TypeOK
  <2> QED
    BY <1>c, <2>1
<1>20. CASE AppClears
  <2>1. Same
    BY <1>20, <1>a DEF AppClears, Clear, Stored, Linked, TypeOK
  <2> QED
    BY <1>c, <2>1
<1>21. CASE Logout
  <2>1. Same
    BY <1>21, <1>a DEF Logout, StopUnanswered, Unanswered, IsUp, Linked, TypeOK
  <2> QED
    BY <1>c, <2>1
<1>22. CASE Drop
  <2>1. Same
    BY <1>22, <1>a DEF Drop, StopUnanswered, Unanswered, Linked, TypeOK
  <2> QED
    BY <1>c, <2>1
<1>23. CASE Crash
  <2>1. Same
    BY <1>23, <1>a DEF Crash, Linked, TypeOK
  <2> QED
    BY <1>c, <2>1
<1>24. ASSUME NEW how \in {"qr", "code"}, RequestPairing(how) PROVE LinksPresented
  <2>1. Same
    BY <1>24, <1>a DEF RequestPairing, IsUp, Linked, TypeOK
  <2> QED
    BY <1>c, <2>1
<1>25. CASE PairCodeConfirmed
  <2>1. Same
    BY <1>25, <1>a DEF PairCodeConfirmed, Offered, Linked, TypeOK
  <2> QED
    BY <1>c, <2>1
<1>26. CASE PairSuccess
  <2>1. CASE flow' = "none"
    BY <1>26, <1>a, <2>1 DEF PairSuccess, LinksPresented, Linked
  <2>2. CASE flow' = "saving"
    <3> DEFINE used == IF flow = "qr" THEN dev ELSE memory
    <3>1. boot = "ready" /\ Unpaired(conn)
      BY <1>26, <1>a DEF PairSuccess, Offered, ShapeInv, IsUp, Unpaired
    <3>2. ~undercut => ~row.paired
      BY <1>26, <1>a, <3>1 DEF PairSuccess, FlowInv, ClientInv
    <3>3. ~undercut => Unpaired(row) /\ conn = row
      BY <1>a, <3>1, <3>2 DEF ClientInv, Unpaired
    <3>4. ~undercut => used = row
      BY <1>26, <1>a, <3>1, <3>3 DEF PairSuccess, ClientInv
    <3>5. \A i \in Ids : Linked(i)' => Linked(i) \/ i = used.id
      BY <1>26, <1>a, <2>2 DEF PairSuccess, Linked, TypeOK
    <3> QED
      BY <3>3, <3>4, <3>5 DEF LinksPresented
  <2> QED
    BY <1>26, <2>1, <2>2 DEF PairSuccess
<1>27. CASE SavePaired
  <2>1. Same
    BY <1>27, <1>a DEF SavePaired, Linked, TypeOK
  <2> QED
    BY <1>c, <2>1
<1>28. CASE StorePairedKey
  <2>1. Same
    BY <1>28, <1>a DEF StorePairedKey, Linked, TypeOK
  <2> QED
    BY <1>c, <2>1
<1>29. CASE PairingEnds
  <2>1. Same
    BY <1>29, <1>a DEF PairingEnds, Unanswered, Linked, TypeOK
  <2> QED
    BY <1>c, <2>1
<1>31. CASE PhoneConfirms
  <2>1. Same
    BY <1>31 DEF PhoneConfirms, Linked
  <2> QED
    BY <1>c, <2>1
<1>32. CASE QueuedSignSent
  <2>1. \A i \in Ids : Linked(i)' => Linked(i) \/ i = queued
    BY <1>32, <1>a DEF QueuedSignSent, Linked, TypeOK
  <2>2. boot # "none" /\ Unpaired(conn) /\ queued # 0
    BY <1>32, <1>a DEF QueuedSignSent, IsUp, ShapeInv, Unpaired
  <2>3. ~undercut => queued = conn.id
    BY <1>a, <2>2 DEF ClientInv
  <2> QED
    BY <2>1, <2>3 DEF LinksPresented
<1>30. CASE UNCHANGED vars
  BY <1>30, <1>c DEF vars, Linked
<1> QED
    BY <1>1, <1>2, <1>3, <1>4, <1>5, <1>6, <1>7, <1>8, <1>9, <1>10, <1>11, <1>12, <1>13, <1>14,
     <1>15, <1>16, <1>17, <1>18, <1>19, <1>20, <1>21, <1>22, <1>23, <1>24, <1>25, <1>26, <1>27,
     <1>28, <1>29, <1>30, <1>31, <1>32 DEF Next

-----------------------------------------------------------------------------
(* Theorems.                                                               *)

LEMMA ServesInit == Init => SignedKeyServes
  BY NoDeviceFacts DEF Init, SignedKeyServes

LEMMA InvNext == DeviceInv /\ SignedKeyServes /\ [Next]_vars => DeviceInv' /\ SignedKeyServes'
<1> SUFFICES ASSUME DeviceInv, SignedKeyServes, [Next]_vars PROVE DeviceInv' /\ SignedKeyServes'
  OBVIOUS
<1>1. TypeOK' /\ ShapeInv' /\ RejectedLast'
  BY TypeNext, ShapeNext, LastNext DEF DeviceInv
<1>2. FlowInv' /\ CopyInv' /\ LostInv' /\ ClientInv'
  BY FlowNext, CopyNext, LostNext, ClientNext
<1>3. KeyInv' /\ ConfirmInv' /\ SignedKeyServes'
  BY KeyNext, ConfirmNext, ServesNext
<1> QED
  BY <1>1, <1>2, <1>3 DEF DeviceInv

LEMMA DeviceAndKey == Spec => [](DeviceInv /\ SignedKeyServes)
<1>1. Init => DeviceInv /\ SignedKeyServes
  BY TypeInit, ServesInit
<1> QED
  BY <1>1, InvNext, PTL DEF Spec

\* The types of the state and the invariant that the rest follows from hold
\* for any number of identities, clients and restarts, and any bus.
THEOREM DeviceInvariant == Spec => []DeviceInv
  BY DeviceAndKey, PTL

\* The signed pre-key that is stored serves the stored device, however
\* load_or_create_device, a pairing flow and a deletion of the row interleave,
\* unless the pairing was cut off before its key was stored.
THEOREM SignedKey == Spec => []SignedKeyServes
  BY DeviceAndKey, PTL

\* A companion that the server has linked stays in the row or in the flow
\* that saves it, unless it was given up or lost to a cause that is named.
THEOREM Kept == Spec => []LinkedIsKept
<1>1. Init => LinkedIsKept
  <2>1. ASSUME Init, NEW i \in Ids, Linked(i) PROVE row = Device(i, TRUE)
    <3>1. i = row.id
      BY <2>1 DEF Init, Linked
    <3>2. row # NoDevice
      BY <3>1, NoDeviceFacts, NoIdZero
    <3>3. row = Device(1, TRUE)
      BY <2>1, <3>2 DEF Init
    <3>4. 1 \in Ids
      BY DeviceAssumption DEF Ids
    <3> QED
      BY <3>1, <3>3, <3>4, MadeDevice
  <2> QED
    BY <2>1 DEF LinkedIsKept
<1>2. DeviceInv /\ LinkedIsKept /\ [Next]_vars => LinkedIsKept'
  BY KeptNext
<1> QED
  BY <1>1, <1>2, DeviceInvariant, PTL DEF Spec

\* A rejected device that was cleared from the row of a SqliteSession does not
\* come back from a copy in memory or in a flow.
THEOREM StaysOut == Spec => []RejectedStaysOut
<1>1. Init => RejectedStaysOut
  BY DEF Init, RejectedStaysOut
<1>2. DeviceInv /\ RejectedStaysOut /\ [Next]_vars => RejectedStaysOut'
  BY OutNext
<1> QED
  BY <1>1, <1>2, DeviceInvariant, PTL DEF Spec

\* Whatever is linked is what the connection presented, unless the device was
\* cleared under the client that pairs.
THEOREM Presented == Spec => PairsTheConnected
<1>1. DeviceInv /\ [Next]_vars => [LinksPresented]_vars
  BY PresentedNext
<1>2. PairsTheConnected <=> [][LinksPresented]_vars
  BY DEF PairsTheConnected, LinksPresented
<1> QED
  BY <1>1, <1>2, DeviceInvariant, PTL DEF Spec

=============================================================================
