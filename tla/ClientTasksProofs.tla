------------------------- MODULE ClientTasksProofs -------------------------
(***************************************************************************)
(* Proofs about ClientTasks: types, and that a stanza is built under one   *)
(* device, for any numbers of tasks, messages and reconnects.              *)
(***************************************************************************)
EXTENDS ClientTasks, SequenceTheorems, TLAPS

USE TasksAssumption

Items == [kind : Kinds, task : Tasks \cup {None}]

\* The types of what is on the way: wire, read loop and bus.
ChannelsOK ==
    /\ wire \in Seq(Items)
    /\ loop \in Items \cup {Nothing}
    /\ bus \in Seq(Items) /\ Len(bus) <= BusCapacity

\* The types of the tasks' own state and of the lock.
Places == {"recv", "decrypting", "receipting", "syncing", "syncingLast",
           "connecting", "downloading", "reconnecting", "retrying",
           "idle", "announced", "spawned", "wantWrite", "draining", "resolving",
           "loading", "fetching", "encrypting", "sending", "asking", "finished"}
TasksOK ==
    /\ pc \in [Tasks -> Places]
    /\ req \in [Tasks -> Waiting \cup {"none", "done", "failed"}]
    /\ guards \subseteq Readers
    /\ writer \in Tasks \cup {None}
    /\ outdated \subseteq Calls
    /\ messages \in 0..MaxMessages /\ connects \in 0..MaxConnects

LEMMA TypeParts == TypeOK <=> ChannelsOK /\ TasksOK
  BY DEF TypeOK, ChannelsOK, TasksOK, Items, Places

LEMMA KnownTasks ==
    /\ Stream \in Tasks /\ Readers \subseteq Tasks /\ Routers \subseteq Tasks
    /\ Calls \subseteq Readers /\ Histories \subseteq Readers
    /\ None \notin Tasks
  BY DEF Tasks, Readers

\* A call that builds its stanza holds the device.
Guarded(s) == Builds(s) => s \in guards

LEMMA GuardParts == GuardInv <=> TypeOK /\ outdated = {} /\ \A s \in Calls : Guarded(s)
  BY DEF GuardInv, BuiltUnderOneDevice, Guarded

\* Every step keeps the types of the channels.
LEMMA ChannelStep == TypeOK /\ [Next]_vars => ChannelsOK'
<1> SUFFICES ASSUME TypeOK, [Next]_vars PROVE ChannelsOK'
  OBVIOUS
<1>0. ChannelsOK /\ TasksOK
  BY TypeParts
<1> USE KnownTasks DEF ChannelsOK
<1>1. CASE UNCHANGED <<wire, loop, bus>>
  BY <1>0, <1>1
<1>2. \A t \in Tasks \cup {None}, k \in Kinds : Item(k, t) \in Items
  BY DEF Item, Items
<1>3. CASE SendMessage
  BY <1>0, <1>2, <1>3 DEF SendMessage, Kinds
<1>4. ASSUME NEW r \in Routers, SendRouting(r) PROVE ChannelsOK'
  BY <1>0, <1>2, <1>4 DEF SendRouting, Kinds
<1>5. ASSUME NEW t \in Tasks, ServerAnswers(t) PROVE ChannelsOK'
  BY <1>0, <1>2, <1>5 DEF ServerAnswers, Kinds
<1>6. CASE Reconnect
  <2>1. Item("connected", None) \in Items
    BY <1>2 DEF Kinds
  <2>2. bus' \in Seq(Items) /\ Len(bus') <= BusCapacity
    BY <1>0, <1>6, <2>1, AppendProperties, LenProperties DEF Reconnect
  <2>3. wire' \in Seq(Items) /\ loop' = loop
    BY <1>6 DEF Reconnect
  <2> QED
    BY <1>0, <2>2, <2>3
<1>7. CASE ReadFrame
  <2>1. Head(wire) \in Items /\ Tail(wire) \in Seq(Items)
    BY <1>0, <1>7, HeadTailProperties, LenProperties DEF ReadFrame
  <2> QED
    BY <1>0, <1>7, <2>1 DEF ReadFrame, Items
<1>8. CASE Broadcast
  <2>1. loop \in Items
    BY <1>0, <1>8 DEF Broadcast
  <2> QED
    BY <1>0, <1>8, <2>1, AppendProperties, LenProperties DEF Broadcast, netVars
<1>9. CASE StreamReceives
  <2>1. Tail(bus) \in Seq(Items) /\ Len(Tail(bus)) <= BusCapacity
    BY <1>0, <1>9, HeadTailProperties, LenProperties DEF StreamReceives
  <2> QED
    BY <1>0, <1>9, <2>1 DEF StreamReceives, netVars
<1> QED
  BY <1>1, <1>3, <1>4, <1>5, <1>6, <1>7, <1>8, <1>9
     DEF Next, LoopNext, StreamNext, CallNext, RequestWrite, WriteDevice, RequestTimesOut, Start,
         HandleSend, CanStart, FirstStep, NotLoggedIn, StreamDecrypts, StreamConnected, HostAnswers, StreamGoesOn, Resolved,
         LoadSessions, Fetched, Encrypt, Finish, vars, netVars

\* Every step keeps the types of the tasks.
LEMMA TaskStep == TypeOK /\ [Next]_vars => TasksOK'
<1> SUFFICES ASSUME TypeOK, [Next]_vars PROVE TasksOK'
  OBVIOUS
<1>0. ChannelsOK /\ TasksOK
  BY TypeParts
<1> USE KnownTasks DEF TasksOK, Places, Waiting, Goto, Ask, netVars, lockVars
<1>1. CASE SendMessage
  BY <1>0, <1>1 DEF SendMessage
<1>2. CASE Reconnect
  BY <1>0, <1>2 DEF Reconnect
<1>3. ASSUME NEW r \in Routers, SendRouting(r) PROVE TasksOK'
  BY <1>0, <1>3 DEF SendRouting
<1>4. ASSUME NEW t \in Tasks, RequestWrite(t) PROVE TasksOK'
  BY <1>0, <1>4 DEF RequestWrite
<1>5. ASSUME NEW t \in Tasks, WriteDevice(t) PROVE TasksOK'
  BY <1>0, <1>5 DEF WriteDevice
<1>6. ASSUME NEW t \in Tasks, ServerAnswers(t) \/ RequestTimesOut(t) \/ HandleSend(t) PROVE TasksOK'
  BY <1>0, <1>6 DEF ServerAnswers, RequestTimesOut, HandleSend
<1>7. ASSUME NEW t \in Tasks, Start(t) PROVE TasksOK'
  BY <1>0, <1>7 DEF Start, CanStart, FirstStep
<1>8. CASE ReadFrame \/ Broadcast
  BY <1>0, <1>8 DEF ReadFrame, Broadcast
<1>9. CASE StreamReceives
  <2>1. pc' \in [Tasks -> Places]
    <3>1. Head(bus) \in Items
      BY <1>0, <1>9, HeadTailProperties, LenProperties DEF StreamReceives, ChannelsOK
    <3> DEFINE item == Head(bus)
    <3>2. \/ pc' = pc
          \/ pc' = [pc EXCEPT ![Stream] = "decrypting"]
          \/ pc' = [pc EXCEPT ![Stream] = "wantWrite"]
          \/ pc' = [pc EXCEPT ![item.task] = "wantWrite"]
      BY <1>9, Zenon DEF StreamReceives
    <3> QED
      BY <1>0, <3>2
  <2> QED
    BY <1>0, <1>9, <2>1 DEF StreamReceives
<1>10. CASE StreamDecrypts \/ StreamConnected \/ HostAnswers \/ StreamGoesOn
  BY <1>0, <1>10 DEF StreamDecrypts, StreamConnected, HostAnswers, StreamGoesOn, Spawn
<1>11. ASSUME NEW s \in Calls, Resolved(s) \/ LoadSessions(s) \/ Fetched(s) \/ Encrypt(s) PROVE TasksOK'
  BY <1>0, <1>11 DEF Resolved, LoadSessions, Fetched, Encrypt
<1>12. ASSUME NEW t \in Tasks, Finish(t) PROVE TasksOK'
  BY <1>0, <1>12 DEF Finish
<1>13. ASSUME NEW t \in Tasks, NotLoggedIn(t) PROVE TasksOK'
  BY <1>0, <1>13 DEF NotLoggedIn
<1>14. CASE UNCHANGED vars
  BY <1>0, <1>14 DEF vars
<1> QED
  BY <1>1, <1>2, <1>3, <1>4, <1>5, <1>6, <1>7, <1>8, <1>9, <1>10, <1>11, <1>12, <1>13, <1>14
     DEF Next, LoopNext, StreamNext, CallNext

\* A write waits until no send_message holds the device, and a call keeps its
\* guard for as long as it builds its stanza.
LEMMA GuardStep ==
    ASSUME GuardInv, [Next]_vars, NEW s \in Calls PROVE Guarded(s)'
<1>0. TasksOK /\ Guarded(s) /\ s \in Tasks
  BY GuardParts, TypeParts, KnownTasks
<1> USE KnownTasks DEF Guarded, Builds, TasksOK, Goto, Ask, netVars, lockVars
<1>1. CASE UNCHANGED <<pc, guards>>
  BY <1>0, <1>1
<1>2. CASE SendMessage \/ Reconnect \/ ReadFrame \/ Broadcast
  BY <1>1, <1>2 DEF SendMessage, Reconnect, ReadFrame, Broadcast
<1>3. ASSUME NEW r \in Routers, SendRouting(r) PROVE Guarded(s)'
  BY <1>0, <1>3 DEF SendRouting
<1>4. ASSUME NEW t \in Tasks, RequestWrite(t) PROVE Guarded(s)'
  BY <1>0, <1>4 DEF RequestWrite
<1>5. ASSUME NEW t \in Tasks, WriteDevice(t) PROVE Guarded(s)'
  <2>1. ~Builds(s)
    BY <1>0, <1>5 DEF WriteDevice
  <2> QED
    BY <1>0, <1>5, <2>1 DEF WriteDevice
<1>6. ASSUME NEW t \in Tasks, ServerAnswers(t) \/ RequestTimesOut(t) \/ HandleSend(t) PROVE Guarded(s)'
  BY <1>1, <1>6 DEF ServerAnswers, RequestTimesOut, HandleSend
<1>7. ASSUME NEW t \in Tasks, Start(t) PROVE Guarded(s)'
  BY <1>0, <1>7 DEF Start, CanStart, FirstStep
<1>8. CASE StreamReceives
  <2> DEFINE item == Head(bus)
  <2>1. \/ pc' = pc
        \/ pc' = [pc EXCEPT ![Stream] = "decrypting"]
        \/ pc' = [pc EXCEPT ![Stream] = "wantWrite"]
        \/ pc' = [pc EXCEPT ![item.task] = "wantWrite"]
    BY <1>8, Zenon DEF StreamReceives
  <2> QED
    BY <1>0, <1>8, <2>1 DEF StreamReceives
<1>9. CASE StreamDecrypts \/ StreamConnected \/ HostAnswers \/ StreamGoesOn
  BY <1>0, <1>9, TasksAssumption DEF StreamDecrypts, StreamConnected, HostAnswers, StreamGoesOn, Spawn
<1>10. ASSUME NEW c \in Calls, Resolved(c) \/ LoadSessions(c) \/ Fetched(c) \/ Encrypt(c) PROVE Guarded(s)'
  BY <1>0, <1>10 DEF Resolved, LoadSessions, Fetched, Encrypt
<1>11. ASSUME NEW t \in Tasks, Finish(t) PROVE Guarded(s)'
  BY <1>0, <1>11 DEF Finish
<1>12. ASSUME NEW t \in Tasks, NotLoggedIn(t) PROVE Guarded(s)'
  BY <1>0, <1>12 DEF NotLoggedIn
<1>13. CASE UNCHANGED vars
  BY <1>1, <1>13 DEF vars
<1> QED
  BY <1>2, <1>3, <1>4, <1>5, <1>6, <1>7, <1>8, <1>9, <1>10, <1>11, <1>12, <1>13
     DEF Next, LoopNext, StreamNext, CallNext

\* Nobody builds a stanza while the device is written.
LEMMA NobodyOutdated == GuardInv /\ [Next]_vars => outdated' = {}
<1> SUFFICES ASSUME GuardInv, [Next]_vars PROVE outdated' = {}
  OBVIOUS
<1>0. outdated = {} /\ \A s \in Calls : Guarded(s)
  BY GuardParts
<1>1. ASSUME NEW t \in Tasks, WriteDevice(t) PROVE outdated' = {}
  BY <1>0, <1>1 DEF WriteDevice, Guarded
<1>2. CASE UNCHANGED outdated
  BY <1>0, <1>2
<1> QED
  BY <1>1, <1>2, KnownTasks
     DEF Next, LoopNext, StreamNext, CallNext, SendMessage, Reconnect, SendRouting, ServerAnswers,
         RequestTimesOut, RequestWrite, Start, NotLoggedIn, ReadFrame, Broadcast, HandleSend,
         StreamReceives, StreamDecrypts, StreamConnected, HostAnswers, StreamGoesOn, Resolved,
         LoadSessions, Fetched, Encrypt, Finish, vars, lockVars

\* The inductive invariant of the device lock, and with it the types.
THEOREM GuardInvariant == Spec => []GuardInv
<1>1. Init => GuardInv
  <2> SUFFICES ASSUME Init PROVE GuardInv
    OBVIOUS
  <2>1. ChannelsOK
    BY EmptySeq, KnownTasks DEF Init, ChannelsOK, Nothing, Item, Items
  <2>2. TasksOK
    BY KnownTasks DEF Init, TasksOK, Places
  <2>3. outdated = {} /\ \A s \in Calls : Guarded(s)
    BY KnownTasks DEF Init, Guarded, Builds
  <2> QED
    BY <2>1, <2>2, <2>3, TypeParts, GuardParts
<1>2. GuardInv /\ [Next]_vars => GuardInv'
  <2> SUFFICES ASSUME GuardInv, [Next]_vars PROVE GuardInv'
    OBVIOUS
  <2>1. TypeOK
    BY GuardParts
  <2>2. ChannelsOK' /\ TasksOK'
    BY <2>1, ChannelStep, TaskStep
  <2>3. TypeOK'
    BY <2>2 DEF TypeOK, ChannelsOK, TasksOK, Items, Places
  <2>4. (\A s \in Calls : Guarded(s)') /\ outdated' = {}
    BY GuardStep, NobodyOutdated
  <2> QED
    BY <2>3, <2>4 DEF GuardInv, BuiltUnderOneDevice, Guarded, Builds
<1> QED
  BY <1>1, <1>2, PTL DEF Spec

\* A stanza is built under one device (send_message's read guard), whatever
\* reconnects and routing updates come in between.
THEOREM OneDevice == Spec => []BuiltUnderOneDevice
<1>1. GuardInv => BuiltUnderOneDevice
  BY DEF GuardInv
<1> QED
  BY <1>1, GuardInvariant, PTL

=============================================================================
