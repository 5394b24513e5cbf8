-------------------------- MODULE ConnectionProofs --------------------------
(***************************************************************************)
(* Proofs about Connection for every set of calls, every capacity of the   *)
(* bus and of the event channel, and either setting of auto_reconnect.     *)
(***************************************************************************)
EXTENDS Connection, SequenceTheorems, TLAPS

USE ConnectionAssumption

-----------------------------------------------------------------------------
(* The bus.                                                                *)

\* try_broadcast keeps the bus within its capacity.
LEMMA TryPublishType ==
    ASSUME NEW n \in 0..BusCapacity
    PROVE  TryPublish(n) \in 0..BusCapacity
  BY DEF TryPublish

-----------------------------------------------------------------------------
(* Type correctness.                                                       *)

LEMMA TypeInit == Init => TypeOK
<1> SUFFICES ASSUME Init PROVE TypeOK
  OBVIOUS
<1>1. /\ cmds \in Seq(Calls \cup {Disconnect})
      /\ inbox \in Seq(Frames) /\ Len(inbox) <= InboxCapacity
      /\ bus \in 0..BusCapacity
  BY EmptySeq DEF Init
<1>2. waiters \subseteq IqCalls /\ call \in [Calls -> CallStates]
  BY DEF Init, CallStates
<1>3. /\ runner \in RunnerStates /\ attempt \in 0..AttemptBound
      /\ sent \in [Calls -> {"none", "ok", "err"}]
      /\ answer \in [Calls -> {"none", "result", "iqError", "notConnected"}]
      /\ wire \in [Calls -> {"unsent", "live", "answered", "lost"}]
      /\ writes \in [Calls -> Nat]
  BY DEF Init, RunnerStates
<1> QED
  BY <1>1, <1>2, <1>3 DEF Init, TypeOK

\* Leaving the read loop keeps the types (cmds aside).
LEMMA LeaveLoopType ==
    ASSUME TypeOK, NEW r \in {"ok", "err"}, LeaveLoop(r),
           cmds' \in Seq(Calls \cup {Disconnect})
    PROVE  TypeOK'
<1>1. inbox' \in Seq(Frames) /\ Len(inbox') <= InboxCapacity
  BY EmptySeq DEF LeaveLoop
<1>2. wire' \in [Calls -> {"unsent", "live", "answered", "lost"}]
  BY DEF LeaveLoop
<1> QED
  BY <1>1, <1>2 DEF TypeOK, LeaveLoop, RunnerStates, callVars, busVars

LEMMA TypeStep == TypeOK /\ [Next]_vars => TypeOK'
<1> SUFFICES ASSUME TypeOK, [Next]_vars PROVE TypeOK'
  OBVIOUS
<1> USE DEF TypeOK, runnerVars, callVars, netVars, busVars
<1>1. CASE UNCHANGED vars
  BY <1>1 DEF vars
<1>2. CASE RunnerNext
  <2>1. CASE CheckLoggedOut
    BY <2>1 DEF CheckLoggedOut, RunnerStates
  <2>2. CASE ConnectSucceeds
    <3>1. bus' \in 0..BusCapacity
      BY <2>2, TryPublishType DEF ConnectSucceeds
    <3> QED
      BY <2>2, <3>1 DEF ConnectSucceeds, RunnerStates
  <2>3. CASE ConnectFails
    <3>1. bus' \in 0..BusCapacity
      BY <2>3, TryPublishType DEF ConnectFails
    <3> QED
      BY <2>3, <3>1 DEF ConnectFails, RunnerStates, NextAttempt
  <2>4. CASE BackoffElapses
    BY <2>4 DEF BackoffElapses, RunnerStates
  <2>5. CASE ReadFrame
    <3> DEFINE f == Head(inbox)
               n == IF f.kind = "success" THEN TryPublish(bus) ELSE bus
    <3>1. f \in Frames /\ inbox' \in Seq(Frames) /\ Len(inbox') <= InboxCapacity
      BY <2>5, HeadTailProperties, LenProperties DEF ReadFrame
    <3>2. n \in 0..BusCapacity
      BY TryPublishType 
    <3>3. bus' \in 0..BusCapacity
      BY <2>5, <3>2, TryPublishType DEF ReadFrame
    <3>4. f.id \in IqCalls => f.kind \in {"result", "iqError"}
      BY <3>1 DEF Frames, Calls
    <3>5. /\ waiters' \subseteq IqCalls
          /\ answer' \in [Calls -> {"none", "result", "iqError", "notConnected"}]
      <4>1. CASE f.id \in waiters
        BY <2>5, <3>4, <4>1 DEF ReadFrame, Resolve, Calls
      <4>2. CASE f.id \notin waiters
        BY <2>5, <4>2 DEF ReadFrame, Resolve
      <4> QED
        BY <4>1, <4>2
    <3> QED
      BY <2>5, <3>1, <3>3, <3>5 DEF ReadFrame, RunnerStates
  <2>6. CASE ReadGarbage
    <3>1. bus' \in 0..BusCapacity
      BY <2>6, TryPublishType DEF ReadGarbage
    <3> QED
      BY <2>6, <3>1, HeadTailProperties, LenProperties DEF ReadGarbage
  <2>7. CASE ReadEof
    BY <2>7, LeaveLoopType DEF ReadEof
  <2>8. CASE FinishPublish
    BY <2>8, TryPublishType DEF FinishPublish, RunnerStates
  <2>9. CASE HandleSend
    BY <2>9, HeadTailProperties, LenProperties DEF HandleSend
  <2>10. CASE HandleDisconnect
    BY <2>10, LeaveLoopType, HeadTailProperties, LenProperties DEF HandleDisconnect
  <2>11. CASE CommandChannelCloses
    BY <2>11, LeaveLoopType DEF CommandChannelCloses
  <2>12. CASE KeepaliveFails
    BY <2>12, TryPublishType DEF KeepaliveFails
  <2>13. CASE DrainWaiters
    BY <2>13 DEF DrainWaiters, RunnerStates
  <2>14. CASE CloseTransport
    <3>1. TryPublish(bus) \in 0..BusCapacity
      BY TryPublishType
    <3>2. TryPublish(TryPublish(bus)) \in 0..BusCapacity
      BY <3>1, TryPublishType
    <3> QED
      BY <2>14, <3>1, <3>2 DEF CloseTransport, RunnerStates, NextAttempt
  <2> QED
    BY <1>2, <2>1, <2>2, <2>3, <2>4, <2>5, <2>6, <2>7, <2>8, <2>9, <2>10,
       <2>11, <2>12, <2>13, <2>14 DEF RunnerNext
<1>3. ASSUME NEW c \in Calls, CallNext(c) PROVE TypeOK'
  <2>1. CASE Enqueue(c)
    <3>1. cmds' \in Seq(Calls \cup {Disconnect})
      <4>1. Append(cmds, c) \in Seq(Calls \cup {Disconnect})
        BY AppendProperties, LenProperties
      <4>2. cmds' = Append(cmds, c) \/ cmds' = cmds
        BY <2>1 DEF Enqueue
      <4> QED
        BY <4>1, <4>2
    <3>2. call' \in [Calls -> CallStates]
      <4>1. \/ call' = [call EXCEPT ![c] = "notConnected"]
            \/ call' = [call EXCEPT ![c] = "sending"]
        BY <2>1 DEF Enqueue
      <4> QED
        BY <4>1 DEF CallStates, Returned
    <3>3. UNCHANGED <<runnerVars, waiters, sent, answer, netVars, busVars, handle>>
      BY <2>1 DEF Enqueue
    <3> QED
      BY <3>1, <3>2, <3>3
  <2>2. CASE SendReturns(c)
    BY <2>2 DEF SendReturns, CallStates, Returned
  <2>3. CASE SendTimesOut(c)
    BY <2>3 DEF SendTimesOut, CallStates, Returned
  <2>4. CASE AnswerReturns(c)
    BY <2>4 DEF AnswerReturns, CallStates, Returned
  <2>5. CASE AnswerTimesOut(c)
    BY <2>5 DEF AnswerTimesOut, CallStates, Returned
  <2> QED
    BY <1>3, <2>1, <2>2, <2>3, <2>4, <2>5 DEF CallNext
<1>4. ASSUME NEW c \in IqCalls, StartIq(c) PROVE TypeOK'
  BY <1>4 DEF StartIq, CallStates
<1>5. ASSUME NEW c \in IqCalls, ServerAnswers(c) PROVE TypeOK'
  <2>1. inbox' \in Seq(Frames) /\ Len(inbox') <= InboxCapacity
    BY <1>5, AppendProperties, LenProperties DEF ServerAnswers, LinkUp, Frames
  <2>2. wire' \in [Calls -> {"unsent", "live", "answered", "lost"}]
    BY <1>5 DEF ServerAnswers
  <2> QED
    BY <1>5, <2>1, <2>2 DEF ServerAnswers
<1>6. ASSUME NEW c \in NodeCalls, StartNode(c) PROVE TypeOK'
  BY <1>6 DEF StartNode, CallStates
<1>7. CASE RequestDisconnect
  BY <1>7, AppendProperties, LenProperties DEF RequestDisconnect
<1>8. CASE DropHandle
  BY <1>8 DEF DropHandle
<1>9. CASE ServerSends
  BY <1>9, AppendProperties, LenProperties DEF ServerSends, LinkUp, Frames
<1>10. CASE LinkDrops
  BY <1>10, AppendProperties, LenProperties DEF LinkDrops, LinkUp, Frames, Eof
<1>11. CASE Consume
  BY <1>11, HeadTailProperties, LenProperties DEF Consume
<1>12. CASE Unsubscribe
  <2>1. bus' \in 0..BusCapacity
    BY <1>12, EmptySeq DEF Unsubscribe
  <2> QED
    BY <1>12, <2>1 DEF Unsubscribe
<1>13. CASE Finished
  BY <1>13 DEF Finished, vars
<1> QED
  BY <1>1, <1>2, <1>3, <1>4, <1>5, <1>6, <1>7, <1>8, <1>9, <1>10, <1>11,
     <1>12, <1>13 DEF Next

\* Type correctness of the connection layer.
THEOREM TypeCorrect == Spec => []TypeOK
  BY TypeInit, TypeStep, PTL DEF Spec

-----------------------------------------------------------------------------
(* The inductive invariant, one lemma per conjunct.                        *)

LEMMA InvInit == Init => CallInv
<1> SUFFICES ASSUME Init PROVE CallInv
  OBVIOUS
<1>1. TypeOK
  BY TypeInit
<1>2. QueueInv /\ LinkInv
  BY DEF Init, QueueInv, LinkInv
<1>3. OneshotInv /\ WaiterInv
  BY DEF Init, OneshotInv, WaiterInv, Calls
<1>4. LoggedOutStops /\ ConnectedMeansReading
  BY DEF Init, LoggedOutStops, ConnectedMeansReading
<1> QED
  BY <1>1, <1>2, <1>3, <1>4 DEF CallInv

\* A step that leaves the queue alone, and the oneshot, the node and the
\* progress of every queued call, keeps QueueInv.
LEMMA QueueFrame ==
    ASSUME TypeOK, QueueInv, cmds' = cmds,
           \A i \in 1..Len(cmds) : cmds[i] \in Calls =>
               /\ sent'[cmds[i]] = sent[cmds[i]]
               /\ wire'[cmds[i]] = wire[cmds[i]]
               /\ \/ call'[cmds[i]] = call[cmds[i]]
                  \/ call'[cmds[i]] = "timedOut"
    PROVE  QueueInv'
  BY DEF QueueInv

\* So does popping the queue.
LEMMA QueuePop ==
    ASSUME TypeOK, QueueInv, cmds # << >>, cmds' = Tail(cmds), call' = call,
           \A c \in Calls : c # Head(cmds) => sent'[c] = sent[c],
           \A c \in Calls : c # Head(cmds) /\ wire[c] = "unsent" => wire'[c] = "unsent"
    PROVE  QueueInv'
<1>1. /\ Len(cmds) \in Nat /\ Head(cmds) = cmds[1]
      /\ Len(cmds') = Len(cmds) - 1
      /\ \A i \in 1..Len(cmds') : i + 1 \in 1..Len(cmds) /\ cmds'[i] = cmds[i + 1]
  BY HeadTailProperties, LenProperties DEF TypeOK
<1>2. \A i \in 1..Len(cmds') : cmds'[i] # Head(cmds)
  BY <1>1 DEF QueueInv
<1>3. ASSUME NEW i \in 1..Len(cmds'), cmds'[i] \in Calls
      PROVE  /\ sent'[cmds'[i]] = "none" /\ wire'[cmds'[i]] = "unsent"
             /\ call'[cmds'[i]] \in {"sending", "timedOut"}
  BY <1>1, <1>2, <1>3 DEF QueueInv
<1>4. ASSUME NEW i \in 1..Len(cmds'), NEW j \in 1..Len(cmds'), cmds'[i] = cmds'[j]
      PROVE  i = j
  BY <1>1, <1>4 DEF QueueInv
<1> QED
  BY <1>3, <1>4 DEF QueueInv

\* And pushing an element that is not in the queue.
LEMMA QueuePush ==
    ASSUME TypeOK, QueueInv, NEW e \in Calls \cup {Disconnect}, cmds' = Append(cmds, e),
           \A i \in 1..Len(cmds) : cmds[i] # e,
           sent' = sent, wire' = wire,
           \A c \in Calls : c # e => call'[c] = call[c],
           e \in Calls => sent[e] = "none" /\ wire[e] = "unsent" /\ call'[e] = "sending"
    PROVE  QueueInv'
<1>1. /\ Len(cmds) \in Nat /\ Len(cmds') = Len(cmds) + 1
      /\ \A i \in 1..Len(cmds) : cmds'[i] = cmds[i]
      /\ cmds'[Len(cmds) + 1] = e
  BY AppendProperties, LenProperties DEF TypeOK
<1>2. \A i \in 1..Len(cmds') : i \in 1..Len(cmds) \/ i = Len(cmds) + 1
  BY <1>1
<1>3. ASSUME NEW i \in 1..Len(cmds'), cmds'[i] \in Calls
      PROVE  /\ sent'[cmds'[i]] = "none" /\ wire'[cmds'[i]] = "unsent"
             /\ call'[cmds'[i]] \in {"sending", "timedOut"}
  <2>1. CASE i = Len(cmds) + 1
    BY <1>1, <1>3, <2>1
  <2>2. CASE i \in 1..Len(cmds)
    BY <1>1, <1>3, <2>2 DEF QueueInv
  <2> QED
    BY <1>2, <2>1, <2>2
<1>4. ASSUME NEW i \in 1..Len(cmds'), NEW j \in 1..Len(cmds'), cmds'[i] = cmds'[j]
      PROVE  i = j
  BY <1>1, <1>2, <1>4 DEF QueueInv
<1> QED
  BY <1>3, <1>4 DEF QueueInv

LEMMA QueueStep == CallInv /\ Next => QueueInv'
<1> SUFFICES ASSUME CallInv, Next PROVE QueueInv'
  OBVIOUS
<1> USE DEF CallInv, runnerVars, callVars, netVars, busVars
<1>0. ASSUME UNCHANGED <<cmds, sent, wire, call>> PROVE QueueInv'
  BY <1>0, QueueFrame
<1>1. CASE RunnerNext
  <2>1. CASE CheckLoggedOut \/ ConnectSucceeds \/ ConnectFails \/ BackoffElapses
    BY <1>0, <2>1 DEF CheckLoggedOut, ConnectSucceeds, ConnectFails, BackoffElapses
  <2>2. CASE ReadFrame \/ ReadGarbage \/ FinishPublish \/ KeepaliveFails
    BY <1>0, <2>2 DEF ReadFrame, ReadGarbage, FinishPublish, KeepaliveFails
  <2>3. CASE DrainWaiters \/ CloseTransport
    BY <1>0, <2>3 DEF DrainWaiters, CloseTransport
  <2>4. CASE ReadEof \/ CommandChannelCloses
    BY <2>4, QueueFrame DEF ReadEof, CommandChannelCloses, LeaveLoop, QueueInv
  <2>5. CASE HandleSend
    BY <2>5, QueuePop DEF HandleSend, TypeOK
  <2>6. CASE HandleDisconnect
    BY <2>6, QueuePop DEF HandleDisconnect, LeaveLoop
  <2> QED
    BY <1>1, <2>1, <2>2, <2>3, <2>4, <2>5, <2>6 DEF RunnerNext
<1>2. ASSUME NEW c \in Calls, CallNext(c) PROVE QueueInv'
  <2>1. CASE Enqueue(c)
    <3>1. CASE runner = "stopped"
      BY <2>1, <3>1, QueueFrame DEF Enqueue, QueueInv, TypeOK
    <3>2. CASE runner # "stopped"
      <4>1. \A i \in 1..Len(cmds) : cmds[i] # c
        BY <2>1 DEF Enqueue, QueueInv
      <4>2. sent[c] = "none" /\ wire[c] = "unsent"
        BY <2>1 DEF Enqueue, OneshotInv
      <4> QED
        BY <2>1, <3>2, <4>1, <4>2, QueuePush DEF Enqueue, TypeOK
    <3> QED
      BY <3>1, <3>2
  <2>2. CASE SendReturns(c)
    BY <2>2, QueueFrame DEF SendReturns, QueueInv, TypeOK
  <2>3. CASE SendTimesOut(c)
    BY <2>3, QueueFrame DEF SendTimesOut, TypeOK
  <2>4. CASE AnswerReturns(c)
    BY <2>4, QueueFrame DEF AnswerReturns, QueueInv, TypeOK
  <2>5. CASE AnswerTimesOut(c)
    BY <2>5, QueueFrame DEF AnswerTimesOut, TypeOK
  <2> QED
    BY <1>2, <2>1, <2>2, <2>3, <2>4, <2>5 DEF CallNext
<1>3. ASSUME NEW c \in IqCalls, StartIq(c) PROVE QueueInv'
  BY <1>3, QueueFrame DEF StartIq, QueueInv, TypeOK
<1>4. ASSUME NEW c \in IqCalls, ServerAnswers(c) PROVE QueueInv'
  BY <1>4, QueueFrame DEF ServerAnswers, QueueInv, TypeOK
<1>5. ASSUME NEW c \in NodeCalls, StartNode(c) PROVE QueueInv'
  BY <1>5, QueueFrame DEF StartNode, QueueInv, TypeOK
<1>6. CASE RequestDisconnect
  BY <1>6, QueuePush DEF RequestDisconnect
<1>7. CASE DropHandle \/ ServerSends \/ LinkDrops \/ Consume \/ Unsubscribe
  BY <1>0, <1>7 DEF DropHandle, ServerSends, LinkDrops, Consume, Unsubscribe
<1>8. CASE Finished
  BY <1>0, <1>8 DEF Finished, vars
<1> QED
  BY <1>1, <1>2, <1>3, <1>4, <1>5, <1>6, <1>7, <1>8 DEF Next

\* Facts about the head of the queue and of the event channel that the
\* handlers of the read loop start from.
LEMMA HeadOfQueue ==
    ASSUME CallInv, cmds # << >>, Head(cmds) # Disconnect
    PROVE  /\ Head(cmds) \in Calls /\ sent[Head(cmds)] = "none"
           /\ wire[Head(cmds)] = "unsent"
           /\ call[Head(cmds)] \in {"sending", "timedOut"}
  BY HeadTailProperties, LenProperties DEF CallInv, TypeOK, QueueInv

LEMMA HeadOfInbox ==
    ASSUME CallInv, inbox # << >>
    PROVE  /\ Head(inbox) \in Frames
           /\ Head(inbox).id \in IqCalls =>
                 /\ Head(inbox).kind \in {"result", "iqError"}
                 /\ wire[Head(inbox).id] = "answered"
           /\ Head(inbox).id \notin IqCalls => Head(inbox).id \notin waiters
<1>1. Head(inbox) \in Frames /\ Len(inbox) >= 1 /\ Len(inbox) \in Nat /\ Head(inbox) = inbox[1]
  BY HeadTailProperties, LenProperties DEF CallInv, TypeOK
<1>2. Head(inbox).id \in IqCalls => Head(inbox).kind \in {"result", "iqError"}
  BY <1>1 DEF Frames, Calls
<1>3. Head(inbox).id \in IqCalls => wire[Head(inbox).id] = "answered"
  BY <1>1 DEF CallInv, LinkInv
<1> QED
  BY <1>1, <1>2, <1>3 DEF CallInv, TypeOK

LEMMA OneshotStep == CallInv /\ Next => OneshotInv'
<1> SUFFICES ASSUME CallInv, Next PROVE OneshotInv'
  OBVIOUS
<1> USE DEF CallInv, OneshotInv, TypeOK, runnerVars, callVars, netVars, busVars
<1>0. ASSUME UNCHANGED <<waiters, call, sent, answer, wire, writes>> PROVE OneshotInv'
  BY <1>0
<1>1. CASE RunnerNext
  <2>1. CASE CheckLoggedOut \/ ConnectSucceeds \/ ConnectFails \/ BackoffElapses
    BY <1>0, <2>1 DEF CheckLoggedOut, ConnectSucceeds, ConnectFails, BackoffElapses
  <2>2. CASE ReadGarbage \/ FinishPublish \/ KeepaliveFails \/ CloseTransport
    BY <1>0, <2>2 DEF ReadGarbage, FinishPublish, KeepaliveFails, CloseTransport
  <2>3. CASE ReadFrame
    BY <2>3, HeadOfInbox DEF ReadFrame, Resolve, Calls
  <2>4. CASE ReadEof \/ CommandChannelCloses \/ HandleDisconnect
    BY <2>4 DEF ReadEof, CommandChannelCloses, HandleDisconnect, LeaveLoop
  <2>5. CASE HandleSend
    BY <2>5, HeadOfQueue DEF HandleSend
  <2>6. CASE DrainWaiters
    BY <2>6 DEF DrainWaiters
  <2> QED
    BY <1>1, <2>1, <2>2, <2>3, <2>4, <2>5, <2>6 DEF RunnerNext
<1>2. ASSUME NEW c \in Calls, CallNext(c) PROVE OneshotInv'
  <2>1. CASE Enqueue(c)
    BY <2>1 DEF Enqueue
  <2>2. CASE SendReturns(c)
    BY <2>2 DEF SendReturns
  <2>3. CASE SendTimesOut(c)
    BY <2>3 DEF SendTimesOut
  <2>4. CASE AnswerReturns(c)
    <3>1. PICK outcome \in {"ok", "error", "notConnected"} :
             call' = [call EXCEPT ![c] = outcome]
      BY <2>4 DEF AnswerReturns
    <3> QED
      BY <2>4, <3>1 DEF AnswerReturns
  <2>5. CASE AnswerTimesOut(c)
    BY <2>5 DEF AnswerTimesOut
  <2> QED
    BY <1>2, <2>1, <2>2, <2>3, <2>4, <2>5 DEF CallNext
<1>3. ASSUME NEW c \in IqCalls, StartIq(c) PROVE OneshotInv'
  BY <1>3 DEF StartIq, Calls
<1>4. ASSUME NEW c \in IqCalls, ServerAnswers(c) PROVE OneshotInv'
  BY <1>4 DEF ServerAnswers
<1>5. ASSUME NEW c \in NodeCalls, StartNode(c) PROVE OneshotInv'
  BY <1>5 DEF StartNode
<1>6. CASE RequestDisconnect \/ DropHandle \/ ServerSends \/ LinkDrops \/ Consume \/ Unsubscribe
  BY <1>0, <1>6 DEF RequestDisconnect, DropHandle, ServerSends, LinkDrops, Consume, Unsubscribe
<1>7. CASE Finished
  BY <1>0, <1>7 DEF Finished, vars
<1> QED
  BY <1>1, <1>2, <1>3, <1>4, <1>5, <1>6, <1>7 DEF Next

\* A response stays in the event channel when another frame is read or a
\* frame arrives.
LEMMA InInboxPop ==
    ASSUME TypeOK, NEW c, InInbox(c), inbox # << >>, Head(inbox).id # c, inbox' = Tail(inbox)
    PROVE  InInbox(c)'
<1>1. /\ Len(inbox) \in Nat /\ Head(inbox) = inbox[1] /\ Len(inbox') = Len(inbox) - 1
      /\ \A i \in 1..Len(inbox') : inbox'[i] = inbox[i + 1]
  BY HeadTailProperties, LenProperties DEF TypeOK
<1>2. PICK i \in 1..Len(inbox) : inbox[i].id = c
  BY DEF InInbox
<1>3. i # 1 /\ i - 1 \in 1..Len(inbox') /\ inbox'[i - 1] = inbox[i]
  BY <1>1, <1>2
<1> QED
  BY <1>2, <1>3 DEF InInbox

LEMMA InInboxPush ==
    ASSUME TypeOK, NEW c, NEW f \in Frames, inbox' = Append(inbox, f),
           InInbox(c) \/ f.id = c
    PROVE  InInbox(c)'
<1>1. /\ Len(inbox) \in Nat /\ Len(inbox') = Len(inbox) + 1
      /\ \A i \in 1..Len(inbox) : inbox'[i] = inbox[i]
      /\ inbox'[Len(inbox) + 1] = f
  BY AppendProperties, LenProperties DEF TypeOK
<1> QED
  BY <1>1 DEF InInbox

LEMMA WaiterStep == CallInv /\ Next => WaiterInv'
<1> SUFFICES ASSUME CallInv, Next PROVE WaiterInv'
  OBVIOUS
<1> USE DEF CallInv, WaiterInv, TypeOK, runnerVars, callVars, netVars, busVars
<1>0. ASSUME UNCHANGED <<waiters, call, answer, wire, inbox>>,
             runner = "draining" => runner' = "draining"
      PROVE  WaiterInv'
  BY <1>0 DEF InInbox
<1>1. CASE RunnerNext
  <2>1. CASE CheckLoggedOut \/ ConnectSucceeds \/ ConnectFails \/ BackoffElapses
    BY <1>0, <2>1 DEF CheckLoggedOut, ConnectSucceeds, ConnectFails, BackoffElapses
  <2>2. CASE FinishPublish \/ KeepaliveFails \/ CloseTransport
    BY <1>0, <2>2 DEF FinishPublish, KeepaliveFails, CloseTransport
  <2>3. CASE ReadFrame \/ ReadGarbage
    <3>1. PICK f \in Frames : f = Head(inbox) /\ (f.id \in IqCalls => f.kind \in {"result", "iqError"})
                                /\ (f.id \notin IqCalls => f.id \notin waiters)
      BY <2>3, HeadOfInbox DEF ReadFrame, ReadGarbage
    <3>2. \A c \in waiters' : c \in waiters /\ c # f.id
      BY <2>3, <3>1 DEF ReadFrame, ReadGarbage, Resolve, Frames
    <3>3. \A c \in waiters' : InInbox(c) => InInbox(c)'
      BY <2>3, <3>1, <3>2, InInboxPop DEF ReadFrame, ReadGarbage
    <3>4. \A c \in IqCalls : answer'[c] = "none" /\ c \in waiters => c \in waiters'
      BY <2>3, <3>1 DEF ReadFrame, ReadGarbage, Resolve, Calls
    <3>5. \A c \in IqCalls : answer'[c] = "none" => answer[c] = "none"
      BY <2>3, <3>1 DEF ReadFrame, ReadGarbage, Resolve, Calls
    <3>6. wire' = wire /\ call' = call /\ runner = "reading"
      BY <2>3 DEF ReadFrame, ReadGarbage
    <3> QED
      BY <3>2, <3>3, <3>4, <3>5, <3>6 DEF LinkInv
  <2>4. CASE ReadEof \/ CommandChannelCloses \/ HandleDisconnect
    BY <2>4 DEF ReadEof, CommandChannelCloses, HandleDisconnect, LeaveLoop, Calls
  <2>5. CASE HandleSend
    BY <2>5, HeadOfQueue DEF HandleSend, Calls, InInbox
  <2>6. CASE DrainWaiters
    BY <2>6 DEF DrainWaiters, Calls
  <2> QED
    BY <1>1, <2>1, <2>2, <2>3, <2>4, <2>5, <2>6 DEF RunnerNext
<1>2. ASSUME NEW c \in Calls, CallNext(c) PROVE WaiterInv'
  <2>1. CASE Enqueue(c)
    BY <2>1 DEF Enqueue, InInbox, Calls
  <2>2. CASE SendReturns(c)
    BY <2>2 DEF SendReturns, InInbox, Calls
  <2>3. CASE SendTimesOut(c)
    BY <2>3 DEF SendTimesOut, InInbox, Calls
  <2>4. CASE AnswerReturns(c)
    <3>1. PICK outcome \in {"ok", "error", "notConnected"} :
             call' = [call EXCEPT ![c] = outcome]
      BY <2>4 DEF AnswerReturns
    <3> QED
      BY <2>4, <3>1 DEF AnswerReturns, InInbox, Calls
  <2>5. CASE AnswerTimesOut(c)
    BY <2>5 DEF AnswerTimesOut, InInbox, Calls
  <2> QED
    BY <1>2, <2>1, <2>2, <2>3, <2>4, <2>5 DEF CallNext
<1>3. ASSUME NEW c \in IqCalls, StartIq(c) PROVE WaiterInv'
  BY <1>3 DEF StartIq, Calls, InInbox, OneshotInv
<1>4. ASSUME NEW c \in IqCalls, ServerAnswers(c) PROVE WaiterInv'
  <2>1. PICK f \in Frames : f.id = c /\ inbox' = Append(inbox, f)
    BY <1>4 DEF ServerAnswers, Frames
  <2>2. \A d \in waiters : InInbox(d) \/ d = c => InInbox(d)'
    BY <2>1, InInboxPush
  <2> QED
    BY <1>4, <2>2 DEF ServerAnswers, Calls
<1>5. ASSUME NEW c \in NodeCalls, StartNode(c) PROVE WaiterInv'
  BY <1>5 DEF StartNode, Calls, InInbox
<1>6. CASE RequestDisconnect \/ DropHandle \/ Consume \/ Unsubscribe
  BY <1>0, <1>6 DEF RequestDisconnect, DropHandle, Consume, Unsubscribe
<1>7. CASE ServerSends \/ LinkDrops
  <2>1. PICK f \in Frames : inbox' = Append(inbox, f)
    BY <1>7 DEF ServerSends, LinkDrops, Eof, Frames
  <2>2. \A d \in waiters : InInbox(d) => InInbox(d)'
    BY <2>1, InInboxPush
  <2> QED
    BY <1>7, <2>2 DEF ServerSends, LinkDrops
<1>8. CASE Finished
  BY <1>0, <1>8 DEF Finished, vars
<1> QED
  BY <1>1, <1>2, <1>3, <1>4, <1>5, <1>6, <1>7, <1>8 DEF Next

LEMMA LinkStep == CallInv /\ Next => LinkInv'
<1> SUFFICES ASSUME CallInv, Next PROVE LinkInv'
  OBVIOUS
<1> USE DEF CallInv, LinkInv, TypeOK, runnerVars, callVars, netVars, busVars
<1>0. ASSUME UNCHANGED <<wire, inbox>>,
             runner \in {"reading", "publishing"} => runner' \in {"reading", "publishing"}
      PROVE  LinkInv'
  BY <1>0
<1>1. CASE RunnerNext
  <2>1. CASE CheckLoggedOut \/ ConnectSucceeds \/ ConnectFails \/ BackoffElapses
    BY <1>0, <2>1 DEF CheckLoggedOut, ConnectSucceeds, ConnectFails, BackoffElapses
  <2>2. CASE FinishPublish \/ KeepaliveFails \/ DrainWaiters \/ CloseTransport
    BY <1>0, <2>2 DEF FinishPublish, KeepaliveFails, DrainWaiters, CloseTransport, Idle
  <2>3. CASE ReadFrame \/ ReadGarbage
    <3>1. /\ wire' = wire /\ inbox # << >> /\ inbox' = Tail(inbox)
          /\ runner' \in {"reading", "publishing"}
      BY <2>3 DEF ReadFrame, ReadGarbage
    <3>2. \A i \in 1..Len(inbox') : i + 1 \in 1..Len(inbox) /\ inbox'[i] = inbox[i + 1]
      BY <3>1, HeadTailProperties, LenProperties
    <3> QED
      BY <3>1, <3>2
  <2>4. CASE ReadEof \/ CommandChannelCloses \/ HandleDisconnect
    <3>1. /\ inbox' = << >>
          /\ \A c \in Calls : wire'[c] \in {"unsent", "lost"}
      BY <2>4 DEF ReadEof, CommandChannelCloses, HandleDisconnect, LeaveLoop
    <3>2. 1..Len(inbox') = {}
      BY <3>1, EmptySeq
    <3> QED
      BY <3>1, <3>2
  <2>5. CASE HandleSend
    <3>1. inbox = << >> /\ inbox' = << >> /\ runner = "reading" /\ runner' = "reading"
      BY <2>5 DEF HandleSend, Idle
    <3> QED
      BY <3>1, EmptySeq
  <2> QED
    BY <1>1, <2>1, <2>2, <2>3, <2>4, <2>5 DEF RunnerNext
<1>2. ASSUME NEW c \in Calls, CallNext(c) PROVE LinkInv'
  BY <1>0, <1>2 DEF CallNext, Enqueue, SendReturns, SendTimesOut, AnswerReturns, AnswerTimesOut
<1>3. ASSUME NEW c \in IqCalls, ServerAnswers(c) PROVE LinkInv'
  <2>1. PICK f \in Frames : f.id = c /\ inbox' = Append(inbox, f)
    BY <1>3 DEF ServerAnswers, Frames
  <2>2. /\ runner' \in {"reading", "publishing"}
        /\ wire' = [wire EXCEPT ![c] = "answered"] /\ c \in Calls
    BY <1>3 DEF ServerAnswers, LinkUp, Calls
  <2>3. \A i \in 1..Len(inbox') : (i \in 1..Len(inbox) /\ inbox'[i] = inbox[i]) \/ inbox'[i] = f
    BY <2>1, AppendProperties, LenProperties
  <2> QED
    BY <2>1, <2>2, <2>3 DEF Calls
<1>4. CASE ServerSends \/ LinkDrops
  <2>1. PICK f \in Frames : f.id = NoCall /\ inbox' = Append(inbox, f)
    BY <1>4 DEF ServerSends, LinkDrops, Eof, Frames
  <2>2. runner' \in {"reading", "publishing"} /\ wire' = wire
    BY <1>4 DEF ServerSends, LinkDrops, LinkUp
  <2>3. \A i \in 1..Len(inbox') : (i \in 1..Len(inbox) /\ inbox'[i] = inbox[i]) \/ inbox'[i] = f
    BY <2>1, AppendProperties, LenProperties
  <2> QED
    BY <2>1, <2>2, <2>3 DEF Calls
<1>5. ASSUME NEW c \in IqCalls, StartIq(c) PROVE LinkInv'
  BY <1>0, <1>5 DEF StartIq
<1>6. ASSUME NEW c \in NodeCalls, StartNode(c) PROVE LinkInv'
  BY <1>0, <1>6 DEF StartNode
<1>7. CASE RequestDisconnect \/ DropHandle \/ Consume \/ Unsubscribe
  BY <1>0, <1>7 DEF RequestDisconnect, DropHandle, Consume, Unsubscribe
<1>8. CASE Finished
  BY <1>0, <1>8 DEF Finished, vars
<1> QED
  BY <1>1, <1>2, <1>3, <1>4, <1>5, <1>6, <1>7, <1>8 DEF Next

LEMMA RunnerStep == CallInv /\ Next => LoggedOutStops' /\ ConnectedMeansReading'
<1> SUFFICES ASSUME CallInv, Next PROVE LoggedOutStops' /\ ConnectedMeansReading'
  OBVIOUS
<1> USE DEF CallInv, LoggedOutStops, ConnectedMeansReading, TypeOK, runnerVars
<1>0. ASSUME UNCHANGED runnerVars PROVE LoggedOutStops' /\ ConnectedMeansReading'
  BY <1>0
<1>1. CASE RunnerNext
  <2>1. CASE CheckLoggedOut \/ ConnectSucceeds \/ ConnectFails \/ BackoffElapses
    BY <2>1 DEF CheckLoggedOut, ConnectSucceeds, ConnectFails, BackoffElapses
  <2>2. CASE ReadFrame \/ FinishPublish
    BY <2>2 DEF ReadFrame, FinishPublish
  <2>3. CASE ReadGarbage \/ KeepaliveFails \/ HandleSend
    BY <1>0, <2>3 DEF ReadGarbage, KeepaliveFails, HandleSend
  <2>4. CASE ReadEof \/ CommandChannelCloses \/ HandleDisconnect
    BY <2>4 DEF ReadEof, CommandChannelCloses, HandleDisconnect, LeaveLoop, Idle
  <2>5. CASE DrainWaiters
    BY <2>5 DEF DrainWaiters
  <2>6. CASE CloseTransport
    BY <2>6 DEF CloseTransport, GivesUp
  <2> QED
    BY <1>1, <2>1, <2>2, <2>3, <2>4, <2>5, <2>6 DEF RunnerNext
<1>2. ASSUME NEW c \in Calls, CallNext(c) PROVE UNCHANGED runnerVars
  BY <1>2 DEF CallNext, Enqueue, SendReturns, SendTimesOut, AnswerReturns, AnswerTimesOut
<1>3. ASSUME NEW c \in IqCalls, StartIq(c) \/ ServerAnswers(c) PROVE UNCHANGED runnerVars
  BY <1>3 DEF StartIq, ServerAnswers
<1>4. ASSUME NEW c \in NodeCalls, StartNode(c) PROVE UNCHANGED runnerVars
  BY <1>4 DEF StartNode
<1>5. CASE RequestDisconnect \/ DropHandle \/ ServerSends \/ LinkDrops \/ Consume \/ Unsubscribe
  BY <1>0, <1>5 DEF RequestDisconnect, DropHandle, ServerSends, LinkDrops, Consume, Unsubscribe
<1>6. CASE Finished
  BY <1>0, <1>6 DEF Finished, vars
<1> QED
  BY <1>0, <1>1, <1>2, <1>3, <1>4, <1>5, <1>6 DEF Next

\* The inductive step.
LEMMA InvStep == CallInv /\ [Next]_vars => CallInv'
<1>1. CallInv /\ Next => CallInv'
  BY TypeStep, QueueStep, OneshotStep, WaiterStep, LinkStep, RunnerStep DEF CallInv
<1>2. CallInv /\ UNCHANGED vars => CallInv'
  BY DEF CallInv, TypeOK, QueueInv, OneshotInv, WaiterInv, LinkInv, LoggedOutStops,
         ConnectedMeansReading, InInbox, vars, runnerVars, callVars, netVars, busVars
<1> QED
  BY <1>1, <1>2

\* What happens to a call, its queued command, its waiter and its node is
\* tied together in every reachable state.
THEOREM CallInvariant == Spec => []CallInv
  BY InvInit, InvStep, PTL DEF Spec

LEMMA InvImplies == CallInv => NoStrandedCall
<1> SUFFICES ASSUME CallInv, NEW c \in IqCalls, call[c] = "awaiting", answer[c] = "none"
             PROVE  /\ c \in waiters
                    /\ \/ wire[c] = "live"
                       \/ wire[c] = "answered" /\ InInbox(c)
                       \/ wire[c] = "lost" /\ runner = "draining"
  BY DEF NoStrandedCall
<1>1. c \in waiters
  BY DEF CallInv, WaiterInv
<1>2. wire[c] \in {"live", "answered", "lost"}
  BY DEF CallInv, TypeOK, OneshotInv, Calls
<1> QED
  BY <1>1, <1>2 DEF CallInv, WaiterInv

\* No send_iq call ever waits for a response that cannot come.
THEOREM NoStranded == Spec => []NoStrandedCall
  BY CallInvariant, InvImplies, PTL

\* After <failure>, no reconnect.
THEOREM LoggedOut == Spec => []LoggedOutStops
<1>1. CallInv => LoggedOutStops
  BY DEF CallInv
<1> QED
  BY <1>1, CallInvariant, PTL

-----------------------------------------------------------------------------
(* The refinement: every step of the connection layer is a step of the     *)
(* request/reply promise, or changes nothing a caller is promised.         *)

LEMMA StatusTable ==
    /\ StatusOf("idle") = "idle"
    /\ StatusOf("enqueuing") = "pending" /\ StatusOf("sending") = "pending"
    /\ StatusOf("awaiting") = "pending"
    /\ StatusOf("ok") = "ok" /\ StatusOf("error") = "refused"
    /\ StatusOf("notConnected") = "failed" /\ StatusOf("sendFailed") = "failed"
    /\ StatusOf("timedOut") = "failed"
  BY DEF StatusOf

\* When one call moves, only its status changes.
LEMMA StatusUpdate ==
    ASSUME TypeOK, NEW c \in Calls, NEW s \in CallStates, call' = [call EXCEPT ![c] = s]
    PROVE  statusBar' = [statusBar EXCEPT ![c] = StatusOf(s)]
  BY DEF TypeOK, statusBar

LEMMA PromiseInit == Init => Promise!ReqInit
  BY StatusTable DEF Init, Promise!ReqInit, statusBar

LEMMA PromiseStep == CallInv /\ [Next]_vars => [Promise!ReqNext]_(Promise!reqVars)
<1> SUFFICES ASSUME CallInv, [Next]_vars
             PROVE  Promise!ReqNext \/ (statusBar' = statusBar /\ writes' = writes)
  BY DEF Promise!reqVars
<1> USE DEF runnerVars, callVars, netVars, busVars
<1>0. ASSUME call' = call, writes' = writes
      PROVE  statusBar' = statusBar /\ writes' = writes
  BY <1>0 DEF statusBar
<1>1. CASE UNCHANGED vars
  BY <1>0, <1>1 DEF vars
<1>2. CASE RunnerNext
  <2>1. CASE CheckLoggedOut \/ ConnectSucceeds \/ ConnectFails \/ BackoffElapses
    BY <1>0, <2>1 DEF CheckLoggedOut, ConnectSucceeds, ConnectFails, BackoffElapses
  <2>2. CASE ReadFrame \/ ReadGarbage \/ FinishPublish \/ KeepaliveFails \/ DrainWaiters \/ CloseTransport
    BY <1>0, <2>2 DEF ReadFrame, ReadGarbage, FinishPublish, KeepaliveFails, DrainWaiters, CloseTransport
  <2>3. CASE ReadEof \/ CommandChannelCloses \/ HandleDisconnect
    BY <1>0, <2>3 DEF ReadEof, CommandChannelCloses, HandleDisconnect, LeaveLoop
  <2>4. CASE HandleSend
    <3> DEFINE c == Head(cmds)
    <3>1. c \in Calls /\ wire[c] = "unsent" /\ call[c] \in {"sending", "timedOut"}
      BY <2>4, HeadOfQueue DEF HandleSend
    <3>2. PICK reached \in {"unsent", "live"} :
             writes' = IF reached = "live" THEN [writes EXCEPT ![c] = @ + 1] ELSE writes
      BY <2>4 DEF HandleSend
    <3>3. call' = call /\ statusBar' = statusBar
      BY <2>4 DEF HandleSend, statusBar
    <3>4. statusBar[c] \in {"pending", "failed"} /\ writes[c] = 0
      BY <3>1, StatusTable DEF statusBar, CallInv, OneshotInv
    <3>5. CASE reached = "unsent"
      BY <3>2, <3>3, <3>5
    <3>6. CASE reached = "live"
      <4>1. writes' = [writes EXCEPT ![c] = 1]
        BY <3>2, <3>4, <3>6
      <4>2. Promise!Execute(c)
        BY <3>3, <3>4, <4>1 DEF Promise!Execute
      <4> QED
        BY <3>1, <4>2 DEF Promise!ReqNext
    <3> QED
      BY <3>2, <3>5, <3>6
  <2> QED
    BY <1>2, <2>1, <2>2, <2>3, <2>4 DEF RunnerNext
<1>3. ASSUME NEW c \in Calls, NEW s \in CallStates, writes' = writes,
             call' = [call EXCEPT ![c] = s]
      PROVE  /\ writes' = writes
             /\ statusBar' = [statusBar EXCEPT ![c] = StatusOf(s)]
             /\ statusBar[c] = StatusOf(call[c])
             /\ wire[c] # "unsent" => writes[c] = 1
  BY <1>3, StatusUpdate DEF CallInv, OneshotInv, statusBar
<1>4. ASSUME NEW c \in Calls, StatusOf(call[c]) = "pending", writes' = writes,
             NEW s \in {"notConnected", "sendFailed", "timedOut"}, call' = [call EXCEPT ![c] = s]
      PROVE  Promise!ReqNext
  <2>1. s \in CallStates /\ StatusOf(s) = "failed"
    BY <1>4, StatusTable DEF CallStates, Returned
  <2>2. /\ writes' = writes /\ statusBar[c] = "pending"
        /\ statusBar' = [statusBar EXCEPT ![c] = "failed"]
    BY <1>3, <1>4, <2>1
  <2>3. Promise!Fail(c)
    BY <2>2 DEF Promise!Fail
  <2> QED
    BY <2>3 DEF Promise!ReqNext
<1>5. ASSUME NEW c \in Calls, StatusOf(call[c]) = "pending", wire[c] # "unsent", writes' = writes,
             NEW s \in {"ok", "error"}, call' = [call EXCEPT ![c] = s]
      PROVE  Promise!ReqNext
  <2>1. s \in CallStates /\ StatusOf(s) \in {"ok", "refused"}
    BY <1>5, StatusTable DEF CallStates, Returned
  <2>2. /\ writes' = writes /\ statusBar[c] = "pending" /\ writes[c] = 1
        /\ statusBar' = [statusBar EXCEPT ![c] = StatusOf(s)]
    BY <1>3, <1>5, <2>1
  <2>3. Promise!Return(c)
    BY <2>1, <2>2 DEF Promise!Return
  <2> QED
    BY <2>3 DEF Promise!ReqNext
<1>6. ASSUME NEW c \in Calls, StatusOf(call[c]) = "pending", writes' = writes,
             NEW s \in {"sending", "awaiting"}, call' = [call EXCEPT ![c] = s]
      PROVE  statusBar' = statusBar /\ writes' = writes
  <2>1. s \in CallStates /\ StatusOf(s) = "pending"
    BY <1>6, StatusTable DEF CallStates
  <2>2. /\ writes' = writes /\ statusBar[c] = "pending"
        /\ statusBar' = [statusBar EXCEPT ![c] = "pending"]
    BY <1>3, <1>6, <2>1
  <2>3. statusBar = [statusBar EXCEPT ![c] = statusBar[c]]
    BY DEF statusBar
  <2> QED
    BY <2>2, <2>3
<1>7. ASSUME NEW c \in Calls, CallNext(c)
      PROVE  Promise!ReqNext \/ (statusBar' = statusBar /\ writes' = writes)
  <2>1. CASE Enqueue(c)
    BY <1>4, <1>6, <2>1, StatusTable DEF Enqueue
  <2>2. CASE SendReturns(c)
    <3>1. sent[c] = "ok" => wire[c] # "unsent"
      BY DEF CallInv, OneshotInv
    <3>2. sent[c] \in {"ok", "err"}
      BY <2>2 DEF SendReturns, CallInv, TypeOK
    <3> QED
      BY <1>4, <1>5, <1>6, <2>2, <3>1, <3>2, StatusTable DEF SendReturns
  <2>3. CASE SendTimesOut(c)
    BY <1>4, <2>3, StatusTable DEF SendTimesOut
  <2>4. CASE AnswerReturns(c)
    <3>1. answer[c] \in {"result", "iqError", "notConnected"}
      BY <2>4 DEF AnswerReturns, CallInv, TypeOK
    <3>2. answer[c] \in {"result", "iqError"} => wire[c] # "unsent"
      BY DEF CallInv, OneshotInv
    <3>3. PICK outcome \in {"ok", "error", "notConnected"} :
             /\ call' = [call EXCEPT ![c] = outcome]
             /\ outcome \in {"ok", "error"} => answer[c] \in {"result", "iqError"}
      BY <2>4, <3>1 DEF AnswerReturns
    <3>4. writes' = writes /\ StatusOf(call[c]) = "pending"
      BY <2>4, StatusTable DEF AnswerReturns
    <3> QED
      BY <1>4, <1>5, <3>2, <3>3, <3>4
  <2>5. CASE AnswerTimesOut(c)
    BY <1>4, <2>5, StatusTable DEF AnswerTimesOut
  <2> QED
    BY <1>7, <2>1, <2>2, <2>3, <2>4, <2>5 DEF CallNext
<1>8. ASSUME NEW c \in Calls, StartIq(c) \/ StartNode(c) PROVE Promise!ReqNext
  <2>1. Promise!Invoke(c)
    BY <1>3, <1>8, StatusTable DEF StartIq, StartNode, Promise!Invoke, CallStates
  <2> QED
    BY <2>1 DEF Promise!ReqNext
<1>9. ASSUME NEW c \in IqCalls, ServerAnswers(c)
      PROVE  statusBar' = statusBar /\ writes' = writes
  BY <1>0, <1>9 DEF ServerAnswers
<1>10. CASE RequestDisconnect \/ DropHandle \/ ServerSends \/ LinkDrops \/ Consume \/ Unsubscribe
  BY <1>0, <1>10 DEF RequestDisconnect, DropHandle, ServerSends, LinkDrops, Consume, Unsubscribe
<1>11. CASE Finished
  BY <1>0, <1>11 DEF Finished, vars
<1> QED
  BY <1>1, <1>2, <1>7, <1>8, <1>9, <1>10, <1>11 DEF Next, Calls

\* send_iq and send_node keep the request/reply promise.
THEOREM Implements == Spec => ImplementsPromise
  BY PromiseInit, PromiseStep, CallInvariant, PTL DEF Spec, ImplementsPromise, Promise!ReqSpec

=============================================================================
