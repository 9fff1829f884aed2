------------------------- MODULE InprocessPairProofs -------------------------
(***************************************************************************)
(* Proofs about InprocessPair.                                             *)
(***************************************************************************)
EXTENDS InprocessPair, SequenceTheorems, TLAPS

-----------------------------------------------------------------------------
(* The two endpoints.                                                      *)

\* Each endpoint has one peer, another endpoint, whose peer it is.
LEMMA PeerIsOther ==
  \A e \in Endpoints : Peer(e) \in Endpoints /\ Peer(e) # e /\ Peer(Peer(e)) = e
BY RolesDiffer DEF Endpoints, Peer

-----------------------------------------------------------------------------
(* Queues.                                                                 *)

\* size() > 0 says that a queue is not empty.
LEMMA LenIsPositive ==
  ASSUME NEW S, NEW s \in Seq(S)
  PROVE  Len(s) > 0 <=> s # <<>>
BY EmptySeq, LenProperties

\* A queue that has been pushed to is not empty.
LEMMA AppendIsNotEmpty ==
  ASSUME NEW S, NEW s \in Seq(S), NEW x \in S
  PROVE  Append(s, x) # <<>>
BY AppendProperties

-----------------------------------------------------------------------------
(* Type correctness.                                                       *)

\* A call of SendMessage preserves the types, whoever makes it.
LEMMA SendMessageType ==
  ASSUME TypeOK, NEW e \in Endpoints, NEW t \in Types, SendMessage(e, t),
         UNCHANGED <<inbox, running, appPC, handled, channel>>,
         recvPC' \in [Endpoints -> RecvPCs]
  PROVE  TypeOK'
<1> DEFINE m == [from |-> e, seq |-> Len(sent[e]) + 1, type |-> t]
<1>1. m \in MessageFrom(e) /\ m \in Message
  BY DEF TypeOK, MessageFrom, Message
<1>2. outbox' = [outbox EXCEPT ![e] = Append(@, m)]
  BY DEF SendMessage
<1>3. sent' = [sent EXCEPT ![e] = Append(@, m)]
  BY DEF SendMessage
<1>4. sendPC' \in [Endpoints -> SendPCs]
  BY DEF SendMessage, NotifyAll, TypeOK, SendPCs
<1> HIDE DEF m
<1>5. outbox' \in [Endpoints -> Seq(Message)] /\ sent' \in [Endpoints -> Seq(Message)]
  BY <1>1, <1>2, <1>3 DEF TypeOK
<1>6. \A f \in Endpoints :
        outbox'[f] \in Seq(MessageFrom(f)) /\ sent'[f] \in Seq(MessageFrom(f))
  BY <1>1, <1>2, <1>3 DEF TypeOK
<1> QED
  BY <1>4, <1>5, <1>6 DEF TypeOK

\* Every step preserves the types.
LEMMA TypeStep == TypeOK /\ [Next]_vars => TypeOK'
<1> SUFFICES ASSUME TypeOK, [Next]_vars PROVE TypeOK'
  OBVIOUS
<1>1. CASE UNCHANGED vars
  BY <1>1 DEF TypeOK, vars
<1>2. ASSUME NEW e \in Endpoints, CoreStep(e), UNCHANGED channel PROVE TypeOK'
  <2>1. CASE AppSend(e)
    BY <1>2, <2>1, SendMessageType DEF AppSend, TypeOK
  <2>2. CASE SendThread(e)
    BY <1>2, <2>2 DEF SendThread, SendLoopTest, SendAcquire, SendBlock, SendTest,
         SendMoves, UnchangedBySendLoop, TypeOK, SendPCs
  <2>3. CASE SpuriousWakeup(e)
    BY <1>2, <2>3 DEF SpuriousWakeup, SendMoves, UnchangedBySendLoop, TypeOK, SendPCs
  <2>4. CASE RecvLoopTest(e)
    BY <1>2, <2>4 DEF RecvLoopTest, RecvMoves, TypeOK, RecvPCs
  <2>5. CASE Distribute(e)
    <3> DEFINE m == Head(inbox[e])
    <3>1. inbox[e] # <<>>
      BY <2>5 DEF Distribute
    <3>2. /\ m \in Message /\ m \in MessageFrom(Peer(e))
          /\ Tail(inbox[e]) \in Seq(Message)
          /\ Tail(inbox[e]) \in Seq(MessageFrom(Peer(e)))
      BY <3>1 DEF TypeOK
    <3>3. /\ inbox' = [inbox EXCEPT ![e] = Tail(inbox[e])]
          /\ handled' = [handled EXCEPT ![e] = Append(handled[e], m)]
          /\ recvPC' \in [Endpoints -> RecvPCs]
          /\ UNCHANGED <<outbox, running, sendPC, appPC, sent, channel>>
      BY <1>2, <2>5 DEF Distribute, RecvMoves, TypeOK, RecvPCs
    <3> HIDE DEF m
    <3>4. inbox' \in [Endpoints -> Seq(Message)] /\ handled' \in [Endpoints -> Seq(Message)]
      BY <3>2, <3>3 DEF TypeOK
    <3>5. \A f \in Endpoints :
            /\ inbox'[f] \in Seq(MessageFrom(Peer(f)))
            /\ handled'[f] \in Seq(MessageFrom(Peer(f)))
      BY <3>2, <3>3 DEF TypeOK
    <3> QED
      BY <3>3, <3>4, <3>5 DEF TypeOK
  <2>6. CASE DistributeEnd(e)
    BY <1>2, <2>6 DEF DistributeEnd, RecvMoves, TypeOK, RecvPCs
  <2>7. CASE Reply(e)
    <3>1. recvPC' \in [Endpoints -> RecvPCs]
      BY <2>7 DEF Reply, RecvMoves, TypeOK, RecvPCs
    <3> QED
      BY <1>2, <2>7, <3>1, SendMessageType DEF Reply
  <2>8. CASE StopRunning(e)
    BY <1>2, <2>8 DEF StopRunning, AppMoves, TypeOK, AppPCs
  <2>9. CASE Terminate(e)
    BY <1>2, <2>9 DEF Terminate, StopNotify, JoinAndDelete, NotifyAll, AppMoves,
         TypeOK, AppPCs, SendPCs
  <2> QED
    BY <1>2, <2>1, <2>2, <2>3, <2>4, <2>5, <2>6, <2>7, <2>8, <2>9
       DEF CoreStep, RecvThread
<1>3. ASSUME NEW e \in Endpoints, SendMessages(e) PROVE TypeOK'
  <2>1. CASE outbox[e] # <<>>
    <3>1. /\ channel' = [channel EXCEPT ![Peer(e)] = outbox[e]]
          /\ outbox' = [outbox EXCEPT ![e] = channel[Peer(e)]]
          /\ sendPC' \in [Endpoints -> SendPCs]
          /\ UNCHANGED <<inbox, running, recvPC, appPC, sent, handled>>
      BY <1>3, <2>1 DEF SendMessages, SendSwap, SendQueueOf, SendMoves,
           UnchangedBySendLoop, TypeOK, SendPCs
    <3>2. channel' \in [Endpoints -> Seq(Message)] /\ outbox' \in [Endpoints -> Seq(Message)]
      BY <3>1, PeerIsOther DEF TypeOK
    <3>3. \A f \in Endpoints :
            /\ outbox'[f] \in Seq(MessageFrom(f))
            /\ channel'[f] \in Seq(MessageFrom(Peer(f)))
      BY <3>1, PeerIsOther DEF TypeOK
    <3> QED
      BY <3>1, <3>2, <3>3 DEF TypeOK
  <2>2. CASE outbox[e] = <<>>
    BY <1>3, <2>2 DEF SendMessages, SendMoves, UnchangedBySendLoop, TypeOK, SendPCs
  <2> QED
    BY <2>1, <2>2
<1>4. ASSUME NEW e \in Endpoints, ReceiveMessages(e) PROVE TypeOK'
  BY <1>4 DEF ReceiveMessages, RecvMoves, TypeOK, RecvPCs
<1> QED
  BY <1>1, <1>2, <1>3, <1>4 DEF Next, EndpointStep

\* In every behaviour the variables keep their types; in particular the
\* swaps of the two threads never carry a message into a queue of the other
\* direction.
THEOREM TypeCorrect == Spec => []TypeOK
<1>1. PairInit => TypeOK
  BY DEF PairInit, Init, TypeOK, SendPCs, RecvPCs, AppPCs
<1> QED
  BY <1>1, TypeStep, PTL DEF Spec

-----------------------------------------------------------------------------
(* The hand-over of the queues between the threads and the medium.         *)

\* What relates the position of a thread to the queue it works on.
ControlInv ==
  SleepsOnlyWhenEmpty /\ SendsOnlyBatches /\ ReadyHasWork /\ InboxDrained

\* Every step preserves the relation.
LEMMA ControlStep == TypeOK /\ ControlInv /\ [Next]_vars => ControlInv'
<1> SUFFICES ASSUME TypeOK, ControlInv, [Next]_vars PROVE ControlInv'
  OBVIOUS
<1> USE DEF ControlInv, SleepsOnlyWhenEmpty, SendsOnlyBatches, ReadyHasWork, InboxDrained
<1>1. CASE UNCHANGED vars
  BY <1>1 DEF vars
<1>2. ASSUME NEW e \in Endpoints, CoreStep(e), UNCHANGED channel PROVE ControlInv'
  <2>1. ASSUME NEW t \in Types, SendMessage(e, t), inbox' = inbox, running' = running
        PROVE SleepsOnlyWhenEmpty' /\ SendsOnlyBatches' /\ ReadyHasWork'
    <3> DEFINE m == [from |-> e, seq |-> Len(sent[e]) + 1, type |-> t]
    <3>1. outbox' = [outbox EXCEPT ![e] = Append(@, m)]
      BY <2>1 DEF SendMessage
    <3>2. m \in Message
      BY DEF Message, TypeOK
    <3> HIDE DEF m
    <3>3. Append(outbox[e], m) # <<>>
      BY <3>2, AppendIsNotEmpty DEF TypeOK
    <3>4. sendPC'[e] \notin {"blocking", "waiting"} /\ ~HoldsSendLock(e)
      BY <2>1 DEF SendMessage, NotifyAll, HoldsSendLock, TypeOK
    <3>5. \A f \in Endpoints : f # e => sendPC'[f] = sendPC[f] /\ outbox'[f] = outbox[f]
      BY <2>1, <3>1 DEF SendMessage, TypeOK
    <3>6. outbox'[e] # <<>>
      BY <3>1, <3>3 DEF TypeOK
    <3> QED
      BY <2>1, <3>4, <3>5, <3>6
  <2>2. CASE AppSend(e)
    BY <1>2, <2>1, <2>2 DEF AppSend
  <2>3. CASE SendThread(e)
    <3>1. WaitPredicate(e) <=> outbox[e] # <<>> \/ ~running[e]
      BY LenIsPositive DEF WaitPredicate, TypeOK
    <3> QED
      BY <1>2, <2>3, <3>1 DEF SendThread, SendLoopTest, SendAcquire, SendBlock,
           SendTest, SendMoves, UnchangedBySendLoop, TypeOK
  <2>4. CASE SpuriousWakeup(e)
    BY <1>2, <2>4 DEF SpuriousWakeup, SendMoves, UnchangedBySendLoop, TypeOK
  <2>5. CASE RecvThread(e)
    BY <1>2, <2>5 DEF RecvThread, RecvLoopTest, Distribute, DistributeEnd, RecvMoves, TypeOK
  <2>6. CASE Reply(e)
    <3>1. InboxDrained'
      BY <2>6 DEF Reply, RecvMoves, TypeOK
    <3> QED
      BY <2>1, <2>6, <3>1 DEF Reply
  <2>7. CASE StopRunning(e)
    BY <1>2, <2>7 DEF StopRunning, AppMoves, TypeOK
  <2>8. CASE Terminate(e)
    BY <1>2, <2>8 DEF Terminate, StopNotify, JoinAndDelete, NotifyAll, AppMoves, TypeOK
  <2> QED
    BY <1>2, <2>2, <2>3, <2>4, <2>5, <2>6, <2>7, <2>8 DEF CoreStep
<1>3. ASSUME NEW e \in Endpoints, SendMessages(e) PROVE ControlInv'
  BY <1>3 DEF SendMessages, SendSwap, SendMoves, UnchangedBySendLoop, TypeOK
<1>4. ASSUME NEW e \in Endpoints, ReceiveMessages(e) PROVE ControlInv'
  BY <1>4 DEF ReceiveMessages, RecvMoves, TypeOK
<1> QED
  BY <1>1, <1>2, <1>3, <1>4 DEF Next, EndpointStep

\* The relation holds in every reachable state.
LEMMA ControlInvariant == Spec => []ControlInv
<1>1. PairInit => ControlInv
  BY DEF PairInit, Init, ControlInv, SleepsOnlyWhenEmpty, SendsOnlyBatches,
       ReadyHasWork, InboxDrained
<1> QED
  BY <1>1, ControlStep, TypeCorrect, PTL DEF Spec

\* A send thread blocks, and stays blocked, only while the outbox is empty:
\* neither the application nor a listener can push a message whose wakeup is
\* lost, however often the condition variable wakes the thread spuriously.
THEOREM NoMessageSleepsIn == Spec => []SleepsOnlyWhenEmpty
BY ControlInvariant, PTL DEF ControlInv

\* The medium is never asked to send an empty outbox.
THEOREM NeverSendsNothing == Spec => []SendsOnlyBatches
BY ControlInvariant, PTL DEF ControlInv

\* A fetch of ReceiveMessages leaves the channel empty, so that a message
\* that has reached the receiver is never swapped back towards the sender.
THEOREM FetchedOnce == Spec => FetchEmptiesChannel
<1> DEFINE Fetch ==
      \A e \in Endpoints :
        recvPC[e] = "receive" /\ recvPC'[e] = "distribute" => channel'[e] = <<>>
<1>1. TypeOK /\ ControlInv /\ [Next]_vars => [Fetch]_vars
  <2> SUFFICES ASSUME TypeOK, ControlInv, Next, NEW e \in Endpoints,
                      recvPC[e] = "receive", recvPC'[e] = "distribute"
               PROVE  channel'[e] = <<>>
    BY DEF vars
  <2>1. PICK f \in Endpoints : EndpointStep(f)
    BY DEF Next
  <2>2. recvPC' = recvPC \/ (f # e => recvPC'[e] = recvPC[e])
    BY <2>1 DEF EndpointStep, CoreStep, AppSend, SendThread, SendLoopTest, SendAcquire,
         SendBlock, SendTest, SpuriousWakeup, UnchangedBySendLoop, RecvThread,
         RecvLoopTest, Distribute, DistributeEnd, Reply, RecvMoves, StopRunning,
         Terminate, StopNotify, JoinAndDelete, SendMessages, ReceiveMessages, TypeOK
  <2>3. f = e
    BY <2>2
  <2>4. ~(CoreStep(e) /\ UNCHANGED channel) /\ ~SendMessages(e)
    BY DEF CoreStep, AppSend, SendThread, SendLoopTest, SendAcquire, SendBlock,
         SendTest, SpuriousWakeup, UnchangedBySendLoop, RecvThread, RecvLoopTest,
         Distribute, DistributeEnd, Reply, RecvMoves, StopRunning, Terminate,
         StopNotify, JoinAndDelete, SendMessages, TypeOK
  <2>5. ReceiveMessages(e)
    BY <2>1, <2>3, <2>4 DEF EndpointStep
  <2>6. inbox[e] = <<>>
    BY DEF ControlInv, InboxDrained
  <2> QED
    BY <2>5, <2>6 DEF ReceiveMessages, RecvMoves, TypeOK
<1> QED
  BY <1>1, TypeCorrect, ControlInvariant, PTL DEF Spec, FetchEmptiesChannel

=============================================================================
