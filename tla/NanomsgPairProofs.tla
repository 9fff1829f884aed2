-------------------------- MODULE NanomsgPairProofs --------------------------
(***************************************************************************)
(* Proofs about NanomsgPair: types, whole messages on their way, what a    *)
(* receiver puts together of them, exactly-once delivery, and the          *)
(* refinement of FifoLink.                                                 *)
(***************************************************************************)
EXTENDS NanomsgPair, QueueLemmas

-----------------------------------------------------------------------------
(* What the steps do.                                                      *)

\* TypeOK in parts: where the threads are, and what is in the queues.
ControlOK ==
  /\ running \in [Endpoints -> BOOLEAN]
  /\ sendPC \in [Endpoints -> SendPCs]
  /\ recvPC \in [Endpoints -> RecvPCs]
  /\ appPC \in [Endpoints -> AppPCs]
  /\ linked \in BOOLEAN
  /\ sendPart \in [Endpoints -> Parts]
  /\ reborn \in [Endpoints -> BOOLEAN]
  /\ cut \in [Endpoints -> BOOLEAN]

QueuesOK ==
  /\ outbox \in [Endpoints -> Seq(Message)]
  /\ inbox \in [Endpoints -> Seq(Reading)]
  /\ sent \in [Endpoints -> Seq(Message)]
  /\ handled \in [Endpoints -> Seq(Reading)]
  /\ pipe \in [Endpoints -> Seq(Frame)]
  /\ held \in [Endpoints -> Seq(Reading)]

SocketsOK ==
  \A e \in Endpoints :
    /\ Len(pipe[e]) <= Capacity
    /\ \A i \in DOMAIN pipe[e] : pipe[e][i].msg.from = Peer(e)
    /\ Len(held[e]) <= 1

\* A step of the object of e that leaves the queues alone.
Quiet(e) == UNCHANGED <<outbox, inbox, sent, handled, mediumVars>>

\* The application or a listener of e submits m.
Submits(e, m) ==
  /\ m.from = e /\ m.seq = Len(sent[e]) + 1 /\ m \in Message
  /\ outbox' = [outbox EXCEPT ![e] = Append(outbox[e], m)]
  /\ sent' = [sent EXCEPT ![e] = Append(sent[e], m)]
  /\ UNCHANGED <<inbox, handled, mediumVars>>

\* Distribute pops a message.
Handles(e) ==
  /\ inbox[e] # <<>>
  /\ inbox' = [inbox EXCEPT ![e] = Tail(inbox[e])]
  /\ handled' = [handled EXCEPT ![e] = Append(handled[e], Head(inbox[e]))]
  /\ UNCHANGED <<outbox, sent, mediumVars>>

\* No object comes back by itself.
StaysDeleted == \A f \in Endpoints : appPC[f] = "deleted" => appPC'[f] = "deleted"

\* SendMessage makes a message of the caller.
LEMMA SendMessageSubmits ==
  ASSUME ControlOK, QueuesOK, NEW e \in Endpoints, NEW t \in Types, SendMessage(e, t),
         UNCHANGED <<inbox, handled, mediumVars>>
  PROVE  (\E m : Submits(e, m)) /\ sendPC' \in [Endpoints -> SendPCs]
<1> DEFINE m == [from |-> e, seq |-> Len(sent[e]) + 1, type |-> t]
<1>1. Len(sent[e]) \in Nat
  BY LenProperties DEF QueuesOK
<1>2. m.from = e /\ m.seq = Len(sent[e]) + 1 /\ m \in Message
  BY <1>1 DEF Message
<1>3. Submits(e, m)
  BY <1>2 DEF SendMessage, Submits
<1>4. sendPC' \in [Endpoints -> SendPCs]
  BY DEF SendMessage, NotifyAll, ControlOK, SendPCs
<1> QED
  BY <1>3, <1>4

\* What a step outside the medium does.
LEMMA CoreEffects ==
  ASSUME ControlOK, QueuesOK, NEW e \in Endpoints, CoreStep(e), UNCHANGED mediumVars
  PROVE  /\ ControlOK' /\ StaysDeleted
         /\ Quiet(e) \/ Handles(e) \/ \E m : Submits(e, m)
<1> USE DEF Quiet, StaysDeleted
<1>1. CASE AppSend(e)
  BY <1>1, SendMessageSubmits DEF AppSend, ControlOK, mediumVars
<1>2. CASE SendThread(e)
  BY <1>2 DEF SendThread, SendLoopTest, SendAcquire, SendBlock, SendTest, SendMoves,
     UnchangedBySendLoop, ControlOK, SendPCs, mediumVars
<1>3. CASE SpuriousWakeup(e)
  BY <1>3 DEF SpuriousWakeup, SendMoves, UnchangedBySendLoop, ControlOK, SendPCs, mediumVars
<1>4. CASE RecvLoopTest(e)
  BY <1>4 DEF RecvLoopTest, RecvMoves, ControlOK, RecvPCs, mediumVars
<1>5. CASE Distribute(e)
  BY <1>5 DEF Distribute, RecvMoves, Handles, ControlOK, RecvPCs, mediumVars
<1>6. CASE DistributeEnd(e)
  BY <1>6 DEF DistributeEnd, RecvMoves, ControlOK, RecvPCs, mediumVars
<1>7. CASE Reply(e)
  <2>1. recvPC' \in [Endpoints -> RecvPCs]
    BY <1>7 DEF Reply, RecvMoves, ControlOK, RecvPCs
  <2> QED
    BY <1>7, <2>1, SendMessageSubmits DEF Reply, ControlOK, mediumVars
<1>8. CASE StopRunning(e)
  BY <1>8 DEF StopRunning, AppMoves, ControlOK, AppPCs, mediumVars
<1>9. CASE Terminate(e)
  BY <1>9 DEF Terminate, StopNotify, JoinAndDelete, NotifyAll, AppMoves, ControlOK,
     AppPCs, SendPCs, mediumVars
<1> QED
  BY <1>1, <1>2, <1>3, <1>4, <1>5, <1>6, <1>7, <1>8, <1>9 DEF CoreStep, RecvThread

\* The sender puts a type frame, and is to send the payload next.
LEMMA SendTypeEffects ==
  ASSUME ControlOK, QueuesOK, NEW e \in Endpoints, SendTypeFrame(e)
  PROVE  /\ ControlOK'
         /\ UNCHANGED <<outbox, inbox, sent, handled, appPC, linked, held, reborn, cut>>
         /\ linked /\ outbox[e] # <<>> /\ Len(pipe[Peer(e)]) < Capacity
         /\ sendPart[e] = "type" /\ sendPart' = [sendPart EXCEPT ![e] = "data"]
         /\ pipe' = [pipe EXCEPT ![Peer(e)] =
                       Append(@, [part |-> "type", msg |-> Head(outbox[e])])]
BY DEF SendTypeFrame, SendFrame, AboutToSend, HasRoom, PutFrame, UnchangedBySendLoop,
   ControlOK, Parts

\* The sender puts a payload frame, and pops the message.
LEMMA SendDataEffects ==
  ASSUME ControlOK, QueuesOK, NEW e \in Endpoints, SendDataFrame(e)
  PROVE  /\ ControlOK'
         /\ UNCHANGED <<inbox, sent, handled, appPC, linked, held, reborn, cut>>
         /\ linked /\ outbox[e] # <<>> /\ Len(pipe[Peer(e)]) < Capacity
         /\ sendPart[e] = "data" /\ sendPart' = [sendPart EXCEPT ![e] = "type"]
         /\ outbox' = [outbox EXCEPT ![e] = Tail(@)]
         /\ pipe' = [pipe EXCEPT ![Peer(e)] =
                       Append(@, [part |-> "data", msg |-> Head(outbox[e])])]
BY DEF SendDataFrame, SendFrame, AboutToSend, HasRoom, PutFrame, UnchangedBySendLoop,
   ControlOK, Parts

\* The medium calls return without touching a queue.
LEMMA EndEffects ==
  ASSUME ControlOK, QueuesOK, NEW e \in Endpoints, SendMessagesEnd(e) \/ ReceiveMessagesEnd(e)
  PROVE  ControlOK' /\ StaysDeleted /\ Quiet(e)
BY DEF SendMessagesEnd, ReceiveMessagesEnd, SendMoves, RecvMoves, AfterLoop,
   UnchangedBySendLoop, ControlOK, SendPCs, RecvPCs, mediumVars, Quiet, StaysDeleted

\* The receiver takes a frame for a type; an empty one ends the call.
LEMMA ReceiveTypeEffects ==
  ASSUME ControlOK, QueuesOK, NEW e \in Endpoints, ReceiveTypeFrame(e)
  PROVE  /\ ControlOK'
         /\ UNCHANGED <<outbox, inbox, sent, handled, appPC, linked, sendPart, reborn, cut>>
         /\ held[e] = <<>> /\ pipe[e] # <<>> /\ pipe' = [pipe EXCEPT ![e] = Tail(@)]
         /\ held' = IF IsEmpty(Head(pipe[e])) THEN held
                      ELSE [held EXCEPT ![e] = <<ReadAsType(Head(pipe[e]))>>]
BY DEF ReceiveTypeFrame, TakeFrame, RecvMoves, AfterLoop, ControlOK, RecvPCs

\* The receiver takes a frame for the payload it waits for, and pushes the
\* message unless that is empty.
LEMMA ReceiveDataEffects ==
  ASSUME ControlOK, QueuesOK, NEW e \in Endpoints, ReceiveDataFrame(e)
  PROVE  /\ ControlOK'
         /\ UNCHANGED <<outbox, sent, handled, appPC, linked, sendPart, reborn, cut>>
         /\ held[e] # <<>> /\ pipe[e] # <<>> /\ pipe' = [pipe EXCEPT ![e] = Tail(@)]
         /\ held' = [held EXCEPT ![e] = <<>>]
         /\ inbox' = [inbox EXCEPT ![e] = IF IsEmpty(Head(pipe[e])) THEN @
                                          ELSE Append(@, ReadAsPayload(e, Head(pipe[e])))]
BY DEF ReceiveDataFrame, TakeFrame, ControlOK

\* The sockets are connected, or the one that is left notices.
LEMMA ConnectionEffects ==
  ASSUME ControlOK, QueuesOK, Connection
  PROVE  /\ ControlOK'
         /\ UNCHANGED <<outbox, inbox, sent, handled, appPC, held, sendPart, reborn>>
         /\ \/ /\ ~linked /\ linked' /\ UNCHANGED pipe
               /\ \A e \in Endpoints : appPC[e] # "deleted"
               /\ cut' = [e \in Endpoints |->
                            cut[e] \/ (held[e] # <<>>) # (sendPart[Peer(e)] = "data")]
            \/ /\ linked /\ ~linked' /\ UNCHANGED cut
               /\ \E e \in Endpoints : appPC[e] = "deleted"
               /\ pipe' = [e \in Endpoints |-> <<>>]
BY DEF Connection, Connect, Disconnect, coreVars, ControlOK

\* An object is created in place of a deleted one.
LEMMA RecreateEffects ==
  ASSUME ControlOK, QueuesOK, NEW e \in Endpoints, Recreate(e)
  PROVE  /\ ControlOK' /\ ~linked /\ appPC[e] = "deleted"
         /\ UNCHANGED <<sent, handled, linked, pipe, cut>>
         /\ outbox' = [outbox EXCEPT ![e] = <<>>]
         /\ inbox' = [inbox EXCEPT ![e] = <<>>]
         /\ held' = [held EXCEPT ![e] = <<>>]
         /\ sendPart' = [sendPart EXCEPT ![e] = "type"]
         /\ appPC' = [appPC EXCEPT ![e] = "open"]
BY DEF Recreate, ControlOK, SendPCs, RecvPCs, AppPCs, Parts

-----------------------------------------------------------------------------
(* The messages submitted, and the outbox.                                 *)

\* The messages of a sender are numbered.
Numbered(e, s) == \A i \in 1..Len(s) : s[i].from = e /\ s[i].seq = i

\* q holds the last messages of s.
Suffix(q, s) ==
  /\ Len(q) <= Len(s)
  /\ \A i \in 1..Len(q) : q[i] = s[Len(s) - Len(q) + i]

\* The next message keeps the numbers.
LEMMA NumberedPush ==
  ASSUME NEW e, NEW s \in Seq(Message), Numbered(e, s),
         NEW m \in Message, m.from = e, m.seq = Len(s) + 1
  PROVE  Numbered(e, Append(s, m))
<1>1. Len(s) \in Nat
  BY LenProperties
<1>2. /\ Len(Append(s, m)) = Len(s) + 1 /\ Append(s, m)[Len(s) + 1] = m
      /\ \A i \in 1..Len(s) : Append(s, m)[i] = s[i]
  BY Pushed
<1> SUFFICES ASSUME NEW i \in 1..Len(Append(s, m))
             PROVE  Append(s, m)[i].from = e /\ Append(s, m)[i].seq = i
  BY DEF Numbered
<1>3. CASE i = Len(s) + 1
  BY <1>2, <1>3
<1>4. CASE i \in 1..Len(s)
  BY <1>2, <1>4 DEF Numbered
<1> QED
  BY <1>1, <1>2, <1>3, <1>4

\* A message pushed to both keeps a suffix a suffix.
LEMMA SuffixPush ==
  ASSUME NEW S, NEW q \in Seq(S), NEW s \in Seq(S), Suffix(q, s), NEW x \in S
  PROVE  Suffix(Append(q, x), Append(s, x))
<1> DEFINE r == Append(q, x)
           u == Append(s, x)
<1>1. Len(s) \in Nat /\ Len(q) \in Nat /\ Len(q) <= Len(s)
  BY LenProperties DEF Suffix
<1>2. /\ Len(u) = Len(s) + 1 /\ u[Len(s) + 1] = x
      /\ \A i \in 1..Len(s) : u[i] = s[i]
  BY Pushed
<1>3. /\ Len(r) = Len(q) + 1 /\ r[Len(q) + 1] = x
      /\ \A i \in 1..Len(q) : r[i] = q[i]
  BY Pushed
<1> HIDE DEF r, u
<1>4. Len(r) <= Len(u) /\ Len(u) - Len(r) = Len(s) - Len(q)
  BY <1>1, <1>2, <1>3
<1>5. ASSUME NEW i \in 1..Len(r)
      PROVE  r[i] = u[Len(u) - Len(r) + i]
  <2>1. CASE i = Len(q) + 1
    <3>1. Len(u) - Len(r) + i = Len(s) + 1
      BY <1>1, <1>4, <2>1
    <3> QED
      BY <1>2, <1>3, <2>1, <3>1
  <2>2. CASE i \in 1..Len(q)
    <3>1. Len(s) - Len(q) + i \in 1..Len(s)
      BY <1>1, <2>2
    <3>2. r[i] = q[i] /\ q[i] = s[Len(s) - Len(q) + i]
      BY <1>3, <2>2 DEF Suffix
    <3> QED
      BY <1>2, <1>4, <3>1, <3>2
  <2> QED
    BY <1>1, <1>3, <2>1, <2>2
<1>6. Suffix(r, u)
  BY <1>4, <1>5 DEF Suffix
<1> QED
  BY <1>6 DEF r, u

\* A message popped keeps a suffix a suffix.
LEMMA SuffixPop ==
  ASSUME NEW S, NEW q \in Seq(S), NEW s \in Seq(S), Suffix(q, s), q # <<>>
  PROVE  Suffix(Tail(q), s)
<1>1. Len(s) \in Nat /\ Len(q) <= Len(s)
  BY LenProperties DEF Suffix
<1>2. /\ Len(q) \in Nat \ {0} /\ Len(Tail(q)) = Len(q) - 1
      /\ \A i \in 1..Len(Tail(q)) : Tail(q)[i] = q[i + 1]
  BY Popped
<1>3. ASSUME NEW i \in 1..Len(Tail(q))
      PROVE  Tail(q)[i] = s[Len(s) - (Len(q) - 1) + i]
  <2>1. i + 1 \in 1..Len(q) /\ Len(s) - Len(q) + (i + 1) = Len(s) - (Len(q) - 1) + i
    BY <1>1, <1>2
  <2>2. q[i + 1] = s[Len(s) - Len(q) + (i + 1)]
    BY <2>1 DEF Suffix
  <2> QED
    BY <1>2, <2>1, <2>2
<1> QED
  BY <1>1, <1>2, <1>3 DEF Suffix

\* Where the head of a suffix is.
LEMMA SuffixHead ==
  ASSUME NEW S, NEW q \in Seq(S), NEW s \in Seq(S), Suffix(q, s), q # <<>>
  PROVE  /\ Len(s) - Len(q) + 1 \in 1..Len(s)
         /\ Head(q) = s[Len(s) - Len(q) + 1]
<1>1. Len(s) \in Nat /\ Len(q) <= Len(s)
  BY LenProperties DEF Suffix
<1>2. Len(q) \in Nat \ {0} /\ Head(q) = q[1]
  BY Popped
<1>3. 1 \in 1..Len(q)
  BY <1>2
<1> QED
  BY <1>1, <1>2, <1>3 DEF Suffix

\* The messages of a sender are numbered, the outbox holds the last of them,
\* and between the two frames of a message the outbox still has it.
BoxAt(e) ==
  /\ Numbered(e, sent[e]) /\ Suffix(outbox[e], sent[e])
  /\ sendPart[e] = "data" => outbox[e] # <<>>

BoxInv == \A e \in Endpoints : BoxAt(e)

\* A step of one object leaves the outbox of the other.
LEMMA BoxAlone ==
  ASSUME BoxInv, NEW e \in Endpoints, BoxAt(e)',
         \A f \in Endpoints : f # e =>
           outbox'[f] = outbox[f] /\ sent'[f] = sent[f] /\ sendPart'[f] = sendPart[f]
  PROVE  BoxInv'
<1> SUFFICES ASSUME NEW f \in Endpoints, f # e
             PROVE  BoxAt(f)'
  BY DEF BoxInv
<1>1. BoxAt(f)
  BY DEF BoxInv
<1>2. outbox'[f] = outbox[f] /\ sent'[f] = sent[f] /\ sendPart'[f] = sendPart[f]
  OBVIOUS
<1> QED
  BY <1>1, <1>2 DEF BoxAt, Numbered, Suffix

\* Every step keeps BoxInv.
LEMMA BoxStep ==
  ASSUME ControlOK, QueuesOK, BoxInv, Next
  PROVE  BoxInv'
<1>1. \A e \in Endpoints : BoxAt(e) /\ outbox[e] \in Seq(Message) /\ sent[e] \in Seq(Message)
  BY DEF BoxInv, QueuesOK
<1>2. DOMAIN outbox = Endpoints /\ DOMAIN sent = Endpoints /\ DOMAIN sendPart = Endpoints
  BY DEF QueuesOK, ControlOK
<1>3. ASSUME UNCHANGED <<outbox, sent, sendPart>>
      PROVE  BoxInv'
  BY <1>3 DEF BoxInv, BoxAt, Numbered, Suffix
<1>4. ASSUME NEW e \in Endpoints, NEW q, NEW s, NEW p,
             outbox'[e] = q, sent'[e] = s, sendPart'[e] = p,
             Numbered(e, s), Suffix(q, s), p = "data" => q # <<>>
      PROVE  BoxAt(e)'
  BY <1>4 DEF BoxAt, Numbered, Suffix
<1>5. ASSUME NEW e \in Endpoints, CoreStep(e), UNCHANGED mediumVars
      PROVE  BoxInv'
  <2>1. CASE Quiet(e) \/ Handles(e)
    BY <1>3, <2>1 DEF Quiet, Handles, mediumVars
  <2>2. ASSUME NEW m, Submits(e, m)
        PROVE  BoxInv'
    <3>1. /\ m.from = e /\ m.seq = Len(sent[e]) + 1 /\ m \in Message
          /\ outbox'[e] = Append(outbox[e], m) /\ sent'[e] = Append(sent[e], m)
          /\ sendPart' = sendPart
          /\ \A f \in Endpoints : f # e => outbox'[f] = outbox[f] /\ sent'[f] = sent[f]
      BY <1>2, <2>2 DEF Submits, mediumVars
    <3>2. Numbered(e, Append(sent[e], m)) /\ Suffix(Append(outbox[e], m), Append(sent[e], m))
      BY <1>1, <3>1, NumberedPush, SuffixPush DEF BoxAt
    <3>3. Append(outbox[e], m) # <<>>
      <4>1. outbox[e] \in Seq(Message) /\ m \in Message
        BY <1>1, <3>1
      <4> QED
        BY <4>1, Pushed
    <3>4. BoxAt(e)'
      BY <1>4, <3>1, <3>2, <3>3
    <3> QED
      BY <3>1, <3>4, BoxAlone
  <2> QED
    BY <1>5, <2>1, <2>2, CoreEffects
<1>6. ASSUME NEW e \in Endpoints, SendTypeFrame(e)
      PROVE  BoxInv'
  <2>1. /\ outbox' = outbox /\ sent' = sent /\ outbox[e] # <<>>
        /\ sendPart' = [sendPart EXCEPT ![e] = "data"]
    BY <1>6, SendTypeEffects
  <2>2. BoxAt(e)'
    BY <1>1, <1>4, <2>1 DEF BoxAt
  <2> QED
    BY <1>2, <2>1, <2>2, BoxAlone
<1>7. ASSUME NEW e \in Endpoints, SendDataFrame(e)
      PROVE  BoxInv'
  <2>1. /\ sent' = sent /\ outbox[e] # <<>> /\ outbox' = [outbox EXCEPT ![e] = Tail(@)]
        /\ sendPart' = [sendPart EXCEPT ![e] = "type"]
    BY <1>7, SendDataEffects
  <2>2. outbox'[e] = Tail(outbox[e]) /\ sendPart'[e] = "type"
    BY <1>2, <2>1
  <2>3. Suffix(Tail(outbox[e]), sent[e])
    BY <1>1, <2>1, SuffixPop DEF BoxAt
  <2>4. BoxAt(e)'
    BY <1>1, <1>4, <2>1, <2>2, <2>3 DEF BoxAt
  <2> QED
    BY <1>2, <2>1, <2>4, BoxAlone
<1>8. ASSUME NEW e \in Endpoints, SendMessagesEnd(e) \/ ReceiveMessagesEnd(e)
      PROVE  BoxInv'
  BY <1>3, <1>8, EndEffects DEF Quiet, mediumVars
<1>9. ASSUME NEW e \in Endpoints, ReceiveTypeFrame(e) \/ ReceiveDataFrame(e)
      PROVE  BoxInv'
  BY <1>3, <1>9, ReceiveTypeEffects, ReceiveDataEffects
<1>10. CASE Connection
  BY <1>3, <1>10, ConnectionEffects
<1>11. ASSUME NEW e \in Endpoints, Recreate(e)
       PROVE  BoxInv'
  <2>1. /\ sent' = sent /\ outbox' = [outbox EXCEPT ![e] = <<>>]
        /\ sendPart' = [sendPart EXCEPT ![e] = "type"]
    BY <1>11, RecreateEffects
  <2>2. Suffix(<<>>, sent[e])
    BY <1>1, LenProperties DEF Suffix
  <2>3. BoxAt(e)'
    BY <1>1, <1>2, <1>4, <2>1, <2>2 DEF BoxAt
  <2> QED
    BY <1>2, <2>1, <2>3, BoxAlone
<1> QED
  BY <1>5, <1>6, <1>7, <1>8, <1>9, <1>10, <1>11
     DEF Next, EndpointStep, SendMessages, ReceiveMessages

\* The first message of the outbox is the one after those passed on.
LEMMA HeadOfOutbox ==
  ASSUME QueuesOK, NEW e \in Endpoints, BoxAt(e), outbox[e] # <<>>
  PROVE  /\ Head(outbox[e]) \in Message /\ Head(outbox[e]).from = e
         /\ Len(sent[e]) - Len(outbox[e]) + 1 \in 1..Len(sent[e])
         /\ Head(outbox[e]).seq = Len(sent[e]) - Len(outbox[e]) + 1
         /\ Head(outbox[e]) = sent[e][Len(sent[e]) - Len(outbox[e]) + 1]
<1>1. outbox[e] \in Seq(Message) /\ sent[e] \in Seq(Message)
  BY DEF QueuesOK
<1>2. Suffix(outbox[e], sent[e]) /\ Numbered(e, sent[e])
  BY DEF BoxAt
<1>3. /\ Len(sent[e]) - Len(outbox[e]) + 1 \in 1..Len(sent[e])
      /\ Head(outbox[e]) = sent[e][Len(sent[e]) - Len(outbox[e]) + 1]
  BY <1>1, <1>2, SuffixHead
<1>4. Head(outbox[e]) \in Message
  BY <1>1, Popped
<1> QED
  BY <1>2, <1>3, <1>4 DEF Numbered

-----------------------------------------------------------------------------
(* Type correctness.                                                       *)

\* A frame that is read is a message, possibly not one that was sent.
LEMMA FramesReadable ==
  ASSUME NEW f \in Frame
  PROVE  /\ ReadAsType(f) \in Reading
         /\ \A e \in Endpoints : held[e] # <<>> /\ held[e] \in Seq(Reading)
              => ReadAsPayload(e, f) \in Reading
<1>1. f.msg.from \in Endpoints /\ f.msg.seq \in Nat /\ f.msg.type \in Types /\ f.msg \in Message
  BY DEF Frame, Message
<1>2. ReadAsType(f) \in Reading
  BY <1>1 DEF ReadAsType, Reading, Message
<1>3. ASSUME NEW e \in Endpoints, held[e] # <<>>, held[e] \in Seq(Reading)
      PROVE  ReadAsPayload(e, f) \in Reading
  <2>1. held[e][1] \in Reading
    BY <1>3, Popped
  <2>2. held[e][1].type \in Types \union {Garbage}
    BY <2>1 DEF Reading
  <2> QED
    BY <1>1, <2>2 DEF ReadAsPayload, Reading, Message
<1> QED
  BY <1>2, <1>3

\* A frame put on its way keeps the sockets as they should be.
LEMMA FramePut ==
  ASSUME QueuesOK, SocketsOK, NEW e \in Endpoints, NEW f \in Frame, f.msg.from = e,
         Len(pipe[Peer(e)]) < Capacity,
         pipe' = [pipe EXCEPT ![Peer(e)] = Append(pipe[Peer(e)], f)], held' = held
  PROVE  pipe' \in [Endpoints -> Seq(Frame)] /\ SocketsOK'
<1>1. Peer(e) \in Endpoints /\ Peer(Peer(e)) = e /\ pipe[Peer(e)] \in Seq(Frame)
  BY PeerIsOther DEF QueuesOK
<1> DEFINE q == Append(pipe[Peer(e)], f)
<1>2. /\ q \in Seq(Frame) /\ Len(q) = Len(pipe[Peer(e)]) + 1 /\ q[Len(pipe[Peer(e)]) + 1] = f
      /\ \A i \in 1..Len(pipe[Peer(e)]) : q[i] = pipe[Peer(e)][i]
  BY <1>1, Pushed
<1> HIDE DEF q
<1>3. Len(pipe[Peer(e)]) \in Nat
  BY <1>1, LenProperties
<1>4. pipe' = [pipe EXCEPT ![Peer(e)] = q]
  BY DEF q
<1>5. pipe' \in [Endpoints -> Seq(Frame)]
  BY <1>1, <1>2, <1>4 DEF QueuesOK
<1>6. ASSUME NEW x \in Endpoints
      PROVE  /\ Len(pipe'[x]) <= Capacity
             /\ \A i \in DOMAIN pipe'[x] : pipe'[x][i].msg.from = Peer(x)
  <2>1. CASE x # Peer(e)
    BY <1>4, <2>1 DEF SocketsOK, QueuesOK
  <2>2. CASE x = Peer(e)
    <3>1. pipe'[x] = q
      BY <1>1, <1>4, <2>2 DEF QueuesOK
    <3>2. Len(q) <= Capacity
      BY <1>2, <1>3, NanomsgAssumption
    <3>3. ASSUME NEW i \in 1..Len(q)
          PROVE  q[i].msg.from = Peer(x)
      <4>1. CASE i = Len(pipe[Peer(e)]) + 1
        BY <1>1, <1>2, <2>2, <4>1
      <4>2. CASE i \in 1..Len(pipe[Peer(e)])
        <5>1. pipe[Peer(e)][i].msg.from = Peer(x)
          BY <1>1, <2>2, <4>2, LenProperties DEF SocketsOK
        <5> QED
          BY <1>2, <4>2, <5>1
      <4> QED
        BY <1>2, <1>3, <4>1, <4>2
    <3>4. DOMAIN q = 1..Len(q)
      BY <1>2, LenProperties
    <3> QED
      BY <3>1, <3>2, <3>3, <3>4
  <2> QED
    BY <2>1, <2>2
<1> QED
  BY <1>5, <1>6 DEF SocketsOK

\* A frame taken keeps the sockets as they should be.
LEMMA FrameTaken ==
  ASSUME QueuesOK, SocketsOK, NEW e \in Endpoints, pipe[e] # <<>>,
         pipe' = [pipe EXCEPT ![e] = Tail(pipe[e])],
         NEW h \in Seq(Reading), Len(h) <= 1, held' = [held EXCEPT ![e] = h]
  PROVE  /\ pipe' \in [Endpoints -> Seq(Frame)] /\ held' \in [Endpoints -> Seq(Reading)]
         /\ SocketsOK'
<1> DEFINE q == Tail(pipe[e])
<1>1. pipe[e] \in Seq(Frame)
  BY DEF QueuesOK
<1>2. /\ q \in Seq(Frame) /\ Len(pipe[e]) \in Nat \ {0} /\ Len(q) = Len(pipe[e]) - 1
      /\ \A i \in 1..Len(q) : q[i] = pipe[e][i + 1]
  BY <1>1, Popped
<1> HIDE DEF q
<1>3. pipe' = [pipe EXCEPT ![e] = q]
  BY DEF q
<1>4. pipe' \in [Endpoints -> Seq(Frame)] /\ held' \in [Endpoints -> Seq(Reading)]
  BY <1>2, <1>3 DEF QueuesOK
<1>5. ASSUME NEW x \in Endpoints
      PROVE  /\ Len(pipe'[x]) <= Capacity
             /\ \A i \in DOMAIN pipe'[x] : pipe'[x][i].msg.from = Peer(x)
             /\ Len(held'[x]) <= 1
  <2>1. CASE x # e
    BY <1>3, <2>1 DEF SocketsOK, QueuesOK
  <2>2. CASE x = e
    <3>1. pipe'[x] = q /\ held'[x] = h
      BY <1>3, <2>2 DEF QueuesOK
    <3>2. Len(pipe[e]) <= Capacity
      BY DEF SocketsOK
    <3>3. Len(q) <= Capacity
      BY <1>2, <3>2, NanomsgAssumption
    <3>4. ASSUME NEW i \in 1..Len(q)
          PROVE  q[i].msg.from = Peer(x)
      <4>1. i + 1 \in 1..Len(pipe[e])
        BY <1>2
      <4>2. pipe[e][i + 1].msg.from = Peer(e)
        BY <1>1, <4>1, LenProperties DEF SocketsOK
      <4> QED
        BY <1>2, <2>2, <4>2
    <3>5. DOMAIN q = 1..Len(q)
      BY <1>2, LenProperties
    <3> QED
      BY <3>1, <3>3, <3>4, <3>5
  <2> QED
    BY <2>1, <2>2
<1> QED
  BY <1>4, <1>5 DEF SocketsOK

\* Every step keeps the types.
LEMMA TypeStep ==
  ASSUME ControlOK, QueuesOK, SocketsOK, BoxInv, Next
  PROVE  ControlOK' /\ QueuesOK' /\ SocketsOK'
<1>1. ASSUME UNCHANGED <<pipe, held>>
      PROVE  pipe' \in [Endpoints -> Seq(Frame)] /\ held' \in [Endpoints -> Seq(Reading)]
             /\ SocketsOK'
  BY <1>1 DEF QueuesOK, SocketsOK
<1>2. ASSUME NEW e \in Endpoints, CoreStep(e), UNCHANGED mediumVars
      PROVE  ControlOK' /\ QueuesOK' /\ SocketsOK'
  <2>1. CASE Quiet(e)
    BY <1>1, <1>2, <2>1, CoreEffects DEF Quiet, mediumVars, QueuesOK
  <2>2. CASE Handles(e)
    <3>1. /\ inbox[e] # <<>>
          /\ inbox' = [inbox EXCEPT ![e] = Tail(inbox[e])]
          /\ handled' = [handled EXCEPT ![e] = Append(handled[e], Head(inbox[e]))]
          /\ UNCHANGED <<outbox, sent, pipe, held>>
      BY <2>2 DEF Handles, mediumVars
    <3>2. inbox[e] \in Seq(Reading) /\ handled[e] \in Seq(Reading)
      BY DEF QueuesOK
    <3>3. Tail(inbox[e]) \in Seq(Reading) /\ Append(handled[e], Head(inbox[e])) \in Seq(Reading)
      BY <3>1, <3>2, Popped, Pushed
    <3>4. inbox' \in [Endpoints -> Seq(Reading)] /\ handled' \in [Endpoints -> Seq(Reading)]
      BY <3>1, <3>3 DEF QueuesOK
    <3> QED
      BY <1>1, <1>2, <3>1, <3>4, CoreEffects DEF QueuesOK
  <2>3. ASSUME NEW m, Submits(e, m)
        PROVE  ControlOK' /\ QueuesOK' /\ SocketsOK'
    <3>1. /\ m \in Message
          /\ outbox' = [outbox EXCEPT ![e] = Append(outbox[e], m)]
          /\ sent' = [sent EXCEPT ![e] = Append(sent[e], m)]
          /\ UNCHANGED <<inbox, handled, pipe, held>>
      BY <2>3 DEF Submits, mediumVars
    <3>2. Append(outbox[e], m) \in Seq(Message) /\ Append(sent[e], m) \in Seq(Message)
      BY <3>1, Pushed DEF QueuesOK
    <3>3. outbox' \in [Endpoints -> Seq(Message)] /\ sent' \in [Endpoints -> Seq(Message)]
      BY <3>1, <3>2 DEF QueuesOK
    <3> QED
      BY <1>1, <1>2, <3>1, <3>3, CoreEffects DEF QueuesOK
  <2> QED
    BY <1>2, <2>1, <2>2, <2>3, CoreEffects
<1>3. ASSUME NEW e \in Endpoints, SendTypeFrame(e)
      PROVE  ControlOK' /\ QueuesOK' /\ SocketsOK'
  <2> DEFINE f == [part |-> "type", msg |-> Head(outbox[e])]
  <2>1. Head(outbox[e]) \in Message /\ Head(outbox[e]).from = e
    BY <1>3, SendTypeEffects, HeadOfOutbox DEF BoxInv
  <2>2. f \in Frame /\ f.msg.from = e
    BY <2>1 DEF Frame, Parts
  <2>3. pipe' = [pipe EXCEPT ![Peer(e)] = Append(pipe[Peer(e)], f)]
    BY <1>3, SendTypeEffects
  <2> HIDE DEF f
  <2>4. pipe' \in [Endpoints -> Seq(Frame)] /\ SocketsOK'
    BY <1>3, <2>2, <2>3, SendTypeEffects, FramePut
  <2> QED
    BY <1>3, <2>4, SendTypeEffects DEF QueuesOK
<1>4. ASSUME NEW e \in Endpoints, SendDataFrame(e)
      PROVE  ControlOK' /\ QueuesOK' /\ SocketsOK'
  <2> DEFINE f == [part |-> "data", msg |-> Head(outbox[e])]
  <2>1. Head(outbox[e]) \in Message /\ Head(outbox[e]).from = e
    BY <1>4, SendDataEffects, HeadOfOutbox DEF BoxInv
  <2>2. f \in Frame /\ f.msg.from = e
    BY <2>1 DEF Frame, Parts
  <2>3. pipe' = [pipe EXCEPT ![Peer(e)] = Append(pipe[Peer(e)], f)]
    BY <1>4, SendDataEffects
  <2> HIDE DEF f
  <2>4. pipe' \in [Endpoints -> Seq(Frame)] /\ SocketsOK'
    BY <1>4, <2>2, <2>3, SendDataEffects, FramePut
  <2>5. Tail(outbox[e]) \in Seq(Message)
    BY <1>4, SendDataEffects, Popped DEF QueuesOK
  <2>6. outbox' = [outbox EXCEPT ![e] = Tail(outbox[e])]
    BY <1>4, SendDataEffects
  <2>7. outbox' \in [Endpoints -> Seq(Message)]
    BY <2>5, <2>6 DEF QueuesOK
  <2> QED
    BY <1>4, <2>4, <2>7, SendDataEffects DEF QueuesOK
<1>5. ASSUME NEW e \in Endpoints, SendMessagesEnd(e) \/ ReceiveMessagesEnd(e)
      PROVE  ControlOK' /\ QueuesOK' /\ SocketsOK'
  BY <1>1, <1>5, EndEffects DEF Quiet, mediumVars, QueuesOK
<1>6. ASSUME NEW e \in Endpoints, ReceiveTypeFrame(e)
      PROVE  ControlOK' /\ QueuesOK' /\ SocketsOK'
  <2>1. pipe[e] # <<>> /\ pipe' = [pipe EXCEPT ![e] = Tail(pipe[e])]
    BY <1>6, ReceiveTypeEffects
  <2>2. ReadAsType(Head(pipe[e])) \in Reading
    BY <2>1, Popped, FramesReadable DEF QueuesOK
  <2> DEFINE h == IF IsEmpty(Head(pipe[e])) THEN held[e] ELSE <<ReadAsType(Head(pipe[e]))>>
  <2>3. h \in Seq(Reading) /\ Len(h) <= 1
    BY <2>2 DEF QueuesOK, SocketsOK
  <2>4. held' = [held EXCEPT ![e] = h]
    BY <1>6, ReceiveTypeEffects DEF QueuesOK
  <2> HIDE DEF h
  <2>5. /\ pipe' \in [Endpoints -> Seq(Frame)] /\ held' \in [Endpoints -> Seq(Reading)]
        /\ SocketsOK'
    BY <2>1, <2>3, <2>4, FrameTaken
  <2> QED
    BY <1>6, <2>5, ReceiveTypeEffects DEF QueuesOK
<1>7. ASSUME NEW e \in Endpoints, ReceiveDataFrame(e)
      PROVE  ControlOK' /\ QueuesOK' /\ SocketsOK'
  <2>1. pipe[e] # <<>> /\ pipe' = [pipe EXCEPT ![e] = Tail(pipe[e])]
    BY <1>7, ReceiveDataEffects
  <2>2. ReadAsPayload(e, Head(pipe[e])) \in Reading
    BY <1>7, <2>1, ReceiveDataEffects, Popped, FramesReadable DEF QueuesOK
  <2> DEFINE q == IF IsEmpty(Head(pipe[e])) THEN inbox[e]
                  ELSE Append(inbox[e], ReadAsPayload(e, Head(pipe[e])))
  <2>3. q \in Seq(Reading)
    BY <2>2, Pushed DEF QueuesOK
  <2>4. inbox' = [inbox EXCEPT ![e] = q]
    BY <1>7, ReceiveDataEffects
  <2> HIDE DEF q
  <2>5. inbox' \in [Endpoints -> Seq(Reading)]
    BY <2>3, <2>4 DEF QueuesOK
  <2>6. <<>> \in Seq(Reading) /\ Len(<<>>) <= 1 /\ held' = [held EXCEPT ![e] = <<>>]
    BY <1>7, ReceiveDataEffects
  <2>7. /\ pipe' \in [Endpoints -> Seq(Frame)] /\ held' \in [Endpoints -> Seq(Reading)]
        /\ SocketsOK'
    BY <2>1, <2>6, FrameTaken
  <2> QED
    BY <1>7, <2>5, <2>7, ReceiveDataEffects DEF QueuesOK
<1>8. CASE Connection
  <2>1. pipe' = pipe \/ pipe' = [e \in Endpoints |-> <<>>]
    BY <1>8, ConnectionEffects
  <2>2. <<>> \in Seq(Frame) /\ Len(<<>>) = 0 /\ DOMAIN <<>> = {}
    OBVIOUS
  <2>3. pipe' \in [Endpoints -> Seq(Frame)]
    BY <2>1, <2>2 DEF QueuesOK
  <2>4. SocketsOK'
    BY <1>8, <2>1, ConnectionEffects, NanomsgAssumption DEF SocketsOK
  <2> QED
    BY <1>8, <2>3, <2>4, ConnectionEffects DEF QueuesOK
<1>9. ASSUME NEW e \in Endpoints, Recreate(e)
      PROVE  ControlOK' /\ QueuesOK' /\ SocketsOK'
  <2> DEFINE none == <<>>
  <2>1. none \in Seq(Message) /\ none \in Seq(Reading)
    OBVIOUS
  <2>2. /\ UNCHANGED <<sent, handled, pipe>>
        /\ outbox' = [outbox EXCEPT ![e] = none]
        /\ inbox' = [inbox EXCEPT ![e] = none]
        /\ held' = [held EXCEPT ![e] = none]
    BY <1>9, RecreateEffects
  <2> HIDE DEF none
  <2>3. QueuesOK'
    BY <2>1, <2>2 DEF QueuesOK
  <2>4. SocketsOK'
    BY <1>9, RecreateEffects DEF QueuesOK, SocketsOK
  <2> QED
    BY <1>9, <2>3, <2>4, RecreateEffects
<1> QED
  BY <1>2, <1>3, <1>4, <1>5, <1>6, <1>7, <1>8, <1>9
     DEF Next, EndpointStep, SendMessages, ReceiveMessages

\* The types and the shape of the outbox, together inductive.
BaseInv == ControlOK /\ QueuesOK /\ SocketsOK /\ BoxInv

\* They hold in every reachable state.
LEMMA BaseInvariant == Spec => []BaseInv
<1>1. PairInit => BaseInv
  <2> SUFFICES ASSUME PairInit PROVE BaseInv
    OBVIOUS
  <2>1. ControlOK
    BY DEF PairInit, Init, ControlOK, SendPCs, RecvPCs, AppPCs, Parts
  <2> DEFINE none == <<>>
  <2>3. none \in Seq(Message) /\ none \in Seq(Reading) /\ none \in Seq(Frame)
    OBVIOUS
  <2>4. /\ outbox = [e \in Endpoints |-> none] /\ inbox = [e \in Endpoints |-> none]
        /\ sent = [e \in Endpoints |-> none] /\ handled = [e \in Endpoints |-> none]
        /\ pipe = [e \in Endpoints |-> none] /\ held = [e \in Endpoints |-> none]
    BY DEF PairInit, Init
  <2>5. SocketsOK
    BY <2>4, NanomsgAssumption DEF SocketsOK
  <2> HIDE DEF none
  <2>6. QueuesOK
    BY <2>3, <2>4 DEF QueuesOK
  <2>2. BoxInv
    BY DEF PairInit, Init, BoxInv, BoxAt, Numbered, Suffix
  <2> QED
    BY <2>1, <2>2, <2>5, <2>6 DEF BaseInv
<1>2. BaseInv /\ [Next]_vars => BaseInv'
  <2>1. BaseInv /\ Next => BaseInv'
    BY TypeStep, BoxStep DEF BaseInv
  <2>2. BaseInv /\ UNCHANGED vars => BaseInv'
    BY DEF BaseInv, vars, ControlOK, QueuesOK, SocketsOK, BoxInv, BoxAt, Numbered, Suffix
  <2> QED
    BY <2>1, <2>2
<1> QED
  BY <1>1, <1>2, PTL DEF Spec

\* In every behaviour the variables keep their types, the sockets hold no
\* more than their capacity, and a frame travels only to the peer of the
\* endpoint that sent it, through every deletion and creation of an object.
THEOREM TypeCorrect == Spec => []TypeOK
<1>1. BaseInv => TypeOK
  BY DEF BaseInv, ControlOK, QueuesOK, SocketsOK, TypeOK
<1> QED
  BY <1>1, BaseInvariant, PTL

-----------------------------------------------------------------------------
(* Connections begin and end between the calls of a deleted object.        *)

\* The payload that is awaited keeps the receiver in ReceiveMessages, the
\* one that is to be sent keeps the sender in SendMessages, and an object is
\* deleted when both threads have returned.
MidCall ==
  \A e \in Endpoints :
    /\ held[e] # <<>> => recvPC[e] = "receive"
    /\ sendPart[e] = "data" => sendPC[e] = "sending"
    /\ appPC[e] = "deleted" => recvPC[e] = "done" /\ sendPC[e] = "done"

\* Every step keeps MidCall.
LEMMA MidCallStep ==
  ASSUME ControlOK, QueuesOK, BoxInv, MidCall, Next
  PROVE  MidCall'
<1> USE DEF MidCall
<1>1. ASSUME NEW e \in Endpoints, CoreStep(e), UNCHANGED mediumVars
      PROVE  MidCall'
  <2>1. UNCHANGED <<held, sendPart>>
    BY <1>1 DEF mediumVars
  <2>2. CASE AppSend(e)
    BY <2>1, <2>2 DEF AppSend, SendMessage, NotifyAll, ControlOK
  <2>3. CASE SendThread(e)
    BY <2>1, <2>3 DEF SendThread, SendLoopTest, SendAcquire, SendBlock, SendTest, SendMoves,
       UnchangedBySendLoop, ControlOK
  <2>4. CASE SpuriousWakeup(e)
    BY <2>1, <2>4 DEF SpuriousWakeup, SendMoves, UnchangedBySendLoop, ControlOK
  <2>5. CASE RecvThread(e)
    BY <2>1, <2>5 DEF RecvThread, RecvLoopTest, Distribute, DistributeEnd, RecvMoves, ControlOK
  <2>6. CASE Reply(e)
    BY <2>1, <2>6 DEF Reply, RecvMoves, SendMessage, NotifyAll, ControlOK
  <2>7. CASE StopRunning(e)
    BY <2>1, <2>7 DEF StopRunning, AppMoves, ControlOK
  <2>8. CASE Terminate(e)
    BY <2>1, <2>8 DEF Terminate, StopNotify, JoinAndDelete, NotifyAll, AppMoves, ControlOK
  <2> QED
    BY <1>1, <2>2, <2>3, <2>4, <2>5, <2>6, <2>7, <2>8 DEF CoreStep
<1>2. ASSUME NEW e \in Endpoints, SendTypeFrame(e) \/ SendDataFrame(e)
      PROVE  MidCall'
  BY <1>2 DEF SendTypeFrame, SendDataFrame, SendFrame, AboutToSend, UnchangedBySendLoop,
     ControlOK
<1>3. ASSUME NEW e \in Endpoints, SendMessagesEnd(e)
      PROVE  MidCall'
  BY <1>3 DEF SendMessagesEnd, SendMoves, UnchangedBySendLoop, mediumVars, BoxInv, BoxAt,
     ControlOK
<1>4. ASSUME NEW e \in Endpoints, ReceiveTypeFrame(e) \/ ReceiveDataFrame(e)
      PROVE  MidCall'
  BY <1>4 DEF ReceiveTypeFrame, ReceiveDataFrame, TakeFrame, RecvMoves, ControlOK, QueuesOK
<1>5. ASSUME NEW e \in Endpoints, ReceiveMessagesEnd(e)
      PROVE  MidCall'
  BY <1>5 DEF ReceiveMessagesEnd, RecvMoves, mediumVars, ControlOK
<1>6. CASE Connection
  BY <1>6 DEF Connection, Connect, Disconnect, coreVars
<1>7. ASSUME NEW e \in Endpoints, Recreate(e)
      PROVE  MidCall'
  BY <1>7 DEF Recreate, ControlOK, QueuesOK
<1> QED
  BY <1>1, <1>2, <1>3, <1>4, <1>5, <1>6, <1>7
     DEF Next, EndpointStep, SendMessages, ReceiveMessages

\* Without a connection nothing is under way, and not both ends of a
\* direction are in the middle of a message: the object whose deletion broke
\* the connection had finished its calls.
LinkInv ==
  ~linked => \A e \in Endpoints :
    /\ pipe[e] = <<>>
    /\ held[e] = <<>> \/ sendPart[Peer(e)] = "type"

\* Every step keeps LinkInv.
LEMMA LinkStep ==
  ASSUME ControlOK, QueuesOK, MidCall, LinkInv, Next
  PROVE  LinkInv'
<1>1. ASSUME NEW e \in Endpoints, CoreStep(e), UNCHANGED mediumVars
      PROVE  LinkInv'
  BY <1>1 DEF mediumVars, LinkInv
<1>2. ASSUME NEW e \in Endpoints, SendTypeFrame(e) \/ SendDataFrame(e)
      PROVE  LinkInv'
  BY <1>2, SendTypeEffects, SendDataEffects DEF LinkInv
<1>3. ASSUME NEW e \in Endpoints, SendMessagesEnd(e) \/ ReceiveMessagesEnd(e)
      PROVE  LinkInv'
  BY <1>3, EndEffects DEF Quiet, mediumVars, LinkInv
<1>4. ASSUME NEW e \in Endpoints, ReceiveTypeFrame(e) \/ ReceiveDataFrame(e)
      PROVE  LinkInv'
  BY <1>4, ReceiveTypeEffects, ReceiveDataEffects DEF LinkInv
<1>5. CASE Connection
  <2>1. CASE linked'
    BY <2>1 DEF LinkInv
  <2>2. CASE ~linked'
    <3>1. PICK d \in Endpoints : appPC[d] = "deleted"
      BY <1>5, <2>2, ConnectionEffects
    <3>2. held[d] = <<>> /\ sendPart[d] = "type"
      BY <3>1 DEF MidCall, ControlOK, Parts
    <3>3. \A e \in Endpoints : held[e] = <<>> \/ sendPart[Peer(e)] = "type"
      BY <3>2, PeerIsOther
    <3> QED
      BY <1>5, <2>2, <3>3, ConnectionEffects DEF LinkInv
  <2> QED
    BY <2>1, <2>2
<1>6. ASSUME NEW e \in Endpoints, Recreate(e)
      PROVE  LinkInv'
  <2>1. /\ ~linked /\ pipe' = pipe /\ held' = [held EXCEPT ![e] = <<>>]
        /\ sendPart' = [sendPart EXCEPT ![e] = "type"]
    BY <1>6, RecreateEffects
  <2> QED
    BY <2>1, PeerIsOther DEF LinkInv, ControlOK, QueuesOK
<1> QED
  BY <1>1, <1>2, <1>3, <1>4, <1>5, <1>6
     DEF Next, EndpointStep, SendMessages, ReceiveMessages

-----------------------------------------------------------------------------
(* The stream of a direction as a sequence.                                *)

Wire == [part : Parts, msg : Reading]

\* The stream made of the message held, the frames under way and the payload
\* still to be sent.
Heading(h) == [i \in DOMAIN h |-> [part |-> "type", msg |-> h[i]]]

StreamOf(h, p, last) == (Heading(h) \o p) \o last

Payload(m) == [part |-> "data", msg |-> m]

Pending(e) == IF sendPart[e] = "data" THEN <<Payload(Head(outbox[e]))>> ELSE <<>>

\* Whole messages, one after the other.
Whole(st) ==
  \A i \in 1..Len(st) :
    IF i % 2 = 1
      THEN /\ st[i].part = "type"
           /\ i < Len(st)
           /\ st[i + 1] = [st[i] EXCEPT !.part = "data"]
      ELSE st[i].part = "data"

\* What is sent is something a receiver can put together.
LEMMA FramesAreWire ==
  /\ Message \subseteq Reading
  /\ \A p \in Seq(Frame) : p \in Seq(Wire)
<1>1. Message \subseteq Reading
  BY DEF Message, Reading
<1>2. Frame \subseteq Wire
  BY <1>1 DEF Frame, Wire
<1> QED
  BY <1>1, <1>2, SeqMonotonic

\* The frame of the message held.
LEMMA HeadingIs ==
  ASSUME NEW m \in Reading
  PROVE  /\ Heading(<<>>) = <<>>
         /\ Heading(<<m>>) = <<[part |-> "type", msg |-> m]>>
         /\ [part |-> "type", msg |-> m] \in Wire /\ Payload(m) \in Wire
<1>1. Heading(<<>>) = <<>>
  BY DEF Heading
<1>2. Heading(<<m>>) = <<[part |-> "type", msg |-> m]>>
  BY DEF Heading
<1> QED
  BY <1>1, <1>2 DEF Wire, Parts, Payload

\* A sequence of at most one message is empty or holds its head.
LEMMA HeldCases ==
  ASSUME NEW S, NEW h \in Seq(S), Len(h) <= 1
  PROVE  h = <<>> \/ \E m \in S : h = <<m>>
<1> SUFFICES ASSUME h # <<>>
             PROVE  \E m \in S : h = <<m>>
  OBVIOUS
<1>1. Len(h) \in Nat \ {0} /\ Head(h) \in S /\ Head(h) = h[1]
  BY Popped
<1> DEFINE n == Len(h)
<1>2. n \in Nat \ {0} /\ n <= 1
  BY <1>1
<1> HIDE DEF n
<1>3. n = 1
  BY <1>2
<1>4. Len(h) = 1
  BY <1>3 DEF n
<1>5. h = <<h[1]>>
  BY <1>1, <1>4, SeqEqual
<1> QED
  BY <1>1, <1>5

\* A message added keeps the messages whole.
LEMMA WholeGrows ==
  ASSUME NEW st \in Seq(Wire), Whole(st), NEW t \in Wire, t.part = "type",
         NEW d \in Wire, d = [t EXCEPT !.part = "data"]
  PROVE  Whole(Append(Append(st, t), d))
<1> DEFINE u == Append(st, t)
           r == Append(u, d)
           n == Len(st)
<1>1. /\ u \in Seq(Wire) /\ Len(u) = n + 1 /\ u[n + 1] = t
      /\ \A i \in 1..n : u[i] = st[i]
  BY Pushed
<1>2. n \in Nat
  BY LenProperties
<1> HIDE DEF u
<1>3. /\ Len(r) = Len(u) + 1 /\ r[Len(u) + 1] = d
      /\ \A i \in 1..Len(u) : r[i] = u[i]
  BY <1>1, Pushed
<1>4. n % 2 = 0
  <2> SUFFICES ASSUME n % 2 = 1
               PROVE  FALSE
    BY <1>2
  <2>1. \A i \in 1..Len(st) : i % 2 = 1 => i < Len(st)
    BY DEF Whole
  <2>2. \A i \in 1..n : i % 2 = 1 => i < n
    BY <2>1
  <2> HIDE DEF n
  <2>3. n \in 1..n
    BY <1>2
  <2> QED
    BY <1>2, <2>2, <2>3
<1> HIDE DEF r
<1>5. /\ Len(r) = n + 2 /\ r[n + 1] = t /\ r[n + 2] = d
      /\ \A i \in 1..n : r[i] = st[i]
  BY <1>1, <1>2, <1>3
<1>6. d.part = "data"
  BY DEF Wire
<1> HIDE DEF n
<1>7. ASSUME NEW i \in 1..(n + 2)
      PROVE  IF i % 2 = 1
               THEN /\ r[i].part = "type" /\ i < n + 2
                    /\ r[i + 1] = [r[i] EXCEPT !.part = "data"]
               ELSE r[i].part = "data"
  <2>1. CASE i \in 1..n
    <3>1. CASE i % 2 = 1
      <4>1. st[i].part = "type" /\ i < n /\ st[i + 1] = [st[i] EXCEPT !.part = "data"]
        BY <2>1, <3>1 DEF Whole, n
      <4>2. i + 1 \in 1..n
        BY <1>2, <2>1, <4>1
      <4>3. r[i] = st[i] /\ r[i + 1] = st[i + 1] /\ i < n + 2
        BY <1>2, <1>5, <2>1, <4>2
      <4> QED
        BY <3>1, <4>1, <4>3
    <3>2. CASE i % 2 # 1
      BY <1>5, <2>1, <3>2 DEF Whole, n
    <3> QED
      BY <3>1, <3>2
  <2>2. CASE i = n + 1
    <3>1. i % 2 = 1 /\ i < n + 2 /\ i + 1 = n + 2
      BY <1>2, <1>4, <2>2
    <3> QED
      BY <1>5, <2>2, <3>1
  <2>3. CASE i = n + 2
    <3>1. i % 2 # 1
      BY <1>2, <1>4, <2>3
    <3> QED
      BY <1>5, <1>6, <2>3, <3>1
  <2> QED
    BY <1>2, <2>1, <2>2, <2>3
<1>8. Whole(r)
  BY <1>5, <1>7 DEF Whole
<1> QED
  BY <1>8 DEF r, u

\* The first message removed leaves whole messages.
LEMMA WholeShrinks ==
  ASSUME NEW st \in Seq(Wire), NEW r \in Seq(Wire), Whole(st), Len(st) = Len(r) + 2,
         \A i \in 1..Len(r) : r[i] = st[i + 2]
  PROVE  Whole(r)
<1>1. Len(r) \in Nat
  BY LenProperties
<1> SUFFICES ASSUME NEW i \in 1..Len(r)
             PROVE  IF i % 2 = 1
                      THEN /\ r[i].part = "type" /\ i < Len(r)
                           /\ r[i + 1] = [r[i] EXCEPT !.part = "data"]
                      ELSE r[i].part = "data"
  BY DEF Whole
<1>2. i + 2 \in 1..Len(st) /\ (i + 2) % 2 = i % 2 /\ i \in Nat
  BY <1>1
<1>3. IF i % 2 = 1
        THEN /\ st[i + 2].part = "type" /\ i + 2 < Len(st)
             /\ st[(i + 2) + 1] = [st[i + 2] EXCEPT !.part = "data"]
        ELSE st[i + 2].part = "data"
  BY <1>2 DEF Whole
<1>4. CASE i % 2 = 1
  <2>1. i < Len(r) /\ i + 1 \in 1..Len(r) /\ (i + 2) + 1 = (i + 1) + 2
    BY <1>1, <1>2, <1>3, <1>4
  <2> QED
    BY <1>3, <1>4, <2>1
<1>5. CASE i % 2 # 1
  BY <1>3, <1>5
<1> QED
  BY <1>4, <1>5

\* The stream is a sequence of frames.
LEMMA StreamType ==
  ASSUME NEW h \in Seq(Reading), Len(h) <= 1, NEW p \in Seq(Wire), NEW last \in Seq(Wire)
  PROVE  Heading(h) \in Seq(Wire) /\ Heading(h) \o p \in Seq(Wire)
         /\ StreamOf(h, p, last) \in Seq(Wire)
<1>1. Heading(h) \in Seq(Wire)
  <2>1. CASE h = <<>>
    BY <2>1, HeadingIs DEF Heading
  <2>2. ASSUME NEW m \in Reading, h = <<m>>
        PROVE  Heading(h) \in Seq(Wire)
    <3> DEFINE t == [part |-> "type", msg |-> m]
    <3>1. Heading(h) = <<t>> /\ t \in Wire
      BY <2>2, HeadingIs
    <3> HIDE DEF t
    <3> QED
      BY <3>1, Short
  <2> QED
    BY <2>1, <2>2, HeldCases
<1> QED
  BY <1>1, ConcatProperties DEF StreamOf

\* The type frame put on its way makes room for the payload: the stream has
\* one message more.
LEMMA StreamSendType ==
  ASSUME NEW h \in Seq(Reading), Len(h) <= 1, NEW p \in Seq(Wire), NEW t \in Wire, NEW d \in Wire
  PROVE  StreamOf(h, Append(p, t), <<d>>) = Append(Append(StreamOf(h, p, <<>>), t), d)
<1> DEFINE a == Heading(h)
<1>1. <<t>> \in Seq(Wire) /\ <<>> \in Seq(Wire)
  BY Short, EmptySeq
<1>2. a \in Seq(Wire) /\ a \o p \in Seq(Wire)
  BY <1>1, StreamType
<1> HIDE DEF a
<1>3. StreamOf(h, p, <<>>) = a \o p
  BY <1>2, ConcatEmptySeq DEF StreamOf, a
<1>4. a \o Append(p, t) = Append(a \o p, t)
  BY <1>1, <1>2, AppendIsConcat, ConcatAssociative
<1>5. Append(a \o p, t) \in Seq(Wire)
  BY <1>2, Pushed
<1>6. Append(a \o p, t) \o <<d>> = Append(Append(a \o p, t), d)
  BY <1>5, AppendIsConcat
<1> QED
  BY <1>3, <1>4, <1>6 DEF StreamOf, a

\* The payload put on its way leaves the stream as it is.
LEMMA StreamSendData ==
  ASSUME NEW h \in Seq(Reading), Len(h) <= 1, NEW p \in Seq(Wire), NEW d \in Wire
  PROVE  StreamOf(h, Append(p, d), <<>>) = StreamOf(h, p, <<d>>)
<1> DEFINE a == Heading(h)
<1>1. <<d>> \in Seq(Wire) /\ Append(p, d) \in Seq(Wire)
  BY Short, Pushed
<1>2. a \in Seq(Wire)
  BY <1>1, StreamType
<1> HIDE DEF a
<1>3. a \o Append(p, d) = (a \o p) \o <<d>>
  BY <1>1, <1>2, AppendIsConcat, ConcatAssociative
<1>4. a \o Append(p, d) \in Seq(Wire)
  BY <1>1, <1>2, ConcatProperties
<1>5. (a \o Append(p, d)) \o <<>> = a \o Append(p, d)
  BY <1>4, ConcatEmptySeq
<1> QED
  BY <1>3, <1>5 DEF StreamOf, a

\* A type frame taken, and held, leaves the stream as it is.
LEMMA StreamReceiveType ==
  ASSUME NEW p \in Seq(Wire), p # <<>>, NEW last \in Seq(Wire), Head(p).part = "type"
  PROVE  StreamOf(<<Head(p).msg>>, Tail(p), last) = StreamOf(<<>>, p, last)
<1>1. Head(p) \in Wire /\ Tail(p) \in Seq(Wire) /\ p = <<Head(p)>> \o Tail(p)
  BY HeadTailProperties, Popped, SeqEqual
<1>2. Head(p).msg \in Reading /\ Head(p) = [part |-> "type", msg |-> Head(p).msg]
  BY <1>1 DEF Wire
<1>3. Heading(<<Head(p).msg>>) = <<Head(p)>>
  BY <1>2, HeadingIs
<1>4. Heading(<<>>) \o p = p
  BY <1>2, HeadingIs, ConcatEmptySeq
<1> QED
  BY <1>1, <1>3, <1>4 DEF StreamOf

\* A payload taken removes the first message of the stream.
LEMMA StreamReceiveData ==
  ASSUME NEW m \in Reading, NEW p \in Seq(Wire), p # <<>>, NEW last \in Seq(Wire),
         NEW st, st = StreamOf(<<m>>, p, last), NEW r, r = StreamOf(<<>>, Tail(p), last)
  PROVE  /\ st \in Seq(Wire) /\ r \in Seq(Wire) /\ Len(st) = Len(r) + 2
         /\ st[1] = [part |-> "type", msg |-> m] /\ st[2] = Head(p)
         /\ \A i \in 1..Len(r) : r[i] = st[i + 2]
<1> DEFINE t == [part |-> "type", msg |-> m]
           g == Head(p)
           q == Tail(p)
           u == <<t>> \o <<g>>
<1>1. g \in Wire /\ q \in Seq(Wire) /\ p = <<g>> \o q
  BY HeadTailProperties
<1>2. t \in Wire /\ Heading(<<m>>) = <<t>> /\ Heading(<<>>) = <<>>
  BY HeadingIs
<1> HIDE DEF t, g, q
<1>3. /\ u \in Seq(Wire) /\ Len(u) = 2 /\ u[1] = t /\ u[2] = g
      /\ <<t>> \in Seq(Wire) /\ <<g>> \in Seq(Wire)
  BY <1>1, <1>2, Short
<1>4. <<t>> \o p = u \o q
  BY <1>1, <1>3, ConcatAssociative
<1> HIDE DEF u
<1>5. st = u \o (q \o last)
  <2>1. st = (<<t>> \o p) \o last
    BY <1>2 DEF StreamOf
  <2>2. u \in Seq(Wire) /\ q \in Seq(Wire)
    BY <1>1, <1>3
  <2>3. (u \o q) \o last = u \o (q \o last)
    BY <2>2, ConcatAssociative
  <2> QED
    BY <1>4, <2>1, <2>3
<1>6. <<>> \o q = q
  BY <1>1, ConcatEmptySeq
<1>7. r = q \o last /\ r \in Seq(Wire)
  BY <1>1, <1>2, <1>6, ConcatProperties DEF StreamOf, q
<1>8. Len(r) \in Nat
  BY <1>7, LenProperties
<1>9. st = u \o r
  BY <1>5, <1>7
<1>10. /\ st \in Seq(Wire) /\ Len(st) = 2 + Len(r)
       /\ \A i \in 1..(2 + Len(r)) : st[i] = IF i <= 2 THEN u[i] ELSE r[i - 2]
  <2>1. /\ u \o r \in Seq(Wire) /\ Len(u \o r) = Len(u) + Len(r)
        /\ \A i \in 1..(Len(u) + Len(r)) :
             (u \o r)[i] = IF i <= Len(u) THEN u[i] ELSE r[i - Len(u)]
    BY <1>3, <1>7, ConcatProperties
  <2> QED
    BY <1>3, <1>9, <2>1
<1>11. st[1] = u[1] /\ st[2] = u[2]
  BY <1>8, <1>10
<1>12. ASSUME NEW i \in 1..Len(r)
       PROVE  r[i] = st[i + 2]
  <2>1. i + 2 \in 1..(2 + Len(r)) /\ ~(i + 2 <= 2) /\ (i + 2) - 2 = i
    BY <1>8
  <2> QED
    BY <1>10, <2>1
<1>13. Len(st) = Len(r) + 2
  BY <1>8, <1>10
<1> QED
  BY <1>3, <1>7, <1>10, <1>11, <1>12, <1>13 DEF t, g

-----------------------------------------------------------------------------
(* The order of the messages.                                              *)

\* The messages received, g, are among the first p of those submitted, s, in
\* their order and none twice.
Got(g, s, p) ==
  \A i \in 1..Len(g) :
    /\ g[i].seq \in 1..p
    /\ g[i] = s[g[i].seq]
    /\ \A j \in 1..(i - 1) : g[j].seq < g[i].seq

\* So are those of the stream, and they come after the ones received.
Coming(st, g, s, p) ==
  \A i \in 1..Len(st) :
    /\ st[i].msg.seq \in 1..p
    /\ st[i].msg = s[st[i].msg.seq]
    /\ \A j \in 1..(i - 2) : st[j].msg.seq < st[i].msg.seq
    /\ \A j \in 1..Len(g) : g[j].seq < st[i].msg.seq

\* What was passed on stays what it was when another message is submitted.
LEMMA OrderSubmitted ==
  ASSUME NEW g \in Seq(Reading), NEW st \in Seq(Wire), NEW s \in Seq(Message),
         NEW m \in Message, NEW p \in Nat, p <= Len(s)
  PROVE  /\ Got(g, s, p) => Got(g, Append(s, m), p)
         /\ Coming(st, g, s, p) => Coming(st, g, Append(s, m), p)
<1> DEFINE u == Append(s, m)
<1>1. Len(s) \in Nat /\ \A i \in 1..Len(s) : u[i] = s[i]
  BY Pushed, LenProperties
<1> HIDE DEF u
<1>2. \A i \in 1..p : u[i] = s[i]
  BY <1>1
<1>3. Got(g, s, p) => Got(g, u, p)
  BY <1>2 DEF Got
<1>4. Coming(st, g, s, p) => Coming(st, g, u, p)
  BY <1>2 DEF Coming
<1> QED
  BY <1>3, <1>4 DEF u

\* The next message submitted can follow those on their way.
LEMMA OrderSent ==
  ASSUME NEW g \in Seq(Reading), NEW st \in Seq(Wire), NEW s \in Seq(Message),
         NEW p \in Nat, Got(g, s, p), Coming(st, g, s, p), s[p + 1].seq = p + 1,
         NEW t \in Wire, t.msg = s[p + 1], NEW d \in Wire, d.msg = s[p + 1]
  PROVE  Got(g, s, p + 1) /\ Coming(Append(Append(st, t), d), g, s, p + 1)
<1> DEFINE u == Append(st, t)
           r == Append(u, d)
           n == Len(st)
<1>1. /\ u \in Seq(Wire) /\ Len(u) = n + 1 /\ u[n + 1] = t
      /\ \A i \in 1..n : u[i] = st[i]
  BY Pushed
<1>2. n \in Nat
  BY LenProperties
<1> HIDE DEF u
<1>3. /\ Len(r) = Len(u) + 1 /\ r[Len(u) + 1] = d
      /\ \A i \in 1..Len(u) : r[i] = u[i]
  BY <1>1, Pushed
<1> HIDE DEF r
<1>4. /\ Len(r) = n + 2 /\ r[n + 1] = t /\ r[n + 2] = d
      /\ \A i \in 1..n : r[i] = st[i]
  BY <1>1, <1>2, <1>3
<1>5. /\ \A i \in 1..n : st[i].msg.seq \in 1..p /\ st[i].msg = s[st[i].msg.seq]
      /\ \A i \in 1..n : \A j \in 1..(i - 2) : st[j].msg.seq < st[i].msg.seq
      /\ \A i \in 1..n : \A j \in 1..Len(g) : g[j].seq < st[i].msg.seq
  BY DEF Coming
<1>6. Len(g) \in Nat /\ \A j \in 1..Len(g) : g[j].seq \in 1..p
  BY LenProperties DEF Got
<1> HIDE DEF n
<1>7. \A k \in 1..p : k \in 1..(p + 1) /\ k < p + 1
  OBVIOUS
<1>8. Got(g, s, p + 1)
  BY <1>7 DEF Got
<1>9. ASSUME NEW i \in 1..(n + 2)
      PROVE  /\ r[i].msg.seq \in 1..(p + 1) /\ r[i].msg = s[r[i].msg.seq]
             /\ \A j \in 1..(i - 2) : r[j].msg.seq < r[i].msg.seq
             /\ \A j \in 1..Len(g) : g[j].seq < r[i].msg.seq
  <2>1. CASE i \in 1..n
    <3>1. r[i] = st[i] /\ \A j \in 1..(i - 2) : r[j] = st[j]
      BY <1>2, <1>4, <2>1
    <3> QED
      BY <1>5, <1>7, <2>1, <3>1
  <2>2. CASE i \in {n + 1, n + 2}
    <3>1. r[i].msg = s[p + 1] /\ r[i].msg.seq = p + 1
      BY <1>4, <2>2
    <3>2. ASSUME NEW j \in 1..(i - 2)
          PROVE  r[j].msg.seq < p + 1
      <4>1. j \in 1..n
        BY <1>2, <2>2
      <4> QED
        BY <1>4, <1>5, <1>7, <4>1
    <3>3. \A j \in 1..Len(g) : g[j].seq < p + 1
      BY <1>6, <1>7
    <3>4. p + 1 \in 1..(p + 1)
      OBVIOUS
    <3> QED
      BY <3>1, <3>2, <3>3, <3>4
  <2> QED
    BY <1>2, <2>1, <2>2
<1>10. Coming(r, g, s, p + 1)
  BY <1>4, <1>9 DEF Coming
<1> QED
  BY <1>8, <1>10 DEF r, u

\* The first message of the stream can be received, or dropped.
LEMMA OrderReceived ==
  ASSUME NEW g \in Seq(Reading), NEW st \in Seq(Wire), NEW r \in Seq(Wire), NEW s, NEW p \in Nat,
         Got(g, s, p), Coming(st, g, s, p), Len(st) = Len(r) + 2,
         \A i \in 1..Len(r) : r[i] = st[i + 2],
         NEW m \in Reading, st[1].msg = m
  PROVE  /\ Coming(r, g, s, p)
         /\ Got(Append(g, m), s, p) /\ Coming(r, Append(g, m), s, p)
<1> DEFINE h == Append(g, m)
           n == Len(g)
<1>1. /\ h \in Seq(Reading) /\ Len(h) = n + 1 /\ h[n + 1] = m
      /\ \A i \in 1..n : h[i] = g[i]
  BY Pushed
<1>2. n \in Nat /\ Len(r) \in Nat
  BY LenProperties
<1>3. /\ \A i \in 1..Len(st) : st[i].msg.seq \in 1..p /\ st[i].msg = s[st[i].msg.seq]
      /\ \A i \in 1..Len(st) : \A j \in 1..(i - 2) : st[j].msg.seq < st[i].msg.seq
      /\ \A i \in 1..Len(st) : \A j \in 1..n : g[j].seq < st[i].msg.seq
  BY DEF Coming
<1>4. /\ \A i \in 1..n : g[i].seq \in 1..p /\ g[i] = s[g[i].seq]
      /\ \A i \in 1..n : \A j \in 1..(i - 1) : g[j].seq < g[i].seq
  BY DEF Got
<1>5. 1 \in 1..Len(st)
  BY <1>2
<1>6. m.seq \in 1..p /\ m = s[m.seq] /\ \A j \in 1..n : g[j].seq < m.seq
  BY <1>3, <1>5
<1> HIDE DEF h, n
<1>7. ASSUME NEW i \in 1..Len(r)
      PROVE  /\ r[i].msg.seq \in 1..p /\ r[i].msg = s[r[i].msg.seq]
             /\ \A j \in 1..(i - 2) : r[j].msg.seq < r[i].msg.seq
             /\ \A j \in 1..n : g[j].seq < r[i].msg.seq
             /\ m.seq < r[i].msg.seq
  <2>1. i + 2 \in 1..Len(st) /\ 1 \in 1..((i + 2) - 2)
    BY <1>2
  <2>2. r[i] = st[i + 2]
    OBVIOUS
  <2>3. \A j \in 1..(i - 2) : r[j] = st[j + 2] /\ j + 2 \in 1..((i + 2) - 2)
    BY <1>2
  <2> QED
    BY <1>3, <2>1, <2>2, <2>3
<1>8. Coming(r, g, s, p)
  BY <1>7 DEF Coming, n
<1>9. ASSUME NEW i \in 1..(n + 1)
      PROVE  /\ h[i].seq \in 1..p /\ h[i] = s[h[i].seq]
             /\ \A j \in 1..(i - 1) : h[j].seq < h[i].seq
  <2>1. CASE i \in 1..n
    <3>1. h[i] = g[i] /\ \A j \in 1..(i - 1) : h[j] = g[j]
      BY <1>1, <1>2, <2>1
    <3> QED
      BY <1>4, <2>1, <3>1
  <2>2. CASE i = n + 1
    <3>1. \A j \in 1..(i - 1) : j \in 1..n /\ h[j] = g[j]
      BY <1>1, <1>2, <2>2
    <3> QED
      BY <1>1, <1>6, <2>2, <3>1
  <2> QED
    BY <1>2, <2>1, <2>2
<1>10. Got(h, s, p)
  BY <1>1, <1>9 DEF Got
<1>11. ASSUME NEW i \in 1..Len(r)
       PROVE  \A j \in 1..Len(h) : h[j].seq < r[i].msg.seq
  <2> SUFFICES ASSUME NEW j \in 1..(n + 1)
               PROVE  h[j].seq < r[i].msg.seq
    BY <1>1
  <2>1. CASE j \in 1..n
    BY <1>1, <1>7, <2>1
  <2>2. CASE j = n + 1
    BY <1>1, <1>7, <2>2
  <2> QED
    BY <1>2, <2>1, <2>2
<1>12. Coming(r, h, s, p)
  BY <1>7, <1>11 DEF Coming
<1> QED
  BY <1>8, <1>10, <1>12 DEF h

\* What a deleted object had handled stays genuine, whatever its inbox held.
LEMMA OrderKept ==
  ASSUME NEW h \in Seq(Reading), NEW q \in Seq(Reading), NEW s, NEW p \in Nat,
         Got(h \o q, s, p)
  PROVE  Got(h, s, p)
<1> DEFINE g == h \o q
<1>1. Len(h) \in Nat /\ Len(q) \in Nat
  BY LenProperties
<1>2. Len(g) = Len(h) + Len(q) /\ \A i \in 1..Len(h) : g[i] = h[i]
  BY <1>1, ConcatProperties
<1> HIDE DEF g
<1>3. \A i \in 1..Len(h) : i \in 1..Len(g) /\ \A j \in 1..(i - 1) : j \in 1..Len(h)
  BY <1>1, <1>2
<1>4. Got(g, s, p)
  BY DEF g
<1> QED
  BY <1>2, <1>3, <1>4 DEF Got

-----------------------------------------------------------------------------
(* Both invariants, of a direction.                                        *)

\* How many messages SendMessages has passed on, or begun to.
Passed(e) == (Len(sent[e]) - Len(outbox[e])) + (IF sendPart[e] = "data" THEN 1 ELSE 0)

GotAt(e) == handled[e] \o inbox[e]

StreamAt(e) == StreamOf(held[e], pipe[e], Pending(Peer(e)))

\* Unless it was cut, what has come is in order, and while the sockets are
\* connected so are the whole messages that are to come.
Flow(g, st, s, p, l) == Got(g, s, p) /\ (l => Whole(st) /\ Coming(st, g, s, p))

FlowAt(e) == ~cut[e] => Flow(GotAt(e), StreamAt(e), sent[Peer(e)], Passed(Peer(e)), linked)

FlowInv == \A e \in Endpoints : FlowAt(e)

\* The types of the parts of a direction, and what the sender passes on next.
LEMMA FlowTypes ==
  ASSUME BaseInv, NEW e \in Endpoints
  PROVE  /\ handled[e] \in Seq(Reading) /\ inbox[e] \in Seq(Reading)
         /\ GotAt(e) \in Seq(Reading)
         /\ held[e] \in Seq(Reading) /\ Len(held[e]) <= 1
         /\ pipe[e] \in Seq(Wire) /\ Pending(Peer(e)) \in Seq(Wire)
         /\ StreamAt(e) \in Seq(Wire)
         /\ sent[e] \in Seq(Message) /\ outbox[e] \in Seq(Message)
         /\ Passed(e) \in Nat /\ Passed(e) <= Len(sent[e])
<1>1. /\ handled[e] \in Seq(Reading) /\ inbox[e] \in Seq(Reading)
      /\ held[e] \in Seq(Reading) /\ Len(held[e]) <= 1
      /\ sent[e] \in Seq(Message) /\ outbox[e] \in Seq(Message) /\ pipe[e] \in Seq(Frame)
  BY DEF BaseInv, QueuesOK, SocketsOK
<1>2. GotAt(e) \in Seq(Reading)
  BY <1>1, ConcatProperties DEF GotAt
<1>3. pipe[e] \in Seq(Wire)
  BY <1>1, FramesAreWire
<1>4. ASSUME NEW x \in Endpoints
      PROVE  Pending(x) \in Seq(Wire)
  <2>1. CASE sendPart[x] = "data"
    <3>1. outbox[x] # <<>> /\ outbox[x] \in Seq(Message)
      BY <2>1 DEF BaseInv, BoxInv, BoxAt, QueuesOK
    <3>2. Head(outbox[x]) \in Reading
      BY <3>1, Popped, FramesAreWire
    <3>3. Payload(Head(outbox[x])) \in Wire
      BY <3>2, HeadingIs
    <3> QED
      BY <2>1, <3>3, Short DEF Pending
  <2>2. CASE sendPart[x] # "data"
    BY <2>2, EmptySeq DEF Pending
  <2> QED
    BY <2>1, <2>2
<1>5. Pending(Peer(e)) \in Seq(Wire)
  BY <1>4, PeerIsOther
<1>6. StreamAt(e) \in Seq(Wire)
  BY <1>1, <1>3, <1>5, StreamType DEF StreamAt
<1>7. Passed(e) \in Nat /\ Passed(e) <= Len(sent[e])
  <2>1. Len(sent[e]) \in Nat /\ Len(outbox[e]) \in Nat /\ Len(outbox[e]) <= Len(sent[e])
    BY <1>1, LenProperties DEF BaseInv, BoxInv, BoxAt, Suffix
  <2>2. CASE sendPart[e] = "data"
    <3>1. Len(outbox[e]) \in Nat \ {0}
      BY <1>1, <2>2, Popped DEF BaseInv, BoxInv, BoxAt
    <3> QED
      BY <2>1, <2>2, <3>1 DEF Passed
  <2>3. CASE sendPart[e] # "data"
    BY <2>1, <2>3 DEF Passed
  <2> QED
    BY <2>2, <2>3
<1> QED
  BY <1>1, <1>2, <1>3, <1>5, <1>6, <1>7

\* A direction that is not touched stays as it is.
LEMMA FlowSame ==
  ASSUME NEW e \in Endpoints, FlowAt(e), cut'[e] = cut[e], linked' = linked,
         GotAt(e)' = GotAt(e), StreamAt(e)' = StreamAt(e),
         sent'[Peer(e)] = sent[Peer(e)], Passed(Peer(e))' = Passed(Peer(e))
  PROVE  FlowAt(e)'
BY DEF FlowAt

\* So it is when none of its queues is.
LEMMA FlowUntouched ==
  ASSUME NEW e \in Endpoints, FlowAt(e), cut'[e] = cut[e], linked' = linked,
         handled'[e] = handled[e], inbox'[e] = inbox[e], held'[e] = held[e],
         pipe'[e] = pipe[e], outbox'[Peer(e)] = outbox[Peer(e)],
         sent'[Peer(e)] = sent[Peer(e)], sendPart'[Peer(e)] = sendPart[Peer(e)]
  PROVE  FlowAt(e)'
<1>1. GotAt(e)' = GotAt(e)
  BY DEF GotAt
<1>2. StreamAt(e)' = StreamAt(e)
  BY DEF StreamAt, Pending, Payload
<1>3. Passed(Peer(e))' = Passed(Peer(e))
  BY DEF Passed
<1> QED
  BY <1>1, <1>2, <1>3, FlowSame

\* It is enough to look at the direction an object receives from and at the
\* one it sends to.
LEMMA FlowBoth ==
  ASSUME NEW e \in Endpoints, FlowAt(e)', FlowAt(Peer(e))'
  PROVE  FlowInv'
BY PeerIsOther DEF FlowInv

\* The core of an object: a message handled leaves the inbox for the
\* messages handled, one submitted waits behind those passed on.
LEMMA FlowCore ==
  ASSUME BaseInv, FlowInv, NEW e \in Endpoints, CoreStep(e), UNCHANGED mediumVars
  PROVE  FlowInv'
<1>1. Peer(e) \in Endpoints /\ Peer(e) # e /\ Peer(Peer(e)) = e /\ FlowAt(e) /\ FlowAt(Peer(e))
  BY PeerIsOther DEF FlowInv
<1>2. CASE Quiet(e)
  BY <1>1, <1>2, FlowUntouched, FlowBoth DEF Quiet, mediumVars
<1>3. CASE Handles(e)
  <2>1. /\ inbox[e] # <<>> /\ UNCHANGED <<outbox, sent, linked, pipe, sendPart, held, cut>>
        /\ inbox' = [inbox EXCEPT ![e] = Tail(inbox[e])]
        /\ handled' = [handled EXCEPT ![e] = Append(handled[e], Head(inbox[e]))]
    BY <1>3 DEF Handles, mediumVars
  <2>2. /\ inbox'[e] = Tail(inbox[e]) /\ handled'[e] = Append(handled[e], Head(inbox[e]))
        /\ inbox'[Peer(e)] = inbox[Peer(e)] /\ handled'[Peer(e)] = handled[Peer(e)]
    BY <1>1, <2>1 DEF BaseInv, QueuesOK
  <2>3. FlowAt(Peer(e))'
    BY <1>1, <2>1, <2>2, FlowUntouched
  <2>4. GotAt(e)' = GotAt(e)
    <3>1. handled'[e] \o inbox'[e] = handled[e] \o inbox[e]
      <4>1. handled[e] \in Seq(Reading) /\ inbox[e] \in Seq(Reading)
        BY FlowTypes
      <4>2. \A h, q \in Seq(Reading) : q # <<>> => Append(h, Head(q)) \o Tail(q) = h \o q
        BY HeadMoves
      <4>3. Append(handled[e], Head(inbox[e])) \o Tail(inbox[e]) = handled[e] \o inbox[e]
        BY <2>1, <4>1, <4>2
      <4> QED
        BY <2>2, <4>3
    <3> QED
      BY <3>1 DEF GotAt
  <2>5. StreamAt(e)' = StreamAt(e) /\ Passed(Peer(e))' = Passed(Peer(e))
    BY <2>1 DEF StreamAt, Pending, Payload, Passed
  <2>6. FlowAt(e)'
    BY <1>1, <2>1, <2>4, <2>5, FlowSame
  <2> QED
    BY <2>3, <2>6, FlowBoth
<1>4. ASSUME NEW m, Submits(e, m)
      PROVE  FlowInv'
  <2> DEFINE r == Peer(e)
  <2>1. /\ m \in Message
        /\ outbox' = [outbox EXCEPT ![e] = Append(outbox[e], m)]
        /\ sent' = [sent EXCEPT ![e] = Append(sent[e], m)]
        /\ UNCHANGED <<inbox, handled, linked, pipe, sendPart, held, cut>>
    BY <1>4 DEF Submits, mediumVars
  <2>2. /\ outbox'[e] = Append(outbox[e], m) /\ sent'[e] = Append(sent[e], m)
        /\ outbox'[r] = outbox[r] /\ sent'[r] = sent[r]
    BY <1>1, <2>1 DEF BaseInv, QueuesOK
  <2>3. FlowAt(e)'
    BY <1>1, <2>1, <2>2, FlowUntouched
  <2>4. GotAt(r)' = GotAt(r)
    BY <2>1 DEF GotAt
  <2>5. Pending(e)' = Pending(e)
    <3>1. CASE sendPart[e] = "data"
      <4>1. outbox[e] # <<>> /\ outbox[e] \in Seq(Message)
        BY <3>1, FlowTypes DEF BaseInv, BoxInv, BoxAt
      <4>2. Head(Append(outbox[e], m)) = Head(outbox[e])
        BY <4>1, HeadTailAppend
      <4> QED
        BY <2>1, <2>2, <4>2 DEF Pending, Payload
    <3>2. CASE sendPart[e] # "data"
      BY <2>1, <3>2 DEF Pending
    <3> QED
      BY <3>1, <3>2
  <2>6. StreamAt(r)' = StreamAt(r)
    BY <1>1, <2>1, <2>5 DEF StreamAt
  <2>7. /\ Len(Append(sent[e], m)) = Len(sent[e]) + 1
        /\ Len(Append(outbox[e], m)) = Len(outbox[e]) + 1
        /\ Len(sent[e]) \in Nat /\ Len(outbox[e]) \in Nat
    BY <2>1, FlowTypes, Pushed, LenProperties
  <2>8. Passed(e)' = Passed(e)
    <3>1. Len(sent'[e]) - Len(outbox'[e]) = Len(sent[e]) - Len(outbox[e])
      <4>1. \A a, b \in Nat : (a + 1) - (b + 1) = a - b
        OBVIOUS
      <4> QED
        BY <2>2, <2>7, <4>1
    <3> QED
      BY <2>1, <3>1 DEF Passed
  <2>9. /\ GotAt(r) \in Seq(Reading) /\ StreamAt(r) \in Seq(Wire)
        /\ sent[e] \in Seq(Message) /\ Passed(e) \in Nat /\ Passed(e) <= Len(sent[e])
    BY <1>1, FlowTypes
  <2>10. FlowAt(r)'
    <3> SUFFICES ASSUME ~cut[r]
                 PROVE  Flow(GotAt(r), StreamAt(r), Append(sent[e], m), Passed(e), linked)
      BY <1>1, <2>1, <2>2, <2>4, <2>6, <2>8 DEF FlowAt
    <3>1. Flow(GotAt(r), StreamAt(r), sent[e], Passed(e), linked)
      BY <1>1 DEF FlowAt
    <3> QED
      BY <2>1, <2>9, <3>1, OrderSubmitted DEF Flow
  <2> QED
    BY <2>3, <2>10, FlowBoth
<1> QED
  BY <1>2, <1>3, <1>4, CoreEffects DEF BaseInv

\* The type frame put on its way: one message more is coming.
LEMMA FlowSendType ==
  ASSUME BaseInv, FlowInv, NEW e \in Endpoints, SendTypeFrame(e)
  PROVE  FlowInv'
<1> DEFINE r == Peer(e)
           m == Head(outbox[e])
           t == [part |-> "type", msg |-> m]
           d == Payload(m)
<1>1. r \in Endpoints /\ r # e /\ Peer(r) = e /\ FlowAt(e) /\ FlowAt(r)
  BY PeerIsOther DEF FlowInv
<1>2. /\ UNCHANGED <<outbox, inbox, sent, handled, linked, held, cut>>
      /\ linked /\ outbox[e] # <<>> /\ sendPart[e] = "type"
      /\ sendPart' = [sendPart EXCEPT ![e] = "data"]
      /\ pipe' = [pipe EXCEPT ![r] = Append(pipe[r], t)]
  BY SendTypeEffects DEF BaseInv
<1>3. /\ sendPart'[e] = "data" /\ sendPart'[r] = sendPart[r]
      /\ pipe'[r] = Append(pipe[r], t) /\ pipe'[e] = pipe[e]
  BY <1>1, <1>2 DEF BaseInv, ControlOK, QueuesOK
<1>4. FlowAt(e)'
  BY <1>1, <1>2, <1>3, FlowUntouched
<1>5. m \in Message /\ m = sent[e][Len(sent[e]) - Len(outbox[e]) + 1]
      /\ m.seq = Len(sent[e]) - Len(outbox[e]) + 1
  BY <1>2, HeadOfOutbox DEF BaseInv, BoxInv
<1>6. t \in Wire /\ d \in Wire /\ t.part = "type" /\ t.msg = m /\ d.msg = m
      /\ d = [t EXCEPT !.part = "data"]
  <2>1. t \in Wire /\ d \in Wire
    BY <1>5, FramesAreWire, HeadingIs
  <2>2. t.part = "type" /\ t.msg = m /\ d.msg = m /\ d = [t EXCEPT !.part = "data"]
    BY DEF Payload
  <2> QED
    BY <2>1, <2>2
<1>7. Pending(e) = <<>> /\ Pending(e)' = <<d>>
  BY <1>2, <1>3 DEF Pending, Payload
<1> HIDE DEF t, d, m
<1>8. StreamAt(r) = StreamOf(held[r], pipe[r], <<>>)
  BY <1>1, <1>7 DEF StreamAt
<1>9. StreamAt(r)' = StreamOf(held[r], Append(pipe[r], t), <<d>>)
  BY <1>1, <1>2, <1>3, <1>7 DEF StreamAt
<1>10. StreamAt(r)' = Append(Append(StreamAt(r), t), d)
  <2>1. held[r] \in Seq(Reading) /\ Len(held[r]) <= 1 /\ pipe[r] \in Seq(Wire)
    BY <1>1, FlowTypes
  <2>2. t \in Wire /\ d \in Wire
    BY <1>6
  <2>3. StreamOf(held[r], Append(pipe[r], t), <<d>>)
          = Append(Append(StreamOf(held[r], pipe[r], <<>>), t), d)
    BY <2>1, <2>2, StreamSendType
  <2> QED
    BY <1>8, <1>9, <2>3
<1>11. GotAt(r)' = GotAt(r)
  BY <1>2 DEF GotAt
<1>12. /\ Passed(e) = Len(sent[e]) - Len(outbox[e]) /\ Passed(e)' = Passed(e) + 1
       /\ Passed(e) \in Nat
  <2>1. Len(sent[e]) \in Nat /\ Len(outbox[e]) \in Nat /\ Passed(e) \in Nat
    BY FlowTypes, LenProperties
  <2>2. Passed(e) = Len(sent[e]) - Len(outbox[e])
    BY <1>2, <2>1 DEF Passed
  <2>3. Passed(e)' = Len(sent[e]) - Len(outbox[e]) + 1
    BY <1>2, <1>3, <2>1 DEF Passed
  <2> QED
    BY <2>1, <2>2, <2>3
<1>13. m = sent[e][Passed(e) + 1] /\ sent[e][Passed(e) + 1].seq = Passed(e) + 1
  BY <1>5, <1>12
<1>14. FlowAt(r)'
  <2> SUFFICES ASSUME ~cut[r]
               PROVE  Flow(GotAt(r), Append(Append(StreamAt(r), t), d), sent[e],
                           Passed(e) + 1, TRUE)
    BY <1>1, <1>2, <1>10, <1>11, <1>12 DEF FlowAt, Flow
  <2>1. /\ Got(GotAt(r), sent[e], Passed(e)) /\ Whole(StreamAt(r))
        /\ Coming(StreamAt(r), GotAt(r), sent[e], Passed(e))
    BY <1>1, <1>2 DEF FlowAt, Flow
  <2>2. /\ GotAt(r) \in Seq(Reading) /\ StreamAt(r) \in Seq(Wire) /\ sent[e] \in Seq(Message)
    BY <1>1, FlowTypes
  <2>3. Whole(Append(Append(StreamAt(r), t), d))
    BY <1>6, <2>1, <2>2, WholeGrows
  <2>4. /\ Got(GotAt(r), sent[e], Passed(e) + 1)
        /\ Coming(Append(Append(StreamAt(r), t), d), GotAt(r), sent[e], Passed(e) + 1)
    BY <1>6, <1>12, <1>13, <2>1, <2>2, OrderSent
  <2> QED
    BY <2>3, <2>4 DEF Flow
<1> QED
  BY <1>4, <1>14, FlowBoth

\* The payload put on its way, and the message popped: nothing changes for
\* the receiver.
LEMMA FlowSendData ==
  ASSUME BaseInv, FlowInv, NEW e \in Endpoints, SendDataFrame(e)
  PROVE  FlowInv'
<1> DEFINE r == Peer(e)
           m == Head(outbox[e])
           d == Payload(m)
<1>1. r \in Endpoints /\ r # e /\ Peer(r) = e /\ FlowAt(e) /\ FlowAt(r)
  BY PeerIsOther DEF FlowInv
<1>2. /\ UNCHANGED <<inbox, sent, handled, linked, held, cut>>
      /\ linked /\ outbox[e] # <<>> /\ sendPart[e] = "data"
      /\ sendPart' = [sendPart EXCEPT ![e] = "type"]
      /\ outbox' = [outbox EXCEPT ![e] = Tail(outbox[e])]
      /\ pipe' = [pipe EXCEPT ![r] = Append(pipe[r], d)]
  BY SendDataEffects DEF BaseInv, Payload
<1>3. /\ sendPart'[e] = "type" /\ sendPart'[r] = sendPart[r]
      /\ outbox'[e] = Tail(outbox[e]) /\ outbox'[r] = outbox[r]
      /\ pipe'[r] = Append(pipe[r], d) /\ pipe'[e] = pipe[e]
  BY <1>1, <1>2 DEF BaseInv, ControlOK, QueuesOK
<1>4. FlowAt(e)'
  BY <1>1, <1>2, <1>3, FlowUntouched
<1>5. d \in Wire
  BY <1>2, FlowTypes, Popped, FramesAreWire, HeadingIs
<1>6. Pending(e) = <<d>> /\ Pending(e)' = <<>>
  BY <1>2, <1>3 DEF Pending, Payload
<1> HIDE DEF d, m
<1>7. StreamAt(r) = StreamOf(held[r], pipe[r], <<d>>)
  BY <1>1, <1>6 DEF StreamAt
<1>8. StreamAt(r)' = StreamOf(held[r], Append(pipe[r], d), <<>>)
  BY <1>1, <1>2, <1>3, <1>6 DEF StreamAt
<1>9. StreamAt(r)' = StreamAt(r)
  BY <1>1, <1>5, <1>7, <1>8, FlowTypes, StreamSendData
<1>10. GotAt(r)' = GotAt(r)
  BY <1>2 DEF GotAt
<1>11. Passed(e)' = Passed(e)
  <2>1. Len(sent[e]) \in Nat /\ Len(outbox[e]) \in Nat \ {0}
        /\ Len(Tail(outbox[e])) = Len(outbox[e]) - 1
    BY <1>2, FlowTypes, LenProperties, Popped
  <2>2. Passed(e) = (Len(sent[e]) - Len(outbox[e])) + 1
    BY <1>2 DEF Passed
  <2>3. Passed(e)' = (Len(sent[e]) - (Len(outbox[e]) - 1)) + 0
    BY <1>2, <1>3, <2>1 DEF Passed
  <2>4. \A a, b \in Nat : (a - (b - 1)) + 0 = (a - b) + 1
    OBVIOUS
  <2> QED
    BY <2>1, <2>2, <2>3, <2>4
<1>12. FlowAt(r)'
  BY <1>1, <1>2, <1>9, <1>10, <1>11, FlowSame
<1> QED
  BY <1>4, <1>12, FlowBoth

\* Where the stream begins when no message is held.
LEMMA StreamHead ==
  ASSUME NEW p \in Seq(Wire), p # <<>>, NEW last \in Seq(Wire)
  PROVE  /\ StreamOf(<<>>, p, last)[1] = Head(p)
         /\ 1 \in 1..Len(StreamOf(<<>>, p, last))
<1>1. Heading(<<>>) \o p = p
  BY ConcatEmptySeq DEF Heading
<1>2. Len(p) \in Nat \ {0} /\ Head(p) = p[1] /\ Len(last) \in Nat
  BY Popped, LenProperties
<1>3. /\ Len(p \o last) = Len(p) + Len(last)
      /\ \A i \in 1..(Len(p) + Len(last)) :
           (p \o last)[i] = IF i <= Len(p) THEN p[i] ELSE last[i - Len(p)]
  BY ConcatProperties
<1>4. 1 \in 1..(Len(p) + Len(last)) /\ 1 <= Len(p)
  BY <1>2
<1> QED
  BY <1>1, <1>2, <1>3, <1>4 DEF StreamOf

\* Where the sockets are connected and the direction was not cut, the frame
\* a receiver takes for a type is one.
LEMMA TypeComes ==
  ASSUME BaseInv, LinkInv, FlowInv, NEW e \in Endpoints, ReceiveTypeFrame(e), ~cut[e]
  PROVE  Head(pipe[e]).part = "type"
<1>1. linked /\ held[e] = <<>> /\ pipe[e] # <<>>
  BY ReceiveTypeEffects DEF BaseInv, LinkInv
<1>2. Whole(StreamAt(e))
  BY <1>1 DEF FlowInv, FlowAt, Flow
<1>3. pipe[e] \in Seq(Wire) /\ Pending(Peer(e)) \in Seq(Wire)
  BY FlowTypes
<1>4. StreamAt(e) = StreamOf(<<>>, pipe[e], Pending(Peer(e)))
  BY <1>1 DEF StreamAt
<1>5. StreamAt(e)[1] = Head(pipe[e]) /\ 1 \in 1..Len(StreamAt(e))
  BY <1>1, <1>3, <1>4, StreamHead
<1>6. 1 % 2 = 1
  OBVIOUS
<1>7. StreamAt(e)[1].part = "type"
  BY <1>2, <1>5, <1>6 DEF Whole
<1> QED
  BY <1>5, <1>7

\* Likewise the payload it waits for is that of the message it holds.
LEMMA PayloadComes ==
  ASSUME BaseInv, LinkInv, FlowInv, NEW e \in Endpoints, ReceiveDataFrame(e), ~cut[e]
  PROVE  \E m \in Reading : held[e] = <<m>> /\ Head(pipe[e]) = Payload(m)
<1> DEFINE last == Pending(Peer(e))
<1>1. linked /\ held[e] # <<>> /\ pipe[e] # <<>>
  BY ReceiveDataEffects DEF BaseInv, LinkInv
<1>2. Whole(StreamAt(e))
  BY <1>1 DEF FlowInv, FlowAt, Flow
<1>3. /\ pipe[e] \in Seq(Wire) /\ last \in Seq(Wire)
      /\ held[e] \in Seq(Reading) /\ Len(held[e]) <= 1
  BY FlowTypes
<1>4. PICK m \in Reading : held[e] = <<m>>
  BY <1>1, <1>3, HeldCases
<1>5. StreamAt(e) = StreamOf(<<m>>, pipe[e], last)
  BY <1>4 DEF StreamAt
<1> DEFINE st == StreamAt(e)
           r == StreamOf(<<>>, Tail(pipe[e]), last)
<1> HIDE DEF last
<1>6. /\ st \in Seq(Wire) /\ r \in Seq(Wire) /\ Len(st) = Len(r) + 2
      /\ st[1] = [part |-> "type", msg |-> m] /\ st[2] = Head(pipe[e])
  BY <1>1, <1>3, <1>5, StreamReceiveData
<1> HIDE DEF st, r
<1>7. Len(r) \in Nat
  BY <1>6, LenProperties
<1>8. 1 \in 1..Len(st) /\ 1 % 2 = 1 /\ 1 + 1 = 2
  BY <1>6, <1>7
<1>9. st[2] = [st[1] EXCEPT !.part = "data"]
  BY <1>2, <1>8 DEF Whole, st
<1> QED
  BY <1>4, <1>6, <1>9 DEF Payload

\* The frame a receiver takes for a type is one, and it is held.
LEMMA FlowReceiveType ==
  ASSUME BaseInv, LinkInv, FlowInv, NEW e \in Endpoints, ReceiveTypeFrame(e)
  PROVE  FlowInv'
<1> DEFINE s == Peer(e)
           f == Head(pipe[e])
<1>1. s \in Endpoints /\ s # e /\ Peer(s) = e /\ FlowAt(e) /\ FlowAt(s)
  BY PeerIsOther DEF FlowInv
<1>2. /\ UNCHANGED <<outbox, inbox, sent, handled, linked, sendPart, cut>>
      /\ held[e] = <<>> /\ pipe[e] # <<>>
      /\ pipe' = [pipe EXCEPT ![e] = Tail(pipe[e])]
      /\ held' = IF IsEmpty(f) THEN held ELSE [held EXCEPT ![e] = <<ReadAsType(f)>>]
  BY ReceiveTypeEffects DEF BaseInv
<1>3. /\ pipe'[e] = Tail(pipe[e]) /\ pipe'[s] = pipe[s] /\ held'[s] = held[s]
      /\ ~IsEmpty(f) => held'[e] = <<ReadAsType(f)>>
  BY <1>1, <1>2 DEF BaseInv, QueuesOK
<1>4. FlowAt(s)'
  BY <1>1, <1>2, <1>3, FlowUntouched
<1>5. FlowAt(e)'
  <2> SUFFICES ASSUME ~cut[e]
               PROVE  FlowAt(e)'
    BY <1>2 DEF FlowAt
  <2>1. pipe[e] \in Seq(Wire) /\ Pending(s) \in Seq(Wire)
    BY FlowTypes
  <2>2. StreamAt(e) = StreamOf(<<>>, pipe[e], Pending(s))
    BY <1>2 DEF StreamAt
  <2>3. f.part = "type"
    BY TypeComes
  <2>4. held'[e] = <<f.msg>>
    BY <1>3, <2>3 DEF IsEmpty, ReadAsType
  <2>5. Pending(s)' = Pending(s)
    BY <1>2 DEF Pending, Payload
  <2>6. StreamAt(e)' = StreamOf(<<f.msg>>, Tail(pipe[e]), Pending(s))
    BY <1>3, <2>4, <2>5 DEF StreamAt
  <2>7. StreamAt(e)' = StreamAt(e)
    BY <1>2, <2>1, <2>2, <2>3, <2>6, StreamReceiveType
  <2>8. GotAt(e)' = GotAt(e) /\ Passed(s)' = Passed(s)
    BY <1>2 DEF GotAt, Passed
  <2> QED
    BY <1>1, <1>2, <2>7, <2>8, FlowSame
<1> QED
  BY <1>4, <1>5, FlowBoth

\* The payload a receiver waits for is that of the message it holds, which
\* is received with its own type, or dropped when it is empty.
LEMMA FlowReceiveData ==
  ASSUME BaseInv, LinkInv, FlowInv, NEW e \in Endpoints, ReceiveDataFrame(e)
  PROVE  FlowInv'
<1> DEFINE s == Peer(e)
           f == Head(pipe[e])
           last == Pending(s)
<1>1. s \in Endpoints /\ s # e /\ Peer(s) = e /\ FlowAt(e) /\ FlowAt(s)
  BY PeerIsOther DEF FlowInv
<1>2. /\ UNCHANGED <<outbox, sent, handled, linked, sendPart, cut>>
      /\ held[e] # <<>> /\ pipe[e] # <<>>
      /\ pipe' = [pipe EXCEPT ![e] = Tail(pipe[e])]
      /\ held' = [held EXCEPT ![e] = <<>>]
      /\ inbox' = [inbox EXCEPT ![e] = IF IsEmpty(f) THEN inbox[e]
                                       ELSE Append(inbox[e], ReadAsPayload(e, f))]
  BY ReceiveDataEffects DEF BaseInv
<1>3. /\ pipe'[e] = Tail(pipe[e]) /\ pipe'[s] = pipe[s]
      /\ held'[e] = <<>> /\ held'[s] = held[s] /\ inbox'[s] = inbox[s]
      /\ inbox'[e] = IF IsEmpty(f) THEN inbox[e] ELSE Append(inbox[e], ReadAsPayload(e, f))
  BY <1>1, <1>2 DEF BaseInv, QueuesOK
<1>4. FlowAt(s)'
  BY <1>1, <1>2, <1>3, FlowUntouched
<1>5. FlowAt(e)'
  <2> SUFFICES ASSUME ~cut[e]
               PROVE  FlowAt(e)'
    BY <1>2 DEF FlowAt
  <2>1. linked
    BY <1>2 DEF LinkInv
  <2>2. /\ Got(GotAt(e), sent[s], Passed(s)) /\ Whole(StreamAt(e))
        /\ Coming(StreamAt(e), GotAt(e), sent[s], Passed(s))
    BY <1>1, <2>1 DEF FlowAt, Flow
  <2>3. /\ pipe[e] \in Seq(Wire) /\ last \in Seq(Wire) /\ GotAt(e) \in Seq(Reading)
        /\ handled[e] \in Seq(Reading) /\ inbox[e] \in Seq(Reading)
        /\ held[e] \in Seq(Reading) /\ Len(held[e]) <= 1
    BY FlowTypes
  <2>4. Passed(s) \in Nat
    BY <1>1, FlowTypes
  <2>5. PICK m \in Reading : held[e] = <<m>>
    BY <1>2, <2>3, HeldCases
  <2>6. last' = last
    BY <1>2 DEF Pending, Payload
  <2>7. /\ StreamAt(e) = StreamOf(<<m>>, pipe[e], last)
        /\ StreamAt(e)' = StreamOf(<<>>, Tail(pipe[e]), last)
    BY <1>3, <2>5, <2>6 DEF StreamAt
  <2> HIDE DEF last
  <2>8. /\ StreamAt(e) \in Seq(Wire) /\ StreamAt(e)' \in Seq(Wire)
        /\ Len(StreamAt(e)) = Len(StreamAt(e)') + 2
        /\ StreamAt(e)[1] = [part |-> "type", msg |-> m] /\ StreamAt(e)[2] = f
        /\ \A i \in 1..Len(StreamAt(e)') : StreamAt(e)'[i] = StreamAt(e)[i + 2]
    BY <1>2, <2>3, <2>7, StreamReceiveData
  <2>9. f = Payload(m)
    BY <2>5, PayloadComes
  <2>10. Whole(StreamAt(e)')
    BY <2>2, <2>8, WholeShrinks
  <2>11. /\ Coming(StreamAt(e)', GotAt(e), sent[s], Passed(s))
         /\ Got(Append(GotAt(e), m), sent[s], Passed(s))
         /\ Coming(StreamAt(e)', Append(GotAt(e), m), sent[s], Passed(s))
    <3>1. StreamAt(e)[1].msg = m
      BY <2>8
    <3> QED
      BY <2>2, <2>3, <2>4, <2>8, <3>1, OrderReceived
  <2>12. GotAt(e)' = IF IsEmpty(f) THEN GotAt(e) ELSE Append(GotAt(e), m)
    <3>1. ReadAsPayload(e, f) = m
      <4>1. f.part = "data" /\ f.msg = m
        BY <2>9 DEF Payload
      <4>2. held[e][1] = m
        BY <2>5
      <4> QED
        BY <4>1, <4>2 DEF ReadAsPayload, Reading
    <3>2. handled[e] \o Append(inbox[e], m) = Append(handled[e] \o inbox[e], m)
      <4>1. m \in Reading
        BY <2>5
      <4>2. handled[e] \in Seq(Reading) /\ inbox[e] \in Seq(Reading)
        BY <2>3
      <4>3. \A h, q \in Seq(Reading) : \A x \in Reading : h \o Append(q, x) = Append(h \o q, x)
        BY TailAdded
      <4> QED
        BY <4>1, <4>2, <4>3
    <3>3. GotAt(e)' = handled[e] \o IF IsEmpty(f) THEN inbox[e] ELSE Append(inbox[e], m)
      BY <1>2, <1>3, <3>1 DEF GotAt
    <3> QED
      BY <3>2, <3>3 DEF GotAt
  <2>13. sent' = sent /\ linked' = linked /\ cut' = cut /\ Passed(s)' = Passed(s)
    BY <1>2 DEF Passed
  <2> QED
    BY <2>2, <2>10, <2>11, <2>12, <2>13 DEF FlowAt, Flow
<1> QED
  BY <1>4, <1>5, FlowBoth

\* A connection begins with nothing under way, or in the middle of a message
\* and then it counts as cut; when it ends what has come is still in order.
LEMMA FlowConnection ==
  ASSUME BaseInv, LinkInv, FlowInv, Connection
  PROVE  FlowInv'
<1> SUFFICES ASSUME NEW e \in Endpoints, ~cut'[e]
             PROVE  Flow(GotAt(e)', StreamAt(e)', sent'[Peer(e)], Passed(Peer(e))', linked')
  BY DEF FlowInv, FlowAt
<1>1. UNCHANGED <<outbox, inbox, sent, handled, held, sendPart>> /\ Peer(e) \in Endpoints
  BY ConnectionEffects, PeerIsOther DEF BaseInv
<1>2. /\ GotAt(e)' = GotAt(e) /\ Passed(Peer(e))' = Passed(Peer(e))
      /\ Pending(Peer(e))' = Pending(Peer(e))
  BY <1>1 DEF GotAt, Passed, Pending, Payload
<1>3. CASE linked'
  <2>1. ~linked /\ pipe' = pipe
        /\ cut'[e] = (cut[e] \/ (held[e] # <<>>) # (sendPart[Peer(e)] = "data"))
    BY <1>3, ConnectionEffects DEF BaseInv
  <2>2. ~cut[e] /\ held[e] = <<>> /\ sendPart[Peer(e)] = "type" /\ pipe[e] = <<>>
    <3>1. held[e] = <<>> \/ sendPart[Peer(e)] = "type"
      BY <2>1 DEF LinkInv
    <3>2. pipe[e] = <<>> /\ ~cut[e]
      BY <2>1 DEF LinkInv
    <3>3. (held[e] # <<>>) <=> (sendPart[Peer(e)] = "data")
      BY <2>1
    <3>4. sendPart[Peer(e)] \in {"type", "data"}
      BY <1>1 DEF BaseInv, ControlOK, Parts
    <3> QED
      BY <3>1, <3>2, <3>3, <3>4
  <2>3. Pending(Peer(e)) = <<>>
    BY <2>2 DEF Pending
  <2>4. StreamAt(e)' = StreamOf(<<>>, <<>>, <<>>)
    BY <1>1, <1>2, <2>1, <2>2, <2>3 DEF StreamAt
  <2>5. StreamOf(<<>>, <<>>, <<>>) = <<>>
    BY DEF StreamOf, Heading
  <2>6. Got(GotAt(e), sent[Peer(e)], Passed(Peer(e)))
    BY <2>2 DEF FlowInv, FlowAt, Flow
  <2> QED
    BY <1>1, <1>2, <2>4, <2>5, <2>6 DEF Flow, Whole, Coming
<1>4. CASE ~linked'
  <2>1. cut' = cut
    BY <1>4, ConnectionEffects DEF BaseInv
  <2>2. Got(GotAt(e), sent[Peer(e)], Passed(Peer(e)))
    BY <2>1 DEF FlowInv, FlowAt, Flow
  <2> QED
    BY <1>1, <1>2, <1>4, <2>2 DEF Flow
<1> QED
  BY <1>3, <1>4

\* An object created in place of another has received nothing, and what the
\* other had not passed on is lost.
LEMMA FlowRecreate ==
  ASSUME BaseInv, FlowInv, NEW e \in Endpoints, Recreate(e)
  PROVE  FlowInv'
<1> DEFINE r == Peer(e)
<1>1. r \in Endpoints /\ r # e /\ Peer(r) = e /\ FlowAt(e) /\ FlowAt(r)
  BY PeerIsOther DEF FlowInv
<1>2. /\ ~linked /\ UNCHANGED <<sent, handled, linked, cut>>
      /\ outbox'[e] = <<>> /\ outbox'[r] = outbox[r]
      /\ inbox'[e] = <<>> /\ inbox'[r] = inbox[r]
      /\ sendPart'[e] = "type" /\ sendPart'[r] = sendPart[r]
  BY <1>1, RecreateEffects DEF BaseInv, ControlOK, QueuesOK
<1>3. FlowAt(e)'
  <2> SUFFICES ASSUME ~cut[e]
               PROVE  Got(handled[e] \o <<>>, sent[r], Passed(r))
    BY <1>2 DEF FlowAt, Flow, GotAt, Passed
  <2>1. Got(handled[e] \o inbox[e], sent[r], Passed(r))
    BY <1>1 DEF FlowAt, Flow, GotAt
  <2>2. handled[e] \in Seq(Reading) /\ inbox[e] \in Seq(Reading) /\ Passed(r) \in Nat
    BY <1>1, FlowTypes
  <2>3. Got(handled[e], sent[r], Passed(r))
    BY <2>1, <2>2, OrderKept
  <2> QED
    BY <2>2, <2>3, ConcatEmptySeq
<1>4. FlowAt(r)'
  <2>1. Passed(e)' = Len(sent[e])
    <3>1. Len(sent[e]) \in Nat
      BY FlowTypes, LenProperties
    <3>2. Passed(e)' = (Len(sent[e]) - Len(<<>>)) + 0
      BY <1>2 DEF Passed
    <3> QED
      BY <3>1, <3>2
  <2>2. GotAt(r)' = GotAt(r)
    BY <1>2 DEF GotAt
  <2> SUFFICES ASSUME ~cut[r]
               PROVE  Got(GotAt(r), sent[e], Len(sent[e]))
    BY <1>1, <1>2, <2>1, <2>2 DEF FlowAt, Flow
  <2>3. Got(GotAt(r), sent[e], Passed(e))
    BY <1>1 DEF FlowAt, Flow
  <2>4. Passed(e) \in Nat /\ Passed(e) <= Len(sent[e]) /\ Len(sent[e]) \in Nat
    BY FlowTypes, LenProperties
  <2>5. \A k \in 1..Passed(e) : k \in 1..Len(sent[e])
    BY <2>4
  <2> QED
    BY <2>3, <2>5 DEF Got
<1> QED
  BY <1>3, <1>4, FlowBoth

\* Every step keeps both invariants of every direction.
LEMMA FlowStep ==
  ASSUME BaseInv, LinkInv, FlowInv, Next
  PROVE  FlowInv'
<1>1. ASSUME NEW e \in Endpoints, SendMessagesEnd(e) \/ ReceiveMessagesEnd(e)
      PROVE  FlowInv'
  <2>1. Quiet(e)
    BY <1>1, EndEffects DEF BaseInv
  <2> SUFFICES ASSUME NEW x \in Endpoints
               PROVE  FlowAt(x)'
    BY DEF FlowInv
  <2> QED
    BY <2>1, FlowUntouched DEF Quiet, mediumVars, FlowInv
<1> QED
  BY <1>1, FlowCore, FlowSendType, FlowSendData, FlowReceiveType, FlowReceiveData,
     FlowConnection, FlowRecreate
     DEF Next, EndpointStep, SendMessages, ReceiveMessages

\* The whole inductive invariant.
Inv == BaseInv /\ MidCall /\ LinkInv /\ FlowInv

\* It holds in every reachable state.
LEMMA InvHolds == Spec => []Inv
<1>1. PairInit => MidCall /\ LinkInv
  BY DEF PairInit, Init, MidCall, LinkInv
<1>2. PairInit => FlowInv
  <2> SUFFICES ASSUME PairInit, NEW e \in Endpoints
               PROVE  Flow(GotAt(e), StreamAt(e), sent[Peer(e)], Passed(Peer(e)), linked)
    BY DEF FlowInv, FlowAt
  <2>1. handled[e] = <<>> /\ inbox[e] = <<>> /\ ~linked
    BY DEF PairInit, Init
  <2>2. GotAt(e) = <<>>
    BY <2>1 DEF GotAt
  <2> QED
    BY <2>1, <2>2 DEF Flow, Got
<1>3. BaseInv /\ BaseInv' /\ MidCall /\ LinkInv /\ FlowInv /\ [Next]_vars
        => MidCall' /\ LinkInv' /\ FlowInv'
  <2>1. BaseInv /\ MidCall /\ LinkInv /\ FlowInv /\ Next => MidCall' /\ LinkInv' /\ FlowInv'
    BY MidCallStep, LinkStep, FlowStep DEF BaseInv
  <2>2. MidCall /\ LinkInv /\ FlowInv /\ UNCHANGED vars => MidCall' /\ LinkInv' /\ FlowInv'
    <3> SUFFICES ASSUME MidCall, LinkInv, FlowInv, UNCHANGED vars
                 PROVE  MidCall' /\ LinkInv' /\ FlowInv'
      OBVIOUS
    <3>1. MidCall' /\ LinkInv'
      BY DEF vars, MidCall, LinkInv
    <3>2. ASSUME NEW e \in Endpoints
          PROVE  FlowAt(e)'
      BY FlowUntouched DEF vars, FlowInv
    <3> QED
      BY <3>1, <3>2 DEF FlowInv
  <2> QED
    BY <2>1, <2>2
<1> QED
  BY <1>1, <1>2, <1>3, BaseInvariant, PTL DEF Spec, Inv

\* The frames of a direction that is connected and was not cut make up whole
\* messages, however the steps of the two SendMessages and ReceiveMessages
\* interleave and whichever object is deleted and created again: a receiver
\* that waits for a payload waits for one that is coming.
THEOREM MessagesStayWhole == Spec => []WholeMessages
<1>1. Inv => WholeMessages
  <2> SUFFICES ASSUME Inv, linked, NEW e \in Endpoints, ~cut[e], NEW i \in DOMAIN Stream(e)
               PROVE  IF i % 2 = 1
                        THEN /\ Stream(e)[i].part = "type"
                             /\ i < Len(Stream(e))
                             /\ Stream(e)[i + 1] = [Stream(e)[i] EXCEPT !.part = "data"]
                        ELSE Stream(e)[i].part = "data"
    BY DEF WholeMessages
  <2>1. Stream(e) = StreamAt(e)
    BY DEF Stream, StreamAt, StreamOf, Heading, Pending, Payload
  <2>2. StreamAt(e) \in Seq(Wire) /\ Whole(StreamAt(e))
    BY FlowTypes DEF Inv, FlowInv, FlowAt, Flow
  <2>3. DOMAIN StreamAt(e) = 1..Len(StreamAt(e))
    BY <2>2, LenProperties
  <2> QED
    BY <2>1, <2>2, <2>3 DEF Whole
<1> QED
  BY <1>1, InvHolds, PTL

\* What a receiver puts together was submitted, as it is, by its peer, in
\* that order and none of it twice, over all the objects that have lived at
\* either end, for any number of messages, types and frames, unless a
\* connection has begun in the middle of a message.
THEOREM GenuineMessages == Spec => []GenuineUnlessCut
<1>1. Inv => GenuineUnlessCut
  <2> SUFFICES ASSUME Inv, NEW e \in Endpoints, ~cut[e], NEW i \in DOMAIN GotAt(e)
               PROVE  /\ GotAt(e)[i].seq \in DOMAIN sent[Peer(e)]
                      /\ GotAt(e)[i] = sent[Peer(e)][GotAt(e)[i].seq]
                      /\ \A j \in 1..(i - 1) : GotAt(e)[j].seq < GotAt(e)[i].seq
    BY DEF GenuineUnlessCut, GotAt
  <2>1. Got(GotAt(e), sent[Peer(e)], Passed(Peer(e)))
    BY DEF Inv, FlowInv, FlowAt, Flow
  <2>2. /\ GotAt(e) \in Seq(Reading) /\ sent[Peer(e)] \in Seq(Message)
        /\ Passed(Peer(e)) \in Nat /\ Passed(Peer(e)) <= Len(sent[Peer(e)])
    BY FlowTypes, PeerIsOther DEF Inv
  <2>3. i \in 1..Len(GotAt(e)) /\ DOMAIN sent[Peer(e)] = 1..Len(sent[Peer(e)])
        /\ Len(sent[Peer(e)]) \in Nat
    BY <2>2, LenProperties
  <2>4. \A k \in 1..Passed(Peer(e)) : k \in 1..Len(sent[Peer(e)])
    BY <2>2, <2>3
  <2> QED
    BY <2>1, <2>3, <2>4 DEF Got
<1> QED
  BY <1>1, InvHolds, PTL

-----------------------------------------------------------------------------
(* The messages whose payload is under way.                                *)

\* Nothing is under way in empty sockets.
LEMMA DataOfNothing == DataOf(<<>>) = <<>>
BY FilterEmpty DEF DataOf

\* The messages of frames are messages.
LEMMA DataOfType ==
  ASSUME NEW p \in Seq(Frame)
  PROVE  DataOf(p) \in Seq(Message)
<1> DEFINE d == Filter(p, DataFrame)
<1>1. d \in Seq(Frame)
  BY FilterSeq
<1>2. Len(d) \in Nat /\ DOMAIN d = 1..Len(d) /\ \A i \in 1..Len(d) : d[i] \in Frame
  BY <1>1, LenProperties, ElementOfSeq
<1> HIDE DEF d
<1>3. \A i \in 1..Len(d) : d[i].msg \in Message
  BY <1>2 DEF Frame
<1>4. [i \in 1..Len(d) |-> d[i].msg] \in Seq(Message)
  BY <1>2, <1>3
<1>5. DataOf(p) = [i \in DOMAIN d |-> d[i].msg]
  BY DEF DataOf, d
<1> QED
  BY <1>2, <1>4, <1>5

\* A frame more, or one less at the head.
LEMMA DataOfPush ==
  ASSUME NEW p \in Seq(Frame), NEW f \in Frame
  PROVE  DataOf(Append(p, f)) =
           IF f.part = "data" THEN Append(DataOf(p), f.msg) ELSE DataOf(p)
<1> DEFINE d == Filter(p, DataFrame)
<1>1. Filter(Append(p, f), DataFrame) = IF f.part = "data" THEN Append(d, f) ELSE d
  BY FilterPush DEF DataFrame
<1>2. d \in Seq(Frame)
  BY FilterSeq
<1>3. CASE f.part = "data"
  <2> DEFINE c == Append(d, f)
             l == DataOf(p)
             n == Len(d)
  <2>1. n \in Nat /\ DOMAIN d = 1..n
    BY <1>2, LenProperties
  <2>2. c \in Seq(Frame) /\ Len(c) = n + 1 /\ c[n + 1] = f /\ \A i \in 1..n : c[i] = d[i]
    BY <1>2, Pushed
  <2>3. DOMAIN c = 1..(n + 1)
    <3> HIDE DEF c
    <3> QED
      BY <2>2, LenProperties
  <2>4. l \in Seq(Message) /\ f.msg \in Message
    BY DataOfType DEF Frame
  <2>5. l = [i \in 1..n |-> d[i].msg]
    BY <2>1 DEF DataOf
  <2>6. DataOf(Append(p, f)) = [i \in 1..(n + 1) |-> c[i].msg]
    BY <1>1, <1>3, <2>3 DEF DataOf
  <2>7. DataOf(Append(p, f)) \in Seq(Message)
    <3>1. Append(p, f) \in Seq(Frame)
      BY Pushed
    <3> QED
      BY <3>1, DataOfType
  <2> DEFINE a == DataOf(Append(p, f))
  <2>8. Len(l) = n
    BY <2>1, <2>4, <2>5
  <2> HIDE DEF a, c, d, l, n
  <2>9. /\ Len(Append(l, f.msg)) = n + 1 /\ Append(l, f.msg)[n + 1] = f.msg
        /\ \A i \in 1..n : Append(l, f.msg)[i] = l[i]
        /\ Append(l, f.msg) \in Seq(Message)
    BY <2>4, <2>8, Pushed
  <2>10. Len(a) = n + 1 /\ a[n + 1] = f.msg /\ \A i \in 1..n : a[i] = l[i]
    <3>1. DOMAIN a = 1..(n + 1) /\ n + 1 \in 1..(n + 1)
      BY <2>1, <2>6 DEF a
    <3>2. Len(a) = n + 1
      BY <2>1, <2>7, <3>1, LenProperties DEF a
    <3>3. \A i \in 1..n : i \in 1..(n + 1)
      BY <2>1
    <3> QED
      BY <2>2, <2>5, <2>6, <3>1, <3>2, <3>3 DEF a
  <2>11. a = Append(l, f.msg)
    <3>1. \A i \in 1..(n + 1) : i \in 1..n \/ i = n + 1
      BY <2>1
    <3> QED
      BY <2>7, <2>9, <2>10, <3>1, SeqEqual DEF a
  <2> QED
    BY <1>3, <2>11 DEF a, l
<1>4. CASE f.part # "data"
  BY <1>1, <1>4 DEF DataOf
<1> QED
  BY <1>3, <1>4

\* The messages of frames in two parts.
LEMMA DataOfConcat ==
  ASSUME NEW p \in Seq(Frame), NEW q \in Seq(Frame)
  PROVE  DataOf(p \o q) = DataOf(p) \o DataOf(q)
<1> DEFINE Q == {s \in Seq(Frame) : DataOf(p \o s) = DataOf(p) \o DataOf(s)}
           a == DataOf(p)
<1>1. \A s \in Seq(Frame) : DataOf(s) \in Seq(Message) /\ p \o s \in Seq(Frame)
  BY DataOfType, ConcatProperties
<1>2. <<>> \in Q
  <2>1. p \o <<>> = p /\ <<>> \in Seq(Frame) /\ a \o <<>> = a
    BY <1>1, ConcatEmptySeq, EmptySeq
  <2> QED
    BY <2>1, DataOfNothing
<1>3. ASSUME NEW s \in Q, NEW f \in Frame PROVE Append(s, f) \in Q
  <2> DEFINE b == DataOf(s)
             c == p \o s
             t == Append(s, f)
  <2>1. s \in Seq(Frame) /\ DataOf(c) = a \o b
    OBVIOUS
  <2>2. a \in Seq(Message) /\ b \in Seq(Message) /\ c \in Seq(Frame) /\ t \in Seq(Frame)
    BY <1>1, <2>1, Pushed
  <2>3. p \o t = Append(c, f)
    BY <2>1, TailAdded
  <2>4. DataOf(t) = IF f.part = "data" THEN Append(b, f.msg) ELSE b
    BY <2>1, DataOfPush
  <2>5. DataOf(Append(c, f)) = IF f.part = "data" THEN Append(DataOf(c), f.msg) ELSE DataOf(c)
    <3> HIDE DEF c
    <3> QED
      BY <2>2, DataOfPush
  <2>6. f.msg \in Message
    BY DEF Frame
  <2>7. a \o Append(b, f.msg) = Append(a \o b, f.msg)
    <3>1. \A h, x \in Seq(Message) : \A m \in Message : h \o Append(x, m) = Append(h \o x, m)
      BY TailAdded
    <3> HIDE DEF a, b
    <3> QED
      BY <2>2, <2>6, <3>1
  <2> HIDE DEF a, b, c, t
  <2>8. DataOf(p \o t) = a \o DataOf(t)
    BY <2>1, <2>3, <2>4, <2>5, <2>7
  <2> QED
    BY <2>2, <2>8 DEF a, t
<1>4. Q = Seq(Frame)
  <2> HIDE DEF Q
  <2>1. Q \subseteq Seq(Frame)
    BY DEF Q
  <2> QED
    BY <1>2, <1>3, <2>1, QueueSets
<1> QED
  BY <1>4

\* The frame at the head of the sockets.
LEMMA DataOfPop ==
  ASSUME NEW p \in Seq(Frame), p # <<>>
  PROVE  DataOf(p) = IF Head(p).part = "data"
                       THEN <<Head(p).msg>> \o DataOf(Tail(p)) ELSE DataOf(Tail(p))
<1> DEFINE f == Head(p)
           t == Tail(p)
           one == <<f>>
           none == <<>>
<1>1. f \in Frame /\ t \in Seq(Frame) /\ p = one \o t
  BY HeadTailProperties
<1>2. one \in Seq(Frame) /\ one = Append(none, f) /\ none \in Seq(Frame)
  BY <1>1, Short
<1>3. DataOf(Append(none, f)) =
        IF f.part = "data" THEN Append(DataOf(none), f.msg) ELSE DataOf(none)
  <2> HIDE DEF none, f
  <2> QED
    BY <1>1, <1>2, DataOfPush
<1>4. DataOf(none) = <<>>
  BY DataOfNothing
<1>5. DataOf(one) = IF f.part = "data" THEN <<f.msg>> ELSE <<>>
  BY <1>2, <1>3, <1>4
<1>6. DataOf(t) \in Seq(Message) /\ <<>> \o DataOf(t) = DataOf(t)
  BY <1>1, DataOfType, ConcatEmptySeq
<1>7. DataOf(one \o t) = DataOf(one) \o DataOf(t)
  <2>1. \A a, b \in Seq(Frame) : DataOf(a \o b) = DataOf(a) \o DataOf(b)
    BY DataOfConcat
  <2> HIDE DEF one, t
  <2> QED
    BY <1>1, <1>2, <2>1
<1> HIDE DEF one, t, f
<1> QED
  BY <1>1, <1>5, <1>6, <1>7 DEF f, t

-----------------------------------------------------------------------------
(* Exactly once and in order, until an object is deleted.                  *)

\* No object has been deleted.
Fresh == \A e \in Endpoints : appPC[e] # "deleted" /\ ~reborn[e]

\* The direction from e to its peer, which was never cut: before the first
\* connection nobody has begun a message.
FreshAt(e) ==
  /\ ~cut[Peer(e)]
  /\ ~linked => held[Peer(e)] = <<>> /\ sendPart[e] = "type"
  /\ Settled(WithPayload, handled[Peer(e)], inbox[Peer(e)], DataOf(pipe[Peer(e)]),
             outbox[e], sent[e])

FreshInv == Fresh => \A e \in Endpoints : FreshAt(e)

\* It is enough to look at the two directions of an object.
LEMMA FreshBoth ==
  ASSUME NEW e \in Endpoints, FreshAt(e)', FreshAt(Peer(e))'
  PROVE  FreshInv'
<1>1. \A x \in Endpoints : FreshAt(x)'
  BY PeerIsOther
<1> QED
  BY <1>1 DEF FreshInv

\* A direction none of whose queues is touched.
LEMMA FreshUntouched ==
  ASSUME NEW e \in Endpoints, FreshAt(e), cut'[Peer(e)] = cut[Peer(e)], linked' = linked,
         handled'[Peer(e)] = handled[Peer(e)], inbox'[Peer(e)] = inbox[Peer(e)],
         held'[Peer(e)] = held[Peer(e)], DataOf(pipe'[Peer(e)]) = DataOf(pipe[Peer(e)]),
         outbox'[e] = outbox[e], sent'[e] = sent[e],
         ~linked => sendPart'[e] = sendPart[e]
  PROVE  FreshAt(e)'
BY DEF FreshAt, Settled

\* The types of the queues of a direction.
LEMMA FreshTypes ==
  ASSUME QueuesOK, NEW e \in Endpoints
  PROVE  /\ handled[Peer(e)] \in Seq(Reading) /\ inbox[Peer(e)] \in Seq(Reading)
         /\ pipe[Peer(e)] \in Seq(Frame) /\ DataOf(pipe[Peer(e)]) \in Seq(Message)
         /\ DataOf(pipe[Peer(e)]) \in Seq(Reading)
         /\ outbox[e] \in Seq(Message) /\ outbox[e] \in Seq(Reading)
         /\ sent[e] \in Seq(Message) /\ sent[e] \in Seq(Reading)
<1>1. /\ handled[Peer(e)] \in Seq(Reading) /\ inbox[Peer(e)] \in Seq(Reading)
      /\ pipe[Peer(e)] \in Seq(Frame) /\ outbox[e] \in Seq(Message) /\ sent[e] \in Seq(Message)
  BY PeerIsOther DEF QueuesOK
<1>2. DataOf(pipe[Peer(e)]) \in Seq(Message)
  BY <1>1, DataOfType
<1>3. \A q \in Seq(Message) : q \in Seq(Reading)
  BY FramesAreWire, SeqMonotonic
<1> QED
  BY <1>1, <1>2, <1>3

\* Every step that deletes and creates no object keeps both directions.
LEMMA FreshStep ==
  ASSUME BaseInv, LinkInv, FlowInv, FreshInv, Next
  PROVE  FreshInv'
<1> SUFFICES ASSUME Fresh' PROVE FreshInv'
  BY DEF FreshInv
<1> USE DEF BaseInv
<1>1. ASSUME NEW e \in Endpoints, CoreStep(e), UNCHANGED mediumVars
      PROVE  FreshInv'
  <2> DEFINE p == Peer(e)
  <2>1. p \in Endpoints /\ p # e /\ Peer(p) = e
    BY PeerIsOther
  <2>2. Fresh
    BY <1>1, CoreEffects DEF Fresh, StaysDeleted, mediumVars
  <2>3. FreshAt(e) /\ FreshAt(p)
    BY <2>1, <2>2 DEF FreshInv
  <2>4. UNCHANGED <<cut, linked, held, pipe, sendPart>>
    BY <1>1 DEF mediumVars
  <2>5. CASE Quiet(e)
    BY <2>1, <2>3, <2>4, <2>5, FreshUntouched, FreshBoth DEF Quiet
  <2>6. CASE Handles(e)
    <3>1. /\ inbox'[e] = Tail(inbox[e]) /\ handled'[e] = Append(handled[e], Head(inbox[e]))
          /\ inbox'[p] = inbox[p] /\ handled'[p] = handled[p] /\ inbox[e] # <<>>
          /\ UNCHANGED <<outbox, sent>>
      BY <2>1, <2>6 DEF Handles, QueuesOK
    <3>2. FreshAt(e)'
      BY <2>1, <2>3, <2>4, <3>1, FreshUntouched
    <3>3. handled[e] \in Seq(Reading) /\ inbox[e] \in Seq(Reading)
      BY DEF QueuesOK
    <3>4. Settled(WithPayload, handled[e], inbox[e], DataOf(pipe[e]), outbox[p], sent[p])
      BY <2>1, <2>3 DEF FreshAt
    <3>5. Settled(WithPayload, handled'[e], inbox'[e], DataOf(pipe[e]), outbox[p], sent[p])
      BY <3>1, <3>3, <3>4, SettledHandle
    <3>6. FreshAt(p)'
      BY <2>1, <2>3, <2>4, <3>1, <3>5 DEF FreshAt
    <3> QED
      BY <3>2, <3>6, FreshBoth
  <2>7. ASSUME NEW m, Submits(e, m)
        PROVE  FreshInv'
    <3>1. /\ outbox'[e] = Append(outbox[e], m) /\ sent'[e] = Append(sent[e], m)
          /\ outbox'[p] = outbox[p] /\ sent'[p] = sent[p] /\ m \in Message
          /\ UNCHANGED <<inbox, handled>>
      BY <2>1, <2>7 DEF Submits, QueuesOK
    <3>2. FreshAt(p)'
      BY <2>1, <2>3, <2>4, <3>1, FreshUntouched
    <3>3. m \in Reading
      BY <3>1, FramesAreWire
    <3>4. Settled(WithPayload, handled[p], inbox[p], DataOf(pipe[p]), outbox[e], sent[e])
      BY <2>3 DEF FreshAt
    <3>5. Settled(WithPayload, handled[p], inbox[p], DataOf(pipe[p]), outbox'[e], sent'[e])
      BY <3>1, <3>3, <3>4, FreshTypes, SettledSubmit
    <3>6. FreshAt(e)'
      BY <2>3, <2>4, <3>1, <3>5 DEF FreshAt
    <3> QED
      BY <3>2, <3>6, FreshBoth
  <2> QED
    BY <1>1, <2>5, <2>6, <2>7, CoreEffects
<1>2. ASSUME NEW e \in Endpoints, SendTypeFrame(e)
      PROVE  FreshInv'
  <2> DEFINE p == Peer(e)
             f == [part |-> "type", msg |-> Head(outbox[e])]
  <2>1. p \in Endpoints /\ p # e /\ Peer(p) = e
    BY PeerIsOther
  <2>2. /\ UNCHANGED <<outbox, inbox, sent, handled, appPC, linked, held, reborn, cut>>
        /\ linked /\ outbox[e] # <<>> /\ sendPart'[p] = sendPart[p]
        /\ pipe'[p] = Append(pipe[p], f) /\ pipe'[e] = pipe[e]
    BY <1>2, <2>1, SendTypeEffects DEF QueuesOK, ControlOK
  <2>3. Fresh /\ FreshAt(e) /\ FreshAt(p)
    BY <2>1, <2>2 DEF Fresh, FreshInv
  <2>4. f \in Frame /\ f.part # "data"
    BY <2>2, Popped, FreshTypes DEF Frame, Parts
  <2>5. DataOf(pipe'[p]) = DataOf(pipe[p])
    <3> HIDE DEF f
    <3> QED
      BY <2>2, <2>4, DataOfPush, FreshTypes
  <2>6. FreshAt(e)'
    BY <2>2, <2>3, <2>5, FreshUntouched
  <2>7. FreshAt(p)'
    BY <2>1, <2>2, <2>3, FreshUntouched
  <2> QED
    BY <2>6, <2>7, FreshBoth
<1>3. ASSUME NEW e \in Endpoints, SendDataFrame(e)
      PROVE  FreshInv'
  <2> DEFINE p == Peer(e)
             f == [part |-> "data", msg |-> Head(outbox[e])]
  <2>1. p \in Endpoints /\ p # e /\ Peer(p) = e
    BY PeerIsOther
  <2>2. /\ UNCHANGED <<inbox, sent, handled, appPC, linked, held, reborn, cut>>
        /\ linked /\ outbox[e] # <<>> /\ sendPart'[p] = sendPart[p]
        /\ outbox'[e] = Tail(outbox[e]) /\ outbox'[p] = outbox[p]
        /\ pipe'[p] = Append(pipe[p], f) /\ pipe'[e] = pipe[e]
    BY <1>3, <2>1, SendDataEffects DEF QueuesOK, ControlOK
  <2>3. Fresh /\ FreshAt(e) /\ FreshAt(p)
    BY <2>1, <2>2 DEF Fresh, FreshInv
  <2>4. f \in Frame /\ f.part = "data" /\ f.msg = Head(outbox[e])
    BY <2>2, Popped, FreshTypes DEF Frame, Parts
  <2>5. DataOf(pipe'[p]) = Append(DataOf(pipe[p]), Head(outbox[e]))
    <3> HIDE DEF f
    <3> QED
      BY <2>2, <2>4, DataOfPush, FreshTypes
  <2>6. Settled(WithPayload, handled[p], inbox[p], DataOf(pipe[p]), outbox[e], sent[e])
    BY <2>3 DEF FreshAt
  <2>7. Settled(WithPayload, handled[p], inbox[p], DataOf(pipe'[p]), outbox'[e], sent[e])
    BY <2>2, <2>5, <2>6, FreshTypes, SettledSend
  <2>8. FreshAt(e)'
    BY <2>2, <2>3, <2>7 DEF FreshAt
  <2>9. FreshAt(p)'
    BY <2>1, <2>2, <2>3, FreshUntouched
  <2> QED
    BY <2>8, <2>9, FreshBoth
<1>4. ASSUME NEW e \in Endpoints, SendMessagesEnd(e) \/ ReceiveMessagesEnd(e)
      PROVE  FreshInv'
  <2>1. Quiet(e) /\ StaysDeleted
    BY <1>4, EndEffects
  <2>2. Fresh
    BY <2>1 DEF Fresh, StaysDeleted, Quiet, mediumVars
  <2>3. \A x \in Endpoints : FreshAt(x)
    BY <2>2 DEF FreshInv
  <2>4. \A x \in Endpoints : FreshAt(x)'
    BY <2>1, <2>3, FreshUntouched DEF Quiet, mediumVars
  <2> QED
    BY <2>4 DEF FreshInv
<1>5. ASSUME NEW p \in Endpoints, ReceiveTypeFrame(p)
      PROVE  FreshInv'
  <2> DEFINE e == Peer(p)
             f == Head(pipe[p])
  <2>1. e \in Endpoints /\ p # e /\ Peer(e) = p
    BY PeerIsOther
  <2>2. /\ UNCHANGED <<outbox, inbox, sent, handled, appPC, linked, sendPart, reborn, cut>>
        /\ pipe[p] # <<>> /\ pipe'[p] = Tail(pipe[p]) /\ pipe'[e] = pipe[e]
        /\ held'[e] = held[e]
    <3>1. /\ UNCHANGED <<outbox, inbox, sent, handled, appPC, linked, sendPart, reborn, cut>>
          /\ pipe[p] # <<>> /\ pipe' = [pipe EXCEPT ![p] = Tail(pipe[p])]
          /\ held' = held \/ held' = [held EXCEPT ![p] = <<ReadAsType(f)>>]
      BY <1>5, ReceiveTypeEffects
    <3> QED
      BY <2>1, <3>1 DEF QueuesOK
  <2>3. Fresh /\ FreshAt(e) /\ FreshAt(p)
    BY <2>1, <2>2 DEF Fresh, FreshInv
  <2>4. linked
    BY <2>2 DEF LinkInv
  <2>5. f.part # "data"
    BY <1>5, <2>1, <2>3, TypeComes DEF FreshAt
  <2>6. DataOf(pipe'[p]) = DataOf(pipe[p])
    BY <2>1, <2>2, <2>5, DataOfPop, FreshTypes
  <2>7. FreshAt(e)'
    BY <2>1, <2>2, <2>3, <2>4, <2>6 DEF FreshAt, Settled
  <2>8. FreshAt(p)'
    BY <2>1, <2>2, <2>3, FreshUntouched
  <2> QED
    BY <2>7, <2>8, FreshBoth
<1>6. ASSUME NEW p \in Endpoints, ReceiveDataFrame(p)
      PROVE  FreshInv'
  <2> DEFINE e == Peer(p)
             f == Head(pipe[p])
  <2>1. e \in Endpoints /\ p # e /\ Peer(e) = p
    BY PeerIsOther
  <2>2. /\ UNCHANGED <<outbox, sent, handled, appPC, linked, sendPart, reborn, cut>>
        /\ pipe[p] # <<>> /\ pipe'[p] = Tail(pipe[p]) /\ pipe'[e] = pipe[e]
        /\ held'[e] = held[e] /\ inbox'[e] = inbox[e] /\ held'[p] = <<>>
        /\ inbox'[p] = IF IsEmpty(f) THEN inbox[p]
                         ELSE Append(inbox[p], ReadAsPayload(p, f))
    <3> DEFINE box == IF IsEmpty(f) THEN inbox[p] ELSE Append(inbox[p], ReadAsPayload(p, f))
               none == <<>>
    <3>1. /\ UNCHANGED <<outbox, sent, handled, appPC, linked, sendPart, reborn, cut>>
          /\ pipe[p] # <<>> /\ pipe' = [pipe EXCEPT ![p] = Tail(pipe[p])]
          /\ held' = [held EXCEPT ![p] = none] /\ inbox' = [inbox EXCEPT ![p] = box]
      BY <1>6, ReceiveDataEffects
    <3> HIDE DEF box, none
    <3>2. /\ pipe'[p] = Tail(pipe[p]) /\ pipe'[e] = pipe[e] /\ held'[e] = held[e]
          /\ inbox'[e] = inbox[e] /\ held'[p] = none /\ inbox'[p] = box
      BY <2>1, <3>1 DEF QueuesOK
    <3> QED
      BY <3>1, <3>2 DEF box, none
  <2>3. Fresh /\ FreshAt(e) /\ FreshAt(p)
    BY <2>1, <2>2 DEF Fresh, FreshInv
  <2>4. linked
    BY <2>2 DEF LinkInv
  <2>5. ~cut[p]
    BY <2>1, <2>3 DEF FreshAt
  <2>6. PICK m \in Reading : held[p] = <<m>> /\ f = Payload(m)
    BY <1>6, <2>5, PayloadComes
  <2>7. f.part = "data" /\ f.msg = m /\ held[p][1] = m
    BY <2>6 DEF Payload
  <2>8. ReadAsPayload(p, f) = m
    BY <2>7 DEF ReadAsPayload, Reading
  <2>9. IsEmpty(f) <=> m \notin WithPayload
    BY <2>7 DEF IsEmpty, WithPayload
  <2>10. inbox'[p] = IF m \in WithPayload THEN Append(inbox[p], m) ELSE inbox[p]
    BY <2>2, <2>8, <2>9
  <2>11. DataOf(pipe[p]) = <<m>> \o DataOf(pipe'[p])
    BY <2>1, <2>2, <2>7, DataOfPop, FreshTypes
  <2>12. DataOf(pipe'[p]) \in Seq(Reading)
    <3>1. pipe[p] \in Seq(Frame)
      BY DEF QueuesOK
    <3>2. DataOf(pipe'[p]) \in Seq(Message)
      BY <2>2, <3>1, Popped, DataOfType
    <3> QED
      BY <3>2, FramesAreWire, SeqMonotonic
  <2>13. /\ handled[p] \in Seq(Reading) /\ inbox[p] \in Seq(Reading)
         /\ outbox[e] \in Seq(Reading)
    BY <2>1, FreshTypes
  <2>14. Settled(WithPayload, handled[p], inbox[p], <<m>> \o DataOf(pipe'[p]), outbox[e], sent[e])
    BY <2>1, <2>3, <2>11 DEF FreshAt
  <2>15. Settled(WithPayload, handled[p], inbox'[p], DataOf(pipe'[p]), outbox[e], sent[e])
    BY <2>10, <2>12, <2>13, <2>14, SettledTake
  <2>16. FreshAt(e)'
    BY <2>1, <2>2, <2>3, <2>4, <2>15 DEF FreshAt
  <2>17. FreshAt(p)'
    BY <2>1, <2>2, <2>3, FreshUntouched
  <2> QED
    BY <2>16, <2>17, FreshBoth
<1>7. CASE Connection
  <2>1. /\ UNCHANGED <<outbox, inbox, sent, handled, appPC, held, sendPart, reborn>>
        /\ ~linked /\ linked' /\ UNCHANGED pipe
        /\ cut' = [e \in Endpoints |->
                     cut[e] \/ (held[e] # <<>>) # (sendPart[Peer(e)] = "data")]
    BY <1>7, ConnectionEffects DEF Fresh
  <2>2. \A e \in Endpoints : FreshAt(e)
    BY <2>1 DEF Fresh, FreshInv
  <2> SUFFICES ASSUME NEW e \in Endpoints PROVE FreshAt(e)'
    BY DEF FreshInv
  <2>3. Peer(e) \in Endpoints /\ Peer(Peer(e)) = e
    BY PeerIsOther
  <2>4. ~cut[Peer(e)] /\ held[Peer(e)] = <<>> /\ sendPart[e] = "type"
    BY <2>1, <2>2 DEF FreshAt
  <2>5. ~cut'[Peer(e)]
    BY <2>1, <2>3, <2>4
  <2> QED
    BY <2>1, <2>2, <2>5 DEF FreshAt, Settled
<1>8. ASSUME NEW e \in Endpoints, Recreate(e)
      PROVE  FreshInv'
  <2>1. reborn'[e]
    BY <1>8 DEF Recreate, ControlOK
  <2> QED
    BY <2>1 DEF Fresh
<1> QED
  BY <1>1, <1>2, <1>3, <1>4, <1>5, <1>6, <1>7, <1>8
     DEF Next, EndpointStep, SendMessages, ReceiveMessages

\* While no object has been deleted, what a receiver has handled and what is
\* under way to it make up what its peer submitted: every message with a
\* payload is handled exactly once, in order and with the type it was
\* submitted under, for any number of messages, frames and types.
THEOREM MessagesArriveOnce == Spec => []ExactlyOnceInOrder
<1>1. PairInit => FreshInv
  <2> SUFFICES ASSUME PairInit, NEW e \in Endpoints PROVE FreshAt(e)
    BY DEF FreshInv
  <2> DEFINE none == <<>>
  <2>1. /\ handled[Peer(e)] = none /\ inbox[Peer(e)] = none /\ pipe[Peer(e)] = none
        /\ held[Peer(e)] = none /\ outbox[e] = none /\ sent[e] = none
        /\ ~cut[Peer(e)] /\ sendPart[e] = "type"
    BY PeerIsOther DEF PairInit, Init
  <2>2. DataOf(none) = none /\ NonEmpty(none) = none /\ none \in Seq(WithPayload)
    BY DataOfNothing, FilterEmpty DEF NonEmpty
  <2>3. none \o none = none
    BY ConcatEmptySeq, EmptySeq
  <2> HIDE DEF none
  <2> QED
    BY <2>1, <2>2, <2>3 DEF FreshAt, Settled, none
<1>2. Inv /\ FreshInv /\ [Next]_vars => FreshInv'
  <2>1. Inv /\ FreshInv /\ Next => FreshInv'
    BY FreshStep DEF Inv
  <2>2. FreshInv /\ UNCHANGED vars => FreshInv'
    <3> SUFFICES ASSUME FreshInv, UNCHANGED vars, Fresh', NEW e \in Endpoints
                 PROVE  FreshAt(e)'
      BY DEF FreshInv
    <3>1. FreshAt(e)
      BY DEF FreshInv, Fresh, vars
    <3> QED
      BY <3>1, FreshUntouched DEF vars
  <2> QED
    BY <2>1, <2>2
<1>3. Inv /\ FreshInv => ExactlyOnceInOrder
  <2> SUFFICES ASSUME Inv, FreshInv, Fresh, NEW e \in Endpoints
               PROVE  handled[Peer(e)] \o NonEmpty(InTransit(e)) = NonEmpty(sent[e])
    BY DEF ExactlyOnceInOrder, Fresh
  <2> DEFINE g == handled[Peer(e)]
             x == inbox[Peer(e)]
             d == DataOf(pipe[Peer(e)])
             b == outbox[e]
             l == Filter(d \o b, WithPayload)
  <2>1. g \in Seq(Reading) /\ x \in Seq(Reading) /\ d \in Seq(Reading) /\ b \in Seq(Reading)
    BY FreshTypes DEF Inv, BaseInv
  <2>2. x \in Seq(WithPayload) /\ (g \o x) \o l = NonEmpty(sent[e])
    BY DEF FreshInv, FreshAt, Settled, NonEmpty
  <2>3. InTransit(e) = (x \o d) \o b
    BY DEF InTransit
  <2> HIDE DEF g, x, d, b
  <2>4. (x \o d) \o b = x \o (d \o b) /\ d \o b \in Seq(Reading)
    BY <2>1, ConcatAssociative, ConcatProperties
  <2>5. l \in Seq(Reading)
    BY <2>4, FilterSeq
  <2>6. Filter(x \o (d \o b), WithPayload) = Filter(x, WithPayload) \o l
    <3>1. \A q, r \in Seq(Reading) : Filter(q \o r, WithPayload) =
                                       Filter(q, WithPayload) \o Filter(r, WithPayload)
      BY FilterConcat
    <3> QED
      BY <2>1, <2>4, <3>1
  <2>7. Filter(x, WithPayload) = x
    BY <2>2, FilterAll
  <2> HIDE DEF l
  <2>8. g \o (x \o l) = (g \o x) \o l
    <3>1. \A q, r, t \in Seq(Reading) : (q \o r) \o t = q \o (r \o t)
      BY ConcatAssociative
    <3> QED
      BY <2>1, <2>5, <3>1
  <2> QED
    BY <2>2, <2>3, <2>4, <2>6, <2>7, <2>8 DEF NonEmpty, g
<1> QED
  BY <1>1, <1>2, <1>3, InvHolds, PTL DEF Spec

-----------------------------------------------------------------------------
(* The pair implements FifoLink while no direction is cut.                 *)

\* The queues of the link, as the refinement mapping puts them together.
QueueMap == [e \in Endpoints |-> InTransit(e)]

\* The link's endpoints are the endpoints, and what it may lose is what
\* leaves the two ends of a queue.
LEMMA LinkEndpoints ==
  /\ Link!Endpoints = Endpoints /\ \A e \in Endpoints : Link!Peer(e) = Peer(e)
  /\ \A r, q : Remains(r, q) => r \in Link!Remainders(q)
<1>1. ASSUME NEW r, NEW q, Remains(r, q)
      PROVE  r \in Link!Remainders(q)
  <2>1. PICK i \in 0..Len(q) : \E j \in i..Len(q) :
               r = SubSeq(q, 1, i) \o SubSeq(q, j + 1, Len(q))
    BY <1>1 DEF Remains
  <2>2. r \in {SubSeq(q, 1, i) \o SubSeq(q, j + 1, Len(q)) : j \in i..Len(q)}
    BY <2>1
  <2> QED
    BY <2>1, <2>2 DEF Link!Remainders
<1>2. Link!Endpoints = Endpoints /\ \A e \in Endpoints : Link!Peer(e) = Peer(e)
  BY DEF Endpoints, Link!Endpoints, Peer, Link!Peer
<1> QED
  BY <1>1, <1>2

\* A queue of the link has the type of a queue.
LEMMA InTransitType ==
  ASSUME QueuesOK, NEW e \in Endpoints
  PROVE  InTransit(e) \in Seq(Reading)
<1> DEFINE x == inbox[Peer(e)]
           d == DataOf(pipe[Peer(e)])
           b == outbox[e]
<1>1. x \in Seq(Reading) /\ d \in Seq(Reading) /\ b \in Seq(Reading)
  BY FreshTypes
<1>2. InTransit(e) = (x \o d) \o b
  BY DEF InTransit
<1> HIDE DEF x, d, b
<1> QED
  BY <1>1, <1>2, ConcatProperties

\* A step that at most loses messages of either direction is a step of the
\* link.
LEMMA LinkLoses ==
  ASSUME UNCHANGED <<sent, handled>>, \A e \in Endpoints : Remains(InTransit(e)', InTransit(e))
  PROVE  Link!Next
<1>1. Server \in Endpoints /\ Client \in Endpoints /\ Endpoints = {Server, Client}
      /\ Server # Client
  BY RolesDiffer DEF Endpoints
<1>2. QueueMap' = [QueueMap EXCEPT ![Server] = InTransit(Server)', ![Client] = InTransit(Client)']
  BY <1>1 DEF QueueMap
<1>3. QueueMap[Server] = InTransit(Server) /\ QueueMap[Client] = InTransit(Client)
  BY <1>1 DEF QueueMap
<1>4. /\ InTransit(Server)' \in Link!Remainders(QueueMap[Server])
      /\ InTransit(Client)' \in Link!Remainders(QueueMap[Client])
  BY <1>1, <1>3, LinkEndpoints
<1>5. Link!Lose
  BY <1>2, <1>4 DEF Link!Lose, QueueMap
<1> QED
  BY <1>5 DEF Link!Next

\* A message submitted enters the link.
LEMMA LinkSubmits ==
  ASSUME QueuesOK, NEW e \in Endpoints, NEW m, Submits(e, m)
  PROVE  Link!Next
<1> DEFINE p == Peer(e)
           q == InTransit(e)
<1>1. p \in Endpoints /\ p # e /\ Peer(p) = e /\ \A f \in Endpoints : f # e => f = p
  BY PeerIsOther
<1>2. /\ m \in Message /\ m.from = e /\ m.seq = Len(sent[e]) + 1
      /\ sent' = [sent EXCEPT ![e] = Append(sent[e], m)]
      /\ outbox'[e] = Append(outbox[e], m) /\ outbox'[p] = outbox[p]
      /\ UNCHANGED <<inbox, handled, pipe>>
  BY <1>1 DEF Submits, QueuesOK, mediumVars
<1>3. m.type \in Types /\ m = [from |-> e, seq |-> Len(sent[e]) + 1, type |-> m.type]
  BY <1>2 DEF Message
<1>4. InTransit(p)' = InTransit(p)
  BY <1>1, <1>2 DEF InTransit
<1>5. InTransit(e)' = Append(q, m)
  <2> DEFINE x == inbox[p]
             d == DataOf(pipe[p])
             b == outbox[e]
  <2>1. x \in Seq(Reading) /\ d \in Seq(Reading) /\ b \in Seq(Reading) /\ m \in Reading
    BY <1>2, FreshTypes, FramesAreWire
  <2>2. q = (x \o d) \o b /\ InTransit(e)' = (x \o d) \o Append(b, m)
    BY <1>2 DEF InTransit
  <2> HIDE DEF x, d, b, q
  <2>3. x \o d \in Seq(Reading)
    BY <2>1, ConcatProperties
  <2>4. \A a, c \in Seq(Reading) : a \o Append(c, m) = Append(a \o c, m)
    BY <2>1, TailAdded
  <2>5. (x \o d) \o Append(b, m) = Append((x \o d) \o b, m)
    BY <2>1, <2>3, <2>4
  <2> QED
    BY <2>2, <2>5
<1>6. QueueMap' = [QueueMap EXCEPT ![e] = Append(QueueMap[e], m)]
  <2> HIDE DEF q
  <2>1. QueueMap[e] = q
    BY DEF QueueMap, q
  <2> QED
    BY <1>1, <1>4, <1>5, <2>1 DEF QueueMap
<1>7. Link!Submit(e)
  BY <1>2, <1>3, <1>6 DEF Link!Submit, QueueMap
<1> QED
  BY <1>7, LinkEndpoints DEF Link!Next

\* A message handled leaves the link at its head.
LEMMA LinkHandles ==
  ASSUME QueuesOK, NEW e \in Endpoints, Handles(e)
  PROVE  Link!Next
<1> DEFINE p == Peer(e)
           q == InTransit(p)
           h == Head(inbox[e])
<1>1. p \in Endpoints /\ p # e /\ Peer(p) = e /\ \A f \in Endpoints : f # p => f = e
  BY PeerIsOther
<1>2. /\ inbox[e] # <<>> /\ inbox'[e] = Tail(inbox[e]) /\ inbox'[p] = inbox[p]
      /\ handled' = [handled EXCEPT ![e] = Append(handled[e], h)]
      /\ UNCHANGED <<outbox, sent, pipe>>
  BY <1>1 DEF Handles, QueuesOK, mediumVars
<1>3. InTransit(e)' = InTransit(e)
  BY <1>1, <1>2 DEF InTransit
<1>4. q # <<>> /\ Head(q) = h /\ InTransit(p)' = Tail(q)
  <2> DEFINE x == inbox[e]
             t == Tail(inbox[e])
             d == DataOf(pipe[e])
             b == outbox[p]
  <2>1. x \in Seq(Reading) /\ d \in Seq(Reading) /\ b \in Seq(Reading)
    BY <1>1, FreshTypes
  <2>2. q = (x \o d) \o b /\ InTransit(p)' = (t \o d) \o b /\ x # <<>>
    BY <1>1, <1>2 DEF InTransit
  <2>3. x \o d # <<>> /\ Head(x \o d) = Head(x) /\ Tail(x \o d) = Tail(x) \o d
        /\ x \o d \in Seq(Reading)
    <3> HIDE DEF x, d
    <3> QED
      BY <2>1, <2>2, HeadOfConcat, ConcatProperties
  <2> DEFINE y == x \o d
  <2>4. y \o b # <<>> /\ Head(y \o b) = Head(y) /\ Tail(y \o b) = Tail(y) \o b
    <3> HIDE DEF y, b
    <3> QED
      BY <2>1, <2>3, HeadOfConcat DEF y
  <2> QED
    BY <2>2, <2>3, <2>4
<1> HIDE DEF q, h
<1>5. QueueMap[p] = q
  BY <1>1 DEF QueueMap, q
<1>6. QueueMap' = [QueueMap EXCEPT ![p] = Tail(QueueMap[p])]
  BY <1>1, <1>3, <1>4, <1>5 DEF QueueMap
<1>7. Link!Handle(e)
  <2>1. Link!Peer(e) = p
    BY LinkEndpoints
  <2> QED
    BY <1>2, <1>4, <1>5, <1>6, <2>1 DEF Link!Handle, QueueMap
<1> QED
  BY <1>7, LinkEndpoints DEF Link!Next

\* A step that leaves the link as it is.
LEMMA LinkSame ==
  ASSUME QueuesOK, UNCHANGED <<sent, handled>>,
         \A e \in Endpoints : InTransit(e)' = InTransit(e)
  PROVE  Link!Next
<1>1. \A e \in Endpoints : InTransit(e) \in Seq(Reading)
  BY InTransitType
<1>2. \A q \in Seq(Reading) : Remains(q, q)
  BY RemainsOfTwo
<1>3. \A e \in Endpoints : Remains(InTransit(e)', InTransit(e))
  BY <1>1, <1>2
<1> QED
  BY <1>3, LinkLoses

\* A type frame is not a message yet.
LEMMA LinkSendType ==
  ASSUME ControlOK, QueuesOK, NEW e \in Endpoints, SendTypeFrame(e)
  PROVE  Link!Next
<1> DEFINE p == Peer(e)
           f == [part |-> "type", msg |-> Head(outbox[e])]
<1>1. p \in Endpoints /\ p # e /\ Peer(p) = e /\ \A x \in Endpoints : x # e => x = p
  BY PeerIsOther
<1>2. /\ UNCHANGED <<outbox, inbox, sent, handled>> /\ outbox[e] # <<>>
      /\ pipe'[p] = Append(pipe[p], f) /\ pipe'[e] = pipe[e]
  BY <1>1, SendTypeEffects DEF QueuesOK
<1>3. f \in Frame /\ f.part # "data"
  BY <1>2, Popped, FreshTypes DEF Frame, Parts
<1>4. DataOf(pipe'[p]) = DataOf(pipe[p])
  <2> HIDE DEF f
  <2> QED
    BY <1>2, <1>3, DataOfPush, FreshTypes
<1>5. InTransit(e)' = InTransit(e) /\ InTransit(p)' = InTransit(p)
  BY <1>1, <1>2, <1>4 DEF InTransit
<1> QED
  BY <1>1, <1>2, <1>5, LinkSame

\* A payload frame is the message that leaves the outbox.
LEMMA LinkSendData ==
  ASSUME ControlOK, QueuesOK, NEW e \in Endpoints, SendDataFrame(e)
  PROVE  Link!Next
<1> DEFINE p == Peer(e)
           f == [part |-> "data", msg |-> Head(outbox[e])]
           x == inbox[p]
           d == DataOf(pipe[p])
           b == outbox[e]
<1>1. p \in Endpoints /\ p # e /\ Peer(p) = e /\ \A y \in Endpoints : y # e => y = p
  BY PeerIsOther
<1>2. /\ UNCHANGED <<inbox, sent, handled>> /\ b # <<>>
      /\ outbox'[e] = Tail(b) /\ outbox'[p] = outbox[p]
      /\ pipe'[p] = Append(pipe[p], f) /\ pipe'[e] = pipe[e]
  BY <1>1, SendDataEffects DEF QueuesOK
<1>3. f \in Frame /\ f.part = "data" /\ f.msg = Head(b)
  BY <1>2, Popped, FreshTypes DEF Frame, Parts
<1>4. DataOf(pipe'[p]) = Append(d, Head(b))
  <2> HIDE DEF f
  <2> QED
    BY <1>2, <1>3, DataOfPush, FreshTypes
<1>5. x \in Seq(Reading) /\ d \in Seq(Reading) /\ b \in Seq(Reading)
  BY FreshTypes
<1>6. /\ InTransit(e)' = InRow(x, Append(d, Head(b)), Tail(b))
      /\ InTransit(e) = InRow(x, d, b) /\ InTransit(p)' = InTransit(p)
  BY <1>1, <1>2, <1>4 DEF InTransit, InRow
<1> HIDE DEF x, d, b
<1>7. InRow(x, Append(d, Head(b)), Tail(b)) = InRow(x, d, b)
  BY <1>2, <1>5, SendInRow
<1> QED
  BY <1>1, <1>2, <1>6, <1>7, LinkSame

\* Where nothing was cut a frame taken for a type is no payload.
LEMMA LinkReceiveType ==
  ASSUME BaseInv, LinkInv, FlowInv, NEW p \in Endpoints, ReceiveTypeFrame(p), ~cut[p]
  PROVE  Link!Next
<1> USE DEF BaseInv
<1> DEFINE e == Peer(p)
<1>1. e \in Endpoints /\ p # e /\ Peer(e) = p /\ \A x \in Endpoints : x # e => x = p
  BY PeerIsOther
<1>2. /\ UNCHANGED <<outbox, inbox, sent, handled>>
      /\ pipe[p] # <<>> /\ pipe'[p] = Tail(pipe[p]) /\ pipe'[e] = pipe[e]
  BY <1>1, ReceiveTypeEffects DEF QueuesOK
<1>3. Head(pipe[p]).part # "data"
  BY TypeComes
<1>4. DataOf(pipe'[p]) = DataOf(pipe[p])
  BY <1>1, <1>2, <1>3, DataOfPop, FreshTypes
<1>5. InTransit(e)' = InTransit(e) /\ InTransit(p)' = InTransit(p)
  BY <1>1, <1>2, <1>4 DEF InTransit
<1> QED
  BY <1>1, <1>2, <1>5, LinkSame

\* Where nothing was cut the message that comes into the inbox is the one
\* whose payload is taken from the sockets; one without a payload is lost.
LEMMA LinkReceiveData ==
  ASSUME BaseInv, LinkInv, FlowInv, NEW p \in Endpoints, ReceiveDataFrame(p), ~cut[p]
  PROVE  Link!Next
<1> USE DEF BaseInv
<1> DEFINE e == Peer(p)
           f == Head(pipe[p])
           x == inbox[p]
           d == DataOf(pipe'[p])
           b == outbox[e]
<1>1. e \in Endpoints /\ p # e /\ Peer(e) = p /\ \A y \in Endpoints : y # e => y = p
  BY PeerIsOther
<1>2. /\ UNCHANGED <<outbox, sent, handled>>
      /\ pipe[p] # <<>> /\ pipe'[p] = Tail(pipe[p]) /\ pipe'[e] = pipe[e]
      /\ inbox'[e] = inbox[e]
      /\ inbox'[p] = IF IsEmpty(f) THEN x ELSE Append(x, ReadAsPayload(p, f))
  <2> DEFINE box == IF IsEmpty(f) THEN x ELSE Append(x, ReadAsPayload(p, f))
  <2>1. /\ UNCHANGED <<outbox, sent, handled>>
        /\ pipe[p] # <<>> /\ pipe' = [pipe EXCEPT ![p] = Tail(pipe[p])]
        /\ inbox' = [inbox EXCEPT ![p] = box]
    BY ReceiveDataEffects
  <2> HIDE DEF box
  <2>2. /\ pipe'[p] = Tail(pipe[p]) /\ pipe'[e] = pipe[e]
        /\ inbox'[e] = inbox[e] /\ inbox'[p] = box
    BY <1>1, <2>1 DEF QueuesOK
  <2> QED
    BY <2>1, <2>2 DEF box
<1>3. PICK m \in Reading : held[p] = <<m>> /\ f = Payload(m)
  BY PayloadComes
<1>4. f.part = "data" /\ f.msg = m /\ held[p][1] = m
  BY <1>3 DEF Payload
<1>5. ReadAsPayload(p, f) = m
  BY <1>4 DEF ReadAsPayload, Reading
<1>6. inbox'[p] = x \/ inbox'[p] = Append(x, m)
  BY <1>2, <1>5
<1>7. DataOf(pipe[p]) = <<m>> \o d
  BY <1>1, <1>2, <1>4, DataOfPop, FreshTypes
<1>8. d \in Seq(Reading)
  <2>1. pipe[p] \in Seq(Frame)
    BY DEF QueuesOK
  <2>2. d \in Seq(Message)
    BY <1>2, <2>1, Popped, DataOfType
  <2> QED
    BY <2>2, FramesAreWire, SeqMonotonic
<1>9. x \in Seq(Reading) /\ b \in Seq(Reading)
  BY <1>1, FreshTypes
<1>10. InTransit(e) = InRow(x, <<m>> \o d, b) /\ InTransit(p)' = InTransit(p)
  BY <1>1, <1>2, <1>7 DEF InTransit, InRow
<1>11. InTransit(e)' = InRow(inbox'[p], d, b)
  BY <1>1, <1>2 DEF InTransit, InRow
<1>12. InTransit(p) \in Seq(Reading) /\ InTransit(e) \in Seq(Reading)
  BY <1>1, InTransitType
<1>13. \A q \in Seq(Reading) : Remains(q, q)
  BY RemainsOfTwo
<1> HIDE DEF x, d, b
<1> DEFINE whole == InRow(x, <<m>> \o d, b)
<1>14. InRow(Append(x, m), d, b) = whole /\ Remains(InRow(x, d, b), whole)
  BY <1>8, <1>9, TakeInRow
<1>15. Remains(InTransit(e)', InTransit(e))
  <2> HIDE DEF whole
  <2>1. Remains(whole, whole)
    BY <1>10, <1>12, <1>13 DEF whole
  <2>2. CASE inbox'[p] = x
    BY <1>10, <1>11, <1>14, <2>2 DEF whole
  <2>3. CASE inbox'[p] = Append(x, m)
    BY <1>10, <1>11, <1>14, <2>1, <2>3 DEF whole
  <2> QED
    BY <1>6, <2>2, <2>3
<1>16. \A y \in Endpoints : Remains(InTransit(y)', InTransit(y))
  BY <1>1, <1>10, <1>12, <1>13, <1>15
<1> QED
  BY <1>2, <1>16, LinkLoses

\* With the connection the frames on their way are lost.
LEMMA LinkConnection ==
  ASSUME ControlOK, QueuesOK, Connection
  PROVE  Link!Next
<1>1. /\ UNCHANGED <<outbox, inbox, sent, handled>>
      /\ UNCHANGED pipe \/ pipe' = [e \in Endpoints |-> <<>>]
  BY ConnectionEffects
<1>2. CASE UNCHANGED pipe
  BY <1>1, <1>2, LinkSame DEF InTransit
<1>3. CASE pipe' = [e \in Endpoints |-> <<>>]
  <2> SUFFICES ASSUME NEW e \in Endpoints PROVE Remains(InTransit(e)', InTransit(e))
    BY <1>1, LinkLoses
  <2> DEFINE x == inbox[Peer(e)]
             d == DataOf(pipe[Peer(e)])
             b == outbox[e]
             none == <<>>
  <2>1. x \in Seq(Reading) /\ d \in Seq(Reading) /\ b \in Seq(Reading)
    BY FreshTypes
  <2>2. pipe'[Peer(e)] = none /\ DataOf(none) = none
    BY <1>3, PeerIsOther, DataOfNothing
  <2>3. InTransit(e) = (x \o d) \o b /\ InTransit(e)' = (x \o none) \o b
    BY <1>1, <2>2 DEF InTransit
  <2>4. x \o none = x
    BY <2>1, ConcatEmptySeq
  <2> HIDE DEF x, d, b, none
  <2>5. Remains(x \o b, (x \o d) \o b)
    BY <2>1, RemainsOfThree
  <2> QED
    BY <2>3, <2>4, <2>5
<1> QED
  BY <1>1, <1>2, <1>3

\* With an object its outbox and its inbox are lost.
LEMMA LinkRecreate ==
  ASSUME BaseInv, LinkInv, NEW e \in Endpoints, Recreate(e)
  PROVE  Link!Next
<1> USE DEF BaseInv
<1> DEFINE p == Peer(e)
           none == <<>>
<1>1. p \in Endpoints /\ p # e /\ Peer(p) = e /\ \A y \in Endpoints : y # e => y = p
  BY PeerIsOther
<1>2. /\ UNCHANGED <<sent, handled, pipe>> /\ ~linked
      /\ outbox'[e] = none /\ outbox'[p] = outbox[p]
      /\ inbox'[e] = none /\ inbox'[p] = inbox[p]
  <2> HIDE DEF none
  <2>1. /\ UNCHANGED <<sent, handled, pipe>> /\ ~linked
        /\ outbox' = [outbox EXCEPT ![e] = none] /\ inbox' = [inbox EXCEPT ![e] = none]
    BY RecreateEffects DEF none
  <2> QED
    BY <1>1, <2>1 DEF QueuesOK
<1>3. DataOf(pipe[e]) = none
  BY <1>2, DataOfNothing DEF LinkInv
<1>4. \A q \in Seq(Reading) : q \o none = q /\ none \o q = q
  BY ConcatEmptySeq
<1>5. \A q, r \in Seq(Reading) : Remains(q, q \o r) /\ Remains(r, q \o r)
  BY RemainsOfTwo
<1>6. none \in Seq(Reading) /\ \A q, r \in Seq(Reading) : q \o r \in Seq(Reading)
  BY EmptySeq, ConcatProperties
<1>7. Remains(InTransit(e)', InTransit(e))
  <2> DEFINE x == inbox[p]
             d == DataOf(pipe[p])
             b == outbox[e]
  <2>1. x \in Seq(Reading) /\ d \in Seq(Reading) /\ b \in Seq(Reading)
    BY FreshTypes
  <2>2. InTransit(e) = (x \o d) \o b /\ InTransit(e)' = (x \o d) \o none
    BY <1>2 DEF InTransit
  <2> HIDE DEF x, d, b, none
  <2>3. x \o d \in Seq(Reading)
    BY <1>6, <2>1
  <2> QED
    BY <1>4, <1>5, <2>1, <2>2, <2>3
<1>8. Remains(InTransit(p)', InTransit(p))
  <2> DEFINE x == inbox[e]
             b == outbox[p]
  <2>1. x \in Seq(Reading) /\ b \in Seq(Reading)
    BY <1>1, FreshTypes
  <2>2. InTransit(p) = (x \o none) \o b /\ InTransit(p)' = (none \o none) \o b
    BY <1>1, <1>2, <1>3 DEF InTransit
  <2> HIDE DEF x, b, none
  <2>3. x \o none = x /\ none \o none = none /\ none \o b = b
    BY <1>4, <1>6, <2>1
  <2>4. Remains(b, x \o b)
    BY <1>5, <2>1
  <2> QED
    BY <2>2, <2>3, <2>4
<1> QED
  BY <1>1, <1>2, <1>7, <1>8, LinkLoses

\* While no direction is cut every step is a step of the link.
LEMMA StepImplements ==
  ASSUME Inv, Next, \A e \in Endpoints : ~cut'[e]
  PROVE  [Link!Next]_(Link!linkVars)
<1> USE DEF Inv, BaseInv
<1>1. ASSUME NEW e \in Endpoints, CoreStep(e), UNCHANGED mediumVars
      PROVE  Link!Next
  <2>1. CASE Quiet(e)
    BY <2>1, LinkSame DEF Quiet, mediumVars, InTransit
  <2> QED
    BY <1>1, <2>1, CoreEffects, LinkSubmits, LinkHandles
<1>2. ASSUME NEW e \in Endpoints, SendMessagesEnd(e) \/ ReceiveMessagesEnd(e)
      PROVE  Link!Next
  <2>1. Quiet(e)
    BY <1>2, EndEffects
  <2> QED
    BY <2>1, LinkSame DEF Quiet, mediumVars, InTransit
<1>3. ASSUME NEW e \in Endpoints, SendTypeFrame(e) \/ SendDataFrame(e)
      PROVE  Link!Next
  BY <1>3, LinkSendType, LinkSendData
<1>4. ASSUME NEW e \in Endpoints, ReceiveTypeFrame(e) \/ ReceiveDataFrame(e)
      PROVE  Link!Next
  <2>1. ~cut[e]
    BY <1>4, ReceiveTypeEffects, ReceiveDataEffects
  <2> QED
    BY <1>4, <2>1, LinkReceiveType, LinkReceiveData
<1>5. CASE Connection
  BY <1>5, LinkConnection
<1>6. ASSUME NEW e \in Endpoints, Recreate(e)
      PROVE  Link!Next
  BY <1>6, LinkRecreate
<1> QED
  BY <1>1, <1>2, <1>3, <1>4, <1>5, <1>6
     DEF Next, EndpointStep, SendMessages, ReceiveMessages

\* The refinement: until a connection begins in the middle of a message,
\* whatever the two objects and the sockets do is something a link may do
\* that loses messages but keeps their order, for any number of messages,
\* whoever is deleted and created again.
THEOREM PairImplementsFifoLink == Spec => FifoLinkSpec
<1> DEFINE LinkAction == (\A e \in Endpoints : ~cut'[e]) => [Link!Next]_(Link!linkVars)
<1>1. PairInit => Link!Init
  <2> SUFFICES ASSUME PairInit PROVE Link!Init
    OBVIOUS
  <2> DEFINE none == <<>>
  <2>1. none \o none = none /\ DataOf(none) = none
    BY ConcatEmptySeq, EmptySeq, DataOfNothing
  <2>2. \A e \in Endpoints :
          inbox[Peer(e)] = none /\ pipe[Peer(e)] = none /\ outbox[e] = none
    BY PeerIsOther DEF PairInit, Init
  <2>3. sent = [e \in Endpoints |-> none] /\ handled = [e \in Endpoints |-> none]
    BY DEF PairInit, Init
  <2> HIDE DEF none
  <2>4. \A e \in Endpoints : InTransit(e) = none
    BY <2>1, <2>2 DEF InTransit
  <2> QED
    BY <2>3, <2>4, LinkEndpoints DEF Link!Init, none
<1>2. Inv /\ Next => LinkAction
  BY StepImplements
<1>3. Inv /\ [Next]_vars => [LinkAction]_vars
  BY <1>2
<1> QED
  BY <1>1, <1>3, InvHolds, PTL DEF Spec, FifoLinkSpec

=============================================================================
