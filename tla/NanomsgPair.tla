----------------------------- MODULE NanomsgPair -----------------------------
(***************************************************************************)
(* Two Petunia objects connected by IPCMediumNanomsg                       *)
(* (src/ipc_medium_nanomsg.cpp), the Server bound and the Client connected *)
(* to one ipc address, as in the tests.  An object may be deleted and      *)
(* another created in its place.                                           *)
(*                                                                         *)
(* A message travels as two frames, its type and its payload, through the  *)
(* nanomsg PAIR sockets.  The sender blocks in nn_send while the sockets   *)
(* take no more frames, and holds m_send_lock meanwhile; the receiver asks *)
(* for a type frame without blocking and then blocks for the payload.      *)
(*                                                                         *)
(* The sockets are modelled from how the code uses them: in each direction *)
(* a bounded queue of frames that exists while the two are connected.      *)
(***************************************************************************)
EXTENDS Petunia

CONSTANTS
  EmptyTypes,  \* the types whose messages have an empty payload
  Garbage,     \* what a payload is when it is read as a type
  Recreatable, \* bound: the endpoints created again, once, after deletion
  Capacity     \* how many frames the sockets hold in one direction

ASSUME NanomsgAssumption ==
  /\ EmptyTypes \subseteq Types
  /\ Garbage \notin Types
  /\ Recreatable \subseteq Endpoints
  /\ Capacity \in Nat \ {0}

VARIABLES
  linked,    \* the two sockets are connected
  pipe,      \* pipe[e]    : the frames on their way to e
  sendPart,  \* sendPart[e]: the next frame SendMessages sends
  held,      \* held[e]    : <<m>> between the type frame of m and the payload
             \*              frame ReceiveMessages then waits for, else <<>>
  reborn,    \* reborn[e]  : the object of e has been created again
  cut        \* history: cut[e] when a new connection to e began in the
             \*          middle of a message, at one end or the other

mediumVars == <<linked, pipe, sendPart, held, reborn, cut>>

vars == <<outbox, inbox, running, sendPC, recvPC, appPC, sent, handled,
          linked, pipe, sendPart, held, reborn, cut>>

Parts == {"type", "data"}

Frame == [part : Parts, msg : Message]

\* A message as the receiver puts it together.
Reading == [from : Endpoints, seq : Nat, type : Types \union {Garbage}]

PairInit ==
  /\ Init
  /\ linked = FALSE
  /\ pipe = [e \in Endpoints |-> <<>>]
  /\ sendPart = [e \in Endpoints |-> "type"]
  /\ held = [e \in Endpoints |-> <<>>]
  /\ reborn = [e \in Endpoints |-> FALSE]
  /\ cut = [e \in Endpoints |-> FALSE]

-----------------------------------------------------------------------------
(* The connection.  nanomsg connects the sockets in the background, and    *)
(* the one that is left notices in the background that the other has been  *)
(* closed by the destructor; the frames under way are gone then.           *)

Connect ==
  /\ ~linked
  /\ \A e \in Endpoints : appPC[e] # "deleted"
  /\ linked' = TRUE
  /\ cut' = [e \in Endpoints |-> cut[e] \/ (held[e] # <<>>) # (sendPart[Peer(e)] = "data")]
  /\ UNCHANGED <<pipe, sendPart, held, reborn>>

Disconnect ==
  /\ linked
  /\ \E e \in Endpoints : appPC[e] = "deleted"
  /\ linked' = FALSE
  /\ pipe' = [e \in Endpoints |-> <<>>]
  /\ UNCHANGED <<sendPart, held, reborn, cut>>

\* The application deletes an object and creates another on the address.
Recreate(e) ==
  /\ e \in Recreatable
  /\ ~reborn[e]
  /\ appPC[e] = "deleted"
  /\ ~linked
  /\ reborn' = [reborn EXCEPT ![e] = TRUE]
  /\ outbox' = [outbox EXCEPT ![e] = <<>>]
  /\ inbox' = [inbox EXCEPT ![e] = <<>>]
  /\ running' = [running EXCEPT ![e] = TRUE]
  /\ sendPC' = [sendPC EXCEPT ![e] = "check"]
  /\ recvPC' = [recvPC EXCEPT ![e] = "check"]
  /\ appPC' = [appPC EXCEPT ![e] = "open"]
  /\ sendPart' = [sendPart EXCEPT ![e] = "type"]
  /\ held' = [held EXCEPT ![e] = <<>>]
  /\ UNCHANGED <<linked, pipe, cut, sent, handled>>

-----------------------------------------------------------------------------
(* SendMessages, entered at sendPC "sending" with m_send_lock held.        *)

\* Faulty variants: SendMessages does not wait for the sockets to take a
\* frame, or waits until they take two.
AnyRoom(e) == TRUE

RoomForTwo(e) == Len(pipe[Peer(e)]) + 1 < Capacity

HasRoom(e) == Len(pipe[Peer(e)]) < Capacity

AboutToSend(e, part) ==
  /\ sendPC[e] = "sending"
  /\ outbox[e] # <<>>
  /\ sendPart[e] = part
  /\ linked

PutFrame(e, part) ==
  pipe' = [pipe EXCEPT ![Peer(e)] = Append(@, [part |-> part, msg |-> Head(outbox[e])])]

\* Faulty variant: a frame the sockets do not take is dropped.
SendFrameOrDrop(e, part) ==
  /\ AboutToSend(e, part)
  /\ IF HasRoom(e) THEN PutFrame(e, part) ELSE UNCHANGED pipe

\* nn_send of one frame of the front message; it blocks without a connection
\* and while the sockets are full.
SendFrame(e, part) ==
  /\ AboutToSend(e, part)
  /\ HasRoom(e)
  /\ PutFrame(e, part)

SendTypeFrame(e) ==
  /\ SendFrame(e, "type")
  /\ sendPart' = [sendPart EXCEPT ![e] = "data"]
  /\ UNCHANGED <<outbox, sendPC, linked, held, reborn, cut>>
  /\ UnchangedBySendLoop

\* Faulty variant: the message stays at the front of the outbox.
SendDataFrameWithoutPop(e) ==
  /\ SendFrame(e, "data")
  /\ sendPart' = [sendPart EXCEPT ![e] = "type"]
  /\ UNCHANGED <<outbox, sendPC, linked, held, reborn, cut>>
  /\ UnchangedBySendLoop

\* The front message leaves the outbox when both frames have been sent.
SendDataFrame(e) ==
  /\ SendFrame(e, "data")
  /\ sendPart' = [sendPart EXCEPT ![e] = "type"]
  /\ outbox' = [outbox EXCEPT ![e] = Tail(@)]
  /\ UNCHANGED <<sendPC, linked, held, reborn, cut>>
  /\ UnchangedBySendLoop

\* The outbox is empty: SendMessages returns.
SendMessagesEnd(e) ==
  /\ outbox[e] = <<>>
  /\ SendMoves(e, "sending", "check")
  /\ UNCHANGED outbox
  /\ UNCHANGED mediumVars
  /\ UnchangedBySendLoop

SendMessages(e) == SendTypeFrame(e) \/ SendDataFrame(e) \/ SendMessagesEnd(e)

-----------------------------------------------------------------------------
(* ReceiveMessages, entered at recvPC "receive".                           *)

\* ReceiveMessages returns and says whether it pushed any.
AfterLoop(e) == IF inbox[e] # <<>> THEN "distribute" ELSE "check"

TakeFrame(e) ==
  /\ recvPC[e] = "receive"
  /\ pipe[e] # <<>>
  /\ pipe' = [pipe EXCEPT ![e] = Tail(@)]

\* recv returns the length of the frame, and 0 counts as failure.
IsEmpty(f) == f.part = "data" /\ f.msg.type \in EmptyTypes

\* What ReceiveMessages makes of a frame it takes for a type, and of one it
\* takes for the payload that goes with the type it holds.
ReadAsType(f) == IF f.part = "type" THEN f.msg ELSE [f.msg EXCEPT !.type = Garbage]

ReadAsPayload(e, f) ==
  [f.msg EXCEPT !.type = held[e][1].type, !.seq = IF f.part = "data" THEN @ ELSE 0]

\* recv with NN_DONTWAIT: whatever frame is there is read as a type; the
\* loop ends at an empty one.
ReceiveTypeFrame(e) ==
  /\ held[e] = <<>>
  /\ TakeFrame(e)
  /\ IF IsEmpty(Head(pipe[e]))
       THEN RecvMoves(e, "receive", AfterLoop(e)) /\ UNCHANGED held
       ELSE /\ held' = [held EXCEPT ![e] = <<ReadAsType(Head(pipe[e]))>>]
            /\ UNCHANGED recvPC
  /\ UNCHANGED <<inbox, linked, sendPart, reborn, cut>>
  /\ UNCHANGED <<outbox, running, sendPC, appPC, sent, handled>>

\* The blocking recv: without a payload the message is not pushed.
ReceiveDataFrame(e) ==
  LET f == Head(pipe[e])
  IN  /\ held[e] # <<>>
      /\ TakeFrame(e)
      /\ held' = [held EXCEPT ![e] = <<>>]
      /\ inbox' = [inbox EXCEPT ![e] = IF IsEmpty(f) THEN @ ELSE Append(@, ReadAsPayload(e, f))]
      /\ UNCHANGED <<linked, sendPart, reborn, cut>>
      /\ UNCHANGED <<outbox, running, sendPC, recvPC, appPC, sent, handled>>

\* No type frame.
ReceiveMessagesEnd(e) ==
  /\ held[e] = <<>>
  /\ pipe[e] = <<>>
  /\ RecvMoves(e, "receive", AfterLoop(e))
  /\ UNCHANGED mediumVars
  /\ UNCHANGED <<outbox, inbox, running, sendPC, appPC, sent, handled>>

ReceiveMessages(e) ==
  ReceiveTypeFrame(e) \/ ReceiveDataFrame(e) \/ ReceiveMessagesEnd(e)

-----------------------------------------------------------------------------

EndpointStep(e) ==
  \/ CoreStep(e) /\ UNCHANGED mediumVars
  \/ SendMessages(e)
  \/ ReceiveMessages(e)

Connection ==
  /\ Connect \/ Disconnect
  /\ UNCHANGED coreVars

Next == Connection \/ \E e \in Endpoints : EndpointStep(e) \/ Recreate(e)

Spec == PairInit /\ [][Next]_vars

(***************************************************************************)
(* Fairness: as in InprocessPair; besides, sockets that can be connected   *)
(* are, and a disconnection is noticed.                                    *)
(***************************************************************************)
Fairness ==
  /\ WF_vars(Connection)
  /\ \A e \in Endpoints :
       /\ WF_vars((SendThread(e) /\ UNCHANGED mediumVars) \/ SendMessages(e))
       /\ WF_vars((RecvThread(e) /\ UNCHANGED mediumVars) \/ ReceiveMessages(e))
       /\ SF_vars(Reply(e) /\ UNCHANGED mediumVars)
       /\ WF_vars(Terminate(e) /\ UNCHANGED mediumVars)

FairSpec == Spec /\ Fairness

-----------------------------------------------------------------------------
(* Safety.                                                                 *)

\* The variables have their types; the sockets never hold more than their
\* capacity, and a frame only ever travels towards its message's receiver.
TypeOK ==
  /\ outbox \in [Endpoints -> Seq(Message)]
  /\ inbox \in [Endpoints -> Seq(Reading)]
  /\ sent \in [Endpoints -> Seq(Message)]
  /\ handled \in [Endpoints -> Seq(Reading)]
  /\ running \in [Endpoints -> BOOLEAN]
  /\ sendPC \in [Endpoints -> SendPCs]
  /\ recvPC \in [Endpoints -> RecvPCs]
  /\ appPC \in [Endpoints -> AppPCs]
  /\ linked \in BOOLEAN
  /\ pipe \in [Endpoints -> Seq(Frame)]
  /\ sendPart \in [Endpoints -> Parts]
  /\ held \in [Endpoints -> Seq(Reading)]
  /\ reborn \in [Endpoints -> BOOLEAN]
  /\ cut \in [Endpoints -> BOOLEAN]
  /\ \A e \in Endpoints :
       /\ Len(pipe[e]) <= Capacity
       /\ \A i \in DOMAIN pipe[e] : pipe[e][i].msg.from = Peer(e)
       /\ Len(held[e]) <= 1

\* The messages with a payload among what receivers put together.
WithPayload == {m \in Reading : m.type \notin EmptyTypes}

NonEmpty(q) == Filter(q, WithPayload)

DataFrame == {f \in Frame : f.part = "data"}

\* The messages whose payload frames are among these frames.
DataOf(frames) ==
  LET data == Filter(frames, DataFrame)
  IN  [i \in DOMAIN data |-> data[i].msg]

\* The messages submitted at e and not yet popped by its peer, in order.  A
\* message counts as sent when its payload frame is.
InTransit(e) == inbox[Peer(e)] \o DataOf(pipe[Peer(e)]) \o outbox[e]

\* Until an object has been deleted, what a receiver has handled,
\* followed by what is under way to it, is exactly what was submitted, in
\* the order of submission and with the type it was submitted under, but for
\* the messages with an empty payload, which never arrive.
ExactlyOnceInOrder ==
  (\A e \in Endpoints : appPC[e] # "deleted" /\ ~reborn[e]) =>
    \A e \in Endpoints :
      handled[Peer(e)] \o NonEmpty(InTransit(e)) = NonEmpty(sent[e])

\* The frames of a direction, from the one whose payload the receiver waits
\* for to the one the sender has not sent yet.
Stream(e) ==
  [i \in DOMAIN held[e] |-> [part |-> "type", msg |-> held[e][i]]]
    \o pipe[e]
    \o IF sendPart[Peer(e)] = "data"
         THEN <<[part |-> "data", msg |-> Head(outbox[Peer(e)])]>>
         ELSE <<>>

\* Types and payloads never get out of step, although they are sent and
\* received separately and either side may stop at any moment: while the
\* sockets are connected the stream consists of whole messages, so that a
\* receiver that waits for a payload waits for one that is coming.  Only a
\* connection that began in the middle of a message is another matter.
WholeMessages ==
  linked =>
    \A e \in Endpoints : ~cut[e] => \A i \in DOMAIN Stream(e) :
      LET f == Stream(e)[i]
      IN  IF i % 2 = 1
            THEN /\ f.part = "type"
                 /\ i < Len(Stream(e))
                 /\ Stream(e)[i + 1] = [f EXCEPT !.part = "data"]
            ELSE f.part = "data"

\* What a receiver puts together is a message its peer has submitted, types
\* and payloads not mixed up, in the order of submission and none twice,
\* over all the objects that have lived at either end, unless a connection
\* began in the middle of a message.
GenuineUnlessCut ==
  \A e \in Endpoints : ~cut[e] =>
    LET got == handled[e] \o inbox[e]
    IN  \A i \in DOMAIN got :
          /\ got[i].seq \in DOMAIN sent[Peer(e)]
          /\ got[i] = sent[Peer(e)][got[i].seq]
          /\ \A j \in 1..(i - 1) : got[j].seq < got[i].seq

\* Until a connection begins in the middle of a message the pair implements
\* FifoLink, whoever is deleted and created again: messages are handled in
\* the order of submission, and those that are lost are lost on the way.
Link == INSTANCE FifoLink WITH queue <- [e \in Endpoints |-> InTransit(e)]

FifoLinkSpec ==
  /\ Link!Init
  /\ [][(\A e \in Endpoints : ~cut'[e]) => [Link!Next]_(Link!linkVars)]_vars

-----------------------------------------------------------------------------
(* Liveness, under FairSpec.                                               *)

\* The sender at e is blocked in nn_send.
SendBlocked(e) ==
  /\ sendPC[e] = "sending"
  /\ outbox[e] # <<>>
  /\ ~linked \/ Len(pipe[Peer(e)]) = Capacity

\* Both ends wait for each other: the listeners want to send, the send
\* threads hold m_send_lock in nn_send, and nobody empties the sockets.
Gridlock == \A e \in Endpoints : recvPC[e] = "reply" /\ SendBlocked(e)

\* While neither object is being destroyed, every message with a payload is
\* eventually handled unless the two ends block each other.
HandledOrGridlock ==
  \A e \in Endpoints : \A n \in 1..MaxSent[e] :
    (Len(sent[e]) >= n /\ sent[e][n].type \notin EmptyTypes) ~>
      \/ \E i \in DOMAIN handled[Peer(e)] : handled[Peer(e)][i].seq = n
      \/ Gridlock
      \/ \E f \in Endpoints : appPC[f] # "open"

\* If the listeners of one end never send, the ends cannot block each other,
\* however little the sockets hold.
EveryMessageHandled ==
  \A e \in Endpoints : \A n \in 1..MaxSent[e] :
    (Len(sent[e]) >= n /\ sent[e][n].type \notin EmptyTypes) ~>
      \/ \E i \in DOMAIN handled[Peer(e)] : handled[Peer(e)][i].seq = n
      \/ \E f \in Endpoints : appPC[f] # "open"

\* What may keep the destructor of e from returning: the notification missed
\* the send thread, the send thread is in nn_send with nobody to receive, or
\* the receive thread waits for a payload that was lost with the connection,
\* or for the lock of such a send thread.
DestructorStuck(e) ==
  \/ sendPC[e] = "waiting" /\ recvPC[e] = "done"
  \/ SendBlocked(e) /\ recvPC[e] \in {"done", "reply"}
  \/ ~linked /\ held[e] # <<>>

\* The destructor returns, or it hangs for good in one of those ways.
DestructorReturnsOrStuck ==
  \A e \in Endpoints :
    [](appPC[e] = "joining" => <>(appPC[e] = "deleted") \/ <>[]DestructorStuck(e))

=============================================================================
