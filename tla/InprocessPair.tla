---------------------------- MODULE InprocessPair ----------------------------
(***************************************************************************)
(* Two Petunia objects in one process, connected by IPCMediumInprocess     *)
(* (src/ipc_medium_inprocess.cpp), one constructed with the Server role    *)
(* and one with the Client role on the same channel name, as in the tests. *)
(*                                                                         *)
(* The medium keeps one static queue per direction.  Sending and receiving *)
(* exchange whole queues with std::queue::swap under the mutex of that     *)
(* direction; each is one critical section, hence one action.              *)
(***************************************************************************)
EXTENDS Petunia

VARIABLE
  channel   \* channel[e]: the static queue that e receives from
            \* (s_to_server_messages or s_to_client_messages)

vars == <<outbox, inbox, running, sendPC, recvPC, appPC, sent, handled, channel>>

\* Faulty variant: InitializeRole mixes the two maps up.
OwnQueue(e) == e

\* The owner of the queue that InitializeRole makes e send to.
SendQueueOf(e) == Peer(e)

\* Faulty variant: the outbox replaces what the channel still holds.
SendByMove(e) ==
  /\ channel' = [channel EXCEPT ![SendQueueOf(e)] = outbox[e]]
  /\ outbox' = [outbox EXCEPT ![e] = <<>>]

\* Faulty variant: the outbox is put in front of what the channel holds.
SendByPrepend(e) ==
  /\ channel' = [channel EXCEPT ![SendQueueOf(e)] = outbox[e] \o @]
  /\ outbox' = [outbox EXCEPT ![e] = <<>>]

\* outbox_queue.swap(channel queue): a batch the peer has not fetched yet
\* comes back into the outbox.
SendSwap(e) ==
  /\ channel' = [channel EXCEPT ![SendQueueOf(e)] = outbox[e]]
  /\ outbox' = [outbox EXCEPT ![e] = channel[SendQueueOf(e)]]

SendMessages(e) ==
  /\ SendMoves(e, "sending", "check")
  /\ IF outbox[e] # <<>> THEN SendSwap(e) ELSE UNCHANGED <<outbox, channel>>
  /\ UnchangedBySendLoop

\* inbox_queue.swap(channel queue) when there is something to receive; the
\* thread sleeps and looks again when there is not.
ReceiveMessages(e) ==
  /\ IF channel[e] # <<>>
       THEN /\ inbox' = [inbox EXCEPT ![e] = channel[e]]
            /\ channel' = [channel EXCEPT ![e] = inbox[e]]
            /\ RecvMoves(e, "receive", "distribute")
       ELSE /\ RecvMoves(e, "receive", "check")
            /\ UNCHANGED <<inbox, channel>>
  /\ UNCHANGED <<outbox, running, sendPC, appPC, sent, handled>>

PairInit ==
  /\ Init
  /\ channel = [e \in Endpoints |-> <<>>]

EndpointStep(e) ==
  \/ CoreStep(e) /\ UNCHANGED channel
  \/ SendMessages(e)
  \/ ReceiveMessages(e)

Next == \E e \in Endpoints : EndpointStep(e)

Spec == PairInit /\ [][Next]_vars

(***************************************************************************)
(* Fairness.  Every thread that is not blocked keeps running.  A listener  *)
(* that waits for m_send_lock competes with a send thread that takes it    *)
(* again and again: strong fairness says that it is granted the mutex some *)
(* time.  Once the application has begun to destroy an object it goes on;  *)
(* it need never submit a message, never destroy an object, and the        *)
(* condition variable need never wake anybody spuriously.                  *)
(***************************************************************************)
Fairness ==
  \A e \in Endpoints :
    /\ WF_vars((SendThread(e) /\ UNCHANGED channel) \/ SendMessages(e))
    /\ WF_vars((RecvThread(e) /\ UNCHANGED channel) \/ ReceiveMessages(e))
    /\ SF_vars(Reply(e) /\ UNCHANGED channel)
    /\ WF_vars(Terminate(e) /\ UNCHANGED channel)

FairSpec == Spec /\ Fairness

-----------------------------------------------------------------------------
(* Safety.                                                                 *)

\* The variables have their types; in particular a message is only ever in
\* the queues of the direction its sender sends in.
TypeOK ==
  /\ outbox \in [Endpoints -> Seq(Message)]
  /\ inbox \in [Endpoints -> Seq(Message)]
  /\ channel \in [Endpoints -> Seq(Message)]
  /\ sent \in [Endpoints -> Seq(Message)]
  /\ handled \in [Endpoints -> Seq(Message)]
  /\ running \in [Endpoints -> BOOLEAN]
  /\ sendPC \in [Endpoints -> SendPCs]
  /\ recvPC \in [Endpoints -> RecvPCs]
  /\ appPC \in [Endpoints -> AppPCs]
  /\ \A e \in Endpoints :
       /\ outbox[e] \in Seq(MessageFrom(e))
       /\ sent[e] \in Seq(MessageFrom(e))
       /\ inbox[e] \in Seq(MessageFrom(Peer(e)))
       /\ channel[e] \in Seq(MessageFrom(Peer(e)))
       /\ handled[e] \in Seq(MessageFrom(Peer(e)))

\* The four places a message submitted at e can be.
Places(e) ==
  <<outbox[e], channel[Peer(e)], inbox[Peer(e)], handled[Peer(e)]>>

\* No message is lost or duplicated, whatever the two swaps do to the queues
\* and in whatever order the threads take their steps: what was submitted at
\* e is exactly what is in the four places, and each message is in one of
\* them, once.
ExactlyOnePlace ==
  \A e \in Endpoints :
    /\ Range(sent[e]) = UNION {Range(Places(e)[i]) : i \in 1..4}
    /\ \A i \in 1..4 : IsInjective(Places(e)[i])
    /\ \A i, j \in 1..4 :
         i # j => Range(Places(e)[i]) \cap Range(Places(e)[j]) = {}

\* A send thread sleeps only while there is nothing to send, so no message
\* stays behind for want of a wakeup: the predicate was false under the
\* mutex, and every later push is followed by a notification.
SleepsOnlyWhenEmpty ==
  \A e \in Endpoints :
    sendPC[e] \in {"blocking", "waiting"} => outbox[e] = <<>>

\* SendEnqueuedMessages is never entered with an empty outbox, although the
\* wait also ends when the object is being destroyed and m_running is read
\* twice without synchronisation.
SendsOnlyBatches ==
  \A e \in Endpoints : sendPC[e] = "sending" => outbox[e] # <<>>

InOrder(s) == \A i, j \in DOMAIN s : i < j => s[i].seq < s[j].seq

\* A batch that comes back from the channel is older than everything pushed
\* after it, so within every queue messages are in submission order: what
\* the receiver fetches at once it handles in order.  (Between two batches
\* there is no order, see the README.)
BatchesInOrder ==
  \A e \in Endpoints :
    InOrder(outbox[e]) /\ InOrder(channel[e]) /\ InOrder(inbox[e])

\* Receiving swaps too, yet no received message is ever pushed back into the
\* channel: whenever ReceiveMessages fetches a batch the inbox it swaps in
\* is empty, so that the channel is left empty.
FetchEmptiesChannel ==
  [][\A e \in Endpoints :
       recvPC[e] = "receive" /\ recvPC'[e] = "distribute" => channel'[e] = <<>>]_vars

(***************************************************************************)
(* What makes the properties above inductive: a send thread whose wait is  *)
(* over has something to send unless the object is being destroyed; the    *)
(* receive thread goes back to the medium with an empty inbox only; the    *)
(* n-th message submitted at an endpoint has number n.                     *)
(***************************************************************************)
ReadyHasWork ==
  \A e \in Endpoints : sendPC[e] = "ready" /\ running[e] => outbox[e] # <<>>

InboxDrained ==
  \A e \in Endpoints : recvPC[e] \in {"check", "receive", "done"} => inbox[e] = <<>>

SentNumbered ==
  \A e \in Endpoints : \A n \in DOMAIN sent[e] : sent[e][n].seq = n

\* The three together: the threads hand the queues over in these states and
\* in no others, at every loop test, wait and swap.
HandOver == ReadyHasWork /\ InboxDrained /\ SentNumbered

\* The pair of objects implements the promise of PairLink: a message is in
\* flight while it is in the sender's outbox, the channel or the inbox.
InFlight(e) ==
  Range(outbox[e]) \cup Range(channel[Peer(e)]) \cup Range(inbox[Peer(e)])

Link == INSTANCE PairLink WITH inFlight <- [e \in Endpoints |-> InFlight(e)]

LinkSpec == Link!Spec

-----------------------------------------------------------------------------
(* Liveness, under FairSpec.                                               *)

\* While neither object is being destroyed, every submitted message is
\* eventually handled by the peer, although a batch may travel back and
\* forth between outbox and channel.
EveryMessageHandled ==
  \A e \in Endpoints : \A n \in 1..MaxSent[e] :
    Len(sent[e]) >= n ~>
      \/ \E i \in DOMAIN handled[Peer(e)] : handled[Peer(e)][i].seq = n
      \/ \E f \in Endpoints : appPC[f] # "open"

\* The receive thread ends once the object is being destroyed, even if one
\* of its listeners is waiting for m_send_lock at that moment.
ReceiveThreadStops ==
  \A e \in Endpoints : ~running[e] ~> recvPC[e] = "done"

\* The send thread ends too, unless it was at the one point of its loop
\* where the notification cannot reach it: past the predicate but not yet
\* blocked.
SendThreadStops ==
  \A e \in Endpoints :
    (appPC[e] = "joining" /\ sendPC[e] \notin {"blocking", "waiting"})
      ~> sendPC[e] = "done"

\* What the tests take for granted when they delete both objects: that the
\* destructor returns.  The code does not guarantee it: m_running is cleared
\* and the condition variable notified without m_send_lock, so that both can
\* happen between the send thread's evaluation of the predicate and its
\* blocking, and the join then never returns.
DestructorReturns ==
  \A e \in Endpoints : ~running[e] ~> appPC[e] = "deleted"

=============================================================================
