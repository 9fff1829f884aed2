------------------------- MODULE InprocessLinkProofs -------------------------
(***************************************************************************)
(* Two Petunia objects over IPCMediumInprocess lose nothing, duplicate     *)
(* nothing and implement PairLink, for any number of messages.             *)
(*                                                                         *)
(* The argument looks at one direction of the connection at a time: the    *)
(* messages submitted at d are in the outbox of d, in the channel and the  *)
(* inbox of its peer, or have been handled there.  A step of the program   *)
(* affects at most one direction, in one of four ways.                     *)
(***************************************************************************)
EXTENDS InprocessPairProofs

-----------------------------------------------------------------------------
(* Queues as sets of messages.                                             *)

\* Pushing adds the message.
LEMMA RangeOfAppend ==
  ASSUME NEW S, NEW s \in Seq(S), NEW x \in S
  PROVE  Range(Append(s, x)) = Range(s) \cup {x}
<1>1. /\ Append(s, x) \in Seq(S)
      /\ Len(Append(s, x)) = Len(s) + 1
      /\ \A i \in 1..Len(s) : Append(s, x)[i] = s[i]
      /\ Append(s, x)[Len(s) + 1] = x
  BY AppendProperties
<1>2. /\ DOMAIN s = 1..Len(s) /\ Len(s) \in Nat
      /\ DOMAIN Append(s, x) = 1..(Len(s) + 1)
  BY <1>1, LenProperties
<1>3. ASSUME NEW y \in Range(Append(s, x)) PROVE y \in Range(s) \cup {x}
  <2>1. PICK i \in 1..(Len(s) + 1) : y = Append(s, x)[i]
    BY <1>2, <1>3 DEF Range
  <2> QED
    BY <1>1, <1>2, <2>1 DEF Range
<1>4. ASSUME NEW y \in Range(s) PROVE y \in Range(Append(s, x))
  <2>1. PICK i \in 1..Len(s) : y = s[i]
    BY <1>2, <1>4 DEF Range
  <2>2. i \in 1..(Len(s) + 1)
    BY <1>2
  <2> QED
    BY <1>1, <1>2, <2>1, <2>2 DEF Range
<1>5. x \in Range(Append(s, x))
  BY <1>1, <1>2 DEF Range
<1> QED
  BY <1>3, <1>4, <1>5

\* Pushing a message that is not in the queue keeps it free of duplicates.
LEMMA AppendIsInjective ==
  ASSUME NEW S, NEW s \in Seq(S), NEW x \in S, IsInjective(s), x \notin Range(s)
  PROVE  IsInjective(Append(s, x))
<1>1. /\ Append(s, x) \in Seq(S)
      /\ Len(Append(s, x)) = Len(s) + 1
      /\ \A i \in 1..Len(s) : Append(s, x)[i] = s[i]
      /\ Append(s, x)[Len(s) + 1] = x
  BY AppendProperties
<1>2. /\ DOMAIN s = 1..Len(s) /\ Len(s) \in Nat
      /\ DOMAIN Append(s, x) = 1..(Len(s) + 1)
  BY <1>1, LenProperties
<1>3. \A i \in 1..Len(s) : s[i] # x
  BY <1>2 DEF Range
<1> QED
  BY <1>1, <1>2, <1>3 DEF IsInjective

\* Popping a queue without duplicates removes the front message, which is
\* then in the queue no more.
LEMMA PopFront ==
  ASSUME NEW S, NEW s \in Seq(S), s # <<>>, IsInjective(s)
  PROVE  /\ Head(s) \in Range(s)
         /\ Range(Tail(s)) = Range(s) \ {Head(s)}
         /\ IsInjective(Tail(s))
<1>1. /\ Tail(s) \in Seq(S)
      /\ Head(s) = s[1]
      /\ Len(Tail(s)) = Len(s) - 1
      /\ \A i \in 1..Len(Tail(s)) : Tail(s)[i] = s[i + 1]
  BY HeadTailProperties
<1>2. /\ DOMAIN s = 1..Len(s) /\ Len(s) \in Nat /\ Len(s) > 0
      /\ DOMAIN Tail(s) = 1..(Len(s) - 1)
  BY <1>1, LenProperties, LenIsPositive
<1>3. Head(s) \in Range(s)
  BY <1>1, <1>2 DEF Range
<1>4. IsInjective(Tail(s))
  BY <1>1, <1>2 DEF IsInjective
<1>5. ASSUME NEW y \in Range(Tail(s)) PROVE y \in Range(s) \ {Head(s)}
  <2>1. PICK i \in 1..(Len(s) - 1) : y = s[i + 1]
    BY <1>1, <1>2, <1>5 DEF Range
  <2>2. i + 1 \in 1..Len(s) /\ 1 \in 1..Len(s) /\ i + 1 # 1
    BY <1>2
  <2>3. s[i + 1] # s[1]
    BY <1>2, <2>2 DEF IsInjective
  <2> QED
    BY <1>1, <1>2, <2>1, <2>2, <2>3 DEF Range
<1>6. ASSUME NEW y \in Range(s), y # Head(s) PROVE y \in Range(Tail(s))
  <2>1. PICK i \in 1..Len(s) : y = s[i]
    BY <1>2, <1>6 DEF Range
  <2>2. i # 1
    BY <1>1, <1>6, <2>1
  <2>3. i - 1 \in 1..(Len(s) - 1) /\ (i - 1) + 1 = i
    BY <1>2, <2>2
  <2>4. Tail(s)[i - 1] = s[i]
    BY <1>1, <1>2, <2>3
  <2> QED
    BY <1>2, <2>1, <2>3, <2>4 DEF Range
<1> QED
  BY <1>3, <1>4, <1>5, <1>6

-----------------------------------------------------------------------------
(* The four places of a direction, and what a step does to them.           *)

\* Nothing happens to the messages submitted at d.
Still(d) ==
  /\ sent'[d] = sent[d]
  /\ outbox'[d] = outbox[d]
  /\ channel'[Peer(d)] = channel[Peer(d)]
  /\ inbox'[Peer(d)] = inbox[Peer(d)]
  /\ handled'[Peer(d)] = handled[Peer(d)]

NewMessage(d, t) == [from |-> d, seq |-> Len(sent[d]) + 1, type |-> t]

Submitted(d, t) ==
  /\ sent'[d] = Append(sent[d], NewMessage(d, t))
  /\ outbox'[d] = Append(outbox[d], NewMessage(d, t))
  /\ channel'[Peer(d)] = channel[Peer(d)]
  /\ inbox'[Peer(d)] = inbox[Peer(d)]
  /\ handled'[Peer(d)] = handled[Peer(d)]

SwappedOut(d) ==
  /\ sent'[d] = sent[d]
  /\ outbox'[d] = channel[Peer(d)]
  /\ channel'[Peer(d)] = outbox[d]
  /\ inbox'[Peer(d)] = inbox[Peer(d)]
  /\ handled'[Peer(d)] = handled[Peer(d)]

SwappedIn(d) ==
  /\ sent'[d] = sent[d]
  /\ outbox'[d] = outbox[d]
  /\ channel'[Peer(d)] = inbox[Peer(d)]
  /\ inbox'[Peer(d)] = channel[Peer(d)]
  /\ handled'[Peer(d)] = handled[Peer(d)]

Handled(d) ==
  /\ inbox[Peer(d)] # <<>>
  /\ sent'[d] = sent[d]
  /\ outbox'[d] = outbox[d]
  /\ channel'[Peer(d)] = channel[Peer(d)]
  /\ inbox'[Peer(d)] = Tail(inbox[Peer(d)])
  /\ handled'[Peer(d)] = Append(handled[Peer(d)], Head(inbox[Peer(d)]))

Moved(d) ==
  \/ Still(d)
  \/ \E t \in Types : Submitted(d, t)
  \/ SwappedOut(d)
  \/ SwappedIn(d)
  \/ Handled(d)

\* A step moves messages in one direction at most.
LEMMA OneDirectionMoves ==
  TypeOK /\ [Next]_vars => \E d \in Endpoints : Moved(d) /\ Still(Peer(d))
<1> SUFFICES ASSUME TypeOK, [Next]_vars
             PROVE  \E d \in Endpoints : Moved(d) /\ Still(Peer(d))
  OBVIOUS
<1> USE DEF Moved
<1>1. ASSUME UNCHANGED <<outbox, inbox, channel, sent, handled>>
      PROVE  \E d \in Endpoints : Moved(d) /\ Still(Peer(d))
  BY <1>1 DEF Still, Endpoints
<1>2. ASSUME NEW e \in Endpoints, NEW t \in Types, SendMessage(e, t),
             UNCHANGED <<inbox, channel, handled>>
      PROVE  Moved(e) /\ Still(Peer(e))
  <2>1. Submitted(e, t)
    BY <1>2 DEF SendMessage, Submitted, NewMessage, TypeOK
  <2>2. Still(Peer(e))
    BY <1>2, PeerIsOther DEF SendMessage, Still, TypeOK
  <2> QED
    BY <2>1, <2>2
<1>3. ASSUME NEW e \in Endpoints, CoreStep(e), UNCHANGED channel
      PROVE  \E d \in Endpoints : Moved(d) /\ Still(Peer(d))
  <2>1. CASE AppSend(e)
    BY <1>2, <1>3, <2>1 DEF AppSend
  <2>2. CASE Reply(e)
    BY <1>2, <1>3, <2>2 DEF Reply
  <2>3. CASE Distribute(e)
    <3>1. Handled(Peer(e))
      BY <1>3, <2>3, PeerIsOther DEF Distribute, Handled, TypeOK
    <3>2. Still(e)
      BY <1>3, <2>3, PeerIsOther DEF Distribute, Still, TypeOK
    <3> QED
      BY <3>1, <3>2, PeerIsOther
  <2> QED
    BY <1>1, <1>3, <2>1, <2>2, <2>3
       DEF CoreStep, SendThread, SendLoopTest, SendAcquire, SendBlock, SendTest,
           SpuriousWakeup, UnchangedBySendLoop, RecvThread, RecvLoopTest, DistributeEnd,
           StopRunning, Terminate, StopNotify, JoinAndDelete
<1>4. ASSUME NEW e \in Endpoints, SendMessages(e)
      PROVE  \E d \in Endpoints : Moved(d) /\ Still(Peer(d))
  <2>1. CASE outbox[e] = <<>>
    BY <1>1, <1>4, <2>1 DEF SendMessages, UnchangedBySendLoop
  <2>2. CASE outbox[e] # <<>>
    <3>1. SwappedOut(e)
      BY <1>4, <2>2, PeerIsOther
         DEF SendMessages, SendSwap, SendQueueOf, UnchangedBySendLoop, SwappedOut, TypeOK
    <3>2. Still(Peer(e))
      BY <1>4, <2>2, PeerIsOther
         DEF SendMessages, SendSwap, SendQueueOf, UnchangedBySendLoop, Still, TypeOK
    <3> QED
      BY <3>1, <3>2
  <2> QED
    BY <2>1, <2>2
<1>5. ASSUME NEW e \in Endpoints, ReceiveMessages(e)
      PROVE  \E d \in Endpoints : Moved(d) /\ Still(Peer(d))
  <2>1. CASE channel[e] = <<>>
    BY <1>1, <1>5, <2>1 DEF ReceiveMessages
  <2>2. CASE channel[e] # <<>>
    <3>1. SwappedIn(Peer(e))
      BY <1>5, <2>2, PeerIsOther DEF ReceiveMessages, SwappedIn, TypeOK
    <3>2. Still(e)
      BY <1>5, <2>2, PeerIsOther DEF ReceiveMessages, Still, TypeOK
    <3> QED
      BY <3>1, <3>2, PeerIsOther
  <2> QED
    BY <2>1, <2>2
<1> QED
  BY <1>1, <1>3, <1>4, <1>5 DEF Next, EndpointStep, vars

-----------------------------------------------------------------------------
(* Conservation.                                                           *)

\* ExactlyOnePlace, for one direction and place by place.
OnePlace(d) ==
  /\ Range(sent[d]) = Range(outbox[d]) \cup Range(channel[Peer(d)])
                        \cup Range(inbox[Peer(d)]) \cup Range(handled[Peer(d)])
  /\ IsInjective(outbox[d])
  /\ IsInjective(channel[Peer(d)])
  /\ IsInjective(inbox[Peer(d)])
  /\ IsInjective(handled[Peer(d)])
  /\ Range(outbox[d]) \cap Range(channel[Peer(d)]) = {}
  /\ Range(outbox[d]) \cap Range(inbox[Peer(d)]) = {}
  /\ Range(outbox[d]) \cap Range(handled[Peer(d)]) = {}
  /\ Range(channel[Peer(d)]) \cap Range(inbox[Peer(d)]) = {}
  /\ Range(channel[Peer(d)]) \cap Range(handled[Peer(d)]) = {}
  /\ Range(inbox[Peer(d)]) \cap Range(handled[Peer(d)]) = {}

LinkInv == SentNumbered /\ \A d \in Endpoints : OnePlace(d)

\* Taken together the four places say what ExactlyOnePlace says.
LEMMA OnePlaceSuffices == (\A d \in Endpoints : OnePlace(d)) => ExactlyOnePlace
<1> SUFFICES ASSUME NEW d \in Endpoints, OnePlace(d)
             PROVE  /\ Range(sent[d]) = UNION {Range(Places(d)[i]) : i \in 1..4}
                    /\ \A i \in 1..4 : IsInjective(Places(d)[i])
                    /\ \A i, j \in 1..4 :
                         i # j => Range(Places(d)[i]) \cap Range(Places(d)[j]) = {}
  BY DEF ExactlyOnePlace
<1>1. /\ Places(d)[1] = outbox[d] /\ Places(d)[2] = channel[Peer(d)]
      /\ Places(d)[3] = inbox[Peer(d)] /\ Places(d)[4] = handled[Peer(d)]
  BY DEF Places
<1>2. 1..4 = {1, 2, 3, 4}
  OBVIOUS
<1>3. UNION {Range(Places(d)[i]) : i \in 1..4}
        = Range(Places(d)[1]) \cup Range(Places(d)[2])
            \cup Range(Places(d)[3]) \cup Range(Places(d)[4])
  BY <1>2
<1>4. \A i \in 1..4 : IsInjective(Places(d)[i])
  BY <1>1, <1>2 DEF OnePlace
<1>5. \A i, j \in 1..4 :
        i # j => Range(Places(d)[i]) \cap Range(Places(d)[j]) = {}
  BY <1>1, <1>2 DEF OnePlace
<1> QED
  BY <1>1, <1>3, <1>4, <1>5 DEF OnePlace

\* Every step keeps the messages numbered and each of them in one place.
LEMMA LinkStep == TypeOK /\ LinkInv /\ [Next]_vars => LinkInv'
<1> SUFFICES ASSUME TypeOK, LinkInv, [Next]_vars, NEW d \in Endpoints
             PROVE  /\ \A n \in DOMAIN sent'[d] : sent'[d][n].seq = n
                    /\ OnePlace(d)'
  BY DEF LinkInv, SentNumbered
<1>1. Moved(d)
  BY OneDirectionMoves, PeerIsOther DEF Moved, Endpoints
<1>2. OnePlace(d) /\ \A n \in DOMAIN sent[d] : sent[d][n].seq = n
  BY DEF LinkInv, SentNumbered
<1>3. /\ sent[d] \in Seq(Message) /\ outbox[d] \in Seq(Message)
      /\ inbox[Peer(d)] \in Seq(Message) /\ handled[Peer(d)] \in Seq(Message)
  BY PeerIsOther DEF TypeOK
<1>4. CASE Still(d)
  BY <1>2, <1>4 DEF Still, OnePlace
<1>5. ASSUME NEW t \in Types, Submitted(d, t)
      PROVE  OnePlace(d)' /\ \A n \in DOMAIN sent'[d] : sent'[d][n].seq = n
  <2> DEFINE m == NewMessage(d, t)
  <2>1. m \in Message /\ m.seq = Len(sent[d]) + 1
    BY <1>3, LenProperties DEF NewMessage, Message
  <2>2. sent'[d] = Append(sent[d], m) /\ outbox'[d] = Append(outbox[d], m)
    BY <1>5 DEF Submitted
  <2> HIDE DEF m
  <2>3. m \notin Range(sent[d])
    <3> SUFFICES ASSUME NEW n \in DOMAIN sent[d] PROVE sent[d][n] # m
      BY DEF Range
    <3>1. sent[d][n].seq = n /\ n \in 1..Len(sent[d]) /\ Len(sent[d]) \in Nat
      BY <1>2, <1>3, LenProperties
    <3> QED
      BY <2>1, <3>1
  <2>4. Range(sent'[d]) = Range(sent[d]) \cup {m}
    BY <1>3, <2>1, <2>2, RangeOfAppend
  <2>5. Range(outbox'[d]) = Range(outbox[d]) \cup {m}
    BY <1>3, <2>1, <2>2, RangeOfAppend
  <2>6. IsInjective(outbox'[d])
    BY <1>2, <1>3, <2>1, <2>2, <2>3, AppendIsInjective DEF OnePlace
  <2>7. OnePlace(d)'
    BY <1>2, <1>5, <2>3, <2>4, <2>5, <2>6 DEF Submitted, OnePlace
  <2>8. ASSUME NEW n \in DOMAIN sent'[d] PROVE sent'[d][n].seq = n
    <3>1. /\ DOMAIN sent[d] = 1..Len(sent[d]) /\ Len(sent[d]) \in Nat
          /\ DOMAIN sent'[d] = 1..(Len(sent[d]) + 1)
          /\ \A i \in 1..Len(sent[d]) : sent'[d][i] = sent[d][i]
          /\ sent'[d][Len(sent[d]) + 1] = m
      BY <1>3, <2>1, <2>2, AppendProperties, LenProperties
    <3> QED
      BY <1>2, <2>1, <2>8, <3>1
  <2> QED
    BY <2>7, <2>8
<1>6. CASE SwappedOut(d)
  BY <1>2, <1>6 DEF SwappedOut, OnePlace
<1>7. CASE SwappedIn(d)
  BY <1>2, <1>7 DEF SwappedIn, OnePlace
<1>8. CASE Handled(d)
  <2> DEFINE m == Head(inbox[Peer(d)])
  <2>1. /\ m \in Range(inbox[Peer(d)])
        /\ Range(inbox'[Peer(d)]) = Range(inbox[Peer(d)]) \ {m}
        /\ IsInjective(inbox'[Peer(d)])
    BY <1>2, <1>3, <1>8, PopFront DEF Handled, OnePlace
  <2>2. m \in Message /\ m \notin Range(handled[Peer(d)])
    BY <1>2, <1>3, <1>8, <2>1, HeadTailProperties DEF Handled, OnePlace
  <2>3. handled'[Peer(d)] = Append(handled[Peer(d)], m)
    BY <1>8 DEF Handled
  <2> HIDE DEF m
  <2>4. Range(handled'[Peer(d)]) = Range(handled[Peer(d)]) \cup {m}
    BY <1>3, <2>2, <2>3, RangeOfAppend
  <2>5. IsInjective(handled'[Peer(d)])
    BY <1>2, <1>3, <2>2, <2>3, AppendIsInjective DEF OnePlace
  <2> QED
    BY <1>2, <1>8, <2>1, <2>2, <2>4, <2>5 DEF Handled, OnePlace
<1> QED
  BY <1>1, <1>4, <1>5, <1>6, <1>7, <1>8 DEF Moved

\* The messages stay numbered, and each in one place.
LEMMA LinkInvariant == Spec => []LinkInv
<1>1. PairInit => LinkInv
  BY PeerIsOther DEF PairInit, Init, LinkInv, SentNumbered, OnePlace, Range, IsInjective
<1> QED
  BY <1>1, LinkStep, TypeCorrect, PTL DEF Spec

\* Whatever the interleaving of the two send threads, the two receive
\* threads, the listeners and the destructors, every message submitted is
\* in exactly one place and none is invented.
THEOREM NothingLostOrDuplicated == Spec => []ExactlyOnePlace
BY LinkInvariant, OnePlaceSuffices, PTL DEF LinkInv

\* The queues change hands between the threads and the medium in the states
\* the inductive argument says, and messages keep their numbers.
THEOREM QueuesHandedOver == Spec => []HandOver
BY ControlInvariant, LinkInvariant, PTL DEF HandOver, ControlInv, LinkInv

-----------------------------------------------------------------------------
(* Order within a batch.                                                   *)

InOrderAt(d) ==
  InOrder(outbox[d]) /\ InOrder(channel[Peer(d)]) /\ InOrder(inbox[Peer(d)])

OrderInv == \A d \in Endpoints : InOrderAt(d)

\* Pushing a message with a higher number keeps a queue in order.
LEMMA AppendInOrder ==
  ASSUME NEW s \in Seq(Message), NEW m \in Message, InOrder(s),
         \A x \in Range(s) : x.seq < m.seq
  PROVE  InOrder(Append(s, m))
<1>1. /\ Append(s, m) \in Seq(Message)
      /\ Len(Append(s, m)) = Len(s) + 1
      /\ \A i \in 1..Len(s) : Append(s, m)[i] = s[i]
      /\ Append(s, m)[Len(s) + 1] = m
  BY AppendProperties
<1>2. /\ DOMAIN s = 1..Len(s) /\ Len(s) \in Nat
      /\ DOMAIN Append(s, m) = 1..(Len(s) + 1)
  BY <1>1, LenProperties
<1>3. \A i \in 1..Len(s) : s[i].seq < m.seq
  BY <1>2 DEF Range
<1> QED
  BY <1>1, <1>2, <1>3 DEF InOrder

\* Popping the front message does, too.
LEMMA TailInOrder ==
  ASSUME NEW s \in Seq(Message), s # <<>>, InOrder(s)
  PROVE  InOrder(Tail(s))
<1>1. /\ Tail(s) \in Seq(Message)
      /\ Len(Tail(s)) = Len(s) - 1
      /\ \A i \in 1..Len(Tail(s)) : Tail(s)[i] = s[i + 1]
  BY HeadTailProperties
<1>2. /\ DOMAIN s = 1..Len(s) /\ Len(s) \in Nat
      /\ DOMAIN Tail(s) = 1..(Len(s) - 1)
  BY <1>1, LenProperties
<1> QED
  BY <1>1, <1>2 DEF InOrder

\* Every step keeps the queues in order: swaps exchange queues that are in
\* order, and a new message is numbered higher than all others.
LEMMA OrderStep == TypeOK /\ LinkInv /\ OrderInv /\ [Next]_vars => OrderInv'
<1> SUFFICES ASSUME TypeOK, LinkInv, OrderInv, [Next]_vars, NEW d \in Endpoints
             PROVE  InOrderAt(d)'
  BY DEF OrderInv
<1>1. Moved(d)
  BY OneDirectionMoves, PeerIsOther DEF Moved, Endpoints
<1>2. OnePlace(d) /\ InOrderAt(d) /\ \A n \in DOMAIN sent[d] : sent[d][n].seq = n
  BY DEF LinkInv, SentNumbered, OrderInv
<1>3. /\ sent[d] \in Seq(Message) /\ outbox[d] \in Seq(Message)
      /\ inbox[Peer(d)] \in Seq(Message)
  BY PeerIsOther DEF TypeOK
<1>4. ASSUME NEW t \in Types, Submitted(d, t) PROVE InOrderAt(d)'
  <2> DEFINE m == NewMessage(d, t)
  <2>1. m \in Message /\ m.seq = Len(sent[d]) + 1
    BY <1>3, LenProperties DEF NewMessage, Message
  <2>2. \A x \in Range(outbox[d]) : x.seq < m.seq
    <3> SUFFICES ASSUME NEW x \in Range(sent[d]) PROVE x.seq < m.seq
      BY <1>2 DEF OnePlace
    <3>1. PICK n \in DOMAIN sent[d] : x = sent[d][n]
      BY DEF Range
    <3>2. x.seq = n /\ n \in 1..Len(sent[d]) /\ Len(sent[d]) \in Nat
      BY <1>2, <1>3, <3>1, LenProperties
    <3> QED
      BY <2>1, <3>2
  <2>3. InOrder(outbox'[d])
    BY <1>2, <1>3, <1>4, <2>1, <2>2, AppendInOrder DEF Submitted, InOrderAt
  <2> QED
    BY <1>2, <1>4, <2>3 DEF Submitted, InOrderAt
<1>5. CASE Handled(d)
  BY <1>2, <1>3, <1>5, TailInOrder DEF Handled, InOrderAt
<1>6. CASE Still(d) \/ SwappedOut(d) \/ SwappedIn(d)
  BY <1>2, <1>6 DEF Still, SwappedOut, SwappedIn, InOrderAt
<1> QED
  BY <1>1, <1>4, <1>5, <1>6 DEF Moved

\* What a receiver fetches at once it handles in the order of submission,
\* although a batch may have travelled back to the outbox and out again.
THEOREM BatchesStayInOrder == Spec => []BatchesInOrder
<1>1. PairInit => OrderInv
  BY PeerIsOther DEF PairInit, Init, OrderInv, InOrderAt, InOrder
<1>2. Spec => []OrderInv
  BY <1>1, OrderStep, TypeCorrect, LinkInvariant, PTL DEF Spec
<1>3. OrderInv => BatchesInOrder
  <2> SUFFICES ASSUME OrderInv, NEW e \in Endpoints
               PROVE  InOrder(outbox[e]) /\ InOrder(channel[e]) /\ InOrder(inbox[e])
    BY DEF BatchesInOrder
  <2>1. InOrderAt(e) /\ InOrderAt(Peer(e)) /\ Peer(Peer(e)) = e
    BY PeerIsOther DEF OrderInv
  <2> QED
    BY <2>1 DEF InOrderAt
<1> QED
  BY <1>2, <1>3, PTL

-----------------------------------------------------------------------------
(* The pair implements PairLink.                                           *)

\* The messages in flight, as the refinement mapping counts them.
FlightMap == [e \in Endpoints |-> InFlight(e)]

\* The link's endpoints are the endpoints.
LEMMA LinkEndpoints ==
  Link!Endpoints = Endpoints /\ \A e \in Endpoints : Link!Peer(e) = Peer(e)
BY DEF Endpoints, Link!Endpoints, Peer, Link!Peer

\* Every step of the program is a step of the link, or changes nothing the
\* link speaks of.
LEMMA StepImplements ==
  TypeOK /\ LinkInv /\ TypeOK' /\ [Next]_vars => [Link!Next]_(Link!linkVars)
<1> SUFFICES ASSUME TypeOK, LinkInv, TypeOK', [Next]_vars
             PROVE  [Link!Next]_(Link!linkVars)
  OBVIOUS
<1>1. PICK d \in Endpoints : Moved(d) /\ Still(Peer(d))
  BY OneDirectionMoves
<1>2. /\ Endpoints = {d, Peer(d)} /\ Peer(d) \in Endpoints
      /\ Peer(Peer(d)) = d /\ Peer(d) # d
  BY PeerIsOther DEF Endpoints
<1>3. InFlight(Peer(d))' = InFlight(Peer(d))
  BY <1>1, <1>2 DEF Still, InFlight
<1>4. /\ sent' = [sent EXCEPT ![d] = sent'[d]]
      /\ handled' = [handled EXCEPT ![Peer(d)] = handled'[Peer(d)]]
  BY <1>1, <1>2 DEF Still, TypeOK
<1>5. FlightMap' = [FlightMap EXCEPT ![d] = InFlight(d)']
  BY <1>2, <1>3 DEF FlightMap
<1>6. /\ sent \in [Endpoints -> Seq(Message)] /\ handled \in [Endpoints -> Seq(Message)]
      /\ outbox[d] \in Seq(Message) /\ inbox[Peer(d)] \in Seq(Message)
      /\ FlightMap[d] = InFlight(d) /\ DOMAIN FlightMap = Endpoints
  BY <1>2 DEF TypeOK, FlightMap
<1>7. OnePlace(d)
  BY DEF LinkInv
<1>8. CASE Still(d) \/ SwappedOut(d) \/ SwappedIn(d)
  <2>1. InFlight(d)' = InFlight(d)
    BY <1>8 DEF Still, SwappedOut, SwappedIn, InFlight
  <2>2. sent'[d] = sent[d] /\ handled'[Peer(d)] = handled[Peer(d)]
    BY <1>8 DEF Still, SwappedOut, SwappedIn
  <2>3. sent' = sent /\ handled' = handled
    BY <1>2, <1>4, <1>6, <2>2
  <2>4. FlightMap' = FlightMap
    BY <1>2, <1>3, <2>1 DEF FlightMap
  <2> QED
    BY <2>3, <2>4 DEF Link!linkVars, FlightMap
<1>9. ASSUME NEW t \in Types, Submitted(d, t) PROVE Link!Submit(d)
  <2> DEFINE m == NewMessage(d, t)
  <2>1. m \in Message
    BY <1>6, LenProperties DEF NewMessage, Message, TypeOK
  <2>2. InFlight(d)' = InFlight(d) \cup {m}
    BY <1>6, <1>9, <2>1, RangeOfAppend DEF Submitted, InFlight
  <2>3. sent' = [sent EXCEPT ![d] = Append(sent[d], m)] /\ handled' = handled
    BY <1>4, <1>6, <1>9 DEF Submitted
  <2>4. FlightMap' = [FlightMap EXCEPT ![d] = FlightMap[d] \cup {m}]
    BY <1>5, <1>6, <2>2
  <2> QED
    BY <2>3, <2>4 DEF Link!Submit, NewMessage, FlightMap
<1>10. CASE Handled(d)
  <2> DEFINE m == Head(inbox[Peer(d)])
  <2>1. /\ m \in Range(inbox[Peer(d)])
        /\ Range(inbox'[Peer(d)]) = Range(inbox[Peer(d)]) \ {m}
    BY <1>6, <1>7, <1>10, PopFront DEF Handled, OnePlace
  <2>2. m \in InFlight(d) /\ InFlight(d)' = InFlight(d) \ {m}
    BY <1>7, <1>10, <2>1 DEF Handled, InFlight, OnePlace
  <2>3. handled' = [handled EXCEPT ![Peer(d)] = Append(handled[Peer(d)], m)] /\ sent' = sent
    BY <1>4, <1>6, <1>10 DEF Handled
  <2> HIDE DEF m
  <2>4. FlightMap' = [FlightMap EXCEPT ![d] = FlightMap[d] \ {m}]
    BY <1>5, <1>6, <2>2
  <2>5. Link!Handle(Peer(d))
    <3>1. m \in FlightMap[Link!Peer(Peer(d))] /\ Link!Peer(Peer(d)) = d
      BY <1>2, <1>6, <2>2, LinkEndpoints
    <3> QED
      BY <2>3, <2>4, <3>1 DEF Link!Handle, FlightMap
  <2> QED
    BY <1>2, <2>5, LinkEndpoints DEF Link!Next
<1> QED
  BY <1>1, <1>8, <1>9, <1>10, LinkEndpoints DEF Moved, Link!Next

\* The refinement: whatever the two objects do is something a link may do.
THEOREM PairImplementsLink == Spec => LinkSpec
<1>1. PairInit => Link!Init
  <2> SUFFICES ASSUME PairInit PROVE Link!Init
    OBVIOUS
  <2>1. \A e \in Endpoints : InFlight(e) = {}
    BY PeerIsOther DEF PairInit, Init, InFlight, Range
  <2> QED
    BY <2>1, LinkEndpoints DEF PairInit, Init, Link!Init
<1>2. TypeOK /\ LinkInv /\ TypeOK' /\ [Next]_vars => [Link!Next]_(Link!linkVars)
  BY StepImplements
<1> QED
  BY <1>1, <1>2, TypeCorrect, LinkInvariant, PTL DEF Spec, LinkSpec, Link!Spec

=============================================================================
