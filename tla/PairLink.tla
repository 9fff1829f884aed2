------------------------------ MODULE PairLink ------------------------------
(***************************************************************************)
(* What "pair communication" promises, whatever medium carries it: a       *)
(* message submitted by one end stays in flight until it is handled by the *)
(* other end, is handled there at most once, never comes back, and nothing *)
(* else is ever handled.  The order in which messages are handled is not   *)
(* part of this promise.                                                   *)
(***************************************************************************)
EXTENDS Messages

VARIABLES
  sent,      \* sent[e]    : the messages submitted at e, in order
  inFlight,  \* inFlight[e]: the messages submitted at e and not yet handled
  handled    \* handled[e] : the messages handled at e, in order

linkVars == <<sent, inFlight, handled>>

Init ==
  /\ sent = [e \in Endpoints |-> <<>>]
  /\ inFlight = [e \in Endpoints |-> {}]
  /\ handled = [e \in Endpoints |-> <<>>]

Submit(e) ==
  \E t \in Types :
    LET m == [from |-> e, seq |-> Len(sent[e]) + 1, type |-> t]
    IN  /\ sent' = [sent EXCEPT ![e] = Append(@, m)]
        /\ inFlight' = [inFlight EXCEPT ![e] = @ \cup {m}]
        /\ UNCHANGED handled

Handle(e) ==
  \E m \in inFlight[Peer(e)] :
    /\ handled' = [handled EXCEPT ![e] = Append(@, m)]
    /\ inFlight' = [inFlight EXCEPT ![Peer(e)] = @ \ {m}]
    /\ UNCHANGED sent

Next == \E e \in Endpoints : Submit(e) \/ Handle(e)

Spec == Init /\ [][Next]_linkVars

=============================================================================
