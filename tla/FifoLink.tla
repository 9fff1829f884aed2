------------------------------ MODULE FifoLink ------------------------------
(***************************************************************************)
(* A stronger promise than PairLink for the order of messages, and a       *)
(* weaker one for their delivery: each end handles what the other          *)
(* submitted in the order of submission and without repetition, but        *)
(* messages may be lost on the way.                                        *)
(***************************************************************************)
EXTENDS Messages

VARIABLES
  sent,     \* sent[e]   : the messages submitted at e, in order
  queue,    \* queue[e]  : those of them that may still be handled, in order
  handled   \* handled[e]: the messages handled at e, in order

linkVars == <<sent, queue, handled>>

Init ==
  /\ sent = [e \in Endpoints |-> <<>>]
  /\ queue = [e \in Endpoints |-> <<>>]
  /\ handled = [e \in Endpoints |-> <<>>]

Submit(e) ==
  \E t \in Types :
    LET m == [from |-> e, seq |-> Len(sent[e]) + 1, type |-> t]
    IN  /\ sent' = [sent EXCEPT ![e] = Append(@, m)]
        /\ queue' = [queue EXCEPT ![e] = Append(@, m)]
        /\ UNCHANGED handled

Handle(e) ==
  /\ queue[Peer(e)] # <<>>
  /\ handled' = [handled EXCEPT ![e] = Append(@, Head(queue[Peer(e)]))]
  /\ queue' = [queue EXCEPT ![Peer(e)] = Tail(@)]
  /\ UNCHANGED sent

\* What is left of q when consecutive messages, possibly none, are lost.
Remainders(q) ==
  UNION {{SubSeq(q, 1, i) \o SubSeq(q, j + 1, Len(q)) : j \in i..Len(q)} : i \in 0..Len(q)}

Lose ==
  \E s \in Remainders(queue[Server]), c \in Remainders(queue[Client]) :
    /\ queue' = [queue EXCEPT ![Server] = s, ![Client] = c]
    /\ UNCHANGED <<sent, handled>>

Next == Lose \/ \E e \in Endpoints : Submit(e) \/ Handle(e)

Spec == Init /\ [][Next]_linkVars

=============================================================================
