------------------------------ MODULE Messages ------------------------------
(***************************************************************************)
(* The vocabulary shared by every module: the two ends of a channel and    *)
(* the messages that travel between them.  The library connects exactly    *)
(* two Petunia objects, one in the Server role and one in the Client role  *)
(* (include/petunia/types.h).                                              *)
(*                                                                         *)
(* A message carries its sender and its position among the sender's calls  *)
(* of SendMessage, so that two messages are never confused; the payload is *)
(* not modelled.  The type is the listener name it is dispatched under.    *)
(***************************************************************************)
EXTENDS Naturals, Sequences, Functions

CONSTANTS
  Server, Client,  \* the two connection roles
  Types            \* message types (listener names)

ASSUME RolesDiffer == Server # Client

Endpoints == {Server, Client}

Peer(e) == IF e = Server THEN Client ELSE Server

Message == [from : Endpoints, seq : Nat, type : Types]

\* The messages endpoint e can create.
MessageFrom(e) == [from : {e}, seq : Nat, type : Types]

\* The elements of the queue q that are in K, in the order of q.
Filter(q, K) ==
  LET kept[i \in 0..Len(q)] ==
        IF i = 0 THEN <<>>
        ELSE IF q[i] \in K THEN Append(kept[i - 1], q[i]) ELSE kept[i - 1]
  IN  kept[Len(q)]

=============================================================================
