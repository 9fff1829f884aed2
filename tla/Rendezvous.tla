----------------------------- MODULE Rendezvous -----------------------------
(***************************************************************************)
(* What a channel name promises to the objects that are constructed on it: *)
(* those present are never more than one Server and one Client, and they   *)
(* meet in one place, be it a pair of queues or a file.                    *)
(***************************************************************************)
CONSTANTS
  Objects,         \* the objects ever constructed on the channel
  Server, Client,  \* the connection roles
  Places           \* where messages can be left

VARIABLES
  role,  \* role[o] : the role of o, or "none" while o is not present
  place  \* place[o]: where o leaves and finds messages

meetingVars == <<role, place>>

Present == {o \in Objects : role[o] # "none"}

Init ==
  /\ role = [o \in Objects |-> "none"]
  /\ place \in [Objects -> Places]

Join(o) ==
  /\ o \notin Present
  /\ \E r \in {Server, Client}, p \in Places :
       /\ \A q \in Present : role[q] # r /\ place[q] = p
       /\ role' = [role EXCEPT ![o] = r]
       /\ place' = [place EXCEPT ![o] = p]

Leave(o) ==
  /\ o \in Present
  /\ role' = [role EXCEPT ![o] = "none"]
  /\ UNCHANGED place

\* Where an object would go is not settled before it joins.
Wander ==
  /\ UNCHANGED role
  /\ place' \in {p \in [Objects -> Places] : \A o \in Present : p[o] = place[o]}

Next == Wander \/ \E o \in Objects : Join(o) \/ Leave(o)

Spec == Init /\ [][Next]_meetingVars

=============================================================================
