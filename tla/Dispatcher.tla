----------------------------- MODULE Dispatcher -----------------------------
(***************************************************************************)
(* What the listener registry promises: messages are dispatched one by one *)
(* in the order of their arrival, each to the listener that is registered  *)
(* under its name at that moment, or to nobody.                            *)
(***************************************************************************)
EXTENDS Naturals, Sequences

CONSTANT Names

VARIABLES
  registered,  \* the names with a listener
  waiting,     \* the messages not yet dispatched, in order of arrival
  given        \* the messages given to a listener, in order

dispatcherVars == <<registered, waiting, given>>

Init == registered = {} /\ waiting = <<>> /\ given = <<>>

Register ==
  /\ \E n \in Names : registered' = registered \union {n}
  /\ UNCHANGED <<waiting, given>>

Unregister ==
  /\ registered' \in SUBSET registered
  /\ UNCHANGED <<waiting, given>>

\* Messages arrive only when the earlier ones have been dispatched.
Arrive ==
  /\ waiting = <<>>
  /\ waiting' # <<>>
  /\ UNCHANGED <<registered, given>>

Dispatch ==
  /\ waiting # <<>>
  /\ waiting' = Tail(waiting)
  /\ given' = IF Head(waiting).name \in registered THEN Append(given, Head(waiting)) ELSE given
  /\ UNCHANGED registered

Next == Register \/ Unregister \/ Arrive \/ Dispatch

Spec == Init /\ [][Next]_dispatcherVars

=============================================================================
