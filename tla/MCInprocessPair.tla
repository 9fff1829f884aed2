--------------------------- MODULE MCInprocessPair ---------------------------
(***************************************************************************)
(* Instances of InprocessPair for TLC.                                     *)
(***************************************************************************)
EXTENDS InprocessPair, TLC

\* The two ends are interchangeable: the roles only select the queues.
RoleSymmetry == Permutations({Server, Client})

\* Values of MaxSent.
SentOneAndNone == [e \in Endpoints |-> IF e = Server THEN 1 ELSE 0]
SentBoth == [e \in Endpoints |-> 2]
SentTwoAndOne == [e \in Endpoints |-> IF e = Server THEN 2 ELSE 1]
=============================================================================
