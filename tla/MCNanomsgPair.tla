---------------------------- MODULE MCNanomsgPair ----------------------------
(***************************************************************************)
(* Instances of NanomsgPair for TLC.                                       *)
(***************************************************************************)
EXTENDS NanomsgPair

\* Values of MaxSent.
SentThree == [e \in Endpoints |-> 3]
SentTwoAndOne == [e \in Endpoints |-> IF e = Server THEN 2 ELSE 1]
=============================================================================
