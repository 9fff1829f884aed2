---------------------------- MODULE MCSqlitePair ----------------------------
(***************************************************************************)
(* Instances of SqlitePair for TLC.                                        *)
(***************************************************************************)
EXTENDS SqlitePair

CONSTANTS news, state  \* two listener names

Sending(n) == [name |-> n, overwrite |-> FALSE]
Updating(n) == [name |-> n, overwrite |-> TRUE]

\* Values of Types.
PlainOnly == {Sending(news)}
Mixed == {Sending(news), Sending(state), Updating(state)}

\* Values of MaxSent.
SentOne == [e \in Endpoints |-> 1]
SentTwoAndOne == [e \in Endpoints |-> IF e = Server THEN 2 ELSE 1]
SentThreeAndNone == [e \in Endpoints |-> IF e = Server THEN 3 ELSE 0]
=============================================================================
