--------------------------- MODULE MCInprocessRoles ---------------------------
(***************************************************************************)
(* Instances of InprocessRoles for TLC.                                    *)
(***************************************************************************)
EXTENDS InprocessRoles, TLC

\* The objects are interchangeable: no definition tells one from another, and
\* every property is about all of them, or about single steps.
ObjectsAreAlike == Permutations(Objects)

=============================================================================
