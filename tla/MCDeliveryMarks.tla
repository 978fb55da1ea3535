--------------------------- MODULE MCDeliveryMarks ---------------------------
(***************************************************************************)
(* DeliveryMarks for TLC.                                                  *)
(***************************************************************************)
EXTENDS DeliveryMarks, TLC

\* The messages differ only in their names.
Symmetry == Permutations(Messages)
=============================================================================
