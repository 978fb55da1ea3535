--------------------------- MODULE MCHistoryRegion ---------------------------
(***************************************************************************)
(* HistoryRegion for TLC.                                                  *)
(***************************************************************************)
EXTENDS HistoryRegion, TLC

\* The conversations differ only in their names.
Symmetry == Permutations(Convs)
=============================================================================
