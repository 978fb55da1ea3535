---------------------------- MODULE MCTxDispatch ----------------------------
(***************************************************************************)
(* A small instance of TxDispatch.  The queue has two slots and the table  *)
(* two, so both overflow with three sends in flight; one of the sends is a *)
(* room post, the other two are DMs.  Liveness is checked, so no symmetry. *)
(***************************************************************************)
EXTENDS TxDispatch

CONSTANTS d1, d2, p1

MCSends == {d1, d2, p1}

MCRoomPosts == {p1}
=============================================================================
