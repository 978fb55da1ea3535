----------------------------- MODULE MCInboundDm -----------------------------
(***************************************************************************)
(* InboundDm for TLC: three messages of one contact with a zero timestamp, *)
(* an equal pair, and a CLI command; one of a second contact, and one of a  *)
(* stranger.                                                               *)
(***************************************************************************)
EXTENDS InboundDm, TLC

CONSTANTS a, b, x,                 \* two contacts and a stranger
          a0, a1, a2, a9, b1, x1   \* their messages

MCMessages == {a0, a1, a2, a9, b1, x1}

MCChat == MCMessages \ {a9}

MCTs == [m \in MCMessages |-> IF m = a0 THEN 0 ELSE 1]

MCFrom == a0 :> a @@ a1 :> a @@ a2 :> a @@ a9 :> a @@ b1 :> b @@ x1 :> x
=============================================================================
