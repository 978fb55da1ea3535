--------------------------- MODULE MCDeviceConfig ---------------------------
(***************************************************************************)
(* Two of the keys share a routing hash, and so a session blob.            *)
(***************************************************************************)
EXTENDS DeviceConfig, TLC

CONSTANTS k1, k2, k3, c1, c2

SharedHash == [k \in Keys |-> IF k = k3 THEN 2 ELSE 1]
Symmetry == Permutations({k1, k2}) \cup Permutations(Chans)
=============================================================================
