------------------------------ MODULE MCPeerSync ------------------------------
(* The first node starts from the second, which is its own seed and starts from *)
(* a foreign peer, the only one it lets in. *)
EXTENDS PeerSync, TLC
CONSTANTS p1, p2, f1
MCNodes == {p1, p2}
MCForeign == {f1}
MCBoot == p1 :> {p2} @@ p2 :> {f1}
MCAtSeed == {p2}
MCUsers == {p2}
MCAllowed == p1 :> {p2} @@ p2 :> {f1}
=============================================================================
