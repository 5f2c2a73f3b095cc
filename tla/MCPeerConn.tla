----------------------------- MODULE MCPeerConn -----------------------------
(***************************************************************************)
(* Instances of PeerConn for TLC.                                          *)
(***************************************************************************)
EXTENDS PeerConn, TLC

CONSTANTS r1, r2, d1, d2, g1, g2

OneRelayLink == {r1}
BothRelayLinks == {r1, r2}
OneI2PLink == {d1}
BothI2PLinks == {d1, d2}
OneRetrier == {g1}
BothRetriers == {g1, g2}

\* Only the members of the three sets are interchangeable.
Symmetry == Permutations({r1, r2}) \cup Permutations({d1, d2}) \cup Permutations({g1, g2})
=============================================================================
