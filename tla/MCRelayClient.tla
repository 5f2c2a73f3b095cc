--------------------------- MODULE MCRelayClient ---------------------------
(***************************************************************************)
(* One client, connected twice, with two channels to peer "a" and one to    *)
(* peer "b".                                                                *)
(***************************************************************************)
EXTENDS RelayClient, TLC

CONSTANTS a0, a1, b0

MCKeys == {a0, a1, b0}

MCPeer(x) == IF x = b0 THEN "b" ELSE "a"

Perms == Permutations(Gens) \cup Permutations(Openers)
=============================================================================
