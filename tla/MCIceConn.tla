----------------------------- MODULE MCIceConn -----------------------------
(***************************************************************************)
(* Instances of IceConn for TLC.                                           *)
(***************************************************************************)
EXTENDS IceConn, TLC

Perms == Permutations(Agents) \cup Permutations(Watchers) \cup Permutations(Sessions)
=============================================================================
