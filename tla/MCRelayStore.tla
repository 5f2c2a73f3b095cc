---------------------------- MODULE MCRelayStore ----------------------------
(***************************************************************************)
(* Instances of RelayStore for TLC.                                        *)
(***************************************************************************)
EXTENDS RelayStore

OnePeer == {"p"}

\* Three connections of one peer, the first two for the same slot.
Three == {"a", "b", "c"}
ThreeOfP == [s \in Three |-> "p"]
Reconnecting == [a |-> 0, b |-> 0, c |-> 1]
=============================================================================
