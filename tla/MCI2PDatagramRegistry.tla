----------------------- MODULE MCI2PDatagramRegistry -----------------------
(* Up to three callers, two of them for the same destination (the opener and *)
(* the retry goroutine of one peer.Conn), and two manager objects, so that a *)
(* failed session is replaced.                                               *)
EXTENDS I2PDatagramRegistry

CONSTANTS b1, da, db

MCDestinations == {da, db}
MCDestOf == [c \in Conns |-> IF c = b1 THEN db ELSE da]
=============================================================================
