---------------------------- MODULE RelayReports ----------------------------
(***************************************************************************)
(* A relay client as the relay manager knows it: whether it is connected,   *)
(* and how many ends of its connections it has still to report.  It is what *)
(* RelayLink leaves when the connections are not told apart, and what the   *)
(* clients of RelayHome and RelayCache are.                                 *)
(***************************************************************************)
EXTENDS Naturals

VARIABLES
  up,   \* the client is connected
  owed  \* ends of its connections not reported yet

Init == up = FALSE /\ owed = 0

Connect == ~up /\ up' = TRUE /\ UNCHANGED owed

End == up /\ up' = FALSE /\ owed' = owed + 1

Tell == owed > 0 /\ owed' = owed - 1 /\ UNCHANGED up

Next == Connect \/ End \/ Tell

Spec == Init /\ [][Next]_<<up, owed>>
=============================================================================
