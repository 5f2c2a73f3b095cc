----------------------------- MODULE RelayLink -----------------------------
(***************************************************************************)
(* What a relay client promises the relay manager about its connections to  *)
(* the server (SetOnDisconnectListener): one connection at a time, and the  *)
(* end of each is reported to the listener exactly once.  The manager's     *)
(* reconnect guard runs on these reports.                                   *)
(***************************************************************************)
CONSTANT Gens  \* the successive connections of one client

VARIABLE link  \* "new", "up", "ended" or "told" (the end was reported)

Init == link = [k \in Gens |-> "new"]

Connect(k) ==
  /\ link[k] = "new"
  /\ \A j \in Gens : link[j] # "up"
  /\ link' = [link EXCEPT ![k] = "up"]

End(k) ==
  /\ link[k] = "up"
  /\ link' = [link EXCEPT ![k] = "ended"]

Tell(k) ==
  /\ link[k] = "ended"
  /\ link' = [link EXCEPT ![k] = "told"]

Next == \E k \in Gens : Connect(k) \/ End(k) \/ Tell(k)

Safety == Init /\ [][Next]_link

Spec == Safety /\ \A k \in Gens : WF_link(Tell(k))
=============================================================================
