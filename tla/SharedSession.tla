--------------------------- MODULE SharedSession ---------------------------
(***************************************************************************)
(* What the I2P datagram registry promises the peer connections that use    *)
(* it: all of them share one SAM session at a time.  A session is begun     *)
(* only while none is live, a live one is joined and not replaced, it is    *)
(* given up only when its last user leaves or when it fails, and the        *)
(* registry closes it only after that.  A failed session keeps its users    *)
(* until they leave, takes no new ones, and may be replaced meanwhile.      *)
(***************************************************************************)
CONSTANTS Users, Sessions

VARIABLES
  users,  \* who uses each session
  phase   \* "unused", "live", "left" (by its last user), "failed" or "closed"

Init ==
  /\ users = [s \in Sessions |-> {}]
  /\ phase = [s \in Sessions |-> "unused"]

Free(u) == \A s \in Sessions : u \notin users[s]

Begin(u, s) ==
  /\ Free(u)
  /\ phase[s] = "unused"
  /\ \A t \in Sessions : phase[t] # "live"
  /\ users' = [users EXCEPT ![s] = {u}]
  /\ phase' = [phase EXCEPT ![s] = "live"]

Join(u, s) ==
  /\ Free(u)
  /\ phase[s] = "live"
  /\ users' = [users EXCEPT ![s] = @ \cup {u}]
  /\ UNCHANGED phase

\* Joining after another user was first: the session made in vain is closed.
JoinInstead(u, s, t) ==
  /\ Free(u)
  /\ phase[s] = "live"
  /\ phase[t] = "unused"
  /\ users' = [users EXCEPT ![s] = @ \cup {u}]
  /\ phase' = [phase EXCEPT ![t] = "closed"]

Leave(u, s) ==
  /\ u \in users[s]
  /\ users' = [users EXCEPT ![s] = @ \ {u}]
  /\ phase' = [phase EXCEPT ![s] = IF @ = "live" /\ users[s] = {u} THEN "left" ELSE @]

\* The receive loop may fail also between the last leave and the closing.
Fail(s) ==
  /\ phase[s] \in {"live", "left"}
  /\ phase' = [phase EXCEPT ![s] = "failed"]
  /\ UNCHANGED users

Shut(s) ==
  /\ phase[s] = "left"
  /\ phase' = [phase EXCEPT ![s] = "closed"]
  /\ UNCHANGED users

Next ==
  \/ \E u \in Users, s \in Sessions : Begin(u, s) \/ Join(u, s) \/ Leave(u, s)
  \/ \E u \in Users, s, t \in Sessions : JoinInstead(u, s, t)
  \/ \E s \in Sessions : Fail(s) \/ Shut(s)

Spec == Init /\ [][Next]_<<users, phase>>
=============================================================================
