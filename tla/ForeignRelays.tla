--------------------------- MODULE ForeignRelays ---------------------------
(***************************************************************************)
(* What the cache of foreign relay clients (manager.go, module RelayCache)  *)
(* is to the home relay (module RelayHome): clients that come up at an      *)
(* address other than the home relay's, and of which each reports its end   *)
(* to onServerDisconnected at most once, or goes without a report.  Since   *)
(* the home relay may move meanwhile, the address it reports may be the     *)
(* home relay's by then.  RelayHome takes its steps from here, and          *)
(* RelayCache is proved to implement it.                                    *)
(***************************************************************************)
CONSTANTS
  Servers,  \* the addresses the home relay may have
  Foreign,  \* the addresses of the peers' relays
  Objects,  \* the clients alive at once
  None

VARIABLES
  homeAddr, \* the home relay's address, None before there is one
  addr,     \* the address of a client, None when there is no such client
  ended     \* the clients whose onServerDisconnected waits for relayClientMu

Init ==
  /\ homeAddr \in Servers \cup {None}
  /\ addr = [c \in Objects |-> None]
  /\ ended = {}

\* openConnVia makes a client.
Open(c, s) ==
  /\ addr[c] = None
  /\ s # homeAddr
  /\ addr' = [addr EXCEPT ![c] = s]
  /\ UNCHANGED ended

\* Its connection has ended and is reported, ...
End(c) ==
  /\ addr[c] # None
  /\ c \notin ended
  /\ ended' = ended \cup {c}
  /\ UNCHANGED addr

\* ... or nobody listens: it never connected, or the clean-up closes it.
Vanish(c) ==
  /\ addr[c] # None
  /\ c \notin ended
  /\ addr' = [addr EXCEPT ![c] = None]
  /\ UNCHANGED ended

\* onServerDisconnected has relayClientMu.
Disconnected(c) ==
  /\ c \in ended
  /\ ended' = ended \ {c}
  /\ addr' = [addr EXCEPT ![c] = None]

\* storeClient
Move == homeAddr' \in Servers /\ UNCHANGED <<addr, ended>>

Step(c) ==
  (\E s \in Foreign : Open(c, s)) \/ End(c) \/ Vanish(c) \/ Disconnected(c)

Next == Move \/ (UNCHANGED homeAddr /\ \E c \in Objects : Step(c))

Spec == Init /\ [][Next]_<<homeAddr, addr, ended>>
=============================================================================
