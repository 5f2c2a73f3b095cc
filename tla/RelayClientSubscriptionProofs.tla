------------------- MODULE RelayClientSubscriptionProofs -------------------
(***************************************************************************)
(* Proof that a relay client listens for the peers it is connected with,    *)
(* for any number of connections, keys and callers.  It rests on the        *)
(* invariant of RelayClientProofs.                                          *)
(***************************************************************************)
EXTENDS RelayClientProofs

\* A subscription has callers that wait for their peer and have not been woken,
\* and only a connection that was made has one.
Waiters ==
  /\ cur \in Gens => loop[cur] # "off"
  /\ \A k \in Gens, p \in Peers, o \in Openers : waiting[k][p] = o =>
       /\ loop[k] # "off"
       /\ at[o] \in {"write", "wait"}
       /\ subOf[o] = k
       /\ PeerOf(o) = p
       /\ wake[o] = "none"
  /\ \A o \in Openers : wake[o] # "none" => at[o] \in {"write", "wait"}

\* Who waits for a peer nobody crossed still has its container in the table, so
\* that giving up takes no other connection's peer out of listenForOfflinePeers.
Owned ==
  running => \A p \in Peers \ crossed, o \in Openers :
               waiting[cur][p] = o => conns[key[o]] = o

\* The container is the only one its peer may have, it is in the table, and its
\* call has subscribed on a connection that still reads.
Covered(o) ==
  /\ at[o] \in {"write", "wait", "count", "check", "held"}
  /\ conns[key[o]] = o
  /\ loop[cur] \in {"read", "msg", "deliver", "drop"}
  /\ \A x \in Keys : Peer(x) = PeerOf(o) => x = key[o]
  /\ PeerOf(o) \notin crossed

\* Such a peer is listened for from the subscription on.
Heard == \A o \in Openers : Covered(o) => PeerOf(o) \in listen[cur]

-----------------------------------------------------------------------------
\* Callers that leave the subscriptions, with the others as they were.
LEMMA WaitersLeave ==
  ASSUME Types, SubTypes, Waiters, UNCHANGED cur,
         \A k \in Gens : loop[k] # "off" => loop'[k] # "off",
         NEW W \in SUBSET Openers,
         \A k \in Gens, p \in Peers :
           waiting'[k][p] = None \/ (waiting'[k][p] = waiting[k][p] /\ waiting[k][p] \notin W),
         \A o \in Openers \ W : /\ at'[o] = at[o] /\ subOf'[o] = subOf[o]
                              /\ key'[o] = key[o] /\ wake'[o] = wake[o],
         \A o \in W : wake'[o] # "none" => at'[o] \in {"write", "wait"}
  PROVE  Waiters'
BY RelayClientAssumption DEF Types, SubTypes, Waiters, PeerOf

\* Every step keeps Waiters.
LEMMA WaitersStep ==
  ASSUME Types, SubTypes, Loops, Containers, Drops, Waiters, [Next]_vars
  PROVE  Waiters'
<1> USE RelayClientAssumption DEF conn, loops, table, subs, opens
<1>1. CASE QuietStep
  <2>1. Quiet
    BY <1>1, QuietSteps
  <2>2. UNCHANGED <<cur, waiting, at, key, subOf, wake>>
    BY <2>1 DEF Quiet
  <2>3. LoopsGoOn
    BY <2>1 DEF Quiet
  <2>4. cur' \in Gens => loop'[cur'] # "off"
    BY <2>2, <2>3 DEF Waiters, LoopsGoOn
  <2>5. ASSUME NEW k \in Gens, NEW p \in Peers, NEW o \in Openers, waiting[k][p] = o
        PROVE  /\ loop'[k] # "off" /\ at[o] \in {"write", "wait"} /\ subOf[o] = k
               /\ PeerOf(o) = p /\ wake[o] = "none"
    <3>1. /\ loop[k] # "off" /\ at[o] \in {"write", "wait"} /\ subOf[o] = k
          /\ PeerOf(o) = p /\ wake[o] = "none"
      BY <2>5 DEF Waiters
    <3> QED BY <2>3, <3>1 DEF LoopsGoOn
  <2>6. \A o \in Openers : wake[o] # "none" => at[o] \in {"write", "wait"}
    BY DEF Waiters
  <2> QED BY <2>2, <2>4, <2>5, <2>6 DEF Waiters, PeerOf
<1>2. ASSUME NEW k \in Gens, Connect(k) PROVE Waiters'
  BY <1>2 DEF Connect, Types, SubTypes, Waiters, PeerOf
<1>3. CASE Close
  BY <1>3 DEF Close, ShutDown, Types, SubTypes, Waiters, PeerOf
<1>4. ASSUME NEW k \in Gens, NEW p \in Peers, PeerOnline(k, p) PROVE Waiters'
  <2> DEFINE w == waiting[k][p]
             W == {w}
  <2>1. cur = k
    BY <1>4 DEF PeerOnline, Loops, Active
  <2>2. /\ w # None /\ wake' = [wake EXCEPT ![w] = "online"]
        /\ waiting' = [waiting EXCEPT ![k][p] = None]
        /\ UNCHANGED <<cur, loop, at, subOf, key>>
    BY <1>4, <2>1 DEF PeerOnline
  <2>3. w \in Openers
    BY <2>2 DEF SubTypes
  <2>4. at[w] \in {"write", "wait"} /\ subOf[w] = k /\ PeerOf(w) = p
    BY <2>3 DEF Waiters
  <2>5. \A j \in Gens, q \in Peers : waiting[j][q] = w => j = k /\ q = p
    BY <2>3, <2>4 DEF Waiters
  <2>6. /\ W \subseteq Openers /\ \A v \in W : at'[v] \in {"write", "wait"}
        /\ \A v \in Openers \ W : wake'[v] = wake[v]
    BY <2>2, <2>3, <2>4 DEF SubTypes
  <2> HIDE DEF w
  <2>7. \A j \in Gens, q \in Peers :
         waiting'[j][q] = None \/ (waiting'[j][q] = waiting[j][q] /\ waiting[j][q] \notin W)
    BY <2>2, <2>5 DEF SubTypes
  <2> HIDE DEF W
  <2> QED BY <2>2, <2>6, <2>7, WaitersLeave
<1>5. ASSUME NEW k \in Gens, LoopDropsPeer(k) PROVE Waiters'
  <2> DEFINE p == offline[k]
             W == {w \in Openers : waiting[k][p] = w}
  <2>1. cur = k /\ p \in Peers
    BY <1>5 DEF LoopDropsPeer, Loops, Active, Drops
  <2>2. UNCHANGED <<cur, at, subOf, key>> /\ loop' = [loop EXCEPT ![k] = "read"] /\ Unsubscribe(p)
    BY <1>5 DEF LoopDropsPeer
  <2> HIDE DEF p
  <2>3. \A j \in Gens : loop[j] # "off" => loop'[j] # "off"
    BY <2>2 DEF Types
  <2>4. /\ waiting' = [waiting EXCEPT ![k][p] = None]
        /\ \A w \in Openers : wake'[w] = IF w = waiting[k][p] THEN "closed" ELSE wake[w]
    BY <2>1, <2>2 DEF Unsubscribe, CloseWaits
  <2>5. \A w \in W : at[w] \in {"write", "wait"} /\ subOf[w] = k /\ PeerOf(w) = p
    BY <2>1 DEF Waiters
  <2>6. \A j \in Gens, q \in Peers : waiting[j][q] \in W => j = k /\ q = p
    BY <2>5 DEF Waiters
  <2>7. W \subseteq Openers /\ \A w \in Openers \ W : wake'[w] = wake[w]
    BY <2>4
  <2> HIDE DEF W
  <2>8. \A j \in Gens, q \in Peers :
         waiting'[j][q] = None \/ (waiting'[j][q] = waiting[j][q] /\ waiting[j][q] \notin W)
    BY <2>4, <2>6 DEF SubTypes
  <2> QED BY <2>2, <2>3, <2>5, <2>7, <2>8, WaitersLeave
<1>6. ASSUME NEW k \in Gens, LoopCleansUp(k) PROVE Waiters'
  <2>1. cur = k
    BY <1>6 DEF LoopCleansUp, Loops, Active
  <2> DEFINE W == {w \in Openers : \E p \in Peers : waiting[k][p] = w}
  <2>2. /\ UNCHANGED <<cur, at, subOf, key>> /\ loop' = [loop EXCEPT ![k] = "done"]
        /\ waiting' = [waiting EXCEPT ![k] = [p \in Peers |-> None]]
    BY <1>6, <2>1 DEF LoopCleansUp
  <2>3. \A o \in Openers \ W : wake'[o] = wake[o]
    BY <1>6, <2>1 DEF LoopCleansUp, CloseWaits
  <2>4. \A j \in Gens : loop[j] # "off" => loop'[j] # "off"
    BY <2>2 DEF Types
  <2>5. \A o \in W : at[o] \in {"write", "wait"} /\ subOf[o] = k
    BY DEF Waiters
  <2>6. \A j \in Gens, q \in Peers : waiting[j][q] \in W => j = k
    BY <2>5 DEF Waiters
  <2>7. W \subseteq Openers
    OBVIOUS
  <2> HIDE DEF W
  <2>8. \A j \in Gens, q \in Peers :
         waiting'[j][q] = None \/ (waiting'[j][q] = waiting[j][q] /\ waiting[j][q] \notin W)
    BY <2>2, <2>6 DEF SubTypes
  <2> QED BY <2>2, <2>3, <2>4, <2>5, <2>7, <2>8, WaitersLeave
<1>7. ASSUME NEW k \in Gens, LoopCloses(k) PROVE Waiters'
  BY <1>7 DEF LoopCloses, ShutDown, Types, SubTypes, Waiters, PeerOf
<1>8. ASSUME NEW o \in Openers, NEW x \in Keys, OpenStarts(o, x) PROVE Waiters'
  BY <1>8 DEF OpenStarts, Free, Types, SubTypes, Waiters, PeerOf
<1>9. ASSUME NEW o \in Openers, OpenSubscribes(o) PROVE Waiters'
  <2> DEFINE p == PeerOf(o)
  <2>1. at[o] = "sub" /\ p \in Peers /\ wake[o] = "none"
    BY <1>9 DEF OpenSubscribes, Containers, Peers, PeerOf, SubTypes, Waiters
  <2>2. UNCHANGED <<cur, loop, key, wake>>
    BY <1>9 DEF OpenSubscribes
  <2>3. CASE at' = [at EXCEPT ![o] = "failed"] /\ UNCHANGED <<waiting, subOf>>
    BY <2>1, <2>2, <2>3 DEF Types, Waiters, PeerOf
  <2>4. CASE /\ at' = [at EXCEPT ![o] = "write"]
             /\ subOf' = [subOf EXCEPT ![o] = cur]
             /\ waiting' = [waiting EXCEPT ![cur][p] = o]
    <3> SUFFICES ASSUME NEW j \in Gens, NEW q \in Peers, NEW w \in Openers, waiting'[j][q] = w
                 PROVE  /\ loop[j] # "off" /\ at'[w] \in {"write", "wait"} /\ subOf'[w] = j
                        /\ PeerOf(w) = q /\ wake[w] = "none"
      BY <2>1, <2>2, <2>4 DEF Types, Waiters, PeerOf
    <3> HIDE DEF p
    <3>1. CASE j = cur /\ q = p
      <4>1. w = o
        BY <2>4, <3>1 DEF SubTypes
      <4> QED BY <2>1, <2>4, <3>1, <4>1 DEF Types, SubTypes, Waiters, p
    <3>2. CASE ~(j = cur /\ q = p)
      <4>1. waiting[j][q] = w
        BY <2>4, <3>2 DEF SubTypes
      <4>2. w # o
        BY <2>1, <4>1 DEF Waiters
      <4> QED BY <2>4, <4>1, <4>2 DEF Types, SubTypes, Waiters
    <3> QED BY <3>1, <3>2
  <2> QED BY <1>9, <2>3, <2>4 DEF OpenSubscribes
<1>10. ASSUME NEW o \in Openers, OpenSent(o) PROVE Waiters'
  BY <1>10 DEF OpenSent, Types, SubTypes, Waiters, PeerOf
<1>11. ASSUME NEW o \in Openers, OpenGivesUp(o) PROVE Waiters'
  <2> DEFINE j == subOf[o]
             p == PeerOf(o)
             W == {o}
  <2>1. /\ at' = [at EXCEPT ![o] = "failed"]
        /\ subOf' = [subOf EXCEPT ![o] = None]
        /\ wake' = [wake EXCEPT ![o] = "none"]
        /\ UNCHANGED <<cur, loop, key>>
    BY <1>11 DEF OpenGivesUp
  <2>2. \/ waiting[j][p] = o /\ waiting' = [waiting EXCEPT ![j][p] = None]
        \/ waiting[j][p] # o /\ waiting' = waiting
    BY <1>11 DEF OpenGivesUp, LeaveSubscription
  <2>3. \A k \in Gens, q \in Peers : waiting[k][q] = o => k = j /\ q = p
    BY DEF Waiters
  <2> HIDE DEF j, p
  <2>4. \A k \in Gens, q \in Peers :
         waiting'[k][q] = None \/ (waiting'[k][q] = waiting[k][q] /\ waiting[k][q] \notin W)
    BY <2>2, <2>3 DEF SubTypes
  <2>5. /\ W \subseteq Openers /\ \A w \in W : wake'[w] = "none"
        /\ \A w \in Openers \ W : at'[w] = at[w] /\ subOf'[w] = subOf[w] /\ wake'[w] = wake[w]
    BY <2>1 DEF Types, SubTypes
  <2> HIDE DEF W
  <2> QED BY <2>1, <2>4, <2>5, WaitersLeave
<1>12. ASSUME NEW o \in Openers, OpenWakes(o) PROVE Waiters'
  BY <1>12 DEF OpenWakes, Types, SubTypes, Waiters, PeerOf
<1>13. ASSUME NEW o \in Openers, OpenFails(o) PROVE Waiters'
  BY <1>13 DEF OpenFails, Forget, Types, SubTypes, Waiters, PeerOf
<1>14. ASSUME NEW o \in Openers, OpenCounts(o) PROVE Waiters'
  BY <1>14 DEF OpenCounts, Types, SubTypes, Waiters, PeerOf
<1>15. ASSUME NEW o \in Openers, OpenReturns(o) PROVE Waiters'
  <2> DEFINE W == {o}
  <2>1. /\ at[o] = "check" /\ UNCHANGED <<cur, loop, subOf, wake, waiting>>
        /\ at' = [at EXCEPT ![o] = "held"] \/ at' = [at EXCEPT ![o] = "idle"]
        /\ key' = key \/ key' = [key EXCEPT ![o] = None]
    BY <1>15 DEF OpenReturns, Forget
  <2>2. wake[o] = "none" /\ \A k \in Gens, p \in Peers : waiting[k][p] # o
    <3>1. wake[o] = "none"
      BY <2>1 DEF Waiters
    <3>2. ASSUME NEW k \in Gens, NEW p \in Peers, waiting[k][p] = o PROVE FALSE
      BY <2>1, <3>2 DEF Waiters
    <3> QED BY <3>1, <3>2
  <2>3. /\ W \subseteq Openers /\ \A w \in W : wake'[w] = "none"
        /\ \A w \in Openers \ W : at'[w] = at[w] /\ key'[w] = key[w]
        /\ \A k \in Gens, p \in Peers : waiting[k][p] \notin W
    BY <2>1, <2>2 DEF Types
  <2> HIDE DEF W
  <2> QED BY <2>1, <2>3, WaitersLeave
<1>16. ASSUME NEW o \in Openers, ConnCloses(o) PROVE Waiters'
  <2> DEFINE p == PeerOf(o)
             V == {w \in Openers : waiting[cur][p] = w}
             W == {o} \cup V
  <2>1. /\ at[o] = "held" /\ at' = [at EXCEPT ![o] = "idle"] /\ key' = [key EXCEPT ![o] = None]
        /\ UNCHANGED <<cur, loop, subOf>>
    BY <1>16 DEF ConnCloses, Forget
  <2>2. p \in Peers /\ wake[o] = "none" /\ \A k \in Gens, q \in Peers : waiting[k][q] # o
    BY <2>1 DEF Containers, Peers, PeerOf, Waiters
  <2>3. CASE UNCHANGED <<waiting, wake>>
    <3> DEFINE U == {o}
    <3>1. /\ U \subseteq Openers /\ \A w \in U : wake'[w] = "none"
          /\ \A w \in Openers \ U : at'[w] = at[w] /\ key'[w] = key[w]
          /\ \A k \in Gens, q \in Peers : waiting[k][q] \notin U
      BY <2>1, <2>2, <2>3 DEF Types
    <3> HIDE DEF U
    <3> QED BY <2>1, <2>3, <3>1, WaitersLeave
  <2>4. CASE conns[key[o]] = o /\ Unsubscribe(p)
    <3>1. cur \in Gens
      BY <2>1, <2>4 DEF Loops, Containers
    <3>2. waiting' = [waiting EXCEPT ![cur][p] = None]
      BY <2>4 DEF Unsubscribe
    <3>3. \A w \in Openers : wake'[w] = IF w = waiting[cur][p] THEN "closed" ELSE wake[w]
      BY <2>4 DEF Unsubscribe, CloseWaits
    <3> HIDE DEF p
    <3>4. \A w \in V : w # o /\ at[w] \in {"write", "wait"} /\ subOf[w] = cur /\ PeerOf(w) = p
      BY <2>2, <3>1 DEF Waiters
    <3>5. \A j \in Gens, q \in Peers : waiting[j][q] \in W => j = cur /\ q = p
      BY <2>2, <3>4 DEF Waiters
    <3>6. W \subseteq Openers /\ \A w \in W : wake'[w] # "none" => at'[w] \in {"write", "wait"}
      <4>1. \A w \in V : at'[w] \in {"write", "wait"}
        BY <2>1, <3>4 DEF Types
      <4>2. wake'[o] = "none"
        BY <2>2, <3>1, <3>3
      <4> QED BY <4>1, <4>2
    <3>7. \A w \in Openers \ W : /\ wake'[w] = wake[w]
                                 /\ at'[w] = at[w] /\ key'[w] = key[w]
      BY <2>1, <3>3 DEF Types
    <3> HIDE DEF W
    <3>8. \A j \in Gens, q \in Peers :
           waiting'[j][q] = None \/ (waiting'[j][q] = waiting[j][q] /\ waiting[j][q] \notin W)
      BY <3>2, <3>5 DEF SubTypes
    <3>9. \A k \in Gens : loop[k] # "off" => loop'[k] # "off"
      BY <2>1
    <3>10. \A w \in Openers \ W : subOf'[w] = subOf[w]
      BY <2>1
    <3> QED BY <2>1, <3>6, <3>7, <3>8, <3>9, <3>10, WaitersLeave
  <2> QED BY <1>16, <2>3, <2>4 DEF ConnCloses
<1> QED BY <1>1, <1>2, <1>3, <1>4, <1>5, <1>6, <1>7, <1>8, <1>9, <1>10, <1>11, <1>12,
           <1>13, <1>14, <1>15, <1>16 DEF Next, LoopStep, OpenStep, QuietStep

\* Who waits keeps its container, whatever happens to another caller's.
LEMMA OwnersStay ==
  ASSUME Loops, Containers, Waiters, Owned, UNCHANGED <<running, cur, crossed>>,
         NEW o \in Openers, at[o] \notin {"write", "wait"},
         \A w \in Openers \ {o} : key'[w] = key[w],
         \A x \in Keys, w \in Openers \ {o} : conns[x] = w => conns'[x] = w,
         \A k \in Gens, q \in Peers : waiting'[k][q] = None \/ waiting'[k][q] = waiting[k][q]
  PROVE  Owned'
<1> SUFFICES ASSUME running, NEW q \in Peers \ crossed, NEW w \in Openers, waiting'[cur][q] = w
             PROVE  conns'[key'[w]] = w
  BY DEF Owned
<1>1. cur \in Gens
  BY DEF Loops
<1>2. waiting[cur][q] = w
  BY <1>1, RelayClientAssumption
<1>3. conns[key[w]] = w
  BY <1>2 DEF Owned
<1>4. at[w] \in {"write", "wait"}
  BY <1>1, <1>2 DEF Waiters
<1>5. key[w] \in Keys
  BY <1>4 DEF Containers
<1> QED BY <1>3, <1>4, <1>5

\* Every step keeps Owned.
LEMMA OwnedStep ==
  ASSUME Types, SubTypes, Loops, Containers, Drops, Waiters, Owned, [Next]_vars
  PROVE  Owned'
<1> USE RelayClientAssumption DEF conn, loops, table, subs, opens
<1>1. CASE QuietStep
  <2>1. Quiet
    BY <1>1, QuietSteps
  <2> QED BY <2>1 DEF Quiet, Owned
<1>2. ASSUME NEW o \in Openers, OpenSent(o) \/ OpenWakes(o) \/ OpenCounts(o) PROVE Owned'
  <2>1. UNCHANGED <<running, cur, crossed, waiting, conns, key>>
    BY <1>2 DEF OpenSent, OpenWakes, OpenCounts
  <2> QED BY <2>1 DEF Owned
<1>3. ASSUME NEW k \in Gens, Connect(k) PROVE Owned'
  BY <1>3 DEF Connect, Types, SubTypes, Owned, Waiters
<1>4. CASE Close
  BY <1>4 DEF Close, ShutDown, Types, SubTypes, Owned
<1>5. ASSUME NEW k \in Gens, NEW p \in Peers, PeerOnline(k, p) PROVE Owned'
  <2>1. /\ waiting' = [waiting EXCEPT ![cur][p] = None]
        /\ UNCHANGED <<running, cur, crossed, conns, key>>
    BY <1>5 DEF PeerOnline
  <2> QED BY <2>1 DEF Owned, Loops, SubTypes
<1>6. ASSUME NEW k \in Gens, LoopDropsPeer(k) PROVE Owned'
  <2> DEFINE p == offline[k]
  <2>1. cur = k
    BY <1>6 DEF LoopDropsPeer, Loops, Active
  <2>2. UNCHANGED <<running, cur, crossed, key>> /\ waiting' = [waiting EXCEPT ![k][p] = None]
    BY <1>6, <2>1 DEF LoopDropsPeer, Unsubscribe
  <2>3. conns' = [x \in Keys |-> IF Peer(x) = p THEN None ELSE conns[x]]
    BY <1>6 DEF LoopDropsPeer
  <2> HIDE DEF p
  <2> SUFFICES ASSUME running, NEW q \in Peers \ crossed, NEW w \in Openers, waiting'[k][q] = w
               PROVE  conns'[key[w]] = w
    BY <2>1, <2>2 DEF Owned
  <2>4. q # p /\ waiting[k][q] = w
    BY <2>2 DEF SubTypes
  <2>5. conns[key[w]] = w
    BY <2>1, <2>4 DEF Owned
  <2>6. Peer(key[w]) = q /\ at[w] # "idle"
    BY <2>4 DEF Waiters, PeerOf
  <2>7. key[w] \in Keys
    BY <2>6 DEF Containers
  <2> QED BY <2>3, <2>4, <2>5, <2>6, <2>7
<1>7. ASSUME NEW k \in Gens, LoopCleansUp(k) PROVE Owned'
  <2>1. /\ waiting' = [waiting EXCEPT ![cur] = [p \in Peers |-> None]]
        /\ UNCHANGED <<running, cur, crossed, conns, key>>
    BY <1>7 DEF LoopCleansUp
  <2> QED BY <2>1 DEF Owned, Loops, SubTypes
<1>8. ASSUME NEW k \in Gens, LoopCloses(k) PROVE Owned'
  BY <1>8 DEF LoopCloses, ShutDown, Types, SubTypes, Owned
<1>9. ASSUME NEW o \in Openers, NEW x \in Keys, OpenStarts(o, x) PROVE Owned'
  <2>1. /\ at[o] = "idle" /\ conns[x] = None /\ UNCHANGED <<running, cur, crossed, waiting>>
        /\ conns' = [conns EXCEPT ![x] = o] /\ key' = [key EXCEPT ![o] = x]
    BY <1>9 DEF OpenStarts, Free
  <2>2. /\ \A w \in Openers \ {o} : key'[w] = key[w]
        /\ \A y \in Keys, w \in Openers \ {o} : conns[y] = w => conns'[y] = w
    BY <2>1 DEF Types
  <2> QED BY <2>1, <2>2, OwnersStay
<1>10. ASSUME NEW o \in Openers, OpenSubscribes(o) PROVE Owned'
  <2> DEFINE p == PeerOf(o)
  <2>1. UNCHANGED <<running, cur, conns, key>>
    BY <1>10 DEF OpenSubscribes
  <2>2. CASE UNCHANGED <<waiting, crossed>>
    BY <2>1, <2>2 DEF Owned
  <2>3. CASE /\ waiting' = [waiting EXCEPT ![cur][p] = o]
             /\ crossed' = IF conns[key[o]] = o THEN crossed ELSE crossed \cup {p}
    <3> HIDE DEF p
    <3> QED BY <2>1, <2>3 DEF Owned, Loops, SubTypes
  <2> QED BY <1>10, <2>2, <2>3 DEF OpenSubscribes
<1>11. ASSUME NEW o \in Openers, OpenGivesUp(o) PROVE Owned'
  <2> DEFINE j == subOf[o]
             p == PeerOf(o)
  <2>1. UNCHANGED <<running, cur, crossed, conns, key>>
    BY <1>11 DEF OpenGivesUp, LeaveSubscription
  <2>2. waiting' = waiting \/ waiting' = [waiting EXCEPT ![j][p] = None]
    BY <1>11 DEF OpenGivesUp, LeaveSubscription
  <2> HIDE DEF j, p
  <2>3. \A k \in Gens, q \in Peers : waiting'[k][q] = None \/ waiting'[k][q] = waiting[k][q]
    BY <2>2 DEF SubTypes
  <2> QED BY <2>1, <2>3 DEF Owned, Loops
<1>12. ASSUME NEW o \in Openers, OpenFails(o) PROVE Owned'
  <2>1. /\ at[o] = "failed" /\ UNCHANGED <<running, cur, crossed, waiting>>
        /\ conns' = [conns EXCEPT ![key[o]] = IF @ = o THEN None ELSE @]
        /\ key' = [key EXCEPT ![o] = None]
    BY <1>12 DEF OpenFails, Forget
  <2>2. /\ \A w \in Openers \ {o} : key'[w] = key[w]
        /\ \A x \in Keys, w \in Openers \ {o} : conns[x] = w => conns'[x] = w
    BY <2>1 DEF Types
  <2> QED BY <2>1, <2>2, OwnersStay
<1>13. ASSUME NEW o \in Openers, OpenReturns(o) PROVE Owned'
  <2>1. /\ at[o] = "check" /\ UNCHANGED <<running, cur, crossed, waiting>>
        /\ key' = key \/ key' = [key EXCEPT ![o] = None]
        /\ conns' = conns \/ (conns[key[o]] = o /\ conns' = [conns EXCEPT ![key[o]] = None])
    BY <1>13 DEF OpenReturns, Forget
  <2>2. /\ \A w \in Openers \ {o} : key'[w] = key[w]
        /\ \A x \in Keys, w \in Openers \ {o} : conns[x] = w => conns'[x] = w
    BY <2>1 DEF Types
  <2> QED BY <2>1, <2>2, OwnersStay
<1>14. ASSUME NEW o \in Openers, ConnCloses(o) PROVE Owned'
  <2> DEFINE p == PeerOf(o)
  <2>1. /\ at[o] = "held" /\ UNCHANGED <<running, cur, crossed>>
        /\ key' = [key EXCEPT ![o] = None]
        /\ conns' = conns \/ (conns[key[o]] = o /\ conns' = [conns EXCEPT ![key[o]] = None])
        /\ waiting' = waiting \/ waiting' = [waiting EXCEPT ![cur][p] = None]
    BY <1>14 DEF ConnCloses, Forget, Unsubscribe
  <2> HIDE DEF p
  <2>2. /\ \A w \in Openers \ {o} : key'[w] = key[w]
        /\ \A x \in Keys, w \in Openers \ {o} : conns[x] = w => conns'[x] = w
    BY <2>1 DEF Types
  <2>3. \A k \in Gens, q \in Peers : waiting'[k][q] = None \/ waiting'[k][q] = waiting[k][q]
    BY <2>1 DEF SubTypes
  <2> QED BY <2>1, <2>2, <2>3, OwnersStay
<1> QED BY <1>1, <1>2, <1>3, <1>4, <1>5, <1>6, <1>7, <1>8, <1>9, <1>10, <1>11, <1>12,
           <1>13, <1>14 DEF Next, LoopStep, OpenStep, QuietStep

\* Whoever is covered once a caller has left was covered before.
LEMMA CoveredForgets ==
  ASSUME Types, Containers, UNCHANGED <<cur, loop, crossed>>, NEW o \in Openers,
         at' = [at EXCEPT ![o] = "idle"], key' = [key EXCEPT ![o] = None],
         conns' = conns \/ (conns[key[o]] = o /\ conns' = [conns EXCEPT ![key[o]] = None]),
         NEW q \in Openers, Covered(q)'
  PROVE  q # o /\ key'[q] = key[q] /\ key[q] \in Keys /\ Covered(q)
<1>1. at'[q] # "idle" /\ at'[q] \in {"write", "wait", "count", "check", "held"}
  BY DEF Covered
<1>2. q # o /\ key'[q] = key[q] /\ at'[q] = at[q]
  BY <1>1 DEF Types
<1>3. key[q] \in Keys
  BY <1>1, <1>2 DEF Containers
<1>4. conns'[key[q]] = q
  BY <1>2 DEF Covered
<1>5. conns[key[q]] = q
  BY <1>3, <1>4, RelayClientAssumption DEF Types
<1>6. Covered(q)
  BY <1>1, <1>2, <1>5 DEF Covered, PeerOf
<1> QED BY <1>2, <1>3, <1>6

\* A caller that leaves, and no subscription with it, keeps Heard.
LEMMA HeardForgets ==
  ASSUME Types, Containers, Heard, UNCHANGED <<cur, loop, crossed, listen>>, NEW o \in Openers,
         at' = [at EXCEPT ![o] = "idle"], key' = [key EXCEPT ![o] = None],
         conns' = conns \/ (conns[key[o]] = o /\ conns' = [conns EXCEPT ![key[o]] = None])
  PROVE  Heard'
<1> SUFFICES ASSUME NEW q \in Openers, Covered(q)' PROVE PeerOf(q)' \in listen'[cur']
  BY DEF Heard
<1>1. key'[q] = key[q] /\ Covered(q)
  BY CoveredForgets
<1> QED BY <1>1 DEF Heard, PeerOf

\* With an empty table nobody is covered.
LEMMA HeardEmpty ==
  ASSUME Containers, UNCHANGED <<at, key>>, \A x \in Keys : conns'[x] = None
  PROVE  Heard'
<1>1. ASSUME NEW o \in Openers, Covered(o)' PROVE FALSE
  <2>1. at[o] # "idle" /\ conns'[key[o]] = o
    BY <1>1 DEF Covered
  <2>2. key[o] \in Keys
    BY <2>1 DEF Containers
  <2> QED BY <2>1, <2>2, RelayClientAssumption
<1> QED BY <1>1 DEF Heard

\* Every step keeps Heard.
LEMMA HeardStep ==
  ASSUME Types, SubTypes, Loops, Containers, RefsCountConns, Drops, Waiters, Owned, Heard, [Next]_vars
  PROVE  Heard'
<1> USE RelayClientAssumption DEF conn, loops, table, subs, opens
<1>1. CASE QuietStep
  <2> SUFFICES ASSUME NEW o \in Openers, Covered(o)' PROVE PeerOf(o)' \in listen'[cur']
    BY DEF Heard
  <2>0. Quiet
    BY <1>1, QuietSteps
  <2>1. UNCHANGED <<running, cur, conns, listen, crossed, at, key>>
    BY <2>0 DEF Quiet
  <2>2. at[o] # "idle" /\ conns[key[o]] = o
    BY <2>1 DEF Covered
  <2>3. cur \in Gens
    BY <2>2 DEF Containers, Loops
  <2>4. LoopsGoOn
    BY <2>0 DEF Quiet
  <2>5. loop[cur] \in {"read", "msg", "deliver", "drop"}
    BY <2>1, <2>3, <2>4 DEF Covered, LoopsGoOn
  <2>6. Covered(o)
    BY <2>1, <2>5 DEF Covered, PeerOf
  <2> QED BY <2>1, <2>6 DEF Heard, PeerOf
<1>2. ASSUME NEW k \in Gens, Connect(k) PROVE Heard'
  <2>1. UNCHANGED <<at, key>> /\ \A x \in Keys : conns'[x] = None
    BY <1>2 DEF Connect, Containers
  <2> QED BY <2>1, HeardEmpty
<1>3. CASE Close
  <2>1. UNCHANGED <<at, key>> /\ \A x \in Keys : conns'[x] = None
    BY <1>3 DEF Close, ShutDown
  <2> QED BY <2>1, HeardEmpty
<1>4. ASSUME NEW k \in Gens, NEW p \in Peers, PeerOnline(k, p) PROVE Heard'
  BY <1>4 DEF PeerOnline, Types, SubTypes, Loops, Active, Containers, Heard, Covered, PeerOf
<1>5. ASSUME NEW k \in Gens, LoopDropsPeer(k) PROVE Heard'
  <2> DEFINE p == offline[k]
  <2>1. cur = k /\ loop[k] = "drop"
    BY <1>5 DEF LoopDropsPeer, Loops, Active
  <2>2. /\ UNCHANGED <<cur, crossed, key, at>>
        /\ listen' = [listen EXCEPT ![k] = @ \ {p}]
    BY <1>5, <2>1 DEF LoopDropsPeer, Unsubscribe
  <2>3. conns' = [x \in Keys |-> IF Peer(x) = p THEN None ELSE conns[x]]
    BY <1>5 DEF LoopDropsPeer
  <2> HIDE DEF p
  <2> SUFFICES ASSUME NEW q \in Openers, Covered(q)' PROVE PeerOf(q) \in listen'[k]
    BY <2>1, <2>2 DEF Heard, PeerOf
  <2>4. at[q] # "idle" /\ conns'[key[q]] = q
    BY <2>2 DEF Covered
  <2>5. key[q] \in Keys
    BY <2>4 DEF Containers
  <2>6. PeerOf(q) # p /\ conns[key[q]] = q
    BY <2>3, <2>4, <2>5 DEF PeerOf
  <2>7. Covered(q)
    BY <2>1, <2>2, <2>6 DEF Covered, PeerOf
  <2> QED BY <2>1, <2>2, <2>6, <2>7 DEF Heard, SubTypes
<1>6. ASSUME NEW k \in Gens, LoopCleansUp(k) PROVE Heard'
  <2>1. cur = k
    BY <1>6 DEF LoopCleansUp, Loops, Active
  <2>2. cur' = k /\ loop'[k] = "done"
    BY <1>6, <2>1 DEF LoopCleansUp, Types
  <2> QED BY <2>2 DEF Heard, Covered
<1>7. ASSUME NEW k \in Gens, LoopCloses(k) PROVE Heard'
  <2>1. UNCHANGED <<at, key>>
    BY <1>7 DEF LoopCloses
  <2>2. \A x \in Keys : conns'[x] = None
    BY <1>7 DEF LoopCloses, ShutDown, Containers
  <2> QED BY <2>1, <2>2, HeardEmpty
<1>8. ASSUME NEW o \in Openers, NEW x \in Keys, OpenStarts(o, x) PROVE Heard'
  <2>1. /\ conns[x] = None /\ at[o] = "idle" /\ UNCHANGED <<cur, crossed, loop, listen>>
        /\ conns' = [conns EXCEPT ![x] = o] /\ key' = [key EXCEPT ![o] = x]
        /\ at' = [at EXCEPT ![o] = IF refs[Peer(x)] > 0 THEN "count" ELSE "sub"]
    BY <1>8 DEF OpenStarts, Free
  <2> SUFFICES ASSUME NEW q \in Openers, Covered(q)' PROVE PeerOf(q)' \in listen[cur]
    BY <2>1 DEF Heard
  <2>2. CASE q = o
    <3>1. \A y \in Keys : Peer(y) = Peer(x) => y = x
      BY <2>1, <2>2 DEF Types, Covered, PeerOf
    <3>2. Counted(Peer(x)) = {}
      BY <2>1, <3>1 DEF Counted
    <3>3. Peer(x) \in Peers
      BY DEF Peers
    <3>4. refs[Peer(x)] = Cardinality(Counted(Peer(x)))
      BY <3>3 DEF RefsCountConns
    <3>5. refs[Peer(x)] = 0
      BY <3>2, <3>4, FS_EmptySet
    <3>6. at'[o] = "sub"
      BY <2>1, <3>5 DEF Types
    <3> QED BY <2>2, <3>6 DEF Covered
  <2>3. CASE q # o
    <3>1. Covered(q) /\ PeerOf(q)' = PeerOf(q)
      BY <2>1, <2>3 DEF Types, Containers, Covered, PeerOf
    <3> QED BY <3>1 DEF Heard
  <2> QED BY <2>2, <2>3
<1>9. ASSUME NEW o \in Openers, OpenSubscribes(o) PROVE Heard'
  <2> DEFINE p == PeerOf(o)
  <2>1. at[o] = "sub" /\ UNCHANGED <<cur, loop, conns, key>>
    BY <1>9 DEF OpenSubscribes
  <2>2. CASE at' = [at EXCEPT ![o] = "failed"] /\ UNCHANGED <<listen, crossed>>
    BY <2>1, <2>2 DEF Types, Heard, Covered, PeerOf
  <2>3. CASE /\ at' = [at EXCEPT ![o] = "write"]
             /\ listen' = [listen EXCEPT ![cur] = @ \cup {p}]
             /\ crossed \subseteq crossed'
    <3> SUFFICES ASSUME NEW q \in Openers, Covered(q)' PROVE PeerOf(q) \in listen'[cur]
      BY <2>1 DEF Heard, PeerOf
    <3>1. at[q] # "idle" /\ conns[key[q]] = q
      BY <2>1, <2>3 DEF Types, Covered
    <3>2. cur \in Gens
      BY <3>1 DEF Loops, Containers
    <3> HIDE DEF p
    <3>3. listen'[cur] = listen[cur] \cup {p}
      BY <2>3, <3>2 DEF SubTypes
    <3>4. CASE q = o
      BY <3>3, <3>4 DEF p
    <3>5. CASE q # o
      <4>1. Covered(q)
        BY <2>1, <2>3, <3>5 DEF Types, Covered, PeerOf
      <4> QED BY <3>3, <4>1 DEF Heard
    <3> QED BY <3>4, <3>5
  <2>4. CASE waiting[cur][p] # None
    BY <1>9, <2>2, <2>4 DEF OpenSubscribes
  <2>5. CASE waiting[cur][p] = None
    <3>1. crossed \subseteq crossed'
      BY <1>9, <2>5 DEF OpenSubscribes
    <3> QED BY <1>9, <2>3, <2>5, <3>1 DEF OpenSubscribes
  <2> QED BY <2>4, <2>5
<1>10. ASSUME NEW o \in Openers, OpenSent(o) PROVE Heard'
  BY <1>10 DEF OpenSent, Types, SubTypes, Loops, Active, Containers, Heard, Covered, PeerOf
<1>11. ASSUME NEW o \in Openers, OpenGivesUp(o) PROVE Heard'
  <2> DEFINE j == subOf[o]
             p == PeerOf(o)
  <2>1. UNCHANGED <<running, cur, loop, crossed, conns, key>> /\ at' = [at EXCEPT ![o] = "failed"]
    BY <1>11 DEF OpenGivesUp, LeaveSubscription
  <2>2. \/ waiting[j][p] = o /\ listen' = [listen EXCEPT ![j] = @ \ {p}]
        \/ UNCHANGED listen
    BY <1>11 DEF OpenGivesUp, LeaveSubscription
  <2> SUFFICES ASSUME NEW q \in Openers, Covered(q)' PROVE PeerOf(q) \in listen'[cur]
    BY <2>1 DEF Heard, PeerOf
  <2>3. q # o /\ Covered(q)
    BY <2>1 DEF Types, Covered, PeerOf
  <2>4. key[q] \in Keys /\ PeerOf(q) \in listen[cur]
    BY <2>3 DEF Covered, Containers, Heard
  <2>5. running /\ cur \in Gens /\ PeerOf(q) \in Peers \ crossed
    BY <2>3, <2>4 DEF Covered, Containers, Loops, PeerOf, Peers
  <2>6. ~(j = cur /\ p = PeerOf(q) /\ waiting[j][p] = o)
    <3> SUFFICES ASSUME j = cur, p = PeerOf(q), waiting[j][p] = o PROVE FALSE
      OBVIOUS
    <3>1. waiting[cur][PeerOf(q)] = o
      OBVIOUS
    <3>2. conns[key[o]] = o
      BY <2>5, <3>1 DEF Owned
    <3>3. at[o] \in {"write", "wait"}
      BY <2>5, <3>1 DEF Waiters
    <3>4. key[o] \in Keys
      BY <3>3 DEF Containers
    <3>5. key[o] = key[q]
      BY <2>3, <3>4 DEF Covered, PeerOf
    <3> QED BY <2>3, <3>2, <3>5 DEF Covered
  <2> HIDE DEF j, p
  <2>7. CASE UNCHANGED listen
    BY <2>4, <2>7
  <2>8. CASE waiting[j][p] = o /\ listen' = [listen EXCEPT ![j] = @ \ {p}]
    <3>1. listen'[cur] = IF cur = j THEN listen[cur] \ {p} ELSE listen[cur]
      BY <2>5, <2>8 DEF SubTypes
    <3> QED BY <2>4, <2>6, <2>8, <3>1
  <2> QED BY <2>2, <2>7, <2>8
<1>12. ASSUME NEW o \in Openers, OpenWakes(o) PROVE Heard'
  BY <1>12 DEF OpenWakes, Types, SubTypes, Loops, Active, Containers, Heard, Covered, PeerOf
<1>13. ASSUME NEW o \in Openers, OpenFails(o) PROVE Heard'
  <2>1. /\ UNCHANGED <<cur, loop, crossed, listen>>
        /\ at' = [at EXCEPT ![o] = "idle"] /\ key' = [key EXCEPT ![o] = None]
        /\ conns' = conns \/ (conns[key[o]] = o /\ conns' = [conns EXCEPT ![key[o]] = None])
    <3>1. /\ UNCHANGED <<cur, loop, crossed, listen>>
          /\ at' = [at EXCEPT ![o] = "idle"] /\ key' = [key EXCEPT ![o] = None]
          /\ conns' = [conns EXCEPT ![key[o]] = IF @ = o THEN None ELSE @]
      BY <1>13 DEF OpenFails, Forget
    <3> QED BY <3>1 DEF Types
  <2> QED BY <2>1, HeardForgets
<1>14. ASSUME NEW o \in Openers, OpenCounts(o) PROVE Heard'
  BY <1>14 DEF OpenCounts, Types, SubTypes, Loops, Active, Containers, Heard, Covered, PeerOf
<1>15. ASSUME NEW o \in Openers, OpenReturns(o) PROVE Heard'
  <2>1. at[o] = "check" /\ UNCHANGED <<cur, loop, crossed, listen>>
    BY <1>15 DEF OpenReturns
  <2>2. CASE at' = [at EXCEPT ![o] = "held"] /\ UNCHANGED <<conns, key>>
    BY <2>1, <2>2 DEF Types, Heard, Covered, PeerOf
  <2>3. CASE /\ at' = [at EXCEPT ![o] = "idle"] /\ key' = [key EXCEPT ![o] = None]
             /\ conns' = conns \/ (conns[key[o]] = o /\ conns' = [conns EXCEPT ![key[o]] = None])
    BY <2>1, <2>3, HeardForgets
  <2> QED BY <1>15, <2>2, <2>3 DEF OpenReturns, Forget
<1>16. ASSUME NEW o \in Openers, ConnCloses(o) PROVE Heard'
  <2> DEFINE p == PeerOf(o)
  <2>1. /\ at[o] = "held" /\ UNCHANGED <<running, cur, loop, crossed>>
        /\ at' = [at EXCEPT ![o] = "idle"]
        /\ key' = [key EXCEPT ![o] = None]
        /\ conns' = conns \/ (conns[key[o]] = o /\ conns' = [conns EXCEPT ![key[o]] = None])
        /\ UNCHANGED listen \/ (conns[key[o]] = o /\ listen' = [listen EXCEPT ![cur] = @ \ {p}])
    BY <1>16 DEF ConnCloses, Forget, Unsubscribe
  <2> SUFFICES ASSUME NEW q \in Openers, Covered(q)' PROVE PeerOf(q)' \in listen'[cur]
    BY <2>1 DEF Heard
  <2>2. q # o /\ key'[q] = key[q] /\ key[q] \in Keys /\ Covered(q)
    BY <2>1, CoveredForgets
  <2>3. key[o] \in Keys
    BY <2>1 DEF Containers
  <2>4. conns[key[o]] = o => PeerOf(q) # p
    BY <2>2, <2>3 DEF Covered, PeerOf
  <2>5. cur \in Gens
    BY <2>2 DEF Covered, Containers, Loops
  <2> HIDE DEF p
  <2>6. PeerOf(q) \in listen'[cur]
    <3>1. PeerOf(q) \in listen[cur]
      BY <2>2 DEF Heard
    <3>2. listen'[cur] = listen[cur] \/ (conns[key[o]] = o /\ listen'[cur] = listen[cur] \ {p})
      BY <2>1, <2>5 DEF SubTypes
    <3> QED BY <2>4, <3>1, <3>2
  <2> QED BY <2>2, <2>6 DEF PeerOf
<1> QED BY <1>1, <1>2, <1>3, <1>4, <1>5, <1>6, <1>7, <1>8, <1>9, <1>10, <1>11, <1>12,
           <1>13, <1>14, <1>15, <1>16 DEF Next, LoopStep, OpenStep, QuietStep

-----------------------------------------------------------------------------
\* What is inductive with Inv.
Subscribed == Waiters /\ Owned /\ Heard

\* Who waits, owns and is listened for stays so in every reachable state.
LEMMA SubscriptionInvariant == Spec => []Subscribed
<1>1. Init => Subscribed
  <2> SUFFICES ASSUME Init PROVE Subscribed
    OBVIOUS
  <2>1. /\ running = FALSE /\ cur = None
        /\ \A o \in Openers : at[o] = "idle" /\ wake[o] = "none"
        /\ \A k \in Gens, p \in Peers : waiting[k][p] = None
    BY DEF Init
  <2>2. Waiters
    BY <2>1, RelayClientAssumption DEF Waiters
  <2>3. Owned /\ Heard
    BY <2>1 DEF Owned, Heard, Covered
  <2> QED BY <2>2, <2>3 DEF Subscribed
<1>2. Inv /\ Subscribed /\ [Next]_vars => Subscribed'
  BY WaitersStep, OwnedStep, HeardStep DEF Inv, Subscribed
<1> QED BY <1>1, <1>2, Invariant, PTL DEF Spec

\* The client hears of every single-channel peer's going offline, over any number
\* of reconnects, openings and closings: only a call that subscribes without its
\* container can spoil it.
THEOREM OfflineIsHeard == Spec => []OfflineHeard
<1>1. Heard => OfflineHeard
  BY DEF Heard, Covered, OfflineHeard
<1> QED BY <1>1, SubscriptionInvariant, PTL DEF Subscribed
=============================================================================
