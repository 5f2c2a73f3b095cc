------------------------- MODULE RelayClientProofs -------------------------
(***************************************************************************)
(* Proofs about RelayClient, for any number of connections, keys and       *)
(* callers: what it stores and delivers belongs to the connection it has,   *)
(* it implements the safety part of RelayLink, and with it RelayReports,    *)
(* and a close never waits for a loop that waits for it.  That it listens   *)
(* for the peers it is connected with is proved in                          *)
(* RelayClientSubscriptionProofs.                                           *)
(***************************************************************************)
EXTENDS RelayClient, FiniteSetTheorems, TLAPS

\* The types of what the other proofs are about.
Types ==
  /\ running \in BOOLEAN
  /\ cur \in Gens \cup {None}
  /\ closing \in Gens \cup {"app", None}
  /\ loop \in [Gens -> {"off", "read", "msg", "deliver", "drop", "exit",
                     "done", "closing", "notify", "told"}]
  /\ target \in [Gens -> Openers \cup {None}]
  /\ msgKey \in [Gens -> Keys \cup {None}]
  /\ conns \in [Keys -> Openers \cup {None}]
  /\ refs \in [Peers -> Nat]
  /\ early \in [Keys -> Gens \cup {None}]
  /\ at \in [Openers -> {"idle", "sub", "write", "wait", "failed", "count", "check", "held"}]
  /\ key \in [Openers -> Keys \cup {None}]
  /\ box \in [Openers -> {"open", "closed"}]
  /\ born \in [Openers -> Gens \cup {None}]
  /\ got \in [Openers -> SUBSET Gens]

\* The types of the sockets and the subscriptions.
SubTypes ==
  /\ sock \in [Gens -> {"none", "open", "broken", "closed"}]
  /\ offline \in [Gens -> Peers \cup {None}]
  /\ waiting \in [Gens -> [Peers -> Openers \cup {None}]]
  /\ listen \in [Gens -> SUBSET Peers]
  /\ subOf \in [Openers -> Gens \cup {None}]
  /\ wake \in [Openers -> {"none", "online", "closed"}]
  /\ crossed \subseteq Peers

\* The read loop has not come to wgReadLoop.Done.
Active(k) == loop[k] \in {"read", "msg", "deliver", "drop", "exit"}

\* A running client has the read loop of its connection, which has reported
\* nothing yet; only that connection's loop reads, and one that still reads after
\* the end is waited for with readLoopMutex.
Loops ==
  /\ running => cur \in Gens /\ (Active(cur) \/ loop[cur] = "done")
  /\ \A k \in Gens :
       /\ Active(k) => cur = k /\ (running \/ closing # None)
       /\ loop[k] \in {"msg", "deliver"} => msgKey[k] \in Keys
       /\ loop[k] # "deliver" => target[k] = None

\* An open container is in the table under its key; the table has containers of
\* the present connection only.
Containers ==
  /\ \A o \in Openers : /\ box[o] = "open" => key[o] \in Keys /\ conns[key[o]] = o
                        /\ at[o] # "idle" => key[o] \in Keys
  /\ \A x \in Keys : conns[x] # None =>
       /\ running
       /\ key[conns[x]] = x
       /\ at[conns[x]] # "idle"
       /\ born[conns[x]] = cur

\* Early messages are of the present connection, a message on its way to an open
\* container is of the connection the container was made for, and so is what it
\* has got.
Messages ==
  /\ \A x \in Keys : early[x] # None => running /\ early[x] = cur
  /\ \A k \in Gens, o \in Openers : target[k] = o /\ box[o] = "open" => born[o] = k
  /\ \A o \in Openers : got[o] \subseteq {born[o]}
  /\ ~running => \A p \in Peers : refs[p] = 0

\* A loop that drops a peer has one.
Drops == \A k \in Gens : loop[k] = "drop" => offline[k] \in Peers

\* The steps of the goroutines that touch neither the table of connections, nor
\* the subscriptions, nor the callers.
QuietStep ==
  \/ CloseReturns \/ UNCHANGED vars \/ \E x \in Talking : EarlyExpires(x)
  \/ \E k \in Gens :
       \/ SockBreaks(k) \/ LoopExits(k) \/ LoopLooksUp(k) \/ LoopDelivers(k)
       \/ LoopCloseReturns(k) \/ LoopNotifies(k)
       \/ \E x \in Talking : LoopReceives(k, x)
       \/ \E p \in Peers : PeerOffline(k, p)

\* Every read loop stays, and none that has stopped reading reads again.
LoopsGoOn ==
  \A k \in Gens : /\ loop[k] # "off" => loop'[k] # "off"
                  /\ loop'[k] \in {"read", "msg", "deliver", "drop"} =>
                       loop[k] \in {"read", "msg", "deliver", "drop"}

\* What the quiet steps leave alone.
Quiet ==
  /\ UNCHANGED <<running, cur, conns, refs, waiting, listen, crossed>>
  /\ UNCHANGED <<at, key, subOf, wake, box, born>>
  /\ LoopsGoOn

\* The steps of the callers of OpenConnChannel and Conn.Close.
CallerStep ==
  \E o \in Openers : OpenStep(o) \/ ConnCloses(o) \/ \E x \in Keys : OpenStarts(o, x)

\* The quiet steps are quiet.
LEMMA QuietSteps ==
  ASSUME Types, QuietStep
  PROVE  Quiet
<1> USE DEF conn, loops, table, subs, opens
<1>1. CASE CloseReturns \/ UNCHANGED vars \/ \E x \in Talking : EarlyExpires(x)
  BY <1>1 DEF CloseReturns, EarlyExpires, vars, Quiet, LoopsGoOn
<1>2. ASSUME NEW k \in Gens, SockBreaks(k) \/ LoopExits(k) \/ LoopLooksUp(k)
      PROVE Quiet
  BY <1>2 DEF SockBreaks, LoopExits, LoopLooksUp, Types, Quiet, LoopsGoOn
<1>3. ASSUME NEW k \in Gens, LoopDelivers(k) \/ LoopCloseReturns(k) \/ LoopNotifies(k)
      PROVE Quiet
  BY <1>3 DEF LoopDelivers, LoopCloseReturns, LoopNotifies, Types, Quiet, LoopsGoOn
<1>4. ASSUME NEW k \in Gens, NEW x \in Talking, LoopReceives(k, x) PROVE Quiet
  BY <1>4 DEF LoopReceives, Types, Quiet, LoopsGoOn
<1>5. ASSUME NEW k \in Gens, NEW p \in Peers, PeerOffline(k, p) PROVE Quiet
  BY <1>5 DEF PeerOffline, Types, Quiet, LoopsGoOn
<1> QED BY <1>1, <1>2, <1>3, <1>4, <1>5 DEF QuietStep

\* The callers leave the connection to the server and its read loops alone.
LEMMA CallerSteps ==
  ASSUME CallerStep
  PROVE  UNCHANGED <<running, cur, sock, closing, loop, offline, target, msgKey>>
BY DEF CallerStep, OpenStep, OpenSubscribes, OpenSent, OpenGivesUp, OpenWakes, OpenFails,
       OpenCounts, OpenReturns, ConnCloses, OpenStarts, conn, loops

\* Every step keeps the types.
LEMMA TypesStep ==
  ASSUME Types, Loops, Containers, [Next]_vars
  PROVE  Types'
<1> USE RelayClientAssumption DEF Types, Active, conn, loops, table, opens
<1>1. ASSUME NEW k \in Gens, Connect(k) PROVE Types'
  BY <1>1 DEF Connect
<1>2. CASE Close
  BY <1>2 DEF Close, ShutDown, CloseBoxes, Stored
<1>3. CASE CloseReturns
  BY <1>3 DEF CloseReturns, LoopsDone
<1>4. ASSUME NEW k \in Gens, SockBreaks(k) PROVE Types'
  BY <1>4 DEF SockBreaks
<1>5. ASSUME NEW k \in Gens, LoopExits(k) PROVE Types'
  BY <1>5 DEF LoopExits
<1>6. ASSUME NEW k \in Gens, NEW x \in Talking, LoopReceives(k, x) PROVE Types'
  BY <1>6 DEF LoopReceives
<1>7. ASSUME NEW k \in Gens, LoopLooksUp(k) PROVE Types'
  <2>1. msgKey[k] \in Keys
    BY <1>7 DEF LoopLooksUp, Loops
  <2> QED BY <1>7, <2>1 DEF LoopLooksUp
<1>8. ASSUME NEW k \in Gens, LoopDelivers(k) PROVE Types'
  BY <1>8 DEF LoopDelivers
<1>9. ASSUME NEW x \in Keys, EarlyExpires(x) PROVE Types'
  BY <1>9 DEF EarlyExpires
<1>10. ASSUME NEW k \in Gens, NEW p \in Peers, PeerOnline(k, p) PROVE Types'
  BY <1>10 DEF PeerOnline
<1>11. ASSUME NEW k \in Gens, NEW p \in Peers, PeerOffline(k, p) PROVE Types'
  BY <1>11 DEF PeerOffline
<1>12. ASSUME NEW k \in Gens, LoopDropsPeer(k) PROVE Types'
  BY <1>12 DEF LoopDropsPeer, CloseBoxes
<1>13. ASSUME NEW k \in Gens, LoopCleansUp(k) PROVE Types'
  BY <1>13 DEF LoopCleansUp
<1>14. ASSUME NEW k \in Gens, LoopCloses(k) PROVE Types'
  <2>1. UNCHANGED <<target, msgKey, at, key, born, got>>
    BY <1>14 DEF LoopCloses
  <2>2. CASE ShutDown /\ closing' = k /\ loop' = [loop EXCEPT ![k] = "closing"]
    BY <2>1, <2>2 DEF ShutDown, CloseBoxes
  <2>3. CASE /\ loop' = [loop EXCEPT ![k] = "notify"]
             /\ UNCHANGED <<running, cur, sock, closing, conns, refs, early, box>>
    BY <2>1, <2>3
  <2> QED BY <1>14, <2>2, <2>3 DEF LoopCloses
<1>15. ASSUME NEW k \in Gens, LoopCloseReturns(k) PROVE Types'
  BY <1>15 DEF LoopCloseReturns, LoopsDone
<1>16. ASSUME NEW k \in Gens, LoopNotifies(k) PROVE Types'
  BY <1>16 DEF LoopNotifies
<1>17. ASSUME NEW o \in Openers, NEW x \in Keys, OpenStarts(o, x) PROVE Types'
  BY <1>17 DEF OpenStarts, Free
<1>18. ASSUME NEW o \in Openers, OpenSubscribes(o) PROVE Types'
  BY <1>18 DEF OpenSubscribes
<1>19. ASSUME NEW o \in Openers, OpenSent(o) PROVE Types'
  BY <1>19 DEF OpenSent
<1>20. ASSUME NEW o \in Openers, OpenGivesUp(o) PROVE Types'
  BY <1>20 DEF OpenGivesUp
<1>21. ASSUME NEW o \in Openers, OpenWakes(o) PROVE Types'
  BY <1>21 DEF OpenWakes
<1>22. ASSUME NEW o \in Openers, OpenFails(o) PROVE Types'
  BY <1>22 DEF OpenFails, Forget
<1>23. ASSUME NEW o \in Openers, OpenCounts(o) PROVE Types'
  <2>1. refs' = refs \/ refs' = [refs EXCEPT ![PeerOf(o)] = @ + 1]
    BY <1>23 DEF OpenCounts
  <2>2. refs' \in [Peers -> Nat]
    BY <2>1
  <2> QED BY <1>23, <2>2 DEF OpenCounts
<1>24. ASSUME NEW o \in Openers, OpenReturns(o) PROVE Types'
  BY <1>24 DEF OpenReturns, Forget
<1>25. ASSUME NEW o \in Openers, ConnCloses(o) PROVE Types'
  BY <1>25 DEF ConnCloses, Forget
<1>26. CASE UNCHANGED vars
  BY <1>26 DEF vars
<1> QED BY <1>1, <1>2, <1>3, <1>4, <1>5, <1>6, <1>7, <1>8, <1>9, <1>10, <1>11, <1>12,
           <1>13, <1>14, <1>15, <1>16, <1>17, <1>18, <1>19, <1>20, <1>21, <1>22,
           <1>23, <1>24, <1>25, <1>26 DEF Next, LoopStep, OpenStep

\* Every step keeps Loops: close() waits for the loop, and the loop reports only
\* when the client does not run on its connection any more.
LEMMA LoopsStep ==
  ASSUME Types, Loops, [Next]_vars
  PROVE  Loops'
<1> USE RelayClientAssumption DEF Types, Active, Loops, conn, loops, table, opens
<1>1. CASE UNCHANGED <<running, cur, closing, loop, target, msgKey>>
  BY <1>1
<1>2. CASE CallerStep
  BY <1>2, <1>1, CallerSteps
<1>3. ASSUME NEW k \in Gens, SockBreaks(k) \/ \E p \in Peers : PeerOnline(k, p) PROVE Loops'
  BY <1>3, <1>1 DEF SockBreaks, PeerOnline
<1>4. CASE UNCHANGED vars \/ \E x \in Talking : EarlyExpires(x)
  BY <1>4, <1>1 DEF EarlyExpires, vars
<1>5. ASSUME NEW k \in Gens, Connect(k) PROVE Loops'
  BY <1>5 DEF Connect
<1>6. CASE Close
  BY <1>6 DEF Close, ShutDown, CloseBoxes, Stored
<1>7. CASE CloseReturns
  BY <1>7 DEF CloseReturns, LoopsDone
<1>8. ASSUME NEW k \in Gens, LoopExits(k) PROVE Loops'
  BY <1>8 DEF LoopExits
<1>9. ASSUME NEW k \in Gens, NEW x \in Talking, LoopReceives(k, x) PROVE Loops'
  BY <1>9 DEF LoopReceives
<1>10. ASSUME NEW k \in Gens, LoopLooksUp(k) PROVE Loops'
  BY <1>10 DEF LoopLooksUp
<1>11. ASSUME NEW k \in Gens, LoopDelivers(k) PROVE Loops'
  BY <1>11 DEF LoopDelivers
<1>12. ASSUME NEW k \in Gens, NEW p \in Peers, PeerOffline(k, p) PROVE Loops'
  BY <1>12 DEF PeerOffline
<1>13. ASSUME NEW k \in Gens, LoopDropsPeer(k) PROVE Loops'
  BY <1>13 DEF LoopDropsPeer, CloseBoxes
<1>14. ASSUME NEW k \in Gens, LoopCleansUp(k) PROVE Loops'
  BY <1>14 DEF LoopCleansUp
<1>15. ASSUME NEW k \in Gens, LoopCloses(k) PROVE Loops'
  BY <1>15 DEF LoopCloses, ShutDown, CloseBoxes, Stored
<1>16. ASSUME NEW k \in Gens, LoopCloseReturns(k) PROVE Loops'
  BY <1>16 DEF LoopCloseReturns, LoopsDone
<1>17. ASSUME NEW k \in Gens, LoopNotifies(k) PROVE Loops'
  BY <1>17 DEF LoopNotifies
<1> QED BY <1>1, <1>2, <1>3, <1>4, <1>5, <1>6, <1>7, <1>8, <1>9, <1>10, <1>11, <1>12,
           <1>13, <1>14, <1>15, <1>16, <1>17 DEF Next, LoopStep, OpenStep, CallerStep

\* Every step keeps Containers: whoever takes a container out of the table
\* closes it.
LEMMA ContainersStep ==
  ASSUME Types, Loops, Containers, [Next]_vars
  PROVE  Containers'
<1> USE RelayClientAssumption DEF Types, Active, Containers, conn, loops, table, opens
<1>1. CASE QuietStep
  <2>1. Quiet
    BY <1>1, QuietSteps
  <2> QED BY <2>1 DEF Quiet
<1>2. ASSUME NEW k \in Gens, Connect(k) PROVE Containers'
  BY <1>2 DEF Connect
<1>3. CASE Close
  BY <1>3 DEF Close, ShutDown, CloseBoxes, Stored
<1>4. ASSUME NEW k \in Gens, NEW p \in Peers, PeerOnline(k, p) PROVE Containers'
  BY <1>4 DEF PeerOnline
<1>5. ASSUME NEW k \in Gens, LoopDropsPeer(k) PROVE Containers'
  BY <1>5 DEF LoopDropsPeer, CloseBoxes
<1>6. ASSUME NEW k \in Gens, LoopCleansUp(k) PROVE Containers'
  BY <1>6 DEF LoopCleansUp
<1>7. ASSUME NEW k \in Gens, LoopCloses(k) PROVE Containers'
  BY <1>7 DEF LoopCloses, ShutDown, CloseBoxes, Stored
<1>8. ASSUME NEW o \in Openers, NEW x \in Keys, OpenStarts(o, x) PROVE Containers'
  BY <1>8 DEF OpenStarts, Free
<1>9. ASSUME NEW o \in Openers, OpenSubscribes(o) PROVE Containers'
  BY <1>9 DEF OpenSubscribes
<1>10. ASSUME NEW o \in Openers, OpenSent(o) PROVE Containers'
  BY <1>10 DEF OpenSent
<1>11. ASSUME NEW o \in Openers, OpenGivesUp(o) PROVE Containers'
  BY <1>11 DEF OpenGivesUp
<1>12. ASSUME NEW o \in Openers, OpenWakes(o) PROVE Containers'
  BY <1>12 DEF OpenWakes
<1>13. ASSUME NEW o \in Openers, OpenFails(o) PROVE Containers'
  BY <1>13 DEF OpenFails, Forget
<1>14. ASSUME NEW o \in Openers, OpenCounts(o) PROVE Containers'
  BY <1>14 DEF OpenCounts
<1>15. ASSUME NEW o \in Openers, OpenReturns(o) PROVE Containers'
  BY <1>15 DEF OpenReturns, Forget
<1>16. ASSUME NEW o \in Openers, ConnCloses(o) PROVE Containers'
  BY <1>16 DEF ConnCloses, Forget
<1> QED BY <1>1, <1>2, <1>3, <1>4, <1>5, <1>6, <1>7, <1>8, <1>9, <1>10, <1>11, <1>12,
           <1>13, <1>14, <1>15, <1>16 DEF Next, LoopStep, OpenStep, QuietStep

\* Every step keeps Messages.
LEMMA MessagesStep ==
  ASSUME Types, Loops, Containers, Messages, [Next]_vars
  PROVE  Messages'
<1> USE RelayClientAssumption DEF Types, Active, Loops, Containers, Messages, conn, loops,
                                  table, opens
<1>1. CASE UNCHANGED <<running, cur, refs, early, target, box, born, got>>
  BY <1>1
<1>2. CASE CloseReturns \/ UNCHANGED vars
  BY <1>2, <1>1 DEF CloseReturns, vars
<1>3. ASSUME NEW k \in Gens, SockBreaks(k) \/ LoopExits(k) \/ LoopCleansUp(k)
                            \/ LoopCloseReturns(k) \/ LoopNotifies(k)
                            \/ (\E x \in Talking : LoopReceives(k, x))
                            \/ (\E p \in Peers : PeerOnline(k, p) \/ PeerOffline(k, p))
      PROVE  Messages'
  <2>1. UNCHANGED <<running, cur, refs, early, target, box, born, got>>
    BY <1>3 DEF SockBreaks, LoopExits, LoopCleansUp, LoopCloseReturns, LoopNotifies,
                LoopReceives, PeerOnline, PeerOffline
  <2> QED BY <1>1, <2>1
<1>4. ASSUME NEW o \in Openers, OpenSubscribes(o) \/ OpenSent(o) \/ OpenGivesUp(o) \/ OpenWakes(o)
      PROVE  Messages'
  <2>1. UNCHANGED <<running, cur, refs, early, target, box, born, got>>
    BY <1>4 DEF OpenSubscribes, OpenSent, OpenGivesUp, OpenWakes
  <2> QED BY <1>1, <2>1
<1>5. ASSUME NEW k \in Gens, Connect(k) PROVE Messages'
  BY <1>5 DEF Connect
<1>6. CASE Close
  BY <1>6 DEF Close, ShutDown, CloseBoxes, Stored
<1>7. ASSUME NEW k \in Gens, LoopLooksUp(k) PROVE Messages'
  BY <1>7 DEF LoopLooksUp
<1>8. ASSUME NEW k \in Gens, LoopDelivers(k) PROVE Messages'
  BY <1>8 DEF LoopDelivers
<1>9. ASSUME NEW x \in Keys, EarlyExpires(x) PROVE Messages'
  BY <1>9 DEF EarlyExpires
<1>10. ASSUME NEW k \in Gens, LoopDropsPeer(k) PROVE Messages'
  BY <1>10 DEF LoopDropsPeer, CloseBoxes
<1>11. ASSUME NEW k \in Gens, LoopCloses(k) PROVE Messages'
  BY <1>11 DEF LoopCloses, ShutDown, CloseBoxes, Stored
<1>12. ASSUME NEW o \in Openers, NEW x \in Keys, OpenStarts(o, x) PROVE Messages'
  BY <1>12 DEF OpenStarts, Free
<1>13. ASSUME NEW o \in Openers, OpenFails(o) PROVE Messages'
  BY <1>13 DEF OpenFails, Forget
<1>14. ASSUME NEW o \in Openers, OpenCounts(o) PROVE Messages'
  BY <1>14 DEF OpenCounts
<1>15. ASSUME NEW o \in Openers, OpenReturns(o) PROVE Messages'
  BY <1>15 DEF OpenReturns, Forget
<1>16. ASSUME NEW o \in Openers, ConnCloses(o) PROVE Messages'
  BY <1>16 DEF ConnCloses, Forget
<1> QED BY <1>1, <1>2, <1>3, <1>4, <1>5, <1>6, <1>7, <1>8, <1>9, <1>10, <1>11, <1>12,
           <1>13, <1>14, <1>15, <1>16 DEF Next, LoopStep, OpenStep

-----------------------------------------------------------------------------
\* A step that changes neither the count nor what is counted.
SameCount == refs' = refs /\ \A p \in Peers : Counted(p)' = Counted(p)

\* Every step keeps peerConnRefs and the table in step with each other.
LEMMA RefsStep ==
  ASSUME Types, Loops, Containers, RefsCountConns, [Next]_vars
  PROVE  RefsCountConns'
<1> USE RelayClientAssumption DEF Types, Containers, conn, loops, table, opens
<1>0. ASSUME SameCount PROVE RefsCountConns'
  BY <1>0 DEF SameCount, RefsCountConns
<1>1. CASE QuietStep
  <2>1. SameCount
    <3>1. Quiet
      BY <1>1, QuietSteps
    <3> QED BY <3>1 DEF Quiet, SameCount, Counted
  <2> QED BY <1>0, <2>1
<1>2. ASSUME NEW k \in Gens, Connect(k) \/ LoopCleansUp(k) \/ \E p \in Peers : PeerOnline(k, p)
      PROVE RefsCountConns'
  <2>1. SameCount
    BY <1>2 DEF SameCount, Counted, Connect, LoopCleansUp, PeerOnline
  <2> QED BY <1>0, <2>1
<1>3. ASSUME NEW o \in Openers, NEW x \in Keys, OpenStarts(o, x) PROVE RefsCountConns'
  <2>1. SameCount
    BY <1>3 DEF SameCount, Counted, OpenStarts, Free
  <2> QED BY <1>0, <2>1
<1>4. ASSUME NEW o \in Openers, OpenSubscribes(o) PROVE RefsCountConns'
  <2>1. SameCount
    BY <1>4 DEF SameCount, Counted, OpenSubscribes
  <2> QED BY <1>0, <2>1
<1>5. ASSUME NEW o \in Openers, OpenSent(o) PROVE RefsCountConns'
  <2>1. SameCount
    BY <1>5 DEF SameCount, Counted, OpenSent
  <2> QED BY <1>0, <2>1
<1>6. ASSUME NEW o \in Openers, OpenGivesUp(o) PROVE RefsCountConns'
  <2>1. SameCount
    BY <1>6 DEF SameCount, Counted, OpenGivesUp
  <2> QED BY <1>0, <2>1
<1>7. ASSUME NEW o \in Openers, OpenWakes(o) PROVE RefsCountConns'
  <2>1. SameCount
    BY <1>7 DEF SameCount, Counted, OpenWakes
  <2> QED BY <1>0, <2>1
<1>8. ASSUME NEW o \in Openers, OpenFails(o) PROVE RefsCountConns'
  <2>1. SameCount
    BY <1>8 DEF SameCount, Counted, OpenFails, Forget
  <2> QED BY <1>0, <2>1
<1>9. ASSUME NEW o \in Openers, OpenReturns(o) PROVE RefsCountConns'
  <2>1. SameCount
    BY <1>9 DEF SameCount, Counted, OpenReturns, Forget
  <2> QED BY <1>0, <2>1
<1>10. ASSUME ShutDown, UNCHANGED at PROVE RefsCountConns'
  <2>1. \A p \in Peers : Counted(p)' = {} /\ refs'[p] = 0
    BY <1>10 DEF ShutDown, Counted
  <2> QED BY <2>1, FS_EmptySet DEF RefsCountConns
<1>11. CASE Close
  BY <1>10, <1>11 DEF Close
<1>12. ASSUME NEW k \in Gens, LoopCloses(k) PROVE RefsCountConns'
  <2>1. CASE running
    BY <1>10, <1>12, <2>1 DEF LoopCloses
  <2>2. CASE ~running
    <3>1. SameCount
      BY <1>12, <2>2 DEF SameCount, Counted, LoopCloses
    <3> QED BY <1>0, <3>1
  <2> QED BY <2>1, <2>2
<1>13. ASSUME NEW k \in Gens, LoopDropsPeer(k) PROVE RefsCountConns'
  <2> SUFFICES ASSUME NEW p \in Peers PROVE refs'[p] = Cardinality(Counted(p)')
    BY DEF RefsCountConns
  <2>1. CASE p = offline[k]
    <3>1. Counted(p)' = {} /\ refs'[p] = 0
      BY <1>13, <2>1 DEF LoopDropsPeer, Counted
    <3> QED BY <3>1, FS_EmptySet
  <2>2. CASE p # offline[k]
    <3>1. Counted(p)' = Counted(p) /\ refs'[p] = refs[p]
      BY <1>13, <2>2 DEF LoopDropsPeer, Counted
    <3> QED BY <3>1 DEF RefsCountConns
  <2> QED BY <2>1, <2>2
<1>14. \A p \in Peers : IsFiniteSet(Counted(p))
  <2>1. \A p \in Peers : Counted(p) \subseteq Keys
    BY DEF Counted
  <2> QED BY <2>1, FS_Subset
<1>15. ASSUME NEW o \in Openers, OpenCounts(o) PROVE RefsCountConns'
  <2>1. CASE conns[key[o]] # o
    <3>1. SameCount
      BY <1>15, <2>1 DEF SameCount, Counted, OpenCounts
    <3> QED BY <1>0, <3>1
  <2>2. CASE conns[key[o]] = o
    <3> SUFFICES ASSUME NEW p \in Peers PROVE refs'[p] = Cardinality(Counted(p)')
      BY DEF RefsCountConns
    <3>1. CASE p # PeerOf(o)
      <4>1. Counted(p)' = Counted(p) /\ refs'[p] = refs[p]
        BY <1>15, <2>2, <3>1 DEF OpenCounts, Counted, PeerOf
      <4> QED BY <4>1 DEF RefsCountConns
    <3>2. CASE p = PeerOf(o)
      <4>1. /\ Counted(p)' = Counted(p) \cup {key[o]}
            /\ key[o] \notin Counted(p)
            /\ refs'[p] = refs[p] + 1
        BY <1>15, <2>2, <3>2 DEF OpenCounts, Counted, PeerOf
      <4>2. Cardinality(Counted(p)') = Cardinality(Counted(p)) + 1
        <5>1. IsFiniteSet(Counted(p))
          BY <1>14
        <5>2. Cardinality(Counted(p) \cup {key[o]}) = Cardinality(Counted(p)) + 1
          BY <4>1, <5>1, FS_AddElement, Zenon
        <5> QED BY <4>1, <5>2
      <4> QED BY <4>1, <4>2 DEF RefsCountConns
    <3> QED BY <3>1, <3>2
  <2> QED BY <2>1, <2>2
<1>16. ASSUME NEW o \in Openers, ConnCloses(o) PROVE RefsCountConns'
  <2>1. CASE conns[key[o]] # o
    <3>1. SameCount
      BY <1>16, <2>1 DEF SameCount, Counted, ConnCloses, Forget
    <3> QED BY <1>0, <3>1
  <2>2. CASE conns[key[o]] = o
    <3> SUFFICES ASSUME NEW p \in Peers PROVE refs'[p] = Cardinality(Counted(p)')
      BY DEF RefsCountConns
    <3>1. CASE p # PeerOf(o)
      <4>1. Counted(p)' = Counted(p) /\ refs'[p] = refs[p]
        BY <1>16, <2>2, <3>1 DEF ConnCloses, Forget, Counted, PeerOf
      <4> QED BY <4>1 DEF RefsCountConns
    <3>2. CASE p = PeerOf(o)
      <4>1. /\ Counted(p)' = Counted(p) \ {key[o]}
            /\ key[o] \in Counted(p)
            /\ refs'[p] = IF refs[p] <= 1 THEN 0 ELSE refs[p] - 1
        BY <1>16, <2>2, <3>2 DEF ConnCloses, Forget, Counted, PeerOf
      <4>2. /\ Cardinality(Counted(p)') = Cardinality(Counted(p)) - 1
            /\ Cardinality(Counted(p)') \in Nat
        BY <1>14, <4>1, FS_RemoveElement, FS_CardinalityType
      <4> QED BY <4>1, <4>2 DEF RefsCountConns
    <3> QED BY <3>1, <3>2
  <2> QED BY <2>1, <2>2
<1> QED
  BY <1>1, <1>2, <1>3, <1>4, <1>5, <1>6, <1>7, <1>8, <1>9, <1>11, <1>12, <1>13,
     <1>15, <1>16 DEF Next, LoopStep, OpenStep, QuietStep

-----------------------------------------------------------------------------
\* Every step keeps the types of the sockets and the subscriptions: an opener
\* that subscribes has a key, and a client that runs a generation.
LEMMA SubTypesStep ==
  ASSUME Types, Loops, Containers, SubTypes, [Next]_vars
  PROVE  SubTypes'
<1> USE RelayClientAssumption DEF Types, SubTypes, conn, loops, table, subs, opens
<1>1. CASE UNCHANGED <<sock, offline, waiting, listen, subOf, wake, crossed>>
  BY <1>1
<1>2. CASE CloseReturns \/ UNCHANGED vars \/ \E x \in Talking : EarlyExpires(x)
  BY <1>2, <1>1 DEF CloseReturns, EarlyExpires, vars
<1>3. ASSUME NEW k \in Gens, LoopExits(k) \/ LoopLooksUp(k) \/ LoopDelivers(k)
                            \/ LoopCloseReturns(k) \/ LoopNotifies(k)
                            \/ \E x \in Talking : LoopReceives(k, x)
      PROVE  SubTypes'
  <2>1. UNCHANGED <<sock, offline, waiting, listen, subOf, wake, crossed>>
    BY <1>3 DEF LoopExits, LoopLooksUp, LoopDelivers, LoopCloseReturns, LoopNotifies, LoopReceives
  <2> QED BY <1>1, <2>1
<1>4. ASSUME NEW o \in Openers, OpenSent(o) \/ OpenFails(o) \/ OpenCounts(o) \/ OpenReturns(o)
                               \/ \E x \in Keys : OpenStarts(o, x)
      PROVE  SubTypes'
  <2>1. UNCHANGED <<sock, offline, waiting, listen, subOf, wake, crossed>>
    BY <1>4 DEF OpenSent, OpenFails, OpenCounts, OpenReturns, OpenStarts
  <2> QED BY <1>1, <2>1
<1>5. ASSUME NEW k \in Gens, Connect(k) PROVE SubTypes'
  BY <1>5 DEF Connect
<1>6. CASE Close
  BY <1>6 DEF Close, ShutDown
<1>7. ASSUME NEW k \in Gens, SockBreaks(k) PROVE SubTypes'
  BY <1>7 DEF SockBreaks
<1>8. ASSUME NEW k \in Gens, NEW p \in Peers, PeerOnline(k, p) PROVE SubTypes'
  BY <1>8 DEF PeerOnline
<1>9. ASSUME NEW k \in Gens, NEW p \in Peers, PeerOffline(k, p) PROVE SubTypes'
  BY <1>9 DEF PeerOffline
<1>10. ASSUME NEW k \in Gens, LoopDropsPeer(k) PROVE SubTypes'
  BY <1>10 DEF LoopDropsPeer, Unsubscribe, CloseWaits
<1>11. ASSUME NEW k \in Gens, LoopCleansUp(k) PROVE SubTypes'
  BY <1>11 DEF LoopCleansUp, CloseWaits
<1>12. ASSUME NEW k \in Gens, LoopCloses(k) PROVE SubTypes'
  <2>1. /\ UNCHANGED <<offline, waiting, listen, subOf, wake, crossed>>
        /\ sock' = sock \/ sock' = [sock EXCEPT ![cur] = "closed"]
    BY <1>12 DEF LoopCloses, ShutDown
  <2> QED BY <2>1
<1>13. ASSUME NEW o \in Openers, OpenSubscribes(o) PROVE SubTypes'
  <2>1. PeerOf(o) \in Peers
    BY <1>13 DEF OpenSubscribes, Containers, PeerOf, Peers
  <2>2. CASE waiting[cur][PeerOf(o)] # None
    BY <1>13, <2>2 DEF OpenSubscribes
  <2>3. CASE waiting[cur][PeerOf(o)] = None
    <3>1. /\ subOf' = [subOf EXCEPT ![o] = cur]
          /\ waiting' = [waiting EXCEPT ![cur][PeerOf(o)] = o]
          /\ listen' = [listen EXCEPT ![cur] = @ \cup {PeerOf(o)}]
          /\ crossed' \subseteq crossed \cup {PeerOf(o)}
          /\ UNCHANGED <<sock, offline, wake>>
      BY <1>13, <2>3 DEF OpenSubscribes
    <3>2. waiting' \in [Gens -> [Peers -> Openers \cup {None}]]
      BY <3>1
    <3>3. listen' \in [Gens -> SUBSET Peers]
      BY <2>1, <3>1
    <3> QED BY <2>1, <3>1, <3>2, <3>3
  <2> QED BY <2>2, <2>3
<1>14. ASSUME NEW o \in Openers, OpenGivesUp(o) PROVE SubTypes'
  <2>1. /\ subOf' = [subOf EXCEPT ![o] = None]
        /\ wake' = [wake EXCEPT ![o] = "none"]
        /\ UNCHANGED <<sock, offline, crossed>>
    BY <1>14 DEF OpenGivesUp, LeaveSubscription
  <2> DEFINE k == subOf[o]
             p == PeerOf(o)
  <2>2. CASE waiting[k][p] = o
    <3>1. /\ waiting' = [waiting EXCEPT ![k][p] = None]
          /\ listen' = [listen EXCEPT ![k] = @ \ {p}]
      BY <1>14, <2>2 DEF OpenGivesUp, LeaveSubscription
    <3> HIDE DEF k, p
    <3>2. waiting' \in [Gens -> [Peers -> Openers \cup {None}]]
      BY <3>1
    <3>3. listen' \in [Gens -> SUBSET Peers]
      BY <3>1
    <3> QED BY <2>1, <3>2, <3>3
  <2>3. CASE waiting[k][p] # o
    BY <1>14, <2>1, <2>3 DEF OpenGivesUp, LeaveSubscription
  <2> QED BY <2>2, <2>3
<1>15. ASSUME NEW o \in Openers, OpenWakes(o) PROVE SubTypes'
  BY <1>15 DEF OpenWakes
<1>16. ASSUME NEW o \in Openers, ConnCloses(o) PROVE SubTypes'
  <2>1. UNCHANGED <<sock, offline, subOf, crossed>>
    BY <1>16 DEF ConnCloses, Unsubscribe
  <2>2. Unsubscribe(PeerOf(o)) \/ UNCHANGED <<waiting, listen, wake>>
    BY <1>16 DEF ConnCloses
  <2>3. CASE Unsubscribe(PeerOf(o))
    BY <2>1, <2>3 DEF Unsubscribe, CloseWaits
  <2>4. CASE UNCHANGED <<waiting, listen, wake>>
    BY <2>1, <2>4
  <2> QED BY <2>2, <2>3, <2>4
<1> QED BY <1>1, <1>2, <1>3, <1>4, <1>5, <1>6, <1>7, <1>8, <1>9, <1>10, <1>11, <1>12,
           <1>13, <1>14, <1>15, <1>16 DEF Next, LoopStep, OpenStep

-----------------------------------------------------------------------------
\* Every step keeps Drops.
LEMMA DropsStep ==
  ASSUME Types, SubTypes, Drops, [Next]_vars
  PROVE  Drops'
<1> USE RelayClientAssumption DEF Types, SubTypes, Drops, conn, loops
<1>1. CASE UNCHANGED <<loop, offline>>
  BY <1>1
<1>2. CASE CallerStep
  BY <1>2, <1>1, CallerSteps
<1>3. ASSUME NEW k \in Gens, SockBreaks(k) \/ \E p \in Peers : PeerOnline(k, p) PROVE Drops'
  BY <1>3, <1>1 DEF SockBreaks, PeerOnline
<1>4. CASE Close \/ CloseReturns \/ UNCHANGED vars \/ \E x \in Talking : EarlyExpires(x)
  BY <1>4, <1>1 DEF Close, CloseReturns, EarlyExpires, vars
<1>5. ASSUME NEW k \in Gens, Connect(k) PROVE Drops'
  BY <1>5 DEF Connect
<1>6. ASSUME NEW k \in Gens, LoopExits(k) PROVE Drops'
  BY <1>6 DEF LoopExits
<1>7. ASSUME NEW k \in Gens, NEW x \in Talking, LoopReceives(k, x) PROVE Drops'
  BY <1>7 DEF LoopReceives
<1>8. ASSUME NEW k \in Gens, LoopLooksUp(k) PROVE Drops'
  BY <1>8 DEF LoopLooksUp
<1>9. ASSUME NEW k \in Gens, LoopDelivers(k) PROVE Drops'
  BY <1>9 DEF LoopDelivers
<1>10. ASSUME NEW k \in Gens, NEW p \in Peers, PeerOffline(k, p) PROVE Drops'
  BY <1>10 DEF PeerOffline
<1>11. ASSUME NEW k \in Gens, LoopDropsPeer(k) PROVE Drops'
  BY <1>11 DEF LoopDropsPeer
<1>12. ASSUME NEW k \in Gens, LoopCleansUp(k) PROVE Drops'
  BY <1>12 DEF LoopCleansUp
<1>13. ASSUME NEW k \in Gens, LoopCloses(k) PROVE Drops'
  BY <1>13 DEF LoopCloses, ShutDown
<1>14. ASSUME NEW k \in Gens, LoopCloseReturns(k) PROVE Drops'
  BY <1>14 DEF LoopCloseReturns
<1>15. ASSUME NEW k \in Gens, LoopNotifies(k) PROVE Drops'
  BY <1>15 DEF LoopNotifies
<1> QED BY <1>1, <1>2, <1>3, <1>4, <1>5, <1>6, <1>7, <1>8, <1>9, <1>10, <1>11, <1>12,
           <1>13, <1>14, <1>15 DEF Next, LoopStep, OpenStep, CallerStep

-----------------------------------------------------------------------------
\* The inductive invariant.
Inv == Types /\ SubTypes /\ Loops /\ Containers /\ Messages /\ RefsCountConns
       /\ Drops

\* Every step keeps the inductive invariant.
LEMMA InvStep == Inv /\ [Next]_vars => Inv'
BY TypesStep, SubTypesStep, LoopsStep, ContainersStep, MessagesStep, RefsStep,
   DropsStep DEF Inv

\* The inductive invariant holds in every reachable state.
LEMMA Invariant == Spec => []Inv
<1>1. Init => Inv
  <2> SUFFICES ASSUME Init PROVE Inv
    OBVIOUS
  <2>1. Types /\ SubTypes
    BY DEF Init, Types, SubTypes
  <2>2. Loops /\ Containers /\ Messages
    BY RelayClientAssumption DEF Init, Types, Loops, Active, Containers, Messages
  <2>3. RefsCountConns
    <3>1. \A p \in Peers : Counted(p) = {} /\ refs[p] = 0
      BY DEF Init, Counted
    <3> QED BY <3>1, FS_EmptySet DEF RefsCountConns
  <2>4. Drops
    BY DEF Init, Drops
  <2> QED BY <2>1, <2>2, <2>3, <2>4 DEF Inv
<1> QED BY <1>1, InvStep, PTL DEF Spec

\* Type correctness for any generations, keys and callers: no reference count
\* goes below zero, and nobody subscribes without a connection or a key.
THEOREM TypeCorrect == Spec => []TypeOK
<1>1. Inv => TypeOK
  BY DEF Inv, Types, SubTypes, TypeOK
<1> QED BY <1>1, Invariant, PTL

\* peerConnRefs is right for any number of peers, channels and callers.
THEOREM RefsCorrect == Spec => []RefsCountConns
<1>1. Inv => RefsCountConns
  BY DEF Inv
<1> QED BY <1>1, Invariant, PTL

\* OpenConnChannel returns no open connection that the table does not have.
THEOREM NoOrphans == Spec => []NoOrphanConn
<1>1. Inv => NoOrphanConn
  BY DEF Inv, Containers, NoOrphanConn
<1> QED BY <1>1, Invariant, PTL

\* A client that does not run keeps nothing for the next Connect.
THEOREM StoppedEmpty == Spec => []StoppedIsEmpty
<1>1. Inv => StoppedIsEmpty
  BY DEF Inv, Containers, Messages, StoppedIsEmpty
<1> QED BY <1>1, Invariant, PTL

\* No message of one connection to the server reaches a peer connection of
\* another, over any number of reconnects.
THEOREM DeliveriesFresh == Spec => []NoStaleDelivery
<1>1. Inv => NoStaleDelivery
  BY DEF Inv, Messages, NoStaleDelivery
<1> QED BY <1>1, Invariant, PTL

-----------------------------------------------------------------------------
\* A step that neither connects, nor shuts down, nor reports changes no link.
LEMMA LinksUnchanged ==
  ASSUME Types, UNCHANGED <<running, cur>>,
         \A k \in Gens : loop'[k] = loop[k] \/ {loop[k], loop'[k]} \cap {"off", "told"} = {}
  PROVE  Links' = Links
BY DEF Types, Links, LinkState

\* The end of the client's connection, whoever calls close, is a step of RelayLink.
LEMMA ShutDownEnds ==
  ASSUME Types, Loops, running, ShutDown,
         \A k \in Gens : loop'[k] = loop[k] \/ {loop[k], loop'[k]} \cap {"off", "told"} = {}
  PROVE  Link!Next
<1>1. cur \in Gens /\ running' = FALSE /\ cur' = cur /\ loop[cur] \notin {"off", "told"}
  BY DEF Loops, Active, ShutDown
<1>2. \A k \in Gens : (loop'[k] = "off" <=> loop[k] = "off") /\ (loop'[k] = "told" <=> loop[k] = "told")
  OBVIOUS
<1>3. \A k \in Gens : LinkState(k)' = IF k = cur THEN "ended" ELSE LinkState(k)
  BY <1>1, <1>2 DEF LinkState
<1>4. Links[cur] = "up" /\ Links' = [Links EXCEPT ![cur] = "ended"]
  BY <1>1, <1>3 DEF Links, LinkState
<1> QED BY <1>1, <1>4 DEF Link!Next, Link!End

\* Every step of the client is a step of RelayLink, or changes no link.
LEMMA LinkStep ==
  ASSUME Types, Loops, [Next]_vars
  PROVE  [Link!Next]_Links
<1> USE DEF conn, loops
<1>1. ASSUME NEW k \in Gens, Connect(k) PROVE [Link!Next]_Links
  <2>1. Links[k] = "new" /\ \A j \in Gens : Links[j] # "up"
    BY <1>1 DEF Connect, Links, LinkState
  <2>2. Links' = [Links EXCEPT ![k] = "up"]
    BY <1>1 DEF Types, Connect, Links, LinkState
  <2> QED BY <2>1, <2>2 DEF Link!Next, Link!Connect
<1>2. ASSUME NEW k \in Gens, LoopNotifies(k) PROVE [Link!Next]_Links
  <2>1. Links[k] = "ended"
    BY <1>2 DEF Loops, Active, LoopNotifies, Links, LinkState
  <2>2. Links' = [Links EXCEPT ![k] = "told"]
    BY <1>2 DEF Types, LoopNotifies, Links, LinkState
  <2> QED BY <2>1, <2>2 DEF Link!Next, Link!Tell
<1>3. CASE Close
  BY <1>3, ShutDownEnds DEF Close
<1>4. ASSUME NEW k \in Gens, LoopCloses(k) PROVE [Link!Next]_Links
  <2>1. \A j \in Gens : loop'[j] = loop[j] \/ {loop[j], loop'[j]} \cap {"off", "told"} = {}
    BY <1>4 DEF Types, LoopCloses
  <2>2. CASE running
    BY <1>4, <2>1, <2>2, ShutDownEnds DEF LoopCloses
  <2>3. CASE ~running
    BY <1>4, <2>1, <2>3, LinksUnchanged DEF LoopCloses
  <2> QED BY <2>2, <2>3
<1>5. ASSUME NEW k \in Gens,
             LoopExits(k) \/ LoopLooksUp(k) \/ LoopDelivers(k) \/ LoopDropsPeer(k)
             \/ LoopCleansUp(k) \/ LoopCloseReturns(k) \/ (\E x \in Talking : LoopReceives(k, x))
             \/ (\E p \in Peers : PeerOffline(k, p))
      PROVE  [Link!Next]_Links
  <2>1. UNCHANGED <<running, cur>>
    BY <1>5 DEF LoopExits, LoopLooksUp, LoopDelivers, LoopDropsPeer, LoopCleansUp,
                LoopCloseReturns, LoopReceives, PeerOffline
  <2>2. /\ loop[k] \notin {"off", "told"} /\ loop'[k] \notin {"off", "told"}
        /\ \A j \in Gens \ {k} : loop'[j] = loop[j]
    BY <1>5 DEF Types, LoopExits, LoopLooksUp, LoopDelivers, LoopDropsPeer, LoopCleansUp,
                LoopCloseReturns, LoopReceives, PeerOffline
  <2>3. \A j \in Gens : loop'[j] = loop[j] \/ {loop[j], loop'[j]} \cap {"off", "told"} = {}
    BY <2>2
  <2> QED BY <2>1, <2>3, LinksUnchanged
<1>6. CASE UNCHANGED <<running, cur, loop>>
  BY <1>6 DEF Links, LinkState
<1>7. ASSUME NEW k \in Gens, SockBreaks(k) \/ \E p \in Peers : PeerOnline(k, p)
      PROVE  UNCHANGED <<running, cur, loop>>
  BY <1>7 DEF SockBreaks, PeerOnline
<1>8. ASSUME NEW o \in Openers, OpenStep(o) \/ ConnCloses(o) \/ \E x \in Keys : OpenStarts(o, x)
      PROVE  UNCHANGED <<running, cur, loop>>
  BY <1>8 DEF OpenStep, OpenSubscribes, OpenSent, OpenGivesUp, OpenWakes, OpenFails,
              OpenCounts, OpenReturns, ConnCloses, OpenStarts
<1>9. ASSUME CloseReturns \/ (\E x \in Talking : EarlyExpires(x)) \/ UNCHANGED vars
      PROVE  UNCHANGED <<running, cur, loop>>
  BY <1>9 DEF CloseReturns, EarlyExpires, vars
<1> QED
  BY <1>1, <1>2, <1>3, <1>4, <1>5, <1>6, <1>7, <1>8, <1>9 DEF Next, LoopStep

\* The client implements the safety part of RelayLink: one connection at a time,
\* and no end of one is reported early or twice.
THEOREM ImplementsRelayLink == Spec => Link!Safety
<1>1. Init => Link!Init
  BY DEF Init, Link!Init, Links, LinkState
<1>2. Inv /\ [Next]_vars => [Link!Next]_Links
  BY LinkStep DEF Inv
<1> QED BY <1>1, <1>2, Invariant, PTL DEF Spec, Link!Safety

-----------------------------------------------------------------------------
\* The connections that have ended and are not reported yet.
Unreported == {k \in Gens : Links[k] = "ended"}

Reports == INSTANCE RelayReports WITH up <- running, owed <- Cardinality(Unreported)

\* One connection is up at a time, while the client runs, and finitely many wait
\* to be reported.
Connected == \E k \in Gens : Links[k] = "up"

Told ==
  /\ Links \in [Gens -> {"new", "up", "ended", "told"}]
  /\ \A j, k \in Gens : Links[j] = "up" /\ Links[k] = "up" => j = k
  /\ IsFiniteSet(Unreported)

\* The client runs exactly while it has a connection.
Runs == running = Connected

\* It does, by Loops.
LEMMA RunsConnected ==
  ASSUME Types, Loops
  PROVE  Runs
<1>1. running => Connected
  BY DEF Loops, Active, Connected, Links, LinkState
<1>2. Connected => running
  BY DEF Connected, Links, LinkState
<1> QED BY <1>1, <1>2 DEF Types, Connected, Runs

\* Every step keeps Told and is a step of RelayReports.
LEMMA ReportStep ==
  ASSUME Told, Runs, Runs',
         NEW k \in Gens, Link!Connect(k) \/ Link!End(k) \/ Link!Tell(k)
  PROVE  Told' /\ Reports!Next
<1> USE DEF Told, Runs
<1>1. CASE Link!Connect(k)
  <2>1. ~Connected /\ Connected'
    BY <1>1 DEF Link!Connect, Connected
  <2>2. Unreported' = Unreported
    BY <1>1 DEF Link!Connect, Unreported
  <2>3. Told'
    BY <1>1, <2>2 DEF Link!Connect
  <2>4. Connected' = TRUE
    BY <2>1 DEF Connected
  <2> QED BY <2>1, <2>2, <2>3, <2>4 DEF Reports!Next, Reports!Connect
<1>2. CASE Link!End(k)
  <2>1. Connected /\ ~Connected'
    BY <1>2 DEF Link!End, Connected
  <2>2. k \notin Unreported /\ Unreported' = Unreported \cup {k}
    BY <1>2 DEF Link!End, Unreported
  <2>3. IsFiniteSet(Unreported') /\ Cardinality(Unreported') = Cardinality(Unreported) + 1
    BY <2>2, FS_AddElement
  <2>4. Told'
    BY <1>2, <2>3 DEF Link!End
  <2>5. Connected' = FALSE
    BY <2>1 DEF Connected
  <2>6. Cardinality(Unreported)' = Cardinality(Unreported) + 1
    BY <2>3
  <2> QED BY <2>1, <2>4, <2>5, <2>6 DEF Reports!Next, Reports!End
<1>3. CASE Link!Tell(k)
  <2>1. Connected' = Connected
    BY <1>3 DEF Link!Tell, Connected
  <2>2. k \in Unreported /\ Unreported' = Unreported \ {k}
    BY <1>3 DEF Link!Tell, Unreported
  <2>3. IsFiniteSet(Unreported') /\ Cardinality(Unreported') = Cardinality(Unreported) - 1
    BY <2>2, FS_RemoveElement
  <2>4. Cardinality(Unreported) \in Nat /\ Cardinality(Unreported') \in Nat
    BY <2>3, FS_CardinalityType
  <2>5. Cardinality(Unreported) > 0
    BY <2>3, <2>4
  <2>6. Told'
    BY <1>3, <2>3 DEF Link!Tell
  <2>7. Cardinality(Unreported)' = Cardinality(Unreported) - 1
    BY <2>3
  <2> QED BY <2>1, <2>5, <2>6, <2>7 DEF Reports!Next, Reports!Tell
<1> QED BY <1>1, <1>2, <1>3

\* The client is to the manager what RelayReports says, which the clients of
\* RelayHome and RelayCache are: it connects when it is not connected, each
\* connection it ends is owed one report, and it reports no more than it owes.
THEOREM ImplementsRelayReports == Spec => Reports!Spec
<1>1. Init => Told /\ Reports!Init
  <2> SUFFICES ASSUME Init PROVE Told /\ Reports!Init
    OBVIOUS
  <2>1. Links = [k \in Gens |-> "new"] /\ running = FALSE
    BY DEF Init, Links, LinkState
  <2>2. Unreported = {}
    BY <2>1 DEF Unreported
  <2> QED BY <2>1, <2>2, FS_EmptySet DEF Told, Reports!Init
<1>2. Runs /\ Runs' /\ Told /\ [Link!Next]_Links =>
        Told' /\ [Reports!Next]_<<running, Cardinality(Unreported)>>
  <2> SUFFICES ASSUME Runs, Runs', Told, [Link!Next]_Links
               PROVE  Told' /\ [Reports!Next]_<<running, Cardinality(Unreported)>>
    OBVIOUS
  <2>1. CASE Link!Next
    BY <2>1, ReportStep DEF Link!Next
  <2>2. CASE UNCHANGED Links
    BY <2>2 DEF Runs, Told, Connected, Unreported
  <2> QED BY <2>1, <2>2
<1>3. Inv /\ [Next]_vars => [Link!Next]_Links
  BY LinkStep DEF Inv
<1>4. Inv => Runs
  BY RunsConnected DEF Inv
<1> QED BY <1>1, <1>2, <1>3, <1>4, Invariant, PTL DEF Spec, Reports!Spec

-----------------------------------------------------------------------------
\* Whoever is inside close() has readLoopMutex to itself, has ended the
\* connection, and waits for no read loop but that connection's, whose socket
\* is closed: the loop's next read fails, and nothing it does before
\* wgReadLoop.Done takes readLoopMutex.
CloseCanReturn ==
  closing # None =>
    /\ ~running /\ sock[cur] = "closed"
    /\ \A k \in Gens : Active(k) => k = cur
    /\ closing # "app" => loop[closing] = "closing"

\* The holder of readLoopMutex, and what it has done.
Holder ==
  /\ closing # None => ~running /\ cur \in Gens /\ sock[cur] = "closed"
  /\ \A k \in Gens : closing = k <=> loop[k] = "closing"

\* Every step keeps Holder.
LEMMA HolderStep ==
  ASSUME Types, SubTypes, Loops, Holder, [Next]_vars
  PROVE  Holder'
<1> USE RelayClientAssumption DEF Types, SubTypes, Holder, conn, loops
<1>1. ASSUME NEW k \in Gens, Connect(k) PROVE Holder'
  BY <1>1 DEF Connect
<1>2. CASE Close
  <2>1. closing = None /\ closing' = "app" /\ loop' = loop
    BY <1>2 DEF Close
  <2>2. running' = FALSE /\ cur' = cur /\ sock' = [sock EXCEPT ![cur] = "closed"] /\ cur \in Gens
    BY <1>2 DEF Close, ShutDown, Loops
  <2> QED BY <2>1, <2>2
<1>3. CASE CloseReturns
  BY <1>3 DEF CloseReturns
<1>4. ASSUME NEW k \in Gens, LoopCloses(k) PROVE Holder'
  <2>1. CASE running
    <3>1. closing = None /\ closing' = k /\ loop' = [loop EXCEPT ![k] = "closing"]
      BY <1>4, <2>1 DEF LoopCloses
    <3>2. running' = FALSE /\ cur' = cur /\ sock' = [sock EXCEPT ![cur] = "closed"] /\ cur \in Gens
      BY <1>4, <2>1 DEF LoopCloses, ShutDown, Loops
    <3> QED BY <3>1, <3>2
  <2>2. CASE ~running
    BY <1>4, <2>2 DEF LoopCloses
  <2> QED BY <2>1, <2>2
<1>5. ASSUME NEW k \in Gens, LoopCloseReturns(k) PROVE Holder'
  BY <1>5 DEF LoopCloseReturns
<1>6. ASSUME NEW k \in Gens, SockBreaks(k) PROVE Holder'
  BY <1>6 DEF SockBreaks
<1>7. ASSUME UNCHANGED <<running, cur, sock, closing>>,
             \A k \in Gens : loop'[k] = "closing" <=> loop[k] = "closing"
      PROVE  Holder'
  BY <1>7
<1>8. ASSUME NEW k \in Gens,
             \/ LoopExits(k) \/ LoopLooksUp(k) \/ LoopDelivers(k) \/ LoopDropsPeer(k)
             \/ LoopCleansUp(k) \/ LoopNotifies(k)
             \/ (\E x \in Talking : LoopReceives(k, x))
             \/ (\E p \in Peers : PeerOnline(k, p) \/ PeerOffline(k, p))
      PROVE  Holder'
  <2> DEFINE Moves == /\ UNCHANGED <<running, cur, sock, closing>>
                      /\ loop[k] # "closing" /\ loop'[k] # "closing"
                      /\ \A j \in Gens \ {k} : loop'[j] = loop[j]
  <2>1. ASSUME LoopExits(k) PROVE Moves
    BY <2>1 DEF LoopExits
  <2>2. ASSUME LoopLooksUp(k) PROVE Moves
    BY <2>2 DEF LoopLooksUp
  <2>3. ASSUME LoopDelivers(k) PROVE Moves
    BY <2>3 DEF LoopDelivers
  <2>4. ASSUME LoopDropsPeer(k) PROVE Moves
    BY <2>4 DEF LoopDropsPeer
  <2>5. ASSUME LoopCleansUp(k) PROVE Moves
    BY <2>5 DEF LoopCleansUp
  <2>6. ASSUME LoopNotifies(k) PROVE Moves
    BY <2>6 DEF LoopNotifies
  <2>7. ASSUME NEW x \in Talking, LoopReceives(k, x) PROVE Moves
    BY <2>7 DEF LoopReceives
  <2>8. ASSUME NEW p \in Peers, PeerOnline(k, p) PROVE Moves
    BY <2>8 DEF PeerOnline
  <2>9. ASSUME NEW p \in Peers, PeerOffline(k, p) PROVE Moves
    BY <2>9 DEF PeerOffline
  <2> HIDE DEF Moves
  <2>10. Moves
    BY <1>8, <2>1, <2>2, <2>3, <2>4, <2>5, <2>6, <2>7, <2>8, <2>9
  <2> QED BY <1>7, <2>10 DEF Moves
<1>9. ASSUME NEW o \in Openers, OpenStep(o) \/ ConnCloses(o) \/ \E x \in Keys : OpenStarts(o, x)
      PROVE  UNCHANGED <<running, cur, sock, closing, loop>>
  BY <1>9 DEF OpenStep, OpenSubscribes, OpenSent, OpenGivesUp, OpenWakes, OpenFails,
              OpenCounts, OpenReturns, ConnCloses, OpenStarts
<1>10. ASSUME (\E x \in Talking : EarlyExpires(x)) \/ UNCHANGED vars
       PROVE  UNCHANGED <<running, cur, sock, closing, loop>>
  BY <1>10 DEF EarlyExpires, vars
<1> QED
  BY <1>1, <1>2, <1>3, <1>4, <1>5, <1>6, <1>7, <1>8, <1>9, <1>10 DEF Next, LoopStep

\* close() never waits for itself or for another close(), over any number of
\* reconnects: the safety part of CloseCompletes.
THEOREM CloseWaitsForItsLoop == Spec => []CloseCanReturn
<1>1. Init => Holder
  BY RelayClientAssumption DEF Init, Holder
<1>2. Inv /\ Holder /\ [Next]_vars => Holder'
  BY HolderStep DEF Inv
<1>3. Inv /\ Holder => CloseCanReturn
  BY RelayClientAssumption DEF Inv, Types, Loops, Holder, CloseCanReturn
<1> QED BY <1>1, <1>2, <1>3, Invariant, PTL DEF Spec
=============================================================================
