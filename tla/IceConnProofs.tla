--------------------------- MODULE IceConnProofs ---------------------------
(***************************************************************************)
(* Proofs about IceConn, for any agents, watchers and session ids.         *)
(***************************************************************************)
EXTENDS IceConn, TLAPS

\* The types but for the queues of reports.
Types ==
  /\ open \in BOOLEAN /\ listening \in BOOLEAN
  /\ prio \in {"none", "relay", "ice"}
  /\ statusICE \in BOOLEAN
  /\ relay \in BOOLEAN
  /\ agent \in Agents \cup {None}
  /\ dialer \in Agents \cup {None}
  /\ connecting \in BOOLEAN
  /\ sess \in Offers
  /\ lastKnown \in BOOLEAN
  /\ ice \in [Agents -> {"free", "new", "up", "lost", "failed", "closed"}]
  /\ telling \in [Agents -> {"no", "known", "conn"}]
  /\ run \in [Agents -> {"off", "dial", "won", "ready"}]
  /\ cancelled \in [Agents -> BOOLEAN]
  /\ enabled \in BOOLEAN
  /\ resetCh \in BOOLEAN
  /\ watch \in [Watchers -> {"off", "start", "check", "timeout", "leave"}]
  /\ stopped \in [Watchers -> BOOLEAN]
  /\ cancel \in Watchers \cup {None}

\* Every step keeps the types.
LEMMA TypesStep ==
  ASSUME Types, [Next]_vars
  PROVE  Types'
<1> USE IceConnAssumption DEF Types, Offers, conn, worker, agents, watcher
<1>1. CASE OnRelayReady
  BY <1>1 DEF OnRelayReady, StartOrReset
<1>2. CASE OnRelayDisconnected
  BY <1>2 DEF OnRelayDisconnected, RelayDown, Disable
<1>3. CASE Close
  BY <1>3 DEF Close, CloseAgents, SetAgents
<1>4. ASSUME NEW s \in Offers, NEW x \in Agents, OnNewOffer(s, x) PROVE Types'
  BY <1>4 DEF OnNewOffer, Free, CloseAgents
<1>5. ASSUME NEW s \in Offers, OfferFails(s) PROVE Types'
  BY <1>5 DEF OfferFails, CloseAgents, SetAgents
<1>6. ASSUME NEW x \in Agents, IceConnects(x) \/ IceBreaks(x) PROVE Types'
  BY <1>6 DEF IceConnects, IceBreaks
<1>7. ASSUME NEW x \in Agents, DialReturns(x) PROVE Types'
  BY <1>7 DEF DialReturns
<1>8. ASSUME NEW x \in Agents, ConnectFails(x) PROVE Types'
  <2>1. /\ agent' \in Agents \cup {None} /\ connecting' \in BOOLEAN /\ sess' \in Offers
        /\ cancelled' \in [Agents -> BOOLEAN]
    BY <1>8 DEF ConnectFails, ForgetAgent
  <2>2. /\ ice' \in [Agents -> {"free", "new", "up", "lost", "failed", "closed"}]
        /\ run' \in [Agents -> {"off", "dial", "won", "ready"}]
    BY <1>8 DEF ConnectFails, CloseAgents, SetAgents
  <2>3. /\ UNCHANGED <<open, listening, prio, statusICE, relay, dialer, lastKnown, telling>>
        /\ UNCHANGED <<enabled, resetCh, watch, stopped, cancel>>
    BY <1>8 DEF ConnectFails
  <2> QED BY <2>1, <2>2, <2>3
<1>9. ASSUME NEW x \in Agents, ConnectDone(x) PROVE Types'
  <2>1. /\ run' \in [Agents -> {"off", "dial", "won", "ready"}]
        /\ connecting' \in BOOLEAN
    BY <1>9 DEF ConnectDone
  <2>2. /\ UNCHANGED <<open, listening, prio, statusICE, relay, agent, dialer, sess, lastKnown>>
        /\ UNCHANGED <<ice, telling, cancelled, enabled, resetCh, watch, stopped, cancel>>
    BY <1>9 DEF ConnectDone
  <2> QED BY <2>1, <2>2
<1>10. ASSUME NEW x \in Agents, OnICEReady(x) PROVE Types'
  <2>1. /\ run' \in [Agents -> {"off", "dial", "won", "ready"}]
        /\ prio' \in {"none", "relay", "ice"} /\ statusICE' \in BOOLEAN
    BY <1>10 DEF OnICEReady
  <2>2. StartOrReset \/ UNCHANGED watcher
    BY <1>10 DEF OnICEReady
  <2>3. /\ enabled' \in BOOLEAN /\ resetCh' \in BOOLEAN
        /\ watch' \in [Watchers -> {"off", "start", "check", "timeout", "leave"}]
        /\ stopped' \in [Watchers -> BOOLEAN]
        /\ cancel' \in Watchers \cup {None}
    BY <2>2 DEF StartOrReset
  <2>4. /\ UNCHANGED <<open, listening, relay, agent, dialer, connecting, sess, lastKnown>>
        /\ UNCHANGED <<ice, telling, cancelled>>
    BY <1>10 DEF OnICEReady
  <2> QED BY <2>1, <2>3, <2>4
<1>11. ASSUME NEW x \in Agents, ReportsUp(x) PROVE Types'
  BY <1>11 DEF ReportsUp
<1>12. ASSUME NEW x \in Agents, ReportsDown(x) PROVE Types'
  <2>1. /\ agent' \in Agents \cup {None} /\ connecting' \in BOOLEAN /\ sess' \in Offers
        /\ cancelled' \in [Agents -> BOOLEAN]
    BY <1>12 DEF ReportsDown, ForgetAgent
  <2>2. /\ ice' \in [Agents -> {"free", "new", "up", "lost", "failed", "closed"}]
        /\ telling' \in [Agents -> {"no", "known", "conn"}]
    BY <1>12 DEF ReportsDown, CloseAgents
  <2>3. /\ UNCHANGED <<open, listening, prio, statusICE, relay, dialer, lastKnown, run>>
        /\ UNCHANGED <<enabled, resetCh, watch, stopped, cancel>>
    BY <1>12 DEF ReportsDown
  <2> QED BY <2>1, <2>2, <2>3
<1>13. ASSUME NEW x \in Agents, OnICEDisconnected(x) PROVE Types'
  <2>1. /\ telling' \in [Agents -> {"no", "known", "conn"}]
        /\ prio' \in {"none", "relay", "ice"} /\ statusICE' \in BOOLEAN
        /\ resetCh' \in BOOLEAN
    BY <1>13 DEF OnICEDisconnected
  <2>2. Disable(prio') \/ UNCHANGED <<stopped, cancel>>
    BY <1>13 DEF OnICEDisconnected
  <2>3. stopped' \in [Watchers -> BOOLEAN] /\ cancel' \in Watchers \cup {None}
    BY <2>2 DEF Disable
  <2>4. /\ UNCHANGED <<open, listening, relay, agent, dialer, connecting, sess, lastKnown>>
        /\ UNCHANGED <<ice, run, cancelled, enabled, watch>>
    BY <1>13 DEF OnICEDisconnected
  <2> QED BY <2>1, <2>3, <2>4
<1>14. ASSUME NEW k \in Watchers, WatcherStarts(k) PROVE Types'
  BY <1>14 DEF WatcherStarts
<1>15. ASSUME NEW k \in Watchers, WatcherResets(k) \/ WatcherStops(k) \/ HandshakeTimeout(k)
       PROVE Types'
  <2>1. /\ watch' \in [Watchers -> {"off", "start", "check", "timeout", "leave"}]
        /\ resetCh' \in BOOLEAN
        /\ UNCHANGED <<conn, worker, agents, enabled, stopped, cancel>>
    BY <1>15 DEF WatcherResets, WatcherStops, HandshakeTimeout
  <2> QED BY <2>1
<1>16. ASSUME NEW k \in Watchers, OnWGDisconnected(k) PROVE Types'
  <2>1. /\ watch' \in [Watchers -> {"off", "start", "check", "timeout", "leave"}]
        /\ UNCHANGED <<open, listening, statusICE, dialer, connecting, sess, lastKnown, telling, run>>
        /\ UNCHANGED <<enabled, resetCh>>
    BY <1>16 DEF OnWGDisconnected
  <2>2. /\ relay' \in BOOLEAN
        /\ prio' \in {"none", "relay", "ice"}
        /\ stopped' \in [Watchers -> BOOLEAN]
        /\ cancel' \in Watchers \cup {None}
    BY <1>16 DEF OnWGDisconnected, RelayDown, Disable
  <2>3. /\ ice' \in [Agents -> {"free", "new", "up", "lost", "failed", "closed"}]
        /\ cancelled' \in [Agents -> BOOLEAN]
        /\ agent' \in Agents \cup {None}
    <3>1. CASE UNCHANGED <<ice, report, cancelled, agent>>
      BY <3>1
    <3>2. CASE /\ SetAgents(CloseAgents({agent}))
               /\ cancelled' = [cancelled EXCEPT ![dialer] = TRUE]
               /\ agent' = None
      BY <3>2 DEF CloseAgents, SetAgents
    <3> QED BY <1>16, <3>1, <3>2 DEF OnWGDisconnected, CloseWorker
  <2> QED BY <2>1, <2>2, <2>3
<1>17. ASSUME NEW k \in Watchers, WatcherLeaves(k) PROVE Types'
  <2>1. /\ watch' \in [Watchers -> {"off", "start", "check", "timeout", "leave"}]
        /\ enabled' \in BOOLEAN
        /\ UNCHANGED <<conn, worker, agents, resetCh, stopped, cancel>>
    BY <1>17 DEF WatcherLeaves
  <2> QED BY <2>1
<1>18. CASE UNCHANGED vars
  BY <1>18 DEF vars
<1>19. CASE RemoteICEStops
  <2>1. /\ ice' \in [Agents -> {"free", "new", "up", "lost", "failed", "closed"}]
        /\ cancelled' \in [Agents -> BOOLEAN]
        /\ agent' \in Agents \cup {None}
    <3>1. /\ SetAgents(CloseAgents({agent}))
          /\ cancelled' = [cancelled EXCEPT ![dialer] = TRUE]
          /\ agent' = None
      BY <1>19 DEF RemoteICEStops, CloseWorker
    <3> QED BY <3>1 DEF CloseAgents, SetAgents
  <2>2. /\ UNCHANGED <<open, listening, prio, statusICE, relay, dialer, connecting, sess>>
        /\ UNCHANGED <<lastKnown, telling, run, enabled, resetCh, watch, stopped, cancel>>
    BY <1>19 DEF RemoteICEStops
  <2> QED BY <2>1, <2>2
<1>20. CASE ListenEnds
  <2>1. listening' \in BOOLEAN
    BY <1>20 DEF ListenEnds
  <2>2. /\ UNCHANGED <<open, prio, statusICE, relay, agent, dialer, connecting, sess, lastKnown>>
        /\ UNCHANGED <<ice, telling, run, cancelled, enabled, resetCh, watch, stopped, cancel>>
    BY <1>20 DEF ListenEnds
  <2> QED BY <2>1, <2>2
<1>21. ASSUME NEW x \in Agents, LastKnown(x) PROVE Types'
  <2>1. lastKnown' \in BOOLEAN /\ telling' \in [Agents -> {"no", "known", "conn"}]
    BY <1>21 DEF LastKnown
  <2>2. /\ UNCHANGED <<open, listening, prio, statusICE, relay, agent, dialer, connecting, sess>>
        /\ UNCHANGED <<ice, run, cancelled, enabled, resetCh, watch, stopped, cancel>>
    BY <1>21 DEF LastKnown
  <2> QED BY <2>1, <2>2
<1> QED BY <1>1, <1>2, <1>3, <1>4, <1>5, <1>6, <1>7, <1>8, <1>9, <1>10, <1>11, <1>12,
           <1>13, <1>14, <1>15, <1>16, <1>17, <1>18, <1>19, <1>20, <1>21
        DEF Next, ConnectStep, ReportStep, WatcherStep

\* Every step keeps OneWatcher: the flag is taken and given back under its lock.
LEMMA OneWatcherStep ==
  ASSUME Types, OneWatcher, [Next]_vars
  PROVE  OneWatcher'
<1> USE IceConnAssumption DEF Types, OneWatcher, conn, worker, agents, watcher
<1>1. CASE OnRelayReady
  BY <1>1 DEF OnRelayReady, StartOrReset
<1>2. CASE OnRelayDisconnected
  BY <1>2 DEF OnRelayDisconnected, RelayDown, Disable
<1>3. CASE Close
  BY <1>3 DEF Close, CloseAgents, SetAgents
<1>4. ASSUME NEW s \in Offers, NEW x \in Agents, OnNewOffer(s, x) PROVE OneWatcher'
  BY <1>4 DEF OnNewOffer, Free, CloseAgents
<1>5. ASSUME NEW s \in Offers, OfferFails(s) PROVE OneWatcher'
  BY <1>5 DEF OfferFails, CloseAgents, SetAgents
<1>6. ASSUME NEW x \in Agents, IceConnects(x) \/ IceBreaks(x) PROVE OneWatcher'
  BY <1>6 DEF IceConnects, IceBreaks
<1>7. ASSUME NEW x \in Agents, DialReturns(x) PROVE OneWatcher'
  BY <1>7 DEF DialReturns
<1>8. ASSUME NEW x \in Agents, ConnectFails(x) PROVE OneWatcher'
  BY <1>8 DEF ConnectFails, ForgetAgent, CloseAgents, SetAgents
<1>9. ASSUME NEW x \in Agents, ConnectDone(x) PROVE OneWatcher'
  BY <1>9 DEF ConnectDone
<1>10. ASSUME NEW x \in Agents, OnICEReady(x) PROVE OneWatcher'
  BY <1>10 DEF OnICEReady, StartOrReset
<1>11. ASSUME NEW x \in Agents, ReportsUp(x) PROVE OneWatcher'
  BY <1>11 DEF ReportsUp
<1>12. ASSUME NEW x \in Agents, ReportsDown(x) PROVE OneWatcher'
  BY <1>12 DEF ReportsDown, ForgetAgent, CloseAgents
<1>13. ASSUME NEW x \in Agents, OnICEDisconnected(x) PROVE OneWatcher'
  BY <1>13 DEF OnICEDisconnected, Disable
<1>14. ASSUME NEW k \in Watchers, WatcherStarts(k) PROVE OneWatcher'
  BY <1>14 DEF WatcherStarts
<1>15. ASSUME NEW k \in Watchers, WatcherResets(k) \/ WatcherStops(k) \/ HandshakeTimeout(k)
       PROVE OneWatcher'
  BY <1>15 DEF WatcherResets, WatcherStops, HandshakeTimeout
<1>16. ASSUME NEW k \in Watchers, OnWGDisconnected(k) PROVE OneWatcher'
  BY <1>16 DEF OnWGDisconnected, RelayDown, Disable, CloseWorker, CloseAgents, SetAgents
<1>17. ASSUME NEW k \in Watchers, WatcherLeaves(k) PROVE OneWatcher'
  BY <1>17 DEF WatcherLeaves
<1>18. CASE UNCHANGED vars
  BY <1>18 DEF vars
<1>19. CASE RemoteICEStops
  BY <1>19 DEF RemoteICEStops, CloseWorker, CloseAgents, SetAgents
<1>20. CASE ListenEnds
  BY <1>20 DEF ListenEnds
<1>21. ASSUME NEW x \in Agents, LastKnown(x) PROVE OneWatcher'
  BY <1>21 DEF LastKnown
<1> QED BY <1>1, <1>2, <1>3, <1>4, <1>5, <1>6, <1>7, <1>8, <1>9, <1>10, <1>11, <1>12,
           <1>13, <1>14, <1>15, <1>16, <1>17, <1>18, <1>19, <1>20, <1>21
        DEF Next, ConnectStep, ReportStep, WatcherStep

\* Every step keeps AgentsOwned.
LEMMA AgentsOwnedStep ==
  ASSUME Types, AgentsOwned, [Next]_vars
  PROVE  AgentsOwned'
<1> USE IceConnAssumption DEF Types, AgentsOwned, Alive, conn, worker, agents, watcher
<1>1. CASE OnRelayReady
  BY <1>1 DEF OnRelayReady, StartOrReset
<1>2. CASE OnRelayDisconnected
  BY <1>2 DEF OnRelayDisconnected, RelayDown, Disable
<1>3. CASE Close
  BY <1>3 DEF Close, CloseAgents, SetAgents
<1>4. ASSUME NEW s \in Offers, NEW x \in Agents, OnNewOffer(s, x) PROVE AgentsOwned'
  BY <1>4 DEF OnNewOffer, Free, CloseAgents
<1>5. ASSUME NEW s \in Offers, OfferFails(s) PROVE AgentsOwned'
  BY <1>5 DEF OfferFails, CloseAgents, SetAgents
<1>6. ASSUME NEW x \in Agents, IceConnects(x) \/ IceBreaks(x) PROVE AgentsOwned'
  BY <1>6 DEF IceConnects, IceBreaks
<1>7. ASSUME NEW x \in Agents, DialReturns(x) PROVE AgentsOwned'
  BY <1>7 DEF DialReturns
<1>8. ASSUME NEW x \in Agents, ConnectFails(x) PROVE AgentsOwned'
  BY <1>8 DEF ConnectFails, ForgetAgent, CloseAgents, SetAgents
<1>9. ASSUME NEW x \in Agents, ConnectDone(x) PROVE AgentsOwned'
  BY <1>9 DEF ConnectDone
<1>10. ASSUME NEW x \in Agents, OnICEReady(x) PROVE AgentsOwned'
  BY <1>10 DEF OnICEReady, StartOrReset
<1>11. ASSUME NEW x \in Agents, ReportsUp(x) PROVE AgentsOwned'
  BY <1>11 DEF ReportsUp
<1>12. ASSUME NEW x \in Agents, ReportsDown(x) PROVE AgentsOwned'
  BY <1>12 DEF ReportsDown, ForgetAgent, CloseAgents
<1>13. ASSUME NEW x \in Agents, OnICEDisconnected(x) PROVE AgentsOwned'
  BY <1>13 DEF OnICEDisconnected, Disable
<1>14. ASSUME NEW k \in Watchers, WatcherStarts(k) PROVE AgentsOwned'
  BY <1>14 DEF WatcherStarts
<1>15. ASSUME NEW k \in Watchers, WatcherResets(k) \/ WatcherStops(k) \/ HandshakeTimeout(k)
       PROVE AgentsOwned'
  BY <1>15 DEF WatcherResets, WatcherStops, HandshakeTimeout
<1>16. ASSUME NEW k \in Watchers, OnWGDisconnected(k) PROVE AgentsOwned'
  BY <1>16 DEF OnWGDisconnected, RelayDown, Disable, CloseWorker, CloseAgents, SetAgents
<1>17. ASSUME NEW k \in Watchers, WatcherLeaves(k) PROVE AgentsOwned'
  BY <1>17 DEF WatcherLeaves
<1>18. CASE UNCHANGED vars
  BY <1>18 DEF vars
<1>19. CASE RemoteICEStops
  BY <1>19 DEF RemoteICEStops, CloseWorker, CloseAgents, SetAgents
<1>20. CASE ListenEnds
  BY <1>20 DEF ListenEnds
<1>21. ASSUME NEW x \in Agents, LastKnown(x) PROVE AgentsOwned'
  BY <1>21 DEF LastKnown
<1> QED BY <1>1, <1>2, <1>3, <1>4, <1>5, <1>6, <1>7, <1>8, <1>9, <1>10, <1>11, <1>12,
           <1>13, <1>14, <1>15, <1>16, <1>17, <1>18, <1>19, <1>20, <1>21
        DEF Next, ConnectStep, ReportStep, WatcherStep

\* Every step keeps InProgressBacked.
LEMMA InProgressBackedStep ==
  ASSUME Types, InProgressBacked, [Next]_vars
  PROVE  InProgressBacked'
<1> USE IceConnAssumption DEF Types, InProgressBacked, conn, worker, agents, watcher
<1>1. CASE OnRelayReady
  BY <1>1 DEF OnRelayReady, StartOrReset
<1>2. CASE OnRelayDisconnected
  BY <1>2 DEF OnRelayDisconnected, RelayDown, Disable
<1>3. CASE Close
  BY <1>3 DEF Close, CloseAgents, SetAgents
<1>4. ASSUME NEW s \in Offers, NEW x \in Agents, OnNewOffer(s, x) PROVE InProgressBacked'
  BY <1>4 DEF OnNewOffer, Free, CloseAgents
<1>5. ASSUME NEW s \in Offers, OfferFails(s) PROVE InProgressBacked'
  BY <1>5 DEF OfferFails, CloseAgents, SetAgents
<1>6. ASSUME NEW x \in Agents, IceConnects(x) \/ IceBreaks(x) PROVE InProgressBacked'
  BY <1>6 DEF IceConnects, IceBreaks
<1>7. ASSUME NEW x \in Agents, DialReturns(x) PROVE InProgressBacked'
  BY <1>7 DEF DialReturns
<1>8. ASSUME NEW x \in Agents, ConnectFails(x) PROVE InProgressBacked'
  BY <1>8 DEF ConnectFails, ForgetAgent, CloseAgents, SetAgents
<1>9. ASSUME NEW x \in Agents, ConnectDone(x) PROVE InProgressBacked'
  BY <1>9 DEF ConnectDone
<1>10. ASSUME NEW x \in Agents, OnICEReady(x) PROVE InProgressBacked'
  BY <1>10 DEF OnICEReady, StartOrReset
<1>11. ASSUME NEW x \in Agents, ReportsUp(x) PROVE InProgressBacked'
  BY <1>11 DEF ReportsUp
<1>12. ASSUME NEW x \in Agents, ReportsDown(x) PROVE InProgressBacked'
  BY <1>12 DEF ReportsDown, ForgetAgent, CloseAgents
<1>13. ASSUME NEW x \in Agents, OnICEDisconnected(x) PROVE InProgressBacked'
  BY <1>13 DEF OnICEDisconnected, Disable
<1>14. ASSUME NEW k \in Watchers, WatcherStarts(k) PROVE InProgressBacked'
  BY <1>14 DEF WatcherStarts
<1>15. ASSUME NEW k \in Watchers, WatcherResets(k) \/ WatcherStops(k) \/ HandshakeTimeout(k)
       PROVE InProgressBacked'
  BY <1>15 DEF WatcherResets, WatcherStops, HandshakeTimeout
<1>16. ASSUME NEW k \in Watchers, OnWGDisconnected(k) PROVE InProgressBacked'
  BY <1>16 DEF OnWGDisconnected, RelayDown, Disable, CloseWorker, CloseAgents, SetAgents
<1>17. ASSUME NEW k \in Watchers, WatcherLeaves(k) PROVE InProgressBacked'
  BY <1>17 DEF WatcherLeaves
<1>18. CASE UNCHANGED vars
  BY <1>18 DEF vars
<1>19. CASE RemoteICEStops
  BY <1>19 DEF RemoteICEStops, CloseWorker, CloseAgents, SetAgents
<1>20. CASE ListenEnds
  BY <1>20 DEF ListenEnds
<1>21. ASSUME NEW x \in Agents, LastKnown(x) PROVE InProgressBacked'
  BY <1>21 DEF LastKnown
<1> QED BY <1>1, <1>2, <1>3, <1>4, <1>5, <1>6, <1>7, <1>8, <1>9, <1>10, <1>11, <1>12,
           <1>13, <1>14, <1>15, <1>16, <1>17, <1>18, <1>19, <1>20, <1>21
        DEF Next, ConnectStep, ReportStep, WatcherStep

\* Every step keeps ActiveIsConnected.
LEMMA ActiveIsConnectedStep ==
  ASSUME Types, ActiveIsConnected, [Next]_vars
  PROVE  ActiveIsConnected'
<1> USE IceConnAssumption DEF Types, ActiveIsConnected, conn, worker, agents, watcher
<1>1. CASE OnRelayReady
  BY <1>1 DEF OnRelayReady, StartOrReset
<1>2. CASE OnRelayDisconnected
  BY <1>2 DEF OnRelayDisconnected, RelayDown, Disable
<1>3. CASE Close
  BY <1>3 DEF Close, CloseAgents, SetAgents
<1>4. ASSUME NEW s \in Offers, NEW x \in Agents, OnNewOffer(s, x) PROVE ActiveIsConnected'
  BY <1>4 DEF OnNewOffer, Free, CloseAgents
<1>5. ASSUME NEW s \in Offers, OfferFails(s) PROVE ActiveIsConnected'
  BY <1>5 DEF OfferFails, CloseAgents, SetAgents
<1>6. ASSUME NEW x \in Agents, IceConnects(x) \/ IceBreaks(x) PROVE ActiveIsConnected'
  BY <1>6 DEF IceConnects, IceBreaks
<1>7. ASSUME NEW x \in Agents, DialReturns(x) PROVE ActiveIsConnected'
  BY <1>7 DEF DialReturns
<1>8. ASSUME NEW x \in Agents, ConnectFails(x) PROVE ActiveIsConnected'
  BY <1>8 DEF ConnectFails, ForgetAgent, CloseAgents, SetAgents
<1>9. ASSUME NEW x \in Agents, ConnectDone(x) PROVE ActiveIsConnected'
  BY <1>9 DEF ConnectDone
<1>10. ASSUME NEW x \in Agents, OnICEReady(x) PROVE ActiveIsConnected'
  BY <1>10 DEF OnICEReady, StartOrReset
<1>11. ASSUME NEW x \in Agents, ReportsUp(x) PROVE ActiveIsConnected'
  BY <1>11 DEF ReportsUp
<1>12. ASSUME NEW x \in Agents, ReportsDown(x) PROVE ActiveIsConnected'
  BY <1>12 DEF ReportsDown, ForgetAgent, CloseAgents
<1>13. ASSUME NEW x \in Agents, OnICEDisconnected(x) PROVE ActiveIsConnected'
  BY <1>13 DEF OnICEDisconnected, Disable
<1>14. ASSUME NEW k \in Watchers, WatcherStarts(k) PROVE ActiveIsConnected'
  BY <1>14 DEF WatcherStarts
<1>15. ASSUME NEW k \in Watchers, WatcherResets(k) \/ WatcherStops(k) \/ HandshakeTimeout(k)
       PROVE ActiveIsConnected'
  BY <1>15 DEF WatcherResets, WatcherStops, HandshakeTimeout
<1>16. ASSUME NEW k \in Watchers, OnWGDisconnected(k) PROVE ActiveIsConnected'
  BY <1>16 DEF OnWGDisconnected, RelayDown, Disable, CloseWorker, CloseAgents, SetAgents
<1>17. ASSUME NEW k \in Watchers, WatcherLeaves(k) PROVE ActiveIsConnected'
  BY <1>17 DEF WatcherLeaves
<1>18. CASE UNCHANGED vars
  BY <1>18 DEF vars
<1>19. CASE RemoteICEStops
  BY <1>19 DEF RemoteICEStops, CloseWorker, CloseAgents, SetAgents
<1>20. CASE ListenEnds
  BY <1>20 DEF ListenEnds
<1>21. ASSUME NEW x \in Agents, LastKnown(x) PROVE ActiveIsConnected'
  BY <1>21 DEF LastKnown
<1> QED BY <1>1, <1>2, <1>3, <1>4, <1>5, <1>6, <1>7, <1>8, <1>9, <1>10, <1>11, <1>12,
           <1>13, <1>14, <1>15, <1>16, <1>17, <1>18, <1>19, <1>20, <1>21
        DEF Next, ConnectStep, ReportStep, WatcherStep

\* Every step keeps ClosedIsQuiet.
LEMMA ClosedIsQuietStep ==
  ASSUME Types, AgentsOwned, ClosedIsQuiet, [Next]_vars
  PROVE  ClosedIsQuiet'
<1> USE IceConnAssumption DEF Types, ClosedIsQuiet, Alive, conn, worker, agents, watcher
<1>1. CASE OnRelayReady
  BY <1>1 DEF OnRelayReady, StartOrReset
<1>2. CASE OnRelayDisconnected
  BY <1>2 DEF OnRelayDisconnected, RelayDown, Disable
<1>3. CASE Close
  BY <1>3 DEF Close, CloseAgents, SetAgents, AgentsOwned
<1>4. ASSUME NEW s \in Offers, NEW x \in Agents, OnNewOffer(s, x) PROVE ClosedIsQuiet'
  BY <1>4 DEF OnNewOffer, Free, CloseAgents
<1>5. ASSUME NEW s \in Offers, OfferFails(s) PROVE ClosedIsQuiet'
  BY <1>5 DEF OfferFails, CloseAgents, SetAgents
<1>6. ASSUME NEW x \in Agents, IceConnects(x) \/ IceBreaks(x) PROVE ClosedIsQuiet'
  BY <1>6 DEF IceConnects, IceBreaks
<1>7. ASSUME NEW x \in Agents, DialReturns(x) PROVE ClosedIsQuiet'
  BY <1>7 DEF DialReturns
<1>8. ASSUME NEW x \in Agents, ConnectFails(x) PROVE ClosedIsQuiet'
  BY <1>8 DEF ConnectFails, ForgetAgent, CloseAgents, SetAgents
<1>9. ASSUME NEW x \in Agents, ConnectDone(x) PROVE ClosedIsQuiet'
  BY <1>9 DEF ConnectDone
<1>10. ASSUME NEW x \in Agents, OnICEReady(x) PROVE ClosedIsQuiet'
  BY <1>10 DEF OnICEReady, StartOrReset
<1>11. ASSUME NEW x \in Agents, ReportsUp(x) PROVE ClosedIsQuiet'
  BY <1>11 DEF ReportsUp
<1>12. ASSUME NEW x \in Agents, ReportsDown(x) PROVE ClosedIsQuiet'
  BY <1>12 DEF ReportsDown, ForgetAgent, CloseAgents
<1>13. ASSUME NEW x \in Agents, OnICEDisconnected(x) PROVE ClosedIsQuiet'
  BY <1>13 DEF OnICEDisconnected, Disable
<1>14. ASSUME NEW k \in Watchers, WatcherStarts(k) PROVE ClosedIsQuiet'
  BY <1>14 DEF WatcherStarts
<1>15. ASSUME NEW k \in Watchers, WatcherResets(k) \/ WatcherStops(k) \/ HandshakeTimeout(k)
       PROVE ClosedIsQuiet'
  BY <1>15 DEF WatcherResets, WatcherStops, HandshakeTimeout
<1>16. ASSUME NEW k \in Watchers, OnWGDisconnected(k) PROVE ClosedIsQuiet'
  BY <1>16 DEF OnWGDisconnected, RelayDown, Disable, CloseWorker, CloseAgents, SetAgents
<1>17. ASSUME NEW k \in Watchers, WatcherLeaves(k) PROVE ClosedIsQuiet'
  BY <1>17 DEF WatcherLeaves
<1>18. CASE UNCHANGED vars
  BY <1>18 DEF vars
<1>19. CASE RemoteICEStops
  BY <1>19 DEF RemoteICEStops, CloseWorker, CloseAgents, SetAgents
<1>20. CASE ListenEnds
  BY <1>20 DEF ListenEnds
<1>21. ASSUME NEW x \in Agents, LastKnown(x) PROVE ClosedIsQuiet'
  BY <1>21 DEF LastKnown
<1> QED BY <1>1, <1>2, <1>3, <1>4, <1>5, <1>6, <1>7, <1>8, <1>9, <1>10, <1>11, <1>12,
           <1>13, <1>14, <1>15, <1>16, <1>17, <1>18, <1>19, <1>20, <1>21
        DEF Next, ConnectStep, ReportStep, WatcherStep

-----------------------------------------------------------------------------
\* One report is made and one is taken.
LEMMA TailOfAppend ==
  ASSUME NEW T, NEW q \in Seq(T), NEW e \in T
  PROVE  /\ Tail(Append(q, e)) \in Seq(T)
         /\ Len(Tail(Append(q, e))) = Len(q)
<1> DEFINE a == Append(q, e)
<1>1. a \in Seq(T) /\ Len(a) = Len(q) + 1 /\ Len(q) \in Nat
  OBVIOUS
<1>2. a # <<>>
  BY <1>1
<1> HIDE DEF a
<1>3. Tail(a) \in Seq(T) /\ Len(Tail(a)) = Len(a) - 1
  BY <1>1, <1>2
<1> QED BY <1>1, <1>3 DEF a

\* An agent has at most three reports pending, by what has happened to it:
\* connected, disconnected, closed.
Reports ==
  /\ report \in [Agents -> Seq({"up", "down"})]
  /\ \A x \in Agents : /\ Len(report[x]) <= 3
                       /\ ice[x] \in {"free", "new"} => Len(report[x]) = 0
                       /\ ice[x] \in {"up", "failed"} => Len(report[x]) <= 1
                       /\ ice[x] = "lost" => Len(report[x]) <= 2

\* Every step keeps Reports: only the first Close of an agent makes a report.
LEMMA ReportsStep ==
  ASSUME Types, Reports, [Next]_vars
  PROVE  Reports'
<1> USE IceConnAssumption DEF Types, Reports, Alive, conn, worker, agents, watcher
<1>1. CASE OnRelayReady
  BY <1>1 DEF OnRelayReady, StartOrReset
<1>2. CASE OnRelayDisconnected
  BY <1>2 DEF OnRelayDisconnected, RelayDown, Disable
<1>3. CASE Close
  BY <1>3 DEF Close, CloseAgents, SetAgents
<1>4. ASSUME NEW s \in Offers, NEW x \in Agents, OnNewOffer(s, x) PROVE Reports'
  BY <1>4 DEF OnNewOffer, Free, CloseAgents
<1>5. ASSUME NEW s \in Offers, OfferFails(s) PROVE Reports'
  BY <1>5 DEF OfferFails, CloseAgents, SetAgents
<1>6. ASSUME NEW x \in Agents, IceConnects(x) \/ IceBreaks(x) PROVE Reports'
  <2>1. CASE IceConnects(x)
    BY <2>1 DEF IceConnects
  <2>2. CASE IceBreaks(x) /\ ice[x] = "new"
    BY <2>2 DEF IceBreaks
  <2>3. CASE IceBreaks(x) /\ ice[x] = "up"
    BY <2>3 DEF IceBreaks
  <2> QED BY <1>6, <2>1, <2>2, <2>3 DEF IceBreaks
<1>7. ASSUME NEW x \in Agents, DialReturns(x) PROVE Reports'
  BY <1>7 DEF DialReturns
<1>8. ASSUME NEW x \in Agents, ConnectFails(x) PROVE Reports'
  BY <1>8 DEF ConnectFails, ForgetAgent, CloseAgents, SetAgents
<1>9. ASSUME NEW x \in Agents, ConnectDone(x) PROVE Reports'
  BY <1>9 DEF ConnectDone
<1>10. ASSUME NEW x \in Agents, OnICEReady(x) PROVE Reports'
  BY <1>10 DEF OnICEReady, StartOrReset
<1>11. ASSUME NEW x \in Agents, ReportsUp(x) PROVE Reports'
  BY <1>11 DEF ReportsUp
<1>12. ASSUME NEW x \in Agents, ReportsDown(x) PROVE Reports'
  <2>1. report[x] # <<>> /\ ice' = CloseAgents({x}).ice
        /\ report' = [CloseAgents({x}).report EXCEPT ![x] = Tail(@)]
    BY <1>12 DEF ReportsDown
  <2>2. CASE Alive(x)
    <3>1. /\ ice' = [y \in Agents |-> IF y = x THEN "closed" ELSE ice[y]]
          /\ report' = [y \in Agents |-> IF y = x THEN Tail(Append(report[x], "down")) ELSE report[y]]
      BY <2>1, <2>2 DEF CloseAgents
    <3>2. /\ Tail(Append(report[x], "down")) \in Seq({"up", "down"})
          /\ Len(Tail(Append(report[x], "down"))) = Len(report[x])
      <4>1. report[x] \in Seq({"up", "down"}) /\ "down" \in {"up", "down"}
        OBVIOUS
      <4> HIDE DEF Reports, Types
      <4> QED BY <4>1, TailOfAppend
    <3> QED BY <3>1, <3>2
  <2>3. CASE ~Alive(x)
    BY <2>1, <2>3 DEF CloseAgents
  <2> QED BY <2>2, <2>3
<1>13. ASSUME NEW x \in Agents, OnICEDisconnected(x) PROVE Reports'
  BY <1>13 DEF OnICEDisconnected, Disable
<1>14. ASSUME NEW k \in Watchers, WatcherStarts(k) PROVE Reports'
  BY <1>14 DEF WatcherStarts
<1>15. ASSUME NEW k \in Watchers, WatcherResets(k) \/ WatcherStops(k) \/ HandshakeTimeout(k)
       PROVE Reports'
  BY <1>15 DEF WatcherResets, WatcherStops, HandshakeTimeout
<1>16. ASSUME NEW k \in Watchers, OnWGDisconnected(k) PROVE Reports'
  <2>1. CASE UNCHANGED <<ice, report>>
    BY <2>1
  <2>2. CASE SetAgents(CloseAgents({agent}))
    BY <2>2 DEF CloseAgents, SetAgents
  <2> QED BY <1>16, <2>1, <2>2 DEF OnWGDisconnected, CloseWorker
<1>17. ASSUME NEW k \in Watchers, WatcherLeaves(k) PROVE Reports'
  BY <1>17 DEF WatcherLeaves
<1>18. CASE UNCHANGED vars
  BY <1>18 DEF vars
<1>19. CASE RemoteICEStops
  <2>1. SetAgents(CloseAgents({agent}))
    BY <1>19 DEF RemoteICEStops, CloseWorker
  <2> QED BY <2>1 DEF CloseAgents, SetAgents
<1>20. CASE ListenEnds
  BY <1>20 DEF ListenEnds
<1>21. ASSUME NEW x \in Agents, LastKnown(x) PROVE Reports'
  BY <1>21 DEF LastKnown
<1> QED BY <1>1, <1>2, <1>3, <1>4, <1>5, <1>6, <1>7, <1>8, <1>9, <1>10, <1>11, <1>12,
           <1>13, <1>14, <1>15, <1>16, <1>17, <1>18, <1>19, <1>20, <1>21
        DEF Next, ConnectStep, ReportStep, WatcherStep

-----------------------------------------------------------------------------
\* The inductive invariant: each of the properties is inductive given the types,
\* ClosedIsQuiet given AgentsOwned.
Inv ==
  /\ Types /\ Reports
  /\ OneWatcher /\ AgentsOwned /\ InProgressBacked /\ ActiveIsConnected /\ ClosedIsQuiet

\* The inductive invariant holds in every reachable state.
LEMMA Invariant == Spec => []Inv
<1>1. Init => Inv
  <2> SUFFICES ASSUME Init PROVE Inv
    OBVIOUS
  <2>1. Types
    BY DEF Init, Types, Offers
  <2>2. Reports
    BY DEF Init, Reports
  <2>3. OneWatcher
    BY DEF Init, OneWatcher
  <2>4. AgentsOwned /\ InProgressBacked /\ ActiveIsConnected /\ ClosedIsQuiet
    BY DEF Init, AgentsOwned, Alive, InProgressBacked, ActiveIsConnected, ClosedIsQuiet
  <2> QED BY <2>1, <2>2, <2>3, <2>4 DEF Inv
<1>2. Inv /\ [Next]_vars => Inv'
  BY TypesStep, ReportsStep, OneWatcherStep, AgentsOwnedStep, InProgressBackedStep,
     ActiveIsConnectedStep, ClosedIsQuietStep
  DEF Inv
<1> QED BY <1>1, <1>2, PTL DEF Spec

\* The types of IceConn's variables, and no agent has more than three reports
\* pending: ThreadSafeAgent.Close makes a second Close silent.
THEOREM TypeCorrect == Spec => []TypeOK
<1>1. Inv => Types /\ report \in [Agents -> Seq({"up", "down"})]
             /\ \A x \in Agents : Len(report[x]) <= 3
  BY Zenon DEF Inv, Reports
<1>2. Inv => TypeOK
  BY <1>1, Zenon DEF Types, TypeOK
<1> QED BY <1>2, Invariant, PTL

\* However many goroutines enableWgWatcherIfNeeded starts, one at most is in the
\* watcher's loop, and IsEnabled says so.
THEOREM WatcherIsUnique == Spec => []OneWatcher
<1>1. Inv => OneWatcher
  BY DEF Inv
<1> QED BY <1>1, Invariant, PTL

\* No offer, failed attempt, report or time-out leaks an ICE agent.
THEOREM NoAgentLeaked == Spec => []AgentsOwned
<1>1. Inv => AgentsOwned
  BY DEF Inv
<1> QED BY <1>1, Invariant, PTL

\* InProgress speaks of an attempt of the agent the worker has.
THEOREM InProgressCorrect == Spec => []InProgressBacked
<1>1. Inv => InProgressBacked
  BY DEF Inv
<1> QED BY <1>1, Invariant, PTL

\* The callbacks of ICE, the relay and the watcher keep priority and status
\* together in every order.
THEOREM PriorityCorrect == Spec => []ActiveIsConnected
<1>1. Inv => ActiveIsConnected
  BY DEF Inv
<1> QED BY <1>1, Invariant, PTL

\* Nothing that was on its way when Conn.Close ran brings a transport or a watcher
\* back, and an agent that a late offer makes has a cancelled dialer.
THEOREM CloseIsFinal == Spec => []ClosedIsQuiet
<1>1. Inv => ClosedIsQuiet
  BY DEF Inv
<1> QED BY <1>1, Invariant, PTL
=============================================================================
