-------------------------- MODULE RelayHomeProofs --------------------------
(***************************************************************************)
(* Proof that no end of the home relay is forgotten and that reconnects do *)
(* not overlap, for any servers, lists, clients and guards; that the       *)
(* foreign clients it is composed with are those of ForeignRelays, which   *)
(* RelayCache implements; and that the home clients report as RelayReports *)
(* says, which RelayClient implements.                                     *)
(***************************************************************************)
EXTENDS RelayHome, TLAPS

\* A client that was picked and not stored yet has no listener: it is up, its end
\* is owed, or was reported to nobody.
Unheard(c) == ~lsn[c] /\ (up[c] \/ c \in missed \/ owed[c] > 0)

\* Each such client has one holder: Serve, a guard or the channel.
Pending ==
  /\ serve = "store" => picked # None
  /\ picked # None => Unheard(picked) /\ picked # newClient
  /\ newClient # None => Unheard(newClient)
  /\ \A g \in Guards :
       /\ guard[g] \in {"drain", "send"} => gNew[g] # None
       /\ gNew[g] # None => /\ Unheard(gNew[g])
                            /\ gNew[g] \notin {picked, newClient}
                            /\ \A h \in Guards : gNew[h] = gNew[g] => h = g

\* The home client has its listener.
HomeListens == home # None => lsn[home]

\* A client that connected, or is about to again, has an address.
Named ==
  /\ \A c \in Clients : up[c] \/ owed[c] > 0 => url[c] \in Servers
  /\ \A g \in Guards : guard[g] \in {"quick", "wait"} => gOld[g] \in Clients
  /\ \A g \in Guards : guard[g] = "wait" => url[gOld[g]] \in Servers

\* Unless a foreign client's end was taken for the home relay's: the home client
\* has one connection, one end on its way, one event or one reconnect at a time.
\* A client that was replaced is done, and nobody reconnects one that was.
OneAtATime ==
  /\ \A c \in Clients : owed[c] <= 1 /\ (up[c] => owed[c] = 0)
  /\ \A c \in Clients : lsn[c] /\ c # home => ~up[c] /\ owed[c] = 0
  /\ \A s \in event : home # None /\ s = url[home]
  /\ home # None /\ (up[home] \/ owed[home] > 0) => event = {}
  /\ event # {} \/ (home # None /\ (up[home] \/ owed[home] > 0)) =>
       Working = {} /\ newClient = None
  /\ Working # {} => newClient = None
  /\ \A g, h \in Working : g = h

\* The goroutines' places: a guard at work has the home client or the new one,
\* and starts after Serve.
Places ==
  /\ \A g \in Guards : gNew[g] # None => guard[g] \in {"drain", "send"}
  /\ \A g \in Guards : guard[g] \in {"quick", "wait"} => gOld[g] = home /\ home # None
  /\ serve # "done" => home = None /\ Working = {} /\ newClient = None /\ event = {}
  /\ serve # "store" => picked = None

\* The connected clients that nobody has are the late ones.
NoStray == \A c \in Clients : c \in late <=> up[c] /\ ~Taken(c)

Orderly == ~twin => OneAtATime /\ Places /\ NoStray

Inv == TypeOK /\ Named /\ Pending /\ HomeListens /\ HomeEndHandled /\ Orderly

\* Every step keeps the types.
LEMMA TypeStep ==
  ASSUME TypeOK, Named, [Next]_vars
  PROVE  TypeOK'
<1> USE RelayHomeAssumption DEF TypeOK, picker, clients, guards, foreign
<1>1. ASSUME NEW c \in Clients, Drop(c) PROVE TypeOK'
  BY <1>1 DEF Drop
<1>2. ASSUME NEW c \in Clients, Tell(c) PROVE TypeOK'
  BY <1>2 DEF Tell, Named
<1>3. ASSUME NEW s \in Servers, ServerDisconnected(s) PROVE TypeOK'
  BY <1>3 DEF ServerDisconnected, StartReconnectTrys
<1>4. ASSUME NEW c \in Clients, ServePicks(c) PROVE TypeOK'
  BY <1>4 DEF ServePicks, PickServer, StartConnection, Pointed
<1>5. CASE ServeFails
  BY <1>5 DEF ServeFails
<1>6. CASE ServeStores
  BY <1>6 DEF ServeStores, StoreClient
<1>7. CASE StoreNewClient
  BY <1>7 DEF StoreNewClient, StoreClient
<1>8. CASE Announce
  BY <1>8 DEF Announce
<1>9. ASSUME NEW l \in UrlLists, UpdateServerURLs(l) PROVE TypeOK'
  BY <1>9 DEF UpdateServerURLs
<1>10. ASSUME NEW g \in Guards, QuickFails(g) PROVE TypeOK'
  BY <1>10 DEF QuickFails
<1>11. ASSUME NEW g \in Guards, QuickReconnects(g) PROVE TypeOK'
  BY <1>11 DEF QuickReconnects
<1>12. ASSUME NEW g \in Guards, NotifyReconnected(g) PROVE TypeOK'
  BY <1>12 DEF NotifyReconnected
<1>13. ASSUME NEW g \in Guards, NEW c \in Clients, RetryPicks(g, c) PROVE TypeOK'
  BY <1>13 DEF RetryPicks, PickServer, StartConnection, Pointed
<1>14. ASSUME NEW g \in Guards, RetryDrains(g) PROVE TypeOK'
  BY <1>14 DEF RetryDrains
<1>15. ASSUME NEW g \in Guards, RetrySends(g) PROVE TypeOK'
  BY <1>15 DEF RetrySends
<1>16. ASSUME NEW c \in ForeignClients, (\E s \in Foreign : OpenConn(c, s)) \/ ForeignEnds(c)
      PROVE  TypeOK'
  BY <1>16 DEF OpenConn, ForeignEnds, Cache!Open, Cache!End, Cache!Vanish
<1>17. ASSUME NEW c \in ForeignClients, ForeignDisconnected(c) PROVE TypeOK'
  <2>1. /\ UNCHANGED <<urls, late, url, up, owed, lsn, missed, home, serve, picked, event>>
        /\ UNCHANGED <<gNew, newClient, reconnected, unannounced>>
        /\ cached' = [cached EXCEPT ![c] = None]
        /\ ended' = ended \ {c}
    BY <1>17 DEF ForeignDisconnected, Cache!Disconnected
  <2>2. CASE UNCHANGED <<guard, gOld, twin>>
    BY <2>1, <2>2
  <2>3. CASE StartReconnectTrys /\ twin' = TRUE
    BY <2>1, <2>3 DEF StartReconnectTrys
  <2> QED BY <1>17, <2>2, <2>3 DEF ForeignDisconnected
<1>18. ASSUME NEW g \in Guards, QuickWaits(g) PROVE TypeOK'
  BY <1>18 DEF QuickWaits
<1>19. ASSUME NEW g \in Guards, NEW c \in Clients, LateWinner(g, c) PROVE TypeOK'
  BY <1>19 DEF LateWinner, StartConnection, Pointed
<1>20. CASE UNCHANGED vars
  BY <1>20 DEF vars
<1> QED BY <1>1, <1>2, <1>3, <1>4, <1>5, <1>6, <1>7, <1>8, <1>9, <1>10, <1>11, <1>12,
           <1>13, <1>14, <1>15, <1>16, <1>17, <1>18, <1>19, <1>20 DEF Next, GuardStep

\* Every step keeps Named.
LEMMA NamedStep ==
  ASSUME TypeOK, Named, [Next]_vars
  PROVE  Named'
<1> USE RelayHomeAssumption DEF TypeOK, Named, picker, clients, guards, foreign
<1>1. ASSUME NEW c \in Clients, Drop(c) PROVE Named'
  BY <1>1 DEF Drop
<1>2. ASSUME NEW c \in Clients, Tell(c) PROVE Named'
  BY <1>2 DEF Tell
<1>3. ASSUME NEW s \in Servers, ServerDisconnected(s) PROVE Named'
  BY <1>3 DEF ServerDisconnected, StartReconnectTrys
<1>4. ASSUME NEW c \in Clients, ServePicks(c) PROVE Named'
  BY <1>4 DEF ServePicks, PickServer, StartConnection, Pointed
<1>5. CASE ServeFails
  BY <1>5 DEF ServeFails
<1>6. CASE ServeStores
  BY <1>6 DEF ServeStores, StoreClient
<1>7. CASE StoreNewClient
  BY <1>7 DEF StoreNewClient, StoreClient
<1>8. CASE Announce
  BY <1>8 DEF Announce
<1>9. ASSUME NEW l \in UrlLists, UpdateServerURLs(l) PROVE Named'
  BY <1>9 DEF UpdateServerURLs
<1>10. ASSUME NEW g \in Guards, QuickFails(g) PROVE Named'
  BY <1>10 DEF QuickFails
<1>11. ASSUME NEW g \in Guards, QuickReconnects(g) PROVE Named'
  BY <1>11 DEF QuickReconnects
<1>12. ASSUME NEW g \in Guards, NotifyReconnected(g) PROVE Named'
  BY <1>12 DEF NotifyReconnected
<1>13. ASSUME NEW g \in Guards, NEW c \in Clients, RetryPicks(g, c) PROVE Named'
  BY <1>13 DEF RetryPicks, PickServer, StartConnection, Pointed
<1>14. ASSUME NEW g \in Guards, RetryDrains(g) PROVE Named'
  BY <1>14 DEF RetryDrains
<1>15. ASSUME NEW g \in Guards, RetrySends(g) PROVE Named'
  BY <1>15 DEF RetrySends
<1>16. ASSUME NEW c \in ForeignClients, (\E s \in Foreign : OpenConn(c, s)) \/ ForeignEnds(c)
      PROVE  Named'
  BY <1>16 DEF OpenConn, ForeignEnds
<1>17. ASSUME NEW c \in ForeignClients, ForeignDisconnected(c) PROVE Named'
  BY <1>17 DEF ForeignDisconnected, StartReconnectTrys
<1>18. ASSUME NEW g \in Guards, QuickWaits(g) PROVE Named'
  BY <1>18 DEF QuickWaits
<1>19. ASSUME NEW g \in Guards, NEW c \in Clients, LateWinner(g, c) PROVE Named'
  BY <1>19 DEF LateWinner, StartConnection, Pointed
<1>20. CASE UNCHANGED vars
  BY <1>20 DEF vars
<1> QED BY <1>1, <1>2, <1>3, <1>4, <1>5, <1>6, <1>7, <1>8, <1>9, <1>10, <1>11, <1>12,
           <1>13, <1>14, <1>15, <1>16, <1>17, <1>18, <1>19, <1>20 DEF Next, GuardStep

\* Every step keeps Pending: PickServer makes a client nobody else points to.
LEMMA PendingStep ==
  ASSUME TypeOK, Pending, HomeListens, [Next]_vars
  PROVE  Pending'
<1> USE RelayHomeAssumption DEF TypeOK, Pending, Unheard, HomeListens, picker, clients, guards, foreign
<1>1. ASSUME NEW c \in Clients, Drop(c) PROVE Pending'
  BY <1>1 DEF Drop
<1>2. ASSUME NEW c \in Clients, Tell(c) PROVE Pending'
  BY <1>2 DEF Tell
<1>3. ASSUME NEW s \in Servers, ServerDisconnected(s) PROVE Pending'
  BY <1>3 DEF ServerDisconnected, StartReconnectTrys
<1>4. ASSUME NEW c \in Clients, ServePicks(c) PROVE Pending'
  BY <1>4 DEF ServePicks, PickServer, StartConnection, Pointed
<1>5. CASE ServeFails
  BY <1>5 DEF ServeFails
<1>6. CASE ServeStores
  BY <1>6 DEF ServeStores, StoreClient
<1>7. CASE StoreNewClient
  BY <1>7 DEF StoreNewClient, StoreClient
<1>8. CASE Announce
  BY <1>8 DEF Announce
<1>9. ASSUME NEW l \in UrlLists, UpdateServerURLs(l) PROVE Pending'
  BY <1>9 DEF UpdateServerURLs
<1>10. ASSUME NEW g \in Guards, QuickFails(g) PROVE Pending'
  BY <1>10 DEF QuickFails
<1>11. ASSUME NEW g \in Guards, QuickReconnects(g) PROVE Pending'
  BY <1>11 DEF QuickReconnects
<1>12. ASSUME NEW g \in Guards, NotifyReconnected(g) PROVE Pending'
  BY <1>12 DEF NotifyReconnected
<1>13. ASSUME NEW g \in Guards, NEW c \in Clients, RetryPicks(g, c) PROVE Pending'
  BY <1>13 DEF RetryPicks, PickServer, StartConnection, Pointed
<1>14. ASSUME NEW g \in Guards, RetryDrains(g) PROVE Pending'
  BY <1>14 DEF RetryDrains
<1>15. ASSUME NEW g \in Guards, RetrySends(g) PROVE Pending'
  BY <1>15 DEF RetrySends
<1>16. ASSUME NEW c \in ForeignClients, (\E s \in Foreign : OpenConn(c, s)) \/ ForeignEnds(c)
      PROVE  Pending'
  BY <1>16 DEF OpenConn, ForeignEnds
<1>17. ASSUME NEW c \in ForeignClients, ForeignDisconnected(c) PROVE Pending'
  BY <1>17 DEF ForeignDisconnected, StartReconnectTrys
<1>18. ASSUME NEW g \in Guards, QuickWaits(g) PROVE Pending'
  BY <1>18 DEF QuickWaits
<1>19. ASSUME NEW g \in Guards, NEW c \in Clients, LateWinner(g, c) PROVE Pending'
  BY <1>19 DEF LateWinner, StartConnection, Pointed
<1>20. CASE UNCHANGED vars
  BY <1>20 DEF vars
<1> QED BY <1>1, <1>2, <1>3, <1>4, <1>5, <1>6, <1>7, <1>8, <1>9, <1>10, <1>11, <1>12,
           <1>13, <1>14, <1>15, <1>16, <1>17, <1>18, <1>19, <1>20 DEF Next, GuardStep

\* Every step keeps HomeListens.
LEMMA HomeListensStep ==
  ASSUME TypeOK, HomeListens, [Next]_vars
  PROVE  HomeListens'
<1> USE RelayHomeAssumption DEF TypeOK, HomeListens, picker, clients, guards, foreign
<1>1. ASSUME NEW c \in Clients, Drop(c) PROVE HomeListens'
  BY <1>1 DEF Drop
<1>2. ASSUME NEW c \in Clients, Tell(c) PROVE HomeListens'
  BY <1>2 DEF Tell
<1>3. ASSUME NEW s \in Servers, ServerDisconnected(s) PROVE HomeListens'
  BY <1>3 DEF ServerDisconnected, StartReconnectTrys
<1>4. ASSUME NEW c \in Clients, ServePicks(c) PROVE HomeListens'
  BY <1>4 DEF ServePicks, PickServer, StartConnection, Pointed
<1>5. CASE ServeFails
  BY <1>5 DEF ServeFails
<1>6. CASE ServeStores
  BY <1>6 DEF ServeStores, StoreClient
<1>7. CASE StoreNewClient
  BY <1>7 DEF StoreNewClient, StoreClient
<1>8. CASE Announce
  BY <1>8 DEF Announce
<1>9. ASSUME NEW l \in UrlLists, UpdateServerURLs(l) PROVE HomeListens'
  BY <1>9 DEF UpdateServerURLs
<1>10. ASSUME NEW g \in Guards, QuickFails(g) PROVE HomeListens'
  BY <1>10 DEF QuickFails
<1>11. ASSUME NEW g \in Guards, QuickReconnects(g) PROVE HomeListens'
  BY <1>11 DEF QuickReconnects
<1>12. ASSUME NEW g \in Guards, NotifyReconnected(g) PROVE HomeListens'
  BY <1>12 DEF NotifyReconnected
<1>13. ASSUME NEW g \in Guards, NEW c \in Clients, RetryPicks(g, c) PROVE HomeListens'
  BY <1>13 DEF RetryPicks, PickServer, StartConnection, Pointed
<1>14. ASSUME NEW g \in Guards, RetryDrains(g) PROVE HomeListens'
  BY <1>14 DEF RetryDrains
<1>15. ASSUME NEW g \in Guards, RetrySends(g) PROVE HomeListens'
  BY <1>15 DEF RetrySends
<1>16. ASSUME NEW c \in ForeignClients, (\E s \in Foreign : OpenConn(c, s)) \/ ForeignEnds(c)
      PROVE  HomeListens'
  BY <1>16 DEF OpenConn, ForeignEnds
<1>17. ASSUME NEW c \in ForeignClients, ForeignDisconnected(c) PROVE HomeListens'
  BY <1>17 DEF ForeignDisconnected, StartReconnectTrys
<1>18. ASSUME NEW g \in Guards, QuickWaits(g) PROVE HomeListens'
  BY <1>18 DEF QuickWaits
<1>19. ASSUME NEW g \in Guards, NEW c \in Clients, LateWinner(g, c) PROVE HomeListens'
  BY <1>19 DEF LateWinner, StartConnection, Pointed
<1>20. CASE UNCHANGED vars
  BY <1>20 DEF vars
<1> QED BY <1>1, <1>2, <1>3, <1>4, <1>5, <1>6, <1>7, <1>8, <1>9, <1>10, <1>11, <1>12,
           <1>13, <1>14, <1>15, <1>16, <1>17, <1>18, <1>19, <1>20 DEF Next, GuardStep

\* Every step keeps HomeEndHandled: an event leaves only to start a guard, and a
\* guard stops only when a client is up or in the channel.
LEMMA HomeEndStep ==
  ASSUME TypeOK, Pending, HomeListens, HomeEndHandled, [Next]_vars
  PROVE  HomeEndHandled'
<1> USE RelayHomeAssumption DEF TypeOK, Pending, Unheard, HomeListens, HomeEndHandled,
                                Reconnecting, picker, clients, guards, foreign
<1>1. ASSUME NEW c \in Clients, Drop(c) PROVE HomeEndHandled'
  BY <1>1 DEF Drop
<1>2. ASSUME NEW c \in Clients, Tell(c) PROVE HomeEndHandled'
  BY <1>2 DEF Tell
<1>3. ASSUME NEW s \in Servers, ServerDisconnected(s) PROVE HomeEndHandled'
  BY <1>3 DEF ServerDisconnected, StartReconnectTrys
<1>4. ASSUME NEW c \in Clients, ServePicks(c) PROVE HomeEndHandled'
  BY <1>4 DEF ServePicks, PickServer, StartConnection, Pointed
<1>5. CASE ServeFails
  BY <1>5 DEF ServeFails
<1>6. CASE ServeStores
  BY <1>6 DEF ServeStores, StoreClient
<1>7. CASE StoreNewClient
  BY <1>7 DEF StoreNewClient, StoreClient
<1>8. CASE Announce
  BY <1>8 DEF Announce
<1>9. ASSUME NEW l \in UrlLists, UpdateServerURLs(l) PROVE HomeEndHandled'
  BY <1>9 DEF UpdateServerURLs
<1>10. ASSUME NEW g \in Guards, QuickFails(g) PROVE HomeEndHandled'
  BY <1>10 DEF QuickFails
<1>11. ASSUME NEW g \in Guards, QuickReconnects(g) PROVE HomeEndHandled'
  BY <1>11 DEF QuickReconnects
<1>12. ASSUME NEW g \in Guards, NotifyReconnected(g) PROVE HomeEndHandled'
  BY <1>12 DEF NotifyReconnected
<1>13. ASSUME NEW g \in Guards, NEW c \in Clients, RetryPicks(g, c) PROVE HomeEndHandled'
  BY <1>13 DEF RetryPicks, PickServer, StartConnection, Pointed
<1>14. ASSUME NEW g \in Guards, RetryDrains(g) PROVE HomeEndHandled'
  BY <1>14 DEF RetryDrains
<1>15. ASSUME NEW g \in Guards, RetrySends(g) PROVE HomeEndHandled'
  BY <1>15 DEF RetrySends
<1>16. ASSUME NEW c \in ForeignClients, (\E s \in Foreign : OpenConn(c, s)) \/ ForeignEnds(c)
      PROVE  HomeEndHandled'
  BY <1>16 DEF OpenConn, ForeignEnds
<1>17. ASSUME NEW c \in ForeignClients, ForeignDisconnected(c) PROVE HomeEndHandled'
  BY <1>17 DEF ForeignDisconnected, StartReconnectTrys
<1>18. ASSUME NEW g \in Guards, QuickWaits(g) PROVE HomeEndHandled'
  BY <1>18 DEF QuickWaits
<1>19. ASSUME NEW g \in Guards, NEW c \in Clients, LateWinner(g, c) PROVE HomeEndHandled'
  BY <1>19 DEF LateWinner, StartConnection, Pointed
<1>20. CASE UNCHANGED vars
  BY <1>20 DEF vars
<1> QED BY <1>1, <1>2, <1>3, <1>4, <1>5, <1>6, <1>7, <1>8, <1>9, <1>10, <1>11, <1>12,
           <1>13, <1>14, <1>15, <1>16, <1>17, <1>18, <1>19, <1>20 DEF Next, GuardStep

\* Every step keeps OneAtATime, as long as no foreign client's end starts a
\* reconnect.
LEMMA OneAtATimeStep ==
  ASSUME TypeOK, ~twin', OneAtATime, Places, NoStray, [Next]_vars
  PROVE  OneAtATime'
<1> USE RelayHomeAssumption DEF TypeOK, Working, picker, clients, guards, foreign, OneAtATime, Places
<1>1. ASSUME NEW c \in Clients, Drop(c) PROVE OneAtATime'
  BY <1>1 DEF Drop
<1>2. ASSUME NEW c \in Clients, Tell(c) PROVE OneAtATime'
  BY <1>2 DEF Tell
<1>3. ASSUME NEW s \in Servers, ServerDisconnected(s) PROVE OneAtATime'
  BY <1>3 DEF ServerDisconnected, StartReconnectTrys
<1>4. ASSUME NEW c \in Clients, ServePicks(c) PROVE OneAtATime'
  BY <1>4 DEF ServePicks, PickServer, StartConnection, Pointed
<1>5. CASE ServeFails
  BY <1>5 DEF ServeFails
<1>6. CASE ServeStores
  BY <1>6 DEF ServeStores, StoreClient
<1>7. CASE StoreNewClient
  BY <1>7 DEF StoreNewClient, StoreClient
<1>8. CASE Announce
  BY <1>8 DEF Announce
<1>9. ASSUME NEW l \in UrlLists, UpdateServerURLs(l) PROVE OneAtATime'
  BY <1>9 DEF UpdateServerURLs
<1>10. ASSUME NEW g \in Guards, QuickFails(g) PROVE OneAtATime'
  BY <1>10 DEF QuickFails
<1>11. ASSUME NEW g \in Guards, QuickReconnects(g) PROVE OneAtATime'
  BY <1>11 DEF QuickReconnects
<1>12. ASSUME NEW g \in Guards, NotifyReconnected(g) PROVE OneAtATime'
  BY <1>12 DEF NotifyReconnected
<1>13. ASSUME NEW g \in Guards, NEW c \in Clients, RetryPicks(g, c) PROVE OneAtATime'
  BY <1>13 DEF RetryPicks, PickServer, StartConnection, Pointed
<1>14. ASSUME NEW g \in Guards, RetryDrains(g) PROVE OneAtATime'
  BY <1>14 DEF RetryDrains
<1>15. ASSUME NEW g \in Guards, RetrySends(g) PROVE OneAtATime'
  BY <1>15 DEF RetrySends
<1>16. ASSUME NEW c \in ForeignClients, (\E s \in Foreign : OpenConn(c, s)) \/ ForeignEnds(c)
      PROVE  OneAtATime'
  BY <1>16 DEF OpenConn, ForeignEnds
<1>17. ASSUME NEW c \in ForeignClients, ForeignDisconnected(c) PROVE OneAtATime'
  BY <1>17 DEF ForeignDisconnected
<1>18. ASSUME NEW g \in Guards, QuickWaits(g) PROVE OneAtATime'
  BY <1>18 DEF QuickWaits
<1>19. ASSUME NEW g \in Guards, NEW c \in Clients, LateWinner(g, c) PROVE OneAtATime'
  BY <1>19 DEF LateWinner, StartConnection, Pointed
<1>20. CASE UNCHANGED vars
  BY <1>20 DEF vars
<1> QED BY <1>1, <1>2, <1>3, <1>4, <1>5, <1>6, <1>7, <1>8, <1>9, <1>10, <1>11, <1>12,
           <1>13, <1>14, <1>15, <1>16, <1>17, <1>18, <1>19, <1>20 DEF Next, GuardStep

\* Every step keeps Places: while a guard is at work the home client stays.
LEMMA PlacesStep ==
  ASSUME TypeOK, ~twin', OneAtATime, Places, NoStray, [Next]_vars
  PROVE  Places'
<1> USE RelayHomeAssumption DEF TypeOK, Working, picker, clients, guards, foreign, OneAtATime, Places
<1>1. ASSUME NEW c \in Clients, Drop(c) PROVE Places'
  BY <1>1 DEF Drop
<1>2. ASSUME NEW c \in Clients, Tell(c) PROVE Places'
  BY <1>2 DEF Tell
<1>3. ASSUME NEW s \in Servers, ServerDisconnected(s) PROVE Places'
  BY <1>3 DEF ServerDisconnected, StartReconnectTrys
<1>4. ASSUME NEW c \in Clients, ServePicks(c) PROVE Places'
  BY <1>4 DEF ServePicks, PickServer, StartConnection, Pointed
<1>5. CASE ServeFails
  BY <1>5 DEF ServeFails
<1>6. CASE ServeStores
  BY <1>6 DEF ServeStores, StoreClient
<1>7. CASE StoreNewClient
  BY <1>7 DEF StoreNewClient, StoreClient
<1>8. CASE Announce
  BY <1>8 DEF Announce
<1>9. ASSUME NEW l \in UrlLists, UpdateServerURLs(l) PROVE Places'
  BY <1>9 DEF UpdateServerURLs
<1>10. ASSUME NEW g \in Guards, QuickFails(g) PROVE Places'
  BY <1>10 DEF QuickFails
<1>11. ASSUME NEW g \in Guards, QuickReconnects(g) PROVE Places'
  BY <1>11 DEF QuickReconnects
<1>12. ASSUME NEW g \in Guards, NotifyReconnected(g) PROVE Places'
  BY <1>12 DEF NotifyReconnected
<1>13. ASSUME NEW g \in Guards, NEW c \in Clients, RetryPicks(g, c) PROVE Places'
  BY <1>13 DEF RetryPicks, PickServer, StartConnection, Pointed
<1>14. ASSUME NEW g \in Guards, RetryDrains(g) PROVE Places'
  BY <1>14 DEF RetryDrains
<1>15. ASSUME NEW g \in Guards, RetrySends(g) PROVE Places'
  BY <1>15 DEF RetrySends
<1>16. ASSUME NEW c \in ForeignClients, (\E s \in Foreign : OpenConn(c, s)) \/ ForeignEnds(c)
      PROVE  Places'
  BY <1>16 DEF OpenConn, ForeignEnds
<1>17. ASSUME NEW c \in ForeignClients, ForeignDisconnected(c) PROVE Places'
  BY <1>17 DEF ForeignDisconnected
<1>18. ASSUME NEW g \in Guards, QuickWaits(g) PROVE Places'
  BY <1>18 DEF QuickWaits
<1>19. ASSUME NEW g \in Guards, NEW c \in Clients, LateWinner(g, c) PROVE Places'
  BY <1>19 DEF LateWinner, StartConnection, Pointed
<1>20. CASE UNCHANGED vars
  BY <1>20 DEF vars
<1> QED BY <1>1, <1>2, <1>3, <1>4, <1>5, <1>6, <1>7, <1>8, <1>9, <1>10, <1>11, <1>12,
           <1>13, <1>14, <1>15, <1>16, <1>17, <1>18, <1>19, <1>20 DEF Next, GuardStep

\* Every step keeps NoStray: what the channel is drained of is nothing.
LEMMA NoStrayStep ==
  ASSUME TypeOK, ~twin', OneAtATime, Places, NoStray, [Next]_vars
  PROVE  NoStray'
<1> USE RelayHomeAssumption DEF TypeOK, Working, picker, clients, guards, foreign, OneAtATime, Places, NoStray, Taken
<1>1. ASSUME NEW c \in Clients, Drop(c) PROVE NoStray'
  BY <1>1 DEF Drop
<1>2. ASSUME NEW c \in Clients, Tell(c) PROVE NoStray'
  BY <1>2 DEF Tell
<1>3. ASSUME NEW s \in Servers, ServerDisconnected(s) PROVE NoStray'
  BY <1>3 DEF ServerDisconnected, StartReconnectTrys
<1>4. ASSUME NEW c \in Clients, ServePicks(c) PROVE NoStray'
  BY <1>4 DEF ServePicks, PickServer, StartConnection, Pointed
<1>5. CASE ServeFails
  BY <1>5 DEF ServeFails
<1>6. CASE ServeStores
  BY <1>6 DEF ServeStores, StoreClient
<1>7. CASE StoreNewClient
  BY <1>7 DEF StoreNewClient, StoreClient
<1>8. CASE Announce
  BY <1>8 DEF Announce
<1>9. ASSUME NEW l \in UrlLists, UpdateServerURLs(l) PROVE NoStray'
  BY <1>9 DEF UpdateServerURLs
<1>10. ASSUME NEW g \in Guards, QuickFails(g) PROVE NoStray'
  BY <1>10 DEF QuickFails
<1>11. ASSUME NEW g \in Guards, QuickReconnects(g) PROVE NoStray'
  BY <1>11 DEF QuickReconnects
<1>12. ASSUME NEW g \in Guards, NotifyReconnected(g) PROVE NoStray'
  BY <1>12 DEF NotifyReconnected
<1>13. ASSUME NEW g \in Guards, NEW c \in Clients, RetryPicks(g, c) PROVE NoStray'
  BY <1>13 DEF RetryPicks, PickServer, StartConnection, Pointed
<1>14. ASSUME NEW g \in Guards, RetryDrains(g) PROVE NoStray'
  BY <1>14 DEF RetryDrains
<1>15. ASSUME NEW g \in Guards, RetrySends(g) PROVE NoStray'
  BY <1>15 DEF RetrySends
<1>16. ASSUME NEW c \in ForeignClients, (\E s \in Foreign : OpenConn(c, s)) \/ ForeignEnds(c)
      PROVE  NoStray'
  BY <1>16 DEF OpenConn, ForeignEnds
<1>17. ASSUME NEW c \in ForeignClients, ForeignDisconnected(c) PROVE NoStray'
  BY <1>17 DEF ForeignDisconnected
<1>18. ASSUME NEW g \in Guards, QuickWaits(g) PROVE NoStray'
  BY <1>18 DEF QuickWaits
<1>19. ASSUME NEW g \in Guards, NEW c \in Clients, LateWinner(g, c) PROVE NoStray'
  BY <1>19 DEF LateWinner, StartConnection, Pointed
<1>20. CASE UNCHANGED vars
  BY <1>20 DEF vars
<1> QED BY <1>1, <1>2, <1>3, <1>4, <1>5, <1>6, <1>7, <1>8, <1>9, <1>10, <1>11, <1>12,
           <1>13, <1>14, <1>15, <1>16, <1>17, <1>18, <1>19, <1>20 DEF Next, GuardStep

\* Every step keeps Orderly.
LEMMA OrderlyStep ==
  ASSUME TypeOK, Orderly, [Next]_vars
  PROVE  Orderly'
<1> SUFFICES ASSUME ~twin' PROVE OneAtATime' /\ Places' /\ NoStray'
  BY DEF Orderly
<1>1. ~twin
  <2>1. ASSUME NEW c \in ForeignClients, ForeignDisconnected(c) PROVE ~twin
    BY <2>1 DEF ForeignDisconnected
  <2>2. (\A c \in ForeignClients : ~ForeignDisconnected(c)) => UNCHANGED twin
    BY DEF Next, GuardStep, Drop, Tell, ServerDisconnected, ServePicks, ServeFails, ServeStores,
           StoreNewClient, Announce, UpdateServerURLs, QuickWaits, QuickFails, QuickReconnects,
           NotifyReconnected, RetryPicks, LateWinner, RetryDrains, RetrySends, OpenConn, ForeignEnds,
           foreign, vars
  <2> QED BY <2>1, <2>2
<1> QED BY <1>1, OneAtATimeStep, PlacesStep, NoStrayStep DEF Orderly

-----------------------------------------------------------------------------
\* The inductive invariant holds in every reachable state.
LEMMA Invariant == Spec => []Inv
<1>1. Init => Inv
  <2> SUFFICES ASSUME Init PROVE Inv
    OBVIOUS
  <2>1. TypeOK
    <3>1. owed \in [Clients -> 0..MaxOwed]
      BY RelayHomeAssumption DEF Init
    <3> QED BY <3>1, Zenon DEF Init, TypeOK
  <2>2. Named /\ Pending /\ HomeListens /\ HomeEndHandled
    BY DEF Init, Named, Pending, HomeListens, HomeEndHandled
  <2>3. OneAtATime /\ Places /\ NoStray
    BY DEF Init, OneAtATime, Places, NoStray, Taken, Working
  <2> QED BY <2>1, <2>2, <2>3 DEF Inv, Orderly
<1>2. Inv /\ [Next]_vars => Inv'
  BY TypeStep, NamedStep, PendingStep, HomeListensStep, HomeEndStep, OrderlyStep DEF Inv
<1> QED BY <1>1, <1>2, PTL DEF Spec

\* The types of RelayHome's variables.
THEOREM TypeCorrect == Spec => []TypeOK
<1>1. Inv => TypeOK
  BY DEF Inv
<1> QED BY <1>1, Invariant, PTL

\* However many reconnects, late events and new clients overlap, a home client
\* that is down has its end still coming or a reconnect at work, unless it ended
\* before storeClient gave it a listener.
THEOREM HomeEndNotLost == Spec => []HomeEndHandled
<1>1. Inv => HomeEndHandled
  BY DEF Inv
<1> QED BY <1>1, Invariant, PTL

\* Unless a foreign client's end is taken for the home relay's, at most one guard
\* reconnects at a time, the connected clients without a holder are the late
\* winners of PickServer, and only the home client's ends are handled.
THEOREM ReconnectsDoNotOverlap == Spec => []OneReconnectAtATime
<1>1. Inv => OneReconnectAtATime
  BY DEF Inv, TypeOK, Orderly, OneAtATime, NoStray, OneReconnectAtATime
<1> QED BY <1>1, Invariant, PTL

-----------------------------------------------------------------------------
\* A client that somebody has taken from PickServer has an address.
Addressed ==
  /\ \A c \in Clients : c \in {home, picked, newClient} => url[c] \in Servers
  /\ \A g \in Guards : gNew[g] # None => url[gNew[g]] \in Servers

\* Every step keeps Addressed.
LEMMA AddressedStep ==
  ASSUME TypeOK, Pending, Addressed, [Next]_vars
  PROVE  Addressed'
<1> USE RelayHomeAssumption DEF TypeOK, Addressed, picker, clients, guards, foreign
<1>1. ASSUME NEW c \in Clients, Drop(c) \/ Tell(c) PROVE Addressed'
  BY <1>1 DEF Drop, Tell
<1>2. ASSUME NEW s \in Servers, ServerDisconnected(s) PROVE Addressed'
  BY <1>2 DEF ServerDisconnected
<1>3. ASSUME NEW c \in Clients, ServePicks(c) PROVE Addressed'
  BY <1>3 DEF ServePicks, PickServer, StartConnection
<1>4. CASE ServeFails \/ Announce
  BY <1>4 DEF ServeFails, Announce
<1>5. CASE ServeStores
  BY <1>5 DEF ServeStores, StoreClient, Pending
<1>6. CASE StoreNewClient
  BY <1>6 DEF StoreNewClient, StoreClient
<1>7. ASSUME NEW l \in UrlLists, UpdateServerURLs(l) PROVE Addressed'
  BY <1>7 DEF UpdateServerURLs
<1>8. ASSUME NEW g \in Guards,
             QuickWaits(g) \/ QuickFails(g) \/ QuickReconnects(g) \/ NotifyReconnected(g)
      PROVE  Addressed'
  BY <1>8 DEF QuickWaits, QuickFails, QuickReconnects, NotifyReconnected
<1>9. ASSUME NEW g \in Guards, NEW c \in Clients, RetryPicks(g, c) \/ LateWinner(g, c)
      PROVE  Addressed'
  BY <1>9 DEF RetryPicks, LateWinner, PickServer, StartConnection
<1>10. ASSUME NEW g \in Guards, RetryDrains(g) \/ RetrySends(g) PROVE Addressed'
  BY <1>10 DEF RetryDrains, RetrySends
<1>11. ASSUME NEW c \in ForeignClients,
              (\E s \in Foreign : OpenConn(c, s)) \/ ForeignEnds(c) \/ ForeignDisconnected(c)
       PROVE  Addressed'
  BY <1>11 DEF OpenConn, ForeignEnds, ForeignDisconnected
<1>12. CASE UNCHANGED vars
  BY <1>12 DEF vars
<1> QED BY <1>1, <1>2, <1>3, <1>4, <1>5, <1>6, <1>7, <1>8, <1>9, <1>10, <1>11, <1>12
           DEF Next, GuardStep

\* The home relay's address changes only when a client is stored, and the
\* foreign clients only by the steps of ForeignRelays.
LEMMA CacheStep ==
  ASSUME TypeOK, Pending, Addressed, [Next]_vars
  PROVE  [Cache!Next]_<<HomeAddr, cached, ended>>
<1> USE RelayHomeAssumption DEF TypeOK, picker, clients, guards, foreign
<1> DEFINE Same == UNCHANGED <<HomeAddr, cached, ended>>
<1>1. ASSUME NEW c \in Clients, Drop(c) \/ Tell(c) PROVE Same
  BY <1>1 DEF Drop, Tell, HomeAddr
<1>2. ASSUME NEW s \in Servers, ServerDisconnected(s) PROVE Same
  BY <1>2 DEF ServerDisconnected, HomeAddr
<1>3. ASSUME NEW c \in Clients, ServePicks(c) PROVE Same
  BY <1>3 DEF ServePicks, PickServer, StartConnection, Pointed, HomeAddr
<1>4. ASSUME ServeFails \/ Announce PROVE Same
  BY <1>4 DEF ServeFails, Announce, HomeAddr
<1>5. ASSUME ServeStores \/ StoreNewClient PROVE Cache!Next
  <2>1. PICK c \in Clients : /\ c \in {picked, newClient}
                             /\ home' = c
                             /\ UNCHANGED <<url, cached, ended>>
    BY <1>5 DEF ServeStores, StoreNewClient, StoreClient, Pending
  <2>2. HomeAddr' \in Servers
    BY <2>1 DEF HomeAddr, Addressed
  <2> QED BY <2>1, <2>2 DEF Cache!Next, Cache!Move
<1>6. ASSUME NEW l \in UrlLists, UpdateServerURLs(l) PROVE Same
  BY <1>6 DEF UpdateServerURLs, HomeAddr
<1>7. ASSUME NEW g \in Guards,
             QuickWaits(g) \/ QuickFails(g) \/ QuickReconnects(g) \/ NotifyReconnected(g)
      PROVE  Same
  BY <1>7 DEF QuickWaits, QuickFails, QuickReconnects, NotifyReconnected, HomeAddr
<1>8. ASSUME NEW g \in Guards, NEW c \in Clients, RetryPicks(g, c) \/ LateWinner(g, c)
      PROVE  Same
  BY <1>8 DEF RetryPicks, LateWinner, PickServer, StartConnection, Pointed, HomeAddr
<1>9. ASSUME NEW g \in Guards, RetryDrains(g) \/ RetrySends(g) PROVE Same
  BY <1>9 DEF RetryDrains, RetrySends, HomeAddr
<1>10. ASSUME NEW c \in ForeignClients,
              (\E s \in Foreign : OpenConn(c, s)) \/ ForeignEnds(c) \/ ForeignDisconnected(c)
       PROVE  Cache!Next
  <2>1. UNCHANGED HomeAddr
    BY <1>10 DEF OpenConn, ForeignEnds, ForeignDisconnected, HomeAddr
  <2>2. Cache!Step(c)
    BY <1>10 DEF OpenConn, ForeignEnds, ForeignDisconnected, Cache!Step
  <2> QED BY <2>1, <2>2 DEF Cache!Next
<1>11. ASSUME UNCHANGED vars PROVE Same
  BY <1>11 DEF vars, HomeAddr
<1> QED BY <1>1, <1>2, <1>3, <1>4, <1>5, <1>6, <1>7, <1>8, <1>9, <1>10, <1>11
           DEF Next, GuardStep

\* The home relay's manager sees its foreign clients as ForeignRelays has them,
\* for any number of clients and addresses: a foreign client is opened only at
\* an address that is not the home relay's at that moment.
THEOREM ComposesForeignRelays == Spec => Cache!Spec
<1>1. Init => Cache!Init
  BY DEF Init, Cache!Init, HomeAddr
<1>2. Init => Addressed
  BY RelayHomeAssumption DEF Init, Addressed
<1>3. Inv /\ Addressed /\ [Next]_vars => Addressed'
  BY AddressedStep DEF Inv
<1>4. Inv /\ Addressed /\ [Next]_vars => [Cache!Next]_<<HomeAddr, cached, ended>>
  BY CacheStep DEF Inv
<1> QED BY <1>1, <1>2, <1>3, <1>4, Invariant, PTL DEF Spec, Cache!Spec

-----------------------------------------------------------------------------
\* A client of PickServer, as RelayReports has it.
Client(c) == INSTANCE RelayReports WITH up <- up[c], owed <- owed[c]

\* Every step of the manager leaves a client alone, or is one of its steps.
LEMMA ClientStep ==
  ASSUME TypeOK, Named, NEW c \in Clients, [Next]_vars
  PROVE  [Client(c)!Next]_<<up[c], owed[c]>>
<1> USE RelayHomeAssumption DEF TypeOK, clients
<1> DEFINE Same == UNCHANGED <<up[c], owed[c]>>
<1>1. ASSUME NEW d \in Clients, Drop(d) PROVE Same \/ Client(c)!End
  BY <1>1 DEF Drop, Client!End
<1>2. ASSUME NEW d \in Clients, Tell(d) PROVE Same \/ Client(c)!Tell
  BY <1>2 DEF Tell, Client!Tell
<1>3. ASSUME NEW d \in Clients, NEW s, StartConnection(d, s) PROVE Same \/ Client(c)!Connect
  <2>1. CASE c = d
    <3>1. ~up[c] /\ up[c]' = TRUE /\ owed[c]' = owed[c]
      BY <1>3, <2>1 DEF StartConnection
    <3> QED BY <3>1 DEF Client!Connect
  <2>2. CASE c # d
    BY <1>3, <2>2 DEF StartConnection
  <2> QED BY <2>1, <2>2
<1>4. ASSUME NEW g \in Guards, QuickReconnects(g) PROVE Same \/ Client(c)!Connect
  BY <1>4 DEF QuickReconnects, Named, Client!Connect
<1>5. ASSUME NEW g \in Guards,
             \/ QuickWaits(g) \/ QuickFails(g) \/ NotifyReconnected(g)
             \/ RetryDrains(g) \/ RetrySends(g)
      PROVE  Same
  BY <1>5 DEF QuickWaits, QuickFails, NotifyReconnected, RetryDrains, RetrySends
<1>6. ASSUME ServeFails \/ ServeStores \/ StoreNewClient \/ Announce PROVE Same
  BY <1>6 DEF ServeFails, ServeStores, StoreNewClient, Announce
<1>7. ASSUME NEW l \in UrlLists, UpdateServerURLs(l) PROVE Same
  BY <1>7 DEF UpdateServerURLs
<1>8. ASSUME NEW s \in Servers, ServerDisconnected(s) PROVE Same
  BY <1>8 DEF ServerDisconnected
<1>9. ASSUME NEW f \in ForeignClients,
             (\E s \in Foreign : OpenConn(f, s)) \/ ForeignEnds(f) \/ ForeignDisconnected(f)
      PROVE  Same
  BY <1>9 DEF OpenConn, ForeignEnds, ForeignDisconnected
<1>10. ASSUME UNCHANGED vars PROVE Same
  BY <1>10 DEF vars
<1>11. ASSUME NEW d \in Clients,
              ServePicks(d) \/ \E g \in Guards : RetryPicks(g, d) \/ LateWinner(g, d)
       PROVE  Same \/ Client(c)!Connect
  BY <1>3, <1>11 DEF ServePicks, RetryPicks, LateWinner, PickServer
<1> QED BY <1>1, <1>2, <1>4, <1>5, <1>6, <1>7, <1>8, <1>9, <1>10, <1>11
           DEF Next, GuardStep, Client!Next

\* The home relay's manager sees each of its clients connect, end and report as
\* RelayReports does, whatever guards hold a pointer to it.
THEOREM ClientsReport == ASSUME NEW c \in Clients PROVE Spec => Client(c)!Spec
<1>1. Init => Client(c)!Init
  BY DEF Init, Client!Init
<1>2. Inv /\ [Next]_vars => [Client(c)!Next]_<<up[c], owed[c]>>
  BY ClientStep DEF Inv
<1> QED BY <1>1, <1>2, Invariant, PTL DEF Spec, Client!Spec
=============================================================================
