-------------------------- MODULE RelayCacheProofs --------------------------
(***************************************************************************)
(* Proofs about RelayCache, for any addresses, clients and callers.        *)
(*                                                                         *)
(* Locking carries CleanUpSparesUsed: what a caller waits for is still in   *)
(* the table, because only holders of relayClientsMutex remove a track.    *)
(* Creators, Ends and Tracked carry LiveClientTracked: but for its two      *)
(* exceptions a track is evicted by its own client's end only.  Locking and *)
(* Connecting order the locks: who holds a track's waits for none.  To the  *)
(* home relay the cache is ForeignRelays, and its clients report as         *)
(* RelayReports says.                                                      *)
(***************************************************************************)
EXTENDS RelayCache, TLAPS

\* A call that has made its client and not yet finished with the track.
Creating(o) == at[o] \in {"connect", "listener", "deleting"}

\* A track is in the table under its client's address, and a client in the
\* table is not being closed; a call that waits for a track is about one in the
\* table, and the clean-up does not overlap such calls.
Locking ==
  /\ \A s \in Foreign : track[s] # None => url[track[s]] = s /\ track[s] \notin closeQ
  /\ \A o \in Openers : at[o] = "track" =>
       \E s \in Foreign : track[s] # None /\ via[o] = track[s]
  /\ cleaning = "yes" => /\ \A o \in Openers : at[o] # "track"
                         /\ \A s \in todo : track[s] # None
  /\ \A o \in Openers : locked[o] => at[o] \in {"open", "opening", "failed"} /\ via[o] \notin closeQ

\* A client has one creator; it has no listener yet, and nothing of it ended
\* that anybody heard of.
Creators ==
  /\ \A o, p \in Openers : Creating(o) /\ Creating(p) /\ via[o] = via[p] => o = p
  /\ \A o \in Openers : Creating(o) =>
       /\ via[o] \in Clients
       /\ url[via[o]] \in Foreign
       /\ ~lsn[via[o]]
       /\ event[via[o]] = "none"
       /\ rt[via[o]] = IF at[o] = "deleting" THEN "failed" ELSE "connecting"
       /\ at[o] = "connect" => ~up[via[o]] /\ ~owed[via[o]]

\* A client connects once: it is up, its end is owed, or its end is being
\* handled.
Ends ==
  \A c \in Clients : /\ owed[c] => ~up[c]
                     /\ event[c] # "none" => ~up[c] /\ ~owed[c]

\* Unless the clean-up removed a client whose eviction was on its way, or the end
\* of a former home client evicted a client of its address: the client is in the table as long as its creator is at work, and as long as
\* its end is, or will be, reported to evict it.
Tracked ==
  ~reaped /\ ~strayed =>
    /\ \A o \in Openers : Creating(o) => track[url[via[o]]] = via[o]
    /\ \A c \in Clients :
         /\ lsn[c] /\ (up[c] \/ owed[c]) => url[c] \in Foreign /\ track[url[c]] = c
         /\ event[c] \in {"lock", "evict"} => url[c] \in Foreign /\ track[url[c]] = c
         /\ up[c] /\ rt[c] \in {"ready", "aged"} =>
              url[c] \in Foreign /\ (track[url[c]] = c \/ c \in closeQ)

\* A track is locked for writing by its creator only, which is connecting.
Connecting ==
  \A c \in Clients : rt[c] = "connecting" =>
    \E o \in Openers : at[o] \in {"connect", "listener"} /\ via[o] = c

\* Every step keeps the types.
LEMMA TypeStep ==
  ASSUME TypeOK, Locking, [Next]_vars
  PROVE  TypeOK'
<1> USE RelayCacheAssumption DEF homes, TypeOK, clients, tracks, clean, opens
<1>1. ASSUME NEW s \in Servers, HomeMoves(s) PROVE TypeOK'
  BY <1>1 DEF HomeMoves
<1>2. ASSUME NEW c \in Clients, Drop(c) PROVE TypeOK'
  BY <1>2 DEF Drop, Cut
<1>3. ASSUME NEW c \in Clients, Tell(c) PROVE TypeOK'
  BY <1>3 DEF Tell
<1>4. ASSUME NEW c \in Clients, ServerDisconnected(c) PROVE TypeOK'
  BY <1>4 DEF ServerDisconnected
<1>5. ASSUME NEW c \in Clients, EvictForeignRelay(c) PROVE TypeOK'
  BY <1>5 DEF EvictForeignRelay
<1>6. ASSUME NEW s \in Foreign, FormerHomeEvicts(s) PROVE TypeOK'
  <2>1. strayed' \in BOOLEAN
    BY <1>6, Zenon DEF FormerHomeEvicts
  <2>2. /\ UNCHANGED <<homeAddr, clients, event, rt, clean, opens>>
        /\ track' = [track EXCEPT ![s] = None]
    BY <1>6 DEF FormerHomeEvicts
  <2> QED BY <2>1, <2>2
<1>7. ASSUME NEW o \in Openers, NEW s \in Foreign, OpenCached(o, s) PROVE TypeOK'
  BY <1>7 DEF OpenCached
<1>8. ASSUME NEW o \in Openers, TrackLocked(o) PROVE TypeOK'
  <2>1. UNCHANGED <<homeAddr, strayed, clients, event, tracks, clean>>
    BY <1>8 DEF TrackLocked
  <2>2. CASE Returned(o)
    BY <2>1, <2>2 DEF Returned
  <2>3. CASE /\ at' = [at EXCEPT ![o] = "open"]
             /\ locked' = [locked EXCEPT ![o] = TRUE]
             /\ UNCHANGED via
    BY <2>1, <2>3
  <2> QED BY <1>8, <2>2, <2>3 DEF TrackLocked
<1>9. ASSUME NEW o \in Openers, NEW s \in Foreign, NEW c \in Clients, OpenForeign(o, s, c)
      PROVE TypeOK'
  BY <1>9 DEF OpenForeign
<1>10. ASSUME NEW o \in Openers, ForeignConnects(o) PROVE TypeOK'
  BY <1>10 DEF ForeignConnects
<1>11. ASSUME NEW o \in Openers, ForeignReady(o) PROVE TypeOK'
  BY <1>11 DEF ForeignReady
<1>12. ASSUME NEW o \in Openers, ForeignFails(o) PROVE TypeOK'
  BY <1>12 DEF ForeignFails
<1>13. ASSUME NEW o \in Openers, DeleteTrack(o) PROVE TypeOK'
  BY <1>13 DEF DeleteTrack, Returned
<1>14. ASSUME NEW o \in Openers, ConnStarts(o) PROVE TypeOK'
  BY <1>14 DEF ConnStarts, Returned
<1>15. ASSUME NEW o \in Openers, ConnReturns(o) PROVE TypeOK'
  BY <1>15 DEF ConnReturns
<1>16. ASSUME NEW o \in Openers, ConnFails(o) \/ ConnCloses(o) PROVE TypeOK'
  BY <1>16 DEF ConnFails, ConnCloses, Returned
<1>17. ASSUME NEW c \in Clients, TrackAges(c) PROVE TypeOK'
  BY <1>17 DEF TrackAges
<1>18. CASE CleanUp \/ CleanUpLocks \/ CleanUpEnds
  BY <1>18 DEF CleanUp, CleanUpLocks, CleanUpEnds
<1>19. ASSUME NEW s \in Foreign, CleanUpVisits(s) PROVE TypeOK'
  <2>1. track[s] \in Clients
    BY <1>19 DEF CleanUpVisits, Locking
  <2>2. reaped' \in BOOLEAN
    BY <1>19, Zenon DEF CleanUpVisits
  <2>3. UNCHANGED <<homeAddr, strayed, url, up, owed, event, rt, cleaning, at, via, locked>>
    BY <1>19 DEF CleanUpVisits
  <2>4. /\ todo' \subseteq Foreign
        /\ lsn' = lsn \/ lsn' = [lsn EXCEPT ![track[s]] = FALSE]
        /\ closeQ' = closeQ \/ closeQ' = closeQ \cup {track[s]}
        /\ track' = track \/ track' = [track EXCEPT ![s] = None]
    BY <1>19 DEF CleanUpVisits
  <2> QED BY <2>1, <2>2, <2>3, <2>4
<1>20. ASSUME NEW c \in Clients, CleanUpCloses(c) PROVE TypeOK'
  <2>1. /\ UNCHANGED <<homeAddr, strayed, url, lsn, event, track, rt, cleaning, todo, reaped>>
        /\ closeQ' \subseteq Clients
    BY <1>20 DEF CleanUpCloses
  <2>2. CASE Cut(c)
    BY <2>1, <2>2 DEF Cut
  <2>3. CASE UNCHANGED <<up, owed, at, via, locked>>
    BY <2>1, <2>3
  <2> QED BY <1>20, <2>2, <2>3 DEF CleanUpCloses
<1>21. CASE UNCHANGED vars
  BY <1>21 DEF vars
<1> QED BY <1>1, <1>2, <1>3, <1>4, <1>5, <1>6, <1>7, <1>8, <1>9, <1>10, <1>11, <1>12,
           <1>13, <1>14, <1>15, <1>16, <1>17, <1>18, <1>19, <1>20, <1>21 DEF Next,
           OpenStep

\* Every step keeps Locking: a track leaves the table only with no call waiting
\* for it, and the clean-up closes only a client nobody has read-locked.
LEMMA LockingStep ==
  ASSUME TypeOK, Locking, [Next]_vars
  PROVE  Locking'
<1> USE RelayCacheAssumption DEF homes, TypeOK, Locking, clients, tracks, clean, opens
<1>1. ASSUME NEW s \in Servers, HomeMoves(s) PROVE Locking'
  BY <1>1 DEF HomeMoves
<1>2. ASSUME NEW c \in Clients, Drop(c) PROVE Locking'
  BY <1>2 DEF Drop, Cut
<1>3. ASSUME NEW c \in Clients, Tell(c) PROVE Locking'
  BY <1>3 DEF Tell
<1>4. ASSUME NEW c \in Clients, ServerDisconnected(c) PROVE Locking'
  BY <1>4 DEF ServerDisconnected
<1>5. ASSUME NEW c \in Clients, EvictForeignRelay(c) PROVE Locking'
  BY <1>5 DEF EvictForeignRelay, TableBusy
<1>6. ASSUME NEW s \in Foreign, FormerHomeEvicts(s) PROVE Locking'
  BY <1>6 DEF FormerHomeEvicts, TableBusy
<1>7. ASSUME NEW o \in Openers, NEW s \in Foreign, OpenCached(o, s) PROVE Locking'
  BY <1>7 DEF OpenCached, WriterWaits
<1>8. ASSUME NEW o \in Openers, TrackLocked(o) PROVE Locking'
  BY <1>8 DEF TrackLocked, Returned
<1>9. ASSUME NEW o \in Openers, NEW s \in Foreign, NEW c \in Clients, OpenForeign(o, s, c)
      PROVE Locking'
  BY <1>9 DEF OpenForeign, TableBusy, Free
<1>10. ASSUME NEW o \in Openers, ForeignConnects(o) PROVE Locking'
  BY <1>10 DEF ForeignConnects
<1>11. ASSUME NEW o \in Openers, ForeignReady(o) PROVE Locking'
  BY <1>11 DEF ForeignReady
<1>12. ASSUME NEW o \in Openers, ForeignFails(o) PROVE Locking'
  BY <1>12 DEF ForeignFails
<1>13. ASSUME NEW o \in Openers, DeleteTrack(o) PROVE Locking'
  BY <1>13 DEF DeleteTrack, Returned, TableBusy
<1>14. ASSUME NEW o \in Openers, ConnStarts(o) PROVE Locking'
  BY <1>14 DEF ConnStarts, Returned
<1>15. ASSUME NEW o \in Openers, ConnReturns(o) PROVE Locking'
  BY <1>15 DEF ConnReturns
<1>16. ASSUME NEW o \in Openers, ConnFails(o) \/ ConnCloses(o) PROVE Locking'
  BY <1>16 DEF ConnFails, ConnCloses, Returned
<1>17. ASSUME NEW c \in Clients, TrackAges(c) PROVE Locking'
  BY <1>17 DEF TrackAges
<1>18. CASE CleanUp \/ CleanUpLocks \/ CleanUpEnds
  BY <1>18 DEF CleanUp, CleanUpLocks, CleanUpEnds, TableBusy
<1>19. ASSUME NEW s \in Foreign, CleanUpVisits(s) PROVE Locking'
  BY <1>19 DEF CleanUpVisits, TrackBusy
<1>20. ASSUME NEW c \in Clients, CleanUpCloses(c) PROVE Locking'
  BY <1>20 DEF CleanUpCloses, Cut
<1>21. CASE UNCHANGED vars
  BY <1>21 DEF vars
<1> QED BY <1>1, <1>2, <1>3, <1>4, <1>5, <1>6, <1>7, <1>8, <1>9, <1>10, <1>11, <1>12,
           <1>13, <1>14, <1>15, <1>16, <1>17, <1>18, <1>19, <1>20, <1>21 DEF Next,
           OpenStep

\* Every step keeps Creators: a client nobody refers to is all that a new
\* creator takes.
LEMMA CreatorsStep ==
  ASSUME TypeOK, Creators, [Next]_vars
  PROVE  Creators'
<1> USE RelayCacheAssumption DEF homes, TypeOK, Creators, Creating, clients, tracks, clean, opens
<1>1. ASSUME NEW s \in Servers, HomeMoves(s) PROVE Creators'
  BY <1>1 DEF HomeMoves
<1>2. ASSUME NEW c \in Clients, Drop(c) PROVE Creators'
  BY <1>2 DEF Drop, Cut
<1>3. ASSUME NEW c \in Clients, Tell(c) PROVE Creators'
  BY <1>3 DEF Tell
<1>4. ASSUME NEW c \in Clients, ServerDisconnected(c) PROVE Creators'
  BY <1>4 DEF ServerDisconnected
<1>5. ASSUME NEW c \in Clients, EvictForeignRelay(c) PROVE Creators'
  BY <1>5 DEF EvictForeignRelay
<1>6. ASSUME NEW s \in Foreign, FormerHomeEvicts(s) PROVE Creators'
  BY <1>6 DEF FormerHomeEvicts
<1>7. ASSUME NEW o \in Openers, NEW s \in Foreign, OpenCached(o, s) PROVE Creators'
  BY <1>7 DEF OpenCached
<1>8. ASSUME NEW o \in Openers, TrackLocked(o) PROVE Creators'
  BY <1>8 DEF TrackLocked, Returned
<1>9. ASSUME NEW o \in Openers, NEW s \in Foreign, NEW c \in Clients, OpenForeign(o, s, c)
      PROVE Creators'
  BY <1>9 DEF OpenForeign, Free
<1>10. ASSUME NEW o \in Openers, ForeignConnects(o) PROVE Creators'
  BY <1>10 DEF ForeignConnects
<1>11. ASSUME NEW o \in Openers, ForeignReady(o) PROVE Creators'
  BY <1>11 DEF ForeignReady
<1>12. ASSUME NEW o \in Openers, ForeignFails(o) PROVE Creators'
  BY <1>12 DEF ForeignFails
<1>13. ASSUME NEW o \in Openers, DeleteTrack(o) PROVE Creators'
  BY <1>13 DEF DeleteTrack, Returned
<1>14. ASSUME NEW o \in Openers, ConnStarts(o) PROVE Creators'
  BY <1>14 DEF ConnStarts, Returned
<1>15. ASSUME NEW o \in Openers, ConnReturns(o) PROVE Creators'
  BY <1>15 DEF ConnReturns
<1>16. ASSUME NEW o \in Openers, ConnFails(o) \/ ConnCloses(o) PROVE Creators'
  BY <1>16 DEF ConnFails, ConnCloses, Returned
<1>17. ASSUME NEW c \in Clients, TrackAges(c) PROVE Creators'
  BY <1>17 DEF TrackAges
<1>18. CASE CleanUp \/ CleanUpLocks \/ CleanUpEnds
  BY <1>18 DEF CleanUp, CleanUpLocks, CleanUpEnds
<1>19. ASSUME NEW s \in Foreign, CleanUpVisits(s) PROVE Creators'
  BY <1>19 DEF CleanUpVisits
<1>20. ASSUME NEW c \in Clients, CleanUpCloses(c) PROVE Creators'
  BY <1>20 DEF CleanUpCloses, Cut
<1>21. CASE UNCHANGED vars
  BY <1>21 DEF vars
<1> QED BY <1>1, <1>2, <1>3, <1>4, <1>5, <1>6, <1>7, <1>8, <1>9, <1>10, <1>11, <1>12,
           <1>13, <1>14, <1>15, <1>16, <1>17, <1>18, <1>19, <1>20, <1>21 DEF Next,
           OpenStep

\* Every step keeps Ends: Connect of a client is called once, by its creator.
LEMMA EndsStep ==
  ASSUME TypeOK, Creators, Ends, [Next]_vars
  PROVE  Ends'
<1> USE RelayCacheAssumption DEF homes, TypeOK, Ends, clients, tracks, clean, opens
<1>1. ASSUME NEW s \in Servers, HomeMoves(s) PROVE Ends'
  BY <1>1 DEF HomeMoves
<1>2. ASSUME NEW c \in Clients, Drop(c) PROVE Ends'
  BY <1>2 DEF Drop, Cut
<1>3. ASSUME NEW c \in Clients, Tell(c) PROVE Ends'
  BY <1>3 DEF Tell
<1>4. ASSUME NEW c \in Clients, ServerDisconnected(c) PROVE Ends'
  BY <1>4 DEF ServerDisconnected
<1>5. ASSUME NEW c \in Clients, EvictForeignRelay(c) PROVE Ends'
  BY <1>5 DEF EvictForeignRelay
<1>6. ASSUME NEW s \in Foreign, FormerHomeEvicts(s) PROVE Ends'
  BY <1>6 DEF FormerHomeEvicts
<1>7. ASSUME NEW o \in Openers, NEW s \in Foreign, OpenCached(o, s) PROVE Ends'
  BY <1>7 DEF OpenCached
<1>8. ASSUME NEW o \in Openers, TrackLocked(o) PROVE Ends'
  BY <1>8 DEF TrackLocked, Returned
<1>9. ASSUME NEW o \in Openers, NEW s \in Foreign, NEW c \in Clients, OpenForeign(o, s, c)
      PROVE Ends'
  BY <1>9 DEF OpenForeign, Free
<1>10. ASSUME NEW o \in Openers, ForeignConnects(o) PROVE Ends'
  BY <1>10 DEF ForeignConnects, Creators, Creating
<1>11. ASSUME NEW o \in Openers, ForeignReady(o) PROVE Ends'
  BY <1>11 DEF ForeignReady
<1>12. ASSUME NEW o \in Openers, ForeignFails(o) PROVE Ends'
  BY <1>12 DEF ForeignFails
<1>13. ASSUME NEW o \in Openers, DeleteTrack(o) PROVE Ends'
  BY <1>13 DEF DeleteTrack, Returned
<1>14. ASSUME NEW o \in Openers, ConnStarts(o) PROVE Ends'
  BY <1>14 DEF ConnStarts, Returned
<1>15. ASSUME NEW o \in Openers, ConnReturns(o) PROVE Ends'
  BY <1>15 DEF ConnReturns
<1>16. ASSUME NEW o \in Openers, ConnFails(o) \/ ConnCloses(o) PROVE Ends'
  BY <1>16 DEF ConnFails, ConnCloses, Returned
<1>17. ASSUME NEW c \in Clients, TrackAges(c) PROVE Ends'
  BY <1>17 DEF TrackAges
<1>18. CASE CleanUp \/ CleanUpLocks \/ CleanUpEnds
  BY <1>18 DEF CleanUp, CleanUpLocks, CleanUpEnds
<1>19. ASSUME NEW s \in Foreign, CleanUpVisits(s) PROVE Ends'
  BY <1>19 DEF CleanUpVisits
<1>20. ASSUME NEW c \in Clients, CleanUpCloses(c) PROVE Ends'
  BY <1>20 DEF CleanUpCloses, Cut
<1>21. CASE UNCHANGED vars
  BY <1>21 DEF vars
<1> QED BY <1>1, <1>2, <1>3, <1>4, <1>5, <1>6, <1>7, <1>8, <1>9, <1>10, <1>11, <1>12,
           <1>13, <1>14, <1>15, <1>16, <1>17, <1>18, <1>19, <1>20, <1>21 DEF Next,
           OpenStep

\* Every step keeps Tracked: by Ends and Creators the eviction removes the track
\* of the very client that ended.
LEMMA TrackedStep ==
  ASSUME TypeOK, Locking, Creators, Ends, Tracked, [Next]_vars
  PROVE  Tracked'
<1> USE RelayCacheAssumption DEF homes, TypeOK, Locking, Creators, Creating, Ends, Tracked,
                                 clients, tracks, clean, opens
<1>1. ASSUME NEW s \in Servers, HomeMoves(s) PROVE Tracked'
  BY <1>1 DEF HomeMoves
<1>2. ASSUME NEW c \in Clients, Drop(c) PROVE Tracked'
  BY <1>2 DEF Drop, Cut
<1>3. ASSUME NEW c \in Clients, Tell(c) PROVE Tracked'
  BY <1>3 DEF Tell
<1>4. ASSUME NEW c \in Clients, ServerDisconnected(c) PROVE Tracked'
  BY <1>4 DEF ServerDisconnected
<1>5. ASSUME NEW c \in Clients, EvictForeignRelay(c) PROVE Tracked'
  BY <1>5 DEF EvictForeignRelay
<1>6. ASSUME NEW s \in Foreign, FormerHomeEvicts(s) PROVE Tracked'
  <2> SUFFICES ASSUME ~strayed' PROVE Tracked'
    OBVIOUS
  <2>1. ~strayed /\ track[s] = None
    BY <1>6, Zenon DEF FormerHomeEvicts
  <2>2. track' = track
    BY <1>6, <2>1 DEF FormerHomeEvicts
  <2> QED BY <1>6, <2>1, <2>2 DEF FormerHomeEvicts
<1>7. ASSUME NEW o \in Openers, NEW s \in Foreign, OpenCached(o, s) PROVE Tracked'
  BY <1>7 DEF OpenCached
<1>8. ASSUME NEW o \in Openers, TrackLocked(o) PROVE Tracked'
  BY <1>8 DEF TrackLocked, Returned
<1>9. ASSUME NEW o \in Openers, NEW s \in Foreign, NEW c \in Clients, OpenForeign(o, s, c)
      PROVE Tracked'
  BY <1>9 DEF OpenForeign, Free
<1>10. ASSUME NEW o \in Openers, ForeignConnects(o) PROVE Tracked'
  BY <1>10 DEF ForeignConnects
<1>11. ASSUME NEW o \in Openers, ForeignReady(o) PROVE Tracked'
  BY <1>11 DEF ForeignReady
<1>12. ASSUME NEW o \in Openers, ForeignFails(o) PROVE Tracked'
  BY <1>12 DEF ForeignFails
<1>13. ASSUME NEW o \in Openers, DeleteTrack(o) PROVE Tracked'
  BY <1>13 DEF DeleteTrack, Returned
<1>14. ASSUME NEW o \in Openers, ConnStarts(o) PROVE Tracked'
  BY <1>14 DEF ConnStarts, Returned
<1>15. ASSUME NEW o \in Openers, ConnReturns(o) PROVE Tracked'
  BY <1>15 DEF ConnReturns
<1>16. ASSUME NEW o \in Openers, ConnFails(o) \/ ConnCloses(o) PROVE Tracked'
  BY <1>16 DEF ConnFails, ConnCloses, Returned
<1>17. ASSUME NEW c \in Clients, TrackAges(c) PROVE Tracked'
  BY <1>17 DEF TrackAges
<1>18. CASE CleanUp \/ CleanUpLocks \/ CleanUpEnds
  BY <1>18 DEF CleanUp, CleanUpLocks, CleanUpEnds
<1>19. ASSUME NEW s \in Foreign, CleanUpVisits(s) PROVE Tracked'
  <2> SUFFICES ASSUME ~reaped' PROVE Tracked'
    OBVIOUS
  <2>1. /\ UNCHANGED <<strayed, url, up, owed, event, rt, at, via>>
        /\ track[s] \in Clients /\ url[track[s]] = s
    BY <1>19 DEF CleanUpVisits
  <2>2. CASE UNCHANGED <<lsn, closeQ, track, reaped>>
    BY <2>1, <2>2
  <2>3. CASE /\ rt[track[s]] = "aged"
             /\ lsn' = [lsn EXCEPT ![track[s]] = FALSE]
             /\ closeQ' = closeQ \cup {track[s]}
             /\ track' = [track EXCEPT ![s] = None]
             /\ reaped' = (reaped \/ event[track[s]] \in {"lock", "evict"})
    <3>1. ~reaped /\ event[track[s]] \notin {"lock", "evict"}
      BY <2>3, Zenon
    <3> QED BY <2>1, <2>3, <3>1, SMTT(20)
  <2> QED BY <1>19, <2>2, <2>3 DEF CleanUpVisits
<1>20. ASSUME NEW c \in Clients, CleanUpCloses(c) PROVE Tracked'
  BY <1>20, SMTT(20) DEF CleanUpCloses, Cut
<1>21. CASE UNCHANGED vars
  BY <1>21 DEF vars
<1> QED BY <1>1, <1>2, <1>3, <1>4, <1>5, <1>6, <1>7, <1>8, <1>9, <1>10, <1>11, <1>12,
           <1>13, <1>14, <1>15, <1>16, <1>17, <1>18, <1>19, <1>20, <1>21 DEF Next,
           OpenStep

\* Every step keeps Connecting: the creator unlocks the track when it leaves.
LEMMA ConnectingStep ==
  ASSUME TypeOK, Connecting, [Next]_vars
  PROVE  Connecting'
<1> USE RelayCacheAssumption DEF homes, TypeOK, Connecting, clients, tracks, clean, opens
<1>1. ASSUME NEW s \in Servers, HomeMoves(s) PROVE Connecting'
  BY <1>1 DEF HomeMoves
<1>2. ASSUME NEW c \in Clients, Drop(c) PROVE Connecting'
  BY <1>2 DEF Drop, Cut
<1>3. ASSUME NEW c \in Clients, Tell(c) PROVE Connecting'
  BY <1>3 DEF Tell
<1>4. ASSUME NEW c \in Clients, ServerDisconnected(c) PROVE Connecting'
  BY <1>4 DEF ServerDisconnected
<1>5. ASSUME NEW c \in Clients, EvictForeignRelay(c) PROVE Connecting'
  BY <1>5 DEF EvictForeignRelay
<1>6. ASSUME NEW s \in Foreign, FormerHomeEvicts(s) PROVE Connecting'
  BY <1>6 DEF FormerHomeEvicts
<1>7. ASSUME NEW o \in Openers, NEW s \in Foreign, OpenCached(o, s) PROVE Connecting'
  BY <1>7 DEF OpenCached
<1>8. ASSUME NEW o \in Openers, TrackLocked(o) PROVE Connecting'
  BY <1>8 DEF TrackLocked, Returned
<1>9. ASSUME NEW o \in Openers, NEW s \in Foreign, NEW c \in Clients, OpenForeign(o, s, c)
      PROVE Connecting'
  BY <1>9 DEF OpenForeign, Free
<1>10. ASSUME NEW o \in Openers, ForeignConnects(o) PROVE Connecting'
  BY <1>10 DEF ForeignConnects
<1>11. ASSUME NEW o \in Openers, ForeignReady(o) PROVE Connecting'
  BY <1>11 DEF ForeignReady
<1>12. ASSUME NEW o \in Openers, ForeignFails(o) PROVE Connecting'
  BY <1>12 DEF ForeignFails
<1>13. ASSUME NEW o \in Openers, DeleteTrack(o) PROVE Connecting'
  BY <1>13 DEF DeleteTrack, Returned
<1>14. ASSUME NEW o \in Openers, ConnStarts(o) PROVE Connecting'
  BY <1>14 DEF ConnStarts, Returned
<1>15. ASSUME NEW o \in Openers, ConnReturns(o) PROVE Connecting'
  BY <1>15 DEF ConnReturns
<1>16. ASSUME NEW o \in Openers, ConnFails(o) \/ ConnCloses(o) PROVE Connecting'
  BY <1>16 DEF ConnFails, ConnCloses, Returned
<1>17. ASSUME NEW c \in Clients, TrackAges(c) PROVE Connecting'
  BY <1>17 DEF TrackAges
<1>18. CASE CleanUp \/ CleanUpLocks \/ CleanUpEnds
  BY <1>18 DEF CleanUp, CleanUpLocks, CleanUpEnds
<1>19. ASSUME NEW s \in Foreign, CleanUpVisits(s) PROVE Connecting'
  BY <1>19 DEF CleanUpVisits
<1>20. ASSUME NEW c \in Clients, CleanUpCloses(c) PROVE Connecting'
  BY <1>20 DEF CleanUpCloses, Cut
<1>21. CASE UNCHANGED vars
  BY <1>21 DEF vars
<1> QED BY <1>1, <1>2, <1>3, <1>4, <1>5, <1>6, <1>7, <1>8, <1>9, <1>10, <1>11, <1>12,
           <1>13, <1>14, <1>15, <1>16, <1>17, <1>18, <1>19, <1>20, <1>21 DEF Next,
           OpenStep

-----------------------------------------------------------------------------
\* The inductive invariant.
Inv == TypeOK /\ Locking /\ Creators /\ Ends /\ Tracked /\ Connecting

\* The inductive invariant holds in every reachable state.
LEMMA Invariant == Spec => []Inv
<1>1. Init => Inv
  <2> SUFFICES ASSUME Init PROVE Inv
    OBVIOUS
  <2>1. TypeOK
    BY DEF Init, TypeOK
  <2>2. Locking
    BY DEF Init, Locking
  <2>3. Creators /\ Ends /\ Tracked /\ Connecting
    BY DEF Init, Creators, Creating, Ends, Tracked, Connecting
  <2> QED BY <2>1, <2>2, <2>3 DEF Inv
<1>2. Inv /\ [Next]_vars => Inv'
  BY TypeStep, LockingStep, CreatorsStep, EndsStep, TrackedStep,
     ConnectingStep DEF Inv
<1> QED BY <1>1, <1>2, PTL DEF Spec

\* The types of RelayCache's variables; in particular the clean-up closes only
\* clients it found in the table.
THEOREM TypeCorrect == Spec => []TypeOK
<1>1. Inv => TypeOK
  BY DEF Inv
<1> QED BY <1>1, Invariant, PTL

\* For any number of calls, addresses and clients, the clean-up of unused relays
\* closes no client whose track a call has read-locked: the lock is passed on to
\* HasConns without a gap.
THEOREM CleanUpIsSafe == Spec => []CleanUpSparesUsed
<1>1. Inv => CleanUpSparesUsed
  BY DEF Inv, Locking, CleanUpSparesUsed
<1> QED BY <1>1, Invariant, PTL

\* No connected client is lost from the table, whatever evictions, failed
\* connects and clean-ups race, unless the clean-up has removed a client whose
\* eviction was on its way, or a former home client's end has evicted the client
\* that was cached for its address.
THEOREM ClientsTracked == Spec => []LiveClientTracked
<1>1. Inv => LiveClientTracked
  BY DEF Inv, Tracked, LiveClientTracked
<1> QED BY <1>1, Invariant, PTL

-----------------------------------------------------------------------------
\* A call that waits for none of the manager's locks.
Runs(o) == at[o] \in {"connect", "listener", "open", "opening", "failed"}

\* While a call or the clean-up is on its way, somebody does not wait: a call runs
\* or gets the track's lock it waits for, the clean-up gets the lock of each track
\* it has left, or relayClientsMutex is free for those that want it.
SomebodyRuns ==
  Reading \/ cleaning # "no" =>
    \/ \E o \in Openers : Runs(o) \/ (at[o] = "track" /\ rt[via[o]] # "connecting")
    \/ cleaning = "yes" /\ \A s \in todo : ~TrackBusy(track[s])
    \/ ~TableBusy

\* Who holds a track's lock waits for no other lock of the manager: a failed
\* creator has unlocked its track before it asks for relayClientsMutex, with which
\* others may be waiting for that track.
THEOREM TrackHoldersRun ==
  Spec => [](\A c \in Clients : TrackBusy(c) => \E o \in Openers : Runs(o) /\ via[o] = c)
<1>1. Inv => \A c \in Clients : TrackBusy(c) => \E o \in Openers : Runs(o) /\ via[o] = c
  BY DEF Inv, Locking, Connecting, TrackBusy, Runs
<1> QED BY <1>1, Invariant, PTL

\* The calls of OpenConn, the disconnect handlers and the clean-up never all wait
\* for one another on relayClientMu, relayClientsMutex and the tracks' locks,
\* whatever their number.
THEOREM NoLockCycle == Spec => []SomebodyRuns
<1>1. Inv => SomebodyRuns
  <2> SUFFICES ASSUME Inv, TableBusy,
                      \A o \in Openers : ~Runs(o) /\ (at[o] = "track" => rt[via[o]] = "connecting")
               PROVE  cleaning = "yes" /\ \A s \in todo : ~TrackBusy(track[s])
    BY DEF SomebodyRuns
  <2>1. \A c \in Clients : ~TrackBusy(c)
    BY DEF Inv, Locking, Connecting, TrackBusy, Runs
  <2>2. \A o \in Openers : at[o] = "track" => via[o] \in Clients
    BY RelayCacheAssumption DEF Inv, TypeOK, Locking
  <2>3. \A o \in Openers : at[o] # "track"
    BY <2>1, <2>2 DEF TrackBusy
  <2>4. cleaning = "yes"
    BY <2>3 DEF TableBusy
  <2>5. \A s \in todo : track[s] \in Clients
    BY <2>4 DEF Inv, TypeOK, Locking
  <2> QED BY <2>1, <2>4, <2>5
<1> QED BY <1>1, Invariant, PTL

-----------------------------------------------------------------------------
\* A client that is connected, or whose end is to be handled, has an address.
Named ==
  \A c \in Clients : up[c] \/ owed[c] \/ event[c] = "lock" => url[c] \in Foreign

\* Every step keeps Named.
LEMMA NamedStep ==
  ASSUME TypeOK, Creators, Named, [Next]_vars
  PROVE  Named'
<1> USE RelayCacheAssumption DEF homes, TypeOK, Named, clients, tracks, clean, opens
<1>1. ASSUME NEW s \in Servers, HomeMoves(s) PROVE Named'
  BY <1>1 DEF HomeMoves
<1>2. ASSUME NEW c \in Clients, Drop(c) PROVE Named'
  BY <1>2 DEF Drop, Cut
<1>3. ASSUME NEW c \in Clients, Tell(c) PROVE Named'
  BY <1>3 DEF Tell
<1>4. ASSUME NEW c \in Clients, ServerDisconnected(c) \/ EvictForeignRelay(c)
      PROVE  Named'
  BY <1>4 DEF ServerDisconnected, EvictForeignRelay
<1>5. ASSUME NEW o \in Openers, NEW s \in Foreign, OpenCached(o, s) PROVE Named'
  BY <1>5 DEF OpenCached
<1>6. ASSUME NEW o \in Openers, NEW s \in Foreign, NEW c \in Clients, OpenForeign(o, s, c)
      PROVE  Named'
  BY <1>6 DEF OpenForeign, Free
<1>7. ASSUME NEW o \in Openers, ForeignConnects(o) PROVE Named'
  BY <1>7 DEF ForeignConnects, Creators, Creating
<1>8. ASSUME NEW o \in Openers, ForeignReady(o) \/ ForeignFails(o) \/ DeleteTrack(o)
      PROVE  Named'
  BY <1>8 DEF ForeignReady, ForeignFails, DeleteTrack
<1>9. ASSUME NEW o \in Openers, TrackLocked(o) \/ ConnStarts(o) \/ ConnReturns(o) \/ ConnFails(o) \/ ConnCloses(o)
      PROVE  Named'
  BY <1>9 DEF TrackLocked, ConnStarts, ConnReturns, ConnFails, ConnCloses
<1>10. ASSUME NEW c \in Clients, TrackAges(c) PROVE Named'
  BY <1>10 DEF TrackAges
<1>11. ASSUME CleanUp \/ CleanUpLocks \/ CleanUpEnds PROVE Named'
  BY <1>11 DEF CleanUp, CleanUpLocks, CleanUpEnds
<1>12. ASSUME NEW s \in Foreign, CleanUpVisits(s) \/ FormerHomeEvicts(s) PROVE Named'
  BY <1>12 DEF CleanUpVisits, FormerHomeEvicts
<1>13. ASSUME NEW c \in Clients, CleanUpCloses(c) PROVE Named'
  BY <1>13 DEF CleanUpCloses, Cut
<1>14. ASSUME UNCHANGED vars PROVE Named'
  BY <1>14 DEF vars
<1> QED BY <1>1, <1>2, <1>3, <1>4, <1>5, <1>6, <1>7, <1>8, <1>9, <1>10, <1>11, <1>12, <1>13, <1>14
           DEF Next, OpenStep

\* A client without a connection, an end or a creator is no client to the home
\* relay, and one with it has the address it was made for.
LEMMA AddressOf ==
  ASSUME TypeOK, Creators, Named, NEW c \in Clients
  PROVE  /\ Addresses[c] = IF Alive(c) THEN url[c] ELSE None
         /\ Alive(c) => Addresses[c] # None
<1>1. Alive(c) => url[c] \in Foreign
  BY DEF Alive, Named, Creators, Creating
<1> QED BY <1>1, RelayCacheAssumption DEF Addresses

\* A step that keeps url, and keeps who is alive and who waits for the lock, does
\* not show.
LEMMA ViewKept ==
  ASSUME UNCHANGED <<homeAddr, url>>,
         \A c \in Clients : /\ Alive(c)' <=> Alive(c)
                            /\ (event[c] = "lock")' <=> event[c] = "lock"
  PROVE  UNCHANGED <<homeAddr, Addresses, Waiting>>
<1>1. Addresses' = Addresses
  BY DEF Addresses
<1>2. Waiting' = Waiting
  BY DEF Waiting
<1> QED BY <1>1, <1>2

\* The end of a client is reported, or it ended before its listener was set, or
\* after the clean-up had removed it.
LEMMA TellShows ==
  ASSUME TypeOK, Creators, Ends, Named, NEW c \in Clients, Tell(c)
  PROVE  View!End(c) \/ View!Vanish(c)
<1> USE DEF TypeOK
<1>1. /\ owed[c] /\ ~up[c] /\ event[c] = "none" /\ Alive(c)
      /\ ~\E o \in Openers : via[o] = c /\ at[o] = "connect"
  BY DEF Tell, Ends, Creators, Creating, Alive
<1>2. Addresses[c] # None /\ c \notin Waiting
  BY <1>1, AddressOf DEF Waiting
<1>3. /\ \A d \in Clients \ {c} : /\ Alive(d)' <=> Alive(d)
                                  /\ (event[d] = "lock")' <=> event[d] = "lock"
      /\ Alive(c)' <=> lsn[c]
      /\ (event[c] = "lock")' <=> lsn[c]
  BY <1>1 DEF Tell, Alive, opens
<1>4. CASE lsn[c]
  <2>1. Addresses' = Addresses
    BY <1>1, <1>3, <1>4 DEF Addresses, Tell
  <2>2. Waiting' = Waiting \cup {c}
    BY <1>3, <1>4 DEF Waiting
  <2> QED BY <1>2, <2>1, <2>2 DEF View!End
<1>5. CASE ~lsn[c]
  <2>1. Addresses' = [Addresses EXCEPT ![c] = None]
    BY <1>3, <1>5 DEF Addresses, Tell
  <2>2. Waiting' = Waiting
    BY <1>1, <1>3, <1>5 DEF Waiting
  <2> QED BY <1>2, <2>1, <2>2 DEF View!Vanish
<1> QED BY <1>4, <1>5

\* onServerDisconnected is done with the client once it has the lock.
LEMMA DisconnectedShows ==
  ASSUME TypeOK, Creators, Ends, NEW c \in Clients, ServerDisconnected(c)
  PROVE  View!Disconnected(c)
<1> USE DEF TypeOK
<1>1. /\ event[c] = "lock" /\ ~up[c] /\ ~owed[c]
      /\ ~\E o \in Openers : via[o] = c /\ at[o] = "connect"
  BY DEF ServerDisconnected, Ends, Creators, Creating
<1>2. /\ \A d \in Clients \ {c} : /\ Alive(d)' <=> Alive(d)
                                  /\ (event[d] = "lock")' <=> event[d] = "lock"
      /\ ~Alive(c)'
      /\ (event[c] # "lock")'
  BY <1>1 DEF ServerDisconnected, Alive, opens, clients
<1>3. Addresses' = [Addresses EXCEPT ![c] = None]
  BY <1>2 DEF Addresses, ServerDisconnected, clients
<1>4. c \in Waiting /\ Waiting' = Waiting \ {c}
  BY <1>1, <1>2 DEF Waiting
<1> QED BY <1>3, <1>4 DEF View!Disconnected

\* A new client: nothing of the one that had its place is left.
LEMMA OpenShows ==
  ASSUME TypeOK, NEW o \in Openers, NEW s \in Foreign, NEW c \in Clients, OpenForeign(o, s, c)
  PROVE  View!Open(c, s)
<1> USE DEF TypeOK
<1>1. ~Alive(c) /\ event[c] # "lock"
  BY DEF OpenForeign, Free, Alive
<1>2. Alive(c)' /\ url'[c] = s
  BY DEF OpenForeign, Alive
<1>3. \A d \in Clients \ {c} : (Alive(d)' <=> Alive(d)) /\ url'[d] = url[d]
  BY DEF OpenForeign, Alive
<1>4. Addresses' = [Addresses EXCEPT ![c] = s]
  BY <1>2, <1>3 DEF Addresses
<1>5. Waiting' = Waiting
  BY DEF Waiting, OpenForeign
<1>6. Addresses[c] = None /\ s # homeAddr
  BY <1>1 DEF Addresses, OpenForeign
<1> QED BY <1>4, <1>5, <1>6 DEF View!Open

\* A client that fails to connect goes without a report.
LEMMA FailShows ==
  ASSUME TypeOK, Creators, Named, NEW o \in Openers, ForeignFails(o)
  PROVE  \E c \in Clients : View!Vanish(c)
<1> USE DEF TypeOK
<1>1. PICK c \in Clients : c = via[o]
  BY DEF ForeignFails, Creators, Creating
<1>2. /\ ~up[c] /\ ~owed[c] /\ event[c] = "none" /\ Alive(c)
      /\ \A p \in Openers : via[p] = c /\ at[p] = "connect" => p = o
  BY <1>1 DEF ForeignFails, Creators, Creating, Alive
<1>3. /\ \A d \in Clients \ {c} : Alive(d)' <=> Alive(d)
      /\ ~Alive(c)'
  BY <1>1, <1>2 DEF ForeignFails, Alive, clients
<1>4. Addresses' = [Addresses EXCEPT ![c] = None]
  BY <1>3 DEF Addresses, ForeignFails, clients
<1>5. Waiting' = Waiting
  BY DEF Waiting, ForeignFails
<1>6. Addresses[c] # None /\ c \notin Waiting
  BY <1>2, AddressOf DEF Waiting
<1> QED BY <1>4, <1>5, <1>6 DEF View!Vanish

\* Nothing else shows: what becomes of the tracks, of their locks and of the
\* connections that go through a client.
LEMMA OthersKeepView ==
  ASSUME TypeOK, Creators, Named, [Next]_vars,
         \A c \in Clients : ~Tell(c) /\ ~ServerDisconnected(c),
         \A o \in Openers : ~ForeignFails(o),
         \A o \in Openers, s \in Foreign, c \in Clients : ~OpenForeign(o, s, c),
         \A s \in Servers : ~HomeMoves(s)
  PROVE  UNCHANGED <<homeAddr, Addresses, Waiting>>
<1> DEFINE Kept == /\ UNCHANGED <<homeAddr, url>>
                   /\ \A d \in Clients : /\ Alive(d)' <=> Alive(d)
                                         /\ (event[d] = "lock")' <=> event[d] = "lock"
<1> SUFFICES Kept
  BY ViewKept
<1> USE RelayCacheAssumption DEF homes, TypeOK, Alive, clients, tracks, clean, opens
<1>1. ASSUME NEW c \in Clients, Drop(c) PROVE Kept
  BY <1>1 DEF Drop, Cut
<1>2. ASSUME NEW c \in Clients, EvictForeignRelay(c) PROVE Kept
  BY <1>2 DEF EvictForeignRelay
<1>3. ASSUME NEW o \in Openers, NEW s \in Foreign, OpenCached(o, s) PROVE Kept
  BY <1>3 DEF OpenCached
<1>4. ASSUME NEW o \in Openers, TrackLocked(o) PROVE Kept
  BY <1>4 DEF TrackLocked, Returned
<1>5. ASSUME NEW o \in Openers, ForeignConnects(o) PROVE Kept
  BY <1>5 DEF ForeignConnects, Creators, Creating
<1>6. ASSUME NEW o \in Openers, ForeignReady(o) PROVE Kept
  BY <1>6 DEF ForeignReady
<1>7. ASSUME NEW o \in Openers, DeleteTrack(o) PROVE Kept
  BY <1>7 DEF DeleteTrack, Returned
<1>8. ASSUME NEW o \in Openers, ConnStarts(o) PROVE Kept
  BY <1>8 DEF ConnStarts, Returned
<1>9. ASSUME NEW o \in Openers, ConnReturns(o) PROVE Kept
  BY <1>9 DEF ConnReturns
<1>10. ASSUME NEW o \in Openers, ConnFails(o) \/ ConnCloses(o) PROVE Kept
  BY <1>10 DEF ConnFails, ConnCloses, Returned
<1>11. ASSUME NEW c \in Clients, TrackAges(c) PROVE Kept
  BY <1>11 DEF TrackAges
<1>12. ASSUME CleanUp \/ CleanUpLocks \/ CleanUpEnds PROVE Kept
  BY <1>12 DEF CleanUp, CleanUpLocks, CleanUpEnds
<1>13. ASSUME NEW s \in Foreign, CleanUpVisits(s) \/ FormerHomeEvicts(s) PROVE Kept
  BY <1>13 DEF CleanUpVisits, FormerHomeEvicts
<1>14. ASSUME NEW c \in Clients, CleanUpCloses(c) PROVE Kept
  BY <1>14 DEF CleanUpCloses, Cut
<1>15. ASSUME UNCHANGED vars PROVE Kept
  BY <1>15 DEF vars
<1> QED BY <1>1, <1>2, <1>3, <1>4, <1>5, <1>6, <1>7, <1>8, <1>9, <1>10, <1>11, <1>12,
           <1>13, <1>14, <1>15 DEF Next, OpenStep

\* Every step of the cache is a step of ForeignRelays or does not show.
LEMMA ViewStep ==
  ASSUME TypeOK, Creators, Ends, Named, [Next]_vars
  PROVE  [View!Next]_<<homeAddr, Addresses, Waiting>>
<1>1. ASSUME NEW c \in Clients, Tell(c) PROVE View!Next
  BY <1>1, TellShows DEF Tell, homes, View!Next, View!Step
<1>2. ASSUME NEW c \in Clients, ServerDisconnected(c) PROVE View!Next
  BY <1>2, DisconnectedShows DEF ServerDisconnected, homes, View!Next, View!Step
<1>3. ASSUME NEW o \in Openers, NEW s \in Foreign, NEW c \in Clients, OpenForeign(o, s, c)
      PROVE  View!Next
  BY <1>3, OpenShows DEF OpenForeign, homes, View!Next, View!Step
<1>4. ASSUME NEW o \in Openers, ForeignFails(o) PROVE View!Next
  BY <1>4, FailShows DEF ForeignFails, homes, View!Next, View!Step
<1>5. ASSUME NEW s \in Servers, HomeMoves(s) PROVE View!Next
  <2>1. homeAddr' \in Servers
    BY <1>5 DEF HomeMoves
  <2>2. Addresses' = Addresses /\ Waiting' = Waiting
    BY <1>5 DEF HomeMoves, Addresses, Waiting, Alive, clients, opens
  <2> QED BY <2>1, <2>2 DEF View!Next, View!Move
<1> QED BY <1>1, <1>2, <1>3, <1>4, <1>5, OthersKeepView

\* The cache is to the home relay what ForeignRelays says, for any number of
\* clients, addresses and calls: what RelayHome is checked and proved against
\* allows for everything the cache does.
THEOREM ImplementsForeignRelays == Spec => ActsAsForeignRelays
<1>1. Init => View!Init
  <2> SUFFICES ASSUME Init PROVE View!Init
    OBVIOUS
  <2>1. \A c \in Clients : ~Alive(c) /\ event[c] # "lock"
    BY DEF Init, Alive
  <2> QED BY <2>1 DEF Init, View!Init, Addresses, Waiting
<1>2. Init => Named
  BY DEF Init, Named
<1>3. Inv /\ Named /\ [Next]_vars => Named'
  BY NamedStep DEF Inv
<1>4. Inv /\ Named /\ [Next]_vars => [View!Next]_<<homeAddr, Addresses, Waiting>>
  BY ViewStep DEF Inv
<1> QED
  BY <1>1, <1>2, <1>3, <1>4, Invariant, PTL DEF Spec, ActsAsForeignRelays, View!Spec

-----------------------------------------------------------------------------
Owed(c) == IF owed[c] THEN 1 ELSE 0

\* A client of openConnVia, as RelayReports has it: it owes at most one report.
Client(c) == INSTANCE RelayReports WITH up <- up[c], owed <- Owed(c)

\* Every step of the manager leaves a client alone, or is one of its steps.
LEMMA ClientStep ==
  ASSUME TypeOK, Creators, Ends, NEW c \in Clients, [Next]_vars
  PROVE  [Client(c)!Next]_<<up[c], Owed(c)>>
<1> USE RelayCacheAssumption DEF homes, TypeOK, clients, tracks, clean, opens
<1> DEFINE Same == UNCHANGED <<up[c], Owed(c)>>
<1>1. ASSUME NEW d \in Clients, up[d], Cut(d) PROVE Same \/ Client(c)!End
  <2>1. CASE c = d
    <3>1. up[c] /\ Owed(c) = 0
      BY <1>1, <2>1 DEF Ends, Owed
    <3>2. up[c]' = FALSE /\ Owed(c)' = 1
      BY <1>1, <2>1 DEF Cut, Owed
    <3> QED BY <3>1, <3>2 DEF Client!End
  <2>2. CASE c # d
    BY <1>1, <2>2 DEF Cut, Owed
  <2> QED BY <2>1, <2>2
<1>2. ASSUME NEW d \in Clients, Drop(d) PROVE Same \/ Client(c)!End
  BY <1>1, <1>2 DEF Drop
<1>3. ASSUME NEW d \in Clients, CleanUpCloses(d) PROVE Same \/ Client(c)!End
  BY <1>1, <1>3 DEF CleanUpCloses, Owed
<1>4. ASSUME NEW d \in Clients, Tell(d) PROVE Same \/ Client(c)!Tell
  BY <1>4 DEF Tell, Owed, Client!Tell
<1>5. ASSUME NEW o \in Openers, ForeignConnects(o) PROVE Same \/ Client(c)!Connect
  BY <1>5 DEF ForeignConnects, Creators, Creating, Owed, Client!Connect
<1>6. ASSUME NEW d \in Clients,
             ServerDisconnected(d) \/ EvictForeignRelay(d) \/ TrackAges(d)
      PROVE  Same
  BY <1>6 DEF ServerDisconnected, EvictForeignRelay, TrackAges, Owed
<1>7. ASSUME NEW o \in Openers,
             \/ TrackLocked(o) \/ ForeignReady(o) \/ ForeignFails(o) \/ DeleteTrack(o)
             \/ ConnStarts(o) \/ ConnReturns(o) \/ ConnFails(o) \/ ConnCloses(o)
      PROVE  Same
  BY <1>7 DEF TrackLocked, ForeignReady, ForeignFails, DeleteTrack, ConnStarts,
              ConnReturns, ConnFails, ConnCloses, Owed
<1>8. ASSUME NEW o \in Openers, NEW s \in Foreign,
             OpenCached(o, s) \/ \E d \in Clients : OpenForeign(o, s, d)
      PROVE  Same
  BY <1>8 DEF OpenCached, OpenForeign, Owed
<1>9. ASSUME CleanUp \/ CleanUpLocks \/ CleanUpEnds PROVE Same
  BY <1>9 DEF CleanUp, CleanUpLocks, CleanUpEnds, Owed
<1>10. ASSUME NEW s \in Foreign, CleanUpVisits(s) \/ FormerHomeEvicts(s) PROVE Same
  BY <1>10 DEF CleanUpVisits, FormerHomeEvicts, Owed
<1>11. ASSUME NEW s \in Servers, HomeMoves(s) PROVE Same
  BY <1>11 DEF HomeMoves, Owed
<1>12. ASSUME UNCHANGED vars PROVE Same
  BY <1>12 DEF vars, Owed
<1> QED BY <1>2, <1>3, <1>4, <1>5, <1>6, <1>7, <1>8, <1>9, <1>10, <1>11, <1>12
           DEF Next, OpenStep, Client!Next

\* The cache sees each of its clients connect, end and report as RelayReports
\* does, whichever calls, evictions and clean-ups have a pointer to it.
THEOREM ClientsReport == ASSUME NEW c \in Clients PROVE Spec => Client(c)!Spec
<1>1. Init => Client(c)!Init
  BY DEF Init, Client!Init, Owed
<1>2. Inv /\ [Next]_vars => [Client(c)!Next]_<<up[c], Owed(c)>>
  BY ClientStep DEF Inv
<1> QED BY <1>1, <1>2, Invariant, PTL DEF Spec, Client!Spec
=============================================================================
