----------------------------- MODULE RelayCache -----------------------------
(***************************************************************************)
(* shared/relay/client/manager.go: the clients of foreign relays, made and *)
(* shared by OpenConnChannel calls, evicted when they end, and closed by the*)
(* clean-up when unused.                                                   *)
(*                                                                         *)
(* The home relay (module RelayHome) is here its address: a call while it is*)
(* down returns an error and changes nothing.  A client is what RelayLink  *)
(* promises.  A RelayTrack is named by the client it is for.  relayClientMu*)
(* is read-locked by a whole OpenConnChannel call; relayClientsMutex and a *)
(* track's lock are modelled where they are held across a wait.            *)
(***************************************************************************)
EXTENDS Naturals

CONSTANTS
  Servers,  \* the addresses the home relay may have
  Foreign,  \* the addresses of the peers' relays
  Clients,  \* Client objects of openConnVia alive at once
  Openers,  \* OpenConnChannel calls and the connections they returned
  None

ASSUME RelayCacheAssumption == None \notin Foreign \cup Clients

VARIABLES
  homeAddr,  \* m.relayClient.connectionURL
  strayed,   \* history: a former home client's end removed the track of a foreign one
  url,       \* connectionURL of a client, None before NewClient
  up,        \* its serviceIsRunning
  owed,      \* the end of its connection is not reported yet
  lsn,       \* its onDisconnectListener is set
  event,     \* its onServerDisconnected: "none", "lock" or "evict"
  track,     \* m.relayClients
  rt,        \* a track: "none", "connecting" (locked), "failed", "ready", or
             \* "aged" (ready, and keepUnusedServerTime is over)
  cleaning,  \* the clean-up: "no", "waits" for relayClientsMutex, or "yes", it holds it
  todo,      \* the tracks it has yet to visit
  closeQ,    \* the clients it is closing
  reaped,    \* history: it removed a client whose eviction was on its way
  at,        \* where each OpenConnChannel is
  via,       \* the client it goes through
  locked     \* it holds the read lock of that client's track

homes == <<homeAddr, strayed>>
clients == <<url, up, owed, lsn>>
tracks == <<track, rt>>
clean == <<cleaning, todo, closeQ, reaped>>
opens == <<at, via, locked>>
vars == <<homes, clients, event, tracks, clean, opens>>

TypeOK ==
  /\ homeAddr \in Servers
  /\ strayed \in BOOLEAN
  /\ url \in [Clients -> Foreign \cup {None}]
  /\ up \in [Clients -> BOOLEAN]
  /\ owed \in [Clients -> BOOLEAN]
  /\ lsn \in [Clients -> BOOLEAN]
  /\ event \in [Clients -> {"none", "lock", "evict"}]
  /\ track \in [Foreign -> Clients \cup {None}]
  /\ rt \in [Clients -> {"none", "connecting", "failed", "ready", "aged"}]
  /\ cleaning \in {"no", "waits", "yes"}
  /\ todo \subseteq Foreign
  /\ closeQ \subseteq Clients
  /\ reaped \in BOOLEAN
  /\ at \in [Openers -> {"idle", "track", "connect", "listener", "deleting", "open", "opening", "failed", "held"}]
  /\ via \in [Openers -> Clients \cup {None}]
  /\ locked \in [Openers -> BOOLEAN]

Init ==
  /\ homeAddr \in Servers
  /\ strayed = FALSE
  /\ url = [c \in Clients |-> None]
  /\ up = [c \in Clients |-> FALSE]
  /\ owed = [c \in Clients |-> FALSE]
  /\ lsn = [c \in Clients |-> FALSE]
  /\ event = [c \in Clients |-> "none"]
  /\ track = [s \in Foreign |-> None]
  /\ rt = [c \in Clients |-> "none"]
  /\ cleaning = "no"
  /\ todo = {}
  /\ closeQ = {}
  /\ reaped = FALSE
  /\ at = [o \in Openers |-> "idle"]
  /\ via = [o \in Openers |-> None]
  /\ locked = [o \in Openers |-> FALSE]

-----------------------------------------------------------------------------
\* relayClientMu is read-locked.
Reading == \E o \in Openers : at[o] \notin {"idle", "held"}

\* relayClientsMutex is held, by the clean-up or by a reader waiting for a track.
TableBusy == cleaning = "yes" \/ \E o \in Openers : at[o] = "track"

\* A writer waits for it: sync.RWMutex lets no reader in.
WriterWaits == cleaning = "waits" \/ \E o \in Openers : at[o] = "deleting"

MutTrackBusy(c) == rt[c] = "connecting"

\* The track of c is locked, by its creator or by readers.
TrackBusy(c) ==
  \/ rt[c] = "connecting"
  \/ \E o \in Openers : locked[o] /\ via[o] = c

\* Nobody holds a pointer to the client and nothing comes of it any more.
Free(c) ==
  /\ ~up[c] /\ ~owed[c] /\ event[c] = "none" /\ c \notin closeQ
  /\ \A s \in Foreign : track[s] # c
  /\ \A o \in Openers : via[o] # c

\* HasConns
HasConns(c) == \E o \in Openers : via[o] = c /\ at[o] \in {"opening", "held"}

\* The end of a call without a connection, or of the connection.
Returned(o) ==
  /\ at' = [at EXCEPT ![o] = "idle"]
  /\ via' = [via EXCEPT ![o] = None]
  /\ locked' = [locked EXCEPT ![o] = FALSE]

-----------------------------------------------------------------------------
\* storeClient: the home relay moves to another server, once no call reads it.
HomeMoves(s) ==
  /\ ~Reading
  /\ homeAddr' = s
  /\ UNCHANGED <<strayed, clients, event, tracks, clean, opens>>

\* onServerDisconnected of a client that was the home client before.  Such clients
\* may still be connected when storeClient replaces them (RelayHome, twin), and
\* any number of their ends may have found another home address than their own
\* and wait for relayClientsMutex: evictForeignRelay, by the address.
FormerHomeEvicts(s) ==
  /\ ~TableBusy
  /\ track' = [track EXCEPT ![s] = None]
  /\ strayed' = (strayed \/ track[s] # None)
  /\ UNCHANGED <<homeAddr, clients, event, rt, clean, opens>>

\* The connection of a client ends: its conns are closed.
Cut(c) ==
  /\ up' = [up EXCEPT ![c] = FALSE]
  /\ owed' = [owed EXCEPT ![c] = TRUE]
  /\ at' = [o \in Openers |-> IF via[o] = c /\ at[o] = "opening" THEN "failed" ELSE
                              IF via[o] = c /\ at[o] = "held" THEN "idle" ELSE at[o]]
  /\ via' = [o \in Openers |-> IF via[o] = c /\ at[o] = "held" THEN None ELSE via[o]]
  /\ UNCHANGED locked

Drop(c) ==
  /\ up[c]
  /\ Cut(c)
  /\ UNCHANGED <<homes, url, lsn, event, tracks, clean>>

\* notifyDisconnected: go onServerDisconnected(connectionURL), if a listener
\* is set by now.
Tell(c) ==
  /\ owed[c]
  /\ owed' = [owed EXCEPT ![c] = FALSE]
  /\ event' = [event EXCEPT ![c] = IF lsn[c] THEN "lock" ELSE "none"]
  /\ UNCHANGED <<homes, url, up, lsn, tracks, clean, opens>>

\* onServerDisconnected, under relayClientMu: is it the home address? ...
ServerDisconnected(c) ==
  /\ event[c] = "lock"
  /\ ~Reading
  /\ event' = [event EXCEPT ![c] = IF url[c] = homeAddr THEN "none" ELSE "evict"]
  /\ UNCHANGED <<homes, clients, tracks, clean, opens>>

\* ... evictForeignRelay if not.  (What notifyOnDisconnectListeners calls next
\* changes nothing here.)
EvictForeignRelay(c) ==
  /\ event[c] = "evict"
  /\ ~TableBusy
  /\ track' = [track EXCEPT ![url[c]] = None]
  /\ event' = [event EXCEPT ![c] = "none"]
  /\ UNCHANGED <<homes, clients, rt, clean, opens>>

-----------------------------------------------------------------------------
\* openConnVia with a track in the table: wait for its lock, with
\* relayClientsMutex.
OpenCached(o, s) ==
  /\ at[o] = "idle"
  /\ s # homeAddr
  /\ cleaning # "yes"
  /\ ~WriterWaits
  /\ track[s] # None
  /\ at' = [at EXCEPT ![o] = "track"]
  /\ via' = [via EXCEPT ![o] = track[s]]
  /\ UNCHANGED <<homes, clients, event, tracks, clean, locked>>

MutTrackLocked(o) ==
  /\ at[o] = "track"
  /\ rt[via[o]] # "connecting"
  /\ IF rt[via[o]] = "failed"
       THEN UNCHANGED opens
       ELSE /\ at' = [at EXCEPT ![o] = "open"]
            /\ locked' = [locked EXCEPT ![o] = TRUE]
            /\ UNCHANGED via
  /\ UNCHANGED <<homes, clients, event, tracks, clean>>

TrackLocked(o) ==
  /\ at[o] = "track"
  /\ rt[via[o]] # "connecting"
  /\ IF rt[via[o]] = "failed"
       THEN Returned(o)
       ELSE /\ at' = [at EXCEPT ![o] = "open"]
            /\ locked' = [locked EXCEPT ![o] = TRUE]
            /\ UNCHANGED via
  /\ UNCHANGED <<homes, clients, event, tracks, clean>>

MutOpenForeign(o, s, c) ==
  /\ at[o] = "idle"
  /\ s # homeAddr
  /\ ~TableBusy
  /\ Free(c)
  /\ url' = [url EXCEPT ![c] = s]
  /\ lsn' = [lsn EXCEPT ![c] = FALSE]
  /\ track' = [track EXCEPT ![s] = c]
  /\ rt' = [rt EXCEPT ![c] = "connecting"]
  /\ at' = [at EXCEPT ![o] = "connect"]
  /\ via' = [via EXCEPT ![o] = c]
  /\ UNCHANGED <<homes, up, owed, event, clean, locked>>

\* Without one: a new track, locked, with a new client.
OpenForeign(o, s, c) ==
  /\ at[o] = "idle"
  /\ s # homeAddr
  /\ ~TableBusy
  /\ track[s] = None
  /\ Free(c)
  /\ url' = [url EXCEPT ![c] = s]
  /\ lsn' = [lsn EXCEPT ![c] = FALSE]
  /\ track' = [track EXCEPT ![s] = c]
  /\ rt' = [rt EXCEPT ![c] = "connecting"]
  /\ at' = [at EXCEPT ![o] = "connect"]
  /\ via' = [via EXCEPT ![o] = c]
  /\ UNCHANGED <<homes, up, owed, event, clean, locked>>

ForeignConnects(o) ==
  /\ at[o] = "connect"
  /\ up' = [up EXCEPT ![via[o]] = TRUE]
  /\ at' = [at EXCEPT ![o] = "listener"]
  /\ UNCHANGED <<homes, url, owed, lsn, event, tracks, clean, via, locked>>

\* SetOnDisconnectListener, and the track is unlocked.
ForeignReady(o) ==
  /\ at[o] = "listener"
  /\ lsn' = [lsn EXCEPT ![via[o]] = TRUE]
  /\ rt' = [rt EXCEPT ![via[o]] = "ready"]
  /\ at' = [at EXCEPT ![o] = "open"]
  /\ UNCHANGED <<homes, url, up, owed, event, track, clean, via, locked>>

\* The track is unlocked and the call waits for relayClientsMutex.
ForeignFails(o) ==
  /\ at[o] = "connect"
  /\ rt' = [rt EXCEPT ![via[o]] = "failed"]
  /\ at' = [at EXCEPT ![o] = "deleting"]
  /\ UNCHANGED <<homes, clients, event, track, clean, via, locked>>

\* The failed track is deleted: whatever is in its place by now.
DeleteTrack(o) ==
  /\ at[o] = "deleting"
  /\ ~TableBusy
  /\ track' = [track EXCEPT ![url[via[o]]] = None]
  /\ Returned(o)
  /\ UNCHANGED <<homes, clients, event, rt, clean>>

\* Client.OpenConnChannel: enter the connection ...
ConnStarts(o) ==
  /\ at[o] = "open"
  /\ IF up[via[o]]
       THEN at' = [at EXCEPT ![o] = "opening"] /\ UNCHANGED <<via, locked>>
       ELSE Returned(o)
  /\ UNCHANGED <<homes, clients, event, tracks, clean>>

\* ... and wait for the peer: it is online, ...
ConnReturns(o) ==
  /\ at[o] = "opening"
  /\ at' = [at EXCEPT ![o] = "held"]
  /\ locked' = [locked EXCEPT ![o] = FALSE]
  /\ UNCHANGED <<homes, clients, event, tracks, clean, via>>

\* ... or the wait fails.
ConnFails(o) ==
  /\ at[o] \in {"opening", "failed"}
  /\ Returned(o)
  /\ UNCHANGED <<homes, clients, event, tracks, clean>>

ConnCloses(o) ==
  /\ at[o] = "held"
  /\ Returned(o)
  /\ UNCHANGED <<homes, clients, event, tracks, clean>>

-----------------------------------------------------------------------------
\* keepUnusedServerTime, which only matters in the table.
TrackAges(c) ==
  /\ rt[c] = "ready"
  /\ \E s \in Foreign : track[s] = c
  /\ rt' = [rt EXCEPT ![c] = "aged"]
  /\ UNCHANGED <<homes, clients, event, track, clean, opens>>

\* cleanUpUnusedRelays takes relayClientsMutex ...
CleanUp ==
  /\ cleaning = "no"
  /\ cleaning' = "waits"
  /\ UNCHANGED <<homes, clients, event, tracks, todo, closeQ, reaped, opens>>

CleanUpLocks ==
  /\ cleaning = "waits"
  /\ ~TableBusy
  /\ cleaning' = "yes"
  /\ todo' = {s \in Foreign : track[s] # None}
  /\ UNCHANGED <<homes, clients, event, tracks, closeQ, reaped, opens>>

MutCleanUpLiveOnly(s) ==
  LET c == track[s] IN
  /\ cleaning = "yes"
  /\ s \in todo
  /\ ~TrackBusy(c)
  /\ todo' = todo \ {s}
  /\ IF rt[c] = "aged" /\ up[c] /\ ~HasConns(c)
       THEN /\ lsn' = [lsn EXCEPT ![c] = FALSE]
            /\ closeQ' = closeQ \cup {c}
            /\ track' = [track EXCEPT ![s] = None]
            /\ reaped' = (reaped \/ event[c] \in {"lock", "evict"})
       ELSE UNCHANGED <<lsn, closeQ, track, reaped>>
  /\ UNCHANGED <<homes, url, up, owed, event, rt, cleaning, opens>>

\* ... and visits each track under its lock: an old one without connections goes.
CleanUpVisits(s) ==
  LET c == track[s] IN
  /\ cleaning = "yes"
  /\ s \in todo
  /\ ~TrackBusy(c)
  /\ todo' = todo \ {s}
  /\ IF rt[c] = "aged" /\ ~HasConns(c)
       THEN /\ lsn' = [lsn EXCEPT ![c] = FALSE]
            /\ closeQ' = closeQ \cup {c}
            /\ track' = [track EXCEPT ![s] = None]
            /\ reaped' = (reaped \/ event[c] \in {"lock", "evict"})
       ELSE UNCHANGED <<lsn, closeQ, track, reaped>>
  /\ UNCHANGED <<homes, url, up, owed, event, rt, cleaning, opens>>

CleanUpEnds ==
  /\ cleaning = "yes"
  /\ todo = {}
  /\ cleaning' = "no"
  /\ UNCHANGED <<homes, clients, event, tracks, todo, closeQ, reaped, opens>>

\* The goroutine of the clean-up: Close.
CleanUpCloses(c) ==
  /\ c \in closeQ
  /\ closeQ' = closeQ \ {c}
  /\ IF up[c] THEN Cut(c) ELSE UNCHANGED <<up, owed, opens>>
  /\ UNCHANGED <<homes, url, lsn, event, tracks, cleaning, todo, reaped>>

-----------------------------------------------------------------------------
OpenStep(o) ==
  \/ TrackLocked(o) \/ ForeignConnects(o) \/ ForeignReady(o) \/ ForeignFails(o)
  \/ DeleteTrack(o)
  \/ ConnStarts(o) \/ ConnReturns(o) \/ ConnFails(o)

Next ==
  \/ CleanUp \/ CleanUpLocks \/ CleanUpEnds
  \/ \E c \in Clients :
       \/ Drop(c) \/ Tell(c)
       \/ ServerDisconnected(c) \/ EvictForeignRelay(c)
       \/ TrackAges(c) \/ CleanUpCloses(c)
  \/ \E s \in Servers : HomeMoves(s)
  \/ \E s \in Foreign : CleanUpVisits(s) \/ FormerHomeEvicts(s)
  \/ \E o \in Openers :
       \/ OpenStep(o) \/ ConnCloses(o)
       \/ \E s \in Foreign : OpenCached(o, s) \/ \E c \in Clients : OpenForeign(o, s, c)

Spec == Init /\ [][Next]_vars

\* Goroutines run, the clean-up ticks, and a writer that waits for
\* relayClientsMutex gets it.
FairSpec ==
  /\ Spec
  /\ \A c \in Clients : WF_vars(TrackAges(c))
  /\ \A o \in Openers : WF_vars(OpenStep(o)) /\ SF_vars(DeleteTrack(o))
  /\ WF_vars(CleanUp \/ CleanUpEnds \/ \E s \in Foreign : CleanUpVisits(s))
  /\ SF_vars(CleanUpLocks)

-----------------------------------------------------------------------------
\* The clean-up of unused relays closes no client under a call that found the
\* client in the cache: the caller holds the track's lock until HasConns sees
\* its connection.
CleanUpSparesUsed ==
  \A o \in Openers : locked[o] => via[o] \notin closeQ

\* A connected client is in the table, where the next call finds it and the
\* clean-up closes it, or it is being closed.  The exceptions are the two ends of
\* another client that evict it, since an eviction goes by the address: of a
\* client the clean-up has removed meanwhile, whose successor it is, and of a
\* former home client of the same address.
LiveClientTracked ==
  ~reaped /\ ~strayed => \A c \in Clients :
    up[c] /\ rt[c] \in {"ready", "aged"} => track[url[c]] = c \/ c \in closeQ

\* Every OpenConn returns, whatever it waits for: a track another call is
\* connecting, the clean-up, the table.
OpenCompletes ==
  \A o \in Openers : at[o] \notin {"idle", "held"} ~> at[o] \in {"idle", "held"}

\* A dead client does not stay in the cache, even if no eviction comes (its end
\* came before the listener was set, or was taken for the home relay's): the
\* clean-up finds it without connections, past every lock it waits for.
DeadClientLeavesCache ==
  \A c \in Clients :
    rt[c] \in {"ready", "aged"} /\ ~up[c] ~> \A s \in Foreign : track[s] # c

-----------------------------------------------------------------------------
\* A client that is being connected, is connected, or whose end has not yet
\* come to onServerDisconnected or is waiting there.
Alive(c) ==
  \/ up[c] \/ owed[c] \/ event[c] = "lock"
  \/ \E o \in Openers : via[o] = c /\ at[o] = "connect"

Addresses == [c \in Clients |-> IF Alive(c) THEN url[c] ELSE None]

Waiting == {c \in Clients : event[c] = "lock"}

\* What RelayHome sees of the cache.
View == INSTANCE ForeignRelays
  WITH Objects <- Clients, addr <- Addresses, ended <- Waiting

\* The cache implements ForeignRelays, which RelayHome is composed with: a
\* foreign client is made at another address than the home relay's and its end
\* is reported at most once, whatever is done meanwhile with its track.
ActsAsForeignRelays == View!Spec
=============================================================================
