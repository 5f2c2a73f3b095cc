----------------------------- MODULE RelayHome -----------------------------
(***************************************************************************)
(* shared/relay/client/manager.go with guard.go and picker.go: the client   *)
(* of the home relay and its reconnection.                                  *)
(*                                                                         *)
(* A client is what RelayLink promises: it is up or not, and each end of a  *)
(* connection is reported once, to the listener it has at that moment.  The *)
(* cache of foreign relays (module RelayCache) is here what ForeignRelays   *)
(* says of it: the end of such a client runs the same onServerDisconnected, *)
(* which goes by the address.  The wait for relayClientMu, which an         *)
(* OpenConnChannel call holds for reading until it returns (RelayCache), is *)
(* a delay before the action.                                               *)
(***************************************************************************)
EXTENDS Naturals

CONSTANTS
  Servers,   \* relay addresses
  UrlLists,  \* the server lists the management may send (UpdateServerURLs)
  Clients,   \* Client objects of PickServer alive at once
  Guards,    \* StartReconnectTrys goroutines alive at once
  Foreign,   \* bound: the relays that are opened as foreign ones
  ForeignClients, \* their Client objects alive at once
  MaxOwed,   \* bound: ends of one client not yet reported
  None

ASSUME RelayHomeAssumption ==
  /\ UrlLists \subseteq SUBSET Servers
  /\ Foreign \subseteq Servers
  /\ MaxOwed \in Nat \ {0}
  /\ None \notin Servers \cup Clients

VARIABLES
  urls,         \* serverPicker.ServerURLs
  late,         \* the connected clients of PickServer calls that had timed out
  url,          \* connectionURL of a client, None before NewClient
  up,           \* its serviceIsRunning
  owed,         \* ends of its connections not reported yet
  lsn,          \* its onDisconnectListener is set
  missed,       \* history: its last end was reported to nobody
  home,         \* m.relayClient
  serve,        \* Serve: "start", "store" or "done"
  picked,       \* the client Serve picked
  event,        \* addresses for which onServerDisconnected waits for relayClientMu
                \* (bound: one goroutine per address)
  guard,        \* StartReconnectTrys: "idle", "quick", "wait", "retry", "notify",
                \* "drain" or "send"
  gOld,         \* the client it was started with
  gNew,         \* the client it picked
  newClient,    \* OnNewRelayClient, capacity 1
  reconnected,  \* OnReconnected, capacity 1
  unannounced,  \* history: the home relay came back, onServerConnected not yet called
  cached,       \* the address of each client of a foreign relay, None without one
  ended,        \* those whose onServerDisconnected waits for relayClientMu
  twin          \* history: such an end was taken for the home relay's

picker == <<urls, late>>
clients == <<url, up, owed, lsn, missed>>
guards == <<guard, gOld, gNew, newClient, reconnected, unannounced>>
foreign == <<cached, ended, twin>>
vars == <<picker, clients, home, serve, picked, event, guards, foreign>>

TypeOK ==
  /\ urls \in UrlLists
  /\ late \subseteq Clients
  /\ url \in [Clients -> Servers \cup {None}]
  /\ up \in [Clients -> BOOLEAN]
  /\ owed \in [Clients -> 0..MaxOwed]
  /\ lsn \in [Clients -> BOOLEAN]
  /\ missed \subseteq Clients
  /\ home \in Clients \cup {None}
  /\ serve \in {"start", "store", "done"}
  /\ picked \in Clients \cup {None}
  /\ event \subseteq Servers
  /\ guard \in [Guards -> {"idle", "quick", "wait", "retry", "notify", "drain", "send"}]
  /\ gOld \in [Guards -> Clients \cup {None}]
  /\ gNew \in [Guards -> Clients \cup {None}]
  /\ newClient \in Clients \cup {None}
  /\ reconnected \in BOOLEAN
  /\ unannounced \in BOOLEAN
  /\ cached \in [ForeignClients -> Foreign \cup {None}]
  /\ ended \subseteq ForeignClients
  /\ twin \in BOOLEAN

Init ==
  /\ urls \in UrlLists
  /\ late = {}
  /\ url = [c \in Clients |-> None]
  /\ up = [c \in Clients |-> FALSE]
  /\ owed = [c \in Clients |-> 0]
  /\ lsn = [c \in Clients |-> FALSE]
  /\ missed = {}
  /\ home = None
  /\ serve = "start"
  /\ picked = None
  /\ event = {}
  /\ guard = [g \in Guards |-> "idle"]
  /\ gOld = [g \in Guards |-> None]
  /\ gNew = [g \in Guards |-> None]
  /\ newClient = None
  /\ reconnected = FALSE
  /\ unannounced = FALSE
  /\ cached = [c \in ForeignClients |-> None]
  /\ ended = {}
  /\ twin = FALSE

-----------------------------------------------------------------------------
\* Somebody holds a pointer to the client.
Pointed(c) ==
  \/ c \in {home, picked, newClient}
  \/ \E g \in Guards : c \in {gOld[g], gNew[g]}

\* startConnection: c stands for a new client, which connects to s.
StartConnection(c, s) ==
  /\ ~Pointed(c) /\ ~up[c] /\ owed[c] = 0
  /\ url' = [url EXCEPT ![c] = s]
  /\ up' = [up EXCEPT ![c] = TRUE]
  /\ lsn' = [lsn EXCEPT ![c] = FALSE]
  /\ missed' = missed \ {c}
  /\ UNCHANGED owed

\* PickServer returns the client of the first of the configured servers to answer.
\* The others are closed; they have no listener and nobody hears of them.
PickServer(c) == \E s \in urls : StartConnection(c, s)

-----------------------------------------------------------------------------
\* The connection of a client ends.
Drop(c) ==
  /\ up[c]
  /\ owed[c] < MaxOwed
  /\ up' = [up EXCEPT ![c] = FALSE]
  /\ owed' = [owed EXCEPT ![c] = @ + 1]
  /\ late' = late \ {c}
  /\ UNCHANGED <<urls, url, lsn, missed, home, serve, picked, event, guards, foreign>>

\* notifyDisconnected: go onServerDisconnected(connectionURL), if a listener
\* is set by now.
Tell(c) ==
  /\ owed[c] > 0
  /\ owed' = [owed EXCEPT ![c] = @ - 1]
  /\ event' = IF lsn[c] THEN event \cup {url[c]} ELSE event
  /\ missed' = IF lsn[c] THEN missed ELSE missed \cup {c}
  /\ UNCHANGED <<picker, url, up, lsn, home, serve, picked, guards, foreign>>

\* go StartReconnectTrys, with the home client of the moment.
StartReconnectTrys ==
  \E g \in Guards :
    /\ guard[g] = "idle"
    /\ guard' = [guard EXCEPT ![g] = "quick"]
    /\ gOld' = [gOld EXCEPT ![g] = home]

MutOneGuardOnly(s) ==
  /\ s \in event
  /\ event' = event \ {s}
  /\ IF home # None /\ url[home] = s /\ \A g \in Guards : guard[g] = "idle"
       THEN StartReconnectTrys
       ELSE UNCHANGED <<guard, gOld>>
  /\ UNCHANGED <<picker, clients, home, serve, picked, gNew, newClient, reconnected, unannounced, foreign>>

\* onServerDisconnected after the end of a client of PickServer.  At another
\* address than the home relay's it evicts the foreign client of that address:
\* FormerHomeEvicts of RelayCache, which changes nothing here.
ServerDisconnected(s) ==
  /\ s \in event
  /\ event' = event \ {s}
  /\ IF home # None /\ url[home] = s
       THEN StartReconnectTrys
       ELSE UNCHANGED <<guard, gOld>>
  /\ UNCHANGED <<picker, clients, home, serve, picked, gNew, newClient, reconnected, unannounced, foreign>>

-----------------------------------------------------------------------------
\* Serve picks a server, ...
ServePicks(c) ==
  /\ serve = "start"
  /\ PickServer(c)
  /\ picked' = c
  /\ serve' = "store"
  /\ UNCHANGED <<picker, home, event, guards, foreign>>

\* ... or leaves it to the guard; ...
ServeFails ==
  /\ serve = "start"
  /\ serve' = "done"
  /\ \E g \in Guards :
       /\ guard[g] = "idle"
       /\ guard' = [guard EXCEPT ![g] = "retry"]
  /\ UNCHANGED <<picker, clients, home, picked, event, gOld, gNew, newClient, reconnected, unannounced, foreign>>

\* ... storeClient: only now does the client get its listener.
StoreClient(c) ==
  /\ home' = c
  /\ lsn' = [lsn EXCEPT ![c] = TRUE]

ServeStores ==
  /\ serve = "store"
  /\ StoreClient(picked)
  /\ picked' = None
  /\ serve' = "done"
  /\ UNCHANGED <<picker, url, up, owed, missed, event, guards, foreign>>

\* listenGuardEvent: a new client is stored and announced, ...
StoreNewClient ==
  /\ serve = "done"
  /\ newClient # None
  /\ StoreClient(newClient)
  /\ newClient' = None
  /\ unannounced' = FALSE
  /\ UNCHANGED <<picker, url, up, owed, missed, serve, picked, event, guard, gOld, gNew, reconnected, foreign>>

\* ... and so is the old one's coming back.
Announce ==
  /\ serve = "done"
  /\ reconnected
  /\ reconnected' = FALSE
  /\ unannounced' = FALSE
  /\ UNCHANGED <<picker, clients, home, serve, picked, event, guard, gOld, gNew, newClient, foreign>>

UpdateServerURLs(l) ==
  /\ l # urls
  /\ urls' = l
  /\ UNCHANGED <<late, clients, home, serve, picked, event, guards, foreign>>

-----------------------------------------------------------------------------
\* tryToQuickReconnect: is the server still on the list?  Then wait, ...
QuickWaits(g) ==
  /\ guard[g] = "quick"
  /\ url[gOld[g]] \in urls
  /\ guard' = [guard EXCEPT ![g] = "wait"]
  /\ UNCHANGED <<picker, clients, home, serve, picked, event, gOld, gNew, newClient, reconnected, unannounced, foreign>>

\* ... and Connect: it fails ...
QuickFails(g) ==
  /\ \/ guard[g] = "quick" /\ url[gOld[g]] \notin urls
     \/ guard[g] = "wait" /\ ~up[gOld[g]]
  /\ guard' = [guard EXCEPT ![g] = "retry"]
  /\ gOld' = [gOld EXCEPT ![g] = None]
  /\ UNCHANGED <<picker, clients, home, serve, picked, event, gNew, newClient, reconnected, unannounced, foreign>>

MutQuickReconnects(g) ==
  /\ guard[g] = "wait"
  /\ up' = [up EXCEPT ![gOld[g]] = TRUE]
  /\ missed' = missed \ {gOld[g]}
  /\ guard' = [guard EXCEPT ![g] = "retry"]
  /\ gOld' = [gOld EXCEPT ![g] = None]
  /\ unannounced' = TRUE
  /\ UNCHANGED <<picker, url, owed, lsn, home, serve, picked, event, gNew, newClient, reconnected, foreign>>

\* ... or the same client is up again, or still.
QuickReconnects(g) ==
  /\ guard[g] = "wait"
  /\ up' = [up EXCEPT ![gOld[g]] = TRUE]
  /\ missed' = missed \ {gOld[g]}
  /\ guard' = [guard EXCEPT ![g] = "notify"]
  /\ gOld' = [gOld EXCEPT ![g] = None]
  /\ unannounced' = TRUE
  /\ UNCHANGED <<picker, url, owed, lsn, home, serve, picked, event, gNew, newClient, reconnected, foreign>>

MutNotifyReconnected(g) ==
  /\ guard[g] = "notify"
  /\ UNCHANGED reconnected
  /\ guard' = [guard EXCEPT ![g] = "idle"]
  /\ UNCHANGED <<picker, clients, home, serve, picked, event, gOld, gNew, newClient, unannounced, foreign>>

\* notifyReconnected does not block.
NotifyReconnected(g) ==
  /\ guard[g] = "notify"
  /\ reconnected' = TRUE
  /\ guard' = [guard EXCEPT ![g] = "idle"]
  /\ UNCHANGED <<picker, clients, home, serve, picked, event, gOld, gNew, newClient, unannounced, foreign>>

\* retry: PickServer timed out at the last tick, or in Serve, but its attempts go
\* on, perhaps at servers that have left the list.  The first to connect stays in
\* successChan, where nobody takes it; the others are closed.  (It connects here
\* before the guard stops; it may do so later, which makes no difference to others.)
LateWinner(g, c) ==
  /\ guard[g] = "retry"
  /\ \E s \in Servers : StartConnection(c, s)
  /\ late' = late \cup {c}
  /\ UNCHANGED <<urls, home, serve, picked, event, guards, foreign>>

\* A tick at which PickServer finds a server, ...
RetryPicks(g, c) ==
  /\ guard[g] = "retry"
  /\ PickServer(c)
  /\ guard' = [guard EXCEPT ![g] = "drain"]
  /\ gNew' = [gNew EXCEPT ![g] = c]
  /\ UNCHANGED <<picker, home, serve, picked, event, gOld, newClient, reconnected, unannounced, foreign>>

MutRetryDrains(g) ==
  /\ guard[g] = "drain"
  /\ newClient # None
  /\ newClient' = None
  /\ guard' = [guard EXCEPT ![g] = "send"]
  /\ UNCHANGED <<picker, clients, home, serve, picked, event, gOld, gNew, reconnected, unannounced, foreign>>

\* ... drainRelayClientChan ...
RetryDrains(g) ==
  /\ guard[g] = "drain"
  /\ newClient' = None
  /\ guard' = [guard EXCEPT ![g] = "send"]
  /\ UNCHANGED <<picker, clients, home, serve, picked, event, gOld, gNew, reconnected, unannounced, foreign>>

\* ... and the send, which blocks while the channel is full.
RetrySends(g) ==
  /\ guard[g] = "send"
  /\ newClient = None
  /\ newClient' = gNew[g]
  /\ gNew' = [gNew EXCEPT ![g] = None]
  /\ guard' = [guard EXCEPT ![g] = "idle"]
  /\ UNCHANGED <<picker, clients, home, serve, picked, event, gOld, reconnected, unannounced, foreign>>

-----------------------------------------------------------------------------
HomeAddr == IF home = None THEN None ELSE url[home]

Cache == INSTANCE ForeignRelays
  WITH Objects <- ForeignClients, homeAddr <- HomeAddr, addr <- cached

\* OpenConnChannel with a foreign address makes a client of it.
OpenConn(c, s) ==
  /\ home # None
  /\ up[home]
  /\ Cache!Open(c, s)
  /\ UNCHANGED <<picker, clients, home, serve, picked, event, guards, twin>>

\* The foreign client ends, or the clean-up closes it.
ForeignEnds(c) ==
  /\ Cache!End(c) \/ Cache!Vanish(c)
  /\ UNCHANGED <<picker, clients, home, serve, picked, event, guards, twin>>

\* onServerDisconnected of a foreign client.
ForeignDisconnected(c) ==
  /\ Cache!Disconnected(c)
  /\ IF home # None /\ url[home] = cached[c]
       THEN StartReconnectTrys /\ twin' = TRUE
       ELSE UNCHANGED <<guard, gOld, twin>>
  /\ UNCHANGED <<picker, clients, home, serve, picked, event, gNew, newClient, reconnected, unannounced>>

-----------------------------------------------------------------------------
GuardStep(g) ==
  \/ QuickWaits(g) \/ QuickFails(g) \/ QuickReconnects(g) \/ NotifyReconnected(g)
  \/ RetryDrains(g) \/ RetrySends(g)

Next ==
  \/ ServeFails \/ ServeStores \/ StoreNewClient \/ Announce
  \/ \E l \in UrlLists : UpdateServerURLs(l)
  \/ \E c \in Clients : ServePicks(c) \/ Drop(c) \/ Tell(c)
  \/ \E g \in Guards : GuardStep(g) \/ \E c \in Clients : RetryPicks(g, c) \/ LateWinner(g, c)
  \/ \E s \in Servers : ServerDisconnected(s)
  \/ \E c \in ForeignClients :
       (\E s \in Foreign : OpenConn(c, s)) \/ ForeignEnds(c) \/ ForeignDisconnected(c)

Spec == Init /\ [][Next]_vars

\* Goroutines run, the locks they wait for are released, and PickServer finds a
\* server some time.  (The clients nobody points to end some time too, and
\* PickServer is not kept from finding a server by late ones: both only because
\* the set Clients is bounded.)
FairSpec ==
  /\ Spec
  /\ WF_vars(ServeFails \/ ServeStores \/ \E c \in Clients : ServePicks(c))
  /\ WF_vars(StoreNewClient \/ Announce)
  /\ \A c \in Clients : WF_vars(Tell(c))
  /\ WF_vars(\E c \in Clients : ~Pointed(c) /\ Drop(c))
  /\ \A s \in Servers : WF_vars(ServerDisconnected(s))
  /\ \A c \in ForeignClients : WF_vars(ForeignDisconnected(c))
  /\ \A g \in Guards : WF_vars(GuardStep(g))
  /\ SF_vars(\E g \in Guards, c \in Clients : RetryPicks(g, c))

-----------------------------------------------------------------------------
\* Somebody is at work on a new connection for the home relay.
Reconnecting ==
  \/ newClient # None
  \/ \E g \in Guards :
       \/ guard[g] \in {"retry", "drain", "send"}
       \/ guard[g] \in {"quick", "wait"} /\ gOld[g] = home

\* A home client that is down is never left alone, whatever guards, late events
\* and new clients overlap: its end is still to be reported, the event waits for
\* the lock, or a guard is at work.  The exception are clients whose connection
\* ended before storeClient had set their listener.
HomeEndHandled ==
  home # None /\ ~up[home] /\ home \notin missed =>
    owed[home] > 0 \/ url[home] \in event \/ Reconnecting

\* The reconnect at work for the home relay.
Working == {g \in Guards : guard[g] \notin {"idle", "notify"}}

\* Somebody has it from PickServer, and no other home client has replaced it.
Taken(c) == c \in {home, picked, newClient} \/ \E g \in Guards : gNew[g] = c

\* Reconnects do not overlap; none finds a client in the channel it would drain
\* or have to wait for; no client is left connected that nobody has a pointer to,
\* and the late winners of PickServer calls that timed out are all; and every end
\* that reaches onServerDisconnected is the home client's, so that none evicts a
\* foreign client (FormerHomeEvicts of RelayCache).  Unless the end of a cached
\* foreign client was taken for the home relay's because the home relay had moved
\* to the same address.
OneReconnectAtATime ==
  ~twin =>
    /\ \A g, h \in Working : g = h
    /\ Working # {} => newClient = None
    /\ {c \in Clients : up[c] /\ ~Taken(c)} = late
    /\ \A s \in event : home # None /\ s = url[home]

\* There is a connection to a relay server, of the home client or of the next one.
Connected == \E c \in Clients : up[c] /\ Pointed(c)

\* A home relay that went down is connected to again, or another in its place,
\* unless its client's end was reported before the manager listened.
HomeReconnects == home # None /\ ~up[home] ~> Connected \/ home \in missed

\* "The manager will automatically reconnect to the relay server in case of
\* disconnection."
HomeAlwaysReconnects == home # None /\ ~up[home] ~> Connected

\* After a reconnect the reconnected listener is called, although the guard
\* does not wait for room in the channel: the peers make new offers then.
ReconnectAnnounced == unannounced ~> ~unannounced
=============================================================================
