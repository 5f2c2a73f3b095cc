---------------------------- MODULE RelayClient ----------------------------
(***************************************************************************)
(* shared/relay/client/client.go: one client of a relay server, with the    *)
(* peer connections multiplexed over it (connContainer), the subscription   *)
(* to the peers' state (peer_subscription.go) and the buffer for messages   *)
(* that come before their connection (early_msg_buffer.go).                 *)
(*                                                                         *)
(* c.mu and the subscription's mutex are held for short sections, which are *)
(* single actions; readLoopMutex is held across close's wait for the read   *)
(* loop and is modelled as closing.  Each Connect makes a new generation:   *)
(* its socket, its read loop and its PeersStateSubscription.                *)
(***************************************************************************)
EXTENDS Naturals, FiniteSets

CONSTANTS
  Gens,      \* the connections to the server Connect makes, one after the other
  Keys,      \* connKey: a peer and a channel
  Peer(_),   \* the peer of a key
  Talking,   \* the keys the server sends transport messages for (a bound)
  Openers,   \* calls of OpenConnChannel alive at once, each with its container
  None

ASSUME RelayClientAssumption ==
  /\ IsFiniteSet(Keys)
  /\ Talking \subseteq Keys
  /\ None \notin Gens \cup Openers \cup {"app"}
  /\ "app" \notin Gens

Peers == {Peer(key) : key \in Keys}

VARIABLES
  running,  \* serviceIsRunning
  cur,      \* the generation of c.relayConn and c.stateSubscription
  sock,     \* a generation's socket: "none", "open", "broken" or "closed"
  loop,     \* its readLoop, see TypeOK
  offline,  \* the peer in a PeersWentOffline message a loop is handling
  target,   \* where a transport message goes: a container, or None for early
  msgKey,   \* the connKey of that message
  closing,  \* who holds readLoopMutex inside close(): "app", a loop or None
  conns,    \* c.conns
  refs,     \* c.peerConnRefs
  early,    \* c.earlyMsgs: the generation that received the buffered message
  waiting,  \* waitingPeers of each generation's subscription
  listen,   \* listenForOfflinePeers
  at,       \* where each OpenConnChannel is
  key,      \* the connKey it was called with
  subOf,    \* the generation whose subscription it waits on
  wake,     \* its waitCh: "none", "online" or "closed"
  box,      \* its container: "open" or "closed"
  born,     \* the generation the container was made in
  got,      \* the generations of the messages written to the container
  crossed   \* history: peers some call subscribed to after its own container
            \* had been removed

conn == <<running, cur, sock, closing>>
loops == <<loop, offline, target, msgKey>>
table == <<conns, refs, early>>
subs == <<waiting, listen, crossed>>
opens == <<at, key, subOf, wake, box, born, got>>
vars == <<conn, loops, table, subs, opens>>

TypeOK ==
  /\ running \in BOOLEAN
  /\ cur \in Gens \cup {None}
  /\ sock \in [Gens -> {"none", "open", "broken", "closed"}]
  /\ closing \in Gens \cup {"app", None}
  /\ loop \in [Gens -> {"off", "read", "msg", "deliver", "drop", "exit", "done", "closing", "notify", "told"}]
  /\ offline \in [Gens -> Peers \cup {None}]
  /\ target \in [Gens -> Openers \cup {None}]
  /\ msgKey \in [Gens -> Keys \cup {None}]
  /\ conns \in [Keys -> Openers \cup {None}]
  /\ refs \in [Peers -> Nat]
  /\ early \in [Keys -> Gens \cup {None}]
  /\ waiting \in [Gens -> [Peers -> Openers \cup {None}]]
  /\ listen \in [Gens -> SUBSET Peers]
  /\ at \in [Openers -> {"idle", "sub", "write", "wait", "failed", "count", "check", "held"}]
  /\ key \in [Openers -> Keys \cup {None}]
  /\ subOf \in [Openers -> Gens \cup {None}]
  /\ wake \in [Openers -> {"none", "online", "closed"}]
  /\ box \in [Openers -> {"open", "closed"}]
  /\ born \in [Openers -> Gens \cup {None}]
  /\ got \in [Openers -> SUBSET Gens]
  /\ crossed \subseteq Peers

Init ==
  /\ running = FALSE
  /\ cur = None
  /\ sock = [k \in Gens |-> "none"]
  /\ closing = None
  /\ loop = [k \in Gens |-> "off"]
  /\ offline = [k \in Gens |-> None]
  /\ target = [k \in Gens |-> None]
  /\ msgKey = [k \in Gens |-> None]
  /\ conns = [x \in Keys |-> None]
  /\ refs = [p \in Peers |-> 0]
  /\ early = [x \in Keys |-> None]
  /\ waiting = [k \in Gens |-> [p \in Peers |-> None]]
  /\ listen = [k \in Gens |-> {}]
  /\ at = [o \in Openers |-> "idle"]
  /\ key = [o \in Openers |-> None]
  /\ subOf = [o \in Openers |-> None]
  /\ wake = [o \in Openers |-> "none"]
  /\ box = [o \in Openers |-> "closed"]
  /\ born = [o \in Openers |-> None]
  /\ got = [o \in Openers |-> {}]
  /\ crossed = {}

-----------------------------------------------------------------------------
\* The peer an opener was called for.
PeerOf(o) == Peer(key[o])

\* The containers of c.conns.
Stored == {conns[x] : x \in Keys} \ {None}

\* An opener's container is not referred to any more; its call has returned
\* and the application has dropped the connection.
Free(o) == at[o] = "idle" /\ \A k \in Gens : target[k] # o

\* The call is over and its connection dropped: nothing refers to its data.
Forget(o) ==
  /\ at' = [at EXCEPT ![o] = "idle"]
  /\ key' = [key EXCEPT ![o] = None]
  /\ born' = [born EXCEPT ![o] = None]
  /\ got' = [got EXCEPT ![o] = {}]

\* connContainer.close on the containers C.
CloseBoxes(C) == box' = [o \in Openers |-> IF o \in C THEN "closed" ELSE box[o]]

\* Close the waitCh of the openers W.
CloseWaits(W) == wake' = [o \in Openers |-> IF o \in W THEN "closed" ELSE wake[o]]

-----------------------------------------------------------------------------
MutConnect(k) ==
  /\ ~running
  /\ loop[k] = "off"
  /\ running' = TRUE
  /\ cur' = k
  /\ sock' = [sock EXCEPT ![k] = "open"]
  /\ loop' = [loop EXCEPT ![k] = "read"]
  /\ UNCHANGED <<closing, offline, target, msgKey, table, subs, opens>>

\* Connect: dial, handshake, a new subscription and a new read loop.
Connect(k) ==
  /\ closing = None
  /\ ~running
  /\ loop[k] = "off"
  /\ running' = TRUE
  /\ cur' = k
  /\ sock' = [sock EXCEPT ![k] = "open"]
  /\ loop' = [loop EXCEPT ![k] = "read"]
  /\ UNCHANGED <<closing, offline, target, msgKey, table, subs, opens>>

\* The server, the network or the health check ends the connection.
SockBreaks(k) ==
  /\ sock[k] = "open"
  /\ sock' = [sock EXCEPT ![k] = "broken"]
  /\ UNCHANGED <<running, cur, closing, loops, table, subs, opens>>

MutShutDown ==
  /\ running' = FALSE
  /\ UNCHANGED box
  /\ conns' = [x \in Keys |-> None]
  /\ refs' = [p \in Peers |-> 0]
  /\ early' = [x \in Keys |-> None]
  /\ sock' = [sock EXCEPT ![cur] = "closed"]
  /\ UNCHANGED cur

\* close() with serviceIsRunning set, up to wgReadLoop.Wait: closeAllConns,
\* also of the early messages, and the socket.
ShutDown ==
  /\ running' = FALSE
  /\ CloseBoxes(Stored)
  /\ conns' = [x \in Keys |-> None]
  /\ refs' = [p \in Peers |-> 0]
  /\ early' = [x \in Keys |-> None]
  /\ sock' = [sock EXCEPT ![cur] = "closed"]
  /\ UNCHANGED cur

MutLoopsDone == \A k \in Gens : loop[k] \notin {"read", "msg", "deliver", "drop", "exit", "done"}

\* wgReadLoop.Wait returns.
LoopsDone == \A k \in Gens : loop[k] \notin {"read", "msg", "deliver", "drop", "exit"}

\* Close, also by listenForStopEvents when the context is done.
Close ==
  /\ closing = None
  /\ running
  /\ ShutDown
  /\ closing' = "app"
  /\ UNCHANGED <<loops, subs, at, key, subOf, wake, born, got>>

CloseReturns ==
  /\ closing = "app"
  /\ LoopsDone
  /\ closing' = None
  /\ UNCHANGED <<running, cur, sock, loops, table, subs, opens>>

-----------------------------------------------------------------------------
\* readLoop: a read error, or the server's close message.
LoopExits(k) ==
  /\ loop[k] = "read"
  /\ loop' = [loop EXCEPT ![k] = "exit"]
  /\ UNCHANGED <<conn, offline, target, msgKey, table, subs, opens>>

\* A transport message is read ...
LoopReceives(k, x) ==
  /\ loop[k] = "read"
  /\ sock[k] = "open"
  /\ loop' = [loop EXCEPT ![k] = "msg"]
  /\ msgKey' = [msgKey EXCEPT ![k] = x]
  /\ UNCHANGED <<conn, offline, target, table, subs, opens>>

\* ... handleTransportMsg looks its container up under the lock ...
LoopLooksUp(k) ==
  /\ loop[k] = "msg"
  /\ loop' = [loop EXCEPT ![k] = IF running THEN "deliver" ELSE "exit"]
  /\ target' = [target EXCEPT ![k] = IF running THEN conns[msgKey[k]] ELSE None]
  /\ msgKey' = [msgKey EXCEPT ![k] = IF running THEN @ ELSE None]
  /\ UNCHANGED <<conn, offline, table, subs, opens>>

MutLoopDelivers(k) ==
  LET o == target[k] IN
  /\ loop[k] = "deliver"
  /\ loop' = [loop EXCEPT ![k] = "read"]
  /\ target' = [target EXCEPT ![k] = None]
  /\ msgKey' = [msgKey EXCEPT ![k] = None]
  /\ IF o # None
       THEN /\ got' = IF box[o] = "open" THEN [got EXCEPT ![o] = @ \cup {k}] ELSE got
            /\ UNCHANGED early
       ELSE /\ early' = [early EXCEPT ![msgKey[k]] = k]
            /\ UNCHANGED got
  /\ UNCHANGED <<conn, offline, conns, refs, subs, at, key, subOf, wake, box, born>>

\* ... and write to it without the lock; without a container the message is
\* buffered, unless closeAllConns closed the buffer meanwhile.
LoopDelivers(k) ==
  LET o == target[k] IN
  /\ loop[k] = "deliver"
  /\ loop' = [loop EXCEPT ![k] = "read"]
  /\ target' = [target EXCEPT ![k] = None]
  /\ msgKey' = [msgKey EXCEPT ![k] = None]
  /\ IF o # None
       THEN /\ got' = IF box[o] = "open" THEN [got EXCEPT ![o] = @ \cup {k}] ELSE got
            /\ UNCHANGED early
       ELSE /\ early' = IF running THEN [early EXCEPT ![msgKey[k]] = k] ELSE early
            /\ UNCHANGED got
  /\ UNCHANGED <<conn, offline, conns, refs, subs, at, key, subOf, wake, box, born>>

\* removeExpired drops an early message.
EarlyExpires(x) ==
  /\ early[x] # None
  /\ early' = [early EXCEPT ![x] = None]
  /\ UNCHANGED <<conn, loops, conns, refs, subs, opens>>

\* OnPeersOnline wakes the opener waiting for the peer.
PeerOnline(k, p) ==
  LET o == waiting[cur][p] IN
  /\ loop[k] = "read"
  /\ sock[k] = "open"
  /\ o # None
  /\ wake' = [wake EXCEPT ![o] = "online"]
  /\ waiting' = [waiting EXCEPT ![cur][p] = None]
  /\ UNCHANGED <<conn, loops, table, listen, crossed, at, key, subOf, box, born, got>>

\* OnPeersWentOffline: is the peer listened for?
PeerOffline(k, p) ==
  /\ loop[k] = "read"
  /\ sock[k] = "open"
  /\ p \in listen[cur]
  /\ loop' = [loop EXCEPT ![k] = "drop"]
  /\ offline' = [offline EXCEPT ![k] = p]
  /\ UNCHANGED <<conn, target, msgKey, table, subs, opens>>

\* UnsubscribeStateChange of p, on the client's current subscription.
Unsubscribe(p) ==
  /\ waiting' = [waiting EXCEPT ![cur][p] = None]
  /\ listen' = [listen EXCEPT ![cur] = @ \ {p}]
  /\ CloseWaits({waiting[cur][p]})
  /\ UNCHANGED crossed

\* ... closeConnsByPeerID
LoopDropsPeer(k) ==
  LET p == offline[k]
      gone == {x \in Keys : Peer(x) = p} IN
  /\ loop[k] = "drop"
  /\ loop' = [loop EXCEPT ![k] = "read"]
  /\ offline' = [offline EXCEPT ![k] = None]
  /\ CloseBoxes({conns[x] : x \in gone})
  /\ conns' = [x \in Keys |-> IF x \in gone THEN None ELSE conns[x]]
  /\ refs' = [refs EXCEPT ![p] = 0]
  /\ Unsubscribe(p)
  /\ UNCHANGED <<conn, target, msgKey, early, at, key, subOf, born, got>>

\* The loop is over: Cleanup of the subscription, then wgReadLoop.Done.
LoopCleansUp(k) ==
  /\ loop[k] = "exit"
  /\ loop' = [loop EXCEPT ![k] = "done"]
  /\ CloseWaits({waiting[cur][p] : p \in Peers})
  /\ waiting' = [waiting EXCEPT ![cur] = [p \in Peers |-> None]]
  /\ listen' = [listen EXCEPT ![cur] = {}]
  /\ UNCHANGED <<conn, offline, target, msgKey, table, crossed, at, key, subOf, box, born, got>>

\* close(false): of whatever connection the client has by now.
LoopCloses(k) ==
  /\ loop[k] = "done"
  /\ closing = None
  /\ IF running
       THEN /\ ShutDown
            /\ closing' = k
            /\ loop' = [loop EXCEPT ![k] = "closing"]
       ELSE /\ loop' = [loop EXCEPT ![k] = "notify"]
            /\ UNCHANGED <<conn, table, box>>
  /\ UNCHANGED <<offline, target, msgKey, subs, at, key, subOf, wake, born, got>>

LoopCloseReturns(k) ==
  /\ loop[k] = "closing"
  /\ LoopsDone
  /\ closing' = None
  /\ loop' = [loop EXCEPT ![k] = "notify"]
  /\ UNCHANGED <<running, cur, sock, offline, target, msgKey, table, subs, opens>>

MutLoopNotifies(k) ==
  /\ loop[k] = "notify"
  /\ running
  /\ loop' = [loop EXCEPT ![k] = "told"]
  /\ UNCHANGED <<conn, offline, target, msgKey, table, subs, opens>>

\* notifyDisconnected
LoopNotifies(k) ==
  /\ loop[k] = "notify"
  /\ loop' = [loop EXCEPT ![k] = "told"]
  /\ UNCHANGED <<conn, offline, target, msgKey, table, subs, opens>>

-----------------------------------------------------------------------------
\* OpenConnChannel: store a new container and flush the early message; a peer
\* with an open channel is subscribed already.
OpenStarts(o, x) ==
  /\ Free(o)
  /\ running
  /\ conns[x] = None
  /\ conns' = [conns EXCEPT ![x] = o]
  /\ early' = [early EXCEPT ![x] = None]
  /\ got' = [got EXCEPT ![o] = {early[x]} \ {None}]
  /\ key' = [key EXCEPT ![o] = x]
  /\ box' = [box EXCEPT ![o] = "open"]
  /\ born' = [born EXCEPT ![o] = cur]
  /\ at' = [at EXCEPT ![o] = IF refs[Peer(x)] > 0 THEN "count" ELSE "sub"]
  /\ UNCHANGED <<conn, loops, refs, subs, subOf, wake>>

MutOpenSubscribes(o) ==
  LET p == PeerOf(o) IN
  /\ at[o] = "sub"
  /\ IF waiting[cur][p] # None
       THEN /\ at' = [at EXCEPT ![o] = "failed"]
            /\ UNCHANGED <<subs, subOf>>
       ELSE /\ at' = [at EXCEPT ![o] = "write"]
            /\ subOf' = [subOf EXCEPT ![o] = cur]
            /\ waiting' = [waiting EXCEPT ![cur][p] = o]
            /\ UNCHANGED listen
            /\ crossed' = IF conns[key[o]] = o THEN crossed ELSE crossed \cup {p}
  /\ UNCHANGED <<conn, loops, table, key, wake, box, born, got>>

\* WaitToBeOnlineAndSubscribe, on the client's current subscription.
OpenSubscribes(o) ==
  LET p == PeerOf(o) IN
  /\ at[o] = "sub"
  /\ IF waiting[cur][p] # None
       THEN /\ at' = [at EXCEPT ![o] = "failed"]
            /\ UNCHANGED <<subs, subOf>>
       ELSE /\ at' = [at EXCEPT ![o] = "write"]
            /\ subOf' = [subOf EXCEPT ![o] = cur]
            /\ waiting' = [waiting EXCEPT ![cur][p] = o]
            /\ listen' = [listen EXCEPT ![cur] = @ \cup {p}]
            /\ crossed' = IF conns[key[o]] = o THEN crossed ELSE crossed \cup {p}
  /\ UNCHANGED <<conn, loops, table, key, wake, box, born, got>>

\* The opener gives up: it leaves the subscription, if that still has it.
LeaveSubscription(o) ==
  LET k == subOf[o]
      p == PeerOf(o) IN
  IF waiting[k][p] = o
    THEN /\ waiting' = [waiting EXCEPT ![k][p] = None]
         /\ listen' = [listen EXCEPT ![k] = @ \ {p}]
         /\ UNCHANGED crossed
    ELSE UNCHANGED subs

\* Send the subscription ...
OpenSent(o) ==
  /\ at[o] = "write"
  /\ sock[subOf[o]] # "closed"
  /\ at' = [at EXCEPT ![o] = "wait"]
  /\ UNCHANGED <<conn, loops, table, subs, key, subOf, wake, box, born, got>>

MutOpenGivesUp(o) ==
  /\ at[o] = "write" /\ sock[subOf[o]] # "open"
  /\ LeaveSubscription(o)
  /\ at' = [at EXCEPT ![o] = "failed"]
  /\ subOf' = [subOf EXCEPT ![o] = None]
  /\ wake' = [wake EXCEPT ![o] = "none"]
  /\ UNCHANGED <<conn, loops, table, key, box, born, got>>

\* ... which fails on a dead socket; or the wait is over, by the timeout or by
\* the caller's context.
OpenGivesUp(o) ==
  /\ \/ at[o] = "write" /\ sock[subOf[o]] # "open"
     \/ at[o] = "wait"
  /\ LeaveSubscription(o)
  /\ at' = [at EXCEPT ![o] = "failed"]
  /\ subOf' = [subOf EXCEPT ![o] = None]
  /\ wake' = [wake EXCEPT ![o] = "none"]
  /\ UNCHANGED <<conn, loops, table, key, box, born, got>>

\* waitCh was signalled, or closed.
OpenWakes(o) ==
  /\ at[o] = "wait"
  /\ wake[o] # "none"
  /\ at' = [at EXCEPT ![o] = IF wake[o] = "online" THEN "count" ELSE "failed"]
  /\ subOf' = [subOf EXCEPT ![o] = None]
  /\ wake' = [wake EXCEPT ![o] = "none"]
  /\ UNCHANGED <<conn, loops, table, subs, key, box, born, got>>

\* The error path: remove the container, if it is still the stored one.
OpenFails(o) ==
  LET x == key[o] IN
  /\ at[o] = "failed"
  /\ conns' = [conns EXCEPT ![x] = IF @ = o THEN None ELSE @]
  /\ box' = [box EXCEPT ![o] = "closed"]
  /\ Forget(o)
  /\ UNCHANGED <<conn, loops, refs, early, subs, subOf, wake>>

MutOpenCounts(o) ==
  /\ at[o] = "count"
  /\ refs' = [refs EXCEPT ![PeerOf(o)] = @ + 1]
  /\ at' = [at EXCEPT ![o] = "check"]
  /\ UNCHANGED <<conn, loops, conns, early, subs, key, subOf, wake, box, born, got>>

\* Count the connection ...
OpenCounts(o) ==
  /\ at[o] = "count"
  /\ refs' = IF conns[key[o]] = o THEN [refs EXCEPT ![PeerOf(o)] = @ + 1] ELSE refs
  /\ at' = [at EXCEPT ![o] = "check"]
  /\ UNCHANGED <<conn, loops, conns, early, subs, key, subOf, wake, box, born, got>>

\* ... and return it, if the client still runs.
OpenReturns(o) ==
  LET x == key[o]
      p == PeerOf(o) IN
  /\ at[o] = "check"
  /\ IF running
       THEN /\ at' = [at EXCEPT ![o] = "held"]
            /\ UNCHANGED <<conns, refs, key, box, born, got>>
       ELSE /\ Forget(o)
            /\ box' = [box EXCEPT ![o] = "closed"]
            /\ IF conns[x] = o
                 THEN /\ conns' = [conns EXCEPT ![x] = None]
                      /\ refs' = [refs EXCEPT ![p] = IF @ > 0 THEN @ - 1 ELSE 0]
                 ELSE UNCHANGED <<conns, refs>>
  /\ UNCHANGED <<conn, loops, early, subs, subOf, wake>>

\* Conn.Close: closeConn, with the last one of a peer its subscription.
ConnCloses(o) ==
  LET x == key[o]
      p == PeerOf(o) IN
  /\ at[o] = "held"
  /\ Forget(o)
  /\ IF conns[x] = o
       THEN /\ conns' = [conns EXCEPT ![x] = None]
            /\ box' = [box EXCEPT ![o] = "closed"]
            /\ IF refs[p] <= 1
                 THEN /\ refs' = [refs EXCEPT ![p] = 0]
                      /\ Unsubscribe(p)
                 ELSE /\ refs' = [refs EXCEPT ![p] = @ - 1]
                      /\ UNCHANGED <<subs, wake>>
       ELSE UNCHANGED <<conns, refs, subs, wake, box>>
  /\ UNCHANGED <<conn, loops, early, subOf>>

-----------------------------------------------------------------------------
LoopStep(k) ==
  \/ LoopLooksUp(k) \/ LoopDelivers(k) \/ LoopDropsPeer(k) \/ LoopCleansUp(k)
  \/ LoopCloses(k) \/ LoopCloseReturns(k) \/ LoopNotifies(k)

OpenStep(o) ==
  \/ OpenSubscribes(o) \/ OpenSent(o) \/ OpenGivesUp(o) \/ OpenWakes(o)
  \/ OpenFails(o) \/ OpenCounts(o) \/ OpenReturns(o)

Next ==
  \/ Close \/ CloseReturns
  \/ \E k \in Gens :
       \/ Connect(k) \/ SockBreaks(k) \/ LoopExits(k) \/ LoopStep(k)
       \/ \E x \in Talking : LoopReceives(k, x)
       \/ \E p \in Peers : PeerOnline(k, p) \/ PeerOffline(k, p)
  \/ \E x \in Talking : EarlyExpires(x)
  \/ \E o \in Openers :
       \/ \E x \in Keys : OpenStarts(o, x)
       \/ OpenStep(o) \/ ConnCloses(o)

Spec == Init /\ [][Next]_vars

\* Goroutines run, a read on a dead socket fails, and a wait times out.
FairSpec ==
  /\ Spec
  /\ WF_vars(CloseReturns)
  /\ \A k \in Gens : WF_vars(LoopStep(k)) /\ WF_vars(sock[k] # "open" /\ LoopExits(k))
  /\ \A o \in Openers : WF_vars(OpenStep(o))

-----------------------------------------------------------------------------
\* The connections of a peer that were counted: by OpenConnChannel's last but
\* one section, and are still in c.conns.
Counted(p) == {x \in Keys : Peer(x) = p /\ conns[x] # None /\ at[conns[x]] \in {"check", "held"}}

\* peerConnRefs counts the connections of a peer that are open and returned,
\* whatever order openings, closings, a peer's going offline and the client's
\* own close come in: closeConn unsubscribes with the last one, neither sooner
\* nor later.
RefsCountConns == \A p \in Peers : refs[p] = Cardinality(Counted(p))

\* OpenConnChannel never returns a connection that is in nobody's table and yet
\* open: its reader would wait for ever, as no message and no close reaches it.
NoOrphanConn ==
  \A o \in Openers : at[o] = "held" /\ box[o] = "open" => conns[key[o]] = o

\* A client that is not running has no connection, no reference and no early
\* message left over for the next Connect.
StoppedIsEmpty ==
  ~running => /\ \A x \in Keys : conns[x] = None /\ early[x] = None
              /\ \A p \in Peers : refs[p] = 0

\* What a connection to the server received is never delivered to a peer
\* connection opened over a later one: close waits for the read loop before
\* Connect may run again, and drops the early messages.
NoStaleDelivery == \A o \in Openers : got[o] \subseteq {born[o]}

\* A returned connection of a peer with a single channel is closed when the
\* server reports the peer offline: the subscription in use listens for it, as
\* long as its read loop has not ended.  (A call whose container a reconnect or
\* a peer's going offline removed before it subscribes may spoil it: it waits
\* for the peer all the same, and takes it out of listenForOfflinePeers when it
\* gives up, under the feet of the connection opened meanwhile.)
OfflineHeard ==
  \A o \in Openers :
    /\ at[o] = "held"
    /\ conns[key[o]] = o
    /\ loop[cur] \in {"read", "msg", "deliver", "drop"}
    /\ \A x \in Keys : Peer(x) = PeerOf(o) => x = key[o]
    /\ PeerOf(o) \notin crossed
    => PeerOf(o) \in listen[cur]

\* Every OpenConnChannel returns: no wait for a peer survives the connection to
\* the server or the timeout.
OpenCompletes ==
  \A o \in Openers : at[o] \notin {"idle", "held"} ~> at[o] \in {"idle", "held"}

\* close() returns: the read loop it waits for with readLoopMutex held does not
\* itself need that mutex first.
CloseCompletes == closing # None ~> closing = None

\* A connection to the server is up while the client runs on it.
LinkState(k) ==
  IF loop[k] = "off" THEN "new" ELSE
  IF loop[k] = "told" THEN "told" ELSE
  IF running /\ cur = k THEN "up" ELSE "ended"

Links == [k \in Gens |-> LinkState(k)]

Link == INSTANCE RelayLink WITH link <- Links

\* What the manager relies on, RelayLink: every connection to the server ends
\* with exactly one report to the listener, also if the client is closed and
\* connected again before the old read loop has finished.
ReportsEveryEnd == Link!Spec
=============================================================================
