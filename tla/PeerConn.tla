------------------------------ MODULE PeerConn ------------------------------
(***************************************************************************)
(* peer.Conn (client/internal/peer/conn.go) of an anonymous-mode client:    *)
(* one remote peer, reached through the relay and, when it can be opened,   *)
(* through a direct I2P datagram connection that takes over from it.        *)
(*                                                                         *)
(* A link is a remote connection (relayed or I2P) with the WireGuard proxy  *)
(* made for it (client/iface/wgproxy/bind).  All proxies of a peer answer   *)
(* to one fake address, which the ICE bind maps to one link.                *)
(*                                                                         *)
(* The callbacks of Conn hold conn.mu from start to end, so each is one     *)
(* action, enabled while nobody else holds the mutex.  Goroutines that work *)
(* without it (openers, retry timers, proxy loops, the delayed endpoint     *)
(* update) take a step per blocking call.  ICE is off in anonymous mode.    *)
(***************************************************************************)
EXTENDS Naturals, FiniteSets

CONSTANTS
  RelayLinks,  \* connections through a relay server
  I2PLinks,    \* I2P datagram connections
  Retriers,    \* goroutines of scheduleI2PDatagramRetry alive at once
  NoLink,      \* nil
  Controllers, \* the values of isController(conn.config) to consider
  WgMayFail    \* those with which WgInterface.UpdatePeer can return an error

ASSUME PeerConnAssumption ==
  /\ RelayLinks \cap I2PLinks = {}
  /\ NoLink \notin RelayLinks \cup I2PLinks
  /\ "init" \notin Retriers
  /\ Controllers \subseteq BOOLEAN
  /\ WgMayFail \subseteq BOOLEAN

Links == RelayLinks \cup I2PLinks
Openers == Retriers \cup {"init"}  \* "init": the goroutine Open starts

\* conntype priorities
None == 0
Relay == 1
I2PDatagram == 2

VARIABLES
  controller,   \* isController(conn.config), also EndpointUpdater.initiator
  life,         \* "open", "closing" (Close holds conn.mu in wg.Wait), "closed"
  prio,         \* conn.currentConnPriority
  statusRelay,  \* statusRelay is StatusConnected
  statusI2P,    \* statusI2PDatagram is StatusConnected
  relayProxy,   \* conn.wgProxyRelay, as the link it was made for
  i2pProxy,     \* conn.wgProxyI2PDatagram
  published,    \* ConnStatus in the status recorder
  link,         \* "up", "broken" (the far end went away) or "closed"
  proxy,        \* the link's proxy: "none", "idle", "work", "paused", "closed"
  loop,         \* its proxyToLocal: "off", "read", "notify", "close"
  bindTo,       \* the link the ICE bind maps the fake address to
  wgPeer,       \* the peer in WireGuard: "absent", "noaddr" or "fake"
  delayed,      \* a responder's delayed endpoint update is pending
  offer,        \* OnNewOffer of a relay link: "none", "opened", "stale", "ready"
  worker,       \* conn.workerRelay.relayedConn
  listening,    \* this Conn's close listener is on a relay server's list
  relayDown,    \* a goroutine is about to run onRelayDisconnected
  at,           \* where each opener is
  got,          \* the link an opener got from the registry
  scheduled     \* conn.i2pDatagramRetryScheduled

status == <<prio, statusRelay, statusI2P, relayProxy, i2pProxy, published>>
links == <<link, proxy, loop, bindTo>>
wg == <<wgPeer, delayed>>
relayWork == <<offer, worker, listening, relayDown>>
opening == <<at, got, scheduled>>
vars == <<controller, life, status, links, wg, relayWork, opening>>

TypeOK ==
  /\ controller \in Controllers
  /\ life \in {"open", "closing", "closed"}
  /\ prio \in {None, Relay, I2PDatagram}
  /\ statusRelay \in BOOLEAN
  /\ statusI2P \in BOOLEAN
  /\ relayProxy \in RelayLinks \cup {NoLink}
  /\ i2pProxy \in I2PLinks \cup {NoLink}
  /\ published \in {"idle", "connecting", "connected"}
  /\ link \in [Links -> {"up", "broken", "closed"}]
  /\ proxy \in [Links -> {"none", "idle", "work", "paused", "closed"}]
  /\ loop \in [Links -> {"off", "read", "notify", "close"}]
  /\ bindTo \in Links \cup {NoLink}
  /\ wgPeer \in {"absent", "noaddr", "fake"}
  /\ delayed \in BOOLEAN
  /\ offer \in [RelayLinks -> {"none", "opened", "stale", "ready"}]
  /\ worker \in RelayLinks \cup {NoLink}
  /\ listening \in BOOLEAN
  /\ relayDown \in BOOLEAN
  /\ at \in [Openers -> {"off", "sleep", "cancelled", "opening", "ready", "clear", "post"}]
  /\ got \in [Openers -> I2PLinks \cup {NoLink}]
  /\ scheduled \in BOOLEAN

Init ==
  /\ controller \in Controllers
  /\ life = "closed"
  /\ prio = None
  /\ statusRelay = FALSE
  /\ statusI2P = FALSE
  /\ relayProxy = NoLink
  /\ i2pProxy = NoLink
  /\ published = "idle"
  /\ link = [x \in Links |-> "closed"]
  /\ proxy = [x \in Links |-> "none"]
  /\ loop = [x \in Links |-> "off"]
  /\ bindTo = NoLink
  /\ wgPeer = "absent"
  /\ delayed = FALSE
  /\ offer = [x \in RelayLinks |-> "none"]
  /\ worker = NoLink
  /\ listening = FALSE
  /\ relayDown = FALSE
  /\ at = [g \in Openers |-> "off"]
  /\ got = [g \in Openers |-> NoLink]
  /\ scheduled = FALSE

-----------------------------------------------------------------------------
\* conn.mu is free.
MuFree == life # "closing"

\* conn.ctx.Err() == nil
CtxOK == life = "open"

\* A link object nothing refers to any more stands for the next connection.
Fresh(x) ==
  /\ link[x] = "closed"
  /\ loop[x] = "off"
  /\ x \notin {relayProxy, i2pProxy, bindTo, worker}
  /\ x \in RelayLinks => offer[x] = "none"
  /\ \A g \in Openers : got[g] # x

\* The proxy operations, as functions on <<link, proxy, loop, bindTo>>.
L == [link |-> link, proxy |-> proxy, loop |-> loop, bindTo |-> bindTo]

SetLinks(s) ==
  /\ link' = s.link
  /\ proxy' = s.proxy
  /\ loop' = s.loop
  /\ bindTo' = s.bindTo

\* newProxy and SetDisconnectListener
NewProxy(s, x) == [s EXCEPT !.proxy[x] = "idle"]

\* ProxyBind.Work: maps the fake address to the link, also if it is closed.
Work(s, x) ==
  [s EXCEPT !.proxy[x] = IF @ = "closed" THEN @ ELSE "work",
            !.loop[x] = IF s.proxy[x] = "idle" THEN "read" ELSE @,
            !.bindTo = x]

\* ProxyBind.Pause; a proxy that never worked starts unpaused anyway.
Pause(s, x) == [s EXCEPT !.proxy[x] = IF @ = "work" THEN "paused" ELSE @]

MutCloseProxy(s, x) ==
  [s EXCEPT !.proxy[x] = "closed", !.link[x] = "closed", !.bindTo = NoLink]

\* ProxyBind.close: once, and it unmaps the fake address whoever has it.
CloseProxy(s, x) ==
  IF s.proxy[x] = "closed" THEN s
  ELSE [s EXCEPT !.proxy[x] = "closed", !.link[x] = "closed", !.bindTo = NoLink]

MutPauseIf(s, x) == s

\* The nil checks around Pause and CloseConn.
PauseIf(s, x) == IF x = NoLink THEN s ELSE Pause(s, x)
CloseIf(s, x) == IF x = NoLink THEN s ELSE CloseProxy(s, x)

\* setRelayedProxy and setI2PDatagramProxy: the old proxy is closed.
SetRelayedProxy(s, x) ==
  /\ SetLinks(CloseIf(s, relayProxy))
  /\ relayProxy' = x
  /\ UNCHANGED i2pProxy

SetI2PProxy(s, x) ==
  /\ SetLinks(CloseIf(s, i2pProxy))
  /\ i2pProxy' = x
  /\ UNCHANGED relayProxy

\* evalStatus, as the handlers publish it.
Publish(relay, i2p) ==
  published' = IF relay \/ i2p THEN "connected" ELSE "connecting"

WgOutcomes == IF controller \in WgMayFail THEN BOOLEAN ELSE {TRUE}

\* EndpointUpdater.ConfigureWGEndpoint: the initiator sets the address, the
\* responder leaves it to the handshake and schedules an update.
ConfigureWG(ok) ==
  /\ wgPeer' = IF ~ok THEN wgPeer
               ELSE IF controller THEN "fake"
               ELSE IF wgPeer = "absent" THEN "noaddr" ELSE wgPeer
  /\ delayed' = (ok /\ ~controller)

\* EndpointUpdater.SwitchWGEndpoint: cancels the delayed update first.
SwitchWG(ok) ==
  /\ wgPeer' = IF ok THEN "fake" ELSE wgPeer
  /\ delayed' = FALSE

\* WgInterface.RemoveEndpointAddress, which the handlers call directly.
RemoveAddress ==
  /\ wgPeer' = IF wgPeer = "absent" THEN "absent" ELSE "noaddr"
  /\ UNCHANGED delayed

\* EndpointUpdater.RemoveWgPeer
RemoveWgPeer ==
  /\ wgPeer' = "absent"
  /\ delayed' = FALSE

MutSetStatusToDisconnected ==
  /\ prio' = None
  /\ statusRelay' = FALSE
  /\ published' = "idle"
  /\ UNCHANGED statusI2P

SetStatusToDisconnected ==
  /\ prio' = None
  /\ statusRelay' = FALSE
  /\ statusI2P' = FALSE
  /\ published' = "idle"

\* WorkerRelay.CloseConn
CloseWorkerConn(s) ==
  [s EXCEPT !.link = [x \in Links |-> IF x = worker THEN "closed" ELSE s.link[x]]]

\* scheduleI2PDatagramRetry(reason), with a the openers after the caller's
\* own step and i2p the status it reads.
Schedule(a, i2p) ==
  IF CtxOK /\ ~i2p /\ ~scheduled
    THEN /\ scheduled' = TRUE
         /\ \E g \in Retriers : a[g] = "off" /\ at' = [a EXCEPT ![g] = "sleep"]
    ELSE at' = a /\ UNCHANGED scheduled

-----------------------------------------------------------------------------
\* Conn.Open
Open ==
  /\ life = "closed"
  /\ life' = "open"
  /\ published' = "connecting"
  /\ worker' = NoLink
  /\ at' = [at EXCEPT !["init"] = "opening"]
  /\ UNCHANGED <<controller, prio, statusRelay, statusI2P, relayProxy, i2pProxy, links, wg,
                 offer, listening, relayDown, got, scheduled>>

MutCloseLinks == CloseIf(CloseWorkerConn(L), relayProxy)

\* The connections and proxies Close closes.
CloseLinks == CloseIf(CloseIf(CloseWorkerConn(L), i2pProxy), relayProxy)

\* Conn.Close up to wg.Wait: cancel the context, close the relayed connection
\* and the proxies, remove the WireGuard peer, reset the statuses.
Close ==
  /\ life = "open"
  /\ life' = "closing"
  /\ SetLinks(CloseLinks)
  /\ relayProxy' = NoLink
  /\ i2pProxy' = NoLink
  /\ RemoveWgPeer
  /\ SetStatusToDisconnected
  /\ offer' = [x \in RelayLinks |-> IF offer[x] = "opened" THEN "stale" ELSE offer[x]]
  /\ at' = [g \in Openers |-> IF at[g] = "sleep" THEN "cancelled" ELSE at[g]]
  /\ UNCHANGED <<controller, worker, listening, relayDown, got, scheduled>>

\* ... and wg.Wait, with conn.mu held, for the goroutine that opens I2P.
CloseReturns ==
  /\ life = "closing"
  /\ at["init"] = "off"
  /\ life' = "closed"
  /\ UNCHANGED <<controller, status, links, wg, relayWork, opening>>

-----------------------------------------------------------------------------
\* Where an opener goes after openI2PDatagram.
After(g) == IF g = "init" THEN "off" ELSE "clear"

\* openI2PDatagram: the registry refuses a destination that is registered on
\* a working session (I2PDatagramRegistry).
OpenI2P(g) ==
  /\ at[g] = "opening"
  /\ \A x \in I2PLinks : link[x] # "up"
  /\ \E x \in I2PLinks :
       /\ Fresh(x)
       /\ SetLinks([L EXCEPT !.link[x] = "up", !.proxy[x] = "none"])
       /\ got' = [got EXCEPT ![g] = x]
  /\ at' = [at EXCEPT ![g] = "ready"]
  /\ UNCHANGED <<controller, life, status, wg, relayWork, scheduled>>

\* ... or fails: refused, or no session.
OpenI2PFails(g) ==
  /\ at[g] = "opening"
  /\ Schedule([at EXCEPT ![g] = After(g)], statusI2P)
  /\ UNCHANGED <<controller, life, status, links, wg, relayWork, got>>

HandOver(g) ==
  /\ at' = [at EXCEPT ![g] = After(g)]
  /\ got' = [got EXCEPT ![g] = NoLink]
  /\ UNCHANGED scheduled

MutI2PReadyLate(g) ==
  /\ at[g] = "ready" /\ MuFree /\ ~CtxOK
  /\ HandOver(g)
  /\ UNCHANGED <<controller, life, status, links, wg, relayWork>>

\* onI2PDatagramConnectionIsReady after Close: the connection is not needed.
I2PReadyLate(g) ==
  /\ at[g] = "ready" /\ MuFree /\ ~CtxOK
  /\ link' = [link EXCEPT ![got[g]] = "closed"]
  /\ HandOver(g)
  /\ UNCHANGED <<controller, life, status, proxy, loop, bindTo, wg, relayWork>>

\* onI2PDatagramConnectionIsReady: I2P takes over from the relay.
I2PReady(g) ==
  LET x == got[g]
      s == Work(PauseIf(NewProxy(L, x), relayProxy), x) IN
  /\ at[g] = "ready" /\ MuFree /\ CtxOK
  /\ ConfigureWG(TRUE)
  /\ SetI2PProxy(s, x)
  /\ prio' = I2PDatagram
  /\ statusI2P' = TRUE
  /\ Publish(statusRelay, TRUE)
  /\ HandOver(g)
  /\ UNCHANGED <<controller, life, statusRelay, relayWork>>

\* ... unless WireGuard refuses the configuration; the relay stays paused.
I2PReadyFails(g) ==
  LET x == got[g]
      s == PauseIf(NewProxy(L, x), relayProxy) IN
  /\ at[g] = "ready" /\ MuFree /\ CtxOK
  /\ FALSE \in WgOutcomes
  /\ ConfigureWG(FALSE)
  /\ SetLinks(CloseProxy(IF controller THEN Work(s, x) ELSE s, x))
  /\ HandOver(g)
  /\ UNCHANGED <<controller, life, status, relayWork>>

-----------------------------------------------------------------------------
\* The retry timer fires: retry, unless that is no longer wanted.
RetryFires(g) ==
  /\ at[g] = "sleep" \/ at[g] = "cancelled"
  /\ IF CtxOK /\ ~statusI2P
       THEN at' = [at EXCEPT ![g] = "opening"] /\ UNCHANGED scheduled
       ELSE at' = [at EXCEPT ![g] = "off"] /\ scheduled' = FALSE
  /\ UNCHANGED <<controller, life, status, links, wg, relayWork, got>>

\* The context the timer waits with is cancelled; the flag stays set.
RetryCancelled(g) ==
  /\ at[g] = "cancelled"
  /\ at' = [at EXCEPT ![g] = "off"]
  /\ UNCHANGED <<controller, life, status, links, wg, relayWork, got, scheduled>>

\* After the retry: clear the flag ...
RetryClears(g) ==
  /\ at[g] = "clear"
  /\ at' = [at EXCEPT ![g] = "post"]
  /\ scheduled' = FALSE
  /\ UNCHANGED <<controller, life, status, links, wg, relayWork, got>>

MutRetryAgain(g) ==
  /\ at[g] = "post"
  /\ at' = [at EXCEPT ![g] = "off"] /\ UNCHANGED scheduled
  /\ UNCHANGED <<controller, life, status, links, wg, relayWork, got>>

\* ... and schedule the next one if I2P is still down.
RetryAgain(g) ==
  /\ at[g] = "post"
  /\ Schedule([at EXCEPT ![g] = "off"], statusI2P)
  /\ UNCHANGED <<controller, life, status, links, wg, relayWork, got>>

-----------------------------------------------------------------------------
\* WorkerRelay.OnNewOffer, run by one goroutine at a time: OpenConn ...
OfferOpens(x) ==
  /\ CtxOK
  /\ \A y \in RelayLinks : offer[y] # "opened"
  /\ Fresh(x)
  /\ SetLinks([L EXCEPT !.link[x] = "up", !.proxy[x] = "none"])
  /\ offer' = [offer EXCEPT ![x] = "opened"]
  /\ UNCHANGED <<controller, life, status, wg, worker, listening, relayDown, opening>>

\* ... then it is published in the worker, the close listener is put on the
\* server's list unless that has an equal one, and a goroutine takes the link to
\* the Conn.  A stale offer belongs to the worker of an earlier Open.
OfferPublishes(x) ==
  /\ offer[x] \in {"opened", "stale"}
  /\ worker' = IF offer[x] = "opened" THEN x ELSE worker
  /\ listening' \in {listening, TRUE}
  /\ offer' = [offer EXCEPT ![x] = "ready"]
  /\ UNCHANGED <<controller, life, status, links, wg, relayDown, opening>>

\* The multipath wrapper fails before, or AddCloseListener after, the link is
\* published.
OfferFails(x) ==
  /\ offer[x] \in {"opened", "stale"}
  /\ worker' \in IF offer[x] = "opened" THEN {worker, x} ELSE {worker}
  /\ offer' = [offer EXCEPT ![x] = "none"]
  /\ link' = [link EXCEPT ![x] = "closed"]
  /\ UNCHANGED <<controller, life, status, proxy, loop, bindTo, wg, listening, relayDown, opening>>

Accept(x) ==
  /\ offer' = [offer EXCEPT ![x] = "none"]
  /\ UNCHANGED <<worker, listening, relayDown>>

\* onRelayConnectionIsReady after Close.
RelayReadyLate(x) ==
  /\ offer[x] = "ready" /\ MuFree /\ ~CtxOK
  /\ link' = [link EXCEPT ![x] = "closed"]
  /\ Accept(x)
  /\ UNCHANGED <<controller, life, status, proxy, loop, bindTo, wg, opening>>

MutI2PActive == prio = I2PDatagram /\ statusRelay

\* isI2PDatagramActive
I2PActive == prio = I2PDatagram /\ statusI2P

\* onRelayConnectionIsReady while I2P is active: the relay is kept in reserve.
RelayReadyStandby(x) ==
  /\ offer[x] = "ready" /\ MuFree /\ CtxOK
  /\ I2PActive
  /\ SetRelayedProxy(NewProxy(L, x), x)
  /\ statusRelay' = TRUE
  /\ Publish(TRUE, statusI2P)
  /\ Accept(x)
  /\ UNCHANGED <<controller, life, prio, statusI2P, wg, opening>>

\* onRelayConnectionIsReady: the relay becomes the active transport.
RelayReady(x) ==
  /\ offer[x] = "ready" /\ MuFree /\ CtxOK
  /\ ~I2PActive
  /\ ConfigureWG(TRUE)
  /\ SetRelayedProxy(Work(NewProxy(L, x), x), x)
  /\ prio' = Relay
  /\ statusRelay' = TRUE
  /\ Publish(TRUE, statusI2P)
  /\ Accept(x)
  /\ Schedule(at, statusI2P)
  /\ UNCHANGED <<controller, life, statusI2P, got>>

RelayReadyFails(x) ==
  LET s == NewProxy(L, x) IN
  /\ offer[x] = "ready" /\ MuFree /\ CtxOK
  /\ ~I2PActive
  /\ FALSE \in WgOutcomes
  /\ ConfigureWG(FALSE)
  /\ SetLinks(CloseProxy(IF controller THEN Work(s, x) ELSE s, x))
  /\ Accept(x)
  /\ UNCHANGED <<controller, life, status, opening>>

-----------------------------------------------------------------------------
\* handleRelayDisconnectedLocked, on the links s.
RelayDisconnected(s) ==
  IF CtxOK
    THEN /\ SetLinks(CloseIf(s, relayProxy))
         /\ relayProxy' = NoLink
         /\ statusRelay' = FALSE
         /\ prio' = IF prio = Relay THEN None ELSE prio
         /\ IF prio = Relay THEN RemoveAddress ELSE UNCHANGED wg
         /\ Publish(FALSE, statusI2P)
         /\ UNCHANGED <<statusI2P, i2pProxy>>
    ELSE SetLinks(s) /\ UNCHANGED <<status, wg>>

\* handleI2PDatagramDisconnectedLocked, on the links s: back to the relay if
\* it is connected, and try I2P again later.
I2PDisconnected(s) ==
  LET t == CloseIf(s, i2pProxy)
      fallBack == prio = I2PDatagram /\ relayProxy # NoLink /\ statusRelay IN
  IF CtxOK
    THEN /\ SetLinks(IF fallBack THEN Work(t, relayProxy) ELSE t)
         /\ i2pProxy' = NoLink
         /\ statusI2P' = FALSE
         /\ \/ fallBack /\ prio' = Relay /\ \E ok \in WgOutcomes : SwitchWG(ok)
            \/ prio = I2PDatagram /\ ~fallBack /\ prio' = None /\ RemoveAddress
            \/ prio # I2PDatagram /\ UNCHANGED <<prio, wg>>
         /\ Publish(statusRelay, FALSE)
         /\ Schedule(at, FALSE)
         /\ UNCHANGED <<statusRelay, relayProxy>>
    ELSE SetLinks(s) /\ UNCHANGED <<status, wg, at, scheduled>>

\* The relay client's close listener: go conn.onRelayDisconnected().
OnRelayDown ==
  /\ relayDown /\ MuFree
  /\ relayDown' = FALSE
  /\ RelayDisconnected(L)
  /\ UNCHANGED <<controller, life, offer, worker, listening, opening>>

\* onWGDisconnected: the handshake watcher gives up on the active transport.
WGTimeoutRelay ==
  /\ MuFree /\ CtxOK /\ prio = Relay
  /\ RelayDisconnected(CloseWorkerConn(L))
  /\ UNCHANGED <<controller, life, relayWork, opening>>

WGTimeoutI2P ==
  /\ MuFree /\ CtxOK /\ prio = I2PDatagram
  /\ I2PDisconnected(L)
  /\ UNCHANGED <<controller, life, relayWork, got>>

-----------------------------------------------------------------------------
MutLoopFails(x) ==
  /\ loop[x] = "read"
  /\ link[x] # "up"
  /\ loop' = [loop EXCEPT ![x] = "off"]
  /\ UNCHANGED <<controller, life, status, link, proxy, bindTo, wg, relayWork, opening>>

\* proxyToLocal: Read fails.  A proxy that was closed just ends; otherwise the
\* disconnect listener is picked up ...
LoopFails(x) ==
  /\ loop[x] = "read"
  /\ link[x] # "up"
  /\ loop' = [loop EXCEPT ![x] = IF proxy[x] = "closed" THEN "off" ELSE "notify"]
  /\ UNCHANGED <<controller, life, status, link, proxy, bindTo, wg, relayWork, opening>>

\* ... and called, which waits for conn.mu ...
LoopNotifiesRelay(x) ==
  /\ loop[x] = "notify" /\ MuFree /\ x \in RelayLinks
  /\ RelayDisconnected([L EXCEPT !.loop[x] = "close"])
  /\ UNCHANGED <<controller, life, relayWork, opening>>

LoopNotifiesI2P(x) ==
  /\ loop[x] = "notify" /\ MuFree /\ x \in I2PLinks
  /\ I2PDisconnected([L EXCEPT !.loop[x] = "close"])
  /\ UNCHANGED <<controller, life, relayWork, got>>

\* ... and the deferred close.
LoopCloses(x) ==
  /\ loop[x] = "close"
  /\ SetLinks(CloseProxy([L EXCEPT !.loop[x] = "off"], x))
  /\ UNCHANGED <<controller, life, status, wg, relayWork, opening>>

\* The responder's fallback timer: set the address after all.
DelayedUpdate ==
  /\ delayed
  /\ \E ok \in WgOutcomes : SwitchWG(ok)
  /\ UNCHANGED <<controller, life, status, links, relayWork, opening>>

\* WireGuard learns the address from a packet a working proxy delivers.
WgLearns ==
  /\ wgPeer = "noaddr"
  /\ \E x \in Links : proxy[x] = "work" /\ loop[x] = "read" /\ link[x] = "up"
  /\ wgPeer' = "fake"
  /\ UNCHANGED <<controller, life, status, links, delayed, relayWork, opening>>

\* The far end of a link goes away.
LinkBreaks(x) ==
  /\ link[x] = "up"
  /\ link' = [link EXCEPT ![x] = "broken"]
  /\ UNCHANGED <<controller, life, status, proxy, loop, bindTo, wg, relayWork, opening>>

\* A relay server's connection drops, with the links S over it; the close
\* listeners on its list are called.  Another server may still list one.
RelayServerLost(S) ==
  /\ listening
  /\ link' = [x \in Links |-> IF x \in S THEN "broken" ELSE link[x]]
  /\ listening' \in BOOLEAN
  /\ relayDown' = TRUE
  /\ UNCHANGED <<controller, life, status, proxy, loop, bindTo, wg, offer, worker, opening>>

-----------------------------------------------------------------------------
OpenerStep(g) ==
  \/ OpenI2P(g) \/ OpenI2PFails(g)
  \/ I2PReadyLate(g) \/ I2PReady(g) \/ I2PReadyFails(g)

RetryStep(g) ==
  RetryFires(g) \/ RetryCancelled(g) \/ RetryClears(g) \/ RetryAgain(g)

OfferStep(x) ==
  \/ OfferPublishes(x) \/ OfferFails(x)
  \/ RelayReadyLate(x) \/ RelayReadyStandby(x) \/ RelayReady(x) \/ RelayReadyFails(x)

LoopStep(x) ==
  LoopNotifiesRelay(x) \/ LoopNotifiesI2P(x) \/ LoopCloses(x)

Environment ==
  \/ WGTimeoutRelay \/ WGTimeoutI2P \/ WgLearns
  \/ \E x \in Links : LinkBreaks(x)
  \/ \E S \in SUBSET {x \in RelayLinks : link[x] = "up"} : RelayServerLost(S)

Next ==
  \/ Open \/ Close \/ CloseReturns
  \/ \E g \in Openers : OpenerStep(g)
  \/ \E g \in Retriers : RetryStep(g)
  \/ \E x \in RelayLinks : OfferOpens(x) \/ OfferStep(x)
  \/ \E x \in Links : LoopFails(x) \/ LoopStep(x)
  \/ OnRelayDown
  \/ DelayedUpdate
  \/ Environment

Spec == Init /\ [][Next]_vars

\* Goroutines run, timers fire, and a read on a dead link returns.  A paused
\* proxy may be waiting to be resumed instead of reading.  Nobody has to call
\* Close, send an offer or lose a link.
FairSpec ==
  /\ Spec
  /\ WF_vars(CloseReturns)
  /\ WF_vars(OnRelayDown)
  /\ WF_vars(DelayedUpdate)
  /\ \A g \in Openers : WF_vars(OpenerStep(g))
  /\ \A g \in Retriers : WF_vars(RetryStep(g))
  /\ \A x \in RelayLinks : WF_vars(OfferStep(x))
  /\ \A x \in Links : WF_vars(LoopStep(x)) /\ WF_vars(proxy[x] = "work" /\ LoopFails(x))

-----------------------------------------------------------------------------
\* The transport packets go through, by the priority.
Active == IF prio = I2PDatagram THEN i2pProxy
          ELSE IF prio = Relay THEN relayProxy ELSE NoLink

\* The three places that say whether the peer is connected agree, whatever order
\* the ready and disconnect callbacks came in: a transport has a proxy in the
\* Conn exactly when its status is connected, and the status recorder shows
\* connected exactly while a transport is, idle while the Conn is not open.  The
\* handlers set them in different places and the fallback to the relay trusts
\* the first two.
StatusConsistent ==
  /\ statusRelay <=> relayProxy # NoLink
  /\ statusI2P <=> i2pProxy # NoLink
  /\ ~CtxOK => published = "idle"
  /\ CtxOK => published = IF statusRelay \/ statusI2P THEN "connected" ELSE "connecting"

\* The priority is always that of the best connected transport: no late or
\* repeated callback leaves the Conn on the relay while I2P is connected, or on
\* a transport that is gone.
UsesBestTransport ==
  /\ statusI2P => prio = I2PDatagram
  /\ ~statusI2P => prio = IF statusRelay THEN Relay ELSE None

\* No connection is leaked: an open link is in a slot of the Conn or on its way
\* to a callback.  A leaked I2P link would keep its destination registered, and
\* the registry would refuse every later one.
NoLinkLeaked ==
  \A x \in Links : link[x] = "up" =>
    \/ x \in {relayProxy, i2pProxy}
    \/ x \in RelayLinks /\ offer[x] # "none"
    \/ \E g \in Openers : got[g] = x

\* After Close nothing of the peer is left: no proxy that could deliver packets,
\* no WireGuard peer, no mapping of its fake address and no timer that would
\* bring the peer back.
ClosedIsQuiet ==
  ~CtxOK =>
    /\ \A x \in Links : proxy[x] \in {"none", "closed"}
    /\ wgPeer = "absent"
    /\ ~delayed
    /\ bindTo = NoLink

\* On the controller's side, and if WireGuard never refuses a configuration,
\* exactly the active transport's proxy delivers to WireGuard (the reserve relay
\* is paused or idle, and resumed when I2P goes), and WireGuard has no address
\* to send to without a transport.
OnlyActiveDelivers ==
  controller /\ controller \notin WgMayFail =>
    /\ \A x \in Links : proxy[x] = "work" <=> x = Active
    /\ prio = None => wgPeer # "fake"

\* The deferred close of a proxy's loop, which runs without conn.mu some time after
\* the disconnect listener, finds the proxy closed: it never closes the link or
\* unmaps the fake address of the transport that came meanwhile.
LateCloseHarmless ==
  [][\A x \in Links : LoopCloses(x) => UNCHANGED <<link, proxy, bindTo>>]_vars

\* A dead active link is noticed and given up: the proxy's proxyToLocal returns
\* from its read and its disconnect listener reaches the Conn, also if the Conn
\* is closed, reopened or given another link meanwhile.
DeadLinkNoticed ==
  \A x \in Links : (x = Active /\ link[x] # "up") ~> (x # Active)

\* Close returns, although it waits for the Conn's goroutines with conn.mu held.
CloseCompletes ==
  life = "closing" ~> life = "closed"

\* The flag of the retry is set and no timer is left to clear it: Close
\* cancelled the one that had set it, and Open leaves the flag as it is.
FlagLeftSet == scheduled /\ \A g \in Retriers : at[g] \in {"off", "cancelled"}

\* A peer on the relay tries the direct I2P connection again, as
\* scheduleI2PDatagramRetry arranges whenever it stays on the relay, unless a
\* flag left from before the last Close stops it.
RetryHappens ==
  (prio = Relay) ~> (prio # Relay \/ FlagLeftSet \/ \E g \in Openers : at[g] = "opening")
=============================================================================
