# AnonBird: TLA+ models and proofs

AnonBird is a NetBird fork whose peers can reach each other through anonymous
transports. This directory holds TLA+ models of the parts of it where several
goroutines share state, the TLC configurations that check them on small
instances, and TLAPS proofs of their safety properties for all instances.

Paths below are relative to `src/`.

## The system

| Part | Source | State it keeps | Talks to |
| --- | --- | --- | --- |
| Peer connection | `client/internal/peer/conn.go`, `worker_relay.go`, `endpoint.go` | current priority, status per transport, a WireGuard proxy per transport, retry flag | registry, relay manager, ICE worker, WireGuard, status recorder |
| WireGuard proxy (userspace bind) | `client/iface/wgproxy/bind/proxy.go`, `listener/listener.go`, `client/iface/bind/ice_bind.go` | paused, closed, disconnect listener, endpoint map | peer connection, WireGuard |
| I2P datagram registry | `client/internal/peer/i2p_datagram_conn.go` | managers by transport key, references, destination table, receive loop | SAM bridge, peer connection |
| ICE worker, WireGuard watcher | `client/internal/peer/worker_ice.go`, `wg_watcher.go` | agent, dialer, session ids, watcher enabled flag | peer connection (ordinary mode) |
| Relay client | `shared/relay/client/client.go`, `peer_subscription.go`, `early_msg_buffer.go` | connection to the server, connections by peer and channel, references, subscriptions, early messages | relay server, relay manager |
| Relay manager | `shared/relay/client/manager.go`, `guard.go`, `picker.go` | home client, cache of foreign clients, reconnect guards | relay client, peer connection |
| Relay server store and notifier | `relay/server/relay.go`, `peer.go`, `store/*.go` | sessions by peer and channel, listeners with their interests and event channel | relay clients |
| Handshaker and guard | `client/internal/peer/handshaker*.go`, `guard/` | latest offer, retry timers | signal, peer connection |
| Relay multipath | `client/internal/peer/relay_multipath_conn.go`, `client/internal/anonymous/multipath/flow.go` | channel health, hints | relay connections |
| Signal | `signal/`, `shared/signal/` | stream per peer | all clients |
| Engine, connection manager, lazy connections | `client/internal/engine.go`, `conn_mgr.go`, `lazyconn/` | peers and their connections | management, peer connection |
| Management, DNS, routes, firewall, UI, proxy, STUN | the remaining directories | databases, operating-system tables | |

What makes it hard: a peer connection is driven by callbacks from several
goroutines (relay offers, relay disconnects, the I2P opener and its retry timer,
ICE agents, proxy read loops, the WireGuard watcher, Open and Close), some of
which were started for a connection that has since been replaced. The I2P
registry is shared by all of them and drops its lock to create a session. The
relay client drops its lock between the steps of an open, while its read loop
ends and a new connection is made. The relay manager reacts to reports that name
an address, and the address may belong to another client by then. The relay
server holds several locks at once while it tells clients who came and went.

The first seven parts are modelled, with the omissions named below.
`PROJECT.json` lists every part, with the reason where it is left out, and every
known hazard at its line.

## Modules

| Module | Contents | Proofs |
| --- | --- | --- |
| `I2PDatagramRegistry` | registry, managers, receive loops, callers of `OpenPeerConn` | `I2PDatagramRegistryProofs` |
| `SharedSession` | what the registry promises its callers: the abstract specification | |
| `PeerConn` | one `Conn` in anonymous mode with its proxies, openers, relay worker and WireGuard peer | `PeerConnProofs` |
| `IceConn` | one `Conn` in ordinary mode with its ICE worker, agents and handshake watcher | `IceConnProofs` |
| `RelayLink` | what a relay client promises the manager: the abstract specification | |
| `RelayReports` | the same with the connections not told apart: what the manager's modules know of a client | |
| `RelayClient` | a relay client, its read loops, `OpenConnChannel` calls, subscriptions and early messages | `RelayClientProofs`, `RelayClientSubscriptionProofs` |
| `RelayHome` | the manager's home client and its reconnect guards | `RelayHomeProofs` |
| `RelayCache` | the manager's clients of foreign relays | `RelayCacheProofs` |
| `ForeignRelays` | the interface between the manager's two halves: foreign clients as the home side sees them | |
| `RelayStore` | relay sessions, store, and one subscribed client with its listener | `RelayStoreProofs` |
| `MC...` | small instances for TLC | |

Definitions whose names begin with `Mut` are faulty variants of the definition
that follows them. No specification uses them. Each property has one that
breaks it, so that no property holds whatever the code does.

The registry's abstract specification, `SharedSession`, has sessions with a set of
users and a phase (unused, live, left, failed, closed). A session begins only
while none is live, a live one is joined and not replaced, and it is closed only
after its last user has left. `I2PDatagramRegistry` implements it
(`SharesOneSession`): a manager's users are the callers that hold it, and its
phase is read off its session, its closed flag and the callers that are closing
it (`Phase`).

How the relay modules fit together:

```
RelayClient  =>  RelayLink  =>  RelayReports
                                  ^        ^
                  home clients    |        |   foreign clients
                             RelayHome   RelayCache
                     takes steps  \        /  implements
                              of   ForeignRelays
```

`RelayLink` says that a client has one connection to its server at a time and
reports the end of each exactly once. `RelayClient` implements it
(`ReportsEveryEnd`, with the mapping `Links` from the read loops to the abstract
connections). `RelayHome` and `RelayCache` know a client only by `up`, `owed`
(ended and not reported) and whether a listener is set when the report comes; the
first two are the state of `RelayReports`. `RelayClient` implements it too, by way of
`RelayLink`, and each client of the two modules is a `RelayReports` client.

The manager's two halves meet in `onServerDisconnected`, which goes by the
address. `ForeignRelays` is what the home side sees of the cache: a client comes
up at an address that is not the home relay's, and its end waits for
`relayClientMu` at most once, or it goes without a report. `RelayHome` takes its
steps `OpenConn`, `ForeignEnds` and `ForeignDisconnected` from an instance of
`ForeignRelays`, and `RelayCache` implements it (`ActsAsForeignRelays`). So nothing
the cache does with tracks, evictions and the clean-up reaches the home side in a
way `RelayHome` leaves out. In the other direction `RelayCache` keeps only the
address of the home client, which may change at any time, and lets the end of a
former home client evict the client of any address at any time
(`FormerHomeEvicts`). `RelayHome` shows when the latter can happen at all: until
`twin`, each end that waits in `onServerDisconnected` is that of the home client
(`OneReconnectAtATime`).

### I2PDatagramRegistry

One action is one critical section of `r.mu` or `m.mu`, or one call between two
of them. `pc[c]` says where caller `c` is in `OpenPeerConn`, `Close` and
`releaseManager`; `mgr[c]` is the manager it works with.

| Code | Actions |
| --- | --- |
| `retainManager`, first lock | `RetainExisting`, `RetainNone` |
| `newSession`, no lock | `NewSession`, `NewSessionFails` |
| `retainManager`, second lock | `StoreLost`, `StoreNew`, then `Start` |
| `register` | `Register`, `RegisterRefused` |
| `Close`, `unregister`, `releaseManager` | `Close`, `Unregister`, `ReleaseNotLast`, `ReleaseLast` |
| `manager.close` | `Mark`, `MarkAgain`, `Shut`, `Wait` |
| `receiveLoop` and its `closePeers` | `ReceiveFails`, `ClosePeers` |
| SAM bridge (external) | `SessionLost` |

One transport key is modelled, because managers of different keys share only the
registry lock. A manager object is used once. Datagram contents, deadlines and
the inbound queue are left out.

### PeerConn

All callbacks of `Conn` hold `conn.mu` from start to end, so each is one action,
enabled unless `Close` sits in `wg.Wait` with the mutex. Goroutines that run
without the mutex step once per blocking call. A *link* is a remote connection
together with its proxy. A link object nothing refers to may be used again for a
later connection (`Fresh`), so runs are unbounded although the set of links is
small.

| Code | Actions |
| --- | --- |
| `Open`, `Close` | `Open`, `Close` (up to `wg.Wait`), `CloseReturns` |
| `openI2PDatagram` | `OpenI2P`, `OpenI2PFails` |
| `onI2PDatagramConnectionIsReady` | `I2PReady`, `I2PReadyLate`, `I2PReadyFails` |
| `scheduleI2PDatagramRetry` | `RetryFires`, `RetryCancelled`, `RetryClears`, `RetryAgain` |
| `WorkerRelay.OnNewOffer` | `OfferOpens`, `OfferPublishes`, `OfferFails` |
| `onRelayConnectionIsReady` | `RelayReady`, `RelayReadyStandby`, `RelayReadyLate`, `RelayReadyFails` |
| disconnect callbacks and the handshake timeout | `OnRelayDown`, `LoopNotifiesRelay`, `LoopNotifiesI2P`, `WGTimeoutRelay`, `WGTimeoutI2P` |
| `ProxyBind.proxyToLocal` | `LoopFails`, `LoopNotifies...`, `LoopCloses` |
| `EndpointUpdater` | `DelayedUpdate`, and inside the callbacks |
| environment | `LinkBreaks`, `RelayServerLost`, `WgLearns` |

Left out: ICE (its worker is nil in anonymous mode), the multipath wrapper,
failure of `newProxy` and of `RemovePeer`, the kernel-mode proxies, Rosenpass
keys, metrics and the guard.

### IceConn

One life of a `Conn`, from `Open` to `Close`. The callbacks of `Conn` hold
`conn.mu`, the operations of `WorkerICE` hold `muxAgent`: each is one action. An
agent of pion/ice reports its states in order from a goroutine of its own
(`report`), and a report that calls back into `Conn` does so after it has
released `muxAgent` (`telling`).

| Code | Actions |
| --- | --- |
| `WorkerICE.OnNewOffer`, `reCreateAgent` | `OnNewOffer`, `OfferFails` |
| `connect`, with its dialer | `DialReturns`, `ConnectFails`, `ConnectDone`, `OnICEReady` |
| `onConnectionStateChange` | `ReportsUp`, `ReportsDown`, `LastKnown`, `OnICEDisconnected` |
| `Handshaker.Listen`, `updateRemoteICEState` | `RemoteICEStops`, `ListenEnds` |
| `onRelayConnectionIsReady`, `onRelayDisconnected` | `OnRelayReady`, `OnRelayDisconnected` |
| `enableWgWatcherIfNeeded`, `WGWatcher` | `WatcherStarts`, `WatcherResets`, `WatcherStops`, `HandshakeTimeout`, `OnWGDisconnected`, `WatcherLeaves` |
| `Conn.Close` | `Close` |
| agent (external) | `IceConnects`, `IceBreaks` |

`Listen` takes offers until it sees that the `Conn` is closed, so an offer may be
handled after `Close` (`listening`). ICE has one priority here, whether direct or over TURN; what differs, whether
the watcher is reset, is a choice in `OnICEReady`. Proxies and WireGuard's
configuration are those of `PeerConn`. Candidates, port forwarding and handshake
times are left out: a timeout may come at any moment.

### RelayClient

Each `Connect` makes a generation: a socket, a read loop and a subscription.
`c.mu` and the subscription's mutex are held for short sections, which are single
actions. `readLoopMutex` is held while `close` waits for the read loop; `closing`
says by whom.

| Code | Actions |
| --- | --- |
| `Connect`, `Close` | `Connect`, `Close`, `CloseReturns` |
| `readLoop`, its end and its report | `LoopExits`, `LoopCleansUp`, `LoopCloses`, `LoopCloseReturns`, `LoopNotifies` |
| `handleTransportMsg` | `LoopReceives`, `LoopLooksUp`, `LoopDelivers`, and `EarlyExpires` for the buffer's timer |
| `handlePeersOnlineMsg`, `handlePeersWentOfflineMsg` | `PeerOnline`, `PeerOffline`, `LoopDropsPeer` |
| `OpenConnChannel`, section by section | `OpenStarts`, `OpenSubscribes`, `OpenSent`, `OpenWakes`, `OpenGivesUp`, `OpenFails`, `OpenCounts`, `OpenReturns` |
| `Conn.Close`, `closeConn` | `ConnCloses` |
| network (external) | `SockBreaks` |

`got`, `born` and `crossed` are history variables for the properties. The wire
format, the handshake, health-check times and the data path of a connection are
left out.

### RelayHome

| Code | Actions |
| --- | --- |
| `Serve`, `storeClient` | `ServePicks`, `ServeFails`, `ServeStores` |
| `onServerDisconnected` | `ServerDisconnected`, `ForeignDisconnected` |
| `Guard.StartReconnectTrys` | `QuickWaits`, `QuickFails`, `QuickReconnects`, `NotifyReconnected`, `RetryPicks`, `RetryDrains`, `RetrySends` |
| `listenGuardEvent` | `StoreNewClient`, `Announce` |
| `UpdateServerURLs` | `UpdateServerURLs` |
| `ServerPicker.PickServer` | inside `ServePicks` and `RetryPicks`; `LateWinner` |
| home clients, as `RelayReports` has them | `Drop`, `Tell` |
| foreign clients, as `ForeignRelays` has them | `OpenConn`, `ForeignEnds`, and `ForeignDisconnected` above |

A relay's instance address and the address it was dialled at are one address
here and in `RelayCache`. Events of home clients with the same address that wait
for the lock at the same time are one event; each foreign client has its own.
`PickServer` gives up after a time, but its attempts go on; the first that still
connects stays in a channel nobody reads, connected and without a listener
(`late`). `missed` and `twin` are history variables that name the exceptions of
the properties.

### RelayCache

| Code | Actions |
| --- | --- |
| `openConnVia`, client in the table | `OpenCached`, `TrackLocked` |
| `openConnVia`, new client | `OpenForeign`, `ForeignConnects`, `ForeignReady`, `ForeignFails`, `DeleteTrack` |
| `OpenConnChannel` on the client, `Conn.Close` | `ConnStarts`, `ConnReturns`, `ConnFails`, `ConnCloses` |
| `onServerDisconnected` | `ServerDisconnected`, `EvictForeignRelay`, `FormerHomeEvicts` |
| `cleanUpUnusedRelays` | `CleanUp`, `CleanUpLocks`, `CleanUpVisits`, `CleanUpEnds`, `CleanUpCloses`, `TrackAges` |
| clients and the home relay | `Drop`, `Tell`, `HomeMoves` |

`relayClientMu` is read-locked by a whole call, which is why the home relay moves
and events are handled between calls only (`Reading`). `relayClientsMutex` and a
track's lock appear as predicates on where their holders are (`TableBusy`,
`TrackBusy`); a writer that waits keeps new readers out (`WriterWaits`), as Go's
`RWMutex` does. `reaped` and `strayed` are history variables: the clean-up removed
a client whose end was still to be handled; the end of a former home client took a
foreign one out of the table.

### RelayStore

A session is one accepted connection, with a peer id and a channel that name its
slot in the store. One other client, the watcher, subscribes to peers. The locks
that can block each other are modelled as predicates on where their holders are:
a sender that waits at a full `eventChan` holds `listenersMutex` and the
listener's `mu`, the subscription handler holds `notificationMutex` and
`peersLock`.

| Code | Actions |
| --- | --- |
| `Relay.Accept` | `Accept`, `AddPeer`, `PeerCameOnline` |
| goroutine of a session | `Work`, `WorkReturns`, `DeletePeer`, `LastLeft`, `PeerWentOffline` |
| `Relay.Shutdown` | `Shutdown` |
| `handleSubscribePeerState` | `Subscribe`, `Collect`, `Respond` |
| `handleUnsubscribePeerState` | `Unsubscribe` |
| `listenForEvents` | `Drain`, `SendPeersOnline`, `SendPeersWentOffline` |
| clients | `ConnCloses` |

`known` is what the messages sent so far told the client. A peer it has once
unsubscribed from (`dropped`) is not followed any further, since a message
already on its way may then say anything. `overtaken` is a history variable: the
peers of which a session was replaced after `AddPeer` and before it was announced.
Transport forwarding, rate limiting
and health-check timing are left out; Go's preference of writers over readers in
an `RWMutex` is not modelled.

## Runs

| Run | Instance | Distinct states | Shows |
| --- | --- | --- | --- |
| `registry` | 3 callers, 2 for one destination, 2 managers | 377,048 | references, destination table and ownership of sessions; the registry implements `SharedSession`; releases complete; a lost session reaches every reader |
| `peerconn` | both sides, the responder with WireGuard errors; 2 relay links, 2 I2P links, 1 retry goroutine | 4,764,436 | status, priority, proxies and WireGuard stay consistent; the late close of an old proxy does not touch the new one |
| `peerconn_live` | initiator; 1 link of each kind, 2 retry goroutines | 85,804 | a dead active transport is noticed; a peer on the relay retries I2P |
| `ice_conn` | 2 agents, 2 watchers, 2 remote sessions | 4,812,435 | no agent leaked, one watcher, the priority names a connected transport, no transport or watcher comes back after Close |
| `relay_client` | 2 connections to the server, 2 opens, 3 channels of 2 peers | 8,265,989 | references, table, early messages and subscriptions stay consistent across reconnects |
| `relay_client_live` | the same with 1 open | 233,737 | opens and closes return; `RelayClient` implements `RelayLink`, its fairness included |
| `relay_home` | 2 addresses, 2 server lists, 2 clients, 1 foreign client, 2 guards | 924,086 | a home relay that goes down is reconnected to, once at a time, and announced |
| `relay_cache` | 1 foreign address the home relay may take, 2 clients, 2 calls | 340,766 | the clean-up spares clients with connections and those a call has found in the table, no live client is lost from the table, calls return, dead clients leave; no deadlock |
| `relay_store` | 3 sessions of a peer, 2 of one slot, capacity 2 | 1,017,656 | the store holds the open session of each slot; `Shutdown` leaves none open; a departure is on its way to the client |

Three more runs expect a violation. Each states what a comment of the repository
says, and TLC shows that the code does otherwise:

- `peerconn_close_blocks`: `Close` waits for the I2P opener with `conn.mu` held;
  the opener needs `conn.mu`.
- `relay_home_lost`: a connection that ends after `PickServer` returned it and
  before `storeClient` has set its listener is reported to nobody, and the
  manager does not reconnect.
- `ice_unwatched`: `IsEnabled` stays true until a cancelled watcher has returned.
  A transport that becomes ready in between only resets that watcher and is left
  without one.

### What does not hold

Some properties are stated with an exception, because without it TLC finds a
behaviour of the code that breaks them. Each is a hazard in `PROJECT.json`.

- A receive error marks an I2P manager closed, so the last `Close` leaves its SAM
  session open. `OpenSessionHasOwner` says that there is no other way to leak one.
- A retry cancelled by `Close` leaves `i2pDatagramRetryScheduled` set, so the
  reopened connection never retries (excluded from `RetryHappens`).
- If WireGuard refuses the I2P endpoint, the paused relay is not resumed
  (excluded from `OnlyActiveDelivers`).
- Closing the reserve relay's proxy unmaps the fake address the active I2P proxy
  is using.
- A responder's delayed endpoint update can set the address after the transport
  has gone (`OnlyActiveDelivers` is stated for the initiator).
- `WorkerICE.Close` leaves `InProgress` true without an agent. A late disconnect
  of an old agent resets the priority although the relay works. A disconnect that
  overtakes its own ready callback leaves a dead ICE connection active. The
  handshake timeout does not end it, as `WorkerICE.Close` returns when there is no
  agent; only the connection of a later offer or `Conn.Close` does.
- An offer that `Listen` takes after `Conn.Close` still makes an agent. Its dialer
  is cancelled, so the dial closes the agent, unless that connects first
  (`ClosedIsQuiet`).
- A relay client that is connected again before its old read loop has finished is
  closed by that loop; the end is still reported. An open whose container was
  removed meanwhile can take the peer out of the subscription of the connection
  opened since (`crossed`).
- The end of a foreign client may be taken for the home relay's when that has
  moved to the same address (`twin`). The late event of a client the clean-up
  removed evicts its successor (`reaped`), and the late event of a former home
  client evicts the foreign client at its address (`strayed`).
- A server that connects after `PickServer` has timed out stays connected with
  nobody to close it (`late`).
- Of a drained batch of relay events online is sent before offline, whatever their
  order. A session whose peer's other session leaves while it is being accepted is
  not announced, as `wasOnline` is read first. A session that is replaced before it
  announces itself may announce a peer that has left (`overtaken`). With a full event channel, sender,
  subscription handler and listener wait for one another.

### Bounds

Two links of each kind are what an old and a new connection of a transport need
to meet. Two retry goroutines overlap when one is still running as the next is
scheduled: that is when the retry flag matters, and `peerconn_live` has them.
Three callers and two managers allow a shared manager, a second caller for a
destination, and a manager that replaces a failed one. When all manager objects
are used up, a caller that needs another one gets only an error. Two agents let
an attempt fail while the next one runs, two watchers let a new one start before
the old one has returned; agents and watchers that have finished are used again.
Two generations of a relay client are what an old read loop and a new connection
need; three channels give one peer two, so that its reference count passes
through 2, and `Talking` limits transport messages to one of them, whose handling
is the same for all. Two guards overlap when a second end is reported during a
reconnect; `MaxOwed` is 1: a client does not lose another connection before
the end of the last was reported. This cuts off nothing but what follows a
foreign client's end that was taken for the home relay's: before that a client
that is up owes no report, for every `MaxOwed` (`OneAtATime`, below). One foreign
client at a time is enough for its end to be taken for the home relay's while the
guards are in any state; with two, or with three home clients, the two invariants
hold as well (2,854,510 and 61,629,450 states), without the liveness properties. A
late winner takes one of the two clients. Server lists with and without an address make the quick
reconnect impossible or possible. Three sessions allow a replacement next to
another channel. The relay server's channel capacity is 244
in the code: 2 makes senders block.

Each detailed module has a type invariant `TypeOK`, which is proved.

`peerconn`, `ice_conn` and `relay_client` use symmetry; they check safety
properties only. Deadlock is checked in `registry`, `relay_home` and `relay_cache`. Elsewhere
the system may stop: a relay client that has used its generations and a closed
`Conn` have nothing left to do, `PeerConn` and `RelayStore` can block as described
above.

### Fairness

Goroutines that can run do run (weak fairness on their steps). In the registry,
`Receive` returns once its session is lost or closed. In `PeerConn`, the read of
a proxy that is delivering returns when its link is broken; a paused proxy need
not notice, and a dialling opener returns. In `RelayClient`, a read on a dead
socket fails and the wait for a peer times out. In `RelayHome`, `PickServer`
finds a server some time, since the guard retries without end. In `RelayCache`,
the clean-up ticks, an unused track becomes old, and the steps that take
`relayClientsMutex` for writing are strongly fair, because a Go `RWMutex` does not
let new readers pass a waiting writer. Nobody is obliged to open, close, connect,
subscribe, send an offer or lose a link. Two assumptions of `RelayHome` are about
the bound only: a client nobody points to, a late winner for instance, ends some
time, which frees its place in `Clients`; and the guard's `PickServer` is strongly
fair, as late winners may take the free place again and again. The code has no such
limit.

## Proofs

The theorems hold for all values of the constants that satisfy the modules'
`ASSUME`s: finitely many callers in the registry, finitely many keys in the relay
client, any positive capacity in the relay store, and null values that are not
members of the other sets.

**Registry.** `RefsMatchHolders`, `SessionOpenWhileHeld`, `OpenSessionHasOwner`,
`PeerTableExact`, `NoOrphanReader` and `TypeOK` follow from one inductive invariant. The reference count alone is
not inductive: that a last release may close the manager needs the registry entry
to have a holder, a manager not yet stored to be known to its creator only, and a
manager that is being closed to have no holder (`Sharing`). The table needs that a
manager whose loop has ended is marked closed, so that nobody registers with it
after its connections were closed (`Table`). Sessions have an owner because a
manager is marked closed either by a failed loop or by a caller that goes on to
close the session, and because a loop is started once (`Owned`).

The invariant also gives the refinement (`ImplementsSharedSession`). `Sharing` says
that a manager in use that has not failed is the one in the registry
(`LiveManagerIsCurrent`). So `StoreNew`, which finds the registry without a usable
manager, begins a session while none is live, and `RetainExisting` and `StoreLost`
join the live one. The last release takes the manager out of the registry in the
same section, so nobody joins a session that was left. Every other step keeps
users and phases, except a failing loop and the closing of the session. The
waiting part of `ReleaseCompletes` is proved too: who waits for the loop in
`close()` has closed its session (`WaitsForClosedSession`).

**Peer connection.** `StatusConsistent`, `UsesBestTransport`, `NoLinkLeaked`,
`ClosedIsQuiet` and `OnlyActiveDelivers` are proved together, as each callback
relies on what the others left behind. The link an opener or an offer brings is
known to nobody else (`Hands`) and has neither slot nor loop (`Coming`), so putting
it in a slot disturbs no other connection. The proxies in the slots are exactly
those that are not closed, and a loop that has called its listener has lost its
slot (`Slotted`), which is why its deferred close does nothing
(`LateCloseHarmless`, an action property). A Conn that is not open has no
connected transport (`Recorded`), and an initiator no delayed update
(`InitiatorNow`). What `Work`, `Pause` and `CloseConn` do to links and proxies is
stated once, in lemmas about the operators.

**Relay client.** `Loops`: a running client has the read loop of its connection,
and one that still reads after the end is waited for. It gives the refinement:
every step of `RelayClient` is a step of `RelayLink` or leaves `Links` as it is
(`ImplementsRelayLink`, the safety part; the fairness part is checked by
`relay_client_live`). Each step of `RelayLink` in turn is one of `RelayReports`, with
the number of ended and unreported connections as what is owed
(`ImplementsRelayReports`; the set of connections may be infinite, as only finitely
many have ended). `Loops` also gives the safety part of `CloseCompletes`: whoever is in
`close()` has `readLoopMutex` to itself and waits only for the loop of the
connection it has closed, which does not take that mutex before it is done
(`CloseWaitsForItsLoop`). `Containers` and `Messages` say which connection the
containers of the table and the messages on their way belong to, and give
`NoOrphanConn`, `StoppedIsEmpty` and `NoStaleDelivery`. `RefsCountConns` is
inductive with them: each section of `OpenConnChannel` and of the closing paths
changes the count and the counted set by the same connection, or neither. `TypeOK`
needs that an opener has a key and a running client a generation (`SubTypes`).
`OfflineHeard` speaks of returned channels, but is not inductive on them: a peer
has to be listened for from the subscription on (`Heard`), and a caller that gives
up must not take another's peer with it. So a waiting caller is the one its
subscription knows and was not woken (`Waiters`), and still owns the container in
the table unless its peer was crossed (`Owned`).

**Home relay.** `HomeEndHandled` needs that a client picked and not stored yet is
up, owes a report or was missed (`Unheard`), and has one holder only (`Pending`),
so that storing it keeps the property; and that the home client has its listener
(`HomeListens`). `OneReconnectAtATime` holds until a foreign client's end is taken
for the home relay's (`Orderly`). Until then the home client's connection, the end
it owes, the event, the reconnect and the new client in the channel exclude one
another (`OneAtATime`). This needs that a replaced client is down and owes nothing,
that a guard at work has the home client (`Places`), and that the connected clients
nobody points to are the late winners (`NoStray`), which have no listener. `ComposesForeignRelays` says that the home side's moves
and its foreign clients together are a behaviour of `ForeignRelays` (a home client
always has an address, `Addressed`), and `ClientsReport` that each home client is a
`RelayReports` client.

**Cache.** `CleanUpSparesUsed` needs that a call which waits for a track is about
one in the table, as only holders of `relayClientsMutex` remove a track
(`Locking`). `LiveClientTracked` needs that a client has one creator (`Creators`),
ends once (`Ends`), and is in the table while its end is still to be reported
(`Tracked`, with the two exceptions `reaped` and `strayed`). The lock order is proved as well. A track is locked for writing only
while its creator connects (`Connecting`), so whoever holds a track's lock waits
for no other lock of the manager (`TrackHoldersRun`), and calls and clean-up are
never all waiting for one another (`NoLockCycle`). The cache implements
`ForeignRelays` (`ImplementsForeignRelays`). A client has an address there from
`OpenForeign` on, until it has failed or ended and its event has the lock; a report
sent to no listener is its vanishing. That no end reaches `onServerDisconnected`
twice rests on `Ends`. Each of its clients is a `RelayReports` client
(`ClientsReport`). That each call then returns
(`OpenCompletes`) needs fairness and is left to TLC.

**ICE.** `AgentsOwned`, `InProgressBacked`, `ActiveIsConnected` and `OneWatcher`
are each inductive given the types, `ClosedIsQuiet` given `AgentsOwned`. `TypeOK`
bounds the queue of an agent's reports, which needs to know what has happened to
the agent (`Reports`).

**Relay store.** `TypeOK` is inductive. `Storage` adds that a session is not
stored before `AddPeer`, that it is torn down only after its connection closed,
and that no `Accept` is under way once the relay is closed. It gives
`OpenIsStored` and `ShutdownLeavesNone`, also for peers that reconnect.
`Reporting` gives `OfflineOnItsWay`. It says of each stage of an online report
(the channel, the drained batch, a response being sent, what the client knows)
that the client is interested in offline events of that peer and that, if the
peer has gone and was not overtaken, the offline event comes later. Sessions may
replace one another: one that is about to announce a peer that was not overtaken
is still stored (`AnnouncedIsStored`), so its offline event is yet to come.

Every invariant, every action property and every refinement that a passing run
checks is proved, except for the fairness of `RelayLink`. Shown by TLC only, because
TLAPS handles neither fairness nor `ENABLED`: that fairness and the properties
`ReleaseCompletes`, `FailureReachesReaders`, `DeadLinkNoticed`, `RetryHappens`,
`OpenCompletes` (of the relay client and of the cache), `CloseCompletes` (of the
relay client), `HomeReconnects`, `ReconnectAnnounced` and `DeadClientLeavesCache`;
and the three violations. `WaitsForClosedSession`, `CloseWaitsForItsLoop`,
`TrackHoldersRun` and `NoLockCycle` are the parts of these that are safety: nobody
waits for something that waits for them.

## Not modelled

- Handshaker, offer listener and the peer's guard, but for the end of `Listen` and
  `updateRemoteICEState`, which `IceConn` has: `PeerConn` and `IceConn` let an offer
  arrive at any time and any number of times, which contains every schedule of
  these. What remains is timers.
- Engine, connection manager and lazy connections: they call `Open` and `Close`,
  which the peer models allow at any time; the engine's own state is under one
  lock.
- Relay multipath, the data paths of the registry, the proxies and the relay
  connections: packets are spread, queued and dropped by measurement and load,
  with no promise about order or delivery.
- The manager's close listeners are compared by code pointer, which is a matter of
  Go's representation of method values. Dedicated anonymous channels
  (`openDedicatedConn`) are clients outside the cache, used by one connection.
- The losers of `PickServer`: a server that answers after the winner is closed, and
  has no listener that would hear of it.
- Signal: one map entry per peer, replaced atomically; the rest is gRPC streaming.
- SAM sessions and wire formats: protocols with other programs.
- Management, DNS, routes, firewall, UI, reverse proxy, STUN: database-backed
  business logic, effects in the operating system, and user interface. They are
  most of the repository's lines and have no state machine of their own that the
  source keeps in memory across goroutines.
- `PeerConn` and the registry are not composed: `PeerConn` takes from it that an
  open returns a connection or fails, and that a lost session ends the read, which
  are `RegisterRefused`, `Register` and `FailureReachesReaders`.
