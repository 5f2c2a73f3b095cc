------------------------------ MODULE IceConn ------------------------------
(***************************************************************************)
(* peer.Conn of a client in ordinary mode: WorkerICE with its agents       *)
(* (client/internal/peer/worker_ice.go), the WireGuard watcher             *)
(* (wg_watcher.go), and the callbacks of Conn (conn.go) that ICE, the relay*)
(* and the watcher call.                                                   *)
(*                                                                         *)
(* The callbacks of Conn hold conn.mu and the operations of WorkerICE      *)
(* muxAgent: each is one action.  An agent (pion/ice) reports its states in*)
(* order, from a goroutine of its own.  One life of a Conn, from Open to   *)
(* Close; WireGuard accepts every configuration; the relay is its status;  *)
(* ICE's priority is one, whether direct or over TURN.                     *)
(***************************************************************************)
EXTENDS Naturals, Sequences

CONSTANTS
  Agents,    \* ICE agents, each with its connect goroutine
  Watchers,  \* goroutines of enableWgWatcherIfNeeded alive at once
  Sessions,  \* session ids of the remote peer's offers
  None

ASSUME IceConnAssumption == None \notin Agents \cup Watchers \cup Sessions

VARIABLES
  open,        \* conn.ctx is not cancelled
  listening,   \* Handshaker.Listen runs
  prio,        \* conn.currentConnPriority: "none", "relay" or "ice"
  statusICE,   \* statusICE is connected
  relay,       \* statusRelay is connected and wgProxyRelay is set
  \* WorkerICE
  agent,       \* w.agent
  dialer,      \* the agent of w.agentDialerCancel
  connecting,  \* w.agentConnecting
  sess,        \* w.remoteSessionID
  lastKnown,   \* w.lastKnownState is Connected
  \* agents
  ice,         \* "free", "new", "up", "lost" (it was up), "failed" or "closed"
  report,      \* the states it has yet to report: a sequence of "up", "down"
  telling,     \* its report of the end: "no", "known" (it is about to read
               \* lastKnownState) or "conn" (to call onICEStateDisconnected)
  run,         \* its connect: "off", "dial", "won" or "ready"
  cancelled,   \* its dialer's context is
  \* WGWatcher
  enabled,
  resetCh,     \* resetCh holds a token
  watch,       \* "off", "start", "check", "timeout" or "leave"
  stopped,     \* the watcher's context is cancelled
  cancel       \* the watcher of conn.wgWatcherCancel

conn == <<open, listening, prio, statusICE, relay>>
worker == <<agent, dialer, connecting, sess, lastKnown>>
agents == <<ice, report, telling, run, cancelled>>
watcher == <<enabled, resetCh, watch, stopped, cancel>>
vars == <<conn, worker, agents, watcher>>

Offers == Sessions \cup {None}  \* None: an old client sends no session id

TypeOK ==
  /\ open \in BOOLEAN /\ listening \in BOOLEAN
  /\ prio \in {"none", "relay", "ice"}
  /\ statusICE \in BOOLEAN
  /\ relay \in BOOLEAN
  /\ agent \in Agents \cup {None}
  /\ dialer \in Agents \cup {None}
  /\ connecting \in BOOLEAN
  /\ sess \in Offers
  /\ lastKnown \in BOOLEAN
  /\ ice \in [Agents -> {"free", "new", "up", "lost", "failed", "closed"}]
  /\ report \in [Agents -> Seq({"up", "down"})] /\ \A x \in Agents : Len(report[x]) <= 3
  /\ telling \in [Agents -> {"no", "known", "conn"}]
  /\ run \in [Agents -> {"off", "dial", "won", "ready"}]
  /\ cancelled \in [Agents -> BOOLEAN]
  /\ enabled \in BOOLEAN
  /\ resetCh \in BOOLEAN
  /\ watch \in [Watchers -> {"off", "start", "check", "timeout", "leave"}]
  /\ stopped \in [Watchers -> BOOLEAN]
  /\ cancel \in Watchers \cup {None}

Init ==
  /\ open = TRUE /\ listening = TRUE /\ prio = "none" /\ statusICE = FALSE /\ relay = FALSE
  /\ agent = None /\ dialer = None /\ connecting = FALSE /\ sess = None /\ lastKnown = FALSE
  /\ ice = [x \in Agents |-> "free"]
  /\ report = [x \in Agents |-> <<>>]
  /\ telling = [x \in Agents |-> "no"]
  /\ run = [x \in Agents |-> "off"]
  /\ cancelled = [x \in Agents |-> FALSE]
  /\ enabled = FALSE /\ resetCh = FALSE
  /\ watch = [k \in Watchers |-> "off"]
  /\ stopped = [k \in Watchers |-> FALSE]
  /\ cancel = None

-----------------------------------------------------------------------------
\* An agent that is gone stands for the next one.
Free(x) ==
  /\ ice[x] \in {"free", "closed"}
  /\ report[x] = <<>> /\ telling[x] = "no" /\ run[x] = "off"
  /\ x # agent

\* Its Close was not called yet.
Alive(x) == ice[x] \in {"new", "up", "lost", "failed"}

\* ThreadSafeAgent.Close of the agents in S: the first call makes each report
\* that it is closed.
CloseAgents(S) ==
  LET T == {x \in S : Alive(x)} IN
  [ice |-> [x \in Agents |-> IF x \in T THEN "closed" ELSE ice[x]],
   report |-> [x \in Agents |-> IF x \in T THEN Append(report[x], "down") ELSE report[x]]]

SetAgents(a) == ice' = a.ice /\ report' = a.report

-----------------------------------------------------------------------------
\* startOrResetWgWatcher
StartOrReset ==
  IF enabled
    THEN /\ resetCh' = TRUE
         /\ UNCHANGED <<enabled, watch, stopped, cancel>>
    ELSE \E k \in Watchers :
         /\ watch[k] = "off"
         /\ watch' = [watch EXCEPT ![k] = "start"]
         /\ stopped' = [stopped EXCEPT ![k] = FALSE]
         /\ cancel' = k
         /\ UNCHANGED <<enabled, resetCh>>

\* disableWgWatcherIfNeeded, with priority p
Disable(p) ==
  IF p = "none" /\ cancel # None
    THEN /\ stopped' = [stopped EXCEPT ![cancel] = TRUE]
         /\ cancel' = None
    ELSE UNCHANGED <<stopped, cancel>>

MutRelayDown ==
  /\ relay' = FALSE
  /\ prio' = prio
  /\ Disable(prio')

\* handleRelayDisconnectedLocked
RelayDown ==
  /\ relay' = FALSE
  /\ prio' = IF prio = "relay" THEN "none" ELSE prio
  /\ Disable(prio')

\* onRelayConnectionIsReady; the connection may replace another.
OnRelayReady ==
  /\ open
  /\ relay' = TRUE
  /\ IF prio = "ice" /\ statusICE
       THEN UNCHANGED <<prio, watcher>>
       ELSE prio' = "relay" /\ StartOrReset
  /\ UNCHANGED <<open, listening, statusICE, worker, agents>>

\* onRelayDisconnected
OnRelayDisconnected ==
  /\ open
  /\ relay
  /\ RelayDown
  /\ UNCHANGED <<open, listening, statusICE, worker, agents, enabled, resetCh, watch>>

-----------------------------------------------------------------------------
Busy == agent # None \/ connecting

\* WorkerICE.OnNewOffer, called by Handshaker.Listen, which may still do so after
\* Close.  An agent that is there for this session, or for an old client, is kept;
\* otherwise it is closed, and reCreateAgent makes another, whose dialer lives no
\* longer than the Conn, ...
Recreates(s) == Busy => s \notin {None, sess}

MutOnNewOffer(s, x) ==
  LET a == CloseAgents({}) IN
  /\ listening
  /\ Recreates(s)
  /\ Free(x)
  /\ ice' = [a.ice EXCEPT ![x] = "new"]
  /\ report' = a.report
  /\ cancelled' = [y \in Agents |-> IF y = x THEN ~open ELSE cancelled[y] \/ (Busy /\ y = dialer)]
  /\ run' = [run EXCEPT ![x] = "dial"]
  /\ agent' = x
  /\ dialer' = x
  /\ connecting' = TRUE
  /\ sess' = s
  /\ UNCHANGED <<conn, lastKnown, telling, watcher>>

OnNewOffer(s, x) ==
  LET a == CloseAgents({agent} \ {None}) IN
  /\ listening
  /\ Recreates(s)
  /\ Free(x)
  /\ ice' = [a.ice EXCEPT ![x] = "new"]
  /\ report' = a.report
  /\ cancelled' = [y \in Agents |-> IF y = x THEN ~open ELSE cancelled[y] \/ (Busy /\ y = dialer)]
  /\ run' = [run EXCEPT ![x] = "dial"]
  /\ agent' = x
  /\ dialer' = x
  /\ connecting' = TRUE
  /\ sess' = s
  /\ UNCHANGED <<conn, lastKnown, telling, watcher>>

\* ... or fails.
OfferFails(s) ==
  /\ listening
  /\ Recreates(s)
  /\ SetAgents(CloseAgents({agent} \ {None}))
  /\ cancelled' = [y \in Agents |-> cancelled[y] \/ (Busy /\ y = dialer)]
  /\ agent' = None
  /\ UNCHANGED <<conn, dialer, connecting, sess, lastKnown, telling, run, watcher>>

\* WorkerICE.Close
CloseWorker ==
  IF agent = None
    THEN UNCHANGED <<ice, report, cancelled, agent>>
    ELSE /\ SetAgents(CloseAgents({agent}))
         /\ cancelled' = [cancelled EXCEPT ![dialer] = TRUE]
         /\ agent' = None

\* updateRemoteICEState: the remote peer has stopped sending ICE credentials.
RemoteICEStops ==
  /\ listening
  /\ agent # None
  /\ CloseWorker
  /\ UNCHANGED <<conn, dialer, connecting, sess, lastKnown, telling, run, watcher>>

\* Handshaker.Listen sees that the Conn is closed.
ListenEnds ==
  /\ listening /\ ~open
  /\ listening' = FALSE
  /\ UNCHANGED <<open, prio, statusICE, relay, worker, agents, watcher>>

\* The agent connects, and loses the connection.
IceConnects(x) ==
  /\ ice[x] = "new"
  /\ ice' = [ice EXCEPT ![x] = "up"]
  /\ report' = [report EXCEPT ![x] = Append(@, "up")]
  /\ UNCHANGED <<conn, worker, telling, run, cancelled, watcher>>

IceBreaks(x) ==
  /\ ice[x] \in {"new", "up"}
  /\ ice' = [ice EXCEPT ![x] = IF @ = "up" THEN "lost" ELSE "failed"]
  /\ report' = [report EXCEPT ![x] = Append(@, "down")]
  /\ UNCHANGED <<conn, worker, telling, run, cancelled, watcher>>

\* closeAgent with the agent x and the dialer of agent d.  The worker forgets
\* the agent if it still is x.
ForgetAgent(x, d) ==
  /\ cancelled' = [y \in Agents |-> cancelled[y] \/ y = d]
  /\ IF agent = x
       THEN agent' = None /\ connecting' = FALSE /\ sess' = None
       ELSE UNCHANGED <<agent, connecting, sess>>

\* connect: the dial succeeds, ...
DialReturns(x) ==
  /\ run[x] = "dial"
  /\ ice[x] \in {"up", "lost"}
  /\ run' = [run EXCEPT ![x] = "won"]
  /\ UNCHANGED <<conn, worker, ice, report, telling, cancelled, watcher>>

\* ... or something fails and closes the agent, with whatever dialer the worker
\* has by now; ...
ConnectFails(x) ==
  /\ run[x] \in {"dial", "won"}
  /\ run' = [run EXCEPT ![x] = "off"]
  /\ SetAgents(CloseAgents({x}))
  /\ ForgetAgent(x, dialer)
  /\ UNCHANGED <<conn, dialer, lastKnown, telling, watcher>>

MutConnectDone(x) ==
  /\ run[x] = "won"
  /\ run' = [run EXCEPT ![x] = "ready"]
  /\ UNCHANGED <<conn, agent, dialer, connecting, sess, lastKnown, ice, report, telling, cancelled, watcher>>

\* ... the attempt is over ...
ConnectDone(x) ==
  /\ run[x] = "won"
  /\ run' = [run EXCEPT ![x] = "ready"]
  /\ connecting' = FALSE
  /\ UNCHANGED <<conn, agent, dialer, sess, lastKnown, ice, report, telling, cancelled, watcher>>

MutOnICEReady(x) ==
  /\ run[x] = "ready"
  /\ run' = [run EXCEPT ![x] = "off"]
  /\ prio' = "ice" /\ statusICE' = TRUE /\ StartOrReset
  /\ UNCHANGED <<open, listening, relay, worker, ice, report, telling, cancelled>>

\* ... and onICEConnectionIsReady makes ICE the active transport; a TURN path
\* leaves a direct one active, and its watcher alone.
OnICEReady(x) ==
  /\ run[x] = "ready"
  /\ run' = [run EXCEPT ![x] = "off"]
  /\ IF open
       THEN /\ prio' = "ice" /\ statusICE' = TRUE
            /\ StartOrReset \/ (prio = "ice" /\ UNCHANGED watcher)
       ELSE UNCHANGED <<prio, statusICE, watcher>>
  /\ UNCHANGED <<open, listening, relay, worker, ice, report, telling, cancelled>>

\* onConnectionStateChange: Connected is noted; ...
ReportsUp(x) ==
  /\ report[x] # <<>> /\ Head(report[x]) = "up" /\ telling[x] = "no"
  /\ report' = [report EXCEPT ![x] = Tail(@)]
  /\ lastKnown' = TRUE
  /\ UNCHANGED <<conn, agent, dialer, connecting, sess, ice, telling, run, cancelled, watcher>>

\* ... Failed, Disconnected or Closed closes the agent and, ...
ReportsDown(x) ==
  LET a == CloseAgents({x}) IN
  /\ report[x] # <<>> /\ Head(report[x]) = "down" /\ telling[x] = "no"
  /\ ice' = a.ice
  /\ report' = [a.report EXCEPT ![x] = Tail(@)]
  /\ ForgetAgent(x, x)
  /\ telling' = [telling EXCEPT ![x] = "known"]
  /\ UNCHANGED <<conn, dialer, lastKnown, run, watcher>>

\* ... without a lock, the first time after Connected, ...
LastKnown(x) ==
  /\ telling[x] = "known"
  /\ telling' = [telling EXCEPT ![x] = IF lastKnown THEN "conn" ELSE "no"]
  /\ lastKnown' = FALSE
  /\ UNCHANGED <<conn, agent, dialer, connecting, sess, ice, report, run, cancelled, watcher>>

\* ... onICEStateDisconnected: back to the relay.  If the session changed and this
\* side is the controller, resetEndpoint resets the watcher.
OnICEDisconnected(x) ==
  /\ telling[x] = "conn"
  /\ telling' = [telling EXCEPT ![x] = "no"]
  /\ IF open
       THEN /\ prio' = IF relay /\ prio # "relay" THEN "relay" ELSE "none"
            /\ resetCh' \in (IF prio' = "relay" THEN {resetCh, TRUE} ELSE {resetCh})
            /\ statusICE' = FALSE
            /\ Disable(prio')
       ELSE UNCHANGED <<prio, resetCh, statusICE, stopped, cancel>>
  /\ UNCHANGED <<open, listening, relay, worker, ice, report, run, cancelled, enabled, watch>>

-----------------------------------------------------------------------------
MutWatcherStarts(k) ==
  /\ watch[k] = "start"
  /\ watch' = [watch EXCEPT ![k] = "check"]
  /\ enabled' = TRUE
  /\ UNCHANGED <<conn, worker, agents, resetCh, stopped, cancel>>

\* EnableWgWatcher: at most one runs.
WatcherStarts(k) ==
  /\ watch[k] = "start"
  /\ watch' = [watch EXCEPT ![k] = IF enabled THEN "off" ELSE "check"]
  /\ enabled' = TRUE
  /\ UNCHANGED <<conn, worker, agents, resetCh, stopped, cancel>>

\* periodicHandshakeCheck: a reset restarts the timeout; ...
WatcherResets(k) ==
  /\ watch[k] = "check" /\ resetCh
  /\ resetCh' = FALSE
  /\ UNCHANGED <<conn, worker, agents, enabled, watch, stopped, cancel>>

\* ... the context ends it; ...
WatcherStops(k) ==
  /\ watch[k] = "check" /\ stopped[k]
  /\ watch' = [watch EXCEPT ![k] = "leave"]
  /\ UNCHANGED <<conn, worker, agents, enabled, resetCh, stopped, cancel>>

\* ... without a new handshake ...
HandshakeTimeout(k) ==
  /\ watch[k] = "check"
  /\ watch' = [watch EXCEPT ![k] = "timeout"]
  /\ UNCHANGED <<conn, worker, agents, enabled, resetCh, stopped, cancel>>

\* ... onWGDisconnected closes the active transport, and it ends.
OnWGDisconnected(k) ==
  /\ watch[k] = "timeout"
  /\ watch' = [watch EXCEPT ![k] = "leave"]
  /\ IF open /\ prio = "relay" THEN RelayDown ELSE UNCHANGED <<relay, prio, stopped, cancel>>
  /\ IF open /\ prio = "ice" THEN CloseWorker ELSE UNCHANGED <<ice, report, cancelled, agent>>
  /\ UNCHANGED <<open, listening, statusICE, dialer, connecting, sess, lastKnown, telling, run, enabled, resetCh>>

WatcherLeaves(k) ==
  /\ watch[k] = "leave"
  /\ watch' = [watch EXCEPT ![k] = "off"]
  /\ enabled' = FALSE
  /\ UNCHANGED <<conn, worker, agents, resetCh, stopped, cancel>>

\* Conn.Close; it returns once Listen has ended and no watcher is left.
Close ==
  /\ open
  /\ open' = FALSE
  /\ prio' = "none" /\ statusICE' = FALSE /\ relay' = FALSE
  /\ SetAgents(CloseAgents({agent} \ {None}))
  /\ agent' = None
  /\ cancelled' = [x \in Agents |-> TRUE]
  /\ stopped' = [k \in Watchers |-> TRUE]
  /\ UNCHANGED <<listening, dialer, connecting, sess, lastKnown, telling, run, enabled, resetCh, watch, cancel>>

-----------------------------------------------------------------------------
ConnectStep(x) == DialReturns(x) \/ ConnectFails(x) \/ ConnectDone(x) \/ OnICEReady(x)
ReportStep(x) == ReportsUp(x) \/ ReportsDown(x) \/ LastKnown(x) \/ OnICEDisconnected(x)
WatcherStep(k) == WatcherStarts(k) \/ WatcherStops(k) \/ OnWGDisconnected(k) \/ WatcherLeaves(k)

Next ==
  \/ OnRelayReady \/ OnRelayDisconnected \/ RemoteICEStops \/ Close \/ ListenEnds
  \/ \E s \in Offers : OfferFails(s) \/ \E x \in Agents : OnNewOffer(s, x)
  \/ \E x \in Agents : IceConnects(x) \/ IceBreaks(x) \/ ConnectStep(x) \/ ReportStep(x)
  \/ \E k \in Watchers : WatcherStep(k) \/ WatcherResets(k) \/ HandshakeTimeout(k)

Spec == Init /\ [][Next]_vars

-----------------------------------------------------------------------------
\* No ICE agent is leaked: one whose Close was not called is the worker's, and
\* the dialer the worker would cancel is its own, whichever of the offers, the
\* attempts, the agents' reports and the watcher came first.
AgentsOwned ==
  \A x \in Agents : Alive(x) => x = agent /\ x = dialer

\* InProgress is true to the worker's agent: while it has one and says that it is
\* connecting, that agent's connect is under way.  (Close, or a failed
\* reCreateAgent, during an attempt leaves it true without an agent.)
InProgressBacked ==
  connecting /\ agent # None => run[agent] \in {"dial", "won"}

\* The priority is that of a connected transport, and ICE is connected exactly
\* while it is the active one.
ActiveIsConnected ==
  /\ prio = "relay" => relay
  /\ prio = "ice" <=> statusICE

\* One goroutine at most is in the watcher's loop, and the watcher counts as
\* enabled exactly while one is, although enableWgWatcherIfNeeded can start a
\* second before the first has set the flag.
OneWatcher ==
  LET Inside == {k \in Watchers : watch[k] \in {"check", "timeout", "leave"}} IN
  /\ enabled <=> Inside # {}
  /\ \A j, k \in Inside : j = k

\* After Close no transport comes back, and every watcher that is left is on its
\* way out, so that Close's wait for them ends; also when an attempt, a report or an
\* offer was on its way.  An agent is open only if a late offer has made it: its
\* dialer is cancelled, so that its dial fails and closes it, unless it connects
\* before the dial looks (a select of the two).
ClosedIsQuiet ==
  ~open =>
    /\ prio = "none"
    /\ \A x \in Agents : Alive(x) => cancelled[x] /\ (run[x] = "dial" \/ ice[x] \in {"up", "lost"})
    /\ \A k \in Watchers : watch[k] # "off" => stopped[k]

\* "The watcher runs until ctx is cancelled", and its context is cancelled when
\* no transport is left: an active transport has a watcher.
ActiveWatched ==
  prio # "none" => \E k \in Watchers : watch[k] # "off"
=============================================================================
