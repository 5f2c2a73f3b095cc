----------------------------- MODULE RelayStore -----------------------------
(***************************************************************************)
(* The relay server's book of connected peers: Relay.Accept and Shutdown    *)
(* (relay/server/relay.go), the store and the online/offline notifier       *)
(* (relay/server/store) and one subscribed peer, the watcher, with its      *)
(* read loop and its listener goroutine (relay/server/peer.go).             *)
(*                                                                         *)
(* A session is one accepted connection.  It has a peer id and a channel,   *)
(* and with them a slot of the store.  Only the watcher subscribes.         *)
(***************************************************************************)
EXTENDS Naturals, Sequences, FiniteSets, Functions

CONSTANTS
  Sessions,  \* connections of the peers the watcher looks at
  Ids,       \* their peer ids
  IdOf,      \* the id of a session
  ChannelOf, \* and its relay channel
  Cap        \* capacity of the listener's eventChan, 244 in the code

ASSUME RelayStoreAssumption ==
  /\ IdOf \in [Sessions -> Ids]
  /\ DOMAIN ChannelOf = Sessions
  /\ Cap \in Nat \ {0}

VARIABLES
  pc,           \* where each session's goroutines are
  was,          \* wasOnline of its Accept
  open,         \* its connection is open
  stored,       \* Store.peers, as the sessions in its slots
  closed,       \* Relay.closed
  overtaken,    \* history: ids of which AddPeer replaced a session that was yet to be
                \* announced online
  forOnline,    \* interestedPeersForOnline of the watcher's listener
  forOffline,   \* interestedPeersForOffline
  eventChan,    \* events <<id, online>> sent to it
  loop,         \* listenForEvents: "wait", "online", "offline"
  batch,        \* the events it has drained and is sending
  reader,       \* the watcher's Work: "read", "collect", "respond"
  asked,        \* the ids of the subscription it handles, then those online
  known,        \* ids the client last heard are online
  dropped       \* ids it has unsubscribed from at some time

sessions == <<pc, was, open, stored, closed, overtaken>>
listener == <<forOnline, forOffline, eventChan, loop, batch>>
watcher == <<reader, asked, known, dropped>>
vars == <<sessions, listener, watcher>>

Phases == {"new", "checked", "online", "sendOnline", "starting", "serving",
           "deleting", "left", "offline", "sendOffline", "gone"}

\* A peer id and whether it came online.
Events == Ids \X BOOLEAN

SameSlot(s, t) == IdOf[s] = IdOf[t] /\ ChannelOf[s] = ChannelOf[t]
Online == {IdOf[s] : s \in stored}

\* The types; a slot holds one session and the channel is bounded.
TypeOK ==
  /\ pc \in [Sessions -> Phases]
  /\ was \in [Sessions -> BOOLEAN]
  /\ open \in [Sessions -> BOOLEAN]
  /\ stored \subseteq Sessions
  /\ \A s, t \in stored : SameSlot(s, t) => s = t
  /\ closed \in BOOLEAN
  /\ overtaken \subseteq Ids
  /\ forOnline \subseteq Ids /\ forOffline \subseteq Ids
  /\ eventChan \in Seq(Events) /\ Len(eventChan) <= Cap
  /\ loop \in {"wait", "online", "offline"}
  /\ batch \in Seq(Events)
  /\ reader \in {"read", "collect", "respond"}
  /\ asked \subseteq Ids
  /\ known \subseteq Ids \ dropped
  /\ dropped \subseteq Ids

Init ==
  /\ pc = [s \in Sessions |-> "new"]
  /\ was = [s \in Sessions |-> FALSE]
  /\ open = [s \in Sessions |-> TRUE]
  /\ stored = {}
  /\ closed = FALSE
  /\ overtaken = {}
  /\ forOnline = {} /\ forOffline = {}
  /\ eventChan = <<>>
  /\ loop = "wait"
  /\ batch = <<>>
  /\ reader = "read"
  /\ asked = {}
  /\ known = {}
  /\ dropped = {}

Goto(s, p) == pc' = [pc EXCEPT ![s] = p]

-----------------------------------------------------------------------------
\* The locks.  A sender blocked on a full channel holds listenersMutex (shared)
\* and the listener's mu: exclusively for online, shared for offline events.
Blocked(p) == \E s \in Sessions : pc[s] = p
ListenersFree == ~Blocked("sendOnline") /\ ~Blocked("sendOffline")
MuFree == ListenersFree
MuShareable == ~Blocked("sendOnline")

\* The watcher holds peersLock (shared) while it waits to register interest.
StoreWritable == reader # "collect"

\* notificationMutex is held from before the collection to after the response.
NotificationsFree == reader = "read"

-----------------------------------------------------------------------------
\* Between AddPeer and the end of PeerCameOnline.
Announcing(s) == pc[s] \in {"online", "sendOnline"}

\* Accept, after the handshake: HasPeer ...
Accept(s) ==
  /\ pc[s] = "new" /\ ~closed
  /\ was' = [was EXCEPT ![s] = IdOf[s] \in Online]
  /\ Goto(s, "checked")
  /\ UNCHANGED <<open, stored, closed, overtaken, listener, watcher>>

\* ... AddPeer, which closes the session it replaces ...
AddPeer(s) ==
  /\ pc[s] = "checked" /\ StoreWritable
  /\ stored' = {t \in stored : ~SameSlot(s, t)} \cup {s}
  /\ open' = [t \in Sessions |-> open[t] /\ ~(t \in stored /\ SameSlot(s, t))]
  /\ overtaken' = overtaken \cup {IdOf[t] : t \in {u \in stored : SameSlot(s, u) /\ Announcing(u)}}
  /\ Goto(s, IF was[s] THEN "starting" ELSE "online")
  /\ was' = [was EXCEPT ![s] = FALSE]
  /\ UNCHANGED <<closed, listener, watcher>>

\* The event of session s is put on the channel, or s blocks there.
Send(s, on, blocked, next) ==
  IF Len(eventChan) < Cap
    THEN /\ eventChan' = Append(eventChan, <<IdOf[s], on>>)
         /\ forOnline' = IF on THEN forOnline \ {IdOf[s]} ELSE forOnline
         /\ Goto(s, next)
    ELSE /\ pc[s] # blocked
         /\ Goto(s, blocked)
         /\ UNCHANGED <<eventChan, forOnline>>

\* ... and PeerCameOnline, which notifies a listener once per subscription.
PeerCameOnline(s) ==
  /\ pc[s] = "sendOnline" \/ (pc[s] = "online" /\ MuFree)
  /\ IF IdOf[s] \in forOnline
       THEN Send(s, TRUE, "sendOnline", "starting")
       ELSE Goto(s, "starting") /\ UNCHANGED <<eventChan, forOnline>>
  /\ UNCHANGED <<was, open, stored, closed, overtaken, forOffline, loop, batch, watcher>>

\* Peer.Work starts by adding the session's own listener ...
Work(s) ==
  /\ pc[s] = "starting" /\ ListenersFree
  /\ Goto(s, "serving")
  /\ UNCHANGED <<was, open, stored, closed, overtaken, listener, watcher>>

\* ... and returns when the connection is closed, removing it.
WorkReturns(s) ==
  /\ pc[s] = "serving" /\ ~open[s] /\ ListenersFree
  /\ Goto(s, "deleting")
  /\ UNCHANGED <<was, open, stored, closed, overtaken, listener, watcher>>

MutDeletePeer(s) ==
  /\ pc[s] = "deleting" /\ StoreWritable
  /\ stored' = {t \in stored : ~SameSlot(s, t)}
  /\ Goto(s, "left")
  /\ UNCHANGED <<was, open, closed, overtaken, listener, watcher>>

\* DeletePeer: a session that was replaced leaves the store alone.
DeletePeer(s) ==
  /\ pc[s] = "deleting" /\ StoreWritable
  /\ stored' = stored \ {s}
  /\ Goto(s, IF s \in stored THEN "left" ELSE "gone")
  /\ UNCHANGED <<was, open, closed, overtaken, listener, watcher>>

\* HasPeer: was it the last channel of its peer?
LastLeft(s) ==
  /\ pc[s] = "left"
  /\ Goto(s, IF IdOf[s] \in Online THEN "gone" ELSE "offline")
  /\ UNCHANGED <<was, open, stored, closed, overtaken, listener, watcher>>

PeerWentOffline(s) ==
  /\ pc[s] = "sendOffline" \/ (pc[s] = "offline" /\ MuShareable)
  /\ IF IdOf[s] \in forOffline
       THEN Send(s, FALSE, "sendOffline", "gone")
       ELSE Goto(s, "gone") /\ UNCHANGED <<eventChan, forOnline>>
  /\ UNCHANGED <<was, open, stored, closed, overtaken, forOffline, loop, batch, watcher>>

\* The client disconnects, a health check times out, or the handshake response
\* cannot be sent.
ConnCloses(s) ==
  /\ pc[s] \in {"online", "sendOnline", "starting", "serving"} /\ open[s]
  /\ open' = [open EXCEPT ![s] = FALSE]
  /\ UNCHANGED <<pc, was, stored, closed, overtaken, listener, watcher>>

\* Accept holds closeMu (shared) up to here.
Accepting(s) == pc[s] = "checked" \/ Announcing(s)

MutShutdown ==
  /\ ~closed
  /\ open' = [s \in Sessions |-> open[s] /\ s \notin stored]
  /\ closed' = TRUE
  /\ UNCHANGED <<pc, was, stored, overtaken, listener, watcher>>

\* Relay.Shutdown: waits for closeMu, then closes every stored session.
Shutdown ==
  /\ ~closed
  /\ \A s \in Sessions : ~Accepting(s)
  /\ open' = [s \in Sessions |-> open[s] /\ s \notin stored]
  /\ closed' = TRUE
  /\ UNCHANGED <<pc, was, stored, overtaken, listener, watcher>>

-----------------------------------------------------------------------------
\* handleSubscribePeerState: lock notificationMutex and the store ...
Subscribe(S) ==
  /\ reader = "read"
  /\ reader' = "collect"
  /\ asked' = S
  /\ UNCHANGED <<sessions, listener, known, dropped>>

\* ... register the interest and look who is online ...
Collect ==
  /\ reader = "collect" /\ MuFree
  /\ forOnline' = forOnline \cup asked
  /\ forOffline' = forOffline \cup asked
  /\ asked' = asked \cap Online
  /\ reader' = IF asked \cap Online = {} THEN "read" ELSE "respond"
  /\ UNCHANGED <<sessions, eventChan, loop, batch, known, dropped>>

\* ... and answer.
Respond ==
  /\ reader = "respond"
  /\ reader' = "read"
  /\ known' = known \cup (asked \ dropped)
  /\ asked' = {}
  /\ UNCHANGED <<sessions, listener, dropped>>

\* handleUnsubscribePeerState
Unsubscribe(S) ==
  /\ reader = "read" /\ MuFree
  /\ forOnline' = forOnline \ S
  /\ forOffline' = forOffline \ S
  /\ known' = known \ S
  /\ dropped' = dropped \cup S
  /\ UNCHANGED <<sessions, eventChan, loop, batch, reader, asked>>

\* peersOnline (on) or peersOffline of a drained batch
Peers(on) == {i \in Ids : <<i, on>> \in Range(batch)}

\* listenForEvents: drain the channel ...
Drain ==
  /\ loop = "wait" /\ eventChan # <<>>
  /\ batch' = eventChan
  /\ eventChan' = <<>>
  /\ loop' = "online"
  /\ UNCHANGED <<sessions, forOnline, forOffline, watcher>>

\* ... send who came online, without notificationMutex ...
SendPeersOnline ==
  /\ loop = "online"
  /\ known' = known \cup (Peers(TRUE) \ dropped)
  /\ loop' = IF Peers(FALSE) = {} THEN "wait" ELSE "offline"
  /\ batch' = IF Peers(FALSE) = {} THEN <<>> ELSE batch
  /\ UNCHANGED <<sessions, forOnline, forOffline, eventChan, reader, asked, dropped>>

MutSendPeersWentOffline ==
  /\ loop = "offline"
  /\ known' = known \ Peers(FALSE)
  /\ loop' = "wait"
  /\ batch' = <<>>
  /\ UNCHANGED <<sessions, forOnline, forOffline, eventChan, reader, asked, dropped>>

\* ... and who went offline, with it.
SendPeersWentOffline ==
  /\ loop = "offline" /\ NotificationsFree
  /\ known' = known \ Peers(FALSE)
  /\ loop' = "wait"
  /\ batch' = <<>>
  /\ UNCHANGED <<sessions, forOnline, forOffline, eventChan, reader, asked, dropped>>

-----------------------------------------------------------------------------
\* Accept and the goroutine it leaves behind.
SessionStep(s) ==
  \/ AddPeer(s) \/ PeerCameOnline(s) \/ Work(s) \/ WorkReturns(s)
  \/ DeletePeer(s) \/ LastLeft(s) \/ PeerWentOffline(s)

Answer == Collect \/ Respond
Listen == Drain \/ SendPeersOnline

Next ==
  \/ \E s \in Sessions : Accept(s) \/ SessionStep(s) \/ ConnCloses(s)
  \/ Shutdown
  \/ \E S \in SUBSET Ids \ {{}} : Subscribe(S) \/ Unsubscribe(S)
  \/ Answer
  \/ Listen
  \/ SendPeersWentOffline

Spec == Init /\ [][Next]_vars

-----------------------------------------------------------------------------
\* A session whose Accept has stored it is found in its slot for as long as its
\* connection is open: neither the session it replaced nor one of another
\* channel removes it, and a session that was replaced is closed.
OpenIsStored ==
  \A s \in Sessions :
    pc[s] \notin {"new", "checked"} /\ open[s] => s \in stored

\* After Shutdown no session is left open, in particular none whose Accept ran
\* at the same time.
ShutdownLeavesNone ==
  closed => \A s \in Sessions : pc[s] # "new" => ~open[s]

\* A subscribed client that was told a peer is online hears when the last session
\* of it goes, also after reconnects and replaced sessions: an offline event is on
\* its way, and no response of before comes after it.  The exception are peers of
\* which a session was replaced between AddPeer and PeerCameOnline: it may announce
\* the peer when its successor has gone.
OfflineOnItsWay ==
  \A i \in known \ (Online \cup overtaken) :
    \/ \E s \in Sessions : IdOf[s] = i /\ pc[s] \in {"left", "offline", "sendOffline"}
    \/ <<i, FALSE>> \in Range(eventChan)
    \/ i \in Peers(FALSE)
=============================================================================
