-------------------------- MODULE RelayStoreProofs --------------------------
(***************************************************************************)
(* Proofs about RelayStore, for any sessions, peers, slots and channel      *)
(* capacity.  Storage carries OpenIsStored and ShutdownLeavesNone;          *)
(* Reporting carries OfflineOnItsWay, peer by peer.                         *)
(***************************************************************************)
EXTENDS RelayStore, TLAPS

-----------------------------------------------------------------------------
\* Appending an event adds it to the events of the channel and drops none.
LEMMA RangeOfAppend ==
  ASSUME NEW T, NEW q \in Seq(T), NEW e \in T
  PROVE  /\ Append(q, e) \in Seq(T)
         /\ Len(Append(q, e)) = Len(q) + 1
         /\ Range(Append(q, e)) = Range(q) \cup {e}
<1>1. Append(q, e) \in Seq(T) /\ Len(Append(q, e)) = Len(q) + 1
  OBVIOUS
<1>2. ASSUME NEW x \in Range(Append(q, e)) PROVE x \in Range(q) \cup {e}
  <2>1. PICK n \in 1 .. Len(q) + 1 : x = Append(q, e)[n]
    BY <1>1, <1>2 DEF Range
  <2>2. CASE n = Len(q) + 1
    BY <2>1, <2>2
  <2>3. CASE n \in 1 .. Len(q)
    BY <2>1, <2>3 DEF Range
  <2> QED BY <2>2, <2>3
<1>3. ASSUME NEW x \in Range(q) PROVE x \in Range(Append(q, e))
  <2>1. PICK n \in 1 .. Len(q) : x = q[n]
    BY <1>3 DEF Range
  <2>2. n \in DOMAIN Append(q, e) /\ Append(q, e)[n] = x
    BY <2>1
  <2> QED BY <2>2 DEF Range
<1>4. e \in Range(Append(q, e))
  <2>1. Len(q) + 1 \in DOMAIN Append(q, e) /\ Append(q, e)[Len(q) + 1] = e
    OBVIOUS
  <2> QED BY <2>1 DEF Range
<1> QED BY <1>1, <1>2, <1>3, <1>4

\* The empty channel has no events.
LEMMA EmptyChannel ==
  ASSUME NEW T
  PROVE  <<>> \in Seq(T) /\ Len(<<>>) = 0 /\ Range(<<>>) = {}
BY DEF Range

-----------------------------------------------------------------------------
\* TypeOK is inductive: the capacity is respected and a slot of the store holds
\* one session because AddPeer removes the one it replaces.
THEOREM TypeCorrect == Spec => []TypeOK
<1>0. Cap \in Nat /\ Cap > 0 /\ IdOf \in [Sessions -> Ids]
  BY RelayStoreAssumption
<1> USE <1>0
<1>1. Init => TypeOK
  <2> SUFFICES ASSUME Init PROVE TypeOK
    OBVIOUS
  <2>1. eventChan \in Seq(Events) /\ batch \in Seq(Events) /\ Len(eventChan) = 0
    BY EmptyChannel DEF Init
  <2>2. /\ pc \in [Sessions -> Phases] /\ was \in [Sessions -> BOOLEAN]
        /\ open \in [Sessions -> BOOLEAN] /\ closed \in BOOLEAN
        /\ stored = {} /\ overtaken = {} /\ forOnline = {} /\ forOffline = {}
        /\ loop = "wait" /\ reader = "read"
        /\ asked = {} /\ known = {} /\ dropped = {}
    BY DEF Init, Phases
  <2> QED BY <2>1, <2>2 DEF TypeOK
<1>2. TypeOK /\ [Next]_vars => TypeOK'
  <2> SUFFICES ASSUME TypeOK, [Next]_vars PROVE TypeOK'
    OBVIOUS
  <2> USE DEF TypeOK, Phases, Goto, sessions, listener, watcher
  <2>1. ASSUME NEW s \in Sessions, Accept(s) PROVE TypeOK'
    BY <2>1 DEF Accept
  <2>2. ASSUME NEW s \in Sessions, AddPeer(s) PROVE TypeOK'
    BY <2>2 DEF AddPeer, SameSlot
  <2>3. ASSUME NEW s \in Sessions, NEW on \in BOOLEAN,
               NEW b \in Phases, NEW n \in Phases, Send(s, on, b, n)
        PROVE  /\ eventChan' \in Seq(Events) /\ Len(eventChan') <= Cap
               /\ forOnline' \subseteq Ids
               /\ pc' \in [Sessions -> Phases]
    <3>1. <<IdOf[s], on>> \in Events
      BY DEF Events
    <3>2. Append(eventChan, <<IdOf[s], on>>) \in Seq(Events)
          /\ Len(Append(eventChan, <<IdOf[s], on>>)) = Len(eventChan) + 1
      BY <3>1, RangeOfAppend
    <3>3. Len(eventChan) \in Nat
      OBVIOUS
    <3>4. eventChan' \in Seq(Events) /\ Len(eventChan') <= Cap
      <4>1. CASE eventChan' = eventChan
        BY <4>1
      <4>2. CASE Len(eventChan) < Cap /\ eventChan' = Append(eventChan, <<IdOf[s], on>>)
        <5>1. eventChan' \in Seq(Events)
          BY <4>2, <3>2
        <5>2. Len(eventChan') = Len(eventChan) + 1
          BY <4>2, <3>2
        <5> QED BY <4>2, <5>1, <5>2, <3>3
      <4> QED BY <4>1, <4>2, <2>3 DEF Send
    <3> QED BY <2>3, <3>4 DEF Send
  <2>4. ASSUME NEW s \in Sessions, PeerCameOnline(s) PROVE TypeOK'
    BY <2>3, <2>4 DEF PeerCameOnline
  <2>5. ASSUME NEW s \in Sessions, Work(s) \/ WorkReturns(s) \/ LastLeft(s) PROVE TypeOK'
    BY <2>5 DEF Work, WorkReturns, LastLeft
  <2>6. ASSUME NEW s \in Sessions, DeletePeer(s) PROVE TypeOK'
    BY <2>6 DEF DeletePeer
  <2>7. ASSUME NEW s \in Sessions, PeerWentOffline(s) PROVE TypeOK'
    BY <2>3, <2>7 DEF PeerWentOffline
  <2>8. ASSUME NEW s \in Sessions, ConnCloses(s) PROVE TypeOK'
    BY <2>8 DEF ConnCloses
  <2>9. CASE Shutdown
    BY <2>9 DEF Shutdown
  <2>10. ASSUME NEW S \in SUBSET Ids \ {{}}, Subscribe(S) \/ Unsubscribe(S) PROVE TypeOK'
    BY <2>10 DEF Subscribe, Unsubscribe
  <2>11. CASE Answer
    BY <2>11 DEF Answer, Collect, Respond
  <2>12. CASE Drain
    <3>1. eventChan' \in Seq(Events) /\ Len(eventChan') = 0
      BY <2>12, EmptyChannel DEF Drain
    <3>2. /\ batch' \in Seq(Events) /\ loop' = "online"
          /\ UNCHANGED <<sessions, forOnline, forOffline, watcher>>
      BY <2>12 DEF Drain
    <3> QED BY <3>1, <3>2
  <2>13. CASE SendPeersOnline \/ SendPeersWentOffline
    <3>1. batch' \in Seq(Events)
      <4>1. <<>> \in Seq(Events)
        BY EmptyChannel
      <4> QED BY <4>1, <2>13 DEF SendPeersOnline, SendPeersWentOffline
    <3>2. /\ loop' \in {"wait", "online", "offline"}
          /\ known' \subseteq Ids \ dropped
          /\ UNCHANGED <<sessions, forOnline, forOffline, eventChan, reader, asked, dropped>>
      BY <2>13 DEF SendPeersOnline, SendPeersWentOffline, Peers
    <3> QED BY <3>1, <3>2
  <2>14. CASE UNCHANGED vars
    BY <2>14 DEF vars
  <2> QED
    BY <2>1, <2>2, <2>4, <2>5, <2>6, <2>7, <2>8, <2>9, <2>10, <2>11, <2>12, <2>13, <2>14
    DEF Next, SessionStep, Listen
<1> QED BY <1>1, <1>2, PTL DEF Spec
-----------------------------------------------------------------------------
\* What OpenIsStored and ShutdownLeavesNone rest on: a session is stored by
\* AddPeer and not before, and is torn down only when its connection is closed;
\* closeMu keeps Accept and Shutdown apart.
Storage ==
  /\ \A s \in Sessions : pc[s] \in {"new", "checked"} => s \notin stored
  /\ \A s \in Sessions :
       pc[s] \in {"deleting", "left", "offline", "sendOffline", "gone"} => ~open[s]
  /\ closed => \A s \in Sessions : ~Accepting(s)
  /\ OpenIsStored
  /\ ShutdownLeavesNone

\* Storage is inductive over the types.
LEMMA StorageInvariant == Spec => []Storage
<1> USE DEF Storage, OpenIsStored, ShutdownLeavesNone, Accepting, Announcing
<1>1. Init => Storage
  BY DEF Init
<1>2. TypeOK /\ Storage /\ [Next]_vars => Storage'
  <2> SUFFICES ASSUME TypeOK, Storage, [Next]_vars PROVE Storage'
    OBVIOUS
  <2>0. /\ pc \in [Sessions -> Phases] /\ open \in [Sessions -> BOOLEAN]
        /\ stored \subseteq Sessions /\ closed \in BOOLEAN
    BY DEF TypeOK
  <2> USE <2>0 DEF Goto, Phases, sessions
  <2>1. ASSUME NEW s \in Sessions, Accept(s) PROVE Storage'
    BY <2>1 DEF Accept
  <2>2. ASSUME NEW s \in Sessions, AddPeer(s) PROVE Storage'
    BY <2>2 DEF AddPeer
  <2>3. ASSUME NEW s \in Sessions, PeerCameOnline(s) PROVE Storage'
    BY <2>3 DEF PeerCameOnline, Send
  <2>4. ASSUME NEW s \in Sessions, Work(s) \/ WorkReturns(s) \/ LastLeft(s) PROVE Storage'
    BY <2>4 DEF Work, WorkReturns, LastLeft
  <2>5. ASSUME NEW s \in Sessions, DeletePeer(s) PROVE Storage'
    BY <2>5 DEF DeletePeer
  <2>6. ASSUME NEW s \in Sessions, PeerWentOffline(s) PROVE Storage'
    BY <2>6 DEF PeerWentOffline, Send
  <2>7. ASSUME NEW s \in Sessions, ConnCloses(s) PROVE Storage'
    BY <2>7 DEF ConnCloses
  <2>8. CASE Shutdown
    BY <2>8 DEF Shutdown
  <2>9. CASE UNCHANGED sessions
    BY <2>9
  <2> QED
    BY <2>1, <2>2, <2>3, <2>4, <2>5, <2>6, <2>7, <2>8, <2>9
    DEF Next, SessionStep, Subscribe, Unsubscribe, Answer, Collect, Respond, Listen,
        Drain, SendPeersOnline, SendPeersWentOffline, vars
<1> QED BY <1>1, <1>2, TypeCorrect, PTL DEF Spec

\* The store finds every accepted session whose connection is open, however
\* AddPeer and DeletePeer of a reconnecting peer interleave.
THEOREM StoreCorrect == Spec => []OpenIsStored
<1>1. Storage => OpenIsStored
  BY DEF Storage
<1> QED BY <1>1, StorageInvariant, PTL

\* Shutdown closes every session, those being accepted meanwhile included.
THEOREM ShutdownComplete == Spec => []ShutdownLeavesNone
<1>1. Storage => ShutdownLeavesNone
  BY DEF Storage
<1> QED BY <1>1, StorageInvariant, PTL
-----------------------------------------------------------------------------
\* A session of peer i is on its way to send an offline event ...
Leaving(i) ==
  \E s \in Sessions : IdOf[s] = i /\ pc[s] \in {"left", "offline", "sendOffline"}

\* ... which is then on the channel, and last in the drained batch.
Coming(i) == Leaving(i) \/ <<i, FALSE>> \in Range(eventChan)
OnItsWay(i) == Coming(i) \/ i \in Peers(FALSE)

\* A session that is being announced is stored, unless its peer was overtaken.
AnnouncedIsStored ==
  \A s \in Sessions : Announcing(s) /\ IdOf[s] \notin overtaken => s \in stored

\* Whatever the client knows, or will be told, to be online it has subscribed
\* to for offline events, unless it unsubscribed.
Interested ==
  /\ forOnline \subseteq forOffline
  /\ known \subseteq forOffline
  /\ reader = "respond" => asked \subseteq forOffline
  /\ \A i \in Ids :
       <<i, TRUE>> \in Range(eventChan) \/ <<i, TRUE>> \in Range(batch)
         => i \in forOffline \/ i \in dropped

\* When a peer that it knows, or will be told, to be online has left (and was
\* never overtaken), the offline event comes later: after a response that is
\* being sent, and after an online event of the same batch.
Heard ==
  /\ loop = "wait" => Range(batch) = {}
  /\ \A i \in Ids \ overtaken : i \notin Online =>
       /\ <<i, TRUE>> \in Range(eventChan) /\ i \notin dropped => Coming(i)
       /\ <<i, TRUE>> \in Range(batch) /\ loop = "online" /\ i \notin dropped => OnItsWay(i)
       /\ reader = "respond" /\ i \in asked => OnItsWay(i)
       /\ i \in known => OnItsWay(i)

Reporting == AnnouncedIsStored /\ Interested /\ Heard

\* An event that is sent is the only one added to the channel.
LEMMA SendEffect ==
  ASSUME TypeOK, NEW s \in Sessions, NEW on \in BOOLEAN, NEW b, NEW n, Send(s, on, b, n)
  PROVE  \/ /\ Range(eventChan') = Range(eventChan) \cup {<<IdOf[s], on>>}
            /\ pc' = [pc EXCEPT ![s] = n]
            /\ forOnline' \subseteq forOnline
         \/ /\ eventChan' = eventChan
            /\ pc' = [pc EXCEPT ![s] = b]
            /\ forOnline' = forOnline
<1>1. <<IdOf[s], on>> \in Events /\ eventChan \in Seq(Events)
  BY RelayStoreAssumption DEF Events, TypeOK
<1>2. Range(Append(eventChan, <<IdOf[s], on>>)) = Range(eventChan) \cup {<<IdOf[s], on>>}
  BY <1>1, RangeOfAppend
<1>3. CASE /\ eventChan' = Append(eventChan, <<IdOf[s], on>>)
           /\ forOnline' = IF on THEN forOnline \ {IdOf[s]} ELSE forOnline
           /\ pc' = [pc EXCEPT ![s] = n]
  <2>1. Range(eventChan') = Range(eventChan) \cup {<<IdOf[s], on>>}
    BY <1>2, <1>3, Zenon
  <2>2. forOnline' \subseteq forOnline
    BY <1>3
  <2> QED BY <1>3, <2>1, <2>2
<1>4. CASE pc' = [pc EXCEPT ![s] = b] /\ UNCHANGED <<eventChan, forOnline>>
  BY <1>4
<1> QED BY <1>3, <1>4 DEF Send, Goto

\* A session stays in the store while it is announced, or its peer is overtaken.
LEMMA AnnouncedInvariant ==
  ASSUME TypeOK, AnnouncedIsStored, [Next]_vars
  PROVE  AnnouncedIsStored'
<1>0. pc \in [Sessions -> Phases] /\ stored \subseteq Sessions
  BY DEF TypeOK
<1> USE <1>0 DEF AnnouncedIsStored, Announcing, Goto, Phases, sessions
<1>1. ASSUME NEW s \in Sessions, AddPeer(s) PROVE AnnouncedIsStored'
  <2>1. ASSUME NEW t \in Sessions, t # s, Announcing(t)', IdOf[t] \notin overtaken'
        PROVE  t \in stored'
    <3>1. Announcing(t) /\ IdOf[t] \notin overtaken
      BY <1>1, <2>1 DEF AddPeer
    <3>2. t \in stored
      BY <3>1
    <3>3. ~SameSlot(s, t)
      BY <1>1, <2>1, <3>1, <3>2 DEF AddPeer
    <3> QED BY <1>1, <3>2, <3>3 DEF AddPeer
  <2> QED BY <1>1, <2>1 DEF AddPeer
<1>2. ASSUME NEW s \in Sessions, PeerCameOnline(s) \/ PeerWentOffline(s)
      PROVE  AnnouncedIsStored'
  BY <1>2 DEF PeerCameOnline, PeerWentOffline, Send
<1>3. ASSUME NEW s \in Sessions, Accept(s) \/ Work(s) \/ WorkReturns(s) \/ LastLeft(s)
      PROVE  AnnouncedIsStored'
  BY <1>3 DEF Accept, Work, WorkReturns, LastLeft
<1>4. ASSUME NEW s \in Sessions, DeletePeer(s) PROVE AnnouncedIsStored'
  BY <1>4 DEF DeletePeer
<1>5. CASE UNCHANGED <<pc, stored, overtaken>>
  BY <1>5
<1> QED
  BY <1>1, <1>2, <1>3, <1>4, <1>5
  DEF Next, SessionStep, ConnCloses, Shutdown, Subscribe, Unsubscribe, Answer, Collect,
      Respond, Listen, Drain, SendPeersOnline, SendPeersWentOffline, vars

\* What draining and sending do to the batch.
LEMMA BatchEffect ==
  ASSUME Listen \/ SendPeersWentOffline
  PROVE  \/ Drain /\ Range(batch') = Range(eventChan) /\ Range(eventChan') = {}
         \/ SendPeersOnline /\ Peers(FALSE) = {} /\ Range(batch') = {}
         \/ SendPeersOnline /\ Peers(FALSE) # {} /\ batch' = batch
         \/ SendPeersWentOffline /\ Range(batch') = {}
<1>1. Range(<<>>) = {}
  BY EmptyChannel
<1>2. CASE Drain
  BY <1>1, <1>2, Zenon DEF Drain
<1>3. CASE SendPeersOnline
  BY <1>1, <1>3, Zenon DEF SendPeersOnline
<1>4. CASE SendPeersWentOffline
  BY <1>1, <1>4, Zenon DEF SendPeersWentOffline
<1> QED BY <1>2, <1>3, <1>4 DEF Listen

\* Interest outlives everything but unsubscribing.
LEMMA InterestInvariant ==
  ASSUME TypeOK, Interested, [Next]_vars
  PROVE  Interested'
<1>0. IdOf \in [Sessions -> Ids] /\ asked \subseteq Ids
  BY RelayStoreAssumption DEF TypeOK
<1> USE <1>0 DEF Interested, listener, watcher
<1>1. ASSUME NEW s \in Sessions, PeerCameOnline(s) PROVE Interested'
  <2>1. CASE IdOf[s] \in forOnline
    <3>1. Send(s, TRUE, "sendOnline", "starting")
          /\ UNCHANGED <<forOffline, batch, watcher>>
      BY <1>1, <2>1 DEF PeerCameOnline
    <3>2. /\ forOnline' \subseteq forOnline
          /\ Range(eventChan') \subseteq Range(eventChan) \cup {<<IdOf[s], TRUE>>}
      <4>1. TRUE \in BOOLEAN
        OBVIOUS
      <4> QED BY <3>1, <4>1, SendEffect, Zenon
    <3>3. ASSUME NEW i \in Ids, <<i, TRUE>> \in Range(eventChan')
          PROVE  <<i, TRUE>> \in Range(eventChan) \/ i = IdOf[s]
      BY <3>2, <3>3
    <3> QED BY <2>1, <3>1, <3>2, <3>3
  <2>2. CASE IdOf[s] \notin forOnline
    BY <1>1, <2>2 DEF PeerCameOnline
  <2> QED BY <2>1, <2>2
<1>2. ASSUME NEW s \in Sessions, PeerWentOffline(s) PROVE Interested'
  <2>1. CASE IdOf[s] \in forOffline
    <3>1. Send(s, FALSE, "sendOffline", "gone")
          /\ UNCHANGED <<forOffline, batch, watcher>>
      BY <1>2, <2>1 DEF PeerWentOffline
    <3>2. /\ forOnline' \subseteq forOnline
          /\ Range(eventChan') \subseteq Range(eventChan) \cup {<<IdOf[s], FALSE>>}
      <4>1. FALSE \in BOOLEAN
        OBVIOUS
      <4> QED BY <3>1, <4>1, SendEffect, Zenon
    <3>3. ASSUME NEW i \in Ids, <<i, TRUE>> \in Range(eventChan')
          PROVE  <<i, TRUE>> \in Range(eventChan)
      BY <3>2, <3>3
    <3> QED BY <3>1, <3>2, <3>3
  <2>2. CASE IdOf[s] \notin forOffline
    BY <1>2, <2>2 DEF PeerWentOffline
  <2> QED BY <2>1, <2>2
<1>3. ASSUME NEW S \in SUBSET Ids, Subscribe(S) \/ Unsubscribe(S) PROVE Interested'
  BY <1>3 DEF Subscribe, Unsubscribe
<1>4. CASE Answer
  BY <1>4 DEF Answer, Collect, Respond
<1>5. CASE Listen \/ SendPeersWentOffline
  <2>1. CASE Drain /\ Range(batch') = Range(eventChan) /\ Range(eventChan') = {}
    BY <2>1 DEF Drain
  <2>2. CASE SendPeersOnline /\ (Range(batch') = {} \/ batch' = batch)
    BY <2>2 DEF SendPeersOnline, Peers
  <2>3. CASE SendPeersWentOffline /\ Range(batch') = {}
    BY <2>3 DEF SendPeersWentOffline
  <2> QED BY <1>5, <2>1, <2>2, <2>3, BatchEffect
<1>6. CASE UNCHANGED <<listener, watcher>>
  BY <1>6
<1> QED
  BY <1>1, <1>2, <1>3, <1>4, <1>5, <1>6
  DEF Next, SessionStep, Accept, AddPeer, Work, WorkReturns, DeletePeer, LastLeft,
      ConnCloses, Shutdown, vars

\* Heard survives a step that leaves the listener and the client alone, if
\* each peer that is gone after it is leaving, or was gone and stays on its way.
LEMMA HeardPersists ==
  ASSUME Heard, UNCHANGED <<eventChan, loop, batch, watcher>>, overtaken \subseteq overtaken',
         \A i \in Ids : i \notin Online' =>
           Leaving(i)' \/ (i \notin Online /\ (Leaving(i) => Leaving(i)'))
  PROVE  Heard'
<1>1. Range(batch') = Range(batch) /\ Range(eventChan') = Range(eventChan)
      /\ Peers(FALSE)' = Peers(FALSE)
  BY DEF Peers
<1>2. ASSUME NEW i \in Ids, i \notin Online'
      PROVE  Leaving(i)' \/ (i \notin Online /\ (Coming(i) => Coming(i)')
                                            /\ (OnItsWay(i) => OnItsWay(i)'))
  BY <1>1, <1>2 DEF Coming, OnItsWay
<1>3. \A i \in Ids : (Leaving(i)' => Coming(i)') /\ (Coming(i)' => OnItsWay(i)')
  BY DEF Coming, OnItsWay
<1> QED BY <1>1, <1>2, <1>3 DEF Heard, watcher

\* The steps of a session before and after its notifications.
LEMMA SessionHeard ==
  ASSUME TypeOK, Heard, NEW s \in Sessions,
         \/ Accept(s) \/ AddPeer(s) \/ Work(s) \/ WorkReturns(s)
         \/ DeletePeer(s) \/ LastLeft(s) \/ ConnCloses(s)
  PROVE  Heard'
<1>0. /\ pc \in [Sessions -> Phases] /\ stored \subseteq Sessions
      /\ IdOf \in [Sessions -> Ids]
  BY RelayStoreAssumption DEF TypeOK
<1> USE <1>0 DEF Goto, Phases
<1>1. UNCHANGED <<eventChan, loop, batch, watcher>> /\ overtaken \subseteq overtaken'
  BY DEF Accept, AddPeer, Work, WorkReturns, DeletePeer, LastLeft, ConnCloses, listener
<1>2. ASSUME NEW i \in Ids, i \notin Online'
      PROVE  Leaving(i)' \/ (i \notin Online /\ (Leaving(i) => Leaving(i)'))
  <2> USE DEF Leaving, Online
  <2>1. CASE Accept(s) \/ Work(s) \/ WorkReturns(s) \/ ConnCloses(s)
    BY <1>2, <2>1 DEF Accept, Work, WorkReturns, ConnCloses
  <2>2. CASE AddPeer(s)
    <3>1. i \notin Online
      <4>1. ASSUME NEW t \in stored, IdOf[t] = i PROVE FALSE
        <5>1. CASE SameSlot(s, t)
          BY <1>2, <2>2, <4>1, <5>1 DEF AddPeer, SameSlot
        <5>2. CASE ~SameSlot(s, t)
          BY <1>2, <2>2, <4>1, <5>2 DEF AddPeer
        <5> QED BY <5>1, <5>2
      <4> QED BY <4>1
    <3>2. Leaving(i) => Leaving(i)'
      BY <2>2 DEF AddPeer
    <3> QED BY <3>1, <3>2
  <2>3. CASE DeletePeer(s)
    <3>1. /\ pc[s] = "deleting"
          /\ pc' = [pc EXCEPT ![s] = IF s \in stored THEN "left" ELSE "gone"]
          /\ stored' = stored \ {s}
      BY <2>3 DEF DeletePeer
    <3>2. CASE i = IdOf[s] /\ s \in stored
      BY <3>1, <3>2
    <3>3. CASE i # IdOf[s] \/ s \notin stored
      BY <1>2, <3>1, <3>3
    <3> QED BY <3>2, <3>3
  <2>4. CASE LastLeft(s)
    <3>1. i \notin Online
      BY <1>2, <2>4 DEF LastLeft
    <3>2. Leaving(i) => Leaving(i)'
      BY <2>4, <3>1 DEF LastLeft
    <3> QED BY <3>1, <3>2
  <2> QED BY <2>1, <2>2, <2>3, <2>4
<1> QED BY <1>1, <1>2, HeardPersists

\* An online event is sent while its session is stored.
LEMMA OnlineHeard ==
  ASSUME TypeOK, AnnouncedIsStored, Heard, NEW s \in Sessions, PeerCameOnline(s)
  PROVE  Heard'
<1>0. pc \in [Sessions -> Phases] /\ IdOf[s] \in Online \cup overtaken
  BY DEF TypeOK, AnnouncedIsStored, Announcing, PeerCameOnline, Online
<1>1. /\ UNCHANGED <<stored, overtaken, loop, batch, watcher>>
      /\ pc[s] \in {"online", "sendOnline"}
      /\ pc' = [pc EXCEPT ![s] = "starting"] \/ pc' = [pc EXCEPT ![s] = "sendOnline"]
      /\ Range(eventChan) \subseteq Range(eventChan')
      /\ Range(eventChan') \subseteq Range(eventChan) \cup {<<IdOf[s], TRUE>>}
  <2>1. CASE Send(s, TRUE, "sendOnline", "starting")
    <3>1. TRUE \in BOOLEAN
      OBVIOUS
    <3>2. /\ pc' = [pc EXCEPT ![s] = "starting"] \/ pc' = [pc EXCEPT ![s] = "sendOnline"]
          /\ Range(eventChan) \subseteq Range(eventChan')
          /\ Range(eventChan') \subseteq Range(eventChan) \cup {<<IdOf[s], TRUE>>}
      BY <2>1, <3>1, SendEffect, Zenon
    <3> QED BY <3>2 DEF PeerCameOnline
  <2>2. CASE Goto(s, "starting") /\ UNCHANGED <<eventChan, forOnline>>
    BY <2>2 DEF PeerCameOnline, Goto
  <2> QED BY <2>1, <2>2 DEF PeerCameOnline
<1>2. Online' = Online /\ Range(batch') = Range(batch) /\ Peers(FALSE)' = Peers(FALSE)
  BY <1>1 DEF Online, Peers
<1>3. ASSUME NEW i \in Ids
      PROVE  (Coming(i) => Coming(i)') /\ (OnItsWay(i) => OnItsWay(i)')
  <2>1. Leaving(i) => Leaving(i)'
    BY <1>0, <1>1 DEF Leaving
  <2> QED BY <1>1, <1>2, <2>1 DEF Coming, OnItsWay
<1>4. ASSUME NEW i \in Ids, i \notin Online \cup overtaken, <<i, TRUE>> \in Range(eventChan')
      PROVE  <<i, TRUE>> \in Range(eventChan)
  BY <1>0, <1>1, <1>4
<1> QED BY <1>1, <1>2, <1>3, <1>4 DEF Heard, watcher

\* An offline event is sent to a client that is interested in it.
LEMMA OfflineHeard ==
  ASSUME TypeOK, Interested, Heard, NEW s \in Sessions, PeerWentOffline(s)
  PROVE  Heard'
<1>0. pc \in [Sessions -> Phases]
  BY DEF TypeOK
<1>1. /\ UNCHANGED <<stored, overtaken, loop, batch, watcher>>
      /\ pc' = [pc EXCEPT ![s] = "gone"] \/ pc' = [pc EXCEPT ![s] = "sendOffline"]
      /\ Range(eventChan) \subseteq Range(eventChan')
      /\ Range(eventChan') \subseteq Range(eventChan) \cup {<<IdOf[s], FALSE>>}
      /\ \/ IdOf[s] \notin forOffline
         \/ <<IdOf[s], FALSE>> \in Range(eventChan')
         \/ pc' = [pc EXCEPT ![s] = "sendOffline"]
  <2>1. CASE Send(s, FALSE, "sendOffline", "gone")
    <3>1. FALSE \in BOOLEAN
      OBVIOUS
    <3>2. /\ pc' = [pc EXCEPT ![s] = "gone"] \/ pc' = [pc EXCEPT ![s] = "sendOffline"]
          /\ Range(eventChan) \subseteq Range(eventChan')
          /\ Range(eventChan') \subseteq Range(eventChan) \cup {<<IdOf[s], FALSE>>}
          /\ \/ <<IdOf[s], FALSE>> \in Range(eventChan')
             \/ pc' = [pc EXCEPT ![s] = "sendOffline"]
      BY <2>1, <3>1, SendEffect, Zenon
    <3> QED BY <3>2 DEF PeerWentOffline
  <2>2. CASE IdOf[s] \notin forOffline
    BY <2>2 DEF PeerWentOffline, Goto
  <2> QED BY <2>1, <2>2 DEF PeerWentOffline
<1>2. Online' = Online /\ Range(batch') = Range(batch) /\ Peers(FALSE)' = Peers(FALSE)
  BY <1>1 DEF Online, Peers
<1>3. ASSUME NEW i \in Ids, i # IdOf[s] \/ i \in forOffline
      PROVE  (Coming(i) => Coming(i)') /\ (OnItsWay(i) => OnItsWay(i)')
  <2>1. Leaving(i) => Coming(i)'
    BY <1>0, <1>1, <1>3 DEF Leaving, Coming
  <2> QED BY <1>1, <1>2, <2>1 DEF Coming, OnItsWay
<1>4. ASSUME NEW i \in Ids, <<i, TRUE>> \in Range(eventChan')
      PROVE  <<i, TRUE>> \in Range(eventChan)
  BY <1>1, <1>4
<1> QED BY <1>1, <1>2, <1>3, <1>4 DEF Heard, Interested, watcher

\* The subscription handler: notificationMutex keeps the offline message
\* behind the response that is being sent.
LEMMA HandlerHeard ==
  ASSUME Heard,
         \/ Answer
         \/ \E S \in SUBSET Ids : Subscribe(S) \/ Unsubscribe(S)
  PROVE  Heard'
<1>1. UNCHANGED <<sessions, eventChan, loop, batch>>
  BY DEF Answer, Collect, Respond, Subscribe, Unsubscribe, listener
<1>2. /\ Online' = Online /\ overtaken' = overtaken /\ Range(batch') = Range(batch)
      /\ Range(eventChan') = Range(eventChan) /\ loop' = loop
  BY <1>1 DEF Online, sessions
<1>3. \A i \in Ids : Coming(i)' = Coming(i) /\ OnItsWay(i)' = OnItsWay(i)
  BY <1>1 DEF Coming, OnItsWay, Leaving, Peers, sessions
<1>4. CASE Collect
  BY <1>2, <1>3, <1>4 DEF Heard, Collect
<1>5. CASE Respond
  BY <1>2, <1>3, <1>5 DEF Heard, Respond
<1>6. ASSUME NEW S \in SUBSET Ids, Subscribe(S) PROVE Heard'
  BY <1>2, <1>3, <1>6 DEF Heard, Subscribe
<1>7. ASSUME NEW S \in SUBSET Ids, Unsubscribe(S) PROVE Heard'
  BY <1>2, <1>3, <1>7 DEF Heard, Unsubscribe
<1> QED BY <1>4, <1>5, <1>6, <1>7 DEF Answer

\* The listener goroutine: of a batch, offline is told last.
LEMMA ListenerHeard ==
  ASSUME Heard, Listen \/ SendPeersWentOffline
  PROVE  Heard'
<1>1. UNCHANGED <<sessions, reader, asked, dropped>>
  BY DEF Listen, Drain, SendPeersOnline, SendPeersWentOffline, watcher
<1>2. Online' = Online /\ overtaken' = overtaken /\ \A i \in Ids : Leaving(i)' = Leaving(i)
  BY <1>1 DEF Online, Leaving, sessions
<1>3. CASE Drain /\ Range(batch') = Range(eventChan) /\ Range(eventChan') = {}
  <2>1. loop = "wait" /\ loop' = "online" /\ known' = known
    BY <1>3 DEF Drain, watcher
  <2>2. Peers(FALSE) = {}
    BY <2>1 DEF Heard, Peers
  <2>3. \A i \in Ids : (Coming(i) => OnItsWay(i)') /\ (OnItsWay(i) => OnItsWay(i)')
    BY <1>2, <1>3, <2>2 DEF Coming, OnItsWay, Peers
  <2> QED BY <1>1, <1>2, <1>3, <2>1, <2>3 DEF Heard
<1>4. CASE SendPeersOnline /\ Peers(FALSE) = {} /\ Range(batch') = {}
  <2>1. /\ loop = "online" /\ loop' = "wait" /\ eventChan' = eventChan
        /\ known' = known \cup (Peers(TRUE) \ dropped)
    BY <1>4 DEF SendPeersOnline
  <2>2. \A i \in Ids : (Coming(i) => Coming(i)') /\ (OnItsWay(i) => OnItsWay(i)')
    BY <1>2, <1>4, <2>1 DEF Coming, OnItsWay
  <2> QED BY <1>1, <1>2, <1>4, <2>1, <2>2 DEF Heard, Peers
<1>5. CASE SendPeersOnline /\ Peers(FALSE) # {} /\ batch' = batch
  <2>1. /\ loop = "online" /\ loop' = "offline" /\ eventChan' = eventChan
        /\ known' = known \cup (Peers(TRUE) \ dropped)
    BY <1>5 DEF SendPeersOnline
  <2>2. \A i \in Ids : (Coming(i) => Coming(i)') /\ (OnItsWay(i) => OnItsWay(i)')
    BY <1>2, <1>5, <2>1 DEF Coming, OnItsWay, Peers
  <2> QED BY <1>1, <1>2, <1>5, <2>1, <2>2 DEF Heard, Peers
<1>6. CASE SendPeersWentOffline /\ Range(batch') = {}
  <2>1. /\ loop' = "wait" /\ eventChan' = eventChan /\ reader = "read"
        /\ known' = known \ Peers(FALSE)
    BY <1>6 DEF SendPeersWentOffline, NotificationsFree
  <2>2. \A i \in Ids : Coming(i) => Coming(i)'
    BY <1>2, <2>1 DEF Coming
  <2>3. ASSUME NEW i \in Ids \ overtaken, i \in known', i \notin Online PROVE OnItsWay(i)'
    BY <2>1, <2>2, <2>3 DEF Heard, OnItsWay
  <2> QED BY <1>1, <1>2, <1>6, <2>1, <2>2, <2>3 DEF Heard
<1> QED BY <1>3, <1>4, <1>5, <1>6, BatchEffect

\* The inductive invariant of the notifications.
LEMMA ReportingInvariant == Spec => []Reporting
<1>1. Init => Reporting
  <2> SUFFICES ASSUME Init PROVE Reporting
    OBVIOUS
  <2>1. Range(eventChan) = {} /\ Range(batch) = {}
    BY EmptyChannel, Zenon DEF Init
  <2>2. AnnouncedIsStored
    BY DEF Init, AnnouncedIsStored, Announcing
  <2>3. /\ forOnline = {} /\ forOffline = {} /\ known = {}
        /\ reader = "read" /\ loop = "wait"
    BY DEF Init
  <2> QED BY <2>1, <2>2, <2>3 DEF Reporting, Interested, Heard
<1>2. TypeOK /\ Reporting /\ [Next]_vars => Reporting'
  <2> SUFFICES ASSUME TypeOK, Reporting, [Next]_vars PROVE Reporting'
    OBVIOUS
  <2>0. AnnouncedIsStored /\ Interested /\ Heard
    BY DEF Reporting
  <2>1. AnnouncedIsStored'
    BY <2>0, AnnouncedInvariant
  <2>2. Interested'
    BY <2>0, InterestInvariant
  <2>3. Heard'
    <3>1. ASSUME NEW s \in Sessions, Accept(s) \/ SessionStep(s) \/ ConnCloses(s) PROVE Heard'
      BY <2>0, <3>1, SessionHeard, OnlineHeard, OfflineHeard DEF SessionStep
    <3>2. CASE Shutdown
      <4>1. /\ UNCHANGED <<eventChan, loop, batch, watcher, overtaken>>
            /\ Online' = Online /\ \A i \in Ids : Leaving(i)' = Leaving(i)
        BY <3>2 DEF Shutdown, Online, Leaving, listener
      <4> QED BY <2>0, <4>1, HeardPersists
    <3>3. CASE UNCHANGED vars
      <4>1. /\ UNCHANGED <<eventChan, loop, batch, watcher, overtaken>>
            /\ Online' = Online /\ \A i \in Ids : Leaving(i)' = Leaving(i)
        BY <3>3 DEF vars, sessions, listener, Online, Leaving
      <4> QED BY <2>0, <4>1, HeardPersists
    <3> QED BY <2>0, <3>1, <3>2, <3>3, HandlerHeard, ListenerHeard DEF Next
  <2> QED BY <2>1, <2>2, <2>3 DEF Reporting
<1> QED BY <1>1, <1>2, TypeCorrect, PTL DEF Spec

\* A subscribed client that was told a peer is online is told when its last session
\* has left, through any reconnects and replaced sessions, unless a session of it
\* was replaced before it was announced.
THEOREM OfflineReported == Spec => []OfflineOnItsWay
<1>1. TypeOK /\ Reporting => OfflineOnItsWay
  BY DEF TypeOK, Reporting, Heard, OfflineOnItsWay, OnItsWay, Coming, Leaving
<1> QED BY <1>1, ReportingInvariant, TypeCorrect, PTL
=============================================================================
