--------------------------- MODULE PeerConnProofs ---------------------------
(***************************************************************************)
(* Proofs of PeerConn's safety properties, for any number of links and     *)
(* retry goroutines.                                                       *)
(***************************************************************************)
EXTENDS PeerConn, TLAPS

\* The links the Conn has a proxy of, and the proxies that are not closed.
Slots == {relayProxy, i2pProxy}
Live == {"idle", "work", "paused"}

\* An opener has a link exactly while it is on its way to the callback, no two
\* have the same, and Open finds the goroutine of the last one gone.
Hands ==
  /\ \A g \in Openers : at[g] = "ready" <=> got[g] # NoLink
  /\ \A g, h \in Openers : got[g] = got[h] /\ got[g] # NoLink => g = h
  /\ life = "closed" => at["init"] = "off"

\* A link on its way to a callback is in no slot, and no loop reads it yet.
Coming ==
  /\ \A g \in Openers : got[g] # NoLink => got[g] # i2pProxy /\ loop[got[g]] = "off"
  /\ \A x \in RelayLinks : offer[x] # "none" => x # relayProxy /\ loop[x] = "off"

\* The proxies in the slots are the ones that are not closed; a loop that is
\* about to close its proxy has left the slot, so what it closes is closed
\* already; the fake address is mapped to a slot's link or to none.
Slotted ==
  /\ \A x \in Links : proxy[x] \in Live <=> x \in Slots
  /\ \A x \in Links : loop[x] # "off" => proxy[x] # "none"
  /\ \A x \in Links : loop[x] = "close" => x \notin Slots
  /\ bindTo \in Slots \cup {NoLink}
  /\ \A x \in Links : proxy[x] = "closed" => link[x] # "up"

\* A Conn that is not open has no transport, and the three records agree.
Idle == ~CtxOK => ~statusRelay /\ ~statusI2P
Recorded == Idle /\ StatusConsistent

\* Only the responder's endpoint updates are delayed.
InitiatorNow == controller => ~delayed

Inv ==
  /\ TypeOK /\ Hands /\ Coming /\ Slotted /\ Recorded /\ InitiatorNow
  /\ UsesBestTransport /\ NoLinkLeaked /\ ClosedIsQuiet /\ OnlyActiveDelivers

-----------------------------------------------------------------------------
\* What the proxy operations do to the links, field by field.
LinkStates ==
  [link : [Links -> {"up", "broken", "closed"}],
   proxy : [Links -> {"none", "idle", "work", "paused", "closed"}],
   loop : [Links -> {"off", "read", "notify", "close"}],
   bindTo : Links \cup {NoLink}]

\* newProxy only makes the proxy.
LEMMA NewProxyLinks ==
  ASSUME NEW s \in LinkStates, NEW x \in Links
  PROVE  /\ NewProxy(s, x) \in LinkStates
         /\ NewProxy(s, x).link = s.link
         /\ NewProxy(s, x).loop = s.loop
         /\ NewProxy(s, x).bindTo = s.bindTo
         /\ NewProxy(s, x).proxy = [s.proxy EXCEPT ![x] = "idle"]
BY DEF NewProxy, LinkStates

\* Work starts the loop of a new proxy and maps the address to the link.
LEMMA WorkLinks ==
  ASSUME NEW s \in LinkStates, NEW x \in Links
  PROVE  /\ Work(s, x) \in LinkStates
         /\ Work(s, x).link = s.link
         /\ Work(s, x).loop = [s.loop EXCEPT ![x] = IF s.proxy[x] = "idle" THEN "read" ELSE @]
         /\ Work(s, x).bindTo = x
         /\ Work(s, x).proxy = [s.proxy EXCEPT ![x] = IF @ = "closed" THEN @ ELSE "work"]
BY DEF Work, LinkStates

\* Pausing, if there is a proxy, stops only that proxy.
LEMMA PauseLinks ==
  ASSUME NEW s \in LinkStates, NEW x \in Links \cup {NoLink}
  PROVE  /\ PauseIf(s, x) \in LinkStates
         /\ PauseIf(s, x).link = s.link
         /\ PauseIf(s, x).loop = s.loop
         /\ PauseIf(s, x).bindTo = s.bindTo
         /\ PauseIf(s, x).proxy =
              [y \in Links |-> IF y = x /\ s.proxy[y] = "work" THEN "paused" ELSE s.proxy[y]]
BY PeerConnAssumption DEF PauseIf, Pause, LinkStates, Links

\* Closing a proxy that is not closed yet closes its link and unmaps the address.
LEMMA CloseLinksOf ==
  ASSUME NEW s \in LinkStates, NEW x \in Links
  PROVE  /\ CloseProxy(s, x) \in LinkStates
         /\ CloseProxy(s, x).loop = s.loop
         /\ CloseProxy(s, x).proxy = [s.proxy EXCEPT ![x] = "closed"]
         /\ s.proxy[x] = "closed" => CloseProxy(s, x) = s
         /\ s.proxy[x] # "closed" => /\ CloseProxy(s, x).link = [s.link EXCEPT ![x] = "closed"]
                                     /\ CloseProxy(s, x).bindTo = NoLink
BY DEF CloseProxy, LinkStates

\* CloseConn on the proxy of a slot, which is not closed, or on none.
LEMMA CloseIfLinks ==
  ASSUME NEW s \in LinkStates, NEW x \in Links \cup {NoLink},
         x \in Links => s.proxy[x] # "closed"
  PROVE  /\ CloseIf(s, x) \in LinkStates
         /\ CloseIf(s, x).link = [y \in Links |-> IF y = x THEN "closed" ELSE s.link[y]]
         /\ CloseIf(s, x).proxy = [y \in Links |-> IF y = x THEN "closed" ELSE s.proxy[y]]
         /\ CloseIf(s, x).loop = s.loop
         /\ CloseIf(s, x).bindTo = IF x = NoLink THEN s.bindTo ELSE NoLink
<1>1. CASE x = NoLink
  BY <1>1, PeerConnAssumption DEF CloseIf, LinkStates, Links
<1>2. CASE x \in Links
  <2>1. CloseIf(s, x) = CloseProxy(s, x)
    BY <1>2, PeerConnAssumption DEF CloseIf, Links
  <2> QED BY <1>2, <2>1, CloseLinksOf, PeerConnAssumption DEF LinkStates, Links
<1> QED BY <1>1, <1>2

\* L is the state of the links.
LEMMA LLinks ==
  ASSUME TypeOK
  PROVE  /\ L \in LinkStates
         /\ L.link = link /\ L.proxy = proxy /\ L.loop = loop /\ L.bindTo = bindTo
BY DEF L, LinkStates, TypeOK

\* Closing the worker's connection leaves its proxy alone.
LEMMA WorkerLinks ==
  ASSUME TypeOK
  PROVE  /\ CloseWorkerConn(L) \in LinkStates
         /\ CloseWorkerConn(L).link = [x \in Links |-> IF x = worker THEN "closed" ELSE link[x]]
         /\ CloseWorkerConn(L).proxy = proxy
         /\ CloseWorkerConn(L).loop = loop
         /\ CloseWorkerConn(L).bindTo = bindTo
BY LLinks DEF CloseWorkerConn, LinkStates

\* A loop that has called its listener goes on to close.
LEMMA LoopLinks ==
  ASSUME TypeOK, NEW x \in Links, NEW l \in {"off", "close"}
  PROVE  LET s == [L EXCEPT !.loop[x] = l] IN
         /\ s \in LinkStates
         /\ s.link = link /\ s.proxy = proxy /\ s.bindTo = bindTo
         /\ s.loop = [loop EXCEPT ![x] = l]
BY LLinks DEF LinkStates

\* A link that is opened has no proxy yet.
LEMMA OpenedLinks ==
  ASSUME TypeOK, NEW x \in Links
  PROVE  LET s == [L EXCEPT !.link[x] = "up", !.proxy[x] = "none"] IN
         /\ s \in LinkStates
         /\ s.link = [link EXCEPT ![x] = "up"] /\ s.proxy = [proxy EXCEPT ![x] = "none"]
         /\ s.bindTo = bindTo /\ s.loop = loop
BY LLinks DEF LinkStates

-----------------------------------------------------------------------------
\* What the callbacks do to the links.  The proxies in the slots are not closed,
\* so closing them closes their links; a link is in one slot only.
LEMMA SlotTypes ==
  ASSUME TypeOK, Slotted
  PROVE  /\ relayProxy \in Links \cup {NoLink} /\ i2pProxy \in Links \cup {NoLink}
         /\ relayProxy \in Links => proxy[relayProxy] \in Live
         /\ i2pProxy \in Links => proxy[i2pProxy] \in Live
         /\ relayProxy = i2pProxy => relayProxy = NoLink
BY PeerConnAssumption DEF TypeOK, Slotted, Slots, Links

\* Close closes the worker's link and the proxies of both slots.
ClosedLinks ==
  /\ life = "open" /\ life' = "closing"
  /\ relayProxy' = NoLink /\ i2pProxy' = NoLink
  /\ RemoveWgPeer /\ SetStatusToDisconnected
  /\ offer' = [x \in RelayLinks |-> IF offer[x] = "opened" THEN "stale" ELSE offer[x]]
  /\ UNCHANGED <<controller, got>>
  /\ link' = [x \in Links |-> IF x \in Slots \cup {worker} THEN "closed" ELSE link[x]]
  /\ proxy' = [x \in Links |-> IF x \in Slots THEN "closed" ELSE proxy[x]]
  /\ loop' = loop
  /\ bindTo' = NoLink

\* Close does that to the links.
LEMMA CloseEffect ==
  ASSUME TypeOK, Slotted, Close
  PROVE  ClosedLinks
<1> USE DEF ClosedLinks
<1>0. /\ life = "open" /\ life' = "closing"
      /\ relayProxy' = NoLink /\ i2pProxy' = NoLink
      /\ RemoveWgPeer /\ SetStatusToDisconnected
      /\ offer' = [x \in RelayLinks |-> IF offer[x] = "opened" THEN "stale" ELSE offer[x]]
      /\ UNCHANGED <<controller, got>>
  BY Zenon DEF Close
<1> DEFINE s == CloseWorkerConn(L)
           t == CloseIf(s, i2pProxy)
           u == CloseIf(t, relayProxy)
<1>1. /\ s \in LinkStates
      /\ s.link = [x \in Links |-> IF x = worker THEN "closed" ELSE link[x]]
      /\ s.proxy = proxy /\ s.loop = loop /\ s.bindTo = bindTo
  BY WorkerLinks
<1> HIDE DEF s
<1>2. /\ t \in LinkStates
      /\ t.link = [y \in Links |-> IF y = i2pProxy THEN "closed" ELSE s.link[y]]
      /\ t.proxy = [y \in Links |-> IF y = i2pProxy THEN "closed" ELSE s.proxy[y]]
      /\ t.loop = s.loop
      /\ t.bindTo = IF i2pProxy = NoLink THEN s.bindTo ELSE NoLink
  BY <1>1, SlotTypes, CloseIfLinks DEF Live
<1> HIDE DEF t
<1>3. /\ relayProxy \in Links \cup {NoLink}
      /\ relayProxy \in Links => t.proxy[relayProxy] # "closed"
  BY <1>1, <1>2, SlotTypes, PeerConnAssumption DEF Live, Links
<1>4. /\ u \in LinkStates
      /\ u.link = [y \in Links |-> IF y = relayProxy THEN "closed" ELSE t.link[y]]
      /\ u.proxy = [y \in Links |-> IF y = relayProxy THEN "closed" ELSE t.proxy[y]]
      /\ u.loop = t.loop
      /\ u.bindTo = IF relayProxy = NoLink THEN t.bindTo ELSE NoLink
  BY <1>2, <1>3, CloseIfLinks
<1>5. SetLinks(u)
  BY DEF Close, CloseLinks, s, t
<1> HIDE DEF u
<1>6. u.bindTo = NoLink
  BY <1>1, <1>2, <1>4 DEF Slotted, Slots
<1> QED BY <1>0, <1>1, <1>2, <1>4, <1>5, <1>6 DEF SetLinks, Slots

\* onI2PDatagramConnectionIsReady: the new proxy works, the relay's is paused and
\* the old I2P proxy closed, which unmaps the address.
I2PReadyLinks(g) ==
  /\ got[g] \in I2PLinks
  /\ link' = [y \in Links |-> IF y = i2pProxy THEN "closed" ELSE link[y]]
  /\ proxy' = [y \in Links |-> IF y = i2pProxy THEN "closed"
                               ELSE IF y = got[g] THEN "work"
                               ELSE IF y = relayProxy /\ proxy[y] = "work" THEN "paused"
                               ELSE proxy[y]]
  /\ loop' = [loop EXCEPT ![got[g]] = "read"]
  /\ bindTo' = IF i2pProxy = NoLink THEN got[g] ELSE NoLink

\* The callback does that to the links.
LEMMA I2PReadyEffect ==
  ASSUME TypeOK, Hands, Coming, Slotted, NEW g \in Openers, I2PReady(g)
  PROVE  I2PReadyLinks(g)
<1> USE DEF I2PReadyLinks
<1> DEFINE x == got[g]
           s == NewProxy(L, x)
           t == PauseIf(s, relayProxy)
           u == Work(t, x)
           v == CloseIf(u, i2pProxy)
<1>1. x \in I2PLinks /\ x \in Links /\ x # i2pProxy /\ x # relayProxy
  BY PeerConnAssumption DEF I2PReady, Hands, Coming, TypeOK, Links
<1>2. SetLinks(v)
  BY DEF I2PReady, SetI2PProxy
<1> HIDE DEF x
<1>3. /\ s \in LinkStates
      /\ s.link = link /\ s.loop = loop /\ s.bindTo = bindTo
      /\ s.proxy = [proxy EXCEPT ![x] = "idle"]
  BY <1>1, LLinks, NewProxyLinks
<1> HIDE DEF s
<1>4. /\ t \in LinkStates
      /\ t.link = s.link /\ t.loop = s.loop /\ t.bindTo = s.bindTo
      /\ t.proxy = [y \in Links |-> IF y = relayProxy /\ s.proxy[y] = "work" THEN "paused"
                                    ELSE s.proxy[y]]
  BY <1>3, SlotTypes, PauseLinks
<1> HIDE DEF t
<1>5. /\ u \in LinkStates
      /\ u.link = t.link
      /\ u.loop = [t.loop EXCEPT ![x] = IF t.proxy[x] = "idle" THEN "read" ELSE @]
      /\ u.bindTo = x
      /\ u.proxy = [t.proxy EXCEPT ![x] = IF @ = "closed" THEN @ ELSE "work"]
  BY <1>1, <1>4, WorkLinks
<1> HIDE DEF u
<1>6. t.proxy[x] = "idle"
  BY <1>1, <1>3, <1>4 DEF TypeOK
<1>7. u.proxy = [y \in Links |-> IF y = x THEN "work"
                                ELSE IF y = relayProxy /\ proxy[y] = "work" THEN "paused"
                                ELSE proxy[y]]
  BY <1>1, <1>3, <1>4, <1>5, <1>6 DEF TypeOK
<1>8. u.link = link /\ u.loop = [loop EXCEPT ![x] = "read"]
  BY <1>3, <1>4, <1>5, <1>6
<1>9. /\ i2pProxy \in Links \cup {NoLink}
      /\ i2pProxy \in Links => u.proxy[i2pProxy] # "closed"
  BY <1>1, <1>7, SlotTypes DEF Live
<1>10. /\ v \in LinkStates
       /\ v.link = [y \in Links |-> IF y = i2pProxy THEN "closed" ELSE u.link[y]]
       /\ v.proxy = [y \in Links |-> IF y = i2pProxy THEN "closed" ELSE u.proxy[y]]
       /\ v.loop = u.loop
       /\ v.bindTo = IF i2pProxy = NoLink THEN u.bindTo ELSE NoLink
  BY <1>5, <1>9, CloseIfLinks
<1> HIDE DEF v
<1>11. /\ link' = v.link /\ proxy' = v.proxy /\ loop' = v.loop /\ bindTo' = v.bindTo
  BY <1>2 DEF SetLinks
<1> QED BY <1>1, <1>5, <1>7, <1>8, <1>10, <1>11 DEF x

\* The controller maps the address to a new proxy before WireGuard refuses.
LEMMA FailedLinks ==
  ASSUME NEW s \in LinkStates, NEW x \in Links, s.proxy[x] = "idle",
         SetLinks(CloseProxy(IF controller THEN Work(s, x) ELSE s, x))
  PROVE  /\ link' = [s.link EXCEPT ![x] = "closed"]
         /\ proxy' = [s.proxy EXCEPT ![x] = "closed"]
         /\ loop' = [s.loop EXCEPT ![x] = IF controller THEN "read" ELSE @]
         /\ bindTo' = NoLink
<1> DEFINE t == IF controller THEN Work(s, x) ELSE s
<1>1. /\ t \in LinkStates
      /\ t.link = s.link
      /\ t.loop = [s.loop EXCEPT ![x] = IF controller THEN "read" ELSE @]
      /\ t.proxy = [s.proxy EXCEPT ![x] = t.proxy[x]] /\ t.proxy[x] # "closed"
  <2>1. CASE controller
    <3>1. /\ Work(s, x) \in LinkStates
          /\ Work(s, x).link = s.link
          /\ Work(s, x).loop = [s.loop EXCEPT ![x] = IF s.proxy[x] = "idle" THEN "read" ELSE @]
          /\ Work(s, x).proxy = [s.proxy EXCEPT ![x] = IF @ = "closed" THEN @ ELSE "work"]
      BY WorkLinks
    <3>2. t = Work(s, x)
      BY <2>1
    <3> HIDE DEF t
    <3> QED BY <2>1, <3>1, <3>2 DEF LinkStates
  <2>2. CASE ~controller
    <3>1. t = s
      BY <2>2
    <3> HIDE DEF t
    <3> QED BY <2>2, <3>1 DEF LinkStates
  <2> QED BY <2>1, <2>2
<1> HIDE DEF t
<1>2. /\ CloseProxy(t, x).loop = t.loop
      /\ CloseProxy(t, x).proxy = [t.proxy EXCEPT ![x] = "closed"]
      /\ CloseProxy(t, x).link = [t.link EXCEPT ![x] = "closed"]
      /\ CloseProxy(t, x).bindTo = NoLink
  BY <1>1, CloseLinksOf
<1>3. SetLinks(CloseProxy(t, x))
  BY DEF t
<1> QED BY <1>1, <1>2, <1>3 DEF SetLinks, LinkStates

\* ... so a failed callback leaves nothing mapped, and the relay's proxy paused if
\* it was I2P's callback.
I2PFailedLinks(g) ==
  /\ got[g] \in I2PLinks
  /\ link' = [link EXCEPT ![got[g]] = "closed"]
  /\ proxy' = [y \in Links |-> IF y = got[g] THEN "closed"
                               ELSE IF y = relayProxy /\ proxy[y] = "work" THEN "paused"
                               ELSE proxy[y]]
  /\ loop' = [loop EXCEPT ![got[g]] = IF controller THEN "read" ELSE @]
  /\ bindTo' = NoLink

\* The callback does that to the links.
LEMMA I2PReadyFailsEffect ==
  ASSUME TypeOK, Hands, Coming, Slotted, NEW g \in Openers, I2PReadyFails(g)
  PROVE  I2PFailedLinks(g)
<1> USE DEF I2PFailedLinks
<1> DEFINE x == got[g]
           s == NewProxy(L, x)
           t == PauseIf(s, relayProxy)
<1>1. x \in I2PLinks /\ x \in Links /\ x # i2pProxy /\ x # relayProxy
  BY PeerConnAssumption DEF I2PReadyFails, Hands, Coming, TypeOK, Links
<1>2. SetLinks(CloseProxy(IF controller THEN Work(t, x) ELSE t, x))
  BY DEF I2PReadyFails
<1> HIDE DEF x
<1>3. /\ s \in LinkStates
      /\ s.link = link /\ s.loop = loop /\ s.bindTo = bindTo
      /\ s.proxy = [proxy EXCEPT ![x] = "idle"]
  BY <1>1, LLinks, NewProxyLinks
<1> HIDE DEF s
<1>4. /\ t \in LinkStates
      /\ t.link = s.link /\ t.loop = s.loop /\ t.bindTo = s.bindTo
      /\ t.proxy = [y \in Links |-> IF y = relayProxy /\ s.proxy[y] = "work" THEN "paused"
                                    ELSE s.proxy[y]]
  BY <1>3, SlotTypes, PauseLinks
<1> HIDE DEF t
<1>5. t.proxy[x] = "idle"
  BY <1>1, <1>3, <1>4 DEF TypeOK
<1>6. /\ link' = [t.link EXCEPT ![x] = "closed"]
      /\ proxy' = [t.proxy EXCEPT ![x] = "closed"]
      /\ loop' = [t.loop EXCEPT ![x] = IF controller THEN "read" ELSE @]
      /\ bindTo' = NoLink
  BY <1>1, <1>2, <1>4, <1>5, FailedLinks
<1>7. proxy' = [y \in Links |-> IF y = x THEN "closed"
                               ELSE IF y = relayProxy /\ proxy[y] = "work" THEN "paused"
                               ELSE proxy[y]]
  BY <1>1, <1>3, <1>4, <1>6 DEF TypeOK
<1> QED BY <1>1, <1>3, <1>4, <1>6, <1>7 DEF x

\* onRelayConnectionIsReady while I2P is active: the new proxy does not work yet.
StandbyLinks(x) ==
  /\ link' = [y \in Links |-> IF y = relayProxy THEN "closed" ELSE link[y]]
  /\ proxy' = [y \in Links |-> IF y = relayProxy THEN "closed"
                               ELSE IF y = x THEN "idle" ELSE proxy[y]]
  /\ loop' = loop
  /\ bindTo' = IF relayProxy = NoLink THEN bindTo ELSE NoLink

\* The callback does that to the links.
LEMMA StandbyEffect ==
  ASSUME TypeOK, Coming, Slotted, NEW x \in RelayLinks, RelayReadyStandby(x)
  PROVE  StandbyLinks(x)
<1> USE DEF StandbyLinks
<1> DEFINE s == NewProxy(L, x)
<1>1. x \in Links /\ x # relayProxy
  BY DEF RelayReadyStandby, Coming, Links
<1>2. SetLinks(CloseIf(s, relayProxy))
  BY DEF RelayReadyStandby, SetRelayedProxy
<1>3. /\ s \in LinkStates
      /\ s.link = link /\ s.loop = loop /\ s.bindTo = bindTo
      /\ s.proxy = [proxy EXCEPT ![x] = "idle"]
  BY <1>1, LLinks, NewProxyLinks
<1> HIDE DEF s
<1>4. /\ relayProxy \in Links \cup {NoLink}
      /\ relayProxy \in Links => s.proxy[relayProxy] # "closed"
  BY <1>1, <1>3, SlotTypes DEF Live, TypeOK
<1> DEFINE v == CloseIf(s, relayProxy)
<1>5. /\ v.link = [y \in Links |-> IF y = relayProxy THEN "closed" ELSE s.link[y]]
      /\ v.proxy = [y \in Links |-> IF y = relayProxy THEN "closed" ELSE s.proxy[y]]
      /\ v.loop = s.loop
      /\ v.bindTo = IF relayProxy = NoLink THEN s.bindTo ELSE NoLink
  BY <1>3, <1>4, CloseIfLinks
<1> HIDE DEF v
<1>6. /\ link' = v.link /\ proxy' = v.proxy /\ loop' = v.loop /\ bindTo' = v.bindTo
  BY <1>2 DEF SetLinks, v
<1>7. /\ link' = [y \in Links |-> IF y = relayProxy THEN "closed" ELSE link[y]]
      /\ proxy' = [y \in Links |-> IF y = relayProxy THEN "closed"
                                   ELSE IF y = x THEN "idle" ELSE proxy[y]]
      /\ loop' = loop
      /\ bindTo' = IF relayProxy = NoLink THEN bindTo ELSE NoLink
  BY <1>1, <1>3, <1>5, <1>6 DEF TypeOK
<1> QED BY <1>7

\* onRelayConnectionIsReady: the new proxy works, the old one is closed.
RelayReadyLinks(x) ==
  /\ link' = [y \in Links |-> IF y = relayProxy THEN "closed" ELSE link[y]]
  /\ proxy' = [y \in Links |-> IF y = relayProxy THEN "closed"
                               ELSE IF y = x THEN "work" ELSE proxy[y]]
  /\ loop' = [loop EXCEPT ![x] = "read"]
  /\ bindTo' = IF relayProxy = NoLink THEN x ELSE NoLink

\* The callback does that to the links.
LEMMA RelayReadyEffect ==
  ASSUME TypeOK, Coming, Slotted, NEW x \in RelayLinks, RelayReady(x)
  PROVE  RelayReadyLinks(x)
<1> USE DEF RelayReadyLinks
<1> DEFINE s == NewProxy(L, x)
           t == Work(s, x)
           v == CloseIf(t, relayProxy)
<1>1. x \in Links /\ x # relayProxy
  BY DEF RelayReady, Coming, Links
<1>2. SetLinks(v)
  BY DEF RelayReady, SetRelayedProxy
<1>3. /\ s \in LinkStates
      /\ s.link = link /\ s.loop = loop /\ s.bindTo = bindTo
      /\ s.proxy = [proxy EXCEPT ![x] = "idle"]
  BY <1>1, LLinks, NewProxyLinks
<1> HIDE DEF s
<1>4. s.proxy[x] = "idle"
  BY <1>1, <1>3 DEF TypeOK
<1>5. /\ t \in LinkStates
      /\ t.link = s.link
      /\ t.loop = [s.loop EXCEPT ![x] = "read"]
      /\ t.bindTo = x
      /\ t.proxy = [s.proxy EXCEPT ![x] = "work"]
  <2>1. /\ t \in LinkStates
        /\ t.link = s.link
        /\ t.loop = [s.loop EXCEPT ![x] = IF s.proxy[x] = "idle" THEN "read" ELSE @]
        /\ t.bindTo = x
        /\ t.proxy = [s.proxy EXCEPT ![x] = IF @ = "closed" THEN @ ELSE "work"]
    BY <1>1, <1>3, WorkLinks
  <2> HIDE DEF t
  <2> QED BY <1>1, <1>3, <1>4, <2>1 DEF LinkStates
<1> HIDE DEF t
<1>6. t.proxy = [proxy EXCEPT ![x] = "work"]
  BY <1>1, <1>3, <1>5 DEF TypeOK
<1>7. /\ relayProxy \in Links \cup {NoLink}
      /\ relayProxy \in Links => t.proxy[relayProxy] # "closed"
  BY <1>1, <1>6, SlotTypes DEF Live, TypeOK
<1>8. /\ v.link = [y \in Links |-> IF y = relayProxy THEN "closed" ELSE t.link[y]]
      /\ v.proxy = [y \in Links |-> IF y = relayProxy THEN "closed" ELSE t.proxy[y]]
      /\ v.loop = t.loop
      /\ v.bindTo = IF relayProxy = NoLink THEN t.bindTo ELSE NoLink
  BY <1>5, <1>7, CloseIfLinks
<1> HIDE DEF v
<1>9. /\ link' = v.link /\ proxy' = v.proxy /\ loop' = v.loop /\ bindTo' = v.bindTo
  BY <1>2 DEF SetLinks
<1> QED BY <1>1, <1>3, <1>5, <1>6, <1>8, <1>9 DEF TypeOK

\* ... or closed again, when WireGuard refuses.
RelayFailedLinks(x) ==
  /\ link' = [link EXCEPT ![x] = "closed"]
  /\ proxy' = [proxy EXCEPT ![x] = "closed"]
  /\ loop' = [loop EXCEPT ![x] = IF controller THEN "read" ELSE @]
  /\ bindTo' = NoLink

\* The callback does that to the links.
LEMMA RelayReadyFailsEffect ==
  ASSUME TypeOK, NEW x \in RelayLinks, RelayReadyFails(x)
  PROVE  RelayFailedLinks(x)
<1> USE DEF RelayFailedLinks
<1> DEFINE s == NewProxy(L, x)
<1>1. x \in Links
  BY DEF Links
<1>2. SetLinks(CloseProxy(IF controller THEN Work(s, x) ELSE s, x))
  BY DEF RelayReadyFails
<1>3. /\ s \in LinkStates
      /\ s.link = link /\ s.loop = loop
      /\ s.proxy = [proxy EXCEPT ![x] = "idle"]
  BY <1>1, LLinks, NewProxyLinks
<1> HIDE DEF s
<1>4. s.proxy[x] = "idle"
  BY <1>1, <1>3 DEF TypeOK
<1>5. /\ link' = [s.link EXCEPT ![x] = "closed"]
      /\ proxy' = [s.proxy EXCEPT ![x] = "closed"]
      /\ loop' = [s.loop EXCEPT ![x] = IF controller THEN "read" ELSE @]
      /\ bindTo' = NoLink
  BY <1>1, <1>2, <1>3, <1>4, FailedLinks
<1> QED BY <1>1, <1>3, <1>5 DEF TypeOK

\* handleRelayDisconnectedLocked, on links whose proxies are those of now.
LEMMA RelayDisconnectedEffect ==
  ASSUME TypeOK, Slotted, NEW s \in LinkStates, s.proxy = proxy, s.bindTo = bindTo,
         CtxOK, RelayDisconnected(s)
  PROVE  /\ link' = [y \in Links |-> IF y = relayProxy THEN "closed" ELSE s.link[y]]
         /\ proxy' = [y \in Links |-> IF y = relayProxy THEN "closed" ELSE proxy[y]]
         /\ loop' = s.loop
         /\ bindTo' = IF relayProxy = NoLink THEN bindTo ELSE NoLink
<1> DEFINE v == CloseIf(s, relayProxy)
<1>1. SetLinks(v)
  BY DEF RelayDisconnected
<1>2. /\ v.link = [y \in Links |-> IF y = relayProxy THEN "closed" ELSE s.link[y]]
      /\ v.proxy = [y \in Links |-> IF y = relayProxy THEN "closed" ELSE s.proxy[y]]
      /\ v.loop = s.loop
      /\ v.bindTo = IF relayProxy = NoLink THEN s.bindTo ELSE NoLink
  BY SlotTypes, CloseIfLinks DEF Live
<1> HIDE DEF v
<1> QED BY <1>1, <1>2 DEF SetLinks

\* handleI2PDatagramDisconnectedLocked: the I2P proxy is closed, and the relay's
\* works if the Conn falls back to it.
LEMMA I2PDisconnectedEffect ==
  ASSUME TypeOK, Slotted, NEW s \in LinkStates, s.proxy = proxy, s.bindTo = bindTo,
         CtxOK, I2PDisconnected(s)
  PROVE  /\ link' = [y \in Links |-> IF y = i2pProxy THEN "closed" ELSE s.link[y]]
         /\ prio = I2PDatagram /\ relayProxy # NoLink /\ statusRelay =>
              /\ proxy' = [y \in Links |-> IF y = i2pProxy THEN "closed"
                                           ELSE IF y = relayProxy THEN "work" ELSE proxy[y]]
              /\ loop' = [s.loop EXCEPT ![relayProxy] =
                             IF proxy[relayProxy] = "idle" THEN "read" ELSE @]
              /\ bindTo' = relayProxy
         /\ ~(prio = I2PDatagram /\ relayProxy # NoLink /\ statusRelay) =>
              /\ proxy' = [y \in Links |-> IF y = i2pProxy THEN "closed" ELSE proxy[y]]
              /\ loop' = s.loop
              /\ bindTo' = IF i2pProxy = NoLink THEN bindTo ELSE NoLink
<1> DEFINE t == CloseIf(s, i2pProxy)
           fallBack == prio = I2PDatagram /\ relayProxy # NoLink /\ statusRelay
<1>1. SetLinks(IF fallBack THEN Work(t, relayProxy) ELSE t)
  BY DEF I2PDisconnected
<1>2. /\ t \in LinkStates
      /\ t.link = [y \in Links |-> IF y = i2pProxy THEN "closed" ELSE s.link[y]]
      /\ t.proxy = [y \in Links |-> IF y = i2pProxy THEN "closed" ELSE s.proxy[y]]
      /\ t.loop = s.loop
      /\ t.bindTo = IF i2pProxy = NoLink THEN s.bindTo ELSE NoLink
  BY SlotTypes, CloseIfLinks DEF Live
<1> HIDE DEF t
<1>3. CASE fallBack
  <2>1. relayProxy \in Links /\ relayProxy # i2pProxy
    BY <1>3, SlotTypes
  <2> DEFINE v == Work(t, relayProxy)
  <2>2. /\ v.link = t.link
        /\ v.loop = [t.loop EXCEPT ![relayProxy] =
                       IF t.proxy[relayProxy] = "idle" THEN "read" ELSE @]
        /\ v.bindTo = relayProxy
        /\ v.proxy = [t.proxy EXCEPT ![relayProxy] = IF @ = "closed" THEN @ ELSE "work"]
    BY <1>2, <2>1, WorkLinks
  <2>3. SetLinks(v)
    BY <1>1, <1>3
  <2> HIDE DEF v
  <2>4. t.proxy[relayProxy] = proxy[relayProxy] /\ t.proxy[relayProxy] # "closed"
    BY <1>2, <2>1, SlotTypes DEF Live
  <2> QED BY <1>2, <1>3, <2>1, <2>2, <2>3, <2>4 DEF SetLinks
<1>4. CASE ~fallBack
  BY <1>1, <1>2, <1>4 DEF SetLinks
<1> QED BY <1>3, <1>4

\* A loop ends by closing a proxy that is closed already: the loop of a link that
\* was replaced never unmaps the address of the link that replaced it.
LEMMA LoopClosesEffect ==
  ASSUME TypeOK, Slotted, NEW x \in Links, LoopCloses(x)
  PROVE  /\ loop[x] = "close"
         /\ UNCHANGED <<controller, life, status, wg, relayWork, opening>>
         /\ UNCHANGED <<link, proxy, bindTo>>
         /\ loop' = [loop EXCEPT ![x] = "off"]
<1>0. /\ loop[x] = "close"
      /\ UNCHANGED <<controller, life, status, wg, relayWork, opening>>
  BY Zenon DEF LoopCloses
<1> DEFINE s == [L EXCEPT !.loop[x] = "off"]
<1>1. /\ s \in LinkStates
      /\ s.link = link /\ s.proxy = proxy /\ s.bindTo = bindTo
      /\ s.loop = [loop EXCEPT ![x] = "off"]
  BY LoopLinks
<1>2. SetLinks(CloseProxy(s, x))
  BY DEF LoopCloses
<1> HIDE DEF s
<1>3. s.proxy[x] = "closed"
  BY <1>1 DEF LoopCloses, Slotted, TypeOK, Live
<1>4. CloseProxy(s, x) = s
  BY <1>1, <1>3, CloseLinksOf
<1> QED BY <1>0, <1>1, <1>2, <1>4 DEF SetLinks

\* The three ways a relayed transport is given up: by the relay client's close
\* listener, by the handshake watcher, and by the proxy's own loop.
RelayGone ==
  /\ UNCHANGED <<controller, life, i2pProxy, statusI2P, offer, worker, listening, opening>>
  /\ relayDown' \in BOOLEAN
  /\ link' \in [Links -> {"up", "broken", "closed"}]
  /\ loop' \in [Links -> {"off", "read", "notify", "close"}]
  /\ \A y \in Links : link'[y] \in {link[y], "closed"}
  /\ \A y \in Links :
       \/ loop'[y] = loop[y]
       \/ y \in RelayLinks /\ loop[y] = "notify" /\ loop'[y] = "close"
  /\ CtxOK =>
       /\ relayProxy' = NoLink
       /\ statusRelay' = FALSE
       /\ prio' = IF prio = Relay THEN None ELSE prio
       /\ \A y \in Links : y = relayProxy => link'[y] = "closed"
       /\ proxy' = [y \in Links |-> IF y = relayProxy THEN "closed" ELSE proxy[y]]
       /\ bindTo' = IF relayProxy = NoLink THEN bindTo ELSE NoLink
       /\ IF prio = Relay THEN RemoveAddress ELSE UNCHANGED wg
       /\ Publish(FALSE, statusI2P)
  /\ ~CtxOK => UNCHANGED <<status, proxy, bindTo, wg>>

\* Giving up the relay, on any links that differ from those of now only in a
\* connection closed before or a loop that goes on to close.
LEMMA RelayGoneFrom ==
  ASSUME TypeOK, Slotted, NEW s \in LinkStates, s.proxy = proxy, s.bindTo = bindTo,
         \A y \in Links : s.link[y] \in {link[y], "closed"},
         \A y \in Links :
           \/ s.loop[y] = loop[y]
           \/ y \in RelayLinks /\ loop[y] = "notify" /\ s.loop[y] = "close",
         RelayDisconnected(s), relayDown' \in BOOLEAN,
         UNCHANGED <<controller, life, offer, worker, listening, opening>>
  PROVE  RelayGone
<1>1. CASE CtxOK
  <2>1. /\ link' = [y \in Links |-> IF y = relayProxy THEN "closed" ELSE s.link[y]]
        /\ proxy' = [y \in Links |-> IF y = relayProxy THEN "closed" ELSE proxy[y]]
        /\ loop' = s.loop
        /\ bindTo' = IF relayProxy = NoLink THEN bindTo ELSE NoLink
    BY <1>1, RelayDisconnectedEffect
  <2>2. /\ link' \in [Links -> {"up", "broken", "closed"}]
        /\ loop' \in [Links -> {"off", "read", "notify", "close"}]
        /\ \A y \in Links : link'[y] \in {link[y], "closed"}
        /\ \A y \in Links :
             \/ loop'[y] = loop[y]
             \/ y \in RelayLinks /\ loop[y] = "notify" /\ loop'[y] = "close"
        /\ \A y \in Links : y = relayProxy => link'[y] = "closed"
    BY <2>1 DEF LinkStates
  <2>3. /\ relayProxy' = NoLink /\ statusRelay' = FALSE
        /\ prio' = IF prio = Relay THEN None ELSE prio
        /\ IF prio = Relay THEN RemoveAddress ELSE UNCHANGED wg
        /\ Publish(FALSE, statusI2P)
        /\ UNCHANGED <<statusI2P, i2pProxy>>
    BY <1>1, Zenon DEF RelayDisconnected
  <2> QED BY <1>1, <2>1, <2>2, <2>3, Zenon DEF RelayGone
<1>2. CASE ~CtxOK
  <2>1. /\ link' = s.link /\ proxy' = proxy /\ loop' = s.loop /\ bindTo' = bindTo
        /\ UNCHANGED <<status, wg>>
    BY <1>2 DEF RelayDisconnected, SetLinks
  <2>2. UNCHANGED <<i2pProxy, statusI2P>>
    BY <2>1 DEF status
  <2>3. /\ link' \in [Links -> {"up", "broken", "closed"}]
        /\ loop' \in [Links -> {"off", "read", "notify", "close"}]
    BY <2>1 DEF LinkStates
  <2> QED BY <1>2, <2>1, <2>2, <2>3, Zenon DEF RelayGone
<1> QED BY <1>1, <1>2

\* All three do what RelayGone says.
LEMMA RelayGoneSteps ==
  ASSUME TypeOK, Slotted,
         OnRelayDown \/ WGTimeoutRelay \/ (\E x \in Links : LoopNotifiesRelay(x))
  PROVE  RelayGone
<1>1. CASE OnRelayDown
  <2>1. RelayDisconnected(L) /\ relayDown' = FALSE
    BY <1>1, Zenon DEF OnRelayDown
  <2>2. UNCHANGED <<controller, life, offer, worker, listening, opening>>
    BY <1>1, Zenon DEF OnRelayDown
  <2> QED BY <2>1, <2>2, LLinks, RelayGoneFrom
<1>2. CASE WGTimeoutRelay
  <2>1. RelayDisconnected(CloseWorkerConn(L)) /\ UNCHANGED relayWork
    BY <1>2, Zenon DEF WGTimeoutRelay
  <2>2. relayDown' \in BOOLEAN /\ UNCHANGED <<offer, worker, listening>>
    BY <2>1 DEF relayWork, TypeOK
  <2>3. UNCHANGED <<controller, life, opening>>
    BY <1>2, Zenon DEF WGTimeoutRelay
  <2> DEFINE s == CloseWorkerConn(L)
  <2>4. /\ s \in LinkStates /\ s.proxy = proxy /\ s.bindTo = bindTo /\ s.loop = loop
        /\ \A y \in Links : s.link[y] \in {link[y], "closed"}
    BY WorkerLinks
  <2> HIDE DEF s
  <2> QED BY <2>1, <2>2, <2>3, <2>4, RelayGoneFrom DEF s
<1>3. ASSUME NEW x \in Links, LoopNotifiesRelay(x) PROVE RelayGone
  <2> DEFINE s == [L EXCEPT !.loop[x] = "close"]
  <2>1. RelayDisconnected(s) /\ UNCHANGED relayWork
    BY <1>3, Zenon DEF LoopNotifiesRelay
  <2>2. relayDown' \in BOOLEAN /\ UNCHANGED <<offer, worker, listening>>
    BY <2>1 DEF relayWork, TypeOK
  <2>3. UNCHANGED <<controller, life, opening>>
    BY <1>3, Zenon DEF LoopNotifiesRelay
  <2>4. /\ s \in LinkStates /\ s.link = link /\ s.proxy = proxy /\ s.bindTo = bindTo
        /\ s.loop = [loop EXCEPT ![x] = "close"]
    BY LoopLinks
  <2> HIDE DEF s
  <2>5. x \in RelayLinks /\ loop[x] = "notify"
    BY <1>3 DEF LoopNotifiesRelay
  <2>6. \A y \in Links :
          \/ s.loop[y] = loop[y]
          \/ y \in RelayLinks /\ loop[y] = "notify" /\ s.loop[y] = "close"
    BY <2>4, <2>5 DEF TypeOK
  <2> QED BY <2>1, <2>2, <2>3, <2>4, <2>6, RelayGoneFrom
<1> QED BY <1>1, <1>2, <1>3

\* The two ways an I2P transport is given up: by the handshake watcher and by
\* the proxy's loop.
FallBack == prio = I2PDatagram /\ relayProxy # NoLink /\ statusRelay

I2PGoneLinks ==
  /\ UNCHANGED <<relayProxy, offer, got>>
  /\ link' \in [Links -> {"up", "broken", "closed"}]
  /\ loop' \in [Links -> {"off", "read", "notify", "close"}]
  /\ \A y \in Links : link'[y] \in {link[y], "closed"}
  /\ \A y \in Links :
       \/ loop'[y] = loop[y]
       \/ y \in I2PLinks /\ loop[y] = "notify" /\ loop'[y] = "close"
       \/ y = relayProxy /\ loop'[y] = "read"
  /\ CtxOK =>
       /\ i2pProxy' = NoLink
       /\ \A y \in Links : y = i2pProxy => link'[y] = "closed"
       /\ proxy' = [y \in Links |-> IF y = i2pProxy THEN "closed"
                                    ELSE IF FallBack /\ y = relayProxy THEN "work"
                                    ELSE proxy[y]]
       /\ bindTo' = IF FallBack THEN relayProxy
                    ELSE IF i2pProxy = NoLink THEN bindTo ELSE NoLink
  /\ ~CtxOK => UNCHANGED <<i2pProxy, proxy, bindTo>>

I2PGone ==
  /\ I2PGoneLinks
  /\ UNCHANGED <<controller, life, statusRelay, relayWork>>
  /\ CtxOK =>
       /\ statusI2P' = FALSE
       /\ \/ FallBack /\ prio' = Relay /\ \E ok \in WgOutcomes : SwitchWG(ok)
          \/ prio = I2PDatagram /\ ~FallBack /\ prio' = None /\ RemoveAddress
          \/ prio # I2PDatagram /\ UNCHANGED <<prio, wg>>
       /\ Publish(statusRelay, FALSE)
       /\ Schedule(at, FALSE)
  /\ ~CtxOK => UNCHANGED <<status, wg, at, scheduled>>

\* Giving up I2P, on any links that differ from those of now only in a loop that
\* goes on to close.
LEMMA I2PGoneFrom ==
  ASSUME TypeOK, Slotted, NEW s \in LinkStates, s.proxy = proxy, s.bindTo = bindTo,
         s.link = link,
         \A y \in Links :
           \/ s.loop[y] = loop[y]
           \/ y \in I2PLinks /\ loop[y] = "notify" /\ s.loop[y] = "close",
         I2PDisconnected(s), UNCHANGED <<controller, life, relayWork, got>>
  PROVE  I2PGone
<1>1. CASE CtxOK
  <2>1. link' = [y \in Links |-> IF y = i2pProxy THEN "closed" ELSE s.link[y]]
    BY <1>1, I2PDisconnectedEffect
  <2>2. FallBack =>
          /\ proxy' = [y \in Links |-> IF y = i2pProxy THEN "closed"
                                       ELSE IF y = relayProxy THEN "work" ELSE proxy[y]]
          /\ loop' = [s.loop EXCEPT ![relayProxy] =
                         IF proxy[relayProxy] = "idle" THEN "read" ELSE @]
          /\ bindTo' = relayProxy
    BY <1>1, I2PDisconnectedEffect DEF FallBack
  <2>3. ~FallBack =>
          /\ proxy' = [y \in Links |-> IF y = i2pProxy THEN "closed" ELSE proxy[y]]
          /\ loop' = s.loop
          /\ bindTo' = IF i2pProxy = NoLink THEN bindTo ELSE NoLink
    BY <1>1, I2PDisconnectedEffect DEF FallBack
  <2>4. FallBack => relayProxy \in RelayLinks /\ relayProxy \notin I2PLinks
    BY PeerConnAssumption DEF FallBack, TypeOK
  <2>5. /\ loop' \in [Links -> {"off", "read", "notify", "close"}]
        /\ \A y \in Links :
             \/ loop'[y] = loop[y]
             \/ y \in I2PLinks /\ loop[y] = "notify" /\ loop'[y] = "close"
             \/ y = relayProxy /\ loop'[y] = "read"
    <3>1. CASE FallBack
      BY <2>2, <2>4, <3>1 DEF LinkStates
    <3>2. CASE ~FallBack
      BY <2>3, <3>2 DEF LinkStates
    <3> QED BY <3>1, <3>2
  <2>6. /\ link' \in [Links -> {"up", "broken", "closed"}]
        /\ \A y \in Links : link'[y] \in {link[y], "closed"}
        /\ \A y \in Links : y = i2pProxy => link'[y] = "closed"
    BY <2>1 DEF LinkStates
  <2>7. /\ proxy' = [y \in Links |-> IF y = i2pProxy THEN "closed"
                                     ELSE IF FallBack /\ y = relayProxy THEN "work"
                                     ELSE proxy[y]]
        /\ bindTo' = IF FallBack THEN relayProxy
                     ELSE IF i2pProxy = NoLink THEN bindTo ELSE NoLink
    BY <2>2, <2>3
  <2>8. /\ i2pProxy' = NoLink /\ statusI2P' = FALSE
        /\ \/ FallBack /\ prio' = Relay /\ \E ok \in WgOutcomes : SwitchWG(ok)
           \/ prio = I2PDatagram /\ ~FallBack /\ prio' = None /\ RemoveAddress
           \/ prio # I2PDatagram /\ UNCHANGED <<prio, wg>>
        /\ Publish(statusRelay, FALSE)
        /\ Schedule(at, FALSE)
        /\ UNCHANGED <<statusRelay, relayProxy>>
    BY <1>1, Zenon DEF I2PDisconnected, FallBack
  <2>9. offer' = offer
    BY DEF relayWork
  <2>10. I2PGoneLinks
    BY <1>1, <2>5, <2>6, <2>7, <2>8, <2>9, Zenon DEF I2PGoneLinks
  <2> QED BY <1>1, <2>8, <2>10, Zenon DEF I2PGone
<1>2. CASE ~CtxOK
  <2>1. /\ link' = s.link /\ proxy' = proxy /\ loop' = s.loop /\ bindTo' = bindTo
        /\ UNCHANGED <<status, wg, at, scheduled>>
    BY <1>2 DEF I2PDisconnected, SetLinks
  <2>2. UNCHANGED <<relayProxy, i2pProxy, statusRelay, offer>>
    BY <2>1 DEF status, relayWork
  <2>3. /\ link' \in [Links -> {"up", "broken", "closed"}]
        /\ loop' \in [Links -> {"off", "read", "notify", "close"}]
    BY <2>1 DEF LinkStates
  <2>4. I2PGoneLinks
    BY <1>2, <2>1, <2>2, <2>3, Zenon DEF I2PGoneLinks
  <2> QED BY <1>2, <2>1, <2>2, <2>4, Zenon DEF I2PGone
<1> QED BY <1>1, <1>2

\* Both do what I2PGone says.
LEMMA I2PGoneSteps ==
  ASSUME TypeOK, Slotted, WGTimeoutI2P \/ (\E x \in Links : LoopNotifiesI2P(x))
  PROVE  I2PGone
<1>1. CASE WGTimeoutI2P
  <2>1. I2PDisconnected(L) /\ UNCHANGED <<controller, life, relayWork, got>>
    BY <1>1, Zenon DEF WGTimeoutI2P
  <2> QED BY <2>1, LLinks, I2PGoneFrom
<1>2. ASSUME NEW x \in Links, LoopNotifiesI2P(x) PROVE I2PGone
  <2> DEFINE s == [L EXCEPT !.loop[x] = "close"]
  <2>1. I2PDisconnected(s) /\ UNCHANGED <<controller, life, relayWork, got>>
    BY <1>2, Zenon DEF LoopNotifiesI2P
  <2>2. /\ s \in LinkStates /\ s.link = link /\ s.proxy = proxy /\ s.bindTo = bindTo
        /\ s.loop = [loop EXCEPT ![x] = "close"]
    BY LoopLinks
  <2> HIDE DEF s
  <2>3. x \in I2PLinks /\ loop[x] = "notify"
    BY <1>2 DEF LoopNotifiesI2P
  <2>4. \A y \in Links :
          \/ s.loop[y] = loop[y]
          \/ y \in I2PLinks /\ loop[y] = "notify" /\ s.loop[y] = "close"
    BY <2>2, <2>3 DEF TypeOK
  <2> QED BY <2>1, <2>2, <2>4, I2PGoneFrom
<1> QED BY <1>1, <1>2

\* A link from the registry starts up and without a proxy, ...
LEMMA OpenI2PEffect ==
  ASSUME TypeOK, NEW g \in Openers, OpenI2P(g)
  PROVE  /\ at[g] = "opening"
         /\ UNCHANGED <<controller, life, status, wg, relayWork>>
         /\ \E x \in I2PLinks :
              /\ Fresh(x)
              /\ link' = [link EXCEPT ![x] = "up"] /\ proxy' = [proxy EXCEPT ![x] = "none"]
              /\ loop' = loop /\ bindTo' = bindTo
              /\ got' = [got EXCEPT ![g] = x]
<1>0. at[g] = "opening" /\ UNCHANGED <<controller, life, status, wg, relayWork>>
  BY Zenon DEF OpenI2P
<1>1. PICK x \in I2PLinks :
        /\ Fresh(x)
        /\ SetLinks([L EXCEPT !.link[x] = "up", !.proxy[x] = "none"])
        /\ got' = [got EXCEPT ![g] = x]
  BY Zenon DEF OpenI2P
<1> DEFINE s == [L EXCEPT !.link[x] = "up", !.proxy[x] = "none"]
<1>2. /\ s.link = [link EXCEPT ![x] = "up"] /\ s.proxy = [proxy EXCEPT ![x] = "none"]
      /\ s.bindTo = bindTo /\ s.loop = loop
  BY OpenedLinks DEF Links
<1>3. SetLinks(s)
  BY <1>1
<1> HIDE DEF s
<1> QED BY <1>0, <1>1, <1>2, <1>3 DEF SetLinks

\* ... and so does one from the relay client.
LEMMA OfferOpensEffect ==
  ASSUME TypeOK, NEW x \in RelayLinks, OfferOpens(x)
  PROVE  /\ CtxOK /\ Fresh(x) /\ offer' = [offer EXCEPT ![x] = "opened"]
         /\ UNCHANGED <<controller, life, status, wg, opening>>
         /\ link' = [link EXCEPT ![x] = "up"] /\ proxy' = [proxy EXCEPT ![x] = "none"]
         /\ loop' = loop /\ bindTo' = bindTo
<1>0. /\ CtxOK /\ Fresh(x) /\ offer' = [offer EXCEPT ![x] = "opened"]
      /\ UNCHANGED <<controller, life, status, wg, opening>>
  BY Zenon DEF OfferOpens
<1> DEFINE s == [L EXCEPT !.link[x] = "up", !.proxy[x] = "none"]
<1>1. /\ s.link = [link EXCEPT ![x] = "up"] /\ s.proxy = [proxy EXCEPT ![x] = "none"]
      /\ s.bindTo = bindTo /\ s.loop = loop
  BY OpenedLinks DEF Links
<1>2. SetLinks(s)
  BY Zenon DEF OfferOpens
<1> HIDE DEF s
<1> QED BY <1>0, <1>1, <1>2 DEF SetLinks

-----------------------------------------------------------------------------
\* The flags, and the other variables.
Flags ==
  /\ statusRelay \in BOOLEAN
  /\ statusI2P \in BOOLEAN
  /\ delayed \in BOOLEAN
  /\ listening \in BOOLEAN
  /\ relayDown \in BOOLEAN
  /\ scheduled \in BOOLEAN

Data ==
  /\ controller \in Controllers
  /\ life \in {"open", "closing", "closed"}
  /\ prio \in {None, Relay, I2PDatagram}
  /\ relayProxy \in RelayLinks \cup {NoLink}
  /\ i2pProxy \in I2PLinks \cup {NoLink}
  /\ published \in {"idle", "connecting", "connected"}
  /\ wgPeer \in {"absent", "noaddr", "fake"}
  /\ offer \in [RelayLinks -> {"none", "opened", "stale", "ready"}]
  /\ worker \in RelayLinks \cup {NoLink}
  /\ at \in [Openers -> {"off", "sleep", "cancelled", "opening", "ready", "clear", "post"}]
  /\ got \in [Openers -> I2PLinks \cup {NoLink}]

LinkData ==
  /\ link \in [Links -> {"up", "broken", "closed"}]
  /\ proxy \in [Links -> {"none", "idle", "work", "paused", "closed"}]
  /\ loop \in [Links -> {"off", "read", "notify", "close"}]
  /\ bindTo \in Links \cup {NoLink}

\* The variables have their types if the three groups have.
LEMMA Types ==
  ASSUME Flags', Data', LinkData'
  PROVE  TypeOK'
BY Zenon DEF Flags, Data, LinkData, TypeOK

\* Steps after which the links are what they were, or less: they break or are
\* closed, loops end, and a link that is handed over is closed.
Fading ==
  /\ UNCHANGED <<relayProxy, i2pProxy, proxy, bindTo>>
  /\ \A y \in Links : link'[y] = "up" => link[y] = "up"
  /\ \A y \in Links : loop'[y] = loop[y] \/ (loop[y] # "off" /\ loop'[y] # "close")
  /\ \A y \in RelayLinks : offer[y] = "none" => offer'[y] = "none"
  /\ \A y \in RelayLinks : offer'[y] = "none" => offer[y] = "none" \/ link'[y] # "up"
  /\ \A g \in Openers : got'[g] = got[g] \/ (got'[g] = NoLink /\ link'[got[g]] # "up")

\* What the Conn and WireGuard know stays as it is.
ConnStays == UNCHANGED <<controller, life, status, proxy, bindTo, wg>>

\* Fading links disturb no slot and leak no connection.
LEMMA FadingKeeps ==
  ASSUME Inv, Fading
  PROVE  Coming' /\ Slotted' /\ NoLinkLeaked'
<1>1. Coming'
  BY DEF Inv, Fading, TypeOK, Coming, Links
<1>2. Slotted'
  BY DEF Inv, Fading, Slotted, Slots, Live
<1>3. NoLinkLeaked'
  BY DEF Inv, Fading, TypeOK, NoLinkLeaked, Links
<1> QED BY <1>1, <1>2, <1>3

\* The records, the priority and the proxies depend on nothing else.
LEMMA ConnStaysKeeps ==
  ASSUME Inv, ConnStays
  PROVE  Recorded' /\ InitiatorNow' /\ UsesBestTransport' /\ ClosedIsQuiet' /\ OnlyActiveDelivers'
<1>1. Recorded' /\ UsesBestTransport'
  BY DEF Inv, ConnStays, status, Recorded, Idle, StatusConsistent, UsesBestTransport, CtxOK
<1>2. InitiatorNow' /\ ClosedIsQuiet'
  BY DEF Inv, ConnStays, wg, InitiatorNow, ClosedIsQuiet, CtxOK
<1>3. OnlyActiveDelivers'
  BY DEF Inv, ConnStays, status, wg, OnlyActiveDelivers, Active
<1> QED BY <1>1, <1>2, <1>3

\* Steps that only let links fade keep the invariant.
LEMMA CalmKeeps ==
  ASSUME Inv, Fading, ConnStays, Flags', Data', LinkData', Hands'
  PROVE  Inv'
BY FadingKeeps, ConnStaysKeeps, Types DEF Inv

\* Who has which link changes only in openers' steps and in Open and Close.
LEMMA HandsStay ==
  ASSUME Inv, UNCHANGED <<life, at, got>>
  PROVE  Hands'
BY DEF Inv, Hands

\* The failed open, and the steps of the retry goroutines.
LEMMA OpenersMove ==
  ASSUME Inv, NEW g \in Openers,
         \/ OpenI2PFails(g) \/ RetryFires(g) \/ RetryCancelled(g) \/ RetryClears(g)
         \/ RetryAgain(g)
  PROVE  Inv'
<1> DEFINE A == {"off", "sleep", "cancelled", "opening", "ready", "clear", "post"}
           Moved == /\ at' \in [Openers -> A]
                    /\ \A h \in Openers : at'[h] = "ready" <=> at[h] = "ready"
                    /\ at["init"] = "off" => at'["init"] = "off"
<1>1. UNCHANGED <<controller, life, status, links, wg, relayWork, got>>
  BY Zenon DEF OpenI2PFails, RetryFires, RetryCancelled, RetryClears, RetryAgain
<1>2. scheduled' \in BOOLEAN
  BY Zenon DEF Inv, TypeOK, OpenI2PFails, RetryFires, RetryCancelled, RetryClears, RetryAgain,
     Schedule
<1>3. Moved
  <2> USE PeerConnAssumption DEF Inv, TypeOK, Openers
  <2>1. CASE OpenI2PFails(g)
    BY <2>1 DEF OpenI2PFails, After, Schedule
  <2>2. CASE RetryFires(g)
    BY <2>2 DEF RetryFires
  <2>3. CASE RetryCancelled(g) \/ RetryClears(g)
    BY <2>3 DEF RetryCancelled, RetryClears
  <2>4. CASE RetryAgain(g)
    BY <2>4 DEF RetryAgain, Schedule
  <2> QED BY <2>1, <2>2, <2>3, <2>4
<1>4. Flags'
  BY <1>1, <1>2, <1>3, Zenon DEF Inv, TypeOK, Flags, status, links, wg, relayWork
<1>5. Data' /\ LinkData'
  BY <1>1, <1>2, <1>3 DEF Inv, TypeOK, Data, LinkData, status, links, wg, relayWork
<1>6. Hands'
  BY <1>1, <1>3 DEF Inv, Hands, Openers
<1>7. Fading /\ ConnStays
  BY <1>1, Zenon DEF Fading, ConnStays, status, links, relayWork
<1> QED BY <1>4, <1>5, <1>6, <1>7, CalmKeeps

\* A connection that comes after Close is closed.
LEMMA I2PReadyLateKeeps ==
  ASSUME Inv, NEW g \in Openers, I2PReadyLate(g)
  PROVE  Inv'
<1>1. /\ at[g] = "ready" /\ link' = [link EXCEPT ![got[g]] = "closed"] /\ HandOver(g)
      /\ UNCHANGED <<controller, life, status, proxy, loop, bindTo, wg, relayWork>>
  BY Zenon DEF I2PReadyLate
<1>2. got[g] \in Links
  BY <1>1 DEF Inv, TypeOK, Hands, Links
<1>3. /\ link' \in [Links -> {"up", "broken", "closed"}]
      /\ at' \in [Openers -> {"off", "sleep", "cancelled", "opening", "ready", "clear", "post"}]
      /\ got' \in [Openers -> I2PLinks \cup {NoLink}]
  BY <1>1 DEF Inv, TypeOK, HandOver, After
<1>4. Flags'
  BY <1>1, <1>3, Zenon DEF Inv, TypeOK, Flags, status, wg, relayWork, HandOver
<1>5. Data' /\ LinkData'
  BY <1>1, <1>3 DEF Inv, TypeOK, Data, LinkData, status, wg, relayWork, HandOver
<1>6. Hands'
  BY <1>1, PeerConnAssumption DEF Inv, TypeOK, Hands, HandOver, After, Openers
<1>7. Fading
  BY <1>1, <1>2 DEF Inv, TypeOK, Fading, HandOver, status, relayWork
<1>8. ConnStays
  BY <1>1, Zenon DEF ConnStays
<1> QED BY <1>4, <1>5, <1>6, <1>7, <1>8, CalmKeeps

\* An offer is published or fails, and a relayed connection that comes after
\* Close is closed.
LEMMA OffersMove ==
  ASSUME Inv, NEW x \in RelayLinks, OfferPublishes(x) \/ OfferFails(x) \/ RelayReadyLate(x)
  PROVE  Inv'
<1>1. UNCHANGED <<controller, life, status, proxy, loop, bindTo, wg, relayDown, opening>>
  BY Zenon DEF OfferPublishes, OfferFails, RelayReadyLate, Accept, links
<1>2. listening' \in BOOLEAN
  BY Zenon DEF Inv, TypeOK, OfferPublishes, OfferFails, RelayReadyLate, Accept
<1>3. /\ worker' \in RelayLinks \cup {NoLink}
      /\ offer[x] # "none"
      /\ \/ link' = link /\ offer' = [offer EXCEPT ![x] = "ready"]
         \/ link' = [link EXCEPT ![x] = "closed"] /\ offer' = [offer EXCEPT ![x] = "none"]
  BY DEF Inv, TypeOK, OfferPublishes, OfferFails, RelayReadyLate, Accept, links
<1>4. /\ link' \in [Links -> {"up", "broken", "closed"}]
      /\ offer' \in [RelayLinks -> {"none", "opened", "stale", "ready"}]
  BY <1>3 DEF Inv, TypeOK
<1>5. Flags'
  BY <1>1, <1>2, <1>3, <1>4, Zenon DEF Inv, TypeOK, Flags, status, wg, opening
<1>6. Data' /\ LinkData'
  BY <1>1, <1>2, <1>3, <1>4 DEF Inv, TypeOK, Data, LinkData, status, wg, opening
<1>7. Hands'
  BY <1>1, HandsStay DEF opening
<1>8. Fading
  BY <1>1, <1>3 DEF Inv, TypeOK, Fading, Links, status, opening
<1>9. ConnStays
  BY <1>1, Zenon DEF ConnStays
<1> QED BY <1>5, <1>6, <1>7, <1>8, <1>9, CalmKeeps

\* A loop's read fails, or it ends with its deferred close.
LEMMA LoopsMove ==
  ASSUME Inv, NEW x \in Links, LoopFails(x) \/ LoopCloses(x)
  PROVE  Inv'
<1>1. /\ UNCHANGED <<controller, life, status, link, proxy, bindTo, wg, relayWork, opening>>
      /\ loop[x] # "off" /\ \E l \in {"off", "notify"} : loop' = [loop EXCEPT ![x] = l]
  <2>1. CASE LoopFails(x)
    BY <2>1 DEF LoopFails
  <2>2. CASE LoopCloses(x)
    BY <2>2, LoopClosesEffect DEF Inv
  <2> QED BY <2>1, <2>2
<1>2. loop' \in [Links -> {"off", "read", "notify", "close"}]
  BY <1>1 DEF Inv, TypeOK
<1>3. Flags'
  BY <1>1, <1>2, Zenon DEF Inv, TypeOK, Flags, status, wg, relayWork, opening
<1>4. Data' /\ LinkData'
  BY <1>1, <1>2 DEF Inv, TypeOK, Data, LinkData, status, wg, relayWork, opening
<1>5. Hands'
  BY <1>1, HandsStay DEF opening
<1>6. Fading
  BY <1>1 DEF Inv, TypeOK, Fading, status, relayWork, opening
<1>7. ConnStays
  BY <1>1, Zenon DEF ConnStays
<1> QED BY <1>3, <1>4, <1>5, <1>6, <1>7, CalmKeeps

\* Links break, one or those of a server, or nothing happens.
LEMMA LinksBreak ==
  ASSUME Inv,
         \/ \E x \in Links : LinkBreaks(x)
         \/ \E S \in SUBSET {x \in RelayLinks : link[x] = "up"} : RelayServerLost(S)
         \/ UNCHANGED vars
  PROVE  Inv'
<1>1. /\ UNCHANGED <<controller, life, status, proxy, loop, bindTo, wg, offer, worker, opening>>
      /\ listening' \in BOOLEAN /\ relayDown' \in BOOLEAN
  BY Zenon DEF Inv, TypeOK, LinkBreaks, RelayServerLost, vars, links, relayWork
<1>2. /\ link' \in [Links -> {"up", "broken", "closed"}]
      /\ \A y \in Links : link'[y] = "up" => link[y] = "up"
  BY DEF Inv, TypeOK, LinkBreaks, RelayServerLost, vars, links
<1>3. Flags'
  BY <1>1, <1>2, Zenon DEF Inv, TypeOK, Flags, status, wg, opening
<1>4. Data' /\ LinkData'
  BY <1>1, <1>2 DEF Inv, TypeOK, Data, LinkData, status, wg, opening
<1>5. Hands'
  BY <1>1, HandsStay DEF opening
<1>6. Fading
  BY <1>1, <1>2 DEF Fading, status, opening
<1>7. ConnStays
  BY <1>1, Zenon DEF ConnStays
<1> QED BY <1>3, <1>4, <1>5, <1>6, <1>7, CalmKeeps

\* WireGuard gets an address, from the delayed update or a packet.
LEMMA WgMoves ==
  ASSUME Inv, DelayedUpdate \/ WgLearns
  PROVE  Inv'
<1>1. /\ UNCHANGED <<controller, life, status, links, relayWork, opening>>
      /\ delayed' = FALSE \/ delayed' = delayed
      /\ wgPeer' = wgPeer \/ wgPeer' = "fake"
  BY DEF DelayedUpdate, WgLearns, SwitchWG
<1>2. delayed \/ (wgPeer = "noaddr" /\ \E x \in Links : proxy[x] = "work")
  BY DEF DelayedUpdate, WgLearns
<1>3. Flags'
  BY <1>1, Zenon DEF Inv, TypeOK, Flags, status, links, relayWork, opening
<1>4. Data' /\ LinkData'
  BY <1>1 DEF Inv, TypeOK, Data, LinkData, status, links, relayWork, opening
<1>5. Hands'
  BY <1>1, HandsStay DEF opening
<1>6. Coming' /\ Slotted' /\ NoLinkLeaked'
  BY <1>1, FadingKeeps DEF Fading, status, links, relayWork, opening
<1>7. Recorded' /\ UsesBestTransport'
  BY <1>1 DEF Inv, status, Recorded, Idle, StatusConsistent, UsesBestTransport, CtxOK
<1>8. CtxOK
  BY <1>2 DEF Inv, ClosedIsQuiet
<1>9. ClosedIsQuiet' /\ InitiatorNow'
  BY <1>1, <1>8 DEF Inv, ClosedIsQuiet, InitiatorNow, CtxOK
<1>10. OnlyActiveDelivers'
  <2>1. controller => wgPeer = "noaddr" /\ \E x \in Links : proxy[x] = "work"
    BY <1>2 DEF Inv, InitiatorNow
  <2> QED BY <1>1, <2>1, PeerConnAssumption
          DEF Inv, OnlyActiveDelivers, Active, Links, None, Relay, I2PDatagram, status, links
<1> QED BY <1>3, <1>4, <1>5, <1>6, <1>7, <1>9, <1>10, Types DEF Inv

\* Open starts the goroutine that opens I2P.
LEMMA OpenKeeps ==
  ASSUME Inv, Open
  PROVE  Inv'
<1>1. /\ life = "closed" /\ life' = "open" /\ published' = "connecting" /\ worker' = NoLink
      /\ at' = [at EXCEPT !["init"] = "opening"]
      /\ UNCHANGED <<controller, prio, statusRelay, statusI2P, relayProxy, i2pProxy, links, wg,
                     offer, listening, relayDown, got, scheduled>>
  BY Zenon DEF Open
<1>2. Flags'
  BY <1>1, Zenon DEF Inv, TypeOK, Flags, wg
<1>3. Data' /\ LinkData'
  BY <1>1 DEF Inv, TypeOK, Data, LinkData, links, wg
<1>4. Hands'
  BY <1>1, PeerConnAssumption DEF Inv, TypeOK, Hands, Openers
<1>5. Coming' /\ Slotted' /\ NoLinkLeaked'
  BY <1>1, FadingKeeps DEF Fading, links
<1>6. Recorded' /\ UsesBestTransport'
  BY <1>1 DEF Inv, Recorded, Idle, StatusConsistent, UsesBestTransport, CtxOK
<1>7. ClosedIsQuiet' /\ InitiatorNow'
  BY <1>1 DEF Inv, ClosedIsQuiet, InitiatorNow, CtxOK, wg
<1>8. OnlyActiveDelivers'
  BY <1>1 DEF Inv, OnlyActiveDelivers, Active, links, wg
<1> QED BY <1>2, <1>3, <1>4, <1>5, <1>6, <1>7, <1>8, Types DEF Inv

\* Close leaves nothing in the slots.
LEMMA CloseKeeps ==
  ASSUME Inv, Close
  PROVE  Inv'
<1>1. ClosedLinks
  BY CloseEffect DEF Inv
<1>2. /\ at' = [g \in Openers |-> IF at[g] = "sleep" THEN "cancelled" ELSE at[g]]
      /\ UNCHANGED <<controller, worker, listening, relayDown, got, scheduled>>
  BY Zenon DEF Close
<1>3. Flags'
  BY <1>1, <1>2, Zenon
     DEF Inv, TypeOK, Flags, ClosedLinks, RemoveWgPeer, SetStatusToDisconnected
<1>4. Data' /\ LinkData'
  BY <1>1, <1>2
     DEF Inv, TypeOK, Data, LinkData, ClosedLinks, RemoveWgPeer, SetStatusToDisconnected
<1>5. Hands'
  BY <1>1, <1>2, PeerConnAssumption DEF Inv, TypeOK, Hands, Openers, ClosedLinks
<1>6. Coming'
  BY <1>1, PeerConnAssumption DEF Inv, TypeOK, Coming, ClosedLinks
<1>7. Slotted'
  BY <1>1, PeerConnAssumption DEF Inv, TypeOK, Slotted, Slots, Live, Links, ClosedLinks
<1>8. NoLinkLeaked'
  BY <1>1, <1>2 DEF Inv, TypeOK, Slots, NoLinkLeaked, Links, ClosedLinks
<1>9. Recorded' /\ UsesBestTransport'
  BY <1>1 DEF Recorded, Idle, StatusConsistent, UsesBestTransport, ClosedLinks,
     SetStatusToDisconnected, CtxOK
<1>10. InitiatorNow'
  BY <1>1, Zenon DEF InitiatorNow, ClosedLinks, RemoveWgPeer
<1>11. \A x \in Links : proxy'[x] \in {"none", "closed"}
  BY <1>1 DEF Inv, TypeOK, Slotted, ClosedLinks, Live
<1>12. ClosedIsQuiet'
  BY <1>1, <1>11 DEF ClosedIsQuiet, ClosedLinks, RemoveWgPeer
<1>13. OnlyActiveDelivers'
  BY <1>1, <1>11, PeerConnAssumption DEF OnlyActiveDelivers, Active, Links, ClosedLinks,
     RemoveWgPeer, SetStatusToDisconnected, None, Relay, I2PDatagram
<1> QED BY <1>3, <1>4, <1>5, <1>6, <1>7, <1>8, <1>9, <1>10, <1>12, <1>13, Types
        DEF Inv

\* Close returns when the goroutine of its Open is gone.
LEMMA CloseReturnsKeeps ==
  ASSUME Inv, CloseReturns
  PROVE  Inv'
<1>1. /\ life = "closing" /\ life' = "closed" /\ at["init"] = "off"
      /\ UNCHANGED <<controller, status, links, wg, relayWork, opening>>
  BY Zenon DEF CloseReturns
<1>2. Flags'
  BY <1>1, Zenon DEF Inv, TypeOK, Flags, status, wg, relayWork, opening
<1>3. Data' /\ LinkData'
  BY <1>1 DEF Inv, TypeOK, Data, LinkData, status, links, wg, relayWork, opening
<1>4. Hands'
  BY <1>1 DEF Inv, Hands, opening
<1>5. Coming' /\ Slotted' /\ NoLinkLeaked'
  BY <1>1, FadingKeeps DEF Fading, status, links, relayWork, opening
<1>6. Recorded' /\ UsesBestTransport'
  BY <1>1 DEF Inv, Recorded, Idle, StatusConsistent, UsesBestTransport, CtxOK, status
<1>7. ClosedIsQuiet' /\ InitiatorNow'
  BY <1>1 DEF Inv, ClosedIsQuiet, InitiatorNow, CtxOK, wg, links
<1>8. OnlyActiveDelivers'
  BY <1>1 DEF Inv, OnlyActiveDelivers, Active, status, links, wg
<1> QED BY <1>2, <1>3, <1>4, <1>5, <1>6, <1>7, <1>8, Types DEF Inv

\* A fresh link is in nobody's hands, and opening it disturbs no proxy.
LEMMA OpenI2PKeeps ==
  ASSUME Inv, NEW g \in Openers, OpenI2P(g)
  PROVE  Inv'
<1>1. PICK x \in I2PLinks :
        /\ Fresh(x) /\ got' = [got EXCEPT ![g] = x]
        /\ link' = [link EXCEPT ![x] = "up"] /\ proxy' = [proxy EXCEPT ![x] = "none"]
        /\ loop' = loop /\ bindTo' = bindTo
  BY OpenI2PEffect DEF Inv
<1>2. /\ at[g] = "opening" /\ at' = [at EXCEPT ![g] = "ready"]
      /\ UNCHANGED <<controller, life, status, wg, relayWork, scheduled>>
  BY Zenon DEF OpenI2P
<1>3. Flags'
  BY <1>2, Zenon DEF Inv, TypeOK, Flags, status, wg, relayWork
<1>4. Data' /\ LinkData'
  BY <1>1, <1>2 DEF Inv, TypeOK, Data, LinkData, Links, status, wg, relayWork
<1>5. Hands'
  BY <1>1, <1>2, PeerConnAssumption DEF Inv, TypeOK, Hands, Openers, Fresh
<1>6. Coming'
  BY <1>1, <1>2, PeerConnAssumption DEF Inv, TypeOK, Coming, Fresh, status, relayWork
<1>7. Slotted'
  BY <1>1, <1>2, PeerConnAssumption DEF Inv, TypeOK, Slotted, Slots, Live, Links, Fresh, status
<1>8. NoLinkLeaked'
  BY <1>1, <1>2, PeerConnAssumption DEF Inv, TypeOK, Hands, NoLinkLeaked, Links, Fresh,
     status, relayWork
<1>9. Recorded' /\ UsesBestTransport'
  BY <1>2 DEF Inv, Recorded, Idle, StatusConsistent, UsesBestTransport, CtxOK, status
<1>10. ClosedIsQuiet' /\ InitiatorNow'
  BY <1>1, <1>2 DEF Inv, TypeOK, ClosedIsQuiet, InitiatorNow, CtxOK, wg, Links
<1>11. OnlyActiveDelivers'
  BY <1>1, <1>2 DEF Inv, TypeOK, OnlyActiveDelivers, Active, Slotted, Slots, Live, Links, Fresh,
     status, wg
<1> QED BY <1>3, <1>4, <1>5, <1>6, <1>7, <1>8, <1>9, <1>10, <1>11, Types DEF Inv

\* ... the relay client's as well.
LEMMA OfferOpensKeeps ==
  ASSUME Inv, NEW x \in RelayLinks, OfferOpens(x)
  PROVE  Inv'
<1>1. /\ CtxOK /\ Fresh(x) /\ offer' = [offer EXCEPT ![x] = "opened"]
      /\ UNCHANGED <<controller, life, status, wg, opening>>
      /\ link' = [link EXCEPT ![x] = "up"] /\ proxy' = [proxy EXCEPT ![x] = "none"]
      /\ loop' = loop /\ bindTo' = bindTo
  BY OfferOpensEffect DEF Inv
<1>2. UNCHANGED <<worker, listening, relayDown>>
  BY Zenon DEF OfferOpens
<1>3. Flags'
  BY <1>1, <1>2, Zenon DEF Inv, TypeOK, Flags, status, wg, opening
<1>4. Data' /\ LinkData'
  BY <1>1, <1>2 DEF Inv, TypeOK, Data, LinkData, Links, status, wg, opening
<1>5. Hands'
  BY <1>1, HandsStay DEF opening
<1>6. Coming'
  BY <1>1, PeerConnAssumption DEF Inv, TypeOK, Coming, Fresh, status, opening
<1>7. Slotted'
  BY <1>1, PeerConnAssumption DEF Inv, TypeOK, Slotted, Slots, Live, Links, Fresh, status
<1>8. NoLinkLeaked'
  BY <1>1, PeerConnAssumption DEF Inv, TypeOK, NoLinkLeaked, Links, Fresh, status, opening
<1>9. Recorded' /\ UsesBestTransport'
  BY <1>1 DEF Inv, Recorded, Idle, StatusConsistent, UsesBestTransport, CtxOK, status
<1>10. ClosedIsQuiet' /\ InitiatorNow'
  BY <1>1 DEF Inv, ClosedIsQuiet, InitiatorNow, CtxOK, wg
<1>11. OnlyActiveDelivers'
  BY <1>1 DEF Inv, TypeOK, OnlyActiveDelivers, Active, Slotted, Slots, Live, Links, Fresh,
     status, wg
<1> QED BY <1>3, <1>4, <1>5, <1>6, <1>7, <1>8, <1>9, <1>10, <1>11, Types DEF Inv

\* I2P takes over: its proxy is in the slot and works, the relay's does not.
LEMMA I2PReadyKeeps ==
  ASSUME Inv, NEW g \in Openers, I2PReady(g)
  PROVE  Inv'
<1>1. I2PReadyLinks(g)
  BY I2PReadyEffect DEF Inv
<1>2. /\ at[g] = "ready" /\ CtxOK /\ ConfigureWG(TRUE) /\ i2pProxy' = got[g]
      /\ prio' = I2PDatagram /\ statusI2P' = TRUE /\ published' = "connected" /\ HandOver(g)
      /\ UNCHANGED <<controller, life, relayProxy, statusRelay, relayWork>>
  BY Zenon DEF I2PReady, SetI2PProxy, Publish
<1>3. got[g] \in I2PLinks /\ got[g] # i2pProxy /\ got[g] # NoLink
  BY <1>1, <1>2 DEF Inv, Hands, Coming, I2PReadyLinks
<1>4. Flags'
  BY <1>2, Zenon DEF Inv, TypeOK, Flags, ConfigureWG, HandOver, relayWork
<1>5. Data'
  BY <1>2, <1>3, PeerConnAssumption DEF Inv, TypeOK, Data, ConfigureWG, HandOver, After,
     relayWork, None, Relay, I2PDatagram
<1>6. LinkData'
  BY <1>1, <1>3 DEF Inv, TypeOK, LinkData, Links, I2PReadyLinks
<1>7. Hands'
  BY <1>2, PeerConnAssumption DEF Inv, TypeOK, Hands, Openers, HandOver, After, CtxOK
<1>8. Coming'
  BY <1>1, <1>2, PeerConnAssumption DEF Inv, TypeOK, Hands, Coming, Links, I2PReadyLinks,
     HandOver, relayWork
<1>9. Slotted'
  <2>1. /\ relayProxy \in RelayLinks \cup {NoLink} /\ got[g] \in Links
        /\ got[g] # relayProxy /\ got[g] # i2pProxy /\ loop[got[g]] = "off"
    BY <1>3, PeerConnAssumption DEF Inv, TypeOK, Coming, Links
  <2>2. Slots' = {relayProxy, got[g]}
    BY <1>2 DEF Slots
  <2>3. \A y \in Links :
       /\ proxy'[y] = IF y = i2pProxy THEN "closed" ELSE IF y = got[g] THEN "work"
                      ELSE IF y = relayProxy /\ proxy[y] = "work" THEN "paused" ELSE proxy[y]
       /\ loop'[y] = IF y = got[g] THEN "read" ELSE loop[y]
       /\ link'[y] = IF y = i2pProxy THEN "closed" ELSE link[y]
    BY <1>1 DEF Inv, TypeOK, I2PReadyLinks
  <2>4. bindTo' \in Slots' \cup {NoLink}
    BY <1>1, <2>2 DEF I2PReadyLinks
  <2>5. \A y \in Links : (proxy[y] \in Live <=> y \in Slots) /\ (loop[y] # "off" => proxy[y] # "none")
    BY DEF Inv, Slotted
  <2>6. \A y \in Links : (loop[y] = "close" => y \notin Slots) /\ (proxy[y] = "closed" => link[y] # "up")
    BY DEF Inv, Slotted
  <2>7. \A y \in Links : proxy'[y] \in Live <=> y \in Slots'
    <3>1. \A y \in Links : y = relayProxy => y # i2pProxy
      BY PeerConnAssumption DEF Inv, TypeOK, Links
    <3> QED BY <2>1, <2>2, <2>3, <2>5, <3>1 DEF Live, Slots
  <2>8. \A y \in Links : loop'[y] # "off" => proxy'[y] # "none"
    BY <2>1, <2>3, <2>5
  <2>9. \A y \in Links : loop'[y] = "close" => y \notin Slots'
    BY <2>1, <2>2, <2>3, <2>6 DEF Slots
  <2>10. \A y \in Links : proxy'[y] = "closed" => link'[y] # "up"
    BY <2>1, <2>3, <2>6
  <2> QED BY <2>4, <2>7, <2>8, <2>9, <2>10 DEF Slotted
<1>10. NoLinkLeaked'
  BY <1>1, <1>2, <1>3, PeerConnAssumption DEF Inv, TypeOK, NoLinkLeaked, Links, I2PReadyLinks,
     HandOver, relayWork
<1>11. Recorded' /\ UsesBestTransport'
  BY <1>2, <1>3 DEF Inv, Recorded, Idle, StatusConsistent, UsesBestTransport, CtxOK, I2PDatagram
<1>12. ClosedIsQuiet' /\ InitiatorNow'
  BY <1>2 DEF ClosedIsQuiet, InitiatorNow, CtxOK, ConfigureWG
<1>13. OnlyActiveDelivers'
  BY <1>1, <1>2, <1>3, PeerConnAssumption DEF Inv, TypeOK, OnlyActiveDelivers, Active, Slotted,
     Slots, Live, Links, I2PReadyLinks, ConfigureWG, None, Relay, I2PDatagram
<1> QED BY <1>4, <1>5, <1>6, <1>7, <1>8, <1>9, <1>10, <1>11, <1>12, <1>13, Types DEF Inv

\* ... or fails and closes its proxy, having paused the relay's.
LEMMA I2PReadyFailsKeeps ==
  ASSUME Inv, NEW g \in Openers, I2PReadyFails(g)
  PROVE  Inv'
<1>1. I2PFailedLinks(g)
  BY I2PReadyFailsEffect DEF Inv
<1>2. /\ at[g] = "ready" /\ CtxOK /\ FALSE \in WgOutcomes /\ ConfigureWG(FALSE) /\ HandOver(g)
      /\ UNCHANGED <<controller, life, status, relayWork>>
  BY Zenon DEF I2PReadyFails
<1>3. got[g] \in I2PLinks /\ got[g] # i2pProxy /\ got[g] # NoLink
  BY <1>1, <1>2 DEF Inv, Hands, Coming, I2PFailedLinks
<1>4. Flags'
  BY <1>2, Zenon DEF Inv, TypeOK, Flags, ConfigureWG, HandOver, status, relayWork
<1>5. Data' /\ LinkData'
  BY <1>1, <1>2, <1>3 DEF Inv, TypeOK, Data, LinkData, Links, I2PFailedLinks, ConfigureWG,
     HandOver, After, status, relayWork
<1>6. Hands'
  BY <1>2, PeerConnAssumption DEF Inv, TypeOK, Hands, Openers, HandOver, After, CtxOK
<1>7. Coming'
  BY <1>1, <1>2, PeerConnAssumption DEF Inv, TypeOK, Hands, Coming, Links, I2PFailedLinks,
     HandOver, status, relayWork
<1>8. Slotted'
  <2>1. /\ got[g] \in Links /\ got[g] # relayProxy /\ got[g] # i2pProxy
        /\ loop[got[g]] = "off"
    BY <1>3, PeerConnAssumption DEF Inv, TypeOK, Coming, Links
  <2>2. Slots' = Slots
    BY <1>2 DEF Slots, status
  <2>3. \A y \in Links :
       /\ proxy'[y] = IF y = got[g] THEN "closed"
                      ELSE IF y = relayProxy /\ proxy[y] = "work" THEN "paused" ELSE proxy[y]
       /\ y # got[g] => loop'[y] = loop[y] /\ link'[y] = link[y]
       /\ y = got[g] => loop'[y] \in {"off", "read"} /\ link'[y] = "closed"
    BY <1>1, <2>1 DEF Inv, TypeOK, I2PFailedLinks
  <2>4. bindTo' \in Slots' \cup {NoLink}
    BY <1>1 DEF I2PFailedLinks
  <2>5. \A y \in Links : (proxy[y] \in Live <=> y \in Slots) /\ (loop[y] # "off" => proxy[y] # "none")
    BY DEF Inv, Slotted
  <2>6. \A y \in Links : (loop[y] = "close" => y \notin Slots) /\ (proxy[y] = "closed" => link[y] # "up")
    BY DEF Inv, Slotted
  <2>7. \A y \in Links : proxy'[y] \in Live <=> y \in Slots'
    <3>1. \A y \in Links : y = relayProxy => y # i2pProxy
      BY PeerConnAssumption DEF Inv, TypeOK, Links
    <3> QED BY <2>1, <2>2, <2>3, <2>5, <3>1 DEF Live, Slots
  <2>8. \A y \in Links : loop'[y] # "off" => proxy'[y] # "none"
    BY <2>1, <2>3, <2>5
  <2>9. \A y \in Links : loop'[y] = "close" => y \notin Slots'
    BY <2>1, <2>2, <2>3, <2>6 DEF Slots
  <2>10. \A y \in Links : proxy'[y] = "closed" => link'[y] # "up"
    BY <2>1, <2>3, <2>6
  <2> QED BY <2>4, <2>7, <2>8, <2>9, <2>10 DEF Slotted
<1>9. NoLinkLeaked'
  BY <1>1, <1>2, <1>3, PeerConnAssumption DEF Inv, TypeOK, NoLinkLeaked, Links, I2PFailedLinks,
     HandOver, status, relayWork
<1>10. Recorded' /\ UsesBestTransport'
  BY <1>2 DEF Inv, Recorded, Idle, StatusConsistent, UsesBestTransport, CtxOK, status
<1>11. ClosedIsQuiet' /\ InitiatorNow'
  BY <1>2 DEF ClosedIsQuiet, InitiatorNow, CtxOK, ConfigureWG
<1>12. OnlyActiveDelivers'
  BY <1>2 DEF OnlyActiveDelivers, WgOutcomes
<1> QED BY <1>4, <1>5, <1>6, <1>7, <1>8, <1>9, <1>10, <1>11, <1>12, Types DEF Inv

\* A relay in reserve is in the slot and does not deliver.
LEMMA RelayReadyStandbyKeeps ==
  ASSUME Inv, NEW x \in RelayLinks, RelayReadyStandby(x)
  PROVE  Inv'
<1>1. StandbyLinks(x)
  BY StandbyEffect DEF Inv
<1>2. /\ offer[x] = "ready" /\ CtxOK /\ I2PActive /\ relayProxy' = x /\ statusRelay' = TRUE
      /\ published' = "connected" /\ Accept(x)
      /\ UNCHANGED <<controller, life, prio, statusI2P, i2pProxy, wg, opening>>
  BY Zenon DEF RelayReadyStandby, SetRelayedProxy, Publish
<1>3. Flags'
  BY <1>2, Zenon DEF Inv, TypeOK, Flags, Accept, wg, opening
<1>4. Data' /\ LinkData'
  BY <1>1, <1>2 DEF Inv, TypeOK, Data, LinkData, Links, StandbyLinks, Accept, wg, opening
<1>5. Hands'
  BY <1>2, HandsStay DEF opening
<1>6. Coming'
  BY <1>1, <1>2, PeerConnAssumption DEF Inv, TypeOK, Coming, Links, StandbyLinks, Accept, opening
<1>7. Slotted'
  <2>1. x \in Links /\ x # relayProxy /\ x # i2pProxy /\ loop[x] = "off"
    BY <1>2, PeerConnAssumption DEF Inv, TypeOK, Coming, Links
  <2>2. Slots' = {x, i2pProxy}
    BY <1>2 DEF Slots
  <2>3. \A y \in Links :
       /\ proxy'[y] = IF y = relayProxy THEN "closed" ELSE IF y = x THEN "idle" ELSE proxy[y]
       /\ loop'[y] = loop[y]
       /\ link'[y] = IF y = relayProxy THEN "closed" ELSE link[y]
    BY <1>1 DEF StandbyLinks
  <2>4. bindTo' \in Slots' \cup {NoLink}
    BY <1>1, <2>2 DEF Inv, Slotted, Slots, StandbyLinks
  <2>5. \A y \in Links : (proxy[y] \in Live <=> y \in Slots) /\ (loop[y] # "off" => proxy[y] # "none")
    BY DEF Inv, Slotted
  <2>6. \A y \in Links : (loop[y] = "close" => y \notin Slots) /\ (proxy[y] = "closed" => link[y] # "up")
    BY DEF Inv, Slotted
  <2>7. \A y \in Links : proxy'[y] \in Live <=> y \in Slots'
    <3>1. \A y \in Links : y = relayProxy => y # i2pProxy
      BY PeerConnAssumption DEF Inv, TypeOK, Links
    <3> QED BY <2>1, <2>2, <2>3, <2>5, <3>1 DEF Live, Slots
  <2>8. \A y \in Links : loop'[y] # "off" => proxy'[y] # "none"
    BY <2>1, <2>3, <2>5
  <2>9. \A y \in Links : loop'[y] = "close" => y \notin Slots'
    BY <2>1, <2>2, <2>3, <2>6 DEF Slots
  <2>10. \A y \in Links : proxy'[y] = "closed" => link'[y] # "up"
    BY <2>1, <2>3, <2>6
  <2> QED BY <2>4, <2>7, <2>8, <2>9, <2>10 DEF Slotted
<1>8. NoLinkLeaked'
  BY <1>1, <1>2, PeerConnAssumption DEF Inv, TypeOK, NoLinkLeaked, Links, StandbyLinks, Accept,
     opening
<1>9. Recorded' /\ UsesBestTransport'
  BY <1>2, PeerConnAssumption DEF Inv, Recorded, Idle, StatusConsistent, UsesBestTransport,
     CtxOK, I2PActive
<1>10. ClosedIsQuiet' /\ InitiatorNow'
  BY <1>2 DEF Inv, ClosedIsQuiet, InitiatorNow, CtxOK, wg
<1>11. OnlyActiveDelivers'
  BY <1>1, <1>2, PeerConnAssumption DEF Inv, TypeOK, Coming, OnlyActiveDelivers, Active,
     I2PActive, Slotted, Slots, Live, Links, StandbyLinks, wg, None, Relay, I2PDatagram
<1> QED BY <1>3, <1>4, <1>5, <1>6, <1>7, <1>8, <1>9, <1>10, <1>11, Types DEF Inv

\* The relay becomes the active transport.
LEMMA RelayReadyKeeps ==
  ASSUME Inv, NEW x \in RelayLinks, RelayReady(x)
  PROVE  Inv'
<1>1. RelayReadyLinks(x)
  BY RelayReadyEffect DEF Inv
<1>2. /\ offer[x] = "ready" /\ CtxOK /\ ~I2PActive /\ ConfigureWG(TRUE) /\ relayProxy' = x
      /\ prio' = Relay /\ statusRelay' = TRUE /\ published' = "connected" /\ Accept(x)
      /\ Schedule(at, statusI2P)
      /\ UNCHANGED <<controller, life, statusI2P, i2pProxy, got>>
  BY Zenon DEF RelayReady, SetRelayedProxy, Publish
<1>3. Flags'
  BY <1>2, Zenon DEF Inv, TypeOK, Flags, ConfigureWG, Accept, Schedule
<1>4. Data'
  BY <1>2 DEF Inv, TypeOK, Data, Openers, ConfigureWG, Accept, Schedule, None, Relay, I2PDatagram
<1>5. LinkData'
  BY <1>1 DEF Inv, TypeOK, LinkData, Links, RelayReadyLinks
<1>6. Hands'
  BY <1>2, PeerConnAssumption DEF Inv, TypeOK, Hands, Openers, Schedule, CtxOK
<1>7. Coming'
  BY <1>1, <1>2, PeerConnAssumption DEF Inv, TypeOK, Coming, Links, RelayReadyLinks, Accept
<1>8. Slotted'
  <2>1. x \in Links /\ x # relayProxy /\ x # i2pProxy /\ loop[x] = "off"
    BY <1>2, PeerConnAssumption DEF Inv, TypeOK, Coming, Links
  <2>2. Slots' = {x, i2pProxy}
    BY <1>2 DEF Slots
  <2>3. \A y \in Links :
       /\ proxy'[y] = IF y = relayProxy THEN "closed" ELSE IF y = x THEN "work" ELSE proxy[y]
       /\ loop'[y] = IF y = x THEN "read" ELSE loop[y]
       /\ link'[y] = IF y = relayProxy THEN "closed" ELSE link[y]
    BY <1>1 DEF Inv, TypeOK, RelayReadyLinks
  <2>4. bindTo' \in Slots' \cup {NoLink}
    BY <1>1, <2>2 DEF RelayReadyLinks
  <2>5. \A y \in Links : (proxy[y] \in Live <=> y \in Slots) /\ (loop[y] # "off" => proxy[y] # "none")
    BY DEF Inv, Slotted
  <2>6. \A y \in Links : (loop[y] = "close" => y \notin Slots) /\ (proxy[y] = "closed" => link[y] # "up")
    BY DEF Inv, Slotted
  <2>7. \A y \in Links : proxy'[y] \in Live <=> y \in Slots'
    <3>1. \A y \in Links : y = relayProxy => y # i2pProxy
      BY PeerConnAssumption DEF Inv, TypeOK, Links
    <3> QED BY <2>1, <2>2, <2>3, <2>5, <3>1 DEF Live, Slots
  <2>8. \A y \in Links : loop'[y] # "off" => proxy'[y] # "none"
    BY <2>1, <2>3, <2>5
  <2>9. \A y \in Links : loop'[y] = "close" => y \notin Slots'
    BY <2>1, <2>2, <2>3, <2>6 DEF Slots
  <2>10. \A y \in Links : proxy'[y] = "closed" => link'[y] # "up"
    BY <2>1, <2>3, <2>6
  <2> QED BY <2>4, <2>7, <2>8, <2>9, <2>10 DEF Slotted
<1>9. NoLinkLeaked'
  BY <1>1, <1>2, PeerConnAssumption DEF Inv, TypeOK, NoLinkLeaked, Links, RelayReadyLinks, Accept
<1>10. Recorded' /\ UsesBestTransport'
  BY <1>2, PeerConnAssumption DEF Inv, Recorded, Idle, StatusConsistent, UsesBestTransport,
     CtxOK, I2PActive
<1>11. ClosedIsQuiet' /\ InitiatorNow'
  BY <1>2 DEF ClosedIsQuiet, InitiatorNow, CtxOK, ConfigureWG
<1>12. OnlyActiveDelivers'
  <2> SUFFICES ASSUME controller', controller' \notin WgMayFail
               PROVE  \A y \in Links : proxy'[y] = "work" <=> y = Active'
    BY <1>2 DEF OnlyActiveDelivers, None, Relay
  <2>1. Active' = x
    BY <1>2 DEF Active, Relay, I2PDatagram
  <2>2. Active = relayProxy \/ Active = NoLink
    <3>1. ~statusI2P
      BY <1>2 DEF Inv, UsesBestTransport, I2PActive
    <3>2. prio \in {Relay, None}
      BY <3>1 DEF Inv, UsesBestTransport
    <3> QED BY <3>2 DEF Active, None, Relay, I2PDatagram
  <2>3. \A y \in Links : proxy[y] = "work" <=> y = Active
    BY <1>2 DEF Inv, OnlyActiveDelivers
  <2>4. \A y \in Links : y # NoLink
    BY PeerConnAssumption DEF Links
  <2>5. x # relayProxy
    BY <1>2 DEF Inv, Coming
  <2>6. \A y \in Links : proxy'[y] = IF y = relayProxy THEN "closed"
                                     ELSE IF y = x THEN "work" ELSE proxy[y]
    BY <1>1 DEF RelayReadyLinks
  <2> QED BY <2>1, <2>2, <2>3, <2>4, <2>5, <2>6
<1> QED BY <1>3, <1>4, <1>5, <1>6, <1>7, <1>8, <1>9, <1>10, <1>11, <1>12, Types DEF Inv

\* ... or its proxy is closed again.
LEMMA RelayReadyFailsKeeps ==
  ASSUME Inv, NEW x \in RelayLinks, RelayReadyFails(x)
  PROVE  Inv'
<1>1. RelayFailedLinks(x)
  BY RelayReadyFailsEffect DEF Inv
<1>2. /\ offer[x] = "ready" /\ CtxOK /\ FALSE \in WgOutcomes /\ ConfigureWG(FALSE) /\ Accept(x)
      /\ UNCHANGED <<controller, life, status, opening>>
  BY Zenon DEF RelayReadyFails
<1>3. Flags'
  BY <1>2, Zenon DEF Inv, TypeOK, Flags, ConfigureWG, Accept, status, opening
<1>4. Data' /\ LinkData'
  BY <1>1, <1>2 DEF Inv, TypeOK, Data, LinkData, Links, RelayFailedLinks, ConfigureWG, Accept,
     status, opening
<1>5. Hands'
  BY <1>2, HandsStay DEF opening
<1>6. Coming'
  BY <1>1, <1>2, PeerConnAssumption DEF Inv, TypeOK, Coming, Links, RelayFailedLinks, Accept,
     status, opening
<1>7. Slotted'
  <2>1. x \in Links /\ x # relayProxy /\ x # i2pProxy /\ loop[x] = "off"
    BY <1>2, PeerConnAssumption DEF Inv, TypeOK, Coming, Links
  <2>2. Slots' = Slots
    BY <1>2 DEF Slots, status
  <2>3. \A y \in Links :
       /\ proxy'[y] = IF y = x THEN "closed" ELSE proxy[y]
       /\ y # x => loop'[y] = loop[y] /\ link'[y] = link[y]
       /\ y = x => loop'[y] \in {"off", "read"} /\ link'[y] = "closed"
    BY <1>1, <2>1 DEF Inv, TypeOK, RelayFailedLinks
  <2>4. bindTo' \in Slots' \cup {NoLink}
    BY <1>1 DEF RelayFailedLinks
  <2>5. \A y \in Links : (proxy[y] \in Live <=> y \in Slots) /\ (loop[y] # "off" => proxy[y] # "none")
    BY DEF Inv, Slotted
  <2>6. \A y \in Links : (loop[y] = "close" => y \notin Slots) /\ (proxy[y] = "closed" => link[y] # "up")
    BY DEF Inv, Slotted
  <2>7. \A y \in Links : proxy'[y] \in Live <=> y \in Slots'
    <3>1. \A y \in Links : y = relayProxy => y # i2pProxy
      BY PeerConnAssumption DEF Inv, TypeOK, Links
    <3> QED BY <2>1, <2>2, <2>3, <2>5, <3>1 DEF Live, Slots
  <2>8. \A y \in Links : loop'[y] # "off" => proxy'[y] # "none"
    BY <2>1, <2>3, <2>5
  <2>9. \A y \in Links : loop'[y] = "close" => y \notin Slots'
    BY <2>1, <2>2, <2>3, <2>6 DEF Slots
  <2>10. \A y \in Links : proxy'[y] = "closed" => link'[y] # "up"
    BY <2>1, <2>3, <2>6
  <2> QED BY <2>4, <2>7, <2>8, <2>9, <2>10 DEF Slotted
<1>8. NoLinkLeaked'
  BY <1>1, <1>2, PeerConnAssumption DEF Inv, TypeOK, NoLinkLeaked, Links, RelayFailedLinks,
     Accept, status, opening
<1>9. Recorded' /\ UsesBestTransport'
  BY <1>2 DEF Inv, Recorded, Idle, StatusConsistent, UsesBestTransport, CtxOK, status
<1>10. ClosedIsQuiet' /\ InitiatorNow'
  BY <1>2 DEF ClosedIsQuiet, InitiatorNow, CtxOK, ConfigureWG
<1>11. OnlyActiveDelivers'
  BY <1>2 DEF OnlyActiveDelivers, WgOutcomes
<1> QED BY <1>3, <1>4, <1>5, <1>6, <1>7, <1>8, <1>9, <1>10, <1>11, Types DEF Inv

\* The relay is given up: its proxy leaves the slot closed.
LEMMA RelayGoneKeeps ==
  ASSUME Inv, RelayGone
  PROVE  Inv'
<1>1. Flags'
  BY Zenon DEF RelayGone, Publish, CtxOK, RemoveAddress, status, wg, opening, Inv, TypeOK, Flags
<1>2. Data'
  <2>1. UNCHANGED <<controller, life, i2pProxy, offer, worker, at, got>>
    BY DEF RelayGone, opening
  <2>2. CASE CtxOK
    <3>1. /\ relayProxy' = NoLink
          /\ prio' \in {None, prio}
          /\ wgPeer' \in {wgPeer, "absent", "noaddr"}
          /\ published' \in {"connecting", "connected"}
      BY <2>2 DEF RelayGone, RemoveAddress, Publish, wg
    <3> QED BY <2>1, <3>1 DEF Inv, TypeOK, Data
  <2>3. CASE ~CtxOK
    <3>1. UNCHANGED <<prio, relayProxy, published, wgPeer>>
      BY <2>3 DEF RelayGone, status, wg
    <3> QED BY <2>1, <3>1 DEF Inv, TypeOK, Data
  <2> QED BY <2>2, <2>3
<1>3. Hands'
  BY HandsStay DEF RelayGone, opening
<1>4. /\ relayProxy' = NoLink /\ i2pProxy' = i2pProxy
      /\ proxy' = [y \in Links |-> IF y = relayProxy THEN "closed" ELSE proxy[y]]
      /\ bindTo' = IF relayProxy = NoLink THEN bindTo ELSE NoLink
      /\ \A y \in Links : y = relayProxy => link'[y] = "closed"
  <2>1. CASE CtxOK
    BY <2>1 DEF RelayGone
  <2>2. CASE ~CtxOK
    <3>1. relayProxy = NoLink
      BY <2>2 DEF Inv, Recorded, Idle, StatusConsistent
    <3>2. UNCHANGED <<relayProxy, i2pProxy, proxy, bindTo>>
      BY <2>2 DEF RelayGone, status
    <3>3. \A y \in Links : y # NoLink
      BY PeerConnAssumption DEF Links
    <3> QED BY <3>1, <3>2, <3>3 DEF Inv, TypeOK
  <2> QED BY <2>1, <2>2
<1>5. /\ relayProxy \in RelayLinks \cup {NoLink} /\ i2pProxy \in I2PLinks \cup {NoLink}
      /\ \A y \in Links : y # NoLink /\ (y = relayProxy => y # i2pProxy)
      /\ \A y \in RelayLinks : y \in Links
      /\ \A y \in Openers : got[y] # NoLink => got[y] \in Links
  BY PeerConnAssumption DEF Inv, TypeOK, Links
<1>6. /\ UNCHANGED <<offer, got>>
      /\ \A y \in Links : link'[y] \in {link[y], "closed"}
      /\ \A y \in Links : \/ loop'[y] = loop[y]
                          \/ loop[y] = "notify" /\ loop'[y] = "close" /\ y # i2pProxy
  <2>1. \A y \in RelayLinks : y # i2pProxy
    BY PeerConnAssumption DEF Inv, TypeOK
  <2>2. \A y \in Links : \/ loop'[y] = loop[y]
                         \/ y \in RelayLinks /\ loop[y] = "notify" /\ loop'[y] = "close"
    BY DEF RelayGone
  <2>3. UNCHANGED <<offer, got>> /\ \A y \in Links : link'[y] \in {link[y], "closed"}
    BY DEF RelayGone, opening
  <2> QED BY <2>1, <2>2, <2>3
<1>7. Coming'
  <2>1. \A g \in Openers : got'[g] # NoLink => got'[g] # i2pProxy' /\ loop'[got'[g]] = "off"
    BY <1>4, <1>6, <1>5 DEF Inv, Coming
  <2>2. \A x \in RelayLinks : offer'[x] # "none" => x # relayProxy' /\ loop'[x] = "off"
    BY <1>4, <1>6, <1>5 DEF Inv, Coming
  <2> QED BY <2>1, <2>2 DEF Coming
<1>8. Slotted'
  <2>1. Slots' = {NoLink, i2pProxy}
    BY <1>4 DEF Slots
  <2>2. \A y \in Links : proxy'[y] = IF y = relayProxy THEN "closed" ELSE proxy[y]
    BY <1>4
  <2>3. bindTo' \in Slots' \cup {NoLink}
    BY <1>4, <2>1 DEF Inv, Slotted, Slots
  <2>4. \A y \in Links : (proxy[y] \in Live <=> y \in Slots) /\ (loop[y] # "off" => proxy[y] # "none")
    BY DEF Inv, Slotted
  <2>5. \A y \in Links : (loop[y] = "close" => y \notin Slots) /\ (proxy[y] = "closed" => link[y] # "up")
    BY DEF Inv, Slotted
  <2>6. \A y \in Links : proxy'[y] \in Live <=> y \in Slots'
    BY <1>5, <2>1, <2>2, <2>4 DEF Live, Slots
  <2>7. \A y \in Links : loop'[y] # "off" => proxy'[y] # "none"
    BY <1>6, <2>2, <2>4
  <2>8. \A y \in Links : loop'[y] = "close" => y \notin Slots'
    BY <1>6, <1>5, <2>1, <2>5 DEF Slots
  <2>9. \A y \in Links : proxy'[y] = "closed" => link'[y] # "up"
    BY <1>4, <1>6, <2>2, <2>5
  <2> QED BY <2>3, <2>6, <2>7, <2>8, <2>9 DEF Slotted
<1>9. NoLinkLeaked'
  BY <1>4, <1>6 DEF Inv, NoLinkLeaked
<1>10. Recorded' /\ UsesBestTransport'
  <2>1. CASE CtxOK
    <3>1. /\ CtxOK' /\ statusRelay' = FALSE /\ relayProxy' = NoLink
          /\ prio' = IF prio = Relay THEN None ELSE prio
          /\ published' = IF statusI2P THEN "connected" ELSE "connecting"
          /\ UNCHANGED <<statusI2P, i2pProxy>>
      BY <2>1 DEF RelayGone, Publish, CtxOK
    <3>2. Recorded'
      BY <3>1 DEF Inv, Recorded, Idle, StatusConsistent
    <3> QED BY <3>1, <3>2 DEF Inv, UsesBestTransport, None, Relay, I2PDatagram
  <2>2. CASE ~CtxOK
    <3>1. UNCHANGED <<life, prio, statusRelay, statusI2P, relayProxy, i2pProxy, published>>
      BY <2>2 DEF RelayGone, status
    <3> QED BY <3>1 DEF Inv, CtxOK, Recorded, Idle, StatusConsistent, UsesBestTransport
  <2> QED BY <2>1, <2>2
<1>11. ClosedIsQuiet' /\ InitiatorNow'
  <2>1. InitiatorNow'
    BY Zenon DEF RelayGone, RemoveAddress, wg, Inv, InitiatorNow
  <2>2. CASE CtxOK
    BY <2>1, <2>2 DEF RelayGone, ClosedIsQuiet, CtxOK
  <2>3. CASE ~CtxOK
    <3>1. UNCHANGED <<proxy, bindTo, wgPeer, delayed>>
      BY <2>3 DEF RelayGone, wg
    <3> QED BY <2>1, <2>3, <3>1 DEF Inv, ClosedIsQuiet
  <2> QED BY <2>2, <2>3
<1>12. OnlyActiveDelivers'
  <2> SUFFICES ASSUME controller', controller' \notin WgMayFail
               PROVE  /\ \A y \in Links : proxy'[y] = "work" <=> y = Active'
                      /\ prio' = None => wgPeer' # "fake"
    BY DEF OnlyActiveDelivers
  <2>1. /\ \A y \in Links : proxy[y] = "work" <=> y = Active
        /\ prio = None => wgPeer # "fake"
    BY DEF RelayGone, Inv, OnlyActiveDelivers
  <2>2. /\ prio' = IF prio = Relay THEN None ELSE prio
        /\ prio' = None => wgPeer' # "fake"
    <3>1. CASE CtxOK
      BY <2>1, <3>1 DEF RelayGone, RemoveAddress, wg
    <3>2. CASE ~CtxOK
      <4>1. ~statusRelay /\ ~statusI2P
        BY <3>2 DEF Inv, Recorded, Idle
      <4>2. prio = None
        BY <4>1 DEF Inv, UsesBestTransport
      <4>3. UNCHANGED <<prio, wgPeer>>
        BY <3>2 DEF RelayGone, status, wg
      <4> QED BY <2>1, <4>2, <4>3 DEF None, Relay
    <3> QED BY <3>1, <3>2
  <2>3. \A y \in Links : proxy'[y] = IF y = relayProxy THEN "closed" ELSE proxy[y]
    BY <1>4
  <2>4. CASE prio = Relay
    <3>1. Active = relayProxy /\ Active' = NoLink
      BY <2>2, <2>4 DEF Active, None, Relay, I2PDatagram
    <3> QED BY <1>5, <2>1, <2>2, <2>3, <3>1
  <2>5. CASE prio # Relay
    <3>1. Active' = Active /\ (Active = i2pProxy \/ Active = NoLink)
      BY <1>4, <2>2, <2>5 DEF Active
    <3> QED BY <1>5, <2>1, <2>2, <2>3, <3>1
  <2> QED BY <2>4, <2>5
<1>13. LinkData'
  <2>1. /\ link' \in [Links -> {"up", "broken", "closed"}]
        /\ loop' \in [Links -> {"off", "read", "notify", "close"}]
    BY DEF RelayGone
  <2> QED BY <1>4, <2>1 DEF Inv, TypeOK, LinkData
<1> QED BY <1>1, <1>2, <1>3, <1>7, <1>8, <1>9, <1>10, <1>11, <1>12, <1>13, Types DEF Inv

\* I2P is given up, and the relay's proxy works again if there is one.
LEMMA I2PGoneKeeps ==
  ASSUME Inv, I2PGone
  PROVE  Inv'
<1>1. I2PGoneLinks
  BY DEF I2PGone
<1>2. /\ UNCHANGED <<controller, life, statusRelay, relayWork>>
      /\ CtxOK => /\ statusI2P' = FALSE
                  /\ published' = IF statusRelay THEN "connected" ELSE "connecting"
      /\ ~CtxOK => UNCHANGED <<statusI2P, published>>
  BY Zenon DEF I2PGone, Publish, status
<1>3. /\ CtxOK => \/ FallBack /\ prio' = Relay /\ wgPeer' \in {wgPeer, "fake"}
                  \/ prio = I2PDatagram /\ ~FallBack /\ prio' = None /\ RemoveAddress
                  \/ prio # I2PDatagram /\ UNCHANGED <<prio, wgPeer>>
      /\ CtxOK => delayed' = delayed \/ delayed' = FALSE
      /\ ~CtxOK => UNCHANGED <<prio, wgPeer, delayed>>
  BY Zenon DEF I2PGone, SwitchWG, RemoveAddress, status, wg
<1>4. /\ CtxOK => Schedule(at, FALSE)
      /\ ~CtxOK => UNCHANGED <<at, scheduled>>
  BY Zenon DEF I2PGone
<1>5. Flags'
  BY <1>2, <1>3, <1>4, Zenon DEF Inv, TypeOK, Flags, Schedule, relayWork
<1>6. at' \in [Openers -> {"off", "sleep", "cancelled", "opening", "ready", "clear", "post"}]
  BY <1>4 DEF Inv, TypeOK, Openers, Schedule
<1>7. Data'
  <2>1. /\ i2pProxy' \in I2PLinks \cup {NoLink} /\ UNCHANGED <<relayProxy, got>>
    BY <1>1 DEF Inv, TypeOK, I2PGoneLinks
  <2>2. prio' \in {None, Relay, I2PDatagram} /\ wgPeer' \in {"absent", "noaddr", "fake"}
    BY <1>3 DEF Inv, TypeOK, RemoveAddress
  <2>3. published' \in {"idle", "connecting", "connected"}
    BY <1>2 DEF Inv, TypeOK
  <2> QED BY <1>2, <1>6, <2>1, <2>2, <2>3 DEF Inv, TypeOK, Data, relayWork
<1>8. LinkData'
  BY <1>1 DEF Inv, TypeOK, LinkData, Links, I2PGoneLinks
<1>9. Hands'
  <2>1. got' = got /\ life' = life
    BY <1>1, <1>2 DEF I2PGoneLinks
  <2>2. CASE at' = at
    BY <2>1, <2>2 DEF Inv, Hands
  <2>3. CASE CtxOK /\ \E h \in Retriers : at[h] = "off" /\ at' = [at EXCEPT ![h] = "sleep"]
    <3>1. PICK h \in Retriers : at[h] = "off" /\ at' = [at EXCEPT ![h] = "sleep"]
      BY <2>3
    <3>2. \A j \in Openers : at'[j] = IF j = h THEN "sleep" ELSE at[j]
      BY <3>1 DEF Inv, TypeOK
    <3>3. life' # "closed"
      BY <2>1, <2>3 DEF CtxOK
    <3> QED BY <2>1, <3>1, <3>2, <3>3 DEF Inv, Hands
  <2> QED BY <1>4, <2>2, <2>3 DEF Schedule
<1>10. Coming'
  <2>1. UNCHANGED <<relayProxy, offer, got>> /\ i2pProxy' \in {i2pProxy, NoLink}
    BY <1>1 DEF I2PGoneLinks
  <2>2. \A y \in Links : loop[y] = "off" => loop'[y] = "off" \/ y = relayProxy
    BY <1>1 DEF I2PGoneLinks
  <2>3. \A g \in Openers : got[g] # NoLink => got[g] \in Links /\ got[g] # relayProxy
    BY PeerConnAssumption DEF Inv, TypeOK, Links
  <2>4. \A x \in RelayLinks : offer[x] # "none" => x \in Links /\ x # relayProxy /\ loop[x] = "off"
    BY DEF Inv, Coming, Links
  <2>5. \A g \in Openers : got[g] # NoLink => got[g] # i2pProxy /\ loop[got[g]] = "off"
    BY DEF Inv, Coming
  <2> QED BY <2>1, <2>2, <2>3, <2>4, <2>5 DEF Coming
<1>11. ~CtxOK => relayProxy = NoLink /\ i2pProxy = NoLink
  BY DEF Inv, Recorded, Idle, StatusConsistent
<1>12. Slotted'
  <2>1. /\ i2pProxy' = NoLink /\ relayProxy' = relayProxy
        /\ \A y \in Links : y = i2pProxy => link'[y] = "closed"
        /\ proxy' = [y \in Links |-> IF y = i2pProxy THEN "closed"
                                     ELSE IF FallBack /\ y = relayProxy THEN "work"
                                     ELSE proxy[y]]
        /\ bindTo' \in {relayProxy, NoLink} \/ (bindTo' = bindTo /\ i2pProxy = NoLink)
    <3>1. CASE CtxOK
      BY <1>1, <3>1 DEF I2PGoneLinks
    <3>2. CASE ~CtxOK
      <4>1. UNCHANGED <<relayProxy, i2pProxy, proxy, bindTo>> /\ ~FallBack
        BY <1>1, <1>11, <3>2 DEF I2PGoneLinks, FallBack
      <4>2. \A y \in Links : y # NoLink
        BY PeerConnAssumption DEF Links
      <4> QED BY <1>11, <3>2, <4>1, <4>2 DEF Inv, TypeOK
    <3> QED BY <3>1, <3>2
  <2>2. /\ Slots' = {relayProxy, NoLink}
        /\ \A y \in Links : y # NoLink /\ (y = relayProxy => y # i2pProxy)
    BY <2>1, PeerConnAssumption DEF Slots, Inv, TypeOK, Links
  <2>3. \A y \in Links : /\ link'[y] \in {link[y], "closed"}
                         /\ \/ loop'[y] = loop[y]
                            \/ loop[y] = "notify" /\ loop'[y] = "close" /\ y # relayProxy
                            \/ y = relayProxy /\ loop'[y] = "read"
    <3>1. \A y \in I2PLinks : y # relayProxy
      BY PeerConnAssumption DEF Inv, TypeOK
    <3> QED BY <1>1, <3>1 DEF I2PGoneLinks
  <2>4. bindTo' \in Slots' \cup {NoLink}
    BY <2>1, <2>2 DEF Inv, Slotted, Slots
  <2>5. \A y \in Links : (proxy[y] \in Live <=> y \in Slots) /\ (loop[y] # "off" => proxy[y] # "none")
    BY DEF Inv, Slotted
  <2>6. \A y \in Links : (loop[y] = "close" => y \notin Slots) /\ (proxy[y] = "closed" => link[y] # "up")
    BY DEF Inv, Slotted
  <2>7. \A y \in Links : proxy'[y] = IF y = i2pProxy THEN "closed"
                                     ELSE IF FallBack /\ y = relayProxy THEN "work" ELSE proxy[y]
    BY <2>1
  <2>8. \A y \in Links : proxy'[y] \in Live <=> y \in Slots'
    BY <2>2, <2>5, <2>7 DEF Live, Slots
  <2>9. \A y \in Links : loop'[y] # "off" => proxy'[y] # "none"
    BY <2>3, <2>5, <2>7 DEF Live, Slots
  <2>10. \A y \in Links : loop'[y] = "close" => y \notin Slots'
    BY <2>2, <2>3, <2>6 DEF Slots
  <2>11. \A y \in Links : proxy'[y] = "closed" => link'[y] # "up"
    BY <2>1, <2>3, <2>6, <2>7
  <2> QED BY <2>4, <2>8, <2>9, <2>10, <2>11 DEF Slotted
<1>13. NoLinkLeaked'
  <2>1. UNCHANGED <<relayProxy, offer, got>>
    BY <1>1 DEF I2PGoneLinks
  <2>2. \A y \in Links : link'[y] = "up" => link[y] = "up" /\ (y = i2pProxy => i2pProxy' = i2pProxy)
    BY <1>1 DEF I2PGoneLinks
  <2> QED BY <2>1, <2>2 DEF Inv, NoLinkLeaked
<1>14. Recorded' /\ UsesBestTransport'
  <2>1. UNCHANGED <<life, statusRelay, relayProxy>>
    BY <1>1, <1>2 DEF I2PGoneLinks
  <2>2. CASE CtxOK
    <3>1. /\ statusI2P' = FALSE /\ i2pProxy' = NoLink /\ CtxOK'
          /\ published' = IF statusRelay THEN "connected" ELSE "connecting"
      BY <1>1, <1>2, <2>1, <2>2 DEF I2PGoneLinks, CtxOK
    <3>2. prio' = IF statusRelay THEN Relay ELSE None
      <4>1. prio # I2PDatagram => ~statusI2P
        BY DEF Inv, UsesBestTransport
      <4>2. statusRelay => relayProxy # NoLink
        BY DEF Inv, Recorded, StatusConsistent
      <4>3. prio # I2PDatagram => prio = IF statusRelay THEN Relay ELSE None
        BY <4>1 DEF Inv, UsesBestTransport
      <4> QED BY <1>3, <2>2, <4>2, <4>3 DEF FallBack
    <3>3. Recorded'
      BY <2>1, <3>1 DEF Inv, Recorded, Idle, StatusConsistent
    <3> QED BY <2>1, <3>1, <3>2, <3>3 DEF UsesBestTransport
  <2>3. CASE ~CtxOK
    <3>1. UNCHANGED <<prio, statusI2P, i2pProxy, published>>
      BY <1>1, <1>2, <1>3, <2>3 DEF I2PGoneLinks
    <3> QED BY <2>1, <3>1 DEF Inv, CtxOK, Recorded, Idle, StatusConsistent, UsesBestTransport
  <2> QED BY <2>2, <2>3
<1>15. ClosedIsQuiet' /\ InitiatorNow'
  BY <1>1, <1>2, <1>3 DEF Inv, ClosedIsQuiet, InitiatorNow, I2PGoneLinks, CtxOK
<1>16. OnlyActiveDelivers'
  <2> SUFFICES ASSUME controller', controller' \notin WgMayFail
               PROVE  /\ \A y \in Links : proxy'[y] = "work" <=> y = Active'
                      /\ prio' = None => wgPeer' # "fake"
    BY DEF OnlyActiveDelivers
  <2>1. /\ \A y \in Links : proxy[y] = "work" <=> y = Active
        /\ prio = None => wgPeer # "fake"
    BY <1>2 DEF Inv, OnlyActiveDelivers
  <2>2. CASE CtxOK
    <3>1. /\ i2pProxy' = NoLink /\ relayProxy' = relayProxy
          /\ \A y \in Links : proxy'[y] = IF y = i2pProxy THEN "closed"
                                           ELSE IF FallBack /\ y = relayProxy THEN "work"
                                           ELSE proxy[y]
      BY <1>1, <2>2 DEF I2PGoneLinks
    <3>2. \A y \in Links : y # NoLink /\ (y = relayProxy => y # i2pProxy)
      BY PeerConnAssumption DEF Inv, TypeOK, Links
    <3>3. CASE FallBack /\ prio' = Relay
      <4>1. Active = i2pProxy /\ Active' = relayProxy
        BY <3>1, <3>3 DEF Active, FallBack, Relay, I2PDatagram
      <4> QED BY <2>1, <3>1, <3>2, <3>3, <4>1 DEF None, Relay
    <3>4. CASE prio = I2PDatagram /\ ~FallBack /\ prio' = None /\ RemoveAddress
      <4>1. Active = i2pProxy /\ Active' = NoLink
        BY <3>4 DEF Active, None, Relay, I2PDatagram
      <4>2. wgPeer' # "fake"
        BY <3>4 DEF RemoveAddress
      <4> QED BY <2>1, <3>1, <3>2, <3>4, <4>1, <4>2
    <3>5. CASE prio # I2PDatagram /\ UNCHANGED <<prio, wgPeer>>
      <4>1. Active' = Active /\ ~FallBack
        BY <3>1, <3>5 DEF Active, FallBack
      <4>2. i2pProxy = NoLink
        BY <3>5 DEF Inv, UsesBestTransport, Recorded, StatusConsistent
      <4> QED BY <2>1, <3>1, <3>2, <3>5, <4>1, <4>2
    <3> QED BY <1>3, <2>2, <3>3, <3>4, <3>5
  <2>3. CASE ~CtxOK
    <3>1. UNCHANGED <<relayProxy, i2pProxy, proxy, prio, wgPeer>>
      BY <1>1, <1>3, <2>3 DEF I2PGoneLinks
    <3> QED BY <2>1, <3>1 DEF Active
  <2> QED BY <2>2, <2>3
<1> QED BY <1>5, <1>7, <1>8, <1>9, <1>10, <1>12, <1>13, <1>14, <1>15, <1>16, Types DEF Inv

\* The inductive invariant holds in every reachable state.
LEMMA Invariant == Spec => []Inv
<1>1. Init => Inv
  <2> SUFFICES ASSUME Init PROVE Inv
    OBVIOUS
  <2>1. TypeOK
    BY Zenon DEF Init, TypeOK
  <2>2. Hands /\ Coming /\ Slotted /\ InitiatorNow
    BY PeerConnAssumption
       DEF Init, Hands, Coming, Slotted, Slots, Live, InitiatorNow, Openers, Links
  <2>3. Recorded /\ UsesBestTransport
    BY DEF Init, Recorded, Idle, StatusConsistent, UsesBestTransport, CtxOK, None
  <2>4. NoLinkLeaked /\ ClosedIsQuiet
    BY DEF Init, NoLinkLeaked, ClosedIsQuiet
  <2>5. OnlyActiveDelivers
    BY PeerConnAssumption DEF Init, OnlyActiveDelivers, Active, Links, None, Relay, I2PDatagram
  <2> QED BY <2>1, <2>2, <2>3, <2>4, <2>5 DEF Inv
<1>2. Inv /\ [Next]_vars => Inv'
  <2> SUFFICES ASSUME Inv, [Next]_vars PROVE Inv'
    OBVIOUS
  <2>1. CASE Open \/ Close \/ CloseReturns
    BY <2>1, OpenKeeps, CloseKeeps, CloseReturnsKeeps
  <2>2. ASSUME NEW g \in Openers, OpenerStep(g) PROVE Inv'
    BY <2>2, OpenI2PKeeps, I2PReadyKeeps, I2PReadyFailsKeeps, I2PReadyLateKeeps, OpenersMove
       DEF OpenerStep
  <2>3. ASSUME NEW g \in Retriers, RetryStep(g) PROVE Inv'
    BY <2>3, OpenersMove DEF RetryStep, Openers
  <2>4. ASSUME NEW x \in RelayLinks, OfferOpens(x) \/ OfferStep(x) PROVE Inv'
    BY <2>4, OfferOpensKeeps, RelayReadyStandbyKeeps, RelayReadyKeeps, RelayReadyFailsKeeps,
       OffersMove DEF OfferStep
  <2>5. CASE OnRelayDown \/ WGTimeoutRelay \/ (\E x \in Links : LoopNotifiesRelay(x))
    BY <2>5, RelayGoneSteps, RelayGoneKeeps DEF Inv
  <2>6. CASE WGTimeoutI2P \/ (\E x \in Links : LoopNotifiesI2P(x))
    BY <2>6, I2PGoneSteps, I2PGoneKeeps DEF Inv
  <2>7. ASSUME NEW x \in Links, LoopFails(x) \/ LoopStep(x) PROVE Inv'
    BY <2>5, <2>6, <2>7, LoopsMove DEF LoopStep
  <2>8. CASE DelayedUpdate \/ WgLearns
    BY <2>8, WgMoves
  <2>9. CASE Environment
    BY <2>5, <2>6, <2>8, <2>9, LinksBreak DEF Environment
  <2>10. CASE UNCHANGED vars
    BY <2>10, LinksBreak
  <2> QED BY <2>1, <2>2, <2>3, <2>4, <2>5, <2>6, <2>7, <2>8, <2>9, <2>10 DEF Next
<1> QED BY <1>1, <1>2, PTL DEF Spec

\* The types of PeerConn's variables.
THEOREM TypeCorrect == Spec => []TypeOK
<1>1. Inv => TypeOK
  BY DEF Inv
<1> QED BY <1>1, Invariant, PTL

\* Whatever order the ready and disconnect callbacks come in, the slots, the
\* per-transport statuses and the status recorder agree.
THEOREM RecordsAgree == Spec => []StatusConsistent
<1>1. Inv => StatusConsistent
  BY DEF Inv, Recorded
<1> QED BY <1>1, Invariant, PTL

\* conn.currentConnPriority is that of the best connected transport.
THEOREM BestTransport == Spec => []UsesBestTransport
<1>1. Inv => UsesBestTransport
  BY DEF Inv
<1> QED BY <1>1, Invariant, PTL

\* No late, failed or replaced connection stays open outside the Conn's slots and
\* the goroutines that are about to hand it over.
THEOREM LinksClosed == Spec => []NoLinkLeaked
<1>1. Inv => NoLinkLeaked
  BY DEF Inv
<1> QED BY <1>1, Invariant, PTL

\* After Close the peer has no proxy, no WireGuard entry, no mapped address and
\* no endpoint update to come.
THEOREM QuietAfterClose == Spec => []ClosedIsQuiet
<1>1. Inv => ClosedIsQuiet
  BY DEF Inv
<1> QED BY <1>1, Invariant, PTL

\* With a controller whose WireGuard takes every configuration, the proxies of
\* the active transport, and only those, deliver.
THEOREM ActiveDelivers == Spec => []OnlyActiveDelivers
<1>1. Inv => OnlyActiveDelivers
  BY DEF Inv
<1> QED BY <1>1, Invariant, PTL

\* The deferred close of a proxy's loop finds the proxy closed: it never closes a
\* link or unmaps the fake address of the link that came after its own.
THEOREM LateCloseIsHarmless == Spec => LateCloseHarmless
<1>1. Inv /\ [Next]_vars =>
        [\A x \in Links : LoopCloses(x) => UNCHANGED <<link, proxy, bindTo>>]_vars
  BY LoopClosesEffect DEF Inv
<1> QED BY <1>1, Invariant, PTL DEF Spec, LateCloseHarmless
=============================================================================
