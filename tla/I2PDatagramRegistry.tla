------------------------ MODULE I2PDatagramRegistry ------------------------
(***************************************************************************)
(* The registry of client/internal/peer/i2p_datagram_conn.go, which lets    *)
(* every peer connection of a client share one SAM datagram session.        *)
(*                                                                         *)
(* A caller of OpenPeerConn retains the manager of its transport key,       *)
(* creating a SAM session when there is none, and registers its remote      *)
(* destination with it.  Closing the returned connection releases the       *)
(* manager; the last release closes the session.  A receive loop per        *)
(* manager closes every registered connection when the session fails.       *)
(*                                                                         *)
(* One transport key is modelled: managers of different keys share nothing  *)
(* but the registry lock.  Every action is one critical section (of r.mu    *)
(* or of m.mu) or one call made between two of them.                        *)
(***************************************************************************)
EXTENDS Naturals, FiniteSets

CONSTANTS
  Conns,        \* callers of OpenPeerConn, each with the conn it was given
  Destinations, \* remote I2P destinations
  DestOf,       \* the destination each caller asks for
  Managers,     \* manager objects, each with the session it was made for
  NoManager,    \* nil *i2pDatagramManager
  NoConn        \* nil *i2pDatagramPeerConn

ASSUME RegistryAssumption ==
  /\ IsFiniteSet(Conns)
  /\ DestOf \in [Conns -> Destinations]
  /\ NoManager \notin Managers
  /\ NoConn \notin Conns

VARIABLES
  current,  \* r.managers[key]
  refs,     \* manager.refs
  closed,   \* manager.closed
  peers,    \* manager.peers
  loop,     \* manager.receiveLoop
  session,  \* manager.session, as the SAM bridge sees it
  pc,       \* where each caller is
  mgr,      \* the manager a caller works with (conn.manager once open)
  done      \* conn.done is closed: Read and Write return

vars == <<current, refs, closed, peers, loop, session, pc, mgr, done>>

PCs == {"idle", "create", "store", "start", "register", "open",
        "unregister", "release", "mark", "shut", "wait"}

\* "lost": the bridge closed the control connection, so Receive fails;
\* "closed": session.Close() was called.
Sessions == {"none", "open", "lost", "closed"}

Loops == {"none", "receiving", "failing", "exited"}

TypeOK ==
  /\ current \in Managers \cup {NoManager}
  /\ refs \in [Managers -> 0 .. Cardinality(Conns)]
  /\ closed \in [Managers -> BOOLEAN]
  /\ peers \in [Managers -> [Destinations -> Conns \cup {NoConn}]]
  /\ loop \in [Managers -> Loops]
  /\ session \in [Managers -> Sessions]
  /\ pc \in [Conns -> PCs]
  /\ mgr \in [Conns -> Managers \cup {NoManager}]
  /\ done \in [Conns -> BOOLEAN]

Init ==
  /\ current = NoManager
  /\ refs = [m \in Managers |-> 0]
  /\ closed = [m \in Managers |-> FALSE]
  /\ peers = [m \in Managers |-> [d \in Destinations |-> NoConn]]
  /\ loop = [m \in Managers |-> "none"]
  /\ session = [m \in Managers |-> "none"]
  /\ pc = [c \in Conns |-> "idle"]
  /\ mgr = [c \in Conns |-> NoManager]
  /\ done = [c \in Conns |-> FALSE]

-----------------------------------------------------------------------------
Goto(c, l) == pc' = [pc EXCEPT ![c] = l]

Return(c) == Goto(c, "idle") /\ mgr' = [mgr EXCEPT ![c] = NoManager]

Usable(m) == m # NoManager /\ ~closed[m]

MutAdoptNoCount(c, m) ==
  /\ mgr' = [mgr EXCEPT ![c] = m]
  /\ Goto(c, "register")
  /\ UNCHANGED refs

Adopt(c, m) ==
  /\ refs' = [refs EXCEPT ![m] = @ + 1]
  /\ mgr' = [mgr EXCEPT ![c] = m]
  /\ Goto(c, "register")

\* retainManager, first critical section: reuse an open manager ...
RetainExisting(c) ==
  /\ pc[c] = "idle"
  /\ Usable(current)
  /\ Adopt(c, current)
  /\ UNCHANGED <<current, closed, peers, loop, session, done>>

\* ... or leave the lock to create one.
RetainNone(c) ==
  /\ pc[c] = "idle"
  /\ ~Usable(current)
  /\ Goto(c, "create")
  /\ UNCHANGED <<current, refs, closed, peers, loop, session, mgr, done>>

\* retainManager, between the locks: r.newSession, for a new manager object.
NewSession(c) ==
  /\ pc[c] = "create"
  /\ \E m \in Managers :
       /\ session[m] = "none"
       /\ session' = [session EXCEPT ![m] = "open"]
       /\ mgr' = [mgr EXCEPT ![c] = m]
  /\ Goto(c, "store")
  /\ UNCHANGED <<current, refs, closed, peers, loop, done>>

NewSessionFails(c) ==
  /\ pc[c] = "create"
  /\ Return(c)
  /\ UNCHANGED <<current, refs, closed, peers, loop, session, done>>

MutStoreLostLeaks(c) ==
  /\ pc[c] = "store"
  /\ Usable(current)
  /\ Adopt(c, current)
  /\ UNCHANGED <<current, closed, peers, loop, session, done>>

\* retainManager, second critical section: another caller stored a manager
\* meanwhile, so the new session is closed again ...
StoreLost(c) ==
  /\ pc[c] = "store"
  /\ Usable(current)
  /\ Adopt(c, current)
  /\ session' = [session EXCEPT ![mgr[c]] = "closed"]
  /\ UNCHANGED <<current, closed, peers, loop, done>>

MutStoreNoRecheck(c) ==
  /\ pc[c] = "store"
  /\ refs' = [refs EXCEPT ![mgr[c]] = 1]
  /\ current' = mgr[c]
  /\ Goto(c, "start")
  /\ UNCHANGED <<closed, peers, loop, session, mgr, done>>

\* ... or the new manager takes the place of none, or of a closed one.
StoreNew(c) ==
  /\ pc[c] = "store"
  /\ ~Usable(current)
  /\ refs' = [refs EXCEPT ![mgr[c]] = 1]
  /\ current' = mgr[c]
  /\ Goto(c, "start")
  /\ UNCHANGED <<closed, peers, loop, session, mgr, done>>

\* manager.start, after r.mu was released.
Start(c) ==
  /\ pc[c] = "start"
  /\ loop' = [loop EXCEPT ![mgr[c]] = "receiving"]
  /\ Goto(c, "register")
  /\ UNCHANGED <<current, refs, closed, peers, session, mgr, done>>

Refused(c) == closed[mgr[c]] \/ peers[mgr[c]][DestOf[c]] # NoConn

MutRegisterOverwrites(c) ==
  /\ pc[c] = "register"
  /\ ~closed[mgr[c]]
  /\ peers' = [peers EXCEPT ![mgr[c]][DestOf[c]] = c]
  /\ done' = [done EXCEPT ![c] = FALSE]
  /\ Goto(c, "open")
  /\ UNCHANGED <<current, refs, closed, loop, session, mgr>>

MutRegisterOnClosed(c) ==
  /\ pc[c] = "register"
  /\ peers[mgr[c]][DestOf[c]] = NoConn
  /\ peers' = [peers EXCEPT ![mgr[c]][DestOf[c]] = c]
  /\ done' = [done EXCEPT ![c] = FALSE]
  /\ Goto(c, "open")
  /\ UNCHANGED <<current, refs, closed, loop, session, mgr>>

\* manager.register: a new conn for a destination nobody else has ...
Register(c) ==
  /\ pc[c] = "register"
  /\ ~Refused(c)
  /\ peers' = [peers EXCEPT ![mgr[c]][DestOf[c]] = c]
  /\ done' = [done EXCEPT ![c] = FALSE]
  /\ Goto(c, "open")
  /\ UNCHANGED <<current, refs, closed, loop, session, mgr>>

\* ... or an error, on which OpenPeerConn releases the manager.
RegisterRefused(c) ==
  /\ pc[c] = "register"
  /\ Refused(c)
  /\ Goto(c, "release")
  /\ UNCHANGED <<current, refs, closed, peers, loop, session, mgr, done>>

\* i2pDatagramPeerConn.Close: closeWithError ...
Close(c) ==
  /\ pc[c] = "open"
  /\ done' = [done EXCEPT ![c] = TRUE]
  /\ Goto(c, "unregister")
  /\ UNCHANGED <<current, refs, closed, peers, loop, session, mgr>>

\* ... then, once, manager.unregister ...
Unregister(c) ==
  /\ pc[c] = "unregister"
  /\ peers' = [peers EXCEPT ![mgr[c]][DestOf[c]] = IF @ = c THEN NoConn ELSE @]
  /\ Goto(c, "release")
  /\ UNCHANGED <<current, refs, closed, loop, session, mgr, done>>

\* ... and releaseManager, which counts down and never below zero.
Left(m) == IF refs[m] > 0 THEN refs[m] - 1 ELSE 0

IsLast(m) == Left(m) = 0 /\ current = m

ReleaseNotLast(c) ==
  /\ pc[c] = "release"
  /\ ~IsLast(mgr[c])
  /\ refs' = [refs EXCEPT ![mgr[c]] = Left(mgr[c])]
  /\ Return(c)
  /\ UNCHANGED <<current, closed, peers, loop, session, done>>

MutReleaseAlwaysCloses(c) ==
  /\ pc[c] = "release"
  /\ current = mgr[c]
  /\ refs' = [refs EXCEPT ![mgr[c]] = Left(mgr[c])]
  /\ current' = NoManager
  /\ Goto(c, "mark")
  /\ UNCHANGED <<closed, peers, loop, session, mgr, done>>

\* The last holder of the registered manager removes and closes it.
ReleaseLast(c) ==
  /\ pc[c] = "release"
  /\ IsLast(mgr[c])
  /\ refs' = [refs EXCEPT ![mgr[c]] = 0]
  /\ current' = NoManager
  /\ Goto(c, "mark")
  /\ UNCHANGED <<closed, peers, loop, session, mgr, done>>

\* manager.close: mark it closed ...
Mark(c) ==
  /\ pc[c] = "mark"
  /\ ~closed[mgr[c]]
  /\ closed' = [closed EXCEPT ![mgr[c]] = TRUE]
  /\ Goto(c, "shut")
  /\ UNCHANGED <<current, refs, peers, loop, session, mgr, done>>

\* ... or return, if it is already.
MarkAgain(c) ==
  /\ pc[c] = "mark"
  /\ closed[mgr[c]]
  /\ Return(c)
  /\ UNCHANGED <<current, refs, closed, peers, loop, session, done>>

MutShutOnlyCancels(c) ==
  /\ pc[c] = "shut"
  /\ Goto(c, "wait")
  /\ UNCHANGED <<current, refs, closed, peers, loop, session, mgr, done>>

\* manager.close: cancel the context and close the session.
Shut(c) ==
  /\ pc[c] = "shut"
  /\ session' = [session EXCEPT ![mgr[c]] = "closed"]
  /\ Goto(c, "wait")
  /\ UNCHANGED <<current, refs, closed, peers, loop, mgr, done>>

\* closePeers, once the lock is released: the snapshot it took under the lock
\* is the whole table, since a closed manager registers nobody.
CloseAllPeers(m) ==
  done' = [c \in Conns |-> done[c] \/ \E d \in Destinations : peers[m][d] = c]

\* manager.close: wait for the receive loop, then closePeers.
Wait(c) ==
  /\ pc[c] = "wait"
  /\ loop[mgr[c]] \in {"none", "exited"}
  /\ CloseAllPeers(mgr[c])
  /\ Return(c)
  /\ UNCHANGED <<current, refs, closed, peers, loop, session>>

\* receiveLoop: session.Receive returns an error, because the session is gone
\* or because the bridge sent a line that is not a datagram; the deferred
\* closePeers marks the manager closed ...
ReceiveFails(m) ==
  /\ loop[m] = "receiving"
  /\ closed' = [closed EXCEPT ![m] = TRUE]
  /\ loop' = [loop EXCEPT ![m] = "failing"]
  /\ UNCHANGED <<current, refs, peers, session, pc, mgr, done>>

MutLoopJustReturns(m) ==
  /\ loop[m] = "failing"
  /\ loop' = [loop EXCEPT ![m] = "exited"]
  /\ UNCHANGED <<current, refs, closed, peers, session, pc, mgr, done>>

\* ... and closes every registered conn with an error.
ClosePeers(m) ==
  /\ loop[m] = "failing"
  /\ CloseAllPeers(m)
  /\ loop' = [loop EXCEPT ![m] = "exited"]
  /\ UNCHANGED <<current, refs, closed, peers, session, pc, mgr>>

\* The SAM bridge drops the session (router restart, control socket lost).
SessionLost(m) ==
  /\ session[m] = "open"
  /\ session' = [session EXCEPT ![m] = "lost"]
  /\ UNCHANGED <<current, refs, closed, peers, loop, pc, mgr, done>>

\* OpenPeerConn, up to a result.
Opening(c) ==
  \/ NewSession(c) \/ NewSessionFails(c) \/ StoreLost(c) \/ StoreNew(c)
  \/ Start(c) \/ Register(c) \/ RegisterRefused(c)

\* Close and releaseManager, once begun.
Closing(c) ==
  \/ Unregister(c) \/ ReleaseNotLast(c) \/ ReleaseLast(c) \/ Mark(c)
  \/ MarkAgain(c) \/ Shut(c) \/ Wait(c)

Next ==
  \/ \E c \in Conns :
       RetainExisting(c) \/ RetainNone(c) \/ Opening(c) \/ Close(c) \/ Closing(c)
  \/ \E m \in Managers : ReceiveFails(m) \/ ClosePeers(m) \/ SessionLost(m)

Spec == Init /\ [][Next]_vars

\* A goroutine that can run does run, and Receive returns on a session that
\* is gone; nobody is obliged to open or to close a connection.
FairSpec ==
  /\ Spec
  /\ \A c \in Conns : WF_vars(Opening(c)) /\ WF_vars(Closing(c))
  /\ \A m \in Managers : WF_vars(ClosePeers(m))
  /\ \A m \in Managers : WF_vars(session[m] \in {"lost", "closed"} /\ ReceiveFails(m))

-----------------------------------------------------------------------------
\* Callers that count as a reference of m.
Holders(m) ==
  {c \in Conns : mgr[c] = m
                 /\ pc[c] \in {"start", "register", "open", "unregister", "release"}}

\* refs, which retainManager and releaseManager keep by hand on five paths, is
\* the number of callers that hold the manager.
RefsMatchHolders == \A m \in Managers : refs[m] = Cardinality(Holders(m))

\* The shared session is never closed while another peer still uses it (what
\* TestI2PDatagramRegistrySharesOneSAMSession checks for one order of calls).
SessionOpenWhileHeld == \A m \in Managers : Holders(m) # {} => session[m] # "closed"

\* At most one manager is in use: a manager that callers hold and whose loop
\* has not failed is the one the registry hands out, so peers share a session.
LiveManagerIsCurrent ==
  \A m \in Managers : Holders(m) # {} /\ ~closed[m] => current = m

\* A manager that its last holder has taken out of the registry and will close.
BeingClosed(m) ==
  \E c \in Conns : mgr[c] = m /\ (pc[c] = "shut" \/ (pc[c] = "mark" /\ ~closed[m]))

Phase(m) ==
  IF session[m] = "closed" THEN "closed"
  ELSE IF BeingClosed(m) THEN "left"
  ELSE IF closed[m] THEN "failed"
  ELSE IF Holders(m) # {} THEN "live" ELSE "unused"

Using == [m \in Managers |-> Holders(m)]

Phases == [m \in Managers |-> Phase(m)]

Shared == INSTANCE SharedSession
  WITH Users <- Conns, Sessions <- Managers, users <- Using, phase <- Phases

\* The registry implements SharedSession: however the five critical sections,
\* the calls between them and a failing receive loop interleave, the callers
\* see one session at a time, joined while it is live and closed only after
\* its last user has left.
SharesOneSession == Shared!Spec

\* No SAM session is left open behind everybody's back: one whose receive loop
\* has not failed belongs to a caller that uses the manager or is closing it,
\* also after a lost race in retainManager.  (A session whose loop failed is
\* left open: manager.close returns early on a manager that is marked closed.)
OpenSessionHasOwner ==
  \A m \in Managers :
    session[m] \in {"open", "lost"} /\ loop[m] \in {"none", "receiving"}
      => \E c \in Conns : mgr[c] = m

\* A destination is registered to at most one connection of a manager, and the
\* entry belongs to a caller that has not unregistered: closing one connection
\* never removes the entry of another.
PeerTableExact ==
  \A m \in Managers, d \in Destinations, c \in Conns :
    peers[m][d] = c <=> mgr[c] = m /\ DestOf[c] = d /\ pc[c] \in {"open", "unregister"}

\* No connection stays readable on a manager whose receive loop has ended:
\* once receiveLoop's closePeers has run every open conn of it is closed.
NoOrphanReader ==
  \A m \in Managers, c \in Conns :
    loop[m] = "exited" /\ mgr[c] = m /\ pc[c] = "open" => done[c]

\* Releasing always completes: manager.close waits for the receive loop, which
\* ends because the session was closed first.
ReleaseCompletes == \A c \in Conns : pc[c] = "release" ~> pc[c] = "idle"

\* When the session fails, the Read of every connection on it returns, which
\* is what makes the proxy fall back to the relay.
FailureReachesReaders ==
  \A c \in Conns :
    pc[c] = "open" /\ (\E m \in Managers : mgr[c] = m /\ session[m] = "lost")
      ~> (done[c] \/ pc[c] # "open")
=============================================================================
