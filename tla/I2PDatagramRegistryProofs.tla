--------------------- MODULE I2PDatagramRegistryProofs ---------------------
(***************************************************************************)
(* Proofs about I2PDatagramRegistry, for any number of callers, destinations*)
(* and managers.  Types is the type invariant with an unbounded counter;    *)
(* Sharing relates the counter, the registry entry and the session to the   *)
(* callers that hold a manager; Table relates the destination table and the *)
(* receive loop to the open connections; Owned relates open sessions to the *)
(* callers that will close them.  From the invariant follow the safety      *)
(* properties and that the registry implements SharedSession.               *)
(***************************************************************************)
EXTENDS I2PDatagramRegistry, FiniteSetTheorems, TLAPS

HoldingPCs == {"start", "register", "open", "unregister", "release"}
ClosingPCs == {"mark", "shut", "wait"}

\* The types, with mgr set exactly while a caller works with a manager.
Types ==
  /\ current \in Managers \cup {NoManager}
  /\ refs \in [Managers -> Nat]
  /\ closed \in [Managers -> BOOLEAN]
  /\ peers \in [Managers -> [Destinations -> Conns \cup {NoConn}]]
  /\ loop \in [Managers -> Loops]
  /\ session \in [Managers -> Sessions]
  /\ pc \in [Conns -> PCs]
  /\ mgr \in [Conns -> Managers \cup {NoManager}]
  /\ done \in [Conns -> BOOLEAN]
  /\ \A c \in Conns : mgr[c] = NoManager <=> pc[c] \in {"idle", "create"}

\* A held manager has a session that the registry has not closed.
HeldIsUp == \A m \in Managers : Holders(m) # {} => session[m] \in {"open", "lost"}

\* The manager in the registry has a holder.
CurrentIsHeld == \A m \in Managers : current = m => Holders(m) # {}

\* A manager not yet stored is known to its creator only.
UnstoredIsPrivate ==
  \A c \in Conns, m \in Managers : pc[c] = "store" /\ mgr[c] = m =>
    /\ session[m] \in {"open", "lost"}
    /\ ~closed[m]
    /\ loop[m] = "none"
    /\ current # m
    /\ \A b \in Conns : mgr[b] = m => b = c

\* Only a manager without holders is being closed.
ClosingIsUnheld ==
  \A c \in Conns, m \in Managers :
    pc[c] \in ClosingPCs /\ mgr[c] = m => Holders(m) = {}

\* A manager object without a session has not been created yet.
FreshIsUnknown ==
  \A m \in Managers : session[m] = "none" =>
    /\ \A c \in Conns : mgr[c] # m
    /\ current # m
    /\ ~closed[m]
    /\ loop[m] = "none"

Sharing ==
  /\ RefsMatchHolders
  /\ HeldIsUp
  /\ LiveManagerIsCurrent
  /\ CurrentIsHeld
  /\ UnstoredIsPrivate
  /\ ClosingIsUnheld
  /\ FreshIsUnknown

\* A manager whose loop has ended is closed.
EndedIsClosed == \A m \in Managers : loop[m] \in {"failing", "exited"} => closed[m]

Table == PeerTableExact /\ NoOrphanReader /\ EndedIsClosed

\* A manager marked closed while its loop has not failed was marked by a caller
\* that goes on to close the session.
MarkedIsShut ==
  \A m \in Managers : closed[m] /\ loop[m] \in {"none", "receiving"} =>
    session[m] = "closed" \/ \E c \in Conns : pc[c] = "shut" /\ mgr[c] = m

\* A caller that waits for the receive loop has closed the session.
WaitingIsShut ==
  \A c \in Conns, m \in Managers : pc[c] = "wait" /\ mgr[c] = m => session[m] = "closed"

\* A receive loop is started once, by the caller that stored the manager.
StartedOnce ==
  \A c \in Conns, m \in Managers : pc[c] = "start" /\ mgr[c] = m =>
    /\ loop[m] = "none"
    /\ \A b \in Conns : pc[b] = "start" /\ mgr[b] = m => b = c

Owned == OpenSessionHasOwner /\ MarkedIsShut /\ WaitingIsShut /\ StartedOnce

\* Initially nothing is held.
LEMMA TypesInit == Init => Types
  BY RegistryAssumption DEF Init, Types, PCs, Sessions, Loops

\* Every step keeps the types.
LEMMA TypesNext == Types /\ [Next]_vars => Types'
<1> SUFFICES ASSUME Types, [Next]_vars PROVE Types'
  OBVIOUS
<1> USE RegistryAssumption DEF Types, PCs, Sessions, Loops, Goto, Return
<1>1. ASSUME NEW c \in Conns, RetainExisting(c) PROVE Types'
  BY <1>1 DEF RetainExisting, Adopt, Usable
<1>2. ASSUME NEW c \in Conns, RetainNone(c) PROVE Types'
  BY <1>2 DEF RetainNone
<1>3. ASSUME NEW c \in Conns, NewSession(c) PROVE Types'
  BY <1>3 DEF NewSession
<1>4. ASSUME NEW c \in Conns, NewSessionFails(c) PROVE Types'
  BY <1>4 DEF NewSessionFails
<1>5. ASSUME NEW c \in Conns, StoreLost(c) PROVE Types'
  BY <1>5 DEF StoreLost, Adopt, Usable
<1>6. ASSUME NEW c \in Conns, StoreNew(c) PROVE Types'
  BY <1>6 DEF StoreNew
<1>7. ASSUME NEW c \in Conns, Start(c) PROVE Types'
  BY <1>7 DEF Start
<1>8. ASSUME NEW c \in Conns, Register(c) PROVE Types'
  BY <1>8 DEF Register
<1>9. ASSUME NEW c \in Conns, RegisterRefused(c) PROVE Types'
  BY <1>9 DEF RegisterRefused
<1>10. ASSUME NEW c \in Conns, Close(c) PROVE Types'
  BY <1>10 DEF Close
<1>11. ASSUME NEW c \in Conns, Unregister(c) PROVE Types'
  BY <1>11 DEF Unregister
<1>12. ASSUME NEW c \in Conns, ReleaseNotLast(c) PROVE Types'
  BY <1>12 DEF ReleaseNotLast, Left
<1>13. ASSUME NEW c \in Conns, ReleaseLast(c) PROVE Types'
  BY <1>13 DEF ReleaseLast
<1>14. ASSUME NEW c \in Conns, Mark(c) PROVE Types'
  BY <1>14 DEF Mark
<1>15. ASSUME NEW c \in Conns, MarkAgain(c) PROVE Types'
  BY <1>15 DEF MarkAgain
<1>16. ASSUME NEW c \in Conns, Shut(c) PROVE Types'
  BY <1>16 DEF Shut
<1>17. ASSUME NEW c \in Conns, Wait(c) PROVE Types'
  BY <1>17 DEF Wait, CloseAllPeers
<1>18. ASSUME NEW m \in Managers, ReceiveFails(m) PROVE Types'
  BY <1>18 DEF ReceiveFails
<1>19. ASSUME NEW m \in Managers, ClosePeers(m) PROVE Types'
  BY <1>19 DEF ClosePeers, CloseAllPeers
<1>20. ASSUME NEW m \in Managers, SessionLost(m) PROVE Types'
  BY <1>20 DEF SessionLost
<1>21. CASE UNCHANGED vars
  BY <1>21 DEF vars
<1> QED
  BY <1>1, <1>2, <1>3, <1>4, <1>5, <1>6, <1>7, <1>8, <1>9, <1>10, <1>11,
     <1>12, <1>13, <1>14, <1>15, <1>16, <1>17, <1>18, <1>19, <1>20, <1>21
     DEF Next, Opening, Closing

-----------------------------------------------------------------------------
\* Only finitely many callers hold a manager.
LEMMA HoldersFinite == \A m \in Managers : IsFiniteSet(Holders(m)) /\ Cardinality(Holders(m)) \in Nat
  BY RegistryAssumption, FS_Subset, FS_CardinalityType DEF Holders

\* Initially no manager has a holder or a session.
LEMMA SharingInit == Init => Sharing
<1> SUFFICES ASSUME Init PROVE Sharing
  OBVIOUS
<1>1. \A m \in Managers : Holders(m) = {}
  BY DEF Init, Holders
<1> QED
  BY <1>1, FS_EmptySet, RegistryAssumption
     DEF Init, Sharing, RefsMatchHolders, HeldIsUp, LiveManagerIsCurrent,
         CurrentIsHeld, UnstoredIsPrivate, ClosingIsUnheld, FreshIsUnknown, ClosingPCs

\* Every step keeps Sharing.
LEMMA SharingNext == Types /\ Sharing /\ [Next]_vars => Sharing'
<1> SUFFICES ASSUME Types, Sharing, [Next]_vars PROVE Sharing'
  OBVIOUS
<1> USE RegistryAssumption DEF Types, Sharing, Goto, Return
<1>1. ASSUME NEW c \in Conns, RetainExisting(c) PROVE Sharing'
  <2>1. PICK n \in Managers : n = current
    BY <1>1 DEF RetainExisting, Usable
  <2>2. /\ ~closed[n] /\ Holders(n) # {}
        /\ \A m \in Managers : c \notin Holders(m)
    BY <1>1, <2>1 DEF RetainExisting, Usable, Holders, CurrentIsHeld
  <2>3. /\ Holders(n)' = Holders(n) \cup {c}
        /\ \A m \in Managers \ {n} : Holders(m)' = Holders(m)
    BY <1>1, <2>1 DEF RetainExisting, Adopt, Holders
  <2>4. Cardinality(Holders(n)') = Cardinality(Holders(n)) + 1
    BY <2>2, <2>3, HoldersFinite, FS_AddElement
  <2>5. RefsMatchHolders'
    BY <1>1, <2>1, <2>3, <2>4 DEF RetainExisting, Adopt, RefsMatchHolders
  <2>6. HeldIsUp'
    BY <1>1, <2>1, <2>2, <2>3 DEF RetainExisting, Adopt, HeldIsUp
  <2>7. LiveManagerIsCurrent'
    BY <1>1, <2>1, <2>2, <2>3 DEF RetainExisting, Adopt, LiveManagerIsCurrent
  <2>8. CurrentIsHeld'
    BY <1>1, <2>1, <2>2, <2>3 DEF RetainExisting, Adopt, CurrentIsHeld
  <2>9. UnstoredIsPrivate'
    BY <1>1, <2>1, <2>2, <2>3 DEF RetainExisting, Adopt, UnstoredIsPrivate
  <2>10. ClosingIsUnheld'
    BY <1>1, <2>1, <2>2, <2>3 DEF RetainExisting, Adopt, ClosingIsUnheld, ClosingPCs
  <2>11. FreshIsUnknown'
    BY <1>1, <2>1, <2>2, <2>3 DEF RetainExisting, Adopt, FreshIsUnknown
  <2> QED
    BY <2>5, <2>6, <2>7, <2>8, <2>9, <2>10, <2>11
<1>2. ASSUME NEW c \in Conns, RetainNone(c) PROVE Sharing'
  <2>1. \A h \in Managers : Holders(h)' = Holders(h)
    BY <1>2 DEF RetainNone, Holders
  <2> QED
    BY <1>2, <2>1
       DEF RetainNone, RefsMatchHolders, HeldIsUp, LiveManagerIsCurrent, CurrentIsHeld,
           UnstoredIsPrivate, ClosingIsUnheld, FreshIsUnknown, ClosingPCs
<1>3. ASSUME NEW c \in Conns, NewSession(c) PROVE Sharing'
  <2>1. \A h \in Managers : Holders(h)' = Holders(h)
    BY <1>3 DEF NewSession, Holders
  <2>2. RefsMatchHolders'
    BY <1>3, <2>1 DEF NewSession, RefsMatchHolders
  <2>3. HeldIsUp'
    BY <1>3, <2>1 DEF NewSession, HeldIsUp
  <2>4. LiveManagerIsCurrent'
    BY <1>3, <2>1 DEF NewSession, LiveManagerIsCurrent
  <2>5. CurrentIsHeld'
    BY <1>3, <2>1 DEF NewSession, CurrentIsHeld
  <2>6. UnstoredIsPrivate'
    BY <1>3, <2>1 DEF NewSession, UnstoredIsPrivate, FreshIsUnknown
  <2>7. ClosingIsUnheld'
    BY <1>3, <2>1 DEF NewSession, ClosingIsUnheld, ClosingPCs
  <2>8. FreshIsUnknown'
    BY <1>3, <2>1 DEF NewSession, FreshIsUnknown
  <2> QED
    BY <2>2, <2>3, <2>4, <2>5, <2>6, <2>7, <2>8
<1>4. ASSUME NEW c \in Conns, NewSessionFails(c) PROVE Sharing'
  <2>1. \A h \in Managers : Holders(h)' = Holders(h)
    BY <1>4 DEF NewSessionFails, Holders
  <2> QED
    BY <1>4, <2>1
       DEF NewSessionFails, RefsMatchHolders, HeldIsUp, LiveManagerIsCurrent, CurrentIsHeld,
           UnstoredIsPrivate, ClosingIsUnheld, FreshIsUnknown, ClosingPCs
<1>5. ASSUME NEW c \in Conns, StoreLost(c) PROVE Sharing'
  <2>1. PICK n \in Managers : n = current
    BY <1>5 DEF StoreLost, Usable
  <2>2. /\ ~closed[n] /\ Holders(n) # {}
        /\ \A m \in Managers : c \notin Holders(m)
        /\ mgr[c] # n /\ mgr[c] \in Managers /\ Holders(mgr[c]) = {}
    BY <1>5, <2>1 DEF StoreLost, Usable, Holders, CurrentIsHeld, UnstoredIsPrivate
  <2>3. /\ Holders(n)' = Holders(n) \cup {c}
        /\ \A m \in Managers \ {n} : Holders(m)' = Holders(m)
    BY <1>5, <2>1 DEF StoreLost, Adopt, Holders
  <2>4. Cardinality(Holders(n)') = Cardinality(Holders(n)) + 1
    BY <2>2, <2>3, HoldersFinite, FS_AddElement
  <2>5. RefsMatchHolders'
    BY <1>5, <2>1, <2>3, <2>4 DEF StoreLost, Adopt, RefsMatchHolders
  <2>6. HeldIsUp'
    BY <1>5, <2>1, <2>2, <2>3 DEF StoreLost, Adopt, HeldIsUp
  <2>7. LiveManagerIsCurrent'
    BY <1>5, <2>1, <2>2, <2>3 DEF StoreLost, Adopt, LiveManagerIsCurrent
  <2>8. CurrentIsHeld'
    BY <1>5, <2>1, <2>2, <2>3 DEF StoreLost, Adopt, CurrentIsHeld
  <2>9. UnstoredIsPrivate'
    BY <1>5, <2>1, <2>2, <2>3 DEF StoreLost, Adopt, UnstoredIsPrivate
  <2>10. ClosingIsUnheld'
    BY <1>5, <2>1, <2>2, <2>3 DEF StoreLost, Adopt, ClosingIsUnheld, ClosingPCs
  <2>11. FreshIsUnknown'
    BY <1>5, <2>1, <2>2, <2>3 DEF StoreLost, Adopt, FreshIsUnknown
  <2> QED
    BY <2>5, <2>6, <2>7, <2>8, <2>9, <2>10, <2>11
<1>6. ASSUME NEW c \in Conns, StoreNew(c) PROVE Sharing'
  <2>1. PICK n \in Managers : n = mgr[c]
    BY <1>6 DEF StoreNew
  <2>2. /\ n # current
        /\ \A b \in Conns : mgr[b] = n => b = c
        /\ \A m \in Managers : Holders(m) # {} => closed[m]
    BY <1>6, <2>1 DEF StoreNew, Usable, LiveManagerIsCurrent, UnstoredIsPrivate
  <2>3. /\ Holders(n)' = {c}
        /\ \A m \in Managers \ {n} : Holders(m)' = Holders(m)
    BY <1>6, <2>1, <2>2 DEF StoreNew, Holders
  <2>4. Cardinality(Holders(n)') = 1
    BY <2>3, FS_Singleton
  <2>5. RefsMatchHolders'
    BY <1>6, <2>1, <2>3, <2>4 DEF StoreNew, RefsMatchHolders
  <2>6. HeldIsUp'
    BY <1>6, <2>1, <2>2, <2>3 DEF StoreNew, HeldIsUp, UnstoredIsPrivate
  <2>7. LiveManagerIsCurrent'
    BY <1>6, <2>1, <2>2, <2>3 DEF StoreNew, LiveManagerIsCurrent
  <2>8. CurrentIsHeld'
    BY <1>6, <2>1, <2>2, <2>3 DEF StoreNew, CurrentIsHeld
  <2>9. UnstoredIsPrivate'
    BY <1>6, <2>1, <2>2, <2>3 DEF StoreNew, UnstoredIsPrivate
  <2>10. ClosingIsUnheld'
    BY <1>6, <2>1, <2>2, <2>3 DEF StoreNew, ClosingIsUnheld, ClosingPCs
  <2>11. FreshIsUnknown'
    BY <1>6, <2>1, <2>2, <2>3 DEF StoreNew, FreshIsUnknown
  <2> QED
    BY <2>5, <2>6, <2>7, <2>8, <2>9, <2>10, <2>11
<1>7. ASSUME NEW c \in Conns, Start(c) PROVE Sharing'
  <2>1. \A h \in Managers : Holders(h)' = Holders(h)
    BY <1>7 DEF Start, Holders
  <2> QED
    BY <1>7, <2>1
       DEF Start, RefsMatchHolders, HeldIsUp, LiveManagerIsCurrent, CurrentIsHeld,
           UnstoredIsPrivate, ClosingIsUnheld, FreshIsUnknown, ClosingPCs
<1>8. ASSUME NEW c \in Conns, Register(c) PROVE Sharing'
  <2>1. \A h \in Managers : Holders(h)' = Holders(h)
    BY <1>8 DEF Register, Holders
  <2> QED
    BY <1>8, <2>1
       DEF Register, RefsMatchHolders, HeldIsUp, LiveManagerIsCurrent, CurrentIsHeld,
           UnstoredIsPrivate, ClosingIsUnheld, FreshIsUnknown, ClosingPCs
<1>9. ASSUME NEW c \in Conns, RegisterRefused(c) PROVE Sharing'
  <2>1. \A h \in Managers : Holders(h)' = Holders(h)
    BY <1>9 DEF RegisterRefused, Holders
  <2> QED
    BY <1>9, <2>1
       DEF RegisterRefused, RefsMatchHolders, HeldIsUp, LiveManagerIsCurrent, CurrentIsHeld,
           UnstoredIsPrivate, ClosingIsUnheld, FreshIsUnknown, ClosingPCs
<1>10. ASSUME NEW c \in Conns, Close(c) PROVE Sharing'
  <2>1. \A h \in Managers : Holders(h)' = Holders(h)
    BY <1>10 DEF Close, Holders
  <2> QED
    BY <1>10, <2>1
       DEF Close, RefsMatchHolders, HeldIsUp, LiveManagerIsCurrent, CurrentIsHeld,
           UnstoredIsPrivate, ClosingIsUnheld, FreshIsUnknown, ClosingPCs
<1>11. ASSUME NEW c \in Conns, Unregister(c) PROVE Sharing'
  <2>1. \A h \in Managers : Holders(h)' = Holders(h)
    BY <1>11 DEF Unregister, Holders
  <2> QED
    BY <1>11, <2>1
       DEF Unregister, RefsMatchHolders, HeldIsUp, LiveManagerIsCurrent, CurrentIsHeld,
           UnstoredIsPrivate, ClosingIsUnheld, FreshIsUnknown, ClosingPCs
<1>12. ASSUME NEW c \in Conns, ReleaseNotLast(c) PROVE Sharing'
  <2>1. PICK n \in Managers : n = mgr[c] /\ c \in Holders(n)
    BY <1>12 DEF ReleaseNotLast, Holders
  <2>2. /\ Holders(n)' = Holders(n) \ {c}
        /\ \A m \in Managers \ {n} : Holders(m)' = Holders(m)
    BY <1>12, <2>1 DEF ReleaseNotLast, Holders
  <2>3. /\ Cardinality(Holders(n)) \in Nat \ {0}
        /\ IsFiniteSet(Holders(n)')
        /\ Cardinality(Holders(n)') = Cardinality(Holders(n)) - 1
    BY <2>1, <2>2, HoldersFinite, FS_EmptySet, FS_RemoveElement
  <2>4. refs[n] = Cardinality(Holders(n)) /\ Left(n) = Cardinality(Holders(n)')
    BY <2>3 DEF RefsMatchHolders, Left
  <2>5. RefsMatchHolders'
    BY <1>12, <2>1, <2>2, <2>4 DEF ReleaseNotLast, RefsMatchHolders
  <2>6. current = n => Holders(n)' # {}
    BY <1>12, <2>1, <2>3, <2>4, FS_EmptySet DEF ReleaseNotLast, IsLast
  <2>7. HeldIsUp'
    BY <1>12, <2>1, <2>2, <2>6 DEF ReleaseNotLast, HeldIsUp
  <2>8. LiveManagerIsCurrent'
    BY <1>12, <2>1, <2>2, <2>6 DEF ReleaseNotLast, LiveManagerIsCurrent
  <2>9. CurrentIsHeld'
    BY <1>12, <2>1, <2>2, <2>6 DEF ReleaseNotLast, CurrentIsHeld
  <2>10. UnstoredIsPrivate'
    BY <1>12, <2>1, <2>2, <2>6 DEF ReleaseNotLast, UnstoredIsPrivate
  <2>11. ClosingIsUnheld'
    BY <1>12, <2>1, <2>2, <2>6 DEF ReleaseNotLast, ClosingIsUnheld, ClosingPCs
  <2>12. FreshIsUnknown'
    BY <1>12, <2>1, <2>2, <2>6 DEF ReleaseNotLast, FreshIsUnknown
  <2> QED
    BY <2>5, <2>7, <2>8, <2>9, <2>10, <2>11, <2>12
<1>13. ASSUME NEW c \in Conns, ReleaseLast(c) PROVE Sharing'
  <2>1. PICK n \in Managers : n = mgr[c] /\ c \in Holders(n)
    BY <1>13 DEF ReleaseLast, Holders
  <2>2. /\ Holders(n)' = Holders(n) \ {c}
        /\ \A m \in Managers \ {n} : Holders(m)' = Holders(m)
    BY <1>13, <2>1 DEF ReleaseLast, Holders
  <2>3. /\ Cardinality(Holders(n)) \in Nat \ {0}
        /\ IsFiniteSet(Holders(n)')
        /\ Cardinality(Holders(n)') = Cardinality(Holders(n)) - 1
    BY <2>1, <2>2, HoldersFinite, FS_EmptySet, FS_RemoveElement
  <2>4. refs[n] = Cardinality(Holders(n)) /\ Left(n) = Cardinality(Holders(n)')
    BY <2>3 DEF RefsMatchHolders, Left
  <2>5. Cardinality(Holders(n)') = 0 /\ current = n
    BY <1>13, <2>1, <2>4 DEF ReleaseLast, IsLast
  <2>6. Holders(n)' = {}
    BY <2>3, <2>5, FS_EmptySet
  <2>7. RefsMatchHolders'
    BY <1>13, <2>1, <2>2, <2>5 DEF ReleaseLast, RefsMatchHolders
  <2>8. HeldIsUp'
    BY <1>13, <2>1, <2>2, <2>5, <2>6 DEF ReleaseLast, HeldIsUp
  <2>9. LiveManagerIsCurrent'
    BY <1>13, <2>1, <2>2, <2>5, <2>6 DEF ReleaseLast, LiveManagerIsCurrent
  <2>10. CurrentIsHeld'
    BY <1>13, <2>1, <2>2, <2>5, <2>6 DEF ReleaseLast, CurrentIsHeld
  <2>11. UnstoredIsPrivate'
    BY <1>13, <2>1, <2>2, <2>5, <2>6 DEF ReleaseLast, UnstoredIsPrivate
  <2>12. ClosingIsUnheld'
    BY <1>13, <2>1, <2>2, <2>5, <2>6 DEF ReleaseLast, ClosingIsUnheld, ClosingPCs
  <2>13. FreshIsUnknown'
    BY <1>13, <2>1, <2>2, <2>5, <2>6 DEF ReleaseLast, FreshIsUnknown
  <2> QED
    BY <2>7, <2>8, <2>9, <2>10, <2>11, <2>12, <2>13
<1>14. ASSUME NEW c \in Conns, Mark(c) PROVE Sharing'
  <2>1. \A h \in Managers : Holders(h)' = Holders(h)
    BY <1>14 DEF Mark, Holders
  <2>2. RefsMatchHolders'
    BY <1>14, <2>1 DEF Mark, RefsMatchHolders
  <2>3. HeldIsUp'
    BY <1>14, <2>1 DEF Mark, HeldIsUp
  <2>4. LiveManagerIsCurrent'
    BY <1>14, <2>1 DEF Mark, LiveManagerIsCurrent
  <2>5. CurrentIsHeld'
    BY <1>14, <2>1 DEF Mark, CurrentIsHeld
  <2>6. UnstoredIsPrivate'
    BY <1>14, <2>1 DEF Mark, UnstoredIsPrivate
  <2>7. ClosingIsUnheld'
    BY <1>14, <2>1 DEF Mark, ClosingIsUnheld, ClosingPCs
  <2>8. FreshIsUnknown'
    BY <1>14, <2>1 DEF Mark, FreshIsUnknown
  <2> QED
    BY <2>2, <2>3, <2>4, <2>5, <2>6, <2>7, <2>8
<1>15. ASSUME NEW c \in Conns, MarkAgain(c) PROVE Sharing'
  <2>1. \A h \in Managers : Holders(h)' = Holders(h)
    BY <1>15 DEF MarkAgain, Holders
  <2>2. RefsMatchHolders' /\ HeldIsUp'
    BY <1>15, <2>1 DEF MarkAgain, RefsMatchHolders, HeldIsUp
  <2>3. LiveManagerIsCurrent' /\ CurrentIsHeld'
    BY <1>15, <2>1 DEF MarkAgain, LiveManagerIsCurrent, CurrentIsHeld
  <2>4. UnstoredIsPrivate'
    BY <1>15 DEF MarkAgain, UnstoredIsPrivate
  <2>5. ClosingIsUnheld' /\ FreshIsUnknown'
    BY <1>15, <2>1 DEF MarkAgain, ClosingIsUnheld, FreshIsUnknown, ClosingPCs
  <2> QED
    BY <2>2, <2>3, <2>4, <2>5
<1>16. ASSUME NEW c \in Conns, Shut(c) PROVE Sharing'
  <2>1. \A h \in Managers : Holders(h)' = Holders(h)
    BY <1>16 DEF Shut, Holders
  <2>2. RefsMatchHolders'
    BY <1>16, <2>1 DEF Shut, RefsMatchHolders
  <2>3. HeldIsUp'
    BY <1>16, <2>1 DEF Shut, HeldIsUp, ClosingIsUnheld, ClosingPCs
  <2>4. LiveManagerIsCurrent'
    BY <1>16, <2>1 DEF Shut, LiveManagerIsCurrent
  <2>5. CurrentIsHeld'
    BY <1>16, <2>1 DEF Shut, CurrentIsHeld
  <2>6. UnstoredIsPrivate'
    BY <1>16, <2>1 DEF Shut, UnstoredIsPrivate
  <2>7. ClosingIsUnheld'
    BY <1>16, <2>1 DEF Shut, ClosingIsUnheld, ClosingPCs
  <2>8. FreshIsUnknown'
    BY <1>16, <2>1 DEF Shut, FreshIsUnknown
  <2> QED
    BY <2>2, <2>3, <2>4, <2>5, <2>6, <2>7, <2>8
<1>17. ASSUME NEW c \in Conns, Wait(c) PROVE Sharing'
  <2>1. \A h \in Managers : Holders(h)' = Holders(h)
    BY <1>17 DEF Wait, Holders
  <2> QED
    BY <1>17, <2>1
       DEF Wait, RefsMatchHolders, HeldIsUp, LiveManagerIsCurrent, CurrentIsHeld,
           UnstoredIsPrivate, ClosingIsUnheld, FreshIsUnknown, ClosingPCs
<1>18. ASSUME NEW m \in Managers, ReceiveFails(m) PROVE Sharing'
  <2>1. \A h \in Managers : Holders(h)' = Holders(h)
    BY <1>18 DEF ReceiveFails, Holders
  <2>2. RefsMatchHolders'
    BY <1>18, <2>1 DEF ReceiveFails, RefsMatchHolders
  <2>3. HeldIsUp'
    BY <1>18, <2>1 DEF ReceiveFails, HeldIsUp
  <2>4. LiveManagerIsCurrent'
    BY <1>18, <2>1 DEF ReceiveFails, LiveManagerIsCurrent
  <2>5. CurrentIsHeld'
    BY <1>18, <2>1 DEF ReceiveFails, CurrentIsHeld
  <2>6. UnstoredIsPrivate'
    BY <1>18, <2>1 DEF ReceiveFails, UnstoredIsPrivate
  <2>7. ClosingIsUnheld'
    BY <1>18, <2>1 DEF ReceiveFails, ClosingIsUnheld, ClosingPCs
  <2>8. FreshIsUnknown'
    BY <1>18, <2>1 DEF ReceiveFails, FreshIsUnknown
  <2> QED
    BY <2>2, <2>3, <2>4, <2>5, <2>6, <2>7, <2>8
<1>19. ASSUME NEW m \in Managers, ClosePeers(m) PROVE Sharing'
  <2>1. \A h \in Managers : Holders(h)' = Holders(h)
    BY <1>19 DEF ClosePeers, Holders
  <2> QED
    BY <1>19, <2>1
       DEF ClosePeers, RefsMatchHolders, HeldIsUp, LiveManagerIsCurrent, CurrentIsHeld,
           UnstoredIsPrivate, ClosingIsUnheld, FreshIsUnknown, ClosingPCs
<1>20. ASSUME NEW m \in Managers, SessionLost(m) PROVE Sharing'
  <2>1. \A h \in Managers : Holders(h)' = Holders(h)
    BY <1>20 DEF SessionLost, Holders
  <2>2. RefsMatchHolders'
    BY <1>20, <2>1 DEF SessionLost, RefsMatchHolders
  <2>3. HeldIsUp'
    BY <1>20, <2>1 DEF SessionLost, HeldIsUp
  <2>4. LiveManagerIsCurrent'
    BY <1>20, <2>1 DEF SessionLost, LiveManagerIsCurrent
  <2>5. CurrentIsHeld'
    BY <1>20, <2>1 DEF SessionLost, CurrentIsHeld
  <2>6. UnstoredIsPrivate'
    BY <1>20, <2>1 DEF SessionLost, UnstoredIsPrivate
  <2>7. ClosingIsUnheld'
    BY <1>20, <2>1 DEF SessionLost, ClosingIsUnheld, ClosingPCs
  <2>8. FreshIsUnknown'
    BY <1>20, <2>1 DEF SessionLost, FreshIsUnknown
  <2> QED
    BY <2>2, <2>3, <2>4, <2>5, <2>6, <2>7, <2>8
<1>21. CASE UNCHANGED vars
  <2>1. \A h \in Managers : Holders(h)' = Holders(h)
    BY <1>21 DEF vars, Holders
  <2>2. RefsMatchHolders' /\ HeldIsUp'
    BY <1>21, <2>1 DEF vars, RefsMatchHolders, HeldIsUp
  <2>3. LiveManagerIsCurrent' /\ CurrentIsHeld'
    BY <1>21, <2>1 DEF vars, LiveManagerIsCurrent, CurrentIsHeld
  <2>4. UnstoredIsPrivate'
    BY <1>21 DEF vars, UnstoredIsPrivate
  <2>5. ClosingIsUnheld' /\ FreshIsUnknown'
    BY <1>21, <2>1 DEF vars, ClosingIsUnheld, FreshIsUnknown, ClosingPCs
  <2> QED
    BY <2>2, <2>3, <2>4, <2>5
<1> QED
  BY <1>1, <1>2, <1>3, <1>4, <1>5, <1>6, <1>7, <1>8, <1>9, <1>10, <1>11,
     <1>12, <1>13, <1>14, <1>15, <1>16, <1>17, <1>18, <1>19, <1>20, <1>21
     DEF Next, Opening, Closing
-----------------------------------------------------------------------------
\* Initially the table is empty.
LEMMA TableInit == Init => Table
  BY RegistryAssumption DEF Init, Table, PeerTableExact, NoOrphanReader, EndedIsClosed

\* Every step keeps Table.
LEMMA TableNext == Types /\ Table /\ [Next]_vars => Table'
<1> SUFFICES ASSUME Types, Table, [Next]_vars PROVE Table'
  OBVIOUS
<1> USE RegistryAssumption
    DEF Types, Table, Goto, Return
<1>1. ASSUME NEW c \in Conns, RetainExisting(c) PROVE Table'
  <2>1. PeerTableExact'
    BY <1>1 DEF RetainExisting, Adopt, PeerTableExact
  <2>2. NoOrphanReader'
    BY <1>1 DEF RetainExisting, Adopt, NoOrphanReader
  <2>3. EndedIsClosed'
    BY <1>1 DEF RetainExisting, Adopt, EndedIsClosed
  <2> QED
    BY <2>1, <2>2, <2>3
<1>2. ASSUME NEW c \in Conns, RetainNone(c) PROVE Table'
  <2>1. PeerTableExact'
    BY <1>2 DEF RetainNone, PeerTableExact
  <2>2. NoOrphanReader'
    BY <1>2 DEF RetainNone, NoOrphanReader
  <2>3. EndedIsClosed'
    BY <1>2 DEF RetainNone, EndedIsClosed
  <2> QED
    BY <2>1, <2>2, <2>3
<1>3. ASSUME NEW c \in Conns, NewSession(c) PROVE Table'
  <2>1. PeerTableExact'
    BY <1>3 DEF NewSession, PeerTableExact
  <2>2. NoOrphanReader'
    BY <1>3 DEF NewSession, NoOrphanReader
  <2>3. EndedIsClosed'
    BY <1>3 DEF NewSession, EndedIsClosed
  <2> QED
    BY <2>1, <2>2, <2>3
<1>4. ASSUME NEW c \in Conns, NewSessionFails(c) PROVE Table'
  <2>1. PeerTableExact'
    BY <1>4 DEF NewSessionFails, PeerTableExact
  <2>2. NoOrphanReader'
    BY <1>4 DEF NewSessionFails, NoOrphanReader
  <2>3. EndedIsClosed'
    BY <1>4 DEF NewSessionFails, EndedIsClosed
  <2> QED
    BY <2>1, <2>2, <2>3
<1>5. ASSUME NEW c \in Conns, StoreLost(c) PROVE Table'
  <2>1. PeerTableExact'
    BY <1>5 DEF StoreLost, Adopt, PeerTableExact
  <2>2. NoOrphanReader'
    BY <1>5 DEF StoreLost, Adopt, NoOrphanReader
  <2>3. EndedIsClosed'
    BY <1>5 DEF StoreLost, Adopt, EndedIsClosed
  <2> QED
    BY <2>1, <2>2, <2>3
<1>6. ASSUME NEW c \in Conns, StoreNew(c) PROVE Table'
  <2>1. PeerTableExact'
    BY <1>6 DEF StoreNew, PeerTableExact
  <2>2. NoOrphanReader'
    BY <1>6 DEF StoreNew, NoOrphanReader
  <2>3. EndedIsClosed'
    BY <1>6 DEF StoreNew, EndedIsClosed
  <2> QED
    BY <2>1, <2>2, <2>3
<1>7. ASSUME NEW c \in Conns, Start(c) PROVE Table'
  <2>1. PeerTableExact'
    BY <1>7 DEF Start, PeerTableExact
  <2>2. NoOrphanReader'
    BY <1>7 DEF Start, NoOrphanReader
  <2>3. EndedIsClosed'
    BY <1>7 DEF Start, EndedIsClosed
  <2> QED
    BY <2>1, <2>2, <2>3
<1>8. ASSUME NEW c \in Conns, Register(c) PROVE Table'
  <2>1. PeerTableExact'
    BY <1>8 DEF Register, Refused, PeerTableExact
  <2>2. NoOrphanReader'
    BY <1>8 DEF Register, Refused, NoOrphanReader, EndedIsClosed
  <2>3. EndedIsClosed'
    BY <1>8 DEF Register, Refused, EndedIsClosed
  <2> QED
    BY <2>1, <2>2, <2>3
<1>9. ASSUME NEW c \in Conns, RegisterRefused(c) PROVE Table'
  <2>1. PeerTableExact'
    BY <1>9 DEF RegisterRefused, PeerTableExact
  <2>2. NoOrphanReader'
    BY <1>9 DEF RegisterRefused, NoOrphanReader
  <2>3. EndedIsClosed'
    BY <1>9 DEF RegisterRefused, EndedIsClosed
  <2> QED
    BY <2>1, <2>2, <2>3
<1>10. ASSUME NEW c \in Conns, Close(c) PROVE Table'
  <2>1. PeerTableExact'
    BY <1>10 DEF Close, PeerTableExact
  <2>2. NoOrphanReader'
    BY <1>10 DEF Close, NoOrphanReader
  <2>3. EndedIsClosed'
    BY <1>10 DEF Close, EndedIsClosed
  <2> QED
    BY <2>1, <2>2, <2>3
<1>11. ASSUME NEW c \in Conns, Unregister(c) PROVE Table'
  <2>1. PeerTableExact'
    BY <1>11 DEF Unregister, PeerTableExact
  <2>2. NoOrphanReader'
    BY <1>11 DEF Unregister, NoOrphanReader
  <2>3. EndedIsClosed'
    BY <1>11 DEF Unregister, EndedIsClosed
  <2> QED
    BY <2>1, <2>2, <2>3
<1>12. ASSUME NEW c \in Conns, ReleaseNotLast(c) PROVE Table'
  <2>1. PeerTableExact'
    BY <1>12 DEF ReleaseNotLast, PeerTableExact
  <2>2. NoOrphanReader'
    BY <1>12 DEF ReleaseNotLast, NoOrphanReader
  <2>3. EndedIsClosed'
    BY <1>12 DEF ReleaseNotLast, EndedIsClosed
  <2> QED
    BY <2>1, <2>2, <2>3
<1>13. ASSUME NEW c \in Conns, ReleaseLast(c) PROVE Table'
  <2>1. PeerTableExact'
    BY <1>13 DEF ReleaseLast, PeerTableExact
  <2>2. NoOrphanReader'
    BY <1>13 DEF ReleaseLast, NoOrphanReader
  <2>3. EndedIsClosed'
    BY <1>13 DEF ReleaseLast, EndedIsClosed
  <2> QED
    BY <2>1, <2>2, <2>3
<1>14. ASSUME NEW c \in Conns, Mark(c) PROVE Table'
  <2>1. PeerTableExact'
    BY <1>14 DEF Mark, PeerTableExact
  <2>2. NoOrphanReader'
    BY <1>14 DEF Mark, NoOrphanReader
  <2>3. EndedIsClosed'
    BY <1>14 DEF Mark, EndedIsClosed
  <2> QED
    BY <2>1, <2>2, <2>3
<1>15. ASSUME NEW c \in Conns, MarkAgain(c) PROVE Table'
  <2>1. PeerTableExact'
    BY <1>15 DEF MarkAgain, PeerTableExact
  <2>2. NoOrphanReader'
    BY <1>15 DEF MarkAgain, NoOrphanReader
  <2>3. EndedIsClosed'
    BY <1>15 DEF MarkAgain, EndedIsClosed
  <2> QED
    BY <2>1, <2>2, <2>3
<1>16. ASSUME NEW c \in Conns, Shut(c) PROVE Table'
  <2>1. PeerTableExact'
    BY <1>16 DEF Shut, PeerTableExact
  <2>2. NoOrphanReader'
    BY <1>16 DEF Shut, NoOrphanReader
  <2>3. EndedIsClosed'
    BY <1>16 DEF Shut, EndedIsClosed
  <2> QED
    BY <2>1, <2>2, <2>3
<1>17. ASSUME NEW c \in Conns, Wait(c) PROVE Table'
  <2>1. PeerTableExact'
    BY <1>17 DEF Wait, CloseAllPeers, PeerTableExact
  <2>2. NoOrphanReader'
    BY <1>17 DEF Wait, CloseAllPeers, NoOrphanReader
  <2>3. EndedIsClosed'
    BY <1>17 DEF Wait, CloseAllPeers, EndedIsClosed
  <2> QED
    BY <2>1, <2>2, <2>3
<1>18. ASSUME NEW m \in Managers, ReceiveFails(m) PROVE Table'
  <2>1. PeerTableExact'
    BY <1>18 DEF ReceiveFails, PeerTableExact
  <2>2. NoOrphanReader'
    BY <1>18 DEF ReceiveFails, NoOrphanReader
  <2>3. EndedIsClosed'
    BY <1>18 DEF ReceiveFails, EndedIsClosed
  <2> QED
    BY <2>1, <2>2, <2>3
<1>19. ASSUME NEW m \in Managers, ClosePeers(m) PROVE Table'
  <2>1. PeerTableExact'
    BY <1>19 DEF ClosePeers, CloseAllPeers, PeerTableExact
  <2>2. NoOrphanReader'
    <3>1. ASSUME NEW c \in Conns, pc[c] = "open", mgr[c] = m PROVE done'[c]
      <4>1. DestOf[c] \in Destinations /\ peers[m][DestOf[c]] = c
        BY <3>1 DEF PeerTableExact
      <4> QED
        BY <1>19, <4>1 DEF ClosePeers, CloseAllPeers
    <3>2. \A c \in Conns : done[c] => done'[c]
      BY <1>19 DEF ClosePeers, CloseAllPeers
    <3> QED
      BY <1>19, <3>1, <3>2 DEF ClosePeers, NoOrphanReader
  <2>3. EndedIsClosed'
    BY <1>19 DEF ClosePeers, CloseAllPeers, EndedIsClosed
  <2> QED
    BY <2>1, <2>2, <2>3
<1>20. ASSUME NEW m \in Managers, SessionLost(m) PROVE Table'
  <2>1. PeerTableExact'
    BY <1>20 DEF SessionLost, PeerTableExact
  <2>2. NoOrphanReader'
    BY <1>20 DEF SessionLost, NoOrphanReader
  <2>3. EndedIsClosed'
    BY <1>20 DEF SessionLost, EndedIsClosed
  <2> QED
    BY <2>1, <2>2, <2>3
<1>21. CASE UNCHANGED vars
  BY <1>21 DEF vars, PeerTableExact, NoOrphanReader, EndedIsClosed
<1> QED
  BY <1>1, <1>2, <1>3, <1>4, <1>5, <1>6, <1>7, <1>8, <1>9, <1>10, <1>11,
     <1>12, <1>13, <1>14, <1>15, <1>16, <1>17, <1>18, <1>19, <1>20, <1>21
     DEF Next, Opening, Closing

-----------------------------------------------------------------------------
\* Initially there is no session and nobody is closing.
LEMMA OwnedInit == Init => Owned
  BY RegistryAssumption DEF Init, Owned, OpenSessionHasOwner, MarkedIsShut, WaitingIsShut, StartedOnce

\* A caller that gives up a manager without closing it leaves another caller,
\* or a manager that failed or whose session is closed.
LEMMA ReleasedIsOwned ==
  ASSUME Types, Sharing, Owned, NEW c \in Conns, ReleaseNotLast(c)
  PROVE  \A m \in Managers : mgr[c] = m =>
           \/ \E b \in Conns \ {c} : mgr[b] = m
           \/ session[m] = "closed"
           \/ loop[m] \notin {"none", "receiving"}
<1> SUFFICES ASSUME NEW m \in Managers, mgr[c] = m
             PROVE  \/ \E b \in Conns \ {c} : mgr[b] = m
                    \/ session[m] = "closed"
                    \/ loop[m] \notin {"none", "receiving"}
  OBVIOUS
<1>1. c \in Holders(m)
  BY DEF ReleaseNotLast, Holders
<1>2. CASE Left(m) # 0
  <2>1. Cardinality(Holders(m)) > 1
    BY <1>2, HoldersFinite DEF Left, Types, Sharing, RefsMatchHolders
  <2>2. Cardinality(Holders(m) \ {c}) > 0
    <3>1. IsFiniteSet(Holders(m)) /\ Cardinality(Holders(m)) \in Nat
      BY HoldersFinite
    <3>2. Cardinality(Holders(m) \ {c}) = Cardinality(Holders(m)) - 1
      BY <1>1, <3>1, FS_RemoveElement, Zenon
    <3> QED
      BY <2>1, <3>1, <3>2
  <2>3. Holders(m) \ {c} # {}
    BY <2>2, FS_EmptySet
  <2> QED
    BY <2>3 DEF Holders
<1>3. CASE current # m
  <2>1. closed[m]
    BY <1>1, <1>3 DEF Sharing, LiveManagerIsCurrent
  <2>2. pc[c] = "release"
    BY DEF ReleaseNotLast
  <2> QED
    BY <2>1, <2>2 DEF Owned, MarkedIsShut
<1> QED
  BY <1>2, <1>3 DEF ReleaseNotLast, IsLast

\* Every step keeps Owned.
LEMMA OwnedNext == Types /\ Sharing /\ Owned /\ [Next]_vars => Owned'
<1> SUFFICES ASSUME Types, Sharing, Owned, [Next]_vars PROVE Owned'
  OBVIOUS
<1> USE RegistryAssumption DEF Types, Sharing, Owned, Goto, Return
<1>1. ASSUME NEW c \in Conns, RetainExisting(c) PROVE Owned'
  <2>1. OpenSessionHasOwner'
    BY <1>1 DEF RetainExisting, Adopt, Usable, OpenSessionHasOwner
  <2>2. MarkedIsShut'
    BY <1>1 DEF RetainExisting, Adopt, Usable, MarkedIsShut
  <2>3. WaitingIsShut'
    BY <1>1 DEF RetainExisting, Adopt, Usable, WaitingIsShut
  <2>4. StartedOnce'
    BY <1>1 DEF RetainExisting, Adopt, Usable, StartedOnce
  <2> QED
    BY <2>1, <2>2, <2>3, <2>4
<1>2. ASSUME NEW c \in Conns, RetainNone(c) PROVE Owned'
  <2>1. OpenSessionHasOwner'
    BY <1>2 DEF RetainNone, OpenSessionHasOwner
  <2>2. MarkedIsShut'
    BY <1>2 DEF RetainNone, MarkedIsShut
  <2>3. WaitingIsShut'
    BY <1>2 DEF RetainNone, WaitingIsShut
  <2>4. StartedOnce'
    BY <1>2 DEF RetainNone, StartedOnce
  <2> QED
    BY <2>1, <2>2, <2>3, <2>4
<1>3. ASSUME NEW c \in Conns, NewSession(c) PROVE Owned'
  <2>1. OpenSessionHasOwner'
    BY <1>3 DEF NewSession, FreshIsUnknown, OpenSessionHasOwner
  <2>2. MarkedIsShut'
    BY <1>3 DEF NewSession, FreshIsUnknown, MarkedIsShut
  <2>3. WaitingIsShut'
    BY <1>3 DEF NewSession, FreshIsUnknown, WaitingIsShut
  <2>4. StartedOnce'
    BY <1>3 DEF NewSession, FreshIsUnknown, StartedOnce
  <2> QED
    BY <2>1, <2>2, <2>3, <2>4
<1>4. ASSUME NEW c \in Conns, NewSessionFails(c) PROVE Owned'
  <2>1. OpenSessionHasOwner'
    BY <1>4 DEF NewSessionFails, OpenSessionHasOwner
  <2>2. MarkedIsShut'
    BY <1>4 DEF NewSessionFails, MarkedIsShut
  <2>3. WaitingIsShut'
    BY <1>4 DEF NewSessionFails, WaitingIsShut
  <2>4. StartedOnce'
    BY <1>4 DEF NewSessionFails, StartedOnce
  <2> QED
    BY <2>1, <2>2, <2>3, <2>4
<1>5. ASSUME NEW c \in Conns, StoreLost(c) PROVE Owned'
  <2>1. OpenSessionHasOwner'
    BY <1>5 DEF StoreLost, Adopt, Usable, UnstoredIsPrivate, OpenSessionHasOwner
  <2>2. MarkedIsShut'
    BY <1>5 DEF StoreLost, Adopt, Usable, UnstoredIsPrivate, MarkedIsShut
  <2>3. WaitingIsShut'
    BY <1>5 DEF StoreLost, Adopt, Usable, UnstoredIsPrivate, WaitingIsShut
  <2>4. StartedOnce'
    BY <1>5 DEF StoreLost, Adopt, Usable, UnstoredIsPrivate, StartedOnce
  <2> QED
    BY <2>1, <2>2, <2>3, <2>4
<1>6. ASSUME NEW c \in Conns, StoreNew(c) PROVE Owned'
  <2>1. OpenSessionHasOwner'
    BY <1>6 DEF StoreNew, UnstoredIsPrivate, OpenSessionHasOwner
  <2>2. MarkedIsShut'
    BY <1>6 DEF StoreNew, UnstoredIsPrivate, MarkedIsShut
  <2>3. WaitingIsShut'
    BY <1>6 DEF StoreNew, UnstoredIsPrivate, WaitingIsShut
  <2>4. StartedOnce'
    BY <1>6 DEF StoreNew, UnstoredIsPrivate, StartedOnce
  <2> QED
    BY <2>1, <2>2, <2>3, <2>4
<1>7. ASSUME NEW c \in Conns, Start(c) PROVE Owned'
  <2>1. OpenSessionHasOwner'
    BY <1>7 DEF Start, OpenSessionHasOwner
  <2>2. MarkedIsShut'
    BY <1>7 DEF Start, MarkedIsShut, StartedOnce
  <2>3. WaitingIsShut'
    BY <1>7 DEF Start, WaitingIsShut
  <2>4. StartedOnce'
    BY <1>7 DEF Start, StartedOnce
  <2> QED
    BY <2>1, <2>2, <2>3, <2>4
<1>8. ASSUME NEW c \in Conns, Register(c) PROVE Owned'
  <2>1. OpenSessionHasOwner'
    BY <1>8 DEF Register, OpenSessionHasOwner
  <2>2. MarkedIsShut'
    BY <1>8 DEF Register, MarkedIsShut
  <2>3. WaitingIsShut'
    BY <1>8 DEF Register, WaitingIsShut
  <2>4. StartedOnce'
    BY <1>8 DEF Register, StartedOnce
  <2> QED
    BY <2>1, <2>2, <2>3, <2>4
<1>9. ASSUME NEW c \in Conns, RegisterRefused(c) PROVE Owned'
  <2>1. OpenSessionHasOwner'
    BY <1>9 DEF RegisterRefused, OpenSessionHasOwner
  <2>2. MarkedIsShut'
    BY <1>9 DEF RegisterRefused, MarkedIsShut
  <2>3. WaitingIsShut'
    BY <1>9 DEF RegisterRefused, WaitingIsShut
  <2>4. StartedOnce'
    BY <1>9 DEF RegisterRefused, StartedOnce
  <2> QED
    BY <2>1, <2>2, <2>3, <2>4
<1>10. ASSUME NEW c \in Conns, Close(c) PROVE Owned'
  <2>1. OpenSessionHasOwner'
    BY <1>10 DEF Close, OpenSessionHasOwner
  <2>2. MarkedIsShut'
    BY <1>10 DEF Close, MarkedIsShut
  <2>3. WaitingIsShut'
    BY <1>10 DEF Close, WaitingIsShut
  <2>4. StartedOnce'
    BY <1>10 DEF Close, StartedOnce
  <2> QED
    BY <2>1, <2>2, <2>3, <2>4
<1>11. ASSUME NEW c \in Conns, Unregister(c) PROVE Owned'
  <2>1. OpenSessionHasOwner'
    BY <1>11 DEF Unregister, OpenSessionHasOwner
  <2>2. MarkedIsShut'
    BY <1>11 DEF Unregister, MarkedIsShut
  <2>3. WaitingIsShut'
    BY <1>11 DEF Unregister, WaitingIsShut
  <2>4. StartedOnce'
    BY <1>11 DEF Unregister, StartedOnce
  <2> QED
    BY <2>1, <2>2, <2>3, <2>4
<1>12. ASSUME NEW c \in Conns, ReleaseNotLast(c) PROVE Owned'
  <2>1. OpenSessionHasOwner'
    <3> SUFFICES ASSUME NEW m \in Managers, session'[m] \in {"open", "lost"},
                        loop'[m] \in {"none", "receiving"}
                 PROVE  \E b \in Conns : mgr'[b] = m
      BY DEF OpenSessionHasOwner
    <3>1. /\ mgr' = [mgr EXCEPT ![c] = NoManager]
          /\ session[m] \in {"open", "lost"} /\ loop[m] \in {"none", "receiving"}
      BY <1>12 DEF ReleaseNotLast
    <3>2. \E b \in Conns \ {c} : mgr[b] = m
      <4>1. CASE mgr[c] = m
        <5>1. \/ \E b \in Conns \ {c} : mgr[b] = m
              \/ session[m] = "closed"
              \/ loop[m] \notin {"none", "receiving"}
          BY <1>12, <4>1, ReleasedIsOwned
        <5> QED
          BY <3>1, <5>1
      <4>2. CASE mgr[c] # m
        <5>1. \E b \in Conns : mgr[b] = m
          BY <3>1 DEF OpenSessionHasOwner
        <5> QED
          BY <4>2, <5>1
      <4> QED
        BY <4>1, <4>2
    <3> QED
      BY <3>1, <3>2
  <2>2. MarkedIsShut'
    BY <1>12 DEF ReleaseNotLast, MarkedIsShut
  <2>3. WaitingIsShut'
    BY <1>12 DEF ReleaseNotLast, WaitingIsShut
  <2>4. StartedOnce'
    BY <1>12 DEF ReleaseNotLast, StartedOnce
  <2> QED
    BY <2>1, <2>2, <2>3, <2>4
<1>13. ASSUME NEW c \in Conns, ReleaseLast(c) PROVE Owned'
  <2>1. OpenSessionHasOwner'
    BY <1>13 DEF ReleaseLast, OpenSessionHasOwner
  <2>2. MarkedIsShut'
    BY <1>13 DEF ReleaseLast, MarkedIsShut
  <2>3. WaitingIsShut'
    BY <1>13 DEF ReleaseLast, WaitingIsShut
  <2>4. StartedOnce'
    BY <1>13 DEF ReleaseLast, StartedOnce
  <2> QED
    BY <2>1, <2>2, <2>3, <2>4
<1>14. ASSUME NEW c \in Conns, Mark(c) PROVE Owned'
  <2>1. OpenSessionHasOwner'
    BY <1>14 DEF Mark, OpenSessionHasOwner
  <2>2. MarkedIsShut'
    BY <1>14 DEF Mark, MarkedIsShut
  <2>3. WaitingIsShut'
    BY <1>14 DEF Mark, WaitingIsShut
  <2>4. StartedOnce'
    BY <1>14 DEF Mark, StartedOnce
  <2> QED
    BY <2>1, <2>2, <2>3, <2>4
<1>15. ASSUME NEW c \in Conns, MarkAgain(c) PROVE Owned'
  <2>1. OpenSessionHasOwner'
    BY <1>15 DEF MarkAgain, MarkedIsShut, OpenSessionHasOwner
  <2>2. MarkedIsShut'
    BY <1>15 DEF MarkAgain, MarkedIsShut
  <2>3. WaitingIsShut'
    BY <1>15 DEF MarkAgain, WaitingIsShut
  <2>4. StartedOnce'
    BY <1>15 DEF MarkAgain, StartedOnce
  <2> QED
    BY <2>1, <2>2, <2>3, <2>4
<1>16. ASSUME NEW c \in Conns, Shut(c) PROVE Owned'
  <2>1. OpenSessionHasOwner'
    BY <1>16 DEF Shut, OpenSessionHasOwner
  <2>2. MarkedIsShut'
    BY <1>16 DEF Shut, MarkedIsShut
  <2>3. WaitingIsShut'
    BY <1>16 DEF Shut, WaitingIsShut
  <2>4. StartedOnce'
    BY <1>16 DEF Shut, StartedOnce
  <2> QED
    BY <2>1, <2>2, <2>3, <2>4
<1>17. ASSUME NEW c \in Conns, Wait(c) PROVE Owned'
  <2>1. OpenSessionHasOwner'
    BY <1>17 DEF Wait, WaitingIsShut, CloseAllPeers, OpenSessionHasOwner
  <2>2. MarkedIsShut'
    BY <1>17 DEF Wait, CloseAllPeers, MarkedIsShut
  <2>3. WaitingIsShut'
    BY <1>17 DEF Wait, CloseAllPeers, WaitingIsShut
  <2>4. StartedOnce'
    BY <1>17 DEF Wait, CloseAllPeers, StartedOnce
  <2> QED
    BY <2>1, <2>2, <2>3, <2>4
<1>18. ASSUME NEW m \in Managers, ReceiveFails(m) PROVE Owned'
  <2>1. OpenSessionHasOwner'
    BY <1>18 DEF ReceiveFails, OpenSessionHasOwner
  <2>2. MarkedIsShut'
    BY <1>18 DEF ReceiveFails, MarkedIsShut
  <2>3. WaitingIsShut'
    BY <1>18 DEF ReceiveFails, WaitingIsShut
  <2>4. StartedOnce'
    BY <1>18 DEF ReceiveFails, StartedOnce
  <2> QED
    BY <2>1, <2>2, <2>3, <2>4
<1>19. ASSUME NEW m \in Managers, ClosePeers(m) PROVE Owned'
  <2>1. OpenSessionHasOwner'
    BY <1>19 DEF ClosePeers, CloseAllPeers, OpenSessionHasOwner
  <2>2. MarkedIsShut'
    BY <1>19 DEF ClosePeers, CloseAllPeers, MarkedIsShut
  <2>3. WaitingIsShut'
    BY <1>19 DEF ClosePeers, CloseAllPeers, WaitingIsShut
  <2>4. StartedOnce'
    BY <1>19 DEF ClosePeers, CloseAllPeers, StartedOnce
  <2> QED
    BY <2>1, <2>2, <2>3, <2>4
<1>20. ASSUME NEW m \in Managers, SessionLost(m) PROVE Owned'
  <2>1. OpenSessionHasOwner'
    BY <1>20 DEF SessionLost, OpenSessionHasOwner
  <2>2. MarkedIsShut'
    BY <1>20 DEF SessionLost, MarkedIsShut
  <2>3. WaitingIsShut'
    BY <1>20 DEF SessionLost, WaitingIsShut
  <2>4. StartedOnce'
    <3>1. UNCHANGED <<loop, pc, mgr>>
      BY <1>20 DEF SessionLost
    <3> QED
      BY <3>1 DEF StartedOnce
  <2> QED
    BY <2>1, <2>2, <2>3, <2>4
<1>21. CASE UNCHANGED vars
  <2>1. OpenSessionHasOwner' /\ MarkedIsShut'
    BY <1>21 DEF vars, OpenSessionHasOwner, MarkedIsShut
  <2>2. WaitingIsShut' /\ StartedOnce'
    BY <1>21 DEF vars, WaitingIsShut, StartedOnce
  <2> QED
    BY <2>1, <2>2
<1> QED
  BY <1>1, <1>2, <1>3, <1>4, <1>5, <1>6, <1>7, <1>8, <1>9, <1>10, <1>11,
     <1>12, <1>13, <1>14, <1>15, <1>16, <1>17, <1>18, <1>19, <1>20, <1>21
     DEF Next, Opening, Closing
-----------------------------------------------------------------------------
\* The inductive invariant of the registry.
IInv == Types /\ Sharing /\ Table /\ Owned

\* It holds in every reachable state.
THEOREM RegistryInvariant == Spec => []IInv
<1>1. Init => IInv
  BY TypesInit, SharingInit, TableInit, OwnedInit DEF IInv
<1>2. IInv /\ [Next]_vars => IInv'
  BY TypesNext, SharingNext, TableNext, OwnedNext DEF IInv
<1> QED
  BY <1>1, <1>2, PTL DEF Spec

\* Type correctness; in particular the reference counter of a manager never
\* exceeds the number of callers.
THEOREM TypeCorrect == Spec => []TypeOK
<1>1. IInv => TypeOK
  <2> SUFFICES ASSUME IInv PROVE TypeOK
    OBVIOUS
  <2>1. \A m \in Managers : Cardinality(Holders(m)) <= Cardinality(Conns)
    BY RegistryAssumption, FS_Subset DEF Holders
  <2>2. \A m \in Managers : refs[m] \in 0 .. Cardinality(Conns)
    BY <2>1, RegistryAssumption, FS_CardinalityType, HoldersFinite
       DEF IInv, Types, Sharing, RefsMatchHolders
  <2> QED
    BY <2>2 DEF IInv, Types, TypeOK
<1> QED
  BY <1>1, RegistryInvariant, PTL

\* The hand-kept reference counter is the number of callers that hold the
\* manager, on every path through retainManager and releaseManager.
THEOREM RefsCorrect == Spec => []RefsMatchHolders
<1>1. IInv => RefsMatchHolders
  BY DEF IInv, Sharing
<1> QED
  BY <1>1, RegistryInvariant, PTL

\* The registry never closes a session that some caller holds.
THEOREM SessionSafe == Spec => []SessionOpenWhileHeld
<1>1. IInv => SessionOpenWhileHeld
  BY DEF IInv, Sharing, HeldIsUp, SessionOpenWhileHeld
<1> QED
  BY <1>1, RegistryInvariant, PTL

\* A held manager that has not failed is the registry's: callers share it.
THEOREM ManagerShared == Spec => []LiveManagerIsCurrent
<1>1. IInv => LiveManagerIsCurrent
  BY DEF IInv, Sharing
<1> QED
  BY <1>1, RegistryInvariant, PTL

\* A session whose receive loop has not failed belongs to a caller: a receive
\* failure is the only way in which the registry leaves a session open.
THEOREM SessionOwned == Spec => []OpenSessionHasOwner
<1>1. IInv => OpenSessionHasOwner
  BY DEF IInv, Owned
<1> QED
  BY <1>1, RegistryInvariant, PTL

\* The destination table holds exactly the connections not yet unregistered.
THEOREM TableCorrect == Spec => []PeerTableExact
<1>1. IInv => PeerTableExact
  BY DEF IInv, Table
<1> QED
  BY <1>1, RegistryInvariant, PTL

\* No open connection is left behind by a receive loop that has ended.
THEOREM ReadersReleased == Spec => []NoOrphanReader
<1>1. IInv => NoOrphanReader
  BY DEF IInv, Table
<1> QED
  BY <1>1, RegistryInvariant, PTL

\* manager.close waits for the receive loop only once it has closed the session,
\* on which the loop's Receive fails: the safety part of ReleaseCompletes.
THEOREM WaitsForClosedSession == Spec => []WaitingIsShut
<1>1. IInv => WaitingIsShut
  BY DEF IInv, Owned
<1> QED
  BY <1>1, RegistryInvariant, PTL

-----------------------------------------------------------------------------
\* The callers a session has, and the phase it is in, are all that the
\* abstract specification sees: a step that keeps them for every manager is a
\* stuttering step of it.
LEMMA Stutters ==
  ASSUME \A m \in Managers : Holders(m)' = Holders(m) /\ Phase(m)' = Phase(m)
  PROVE  UNCHANGED <<Using, Phases>>
<1>1. Using' = Using
  BY DEF Using
<1>2. Phases' = Phases
  BY DEF Phases
<1> QED BY <1>1, <1>2

\* A manager that is held is live, or it has failed.
LEMMA HeldPhase ==
  ASSUME Types, Sharing, NEW m \in Managers, Holders(m) # {}
  PROVE  /\ ~BeingClosed(m)
         /\ Phase(m) = IF closed[m] THEN "failed" ELSE "live"
<1>1. session[m] # "closed"
  BY DEF Sharing, HeldIsUp
<1>2. ~BeingClosed(m)
  BY DEF Sharing, ClosingIsUnheld, ClosingPCs, BeingClosed
<1> QED BY <1>1, <1>2 DEF Phase

\* A caller of retainManager or releaseManager that holds nothing is free.
LEMMA OutsideIsFree ==
  ASSUME NEW c \in Conns, pc[c] \in {"idle", "create", "store"}
  PROVE  Shared!Free(c)
<1>1. \A m \in Managers : c \notin Holders(m)
  BY DEF Holders
<1> QED BY <1>1 DEF Shared!Free, Using

\* Reusing the registry's manager joins the session.
LEMMA RetainExistingJoins ==
  ASSUME Types, Sharing, NEW c \in Conns, RetainExisting(c)
  PROVE  Shared!Next
<1> USE DEF Types
<1>1. PICK s \in Managers : s = current /\ ~closed[s]
  BY DEF RetainExisting, Usable
<1>2. Holders(s) # {}
  BY <1>1 DEF Sharing, CurrentIsHeld
<1>3. /\ Holders(s)' = Holders(s) \cup {c}
      /\ \A m \in Managers \ {s} : Holders(m)' = Holders(m)
  BY <1>1 DEF RetainExisting, Adopt, Goto, Holders
<1>4. \A m \in Managers : BeingClosed(m)' <=> BeingClosed(m)
  BY <1>1 DEF RetainExisting, Adopt, Goto, BeingClosed
<1>5. \A m \in Managers : Phase(m)' = Phase(m)
  BY <1>2, <1>3, <1>4 DEF RetainExisting, Phase
<1>6. Phase(s) = "live"
  BY <1>1, <1>2, HeldPhase
<1>7. Shared!Free(c)
  BY OutsideIsFree DEF RetainExisting
<1>8. Using' = [Using EXCEPT ![s] = @ \cup {c}]
  BY <1>3 DEF Using
<1>9. Phases' = Phases
  BY <1>5 DEF Phases
<1>10. Shared!Join(c, s)
  BY <1>6, <1>7, <1>8, <1>9 DEF Shared!Join, Phases
<1> QED BY <1>10 DEF Shared!Next

\* Losing the race in retainManager joins the winner's session and closes the
\* one that was made in vain.
LEMMA StoreLostJoins ==
  ASSUME Types, Sharing, NEW c \in Conns, StoreLost(c)
  PROVE  Shared!Next
<1> USE DEF Types
<1>1. PICK s \in Managers : s = current /\ ~closed[s]
  BY DEF StoreLost, Usable
<1>2. PICK t \in Managers : t = mgr[c]
  BY DEF StoreLost
<1>3. /\ session[t] # "closed" /\ ~closed[t] /\ s # t
      /\ \A b \in Conns : mgr[b] = t => b = c
  BY <1>1, <1>2 DEF StoreLost, Sharing, UnstoredIsPrivate
<1>4. Holders(s) # {}
  BY <1>1 DEF Sharing, CurrentIsHeld
<1>5. Phase(t) = "unused"
  <2>1. Holders(t) = {} /\ ~BeingClosed(t)
    BY <1>3 DEF StoreLost, Holders, BeingClosed
  <2> QED BY <1>3, <2>1 DEF Phase
<1>6. /\ Holders(s)' = Holders(s) \cup {c}
      /\ \A m \in Managers \ {s} : Holders(m)' = Holders(m)
  BY <1>1 DEF StoreLost, Adopt, Goto, Holders
<1>7. \A m \in Managers : BeingClosed(m)' <=> BeingClosed(m)
  BY <1>1 DEF StoreLost, Adopt, Goto, BeingClosed
<1>8. /\ Phase(t)' = "closed"
      /\ \A m \in Managers \ {t} : Phase(m)' = Phase(m)
  BY <1>2, <1>4, <1>6, <1>7 DEF StoreLost, Phase
<1>9. Phase(s) = "live"
  BY <1>1, <1>4, HeldPhase
<1>10. Shared!Free(c)
  BY OutsideIsFree DEF StoreLost
<1>11. Using' = [Using EXCEPT ![s] = @ \cup {c}]
  BY <1>6 DEF Using
<1>12. Phases' = [Phases EXCEPT ![t] = "closed"]
  BY <1>8 DEF Phases
<1>13. Shared!JoinInstead(c, s, t)
  BY <1>5, <1>9, <1>10, <1>11, <1>12 DEF Shared!JoinInstead, Phases
<1> QED BY <1>13 DEF Shared!Next

\* Storing a new manager begins a session, and none is live then.
LEMMA StoreNewBegins ==
  ASSUME Types, Sharing, NEW c \in Conns, StoreNew(c)
  PROVE  Shared!Next
<1> USE DEF Types
<1>1. PICK s \in Managers : s = mgr[c]
  BY DEF StoreNew
<1>2. /\ session[s] # "closed" /\ ~closed[s]
      /\ \A b \in Conns : mgr[b] = s => b = c
  BY <1>1 DEF StoreNew, Sharing, UnstoredIsPrivate
<1>3. Phase(s) = "unused"
  <2>1. Holders(s) = {} /\ ~BeingClosed(s)
    BY <1>2 DEF StoreNew, Holders, BeingClosed
  <2> QED BY <1>2, <2>1 DEF Phase
<1>4. ASSUME NEW t \in Managers PROVE Phase(t) # "live"
  <2>1. Holders(t) # {} /\ ~closed[t] => current = t /\ t # NoManager
    BY RegistryAssumption DEF Sharing, LiveManagerIsCurrent
  <2> QED BY <2>1 DEF StoreNew, Usable, Phase
<1>5. /\ Holders(s)' = {c}
      /\ \A m \in Managers \ {s} : Holders(m)' = Holders(m)
  BY <1>1, <1>2 DEF StoreNew, Goto, Holders
<1>6. \A m \in Managers : BeingClosed(m)' <=> BeingClosed(m)
  BY DEF StoreNew, Goto, BeingClosed
<1>7. ~BeingClosed(s)
  BY <1>2 DEF StoreNew, BeingClosed
<1>8. /\ Phase(s)' = "live"
      /\ \A m \in Managers \ {s} : Phase(m)' = Phase(m)
  BY <1>2, <1>5, <1>6, <1>7 DEF StoreNew, Phase
<1>9. Shared!Free(c)
  BY OutsideIsFree DEF StoreNew
<1>10. Using' = [Using EXCEPT ![s] = {c}]
  BY <1>5 DEF Using
<1>11. Phases' = [Phases EXCEPT ![s] = "live"]
  BY <1>8 DEF Phases
<1>12. Shared!Begin(c, s)
  BY <1>3, <1>4, <1>9, <1>10, <1>11 DEF Shared!Begin, Phases
<1> QED BY <1>12 DEF Shared!Next

\* A caller in releaseManager holds its manager; afterwards it does not, and
\* the other holders are the same.
LEMMA ReleaseLeaves ==
  ASSUME Types, NEW c \in Conns, NEW s \in Managers, s = mgr[c], pc[c] = "release",
         NEW l \in {"idle", "mark"}, Goto(c, l),
         \A b \in Conns \ {c} : mgr'[b] = mgr[b]
  PROVE  /\ c \in Holders(s)
         /\ Holders(s)' = Holders(s) \ {c}
         /\ \A m \in Managers \ {s} : Holders(m)' = Holders(m)
<1>1. \A b \in Conns \ {c} : pc'[b] = pc[b]
  BY DEF Goto, Types
<1>2. pc'[c] = l
  BY DEF Goto, Types
<1>3. \A m \in Managers : Holders(m)' = Holders(m) \ {c}
  BY <1>1, <1>2 DEF Holders
<1>4. \A m \in Managers \ {s} : c \notin Holders(m)
  BY DEF Holders
<1> QED BY <1>3, <1>4 DEF Holders

\* Releasing a manager that others hold, or that the registry has replaced,
\* leaves the session; only one that has failed is left without users here.
LEMMA ReleaseNotLastLeaves ==
  ASSUME Types, Sharing, NEW c \in Conns, ReleaseNotLast(c)
  PROVE  Shared!Next
<1> USE DEF Types
<1>1. PICK s \in Managers : s = mgr[c]
  BY DEF ReleaseNotLast
<1>2. /\ c \in Holders(s)
      /\ Holders(s)' = Holders(s) \ {c}
      /\ \A m \in Managers \ {s} : Holders(m)' = Holders(m)
  BY <1>1, ReleaseLeaves DEF ReleaseNotLast, Return
<1>3. \A m \in Managers : BeingClosed(m)' <=> BeingClosed(m)
  BY DEF ReleaseNotLast, Return, Goto, BeingClosed
<1>4. Phase(s) = "live" => Holders(s) # {c}
  <2> SUFFICES ASSUME Phase(s) = "live", Holders(s) = {c} PROVE FALSE
    OBVIOUS
  <2>1. ~closed[s]
    BY DEF Phase
  <2>2. current = s
    BY <1>2, <2>1 DEF Sharing, LiveManagerIsCurrent
  <2>3. refs[s] = 1
    BY FS_Singleton DEF Sharing, RefsMatchHolders
  <2> QED BY <1>1, <2>2, <2>3 DEF ReleaseNotLast, IsLast, Left
<1>5. \A m \in Managers \ {s} : Phase(m)' = Phase(m)
  BY <1>2, <1>3 DEF ReleaseNotLast, Phase
<1>6. Phase(s)' = Phase(s)
  <2>1. Phase(s) = IF closed[s] THEN "failed" ELSE "live"
    BY <1>2, HeldPhase
  <2>2. ~closed[s] => Holders(s)' # {}
    BY <1>2, <1>4, <2>1
  <2>3. session[s]' # "closed" /\ closed[s]' = closed[s] /\ ~BeingClosed(s)'
    BY <1>2, <1>3, HeldPhase DEF ReleaseNotLast, Sharing, HeldIsUp
  <2> QED BY <2>1, <2>2, <2>3 DEF Phase
<1>7. Using' = [Using EXCEPT ![s] = @ \ {c}]
  BY <1>2 DEF Using
<1>8. Phases' = Phases
  BY <1>5, <1>6 DEF Phases
<1>9. Shared!Leave(c, s)
  BY <1>2, <1>4, <1>7, <1>8 DEF Shared!Leave, Using, Phases
<1> QED BY <1>9 DEF Shared!Next

\* The last release takes the session out of use: it will be closed, unless
\* its receive loop has failed before.
LEMMA ReleaseLastLeaves ==
  ASSUME Types, Sharing, NEW c \in Conns, ReleaseLast(c)
  PROVE  Shared!Next
<1> USE DEF Types
<1>1. PICK s \in Managers : s = mgr[c]
  BY DEF ReleaseLast
<1>2. /\ c \in Holders(s)
      /\ Holders(s)' = Holders(s) \ {c}
      /\ \A m \in Managers \ {s} : Holders(m)' = Holders(m)
  BY <1>1, ReleaseLeaves DEF ReleaseLast
<1>3. Holders(s) = {c}
  <2>1. IsFiniteSet(Holders(s)) /\ Cardinality(Holders(s)) <= 1
    BY <1>1, HoldersFinite DEF ReleaseLast, IsLast, Left, Sharing, RefsMatchHolders
  <2>2. IsFiniteSet(Holders(s) \ {c})
        /\ Cardinality(Holders(s) \ {c}) = Cardinality(Holders(s)) - 1
    BY <1>2, <2>1, FS_RemoveElement
  <2>3. Cardinality(Holders(s) \ {c}) \in Nat
    BY <2>2, FS_CardinalityType
  <2>4. Cardinality(Holders(s) \ {c}) = 0
    BY <2>1, <2>2, <2>3, HoldersFinite
  <2>5. Holders(s) \ {c} = {}
    BY <2>2, <2>4, FS_EmptySet
  <2> QED BY <1>2, <2>5
<1>4. /\ Phase(s) = IF closed[s] THEN "failed" ELSE "live"
      /\ ~BeingClosed(s)
      /\ session[s] # "closed"
  BY <1>2, HeldPhase DEF Sharing, HeldIsUp
<1>5. /\ BeingClosed(s)' <=> ~closed[s]
      /\ \A m \in Managers \ {s} : BeingClosed(m)' <=> BeingClosed(m)
  BY <1>1, <1>4 DEF ReleaseLast, Goto, BeingClosed
<1>6. \A m \in Managers \ {s} : Phase(m)' = Phase(m)
  BY <1>2, <1>5 DEF ReleaseLast, Phase
<1>7. Phase(s)' = IF closed[s] THEN "failed" ELSE "left"
  BY <1>4, <1>5 DEF ReleaseLast, Phase
<1>8. Using' = [Using EXCEPT ![s] = @ \ {c}]
  BY <1>2 DEF Using
<1>9. Phases' = [Phases EXCEPT ![s] = IF @ = "live" /\ Holders(s) = {c} THEN "left" ELSE @]
  BY <1>3, <1>4, <1>6, <1>7 DEF Phases
<1>10. Shared!Leave(c, s)
  BY <1>2, <1>8, <1>9 DEF Shared!Leave, Using
<1> QED BY <1>10 DEF Shared!Next

\* Closing the session, which the last user has left.
LEMMA ShutCloses ==
  ASSUME Types, NEW c \in Conns, Shut(c)
  PROVE  [Shared!Next]_<<Using, Phases>>
<1> USE DEF Types
<1>1. PICK s \in Managers : s = mgr[c]
  BY DEF Shut
<1>2. \A m \in Managers : Holders(m)' = Holders(m)
  BY DEF Shut, Goto, Holders
<1>3. BeingClosed(s)
  BY <1>1 DEF Shut, BeingClosed
<1>4. \A m \in Managers \ {s} : BeingClosed(m)' <=> BeingClosed(m)
  BY <1>1 DEF Shut, Goto, BeingClosed
<1>5. \A m \in Managers \ {s} : Phase(m)' = Phase(m)
  BY <1>1, <1>2, <1>4 DEF Shut, Phase
<1>6. Phase(s)' = "closed" /\ Phase(s) \in {"closed", "left"}
  BY <1>1, <1>3 DEF Shut, Phase
<1>7. CASE Phase(s) = "closed"
  BY <1>2, <1>5, <1>6, <1>7, Stutters
<1>8. CASE Phase(s) = "left"
  <2>1. Using' = Using
    BY <1>2 DEF Using
  <2>2. Phases' = [Phases EXCEPT ![s] = "closed"]
    BY <1>5, <1>6 DEF Phases
  <2>3. Shared!Shut(s)
    BY <1>8, <2>1, <2>2 DEF Shared!Shut, Phases
  <2> QED BY <2>3 DEF Shared!Next
<1> QED BY <1>6, <1>7, <1>8

\* A receive loop runs only for a manager that is held or being closed, or
\* whose session is closed: it has no unused session to fail.
LEMMA ReceivingIsUsed ==
  ASSUME IInv, NEW m \in Managers, loop[m] = "receiving"
  PROVE  closed[m] \/ Phase(m) \in {"closed", "left", "live"}
<1> USE DEF IInv, Types
<1> SUFFICES ASSUME ~closed[m], session[m] # "closed", Holders(m) = {}
             PROVE  BeingClosed(m)
  BY DEF Phase
<1>1. session[m] \in {"open", "lost"}
  BY DEF Sessions, Sharing, FreshIsUnknown
<1>2. PICK c \in Conns : mgr[c] = m
  BY <1>1 DEF Owned, OpenSessionHasOwner
<1>3. pc[c] \notin {"idle", "create"}
  BY <1>2, RegistryAssumption
<1>4. pc[c] # "store"
  BY <1>2 DEF Sharing, UnstoredIsPrivate
<1>5. pc[c] # "wait"
  BY <1>1, <1>2 DEF Owned, WaitingIsShut
<1>6. pc[c] \in {"mark", "shut"}
  BY <1>2, <1>3, <1>4, <1>5 DEF PCs, Holders
<1> QED BY <1>2, <1>6 DEF BeingClosed

\* A receive loop that fails makes the session fail, unless it was closed or
\* is being closed by a caller that has already marked the manager.
LEMMA ReceiveFailsFails ==
  ASSUME IInv, NEW s \in Managers, ReceiveFails(s)
  PROVE  [Shared!Next]_<<Using, Phases>>
<1> USE DEF IInv, Types
<1>1. \A m \in Managers : Holders(m)' = Holders(m)
  BY DEF ReceiveFails, Holders
<1>2. \A m \in Managers \ {s} : BeingClosed(m)' <=> BeingClosed(m)
  BY DEF ReceiveFails, BeingClosed
<1>3. \A m \in Managers \ {s} : Phase(m)' = Phase(m)
  BY <1>1, <1>2 DEF ReceiveFails, Phase
<1>4. CASE Phase(s)' = Phase(s)
  BY <1>1, <1>3, <1>4, Stutters
<1>5. CASE Phase(s)' # Phase(s)
  <2>1. closed'[s] /\ session'[s] = session[s]
    BY DEF ReceiveFails
  <2>2. ~closed[s]
    <3> SUFFICES ASSUME closed[s] PROVE Phase(s)' = Phase(s)
      BY <1>5
    <3>1. BeingClosed(s)' <=> BeingClosed(s)
      BY <2>1 DEF ReceiveFails, BeingClosed
    <3> QED BY <1>1, <2>1, <3>1 DEF Phase
  <2>3. session[s] # "closed"
    BY <1>5, <2>1 DEF Phase
  <2>4. Phase(s) \in {"left", "live"}
    BY <2>2, <2>3, ReceivingIsUsed DEF ReceiveFails, Phase
  <2>5. ~BeingClosed(s)'
    <3> SUFFICES ASSUME BeingClosed(s)' PROVE Phase(s)' = Phase(s)
      BY <1>5
    <3>1. BeingClosed(s)
      BY <2>1 DEF ReceiveFails, BeingClosed
    <3> QED BY <2>1, <2>3, <3>1 DEF Phase
  <2>6. Phase(s)' = "failed"
    BY <2>1, <2>3, <2>5 DEF Phase
  <2>7. Using' = Using
    BY <1>1 DEF Using
  <2>8. Phases' = [Phases EXCEPT ![s] = "failed"]
    BY <1>3, <2>6 DEF Phases
  <2>9. Shared!Fail(s)
    BY <2>4, <2>7, <2>8 DEF Shared!Fail, Phases
  <2> QED BY <2>9 DEF Shared!Next
<1> QED BY <1>4, <1>5

\* Marking the manager closed does not show: the session still has to be
\* closed, and the same caller does it.
LEMMA MarkStutters ==
  ASSUME Types, NEW c \in Conns, Mark(c)
  PROVE  UNCHANGED <<Using, Phases>>
<1> USE DEF Types
<1>1. \A m \in Managers : Holders(m)' = Holders(m)
  BY DEF Mark, Goto, Holders
<1>2. PICK s \in Managers : s = mgr[c]
  BY DEF Mark
<1>3. BeingClosed(s) /\ BeingClosed(s)'
  BY <1>2 DEF Mark, Goto, BeingClosed
<1>4. Phase(s)' = Phase(s)
  BY <1>3 DEF Mark, Phase
<1>5. \A m \in Managers \ {s} : BeingClosed(m)' <=> BeingClosed(m)
  BY <1>2 DEF Mark, Goto, BeingClosed
<1>6. \A m \in Managers \ {s} : Phase(m)' = Phase(m)
  BY <1>1, <1>2, <1>5 DEF Mark, Phase
<1> QED BY <1>1, <1>4, <1>6, Stutters

\* The other steps of a caller do not show either: creating a session and its
\* loop, the destination table, and the end of manager.close.
LEMMA CallerStutters ==
  ASSUME Types, NEW c \in Conns,
         \/ RetainNone(c) \/ NewSession(c) \/ NewSessionFails(c) \/ Start(c)
         \/ Register(c) \/ RegisterRefused(c) \/ Close(c) \/ Unregister(c)
         \/ MarkAgain(c) \/ Wait(c)
  PROVE  UNCHANGED <<Using, Phases>>
<1> USE RegistryAssumption DEF Types, Goto, Return
<1>1. CASE RetainNone(c)
  <2>1. \A m \in Managers : Holders(m)' = Holders(m)
    BY <1>1 DEF RetainNone, Holders
  <2>2. \A m \in Managers : BeingClosed(m)' <=> BeingClosed(m)
    BY <1>1 DEF RetainNone, BeingClosed
  <2>3. \A m \in Managers : Phase(m)' = Phase(m)
    BY <1>1, <2>1, <2>2 DEF RetainNone, Phase
  <2> QED BY <2>1, <2>3, Stutters
<1>2. CASE NewSession(c)
  <2>1. \A m \in Managers : Holders(m)' = Holders(m)
    BY <1>2 DEF NewSession, Holders
  <2>2. \A m \in Managers : BeingClosed(m)' <=> BeingClosed(m)
    BY <1>2 DEF NewSession, BeingClosed
  <2>3. \A m \in Managers : Phase(m)' = Phase(m)
    BY <1>2, <2>1, <2>2 DEF NewSession, Phase
  <2> QED BY <2>1, <2>3, Stutters
<1>3. CASE NewSessionFails(c)
  <2>1. \A m \in Managers : Holders(m)' = Holders(m)
    BY <1>3 DEF NewSessionFails, Holders
  <2>2. \A m \in Managers : BeingClosed(m)' <=> BeingClosed(m)
    BY <1>3 DEF NewSessionFails, BeingClosed
  <2>3. \A m \in Managers : Phase(m)' = Phase(m)
    BY <1>3, <2>1, <2>2 DEF NewSessionFails, Phase
  <2> QED BY <2>1, <2>3, Stutters
<1>4. CASE Start(c)
  <2>1. \A m \in Managers : Holders(m)' = Holders(m)
    BY <1>4 DEF Start, Holders
  <2>2. \A m \in Managers : BeingClosed(m)' <=> BeingClosed(m)
    BY <1>4 DEF Start, BeingClosed
  <2>3. \A m \in Managers : Phase(m)' = Phase(m)
    BY <1>4, <2>1, <2>2 DEF Start, Phase
  <2> QED BY <2>1, <2>3, Stutters
<1>5. CASE Register(c)
  <2>1. \A m \in Managers : Holders(m)' = Holders(m)
    BY <1>5 DEF Register, Holders
  <2>2. \A m \in Managers : BeingClosed(m)' <=> BeingClosed(m)
    BY <1>5 DEF Register, BeingClosed
  <2>3. \A m \in Managers : Phase(m)' = Phase(m)
    BY <1>5, <2>1, <2>2 DEF Register, Phase
  <2> QED BY <2>1, <2>3, Stutters
<1>6. CASE RegisterRefused(c)
  <2>1. \A m \in Managers : Holders(m)' = Holders(m)
    BY <1>6 DEF RegisterRefused, Holders
  <2>2. \A m \in Managers : BeingClosed(m)' <=> BeingClosed(m)
    BY <1>6 DEF RegisterRefused, BeingClosed
  <2>3. \A m \in Managers : Phase(m)' = Phase(m)
    BY <1>6, <2>1, <2>2 DEF RegisterRefused, Phase
  <2> QED BY <2>1, <2>3, Stutters
<1>7. CASE Close(c)
  <2>1. \A m \in Managers : Holders(m)' = Holders(m)
    BY <1>7 DEF Close, Holders
  <2>2. \A m \in Managers : BeingClosed(m)' <=> BeingClosed(m)
    BY <1>7 DEF Close, BeingClosed
  <2>3. \A m \in Managers : Phase(m)' = Phase(m)
    BY <1>7, <2>1, <2>2 DEF Close, Phase
  <2> QED BY <2>1, <2>3, Stutters
<1>8. CASE Unregister(c)
  <2>1. \A m \in Managers : Holders(m)' = Holders(m)
    BY <1>8 DEF Unregister, Holders
  <2>2. \A m \in Managers : BeingClosed(m)' <=> BeingClosed(m)
    BY <1>8 DEF Unregister, BeingClosed
  <2>3. \A m \in Managers : Phase(m)' = Phase(m)
    BY <1>8, <2>1, <2>2 DEF Unregister, Phase
  <2> QED BY <2>1, <2>3, Stutters
<1>9. CASE MarkAgain(c)
  <2>1. \A m \in Managers : Holders(m)' = Holders(m)
    BY <1>9 DEF MarkAgain, Holders
  <2>2. \A m \in Managers : BeingClosed(m)' <=> BeingClosed(m)
    BY <1>9 DEF MarkAgain, BeingClosed
  <2>3. \A m \in Managers : Phase(m)' = Phase(m)
    BY <1>9, <2>1, <2>2 DEF MarkAgain, Phase
  <2> QED BY <2>1, <2>3, Stutters
<1>10. CASE Wait(c)
  <2>1. \A m \in Managers : Holders(m)' = Holders(m)
    BY <1>10 DEF Wait, Holders
  <2>2. \A m \in Managers : BeingClosed(m)' <=> BeingClosed(m)
    BY <1>10 DEF Wait, BeingClosed
  <2>3. \A m \in Managers : Phase(m)' = Phase(m)
    BY <1>10, <2>1, <2>2 DEF Wait, Phase
  <2> QED BY <2>1, <2>3, Stutters
<1> QED BY <1>1, <1>2, <1>3, <1>4, <1>5, <1>6, <1>7, <1>8, <1>9, <1>10

\* Nor do the end of a receive loop and a session that the bridge drops.
LEMMA LoopStutters ==
  ASSUME Types, NEW s \in Managers, ClosePeers(s) \/ SessionLost(s)
  PROVE  UNCHANGED <<Using, Phases>>
<1>1. \A m \in Managers : Holders(m)' = Holders(m)
  BY DEF ClosePeers, SessionLost, Holders
<1>2. \A m \in Managers : BeingClosed(m)' <=> BeingClosed(m)
  BY DEF ClosePeers, SessionLost, BeingClosed
<1>3. \A m \in Managers : Phase(m)' = Phase(m)
  BY <1>1, <1>2 DEF Types, ClosePeers, SessionLost, Phase
<1> QED BY <1>1, <1>3, Stutters

\* Every step of the registry is a step of SharedSession or leaves it alone.
LEMMA SharesStep ==
  ASSUME IInv, [Next]_vars
  PROVE  [Shared!Next]_<<Using, Phases>>
<1> USE DEF IInv
<1>1. ASSUME NEW c \in Conns, RetainExisting(c) \/ StoreLost(c) \/ StoreNew(c)
      PROVE  Shared!Next
  BY <1>1, RetainExistingJoins, StoreLostJoins, StoreNewBegins
<1>2. ASSUME NEW c \in Conns, ReleaseNotLast(c) \/ ReleaseLast(c)
      PROVE  Shared!Next
  BY <1>2, ReleaseNotLastLeaves, ReleaseLastLeaves
<1>3. ASSUME NEW c \in Conns,
             RetainNone(c) \/ Opening(c) \/ Close(c) \/ Closing(c),
             ~(StoreLost(c) \/ StoreNew(c) \/ ReleaseNotLast(c) \/ ReleaseLast(c))
      PROVE  [Shared!Next]_<<Using, Phases>>
  <2>1. CASE Shut(c)
    BY <2>1, ShutCloses
  <2>2. CASE Mark(c)
    BY <2>2, MarkStutters
  <2>3. CASE ~Shut(c) /\ ~Mark(c)
    BY <1>3, <2>3, CallerStutters DEF Opening, Closing
  <2> QED BY <2>1, <2>2, <2>3
<1>4. ASSUME NEW m \in Managers, ReceiveFails(m) \/ ClosePeers(m) \/ SessionLost(m)
      PROVE  [Shared!Next]_<<Using, Phases>>
  BY <1>4, ReceiveFailsFails, LoopStutters
<1>5. ASSUME UNCHANGED vars PROVE UNCHANGED <<Using, Phases>>
  <2>1. \A m \in Managers : Holders(m)' = Holders(m) /\ Phase(m)' = Phase(m)
    BY <1>5 DEF vars, Holders, Phase, BeingClosed
  <2> QED BY <2>1, Stutters
<1> QED BY <1>1, <1>2, <1>3, <1>4, <1>5 DEF Next

\* The registry implements the shared session it is for, for any number of
\* callers and sessions.
THEOREM ImplementsSharedSession == Spec => SharesOneSession
<1>1. Init => Shared!Init
  <2> SUFFICES ASSUME Init PROVE Shared!Init
    OBVIOUS
  <2>1. \A m \in Managers : Holders(m) = {} /\ Phase(m) = "unused"
    BY DEF Init, Holders, Phase, BeingClosed
  <2> QED BY <2>1 DEF Shared!Init, Using, Phases
<1>2. IInv /\ [Next]_vars => [Shared!Next]_<<Using, Phases>>
  BY SharesStep
<1> QED
  BY <1>1, <1>2, RegistryInvariant, PTL DEF Spec, SharesOneSession, Shared!Spec
=============================================================================
