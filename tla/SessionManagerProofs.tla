------------------------ MODULE SessionManagerProofs ------------------------
(***************************************************************************)
(* Proofs about SessionManager, for any sets of ids, objects, goroutines   *)
(* and transactions. The types and the active session are proved whether   *)
(* or not the window may close while a Connect is in flight; who owns      *)
(* handles, catalogs and transactions, only if it may not.                 *)
(***************************************************************************)
EXTENDS SessionManager, TLAPS

(* What a call in flight holds: an id from its first step to its return,    *)
(* and a Session pointer except while a Disconnect has yet to look it up.   *)
NoCallPCs == {"idle", "exit", "exited"}

CallOK ==
    \A t \in Threads :
        /\ pc[t] \notin NoCallPCs => cid[t] \in Ids
        /\ pc[t] \notin NoCallPCs \union {"disc"} => cobj[t] \in Objs

TInv == TypeOK /\ CallOK

USE DEF Threads

(* A record update keeps a Session a Session.                              *)
LEMMA NewSessionType ==
  NewSession \in Session /\ [NewSession EXCEPT !.state = "UNUSED"] \in Session
<1>1. NewSession = [state |-> "CONNECTING", db |-> "none", connStr |-> FALSE,
                    catalog |-> FALSE, catalogErr |-> FALSE, tx |-> NoTx]
  BY DEF NewSession
<1>2. NewSession \in Session
  BY <1>1 DEF Session, States
<1>3. QED BY <1>2 DEF Session, States

(* Updating one Session of the function of all of them.                    *)
LEMMA FieldUpdate ==
  ASSUME NEW s \in Session, NEW b \in BOOLEAN, NEW x \in Txs \union {NoTx},
         NEW v \in States, NEW d \in {"none", "open", "closed"}
  PROVE  /\ [s EXCEPT !.state = v] \in Session
         /\ [s EXCEPT !.db = d] \in Session
         /\ [s EXCEPT !.connStr = b] \in Session
         /\ [s EXCEPT !.catalog = b] \in Session
         /\ [s EXCEPT !.catalogErr = b] \in Session
         /\ [s EXCEPT !.tx = x] \in Session
         /\ [s EXCEPT !.db = d, !.connStr = b, !.state = v] \in Session
BY DEF Session

(* Setting one Session to a Session leaves them all Sessions.              *)
LEMMA SetSessionType ==
  ASSUME ses \in [Objs -> Session], NEW o, NEW s \in Session, SetSession(o, s)
  PROVE  ses' \in [Objs -> Session]
BY DEF SetSession

(* No session is registered and no call in flight at the start.            *)
LEMMA InitTInv == Init => TInv
<1> SUFFICES ASSUME Init PROVE TInv
  OBVIOUS
<1>1. TypeOK
  BY NewSessionType DEF Init, TypeOK, PCs
<1>2. CallOK
  BY DEF Init, CallOK, NoCallPCs
<1>3. QED BY <1>1, <1>2 DEF TInv

(* The steps of Connect keep the types (manager.go:82-161).                *)
LEMMA ConnectTInv ==
  ASSUME TInv, NEW w \in Workers, NEW id \in Ids,
         ConnectRegister(w, id) \/ ConnectStep(w)
  PROVE  TInv'
<1> USE ConstantsAssumption
    DEF TInv, CallOK, NoCallPCs, TypeOK, registry, resources, exit, calls,
        Enter, Goto, Return, Registered
<1>1. CASE ConnectRegister(w, id)
  <2>1. PICK o \in Objs :
           /\ SetSession(o, NewSession)
           /\ sessions' = [sessions EXCEPT ![id] = o]
           /\ Enter(w, "dial", id, o)
    BY <1>1 DEF ConnectRegister
  <2>2. ses' \in [Objs -> Session]
    BY <2>1, NewSessionType, SetSessionType
  <2>3. QED
    BY <1>1, <2>1, <2>2 DEF ConnectRegister, PCs, ConnectPCs
<1>2. CASE DialFails(w)
  BY <1>2 DEF DialFails, PCs, ConnectPCs
<1>3. CASE ConnectError(w)
  <2>1. \A o \in Objs : [ses[o] EXCEPT !.state = "ERROR"] \in Session
    BY FieldUpdate DEF States
  <2>2. ses' \in [Objs -> Session]
    BY <1>3, <2>1 DEF ConnectError
  <2>3. QED
    BY <1>3, <2>2 DEF ConnectError, PCs, DisconnectPCs
<1>4. CASE ConnectPublish(w)
  <2>1. ses' \in [Objs -> Session]
    BY <1>4, FieldUpdate, SetSessionType DEF ConnectPublish, States
  <2>2. QED
    BY <1>4, <2>1 DEF ConnectPublish, PCs, UIPCs
<1>5. QED BY <1>1, <1>2, <1>3, <1>4 DEF ConnectStep

(* The steps of Disconnect keep them (manager.go:185-222).                 *)
LEMMA DisconnectTInv ==
  ASSUME TInv, NEW t \in Threads, DisconnectStep(t)
  PROVE  TInv'
<1> USE ConstantsAssumption
    DEF TInv, CallOK, NoCallPCs, TypeOK, registry, resources, exit,
        Goto, Return, PCs, DisconnectPCs, UIPCs
<1>1. CASE DisconnectRemove(t)
  BY <1>1 DEF DisconnectRemove, Registered, Session
<1>2. CASE DisconnectClearConnStr(t)
  <2>1. ses' \in [Objs -> Session]
    BY <1>2, FieldUpdate, SetSessionType DEF DisconnectClearConnStr, States
  <2>2. QED
    BY <1>2, <2>1 DEF DisconnectClearConnStr
<1>3. CASE DisconnectActive(t)
  BY <1>3 DEF DisconnectActive, RegisteredIds
<1>4. CASE DisconnectRollback(t)
  BY <1>4 DEF DisconnectRollback
<1>5. CASE DisconnectCatalog(t)
  <2>1. ses' \in [Objs -> Session]
    BY <1>5, FieldUpdate, SetSessionType DEF DisconnectCatalog, States
  <2>2. QED
    BY <1>5, <2>1 DEF DisconnectCatalog
<1>6. CASE DisconnectDB(t)
  <2>1. cobj[t] \in Objs
    BY <1>6 DEF DisconnectDB
  <2>2. Closed(ses[cobj[t]].db) \in {"none", "open", "closed"}
    BY <2>1 DEF Closed, Session
  <2> DEFINE s == ses[cobj[t]]
             d == Closed(s.db)
  <2>3. [s EXCEPT !.db = d] \in Session
    <3>1. s \in Session /\ d \in {"none", "open", "closed"}
      BY <2>1, <2>2
    <3> HIDE DEF s, d
    <3>2. QED BY <3>1, FieldUpdate DEF States
  <2>4. ses' \in [Objs -> Session]
    BY <1>6, <2>3, SetSessionType DEF DisconnectDB
  <2>5. QED
    BY <1>6, <2>4 DEF DisconnectDB
<1>7. QED
  BY <1>1, <1>2, <1>3, <1>4, <1>5, <1>6, DisconnectStep(t) DEF DisconnectStep

(* So do those of a metadata call (catalog.go:50-80).                      *)
LEMMA MetadataTInv ==
  ASSUME TInv, NEW w \in Workers, NEW id \in Ids,
         MetadataStart(w, id) \/ RefreshStart(w, id) \/ MetadataStep(w)
  PROVE  TInv'
<1> USE ConstantsAssumption
    DEF TInv, CallOK, NoCallPCs, TypeOK, registry, resources, exit,
        Enter, Goto, Return, Registered, PCs, CatalogPCs, UIPCs
<1>1. CASE MetadataStart(w, id)
  BY <1>1 DEF MetadataStart
<1>2. CASE RefreshStart(w, id)
  BY <1>2 DEF RefreshStart
<1>3. CASE RefreshRetry(w)
  <2>1. ses' \in [Objs -> Session]
    BY <1>3, FieldUpdate, SetSessionType DEF RefreshRetry, States
  <2>2. QED
    BY <1>3, <2>1 DEF RefreshRetry
<1>4. CASE RefreshLookup(w)
  BY <1>4 DEF RefreshLookup
<1>5. CASE CatalogUnavailable(w)
  BY <1>5 DEF CatalogUnavailable
<1>6. CASE CatalogEnter(w)
  BY <1>6 DEF CatalogEnter
<1>7. CASE CatalogOpened(w)
  <2>1. ses' \in [Objs -> Session]
    BY <1>7, FieldUpdate, SetSessionType DEF CatalogOpened, States
  <2>2. QED
    BY <1>7, <2>1 DEF CatalogOpened
<1>8. CASE CatalogOpenFails(w)
  <2>1. ses' \in [Objs -> Session]
    BY <1>8, FieldUpdate, SetSessionType DEF CatalogOpenFails, States
  <2>2. QED
    BY <1>8, <2>1 DEF CatalogOpenFails
<1>9. CASE CatalogDone(w)
  BY <1>9 DEF CatalogDone
<1>10. QED
  BY <1>1, <1>2, <1>3, <1>4, <1>5, <1>6, <1>7, <1>8, <1>9 DEF MetadataStep

(* And the commands of the UI thread and the exit (manager.go:248-297).    *)
LEMMA UITInv ==
  ASSUME TInv, UIStart \/ UIStep \/ ExitStep
  PROVE  TInv'
<1> USE ConstantsAssumption
    DEF TInv, CallOK, NoCallPCs, TypeOK, registry, resources, exit, calls,
        Enter, Goto, Return, Registered, PCs, DisconnectPCs, UIPCs,
        HasActive, Active
<1>1. ASSUME NEW id \in Ids, SetActiveSession(id) PROVE TInv'
  BY <1>1 DEF SetActiveSession
<1>2. CASE DisconnectCommand
  BY <1>2 DEF DisconnectCommand
<1>3. CASE EndTx
  BY <1>3 DEF EndTx
<1>4. CASE CachedDBInfo
  BY <1>4 DEF CachedDBInfo
<1>5. CASE Exit
  BY <1>5 DEF Exit, RegisteredIds
<1>6. ASSUME NEW x \in Txs, BeginTx(x) PROVE TInv'
  BY <1>6 DEF BeginTx
<1>7. CASE BeginTxSet
  <2>1. ses' \in [Objs -> Session]
    BY <1>7, FieldUpdate, SetSessionType DEF BeginTxSet, States
  <2>2. QED
    BY <1>7, <2>1 DEF BeginTxSet
<1>8. CASE EndTxClear
  <2>1. ses' \in [Objs -> Session]
    BY <1>8, FieldUpdate, SetSessionType DEF EndTxClear, States
  <2>2. QED
    BY <1>8, <2>1 DEF EndTxClear
<1>9. CASE CachedDBInfoRead
  BY <1>9 DEF CachedDBInfoRead
<1>10. CASE ExitDone
  BY <1>10 DEF ExitDone
<1>11. ASSUME NEW id \in Ids, ExitDisconnect(id) PROVE TInv'
  BY <1>11 DEF ExitDisconnect
<1>12. QED
  BY <1>1, <1>2, <1>3, <1>4, <1>5, <1>6, <1>7, <1>8, <1>9, <1>10, <1>11
     DEF UIStart, UIStep, ExitStep

(* A call in flight holds the id it was started with.                      *)
LEMMA CallHasId ==
  ASSUME TInv, NEW w \in Workers, ConnectStep(w) \/ MetadataStep(w)
  PROVE  cid[w] \in Ids
BY DEF TInv, CallOK, NoCallPCs, ConnectStep, MetadataStep, DialFails,
       ConnectError, ConnectPublish, RefreshRetry, RefreshLookup,
       CatalogUnavailable, CatalogEnter, CatalogOpened, CatalogOpenFails,
       CatalogDone

(* Every step keeps the types.                                             *)
LEMMA NextTInv == TInv /\ [Next]_vars => TInv'
<1> SUFFICES ASSUME TInv, [Next]_vars PROVE TInv'
  OBVIOUS
<1>1. ASSUME NEW w \in Workers, ConnectStep(w) \/ MetadataStep(w) PROVE TInv'
  <2>1. cid[w] \in Ids
    BY <1>1, CallHasId
  <2>2. QED BY <1>1, <2>1, ConnectTInv, MetadataTInv
<1>2. ASSUME NEW t \in Threads, DisconnectStep(t) PROVE TInv'
  BY <1>2, DisconnectTInv
<1>3. ASSUME NEW w \in Workers, NEW id \in Ids, WorkerStart(w, id) PROVE TInv'
  BY <1>3, ConnectTInv, MetadataTInv DEF WorkerStart
<1>4. CASE UIStep \/ ExitStep \/ UIStart
  BY <1>4, UITInv
<1>5. CASE Exited \/ UNCHANGED vars
  BY <1>5 DEF Exited, vars, TInv, TypeOK, CallOK
<1>6. QED BY <1>1, <1>2, <1>3, <1>4, <1>5 DEF Next

(* Every variable keeps its type, in every behaviour and for every value   *)
(* of the constants (the state of Manager and Session, types.go:21-71).    *)
THEOREM TypeInvariant == Spec => []TypeOK
<1>1. Spec => []TInv
  BY InitTInv, NextTInv, PTL DEF Spec
<1>2. TInv => TypeOK
  BY DEF TInv
<1>3. QED BY <1>1, <1>2, PTL

-----------------------------------------------------------------------------
(* The active session                                                      *)

AInv == ActiveIsRegistered /\ SomeSessionActive

(* A Disconnect that has removed its session has yet to choose the active  *)
(* one.                                                                    *)
RemovedPCs == {"discConnStr", "discActive"}

KeepsDisconnects ==
    \A t \in Threads :
        pc[t] \in RemovedPCs => pc'[t] \in RemovedPCs /\ cid'[t] = cid[t]

(* A step that touches neither the map nor activeID keeps AInv as long as  *)
(* no Disconnect between its two critical sections is cut off.             *)
LEMMA AInvFrame ==
  ASSUME AInv, UNCHANGED registry, KeepsDisconnects
  PROVE  AInv'
BY DEF AInv, ActiveIsRegistered, SomeSessionActive, Registered, RegisteredIds,
       Disconnecting, registry, KeepsDisconnects, RemovedPCs

(* Metadata calls and the end of a Connect leave the registry alone.       *)
LEMMA WorkerKeeps ==
  ASSUME TInv, NEW w \in Workers, NEW id \in Ids,
         \/ ConnectStep(w) \/ MetadataStep(w)
         \/ MetadataStart(w, id) \/ RefreshStart(w, id)
  PROVE  KeepsDisconnects /\ UNCHANGED registry
<1> USE ConstantsAssumption
    DEF TInv, TypeOK, KeepsDisconnects, RemovedPCs, Enter, Goto, Return,
        registry
<1>1. CASE ConnectStep(w)
  BY <1>1 DEF ConnectStep, DialFails, ConnectError, ConnectPublish
<1>2. CASE MetadataStep(w)
  BY <1>2 DEF MetadataStep, RefreshRetry, RefreshLookup, CatalogUnavailable,
              CatalogEnter, CatalogOpened, CatalogOpenFails, CatalogDone
<1>3. CASE MetadataStart(w, id) \/ RefreshStart(w, id)
  BY <1>3 DEF MetadataStart, RefreshStart
<1>4. QED BY <1>1, <1>2, <1>3

(* No step of the UI thread cuts a Disconnect off.                         *)
LEMMA UIKeeps ==
  ASSUME TInv, UIStart \/ UIStep \/ ExitStep
  PROVE  KeepsDisconnects
<1> USE ConstantsAssumption
    DEF TInv, TypeOK, KeepsDisconnects, RemovedPCs, Enter, Goto, Return,
        calls, UIIdle
<1>1. CASE UIStart
  BY <1>1 DEF UIStart, SetActiveSession, DisconnectCommand, EndTx,
              CachedDBInfo, Exit, BeginTx
<1>2. CASE UIStep \/ ExitStep
  BY <1>2 DEF UIStep, ExitStep, BeginTxSet, EndTxClear, CachedDBInfoRead,
              ExitDone, ExitDisconnect
<1>3. QED BY <1>1, <1>2

(* Connect registers its session and, when none is active, activates it.   *)
LEMMA ConnectRegisterAInv ==
  ASSUME TInv, AInv, NEW w \in Workers, NEW id \in Ids, ConnectRegister(w, id)
  PROVE  AInv'
<1> USE ConstantsAssumption DEF TInv, TypeOK
<1>1. PICK o \in Objs : /\ sessions' = [sessions EXCEPT ![id] = o]
                        /\ Enter(w, "dial", id, o)
  BY DEF ConnectRegister
<1>2. KeepsDisconnects
  BY <1>1 DEF ConnectRegister, KeepsDisconnects, RemovedPCs, Enter
<1>3. \A i \in Ids : Registered(i) \/ i = id => Registered(i)'
  BY <1>1 DEF Registered
<1>4. activeID' \in Ids
  BY DEF ConnectRegister
<1>5. activeID = activeID' \/ activeID' = id
  BY DEF ConnectRegister
<1>6. Registered(activeID)' \/ Disconnecting(activeID)'
  <2>1. CASE activeID' = id
    BY <2>1, <1>3 DEF Registered
  <2>2. CASE activeID' = activeID /\ Registered(activeID)
    BY <2>2, <1>3, <1>4 DEF Registered
  <2>3. CASE activeID' = activeID /\ Disconnecting(activeID)
    BY <2>3, <1>2 DEF Disconnecting, KeepsDisconnects, RemovedPCs
  <2>4. QED
    BY <2>1, <2>2, <2>3, <1>4, <1>5 DEF AInv, ActiveIsRegistered
<1>7. QED
  BY <1>4, <1>6 DEF AInv, ActiveIsRegistered, SomeSessionActive

(* Disconnect takes a session out of the map; if it was the active one its *)
(* own call now stands for it until the third critical section, which      *)
(* picks another registered session, or none when there is none.           *)
LEMMA DisconnectAInv ==
  ASSUME TInv, AInv, NEW t \in Threads, DisconnectStep(t)
  PROVE  AInv'
<1> USE ConstantsAssumption DEF TInv, TypeOK
<1>1. CASE DisconnectRemove(t)
  <2>1. CASE ~Registered(cid[t])
    <3>1. KeepsDisconnects /\ UNCHANGED registry
      BY <1>1, <2>1 DEF DisconnectRemove, KeepsDisconnects, RemovedPCs, Return,
                        registry
    <3>2. QED BY <3>1, AInvFrame
  <2>2. CASE Registered(cid[t])
    <3>1. /\ pc' = [pc EXCEPT ![t] = "discConnStr"]
          /\ sessions' = [sessions EXCEPT ![cid[t]] = NoObj]
          /\ UNCHANGED <<cid, activeID>>
          /\ pc[t] = "disc"
      BY <1>1, <2>2 DEF DisconnectRemove
    <3>2. cid[t] \in Ids
      BY <3>1 DEF CallOK, NoCallPCs
    <3>3. KeepsDisconnects
      BY <3>1 DEF KeepsDisconnects, RemovedPCs
    <3>4. Disconnecting(cid[t])'
      BY <3>1 DEF Disconnecting
    <3>5. ActiveIsRegistered'
      BY <3>1, <3>3, <3>4 DEF AInv, ActiveIsRegistered, Registered,
         Disconnecting, KeepsDisconnects, RemovedPCs
    <3>6. activeID # NoId
      BY <2>2, <3>2 DEF AInv, SomeSessionActive, RegisteredIds
    <3>7. QED
      BY <3>1, <3>5, <3>6 DEF AInv, SomeSessionActive
  <2>3. QED BY <2>1, <2>2
<1>2. CASE DisconnectActive(t)
  <2>1. /\ pc[t] = "discActive"
        /\ pc' = [pc EXCEPT ![t] = "discRelease"]
        /\ UNCHANGED <<sessions, cid>>
    BY <1>2 DEF DisconnectActive, Goto
  <2>2. CASE activeID # cid[t]
    <3>1. UNCHANGED activeID
      BY <1>2, <2>2 DEF DisconnectActive
    <3>2. Disconnecting(activeID) => Disconnecting(activeID)'
      BY <2>1, <2>2, <3>1 DEF Disconnecting
    <3>3. QED
      BY <2>1, <3>1, <3>2 DEF AInv, ActiveIsRegistered, SomeSessionActive,
         Registered, RegisteredIds
  <2>3. CASE activeID = cid[t]
    <3>1. activeID' \in IF RegisteredIds = {} THEN {NoId} ELSE RegisteredIds
      BY <1>2, <2>3 DEF DisconnectActive
    <3>2. RegisteredIds' = RegisteredIds
      BY <2>1 DEF RegisteredIds, Registered
    <3>3. QED
      BY <2>1, <3>1, <3>2 DEF AInv, ActiveIsRegistered, SomeSessionActive,
         RegisteredIds, Registered
  <2>4. QED BY <2>2, <2>3
<1>3. CASE \/ DisconnectClearConnStr(t) \/ DisconnectRollback(t)
           \/ DisconnectCatalog(t) \/ DisconnectDB(t)
  <2>1. KeepsDisconnects /\ UNCHANGED registry
    BY <1>3 DEF DisconnectClearConnStr, DisconnectRollback, DisconnectCatalog,
       DisconnectDB, KeepsDisconnects, RemovedPCs, Goto, Return, registry
  <2>2. QED BY <2>1, AInvFrame
<1>4. QED BY <1>1, <1>2, <1>3, DisconnectStep(t) DEF DisconnectStep

(* SetActiveSession only takes a registered id (manager.go:62-70).         *)
LEMMA UIAInv ==
  ASSUME TInv, AInv, UIStart \/ UIStep \/ ExitStep
  PROVE  AInv'
<1>1. KeepsDisconnects
  BY UIKeeps
<1>2. ASSUME NEW id \in Ids, SetActiveSession(id) PROVE AInv'
  BY <1>2, ConstantsAssumption
     DEF SetActiveSession, AInv, ActiveIsRegistered, SomeSessionActive,
         Registered, RegisteredIds
<1>3. CASE UNCHANGED registry
  BY <1>1, <1>3, AInvFrame
<1>4. (\E id \in Ids : SetActiveSession(id)) \/ UNCHANGED registry
  BY DEF UIStart, UIStep, ExitStep, DisconnectCommand, EndTx, CachedDBInfo,
         Exit, BeginTx, BeginTxSet, EndTxClear, CachedDBInfoRead, ExitDone,
         ExitDisconnect, registry
<1>5. QED BY <1>2, <1>3, <1>4

(* Every step keeps the active session right.                              *)
LEMMA NextAInv == TInv /\ AInv /\ [Next]_vars => AInv'
<1> SUFFICES ASSUME TInv, AInv, [Next]_vars PROVE AInv'
  OBVIOUS
<1>1. ASSUME NEW w \in Workers, ConnectStep(w) \/ MetadataStep(w) PROVE AInv'
  <2>1. cid[w] \in Ids
    BY <1>1, CallHasId
  <2>2. QED BY <1>1, <2>1, WorkerKeeps, AInvFrame
<1>2. ASSUME NEW t \in Threads, DisconnectStep(t) PROVE AInv'
  BY <1>2, DisconnectAInv
<1>3. ASSUME NEW w \in Workers, NEW id \in Ids, WorkerStart(w, id) PROVE AInv'
  BY <1>3, ConnectRegisterAInv, WorkerKeeps, AInvFrame DEF WorkerStart
<1>4. CASE UIStep \/ ExitStep \/ UIStart
  BY <1>4, UIAInv
<1>5. CASE Exited \/ UNCHANGED vars
  <2>1. KeepsDisconnects /\ UNCHANGED registry
    BY <1>5 DEF Exited, vars, KeepsDisconnects, registry
  <2>2. QED BY <2>1, AInvFrame
<1>6. QED BY <1>1, <1>2, <1>3, <1>4, <1>5 DEF Next

(* At the start there is neither a session nor an active id.               *)
LEMMA InitAInv == Init => AInv
BY ConstantsAssumption
   DEF Init, AInv, ActiveIsRegistered, SomeSessionActive, RegisteredIds, Registered

(* However Connects, Disconnects and choices of the user interleave, the   *)
(* active id always names a registered session or one whose Disconnect is  *)
(* about to replace it (manager.go:105-123, 186-209).                      *)
THEOREM ActiveIsAlwaysRegistered == Spec => []ActiveIsRegistered
<1>1. Spec => [](TInv /\ AInv)
  BY InitTInv, NextTInv, InitAInv, NextAInv, PTL DEF Spec
<1>2. AInv => ActiveIsRegistered
  BY DEF AInv
<1>3. QED BY <1>1, <1>2, PTL

(* And the Manager never has a registered session but no active one.       *)
THEOREM SomeSessionIsAlwaysActive == Spec => []SomeSessionActive
<1>1. Spec => [](TInv /\ AInv)
  BY InitTInv, NextTInv, InitAInv, NextAInv, PTL DEF Spec
<1>2. AInv => SomeSessionActive
  BY DEF AInv
<1>3. QED BY <1>1, <1>2, PTL

-----------------------------------------------------------------------------
(* Nothing a session holds is ever lost: whoever interleaves, an open      *)
(* database handle, a native catalog connection and an open transaction    *)
(* belong to a registered Session or to a Disconnect that still has to     *)
(* release them.                                                           *)
(*                                                                         *)
(* The theorems assume that the window is not closed while a Connect is in *)
(* flight (ExitWhileConnecting = FALSE): without that they are false, as   *)
(* the run exit_while_connecting shows.                                    *)
(*                                                                         *)
(* The argument is about claims on an id.  A Connect that has registered   *)
(* its session, a Disconnect that has yet to take it out of the map and a  *)
(* BeginTx that has yet to store its transaction each rely on the id       *)
(* keeping its object.  No two of them ever claim the same id: the user    *)
(* can disconnect a session, or begin on one, only when it has a database  *)
(* handle, and a session that is connecting or has failed has none.        *)

USE DEF Threads

(* The points at which a Disconnect holds the Session it took out of the   *)
(* map, and those at which a call relies on its id keeping its object.     *)
HoldPCs == DisconnectPCs \ {"disc"}
ClaimPCs == ConnectPCs \union {"disc", "txSet"}

(* Connect and metadata calls run on workers, transactions and the exit on *)
(* the UI thread, which starts no command once the window closes.          *)
Roles ==
    /\ pc[UI] \notin ConnectPCs \union CatalogPCs
    /\ \A w \in Workers : pc[w] \notin UIPCs
    /\ exiting => pc[UI] \notin {"idle", "txSet", "txClear", "infoWait"}
    /\ ~exiting => pc[UI] \notin {"exit", "exited"}

(* Every step keeps the division of labour between workers and UI thread   *)
(* (the callers of the Manager in walk_windows.go).                        *)
LEMMA RolesStep ==
  ASSUME TInv, Roles, Next
  PROVE  Roles'
<1> USE ConstantsAssumption
    DEF TInv, TypeOK, Roles, ConnectPCs, CatalogPCs, UIPCs, DisconnectPCs,
        exit, calls, Enter, Goto, Return
<1>1. ASSUME NEW w \in Workers, ConnectStep(w) PROVE Roles'
  BY <1>1 DEF ConnectStep, DialFails, ConnectError, ConnectPublish
<1>2. ASSUME NEW w \in Workers, MetadataStep(w) PROVE Roles'
  BY <1>2 DEF MetadataStep, RefreshRetry, RefreshLookup, CatalogUnavailable,
              CatalogEnter, CatalogOpened, CatalogOpenFails, CatalogDone
<1>3. ASSUME NEW t \in Threads, DisconnectStep(t) PROVE Roles'
  BY <1>3 DEF DisconnectStep, DisconnectRemove, DisconnectClearConnStr,
              DisconnectActive, DisconnectRollback, DisconnectCatalog,
              DisconnectDB
<1>4. ASSUME NEW w \in Workers, NEW id \in Ids, WorkerStart(w, id)
      PROVE  Roles'
  BY <1>4 DEF WorkerStart, ConnectRegister, MetadataStart, RefreshStart
<1>5. CASE UIStep
  BY <1>5 DEF UIStep, BeginTxSet, EndTxClear, CachedDBInfoRead
<1>6. CASE ExitStep
  BY <1>6 DEF ExitStep, ExitDone, ExitDisconnect
<1>7. CASE UIStart
  BY <1>7 DEF UIStart, SetActiveSession, DisconnectCommand, EndTx, CachedDBInfo,
              BeginTx, Exit, UIIdle
<1>8. CASE Exited
  BY <1>8 DEF Exited, vars
<1>9. QED BY <1>1, <1>2, <1>3, <1>4, <1>5, <1>6, <1>7, <1>8 DEF Next

(* An object is registered under one id at most, and one that was never    *)
(* handed out is neither registered nor held by a call.                    *)
Objects ==
    /\ \A i, j \in Ids : Registered(i) /\ sessions[i] = sessions[j] => i = j
    /\ \A o \in Objs : ses[o].state = "UNUSED" =>
         ~Live(o) /\ \A t \in Threads : cobj[t] # o

(* A step that leaves the map alone and takes pointers only from it keeps  *)
(* Objects.                                                                *)
LEMMA ObjectsFrame ==
  ASSUME TypeOK, Objects, UNCHANGED sessions,
         \A o \in Objs : ses'[o].state = "UNUSED" => ses[o].state = "UNUSED",
         \A t \in Threads : \/ cobj'[t] \in {cobj[t], NoObj}
                            \/ \E id \in Ids : cobj'[t] = sessions[id]
  PROVE  Objects'
BY ConstantsAssumption DEF TypeOK, Objects, Registered, Live

(* Every step keeps Objects: only Connect hands an object out, and only a  *)
(* fresh one (manager.go:112-119).                                         *)
LEMMA ObjectsStep ==
  ASSUME TInv, Objects, Next
  PROVE  Objects'
<1> USE ConstantsAssumption
    DEF TInv, CallOK, NoCallPCs, TypeOK, registry, resources, exit, calls,
        Enter, Goto, Return, SetSession, Session
<1>1. ASSUME NEW w \in Workers, ConnectStep(w) PROVE Objects'
  <2>1. CASE ConnectError(w)
    BY <2>1, ObjectsFrame DEF ConnectError
  <2>2. CASE DialFails(w)
    BY <2>2, ObjectsFrame DEF DialFails
  <2>3. CASE ConnectPublish(w)
    BY <2>3, ObjectsFrame DEF ConnectPublish
  <2>4. QED BY <1>1, <2>1, <2>2, <2>3 DEF ConnectStep
<1>2. ASSUME NEW w \in Workers, MetadataStep(w) PROVE Objects'
  BY <1>2, ObjectsFrame
     DEF MetadataStep, RefreshRetry, RefreshLookup, CatalogUnavailable,
         CatalogEnter, CatalogOpened, CatalogOpenFails, CatalogDone
<1>3. ASSUME NEW t \in Threads, DisconnectStep(t) PROVE Objects'
  <2>1. CASE DisconnectRemove(t)
    BY <2>1 DEF DisconnectRemove, Objects, Live, Registered
  <2>2. CASE ~DisconnectRemove(t)
    BY <1>3, <2>2, ObjectsFrame
       DEF DisconnectStep, DisconnectClearConnStr, DisconnectActive,
           DisconnectRollback, DisconnectCatalog, DisconnectDB
  <2>3. QED BY <2>1, <2>2
<1>4. ASSUME NEW w \in Workers, NEW id \in Ids, WorkerStart(w, id)
      PROVE  Objects'
  <2>1. CASE ConnectRegister(w, id)
    BY <2>1 DEF ConnectRegister, Objects, Live, Registered, NewSession
  <2>2. CASE MetadataStart(w, id) \/ RefreshStart(w, id)
    BY <2>2, ObjectsFrame DEF MetadataStart, RefreshStart
  <2>3. QED BY <1>4, <2>1, <2>2 DEF WorkerStart
<1>5. CASE UIStep
  BY <1>5, ObjectsFrame DEF UIStep, BeginTxSet, EndTxClear, CachedDBInfoRead
<1>6. CASE ExitStep
  BY <1>6, ObjectsFrame DEF ExitStep, ExitDone, ExitDisconnect
<1>7. CASE UIStart
  BY <1>7, ObjectsFrame DEF UIStart, SetActiveSession, DisconnectCommand, EndTx,
              Exit, CachedDBInfo, BeginTx, UIIdle, HasActive, Active
<1>8. CASE Exited
  BY <1>8, ObjectsFrame DEF Exited, vars
<1>9. QED BY <1>1, <1>2, <1>3, <1>4, <1>5, <1>6, <1>7, <1>8 DEF Next

(* Claims on an id are exclusive until the window closes; the session a    *)
(* worker claims has no database handle yet; a Connect or BeginTx in       *)
(* flight has its own object registered.                                   *)
Claims ==
    /\ \A t \in Threads : pc[t] \in ClaimPCs /\ ~exiting =>
          /\ Registered(cid[t])
          /\ \A u \in Threads : pc[u] \in ClaimPCs /\ cid[u] = cid[t] => u = t
    /\ \A w \in Workers :
          pc[w] \in ClaimPCs /\ ~exiting => ses[sessions[cid[w]]].db = "none"
    /\ \A t \in Threads :
          pc[t] \in ConnectPCs \union {"txSet"} /\ ~exiting =>
             sessions[cid[t]] = cobj[t]

(* A step that leaves the map alone, opens no handle and enters no claim   *)
(* keeps Claims.                                                           *)
LEMMA ClaimsFrame ==
  ASSUME TInv, Claims, UNCHANGED sessions, exiting => exiting',
         \A o \in Objs : ses[o].db = "none" => ses'[o].db = "none",
         ~exiting' => \A t \in Threads :
           /\ pc'[t] \in ClaimPCs => pc[t] \in ClaimPCs /\ cid'[t] = cid[t]
           /\ pc'[t] \in ConnectPCs \union {"txSet"} =>
                pc[t] \in ConnectPCs \union {"txSet"} /\ cobj'[t] = cobj[t]
  PROVE  Claims'
<1> USE DEF TInv, TypeOK, CallOK, NoCallPCs, Claims, Registered, ClaimPCs,
            ConnectPCs
<1>1. CASE exiting'
  BY <1>1
<1>2. CASE ~exiting'
  BY <1>2
<1>3. QED BY <1>1, <1>2

(* Every step keeps the claims exclusive: Connect takes an unregistered    *)
(* id, and the UI thread only acts on a session with a handle.             *)
LEMMA ClaimsStep ==
  ASSUME TInv, Roles, Objects, Claims, Next
  PROVE  Claims'
<1> USE ConstantsAssumption
    DEF TInv, CallOK, NoCallPCs, TypeOK, registry, resources, exit, calls,
        Enter, Goto, Return, SetSession, Session, ClaimPCs, ConnectPCs,
        DisconnectPCs, UIPCs, CatalogPCs, Roles
<1>1. ASSUME NEW w \in Workers, ConnectStep(w) PROVE Claims'
  <2>1. CASE ConnectError(w)
    BY <2>1, ClaimsFrame DEF ConnectError
  <2>2. CASE DialFails(w)
    BY <2>2, ClaimsFrame DEF DialFails
  <2>3. CASE ConnectPublish(w)
    BY <2>3 DEF ConnectPublish, Claims, Objects, Registered
  <2>4. QED BY <1>1, <2>1, <2>2, <2>3 DEF ConnectStep
<1>2. ASSUME NEW w \in Workers, MetadataStep(w) PROVE Claims'
  BY <1>2, ClaimsFrame
     DEF MetadataStep, RefreshRetry, RefreshLookup, CatalogUnavailable,
         CatalogEnter, CatalogOpened, CatalogOpenFails, CatalogDone
<1>3. ASSUME NEW t \in Threads, DisconnectStep(t) PROVE Claims'
  <2>1. CASE DisconnectRemove(t)
    BY <2>1 DEF DisconnectRemove, Claims, Objects, Registered
  <2>2. CASE DisconnectClearConnStr(t)
    BY <2>2, ClaimsFrame DEF DisconnectClearConnStr
  <2>3. CASE DisconnectActive(t)
    BY <2>3, ClaimsFrame DEF DisconnectActive
  <2>4. CASE DisconnectRollback(t)
    BY <2>4, ClaimsFrame DEF DisconnectRollback
  <2>5. CASE DisconnectCatalog(t)
    BY <2>5, ClaimsFrame DEF DisconnectCatalog
  <2>6. CASE DisconnectDB(t)
    BY <2>6, ClaimsFrame DEF DisconnectDB, Closed
  <2>7. QED BY <1>3, <2>1, <2>2, <2>3, <2>4, <2>5, <2>6 DEF DisconnectStep
<1>4. ASSUME NEW w \in Workers, NEW id \in Ids, WorkerStart(w, id)
      PROVE  Claims'
  <2>1. CASE ConnectRegister(w, id)
    BY <2>1 DEF ConnectRegister, Claims, Objects, Live, Registered, NewSession
  <2>2. CASE MetadataStart(w, id) \/ RefreshStart(w, id)
    BY <2>2, ClaimsFrame DEF MetadataStart, RefreshStart
  <2>3. QED BY <1>4, <2>1, <2>2 DEF WorkerStart
<1>5. CASE UIStep
  BY <1>5, ClaimsFrame DEF UIStep, BeginTxSet, EndTxClear, CachedDBInfoRead
<1>6. CASE ExitStep
  BY <1>6, ClaimsFrame DEF ExitStep, ExitDone, ExitDisconnect
<1>7. CASE UIStart
  <2>1. CASE DisconnectCommand
    BY <2>1 DEF DisconnectCommand, UIIdle, HasActive, Active, Claims, Registered
  <2>2. ASSUME NEW x \in Txs, BeginTx(x) PROVE Claims'
    BY <2>2 DEF BeginTx, UIIdle, HasActive, Active, Claims, Registered
  <2>3. CASE \/ \E id \in Ids : SetActiveSession(id)
             \/ EndTx \/ CachedDBInfo \/ Exit
    BY <2>3, ClaimsFrame DEF SetActiveSession, EndTx, Exit, CachedDBInfo,
             UIIdle, HasActive, Active
  <2>4. QED BY <1>7, <2>1, <2>2, <2>3 DEF UIStart
<1>8. CASE Exited
  BY <1>8, ClaimsFrame DEF Exited, vars
<1>9. QED BY <1>1, <1>2, <1>3, <1>4, <1>5, <1>6, <1>7, <1>8 DEF Next

(* No Connect is in flight once the window closes.                         *)
ConnectsOver == exiting => \A w \in Workers : pc[w] \notin ConnectPCs

(* Every step keeps it if the window waits for the Connects.               *)
LEMMA ConnectsOverStep ==
  ASSUME TInv, ConnectsOver, Next, ~ExitWhileConnecting
  PROVE  ConnectsOver'
<1> USE ConstantsAssumption
    DEF TInv, TypeOK, ConnectsOver, ConnectPCs, exit, calls, Enter, Goto, Return
<1>1. ASSUME NEW w \in Workers, ConnectStep(w) PROVE ConnectsOver'
  BY <1>1 DEF ConnectStep, DialFails, ConnectError, ConnectPublish
<1>2. ASSUME NEW w \in Workers, MetadataStep(w) PROVE ConnectsOver'
  BY <1>2 DEF MetadataStep, RefreshRetry, RefreshLookup, CatalogUnavailable,
              CatalogEnter, CatalogOpened, CatalogOpenFails, CatalogDone
<1>3. ASSUME NEW t \in Threads, DisconnectStep(t) PROVE ConnectsOver'
  BY <1>3 DEF DisconnectStep, DisconnectRemove, DisconnectClearConnStr,
              DisconnectActive, DisconnectRollback, DisconnectCatalog,
              DisconnectDB
<1>4. ASSUME NEW w \in Workers, NEW id \in Ids, WorkerStart(w, id)
      PROVE  ConnectsOver'
  BY <1>4 DEF WorkerStart, ConnectRegister, MetadataStart, RefreshStart
<1>5. CASE UIStep \/ ExitStep
  BY <1>5 DEF UIStep, BeginTxSet, EndTxClear, CachedDBInfoRead, ExitStep,
              ExitDone, ExitDisconnect
<1>6. CASE Exit
  <2>1. \A w \in Workers : cid[w] \in Ids => pc[w] \notin ConnectPCs
    BY <1>6 DEF Exit, Connecting
  <2>2. \A w \in Workers : pc[w] \notin ConnectPCs
    BY <2>1 DEF CallOK, NoCallPCs
  <2>3. QED BY <1>6, <2>2 DEF Exit
<1>7. CASE UIStart /\ ~Exit
  BY <1>7 DEF UIStart, SetActiveSession, DisconnectCommand, EndTx,
              CachedDBInfo, BeginTx, UIIdle
<1>8. CASE Exited
  BY <1>8 DEF Exited, vars
<1>9. QED BY <1>1, <1>2, <1>3, <1>4, <1>5, <1>6, <1>7, <1>8 DEF Next

(* NoHandleLeak, strengthened: the Disconnect that keeps the handle has    *)
(* already taken the Session out of the map.                               *)
HandleHeld ==
    \A o \in Objs : ses[o].db = "open" => Live(o) \/ Releasing(o, HoldPCs)

(* A step that leaves the map alone and opens no handle keeps HandleHeld   *)
(* while the Disconnects go on.                                            *)
LEMMA HandleFrame ==
  ASSUME TInv, HandleHeld, UNCHANGED sessions,
         \A o \in Objs : ses'[o].db = "open" => ses[o].db = "open",
         \A t \in Threads :
           pc[t] \in HoldPCs => pc'[t] \in HoldPCs /\ cobj'[t] = cobj[t]
  PROVE  HandleHeld'
BY DEF HandleHeld, Live, Releasing

(* Every step keeps every open handle with an owner (manager.go:148-158,   *)
(* 186-221).                                                               *)
LEMMA HandleStep ==
  ASSUME TInv, Roles, Objects, Claims, ConnectsOver, HandleHeld, Next
  PROVE  HandleHeld'
<1> USE ConstantsAssumption
    DEF TInv, CallOK, NoCallPCs, TypeOK, registry, resources, exit, calls,
        Enter, Goto, Return, SetSession, Session, HoldPCs, ConnectPCs,
        DisconnectPCs, UIPCs, CatalogPCs, Roles
<1>1. ASSUME NEW w \in Workers, ConnectStep(w) PROVE HandleHeld'
  <2>1. CASE ConnectError(w)
    BY <2>1, HandleFrame DEF ConnectError
  <2>2. CASE DialFails(w)
    BY <2>2, HandleFrame DEF DialFails
  <2>3. CASE ConnectPublish(w)
    <3>1. Live(cobj[w])
      BY <2>3 DEF ConnectPublish, Claims, ConnectsOver, Live
    <3>2. QED
      BY <2>3, <3>1 DEF ConnectPublish, HandleHeld, Live, Releasing
  <2>4. QED BY <1>1, <2>1, <2>2, <2>3 DEF ConnectStep
<1>2. ASSUME NEW w \in Workers, MetadataStep(w) PROVE HandleHeld'
  BY <1>2, HandleFrame
     DEF MetadataStep, RefreshRetry, RefreshLookup, CatalogUnavailable,
         CatalogEnter, CatalogOpened, CatalogOpenFails, CatalogDone
<1>3. ASSUME NEW t \in Threads, DisconnectStep(t) PROVE HandleHeld'
  <2>1. CASE DisconnectRemove(t)
    <3>1. CASE ~Registered(cid[t])
      BY <2>1, <3>1, HandleFrame DEF DisconnectRemove
    <3>2. CASE Registered(cid[t])
      <4>1. PICK r \in Objs : r = sessions[cid[t]]
        BY <2>1, <3>2 DEF DisconnectRemove, Registered
      <4>2. /\ Releasing(r, HoldPCs)'
            /\ \A o \in Objs \ {r} : Live(o) => Live(o)'
        BY <2>1, <3>2, <4>1 DEF DisconnectRemove, Releasing, Live
      <4>3. \A o \in Objs : Releasing(o, HoldPCs) => Releasing(o, HoldPCs)'
        BY <2>1, <3>2 DEF DisconnectRemove, Releasing
      <4>4. UNCHANGED ses
        BY <2>1 DEF DisconnectRemove
      <4>5. QED BY <4>2, <4>3, <4>4 DEF HandleHeld
    <3>3. QED BY <3>1, <3>2
  <2>2. CASE DisconnectDB(t)
    <3>1. PICK r \in Objs : r = cobj[t]
      BY <2>2 DEF DisconnectDB
    <3>2. /\ ses'[r].db # "open"
          /\ \A o \in Objs \ {r} : ses'[o] = ses[o]
      BY <2>2, <3>1 DEF DisconnectDB, Closed
    <3>3. \A o \in Objs : Live(o) => Live(o)'
      BY <2>2 DEF DisconnectDB, Live
    <3>4. \A o \in Objs \ {r} :
             Releasing(o, HoldPCs) => Releasing(o, HoldPCs)'
      BY <2>2, <3>1 DEF DisconnectDB, Releasing
    <3>5. QED BY <3>2, <3>3, <3>4 DEF HandleHeld
  <2>3. CASE DisconnectClearConnStr(t)
    BY <2>3, HandleFrame DEF DisconnectClearConnStr
  <2>4. CASE DisconnectActive(t)
    BY <2>4, HandleFrame DEF DisconnectActive
  <2>5. CASE DisconnectRollback(t)
    BY <2>5, HandleFrame DEF DisconnectRollback
  <2>6. CASE DisconnectCatalog(t)
    BY <2>6, HandleFrame DEF DisconnectCatalog
  <2>7. QED BY <1>3, <2>1, <2>2, <2>3, <2>4, <2>5, <2>6 DEF DisconnectStep
<1>4. ASSUME NEW w \in Workers, NEW id \in Ids, WorkerStart(w, id)
      PROVE  HandleHeld'
  <2>1. CASE ConnectRegister(w, id)
    BY <2>1 DEF ConnectRegister, HandleHeld, Live, Releasing, Registered,
                NewSession
  <2>2. CASE MetadataStart(w, id) \/ RefreshStart(w, id)
    BY <2>2, HandleFrame DEF MetadataStart, RefreshStart
  <2>3. QED BY <1>4, <2>1, <2>2 DEF WorkerStart
<1>5. CASE UIStep
  BY <1>5, HandleFrame DEF UIStep, BeginTxSet, EndTxClear, CachedDBInfoRead
<1>6. CASE ExitStep
  BY <1>6, HandleFrame DEF ExitStep, ExitDone, ExitDisconnect
<1>7. CASE UIStart
  BY <1>7, HandleFrame DEF UIStart, SetActiveSession, DisconnectCommand,
           BeginTx, EndTx, Exit, CachedDBInfo, UIIdle
<1>8. CASE Exited
  BY <1>8, HandleFrame DEF Exited, vars
<1>9. QED BY <1>1, <1>2, <1>3, <1>4, <1>5, <1>6, <1>7, <1>8 DEF Next

(* Object o is registered, or a Disconnect holds it at one of pcs.         *)
Kept(o, pcs) == Live(o) \/ Releasing(o, pcs)

(* Who is inside withCatalog holds the lock of its session.                *)
LockHeld ==
    \A w \in Workers : pc[w] \in {"catOpen", "catCall"} => catalogMu[cobj[w]] = w

(* A session from which a catalog can still be opened, and one whose       *)
(* catalog is being opened, is registered or not yet past the point where  *)
(* Disconnect clears the connection string.                                *)
Opening(o) == \E w \in Workers : cobj[w] = o /\ pc[w] = "catOpen"

OpenHeld ==
    \A o \in Objs : ses[o].connStr \/ Opening(o) => Kept(o, {"discConnStr"})

CatalogPastPCs == HoldPCs \ {"discDB"}

CatalogHeld == \A o \in Objs : ses[o].catalog => Kept(o, CatalogPastPCs)

Catalogs == LockHeld /\ OpenHeld /\ CatalogHeld

(* A step that leaves the map alone keeps Kept while the Disconnects go    *)
(* on.                                                                     *)
LEMMA KeptFrame ==
  ASSUME NEW pcs, UNCHANGED sessions,
         \A t \in Threads : pc[t] \in pcs => pc'[t] \in pcs /\ cobj'[t] = cobj[t]
  PROVE  \A o \in Objs : Kept(o, pcs) => Kept(o, pcs)'
BY DEF Kept, Live, Releasing

(* A step that leaves the map, the locks and the catalogs alone keeps      *)
(* Catalogs.                                                               *)
LEMMA CatalogFrame ==
  ASSUME TInv, Catalogs, UNCHANGED <<sessions, catalogMu>>,
         \A o \in Objs : /\ ses'[o].connStr => ses[o].connStr
                         /\ ses'[o].catalog => ses[o].catalog,
         \A t \in Threads :
           /\ pc[t] \in CatalogPastPCs =>
                 pc'[t] \in CatalogPastPCs /\ cobj'[t] = cobj[t]
           /\ pc[t] = "discConnStr" => pc'[t] = pc[t]
           /\ pc'[t] \in {"catOpen", "catCall"} =>
                 pc'[t] = pc[t] /\ cobj'[t] = cobj[t]
  PROVE  Catalogs'
<1> USE DEF TInv, TypeOK, CallOK, NoCallPCs, Catalogs
<1>1. \A o \in Objs : Kept(o, CatalogPastPCs) => Kept(o, CatalogPastPCs)'
  BY KeptFrame
<1>2. \A o \in Objs : Kept(o, {"discConnStr"}) => Kept(o, {"discConnStr"})'
  BY KeptFrame DEF CatalogPastPCs, HoldPCs, DisconnectPCs
<1>3. LockHeld'
  BY DEF LockHeld
<1>4. OpenHeld'
  BY <1>2 DEF OpenHeld, Opening
<1>5. CatalogHeld'
  BY <1>1 DEF CatalogHeld
<1>6. QED BY <1>3, <1>4, <1>5

(* Connect makes a catalog possible only on the session it has registered  *)
(* (manager.go:105-158).                                                   *)
LEMMA ConnectCatalogs ==
  ASSUME TInv, Claims, ConnectsOver, Catalogs, NEW w \in Workers, NEW id \in Ids,
         ConnectStep(w) \/ ConnectRegister(w, id)
  PROVE  Catalogs'
<1> USE ConstantsAssumption
    DEF TInv, CallOK, NoCallPCs, TypeOK, registry, resources, exit,
        Enter, Goto, Return, SetSession, Session, HoldPCs, CatalogPastPCs,
        DisconnectPCs
<1>1. CASE ConnectError(w)
  BY <1>1, CatalogFrame DEF ConnectError
<1>2. CASE DialFails(w)
  BY <1>2, CatalogFrame DEF DialFails
<1>3. CASE ConnectPublish(w)
  <2>1. PICK r \in Objs : r = cobj[w]
    BY <1>3 DEF ConnectPublish
  <2>2. Kept(r, {"discConnStr"})'
    BY <1>3, <2>1 DEF ConnectPublish, Claims, ConnectsOver, ConnectPCs, Kept, Live
  <2>3. /\ \A o \in Objs : Kept(o, CatalogPastPCs) => Kept(o, CatalogPastPCs)'
        /\ \A o \in Objs : Kept(o, {"discConnStr"}) => Kept(o, {"discConnStr"})'
    BY <1>3, KeptFrame DEF ConnectPublish
  <2>4. LockHeld'
    BY <1>3 DEF ConnectPublish, Catalogs, LockHeld
  <2>5. OpenHeld'
    BY <1>3, <2>1, <2>2, <2>3 DEF ConnectPublish, Catalogs, OpenHeld, Opening
  <2>6. CatalogHeld'
    BY <1>3, <2>3 DEF ConnectPublish, Catalogs, CatalogHeld
  <2>7. QED BY <2>4, <2>5, <2>6 DEF Catalogs
<1>4. CASE ConnectRegister(w, id)
  <2>1. PICK r \in Objs :
          /\ ses' = [ses EXCEPT ![r] = NewSession]
          /\ sessions' = [sessions EXCEPT ![id] = r]
          /\ Enter(w, "dial", id, r)
    BY <1>4 DEF ConnectRegister
  <2>2. \A o \in Objs, i \in Ids : sessions[i] = o => sessions'[i] = o
    BY <1>4, <2>1 DEF ConnectRegister, Registered
  <2>3. /\ \A o \in Objs : Kept(o, CatalogPastPCs) => Kept(o, CatalogPastPCs)'
        /\ \A o \in Objs : Kept(o, {"discConnStr"}) => Kept(o, {"discConnStr"})'
    BY <1>4, <2>1, <2>2 DEF ConnectRegister, Kept, Live, Releasing
  <2>4. LockHeld'
    BY <1>4, <2>1 DEF ConnectRegister, Catalogs, LockHeld
  <2>5. OpenHeld'
    BY <1>4, <2>1, <2>3
       DEF ConnectRegister, Catalogs, OpenHeld, Opening, NewSession
  <2>6. CatalogHeld'
    BY <1>4, <2>1, <2>3 DEF ConnectRegister, Catalogs, CatalogHeld, NewSession
  <2>7. QED BY <2>4, <2>5, <2>6 DEF Catalogs
<1>5. QED BY <1>1, <1>2, <1>3, <1>4 DEF ConnectStep

(* withCatalog opens a catalog only with a connection string and under the *)
(* lock (catalog.go:50-71).                                                *)
LEMMA MetadataCatalogs ==
  ASSUME TInv, Roles, Catalogs, NEW w \in Workers, MetadataStep(w)
  PROVE  Catalogs'
<1> USE ConstantsAssumption
    DEF TInv, CallOK, NoCallPCs, TypeOK, registry, resources, exit,
        Enter, Goto, Return, SetSession, Session, HoldPCs, CatalogPastPCs,
        DisconnectPCs
<1>1. CASE RefreshRetry(w) \/ RefreshLookup(w) \/ CatalogUnavailable(w)
  BY <1>1, CatalogFrame DEF RefreshRetry, RefreshLookup, CatalogUnavailable
<1>2. /\ \A o \in Objs : Kept(o, CatalogPastPCs) => Kept(o, CatalogPastPCs)'
      /\ \A o \in Objs : Kept(o, {"discConnStr"}) => Kept(o, {"discConnStr"})'
  BY KeptFrame
     DEF MetadataStep, RefreshRetry, RefreshLookup, CatalogUnavailable,
         CatalogEnter, CatalogOpened, CatalogOpenFails, CatalogDone
<1>3. CASE CatalogEnter(w)
  <2>1. LockHeld'
    BY <1>3 DEF CatalogEnter, MuFree, Catalogs, LockHeld
  <2>2. OpenHeld'
    BY <1>2, <1>3 DEF CatalogEnter, CatalogRefused, Catalogs, OpenHeld, Opening
  <2>3. CatalogHeld'
    BY <1>2, <1>3 DEF CatalogEnter, Catalogs, CatalogHeld
  <2>4. QED BY <2>1, <2>2, <2>3 DEF Catalogs
<1>4. CASE CatalogOpened(w)
  <2>1. LockHeld'
    BY <1>4 DEF CatalogOpened, Catalogs, LockHeld
  <2>2. OpenHeld'
    BY <1>2, <1>4 DEF CatalogOpened, Catalogs, OpenHeld, Opening
  <2>3. PICK r \in Objs : r = cobj[w]
    BY <1>4 DEF CatalogOpened
  <2>4. Kept(r, {"discConnStr"})
    BY <1>4, <2>3 DEF CatalogOpened, Catalogs, OpenHeld, Opening
  <2>5. Kept(r, CatalogPastPCs)
    BY <2>4 DEF Kept, Releasing
  <2>6. CatalogHeld'
    BY <1>2, <1>4, <2>3, <2>5 DEF CatalogOpened, Catalogs, CatalogHeld
  <2>7. QED BY <2>1, <2>2, <2>6 DEF Catalogs
<1>5. CASE CatalogOpenFails(w)
  <2>1. LockHeld'
    BY <1>5 DEF CatalogOpenFails, Catalogs, LockHeld
  <2>2. OpenHeld'
    BY <1>2, <1>5 DEF CatalogOpenFails, Catalogs, OpenHeld, Opening
  <2>3. CatalogHeld'
    BY <1>2, <1>5 DEF CatalogOpenFails, Catalogs, CatalogHeld
  <2>4. QED BY <2>1, <2>2, <2>3 DEF Catalogs
<1>6. CASE CatalogDone(w)
  <2>1. LockHeld'
    BY <1>6 DEF CatalogDone, Catalogs, LockHeld
  <2>2. OpenHeld'
    BY <1>2, <1>6 DEF CatalogDone, Catalogs, OpenHeld, Opening
  <2>3. CatalogHeld'
    BY <1>2, <1>6 DEF CatalogDone, Catalogs, CatalogHeld
  <2>4. QED BY <2>1, <2>2, <2>3 DEF Catalogs
<1>7. QED BY <1>1, <1>3, <1>4, <1>5, <1>6 DEF MetadataStep

(* Disconnect clears the connection string and closes the catalog while    *)
(* nobody holds the lock (manager.go:198-200, catalog.go:73-80).           *)
LEMMA DisconnectCatalogs ==
  ASSUME TInv, Roles, Catalogs, NEW t \in Threads, DisconnectStep(t)
  PROVE  Catalogs'
<1> USE ConstantsAssumption
    DEF TInv, CallOK, NoCallPCs, TypeOK, registry, resources, exit,
        Enter, Goto, Return, SetSession, Session, HoldPCs, CatalogPastPCs,
        DisconnectPCs
<1>1. CASE DisconnectRemove(t)
  <2>1. CASE ~Registered(cid[t])
    BY <1>1, <2>1, CatalogFrame DEF DisconnectRemove
  <2>2. CASE Registered(cid[t])
    <3>1. PICK r \in Objs : r = sessions[cid[t]]
      BY <1>1, <2>2 DEF DisconnectRemove, Registered
    <3>2. /\ Kept(r, {"discConnStr"})' /\ Kept(r, CatalogPastPCs)'
          /\ \A o \in Objs \ {r} : Live(o) => Live(o)'
      BY <1>1, <2>2, <3>1 DEF DisconnectRemove, Kept, Releasing, Live
    <3>3. \A o \in Objs :
             /\ Releasing(o, CatalogPastPCs) => Releasing(o, CatalogPastPCs)'
             /\ Releasing(o, {"discConnStr"}) => Releasing(o, {"discConnStr"})'
      BY <1>1, <2>2 DEF DisconnectRemove, Releasing
    <3>4. /\ \A o \in Objs :
               Kept(o, CatalogPastPCs) => Kept(o, CatalogPastPCs)'
          /\ \A o \in Objs :
               Kept(o, {"discConnStr"}) => Kept(o, {"discConnStr"})'
      BY <3>2, <3>3 DEF Kept
    <3>5. LockHeld'
      BY <1>1, <2>2 DEF DisconnectRemove, Catalogs, LockHeld
    <3>6. OpenHeld'
      BY <1>1, <2>2, <3>4 DEF DisconnectRemove, Catalogs, OpenHeld, Opening
    <3>7. CatalogHeld'
      BY <1>1, <2>2, <3>4 DEF DisconnectRemove, Catalogs, CatalogHeld
    <3>8. QED BY <3>5, <3>6, <3>7 DEF Catalogs
  <2>3. QED BY <2>1, <2>2
<1>2. CASE DisconnectClearConnStr(t)
  <2>1. PICK r \in Objs : r = cobj[t]
    BY <1>2 DEF DisconnectClearConnStr
  <2>2. ~ses'[r].connStr /\ ~Opening(r)'
    BY <1>2, <2>1
       DEF DisconnectClearConnStr, MuFree, Catalogs, LockHeld, Opening
  <2>3. /\ \A o \in Objs \ {r} : ses'[o] = ses[o]
        /\ \A o \in Objs : ses'[o].catalog = ses[o].catalog
        /\ \A o \in Objs : Opening(o)' => Opening(o)
    BY <1>2, <2>1 DEF DisconnectClearConnStr, Opening
  <2>4. /\ \A o \in Objs : Kept(o, CatalogPastPCs) => Kept(o, CatalogPastPCs)'
        /\ \A o \in Objs \ {r} :
               Kept(o, {"discConnStr"}) => Kept(o, {"discConnStr"})'
    BY <1>2, <2>1 DEF DisconnectClearConnStr, Kept, Live, Releasing
  <2>5. LockHeld'
    BY <1>2 DEF DisconnectClearConnStr, Catalogs, LockHeld
  <2>6. OpenHeld'
    BY <2>2, <2>3, <2>4 DEF Catalogs, OpenHeld
  <2>7. CatalogHeld'
    BY <2>3, <2>4 DEF Catalogs, CatalogHeld
  <2>8. QED BY <2>5, <2>6, <2>7 DEF Catalogs
<1>3. CASE DisconnectCatalog(t)
  <2>1. PICK r \in Objs : r = cobj[t]
    BY <1>3 DEF DisconnectCatalog
  <2>2. /\ ~ses'[r].catalog
        /\ \A o \in Objs \ {r} : ses'[o] = ses[o]
        /\ \A o \in Objs : ses'[o].connStr = ses[o].connStr
        /\ \A o \in Objs : Opening(o)' => Opening(o)
    BY <1>3, <2>1 DEF DisconnectCatalog, Opening
  <2>3. /\ \A o \in Objs \ {r} :
               Kept(o, CatalogPastPCs) => Kept(o, CatalogPastPCs)'
        /\ \A o \in Objs : Kept(o, {"discConnStr"}) => Kept(o, {"discConnStr"})'
    BY <1>3, <2>1 DEF DisconnectCatalog, Kept, Live, Releasing
  <2>4. LockHeld'
    BY <1>3 DEF DisconnectCatalog, Catalogs, LockHeld
  <2>5. OpenHeld'
    BY <2>2, <2>3 DEF Catalogs, OpenHeld
  <2>6. CatalogHeld'
    BY <2>2, <2>3 DEF Catalogs, CatalogHeld
  <2>7. QED BY <2>4, <2>5, <2>6 DEF Catalogs
<1>4. CASE DisconnectActive(t)
  BY <1>4, CatalogFrame DEF DisconnectActive
<1>5. CASE DisconnectRollback(t)
  BY <1>5, CatalogFrame DEF DisconnectRollback
<1>6. CASE DisconnectDB(t)
  BY <1>6, CatalogFrame DEF DisconnectDB
<1>7. QED BY <1>1, <1>2, <1>3, <1>4, <1>5, <1>6 DEF DisconnectStep

(* Every step keeps every catalog connection with an owner.                *)
LEMMA CatalogStep ==
  ASSUME TInv, Roles, Claims, ConnectsOver, Catalogs, Next
  PROVE  Catalogs'
<1> USE ConstantsAssumption
    DEF TInv, CallOK, NoCallPCs, TypeOK, registry, resources, exit, calls,
        Enter, Goto, Return, SetSession, Session, HoldPCs, CatalogPastPCs,
        DisconnectPCs
<1>1. ASSUME NEW w \in Workers, ConnectStep(w) PROVE Catalogs'
  <2>1. cid[w] \in Ids
    BY <1>1, CallHasId
  <2>2. QED BY <1>1, <2>1, ConnectCatalogs
<1>2. ASSUME NEW w \in Workers, MetadataStep(w) PROVE Catalogs'
  BY <1>2, MetadataCatalogs
<1>3. ASSUME NEW t \in Threads, DisconnectStep(t) PROVE Catalogs'
  BY <1>3, DisconnectCatalogs
<1>4. ASSUME NEW w \in Workers, NEW id \in Ids, WorkerStart(w, id)
      PROVE  Catalogs'
  <2>1. CASE ConnectRegister(w, id)
    BY <2>1, ConnectCatalogs
  <2>2. CASE MetadataStart(w, id) \/ RefreshStart(w, id)
    BY <2>2, CatalogFrame DEF MetadataStart, RefreshStart
  <2>3. QED BY <1>4, <2>1, <2>2 DEF WorkerStart
<1>5. CASE UIStep
  BY <1>5, CatalogFrame DEF UIStep, BeginTxSet, EndTxClear, CachedDBInfoRead
<1>6. CASE ExitStep
  BY <1>6, CatalogFrame DEF ExitStep, ExitDone, ExitDisconnect
<1>7. CASE UIStart
  BY <1>7, CatalogFrame DEF UIStart, SetActiveSession, DisconnectCommand,
           BeginTx, EndTx, Exit, CachedDBInfo, UIIdle
<1>8. CASE Exited
  BY <1>8, CatalogFrame DEF Exited, vars
<1>9. QED BY <1>1, <1>2, <1>3, <1>4, <1>5, <1>6, <1>7, <1>8 DEF Next

(* The points at which a call carries the transaction in a variable of its *)
(* own, and who can still end transaction x.                               *)
TxPCs == {"discConnStr", "discActive", "discRelease", "txSet"}

TxKept(x) ==
    \/ \E o \in Objs : Live(o) /\ ses[o].tx = x
    \/ \E t \in Threads : ctx[t] = x /\ pc[t] \in TxPCs

(* NoOrphanTransaction, with what BeginTx and EndTx know of the session    *)
(* between their two steps.                                                *)
Transactions ==
    /\ \A x \in txOpen : TxKept(x)
    /\ pc[UI] = "txSet" => ses[cobj[UI]].tx = NoTx
    /\ pc[UI] = "txClear" => ses[cobj[UI]].tx \notin txOpen

(* A step that neither opens a transaction nor touches the map or a stored *)
(* transaction keeps Transactions.                                         *)
LEMMA TxFrame ==
  ASSUME TInv, Transactions, UNCHANGED sessions, txOpen' \subseteq txOpen,
         \A o \in Objs : ses'[o].tx = ses[o].tx,
         \A t \in Threads :
           pc[t] \in TxPCs => pc'[t] \in TxPCs /\ ctx'[t] = ctx[t],
         pc'[UI] \in {"txSet", "txClear"} =>
           pc'[UI] = pc[UI] /\ cobj'[UI] = cobj[UI]
  PROVE  Transactions'
<1>1. \A x : TxKept(x) => TxKept(x)'
  BY DEF TxKept, Live
<1>2. \A x \in txOpen' : TxKept(x)'
  BY <1>1 DEF Transactions
<1>3. QED BY <1>2 DEF Transactions, TInv, TypeOK, CallOK, NoCallPCs

(* Connect disturbs no transaction: its object is fresh                    *)
(* (manager.go:105-158).                                                   *)
LEMMA ConnectTx ==
  ASSUME TInv, Roles, Objects, Transactions, NEW w \in Workers, NEW id \in Ids,
         ConnectStep(w) \/ ConnectRegister(w, id)
  PROVE  Transactions'
<1> USE ConstantsAssumption
    DEF TInv, CallOK, NoCallPCs, TypeOK, registry, resources, exit,
        Enter, Goto, Return, SetSession, Session, TxPCs
<1>1. CASE ConnectError(w)
  BY <1>1, TxFrame DEF ConnectError
<1>2. CASE DialFails(w)
  BY <1>2, TxFrame DEF DialFails
<1>3. CASE ConnectPublish(w)
  BY <1>3, TxFrame DEF ConnectPublish
<1>4. CASE ConnectRegister(w, id)
  <2>1. PICK r \in Objs :
          /\ ses[r].state = "UNUSED"
          /\ ses' = [ses EXCEPT ![r] = NewSession]
          /\ sessions' = [sessions EXCEPT ![id] = r]
          /\ Enter(w, "dial", id, r)
    BY <1>4 DEF ConnectRegister
  <2>2. \A o \in Objs : Live(o) => Live(o)' /\ ses'[o] = ses[o]
    BY <1>4, <2>1 DEF ConnectRegister, Registered, Objects, Live
  <2>3. \A x \in Txs : TxKept(x) => TxKept(x)'
    BY <1>4, <2>1, <2>2 DEF ConnectRegister, TxKept
  <2>4. cobj[UI] # r /\ pc'[UI] = pc[UI] /\ cobj'[UI] = cobj[UI]
    BY <2>1 DEF Objects
  <2>5. QED BY <1>4, <2>1, <2>3, <2>4 DEF ConnectRegister, Transactions
<1>5. QED BY <1>1, <1>2, <1>3, <1>4 DEF ConnectStep

(* Disconnect carries the transaction it captured until it has rolled it   *)
(* back (manager.go:193-216).                                              *)
LEMMA DisconnectTx ==
  ASSUME TInv, Transactions, NEW t \in Threads, DisconnectStep(t)
  PROVE  Transactions'
<1> USE ConstantsAssumption
    DEF TInv, CallOK, NoCallPCs, TypeOK, registry, resources, exit,
        Enter, Goto, Return, SetSession, Session, TxPCs
<1>1. CASE DisconnectRemove(t)
  <2>1. CASE ~Registered(cid[t])
    BY <1>1, <2>1, TxFrame DEF DisconnectRemove
  <2>2. CASE Registered(cid[t])
    <3>1. PICK r \in Objs : r = sessions[cid[t]]
      BY <1>1, <2>2 DEF DisconnectRemove, Registered
    <3>2. /\ UNCHANGED <<ses, txOpen>> /\ pc'[t] = "discConnStr"
          /\ ctx'[t] = ses[r].tx
          /\ \A o \in Objs \ {r} : Live(o) => Live(o)'
          /\ \A u \in Threads \ {t} : /\ pc'[u] = pc[u] /\ ctx'[u] = ctx[u]
                                      /\ cobj'[u] = cobj[u]
          /\ pc[t] = "disc"
      BY <1>1, <2>2, <3>1 DEF DisconnectRemove, Live
    <3>3. \A x \in Txs : TxKept(x) => TxKept(x)'
      BY <3>2 DEF TxKept
    <3>4. QED BY <3>2, <3>3 DEF Transactions
  <2>3. QED BY <2>1, <2>2
<1>2. CASE DisconnectRollback(t)
  <2>1. \A x \in Txs : TxKept(x) => x = ctx[t] \/ TxKept(x)'
    BY <1>2 DEF DisconnectRollback, TxKept, Live
  <2>2. QED BY <1>2, <2>1 DEF DisconnectRollback, Transactions
<1>3. CASE DisconnectClearConnStr(t)
  BY <1>3, TxFrame DEF DisconnectClearConnStr
<1>4. CASE DisconnectActive(t)
  BY <1>4, TxFrame DEF DisconnectActive
<1>5. CASE DisconnectCatalog(t)
  BY <1>5, TxFrame DEF DisconnectCatalog
<1>6. CASE DisconnectDB(t)
  BY <1>6, TxFrame DEF DisconnectDB
<1>7. QED BY <1>1, <1>2, <1>3, <1>4, <1>5, <1>6 DEF DisconnectStep

(* BeginTx stores its transaction in a session that is still registered    *)
(* and had none; Commit and Rollback forget one that has ended             *)
(* (manager.go:248-297).                                                   *)
LEMMA UITx ==
  ASSUME TInv, Roles, Claims, Transactions, UIStart \/ UIStep \/ ExitStep
  PROVE  Transactions'
<1> USE ConstantsAssumption
    DEF TInv, CallOK, NoCallPCs, TypeOK, registry, resources, exit, calls,
        Enter, Goto, Return, SetSession, Session, TxPCs
<1>1. CASE \/ \E id \in Ids : SetActiveSession(id)
           \/ DisconnectCommand \/ CachedDBInfo \/ Exit
  BY <1>1, TxFrame DEF SetActiveSession, DisconnectCommand, CachedDBInfo, Exit,
     UIIdle
<1>2. ASSUME NEW x \in Txs, BeginTx(x) PROVE Transactions'
  <2>1. ctx'[UI] = x /\ pc'[UI] = "txSet" /\ ses'[cobj'[UI]].tx = NoTx
    BY <1>2 DEF BeginTx, HasActive, Active
  <2>2. \A y \in Txs : TxKept(y) => TxKept(y)'
    BY <1>2 DEF BeginTx, UIIdle, TxKept, Live
  <2>3. TxKept(x)'
    BY <2>1 DEF TxKept
  <2>4. QED BY <1>2, <2>1, <2>2, <2>3 DEF BeginTx, Transactions
<1>3. CASE EndTx
  <2>1. \A y \in Txs : TxKept(y) => TxKept(y)'
    BY <1>3 DEF EndTx, UIIdle, TxKept, Live
  <2>2. QED
    BY <1>3, <2>1 DEF EndTx, HasActive, Active, Registered, Transactions
<1>4. CASE BeginTxSet
  <2>1. PICK r \in Objs : r = cobj[UI]
    BY <1>4 DEF BeginTxSet
  <2>2. Live(r)' /\ ses'[r].tx = ctx[UI] /\ ses[r].tx = NoTx
    BY <1>4, <2>1 DEF BeginTxSet, Roles, Claims, Live, Transactions
  <2>3. /\ \A o \in Objs \ {r} : ses'[o] = ses[o] /\ Live(o) = Live(o)'
        /\ \A t \in Threads \ {UI} : ctx'[t] = ctx[t] /\ pc'[t] = pc[t]
    BY <1>4, <2>1 DEF BeginTxSet, Live
  <2>4. \A x \in Txs : TxKept(x) => TxKept(x)'
    BY <2>2, <2>3 DEF TxKept
  <2>5. QED BY <1>4, <2>4 DEF BeginTxSet, Transactions
<1>5. CASE EndTxClear
  <2>1. PICK r \in Objs : r = cobj[UI]
    BY <1>5 DEF EndTxClear
  <2>2. /\ ses[r].tx \notin txOpen
        /\ \A o \in Objs \ {r} : ses'[o] = ses[o]
        /\ \A o \in Objs : Live(o) = Live(o)'
        /\ \A t \in Threads \ {UI} : ctx'[t] = ctx[t] /\ pc'[t] = pc[t]
    BY <1>5, <2>1 DEF EndTxClear, Transactions, Live
  <2>3. \A x \in txOpen : TxKept(x) => TxKept(x)'
    BY <1>5, <2>2 DEF EndTxClear, TxKept
  <2>4. QED BY <1>5, <2>3 DEF EndTxClear, Transactions
<1>6. CASE CachedDBInfoRead
  BY <1>6, TxFrame DEF CachedDBInfoRead
<1>7. CASE ExitStep
  BY <1>7, TxFrame DEF ExitStep, ExitDone, ExitDisconnect
<1>8. QED BY <1>1, <1>2, <1>3, <1>4, <1>5, <1>6, <1>7 DEF UIStart, UIStep

(* Every step keeps every open transaction with an owner.                  *)
LEMMA TxStep ==
  ASSUME TInv, Roles, Objects, Claims, Transactions, Next
  PROVE  Transactions'
<1> USE ConstantsAssumption
    DEF TInv, CallOK, NoCallPCs, TypeOK, registry, resources, exit, calls,
        Enter, Goto, Return, SetSession, Session, TxPCs
<1>1. ASSUME NEW w \in Workers, ConnectStep(w) PROVE Transactions'
  <2>1. cid[w] \in Ids
    BY <1>1, CallHasId
  <2>2. QED BY <1>1, <2>1, ConnectTx
<1>2. ASSUME NEW w \in Workers, MetadataStep(w) PROVE Transactions'
  BY <1>2, TxFrame
     DEF MetadataStep, RefreshRetry, RefreshLookup, CatalogUnavailable,
         CatalogEnter, CatalogOpened, CatalogOpenFails, CatalogDone
<1>3. ASSUME NEW t \in Threads, DisconnectStep(t) PROVE Transactions'
  BY <1>3, DisconnectTx
<1>4. ASSUME NEW w \in Workers, NEW id \in Ids, WorkerStart(w, id)
      PROVE  Transactions'
  <2>1. CASE ConnectRegister(w, id)
    BY <2>1, ConnectTx
  <2>2. CASE MetadataStart(w, id) \/ RefreshStart(w, id)
    BY <2>2, TxFrame DEF MetadataStart, RefreshStart
  <2>3. QED BY <1>4, <2>1, <2>2 DEF WorkerStart
<1>5. CASE UIStep \/ ExitStep \/ UIStart
  BY <1>5, UITx
<1>6. CASE Exited
  BY <1>6, TxFrame DEF Exited, vars
<1>7. QED BY <1>1, <1>2, <1>3, <1>4, <1>5, <1>6 DEF Next

(* The inductive invariant of this module.                                 *)
OInv ==
    /\ Roles /\ Objects /\ Claims /\ ConnectsOver /\ HandleHeld
    /\ LockHeld /\ OpenHeld /\ CatalogHeld /\ Transactions

(* It holds when the program starts.                                       *)
LEMMA InitOInv == Init => OInv
<1> SUFFICES ASSUME Init PROVE OInv
  OBVIOUS
<1>1. \A o \in Objs :
         /\ ses[o].db = "none" /\ ~ses[o].connStr /\ ~ses[o].catalog
  BY DEF Init, NewSession
<1> USE ConstantsAssumption DEF Init
<1>2. Roles /\ Objects /\ Claims
  BY DEF Roles, Objects, Claims, ConnectPCs, CatalogPCs, UIPCs, ClaimPCs,
         Registered, Live
<1>6. ConnectsOver
  BY DEF ConnectsOver
<1>3. HandleHeld /\ CatalogHeld /\ OpenHeld
  BY <1>1 DEF HandleHeld, CatalogHeld, OpenHeld, Opening
<1>4. LockHeld /\ Transactions
  BY DEF LockHeld, Transactions
<1>5. QED BY <1>2, <1>3, <1>4, <1>6 DEF OInv

(* And every step keeps it as long as the window is not closed under a     *)
(* Connect.                                                                *)
LEMMA NextOInv ==
  ASSUME ~ExitWhileConnecting
  PROVE  TInv /\ OInv /\ [Next]_vars => OInv'
<1>1. ASSUME TInv, OInv, Next PROVE OInv'
  BY <1>1, RolesStep, ObjectsStep, ClaimsStep, ConnectsOverStep, HandleStep,
     CatalogStep, TxStep
     DEF OInv, Catalogs
<1>2. ASSUME OInv, UNCHANGED vars PROVE OInv'
  BY <1>2 DEF OInv, vars, Roles, Objects, Claims, ConnectsOver, HandleHeld, LockHeld,
     OpenHeld, CatalogHeld, Transactions, Live, Releasing, Registered, Opening,
     Kept, TxKept
<1>3. QED BY <1>1, <1>2

(* The invariant holds throughout every behaviour.                         *)
LEMMA OwnershipInvariant ==
  ASSUME ~ExitWhileConnecting
  PROVE  Spec => [](TInv /\ OInv)
BY InitTInv, NextTInv, InitOInv, NextOInv, PTL DEF Spec

(* No database handle is ever left open on a session nobody can reach any  *)
(* more: the handle Connect publishes goes to a session that is still      *)
(* registered, and a Disconnect holds the session until it has closed it   *)
(* (manager.go:132-158 against 185-222).                                   *)
THEOREM NoHandleIsLeaked ==
  ASSUME ~ExitWhileConnecting
  PROVE  Spec => []NoHandleLeak
<1>1. OInv => NoHandleLeak
  BY DEF OInv, HandleHeld, NoHandleLeak, HoldPCs, Releasing
<1>2. QED BY <1>1, OwnershipInvariant, PTL

(* Nor is a native catalog connection, although metadata calls keep the    *)
(* pointer of a session that is disconnected meanwhile (catalog.go:50-80). *)
THEOREM NoCatalogIsLeaked ==
  ASSUME ~ExitWhileConnecting
  PROVE  Spec => []NoCatalogLeak
<1>1. OInv => NoCatalogLeak
  BY DEF OInv, CatalogHeld, OpenHeld, Opening, Kept, NoCatalogLeak,
         CatalogPastPCs, HoldPCs, Releasing, DisconnectPCs
<1>2. QED BY <1>1, OwnershipInvariant, PTL

(* Every transaction open at the database can still be committed or rolled *)
(* back: a registered session holds it, or the call that will store or     *)
(* roll it back (manager.go:193-216, 248-297).                             *)
THEOREM NoTransactionIsOrphaned ==
  ASSUME ~ExitWhileConnecting
  PROVE  Spec => []NoOrphanTransaction
<1>1. OInv => NoOrphanTransaction
  BY DEF OInv, Transactions, TxKept, TxPCs, NoOrphanTransaction, DisconnectPCs
<1>2. QED BY <1>1, OwnershipInvariant, PTL

(* Only the end of a driver call opens a catalog, on the session of the    *)
(* call (catalog.go:63-71).                                                *)
LEMMA OnlyCatalogOpened ==
  ASSUME TInv, Next, NEW o \in Objs, CatalogOpens(o)
  PROVE  Opening(o)
<1> USE ConstantsAssumption
    DEF TInv, CallOK, NoCallPCs, TypeOK, registry, resources, exit, calls,
        Enter, Goto, Return, SetSession, Session, CatalogOpens, Opening
<1>1. ASSUME NEW w \in Workers, ConnectStep(w) \/ MetadataStep(w)
      PROVE  Opening(o)
  <2>1. CASE DialFails(w) \/ ConnectError(w) \/ ConnectPublish(w)
    <3>1. CASE DialFails(w)
      BY <3>1 DEF DialFails
    <3>2. CASE ConnectError(w)
      BY <3>2 DEF ConnectError
    <3>3. CASE ConnectPublish(w)
      BY <3>3 DEF ConnectPublish
    <3>4. QED BY <2>1, <3>1, <3>2, <3>3
  <2>2. CASE CatalogOpened(w)
    BY <2>2 DEF CatalogOpened
  <2>3. CASE \/ RefreshRetry(w) \/ RefreshLookup(w) \/ CatalogUnavailable(w)
             \/ CatalogEnter(w) \/ CatalogOpenFails(w) \/ CatalogDone(w)
    BY <2>3 DEF RefreshRetry, RefreshLookup, CatalogUnavailable,
       CatalogEnter, CatalogOpenFails, CatalogDone
  <2>4. QED BY <1>1, <2>1, <2>2, <2>3 DEF ConnectStep, MetadataStep
<1>2. ASSUME NEW t \in Threads, DisconnectStep(t) PROVE Opening(o)
  BY <1>2 DEF DisconnectStep, DisconnectRemove, DisconnectClearConnStr,
     DisconnectActive, DisconnectRollback, DisconnectCatalog, DisconnectDB
<1>3. ASSUME NEW w \in Workers, NEW id \in Ids, WorkerStart(w, id)
      PROVE  Opening(o)
  BY <1>3 DEF WorkerStart, ConnectRegister, NewSession, MetadataStart,
     RefreshStart
<1>4. CASE UIStart \/ UIStep \/ ExitStep \/ Exited
  BY <1>4 DEF UIStart, SetActiveSession, DisconnectCommand, BeginTx, EndTx,
     Exit, CachedDBInfo, UIStep, BeginTxSet, EndTxClear, CachedDBInfoRead,
     ExitStep, ExitDone, ExitDisconnect, Exited, vars
<1>5. QED BY <1>1, <1>2, <1>3, <1>4 DEF Next

(* "No new native catalog connection may be opened for a closed session":  *)
(* once Disconnect has cleared the connection string, no call that fetched *)
(* the session earlier opens a catalog on it again (manager.go:196-200).   *)
THEOREM ClosedSessionStaysClosed ==
  ASSUME ~ExitWhileConnecting
  PROVE  Spec => ClosedSessionOpensNoCatalog
<1> DEFINE A == \A o \in Objs :
                  CatalogOpens(o) => Live(o) \/ Releasing(o, {"discConnStr"})
<1>1. TInv /\ OInv /\ [Next]_vars => [A]_vars
  <2>1. ASSUME TInv, OInv, Next PROVE A
    BY <2>1, OnlyCatalogOpened DEF OInv, OpenHeld, Kept
  <2>2. QED BY <2>1
<1>2. QED
  BY <1>1, OwnershipInvariant, PTL DEF Spec, ClosedSessionOpensNoCatalog

=============================================================================
