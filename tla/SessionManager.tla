--------------------------- MODULE SessionManager ---------------------------
(***************************************************************************)
(* The session registry of internal/odbc/manager.go with the native        *)
(* catalog connection of internal/odbc/catalog.go.                         *)
(*                                                                         *)
(* The Manager maps a profile id to a Session object and remembers the id  *)
(* of the active one.  Connect runs on a worker goroutine, Disconnect on   *)
(* the UI thread, but also on the worker whose Connect failed; both are a  *)
(* series of short critical sections of Manager.mu with work in between.   *)
(* One action is one critical section (or one driver call), so every       *)
(* interleaving of the calls in flight is a behaviour.                     *)
(*                                                                         *)
(* A Session object outlives its registration: a call that fetched the     *)
(* pointer keeps using it.  Objects are therefore modelled apart from the  *)
(* ids; connecting an id again takes a fresh object from Objs.             *)
(***************************************************************************)
EXTENDS Naturals, FiniteSets

CONSTANTS
    Ids,        \* profile ids
    Objs,       \* pool of Session objects (bounds the number of Connects)
    Txs,        \* pool of database transactions (bounds the number of Begins)
    Workers,    \* goroutines that run Connect or a metadata call
    UI,         \* the one walk UI thread
    NoId, NoObj, NoTx, NoThread,
    ExitWhileConnecting \* may the window be closed while a Connect is in flight

ASSUME ConstantsAssumption ==
    /\ UI \notin Workers
    /\ NoId \notin Ids
    /\ NoObj \notin Objs
    /\ NoTx \notin Txs
    /\ NoThread \notin Workers \union {UI}
    /\ ExitWhileConnecting \in BOOLEAN

Threads == Workers \union {UI}

VARIABLES
    sessions,   \* Manager.sessions: id -> registered object
    activeID,   \* Manager.activeID
    ses,        \* the Session objects
    catalogMu,  \* Session.catalogMu: the thread that holds it
    txOpen,     \* the transactions open at the database
    pc,         \* where each thread is in its call
    cid,        \* the session id its call was given
    cobj,       \* the Session pointer its call holds
    ctx,        \* the transaction its call holds
    exiting,    \* the main window is closing
    closing     \* the ids DisconnectAll still has to disconnect

registry == <<sessions, activeID>>
resources == <<ses, catalogMu, txOpen>>
calls == <<pc, cid, cobj, ctx>>
exit == <<exiting, closing>>
vars == <<sessions, activeID, ses, catalogMu, txOpen, pc, cid, cobj, ctx,
          exiting, closing>>

-----------------------------------------------------------------------------
States == {"UNUSED", "CONNECTING", "CONNECTED", "EXECUTING", "ERROR"}

Session == [state      : States,
            db         : {"none", "open", "closed"},
            connStr    : BOOLEAN,   \* connStr # ""
            catalog    : BOOLEAN,   \* a native catalog connection is open
            catalogErr : BOOLEAN,   \* a failed open is remembered
            tx         : Txs \union {NoTx}]

(* Mutant: registered in the state SessionDisconnected.                    *)
NewSessionDisconnected ==
    [state |-> "DISCONNECTED", db |-> "none", connStr |-> FALSE,
     catalog |-> FALSE, catalogErr |-> FALSE, tx |-> NoTx]

NewSession == [state |-> "CONNECTING", db |-> "none", connStr |-> FALSE,
               catalog |-> FALSE, catalogErr |-> FALSE, tx |-> NoTx]

ConnectPCs    == {"dial", "failed"}
DisconnectPCs == {"disc", "discConnStr", "discActive", "discRelease",
                  "discCatalog", "discDB"}
CatalogPCs    == {"refresh", "lookup", "catWait", "catOpen", "catCall"}
UIPCs         == {"txSet", "txClear", "infoWait", "exit", "exited"}
PCs           == {"idle"} \union ConnectPCs \union DisconnectPCs
                    \union CatalogPCs \union UIPCs

TypeOK ==
    /\ sessions \in [Ids -> Objs \union {NoObj}]
    /\ activeID \in Ids \union {NoId}
    /\ ses \in [Objs -> Session]
    /\ catalogMu \in [Objs -> Threads \union {NoThread}]
    /\ txOpen \in SUBSET Txs
    /\ pc \in [Threads -> PCs]
    /\ cid \in [Threads -> Ids \union {NoId}]
    /\ cobj \in [Threads -> Objs \union {NoObj}]
    /\ ctx \in [Threads -> Txs \union {NoTx}]
    /\ exiting \in BOOLEAN
    /\ closing \in SUBSET Ids

Registered(id) == sessions[id] # NoObj
RegisteredIds  == {id \in Ids : Registered(id)}
Live(o)        == \E id \in Ids : sessions[id] = o

Init ==
    /\ sessions = [id \in Ids |-> NoObj]
    /\ activeID = NoId
    /\ ses = [o \in Objs |-> [NewSession EXCEPT !.state = "UNUSED"]]
    /\ catalogMu = [o \in Objs |-> NoThread]
    /\ txOpen = {}
    /\ pc = [t \in Threads |-> "idle"]
    /\ cid = [t \in Threads |-> NoId]
    /\ cobj = [t \in Threads |-> NoObj]
    /\ ctx = [t \in Threads |-> NoTx]
    /\ exiting = FALSE
    /\ closing = {}

SetSession(o, s) == ses' = [ses EXCEPT ![o] = s]

MuFree(o) == catalogMu[o] = NoThread

(* Thread t moves on inside its call and keeps what the call holds.        *)
Goto(t, where) ==
    /\ pc' = [pc EXCEPT ![t] = where]
    /\ UNCHANGED <<cid, cobj, ctx>>

(* Thread t enters a call on session id, holding the pointer o.            *)
Enter(t, where, id, o) ==
    /\ pc' = [pc EXCEPT ![t] = where]
    /\ cid' = [cid EXCEPT ![t] = id]
    /\ cobj' = [cobj EXCEPT ![t] = o]
    /\ UNCHANGED ctx

(* The call returns: a worker goroutine ends, the UI thread goes back to   *)
(* its message loop, or to the DisconnectAll loop when the window closes.  *)
Return(t) ==
    /\ pc' = [pc EXCEPT ![t] = IF t = UI /\ exiting THEN "exit" ELSE "idle"]
    /\ cid' = [cid EXCEPT ![t] = NoId]
    /\ cobj' = [cobj EXCEPT ![t] = NoObj]
    /\ ctx' = [ctx EXCEPT ![t] = NoTx]

-----------------------------------------------------------------------------
(* Connect, on a worker                                                    *)

(* manager.go:105-123.  An id that is already open is refused, which       *)
(* changes nothing.  The new session is registered before it is dialled.   *)
ConnectRegister(w, id) ==
    /\ pc[w] = "idle" /\ ~exiting
    /\ ~Registered(id)
    /\ \E o \in Objs :
         /\ ses[o].state = "UNUSED"
         /\ SetSession(o, NewSession)
         /\ sessions' = [sessions EXCEPT ![id] = o]
         /\ Enter(w, "dial", id, o)
    /\ activeID' = IF activeID = NoId THEN id ELSE activeID
    /\ UNCHANGED <<catalogMu, txOpen, exit>>

(* manager.go:125-143.  The connection string, the opener or the ping      *)
(* fails; a handle the opener returned is closed again.                    *)
DialFails(w) ==
    /\ pc[w] = "dial"
    /\ Goto(w, "failed")
    /\ UNCHANGED <<registry, resources, exit>>

(* setSessionError, then Disconnect(session.ID) by id.                     *)
ConnectError(w) ==
    /\ pc[w] = "failed"
    /\ ses' = [o \in Objs |-> IF sessions[cid[w]] = o
                               THEN [ses[o] EXCEPT !.state = "ERROR"] ELSE ses[o]]
    /\ Enter(w, "disc", cid[w], NoObj)
    /\ UNCHANGED <<registry, catalogMu, txOpen, exit>>

(* manager.go:148-158: publishes the handle without looking whether the    *)
(* session is still registered.                                            *)
ConnectPublish(w) ==
    /\ pc[w] = "dial"
    /\ SetSession(cobj[w], [ses[cobj[w]] EXCEPT
                              !.db = "open", !.connStr = TRUE,
                              !.state = "CONNECTED"])
    /\ Return(w)
    /\ UNCHANGED <<registry, catalogMu, txOpen, exit>>

-----------------------------------------------------------------------------
(* Disconnect, on the UI thread or after a failed Connect                  *)

(* manager.go:186-195.  An unknown id is an error and nothing else.        *)
DisconnectRemove(t) ==
    /\ pc[t] = "disc"
    /\ IF Registered(cid[t])
         THEN /\ pc' = [pc EXCEPT ![t] = "discConnStr"]
              /\ cobj' = [cobj EXCEPT ![t] = sessions[cid[t]]]
              /\ ctx' = [ctx EXCEPT ![t] = ses[sessions[cid[t]]].tx]
              /\ sessions' = [sessions EXCEPT ![cid[t]] = NoObj]
              /\ UNCHANGED cid
         ELSE /\ Return(t)
              /\ UNCHANGED sessions
    /\ UNCHANGED <<activeID, resources, exit>>

(* Mutant: the connection string stays.                                    *)
DisconnectKeepsConnStr(t) ==
    /\ pc[t] = "discConnStr"
    /\ MuFree(cobj[t])
    /\ Goto(t, "discActive")
    /\ UNCHANGED <<registry, resources, exit>>

(* manager.go:198-200: waits for whoever is inside withCatalog.            *)
DisconnectClearConnStr(t) ==
    /\ pc[t] = "discConnStr"
    /\ MuFree(cobj[t])
    /\ SetSession(cobj[t], [ses[cobj[t]] EXCEPT !.connStr = FALSE])
    /\ Goto(t, "discActive")
    /\ UNCHANGED <<registry, catalogMu, txOpen, exit>>

(* Mutants: the active id is left dangling; no other session is chosen.    *)
DisconnectKeepsActive(t) ==
    /\ pc[t] = "discActive"
    /\ Goto(t, "discRelease")
    /\ UNCHANGED <<registry, resources, exit>>

DisconnectClearsActive(t) ==
    /\ pc[t] = "discActive"
    /\ activeID' = IF activeID = cid[t] THEN NoId ELSE activeID
    /\ Goto(t, "discRelease")
    /\ UNCHANGED <<sessions, resources, exit>>

(* manager.go:201-209: any remaining session becomes the active one.       *)
DisconnectActive(t) ==
    /\ pc[t] = "discActive"
    /\ IF activeID # cid[t]
         THEN UNCHANGED activeID
         ELSE activeID' \in IF RegisteredIds = {} THEN {NoId} ELSE RegisteredIds
    /\ Goto(t, "discRelease")
    /\ UNCHANGED <<sessions, resources, exit>>

(* Mutant: the transaction is forgotten.                                   *)
DisconnectForgetsTx(t) ==
    /\ pc[t] = "discRelease"
    /\ Goto(t, "discCatalog")
    /\ UNCHANGED <<registry, resources, exit>>

(* manager.go:214-216: the transaction captured above is rolled back.      *)
DisconnectRollback(t) ==
    /\ pc[t] = "discRelease"
    /\ txOpen' = txOpen \ {ctx[t]}
    /\ Goto(t, "discCatalog")
    /\ UNCHANGED <<registry, ses, catalogMu, exit>>

(* manager.go:217, catalog.go:73-80.                                       *)
DisconnectCatalog(t) ==
    /\ pc[t] = "discCatalog"
    /\ MuFree(cobj[t])
    /\ SetSession(cobj[t], [ses[cobj[t]] EXCEPT !.catalog = FALSE])
    /\ Goto(t, "discDB")
    /\ UNCHANGED <<registry, catalogMu, txOpen, exit>>

Closed(db) == IF db = "open" THEN "closed" ELSE db

(* Mutant: returns without closing the handle.                             *)
DisconnectKeepsDB(t) ==
    /\ pc[t] = "discDB"
    /\ Return(t)
    /\ UNCHANGED <<registry, resources, exit>>

(* manager.go:218-221.                                                     *)
DisconnectDB(t) ==
    /\ pc[t] = "discDB"
    /\ SetSession(cobj[t], [ses[cobj[t]] EXCEPT !.db = Closed(@)])
    /\ Return(t)
    /\ UNCHANGED <<registry, catalogMu, txOpen, exit>>

-----------------------------------------------------------------------------
(* Metadata calls, on a worker                                             *)

(* LoadSchema, TableDetails, DBInfo: fetch the pointer.                    *)
MetadataStart(w, id) ==
    /\ pc[w] = "idle" /\ ~exiting
    /\ Registered(id)
    /\ Enter(w, "catWait", id, sessions[id])
    /\ UNCHANGED <<registry, resources, exit>>

(* RefreshSchema: the same, but it first forgets a failed catalog open.    *)
RefreshStart(w, id) ==
    /\ pc[w] = "idle" /\ ~exiting
    /\ Registered(id)
    /\ Enter(w, "refresh", id, sessions[id])
    /\ UNCHANGED <<registry, resources, exit>>

RefreshRetry(w) ==
    /\ pc[w] = "refresh"
    /\ MuFree(cobj[w])
    /\ SetSession(cobj[w], [ses[cobj[w]] EXCEPT !.catalogErr = FALSE])
    /\ Goto(w, "lookup")
    /\ UNCHANGED <<registry, catalogMu, txOpen, exit>>

RefreshLookup(w) ==
    /\ pc[w] = "lookup"
    /\ IF Registered(cid[w])
         THEN Enter(w, "catWait", cid[w], sessions[cid[w]])
         ELSE Return(w)
    /\ UNCHANGED <<registry, resources, exit>>

(* Mutant: opens also for a session without a connection string.           *)
CatalogRefusedOnError(o) == ~ses[o].catalog /\ ses[o].catalogErr

(* withCatalog, catalog.go:54-62: under catalogMu, which stays held while  *)
(* the catalog is opened and used.                                         *)
CatalogRefused(o) == ~ses[o].catalog /\ (~ses[o].connStr \/ ses[o].catalogErr)

CatalogUnavailable(w) ==
    /\ pc[w] = "catWait"
    /\ MuFree(cobj[w])
    /\ CatalogRefused(cobj[w])
    /\ Return(w)
    /\ UNCHANGED <<registry, resources, exit>>

CatalogEnter(w) ==
    /\ pc[w] = "catWait"
    /\ MuFree(cobj[w])
    /\ ~CatalogRefused(cobj[w])
    /\ catalogMu' = [catalogMu EXCEPT ![cobj[w]] = w]
    /\ Goto(w, IF ses[cobj[w]].catalog THEN "catCall" ELSE "catOpen")
    /\ UNCHANGED <<registry, ses, txOpen, exit>>

CatalogOpened(w) ==
    /\ pc[w] = "catOpen"
    /\ SetSession(cobj[w], [ses[cobj[w]] EXCEPT !.catalog = TRUE])
    /\ Goto(w, "catCall")
    /\ UNCHANGED <<registry, catalogMu, txOpen, exit>>

(* Mutant: an early return without Unlock.                                 *)
CatalogOpenFailsLocked(w) ==
    /\ pc[w] = "catOpen"
    /\ SetSession(cobj[w], [ses[cobj[w]] EXCEPT !.catalogErr = TRUE])
    /\ Return(w)
    /\ UNCHANGED <<registry, catalogMu, txOpen, exit>>

CatalogOpenFails(w) ==
    /\ pc[w] = "catOpen"
    /\ SetSession(cobj[w], [ses[cobj[w]] EXCEPT !.catalogErr = TRUE])
    /\ catalogMu' = [catalogMu EXCEPT ![cobj[w]] = NoThread]
    /\ Return(w)
    /\ UNCHANGED <<registry, txOpen, exit>>

(* Mutant: the catalog call returns with the lock held.                    *)
CatalogDoneLocked(w) ==
    /\ pc[w] = "catCall"
    /\ Return(w)
    /\ UNCHANGED <<registry, resources, exit>>

(* The catalog call ends; TableDetails makes four in a row with the same   *)
(* pointer, the others return.                                             *)
CatalogDone(w) ==
    /\ pc[w] = "catCall"
    /\ catalogMu' = [catalogMu EXCEPT ![cobj[w]] = NoThread]
    /\ Goto(w, "catWait") \/ Return(w)
    /\ UNCHANGED <<registry, ses, txOpen, exit>>

-----------------------------------------------------------------------------
(* The UI thread                                                           *)

UIIdle == pc[UI] = "idle"
HasActive == activeID # NoId /\ Registered(activeID)
Active == sessions[activeID]

(* manager.go:62-70, from the session combo box.                           *)
SetActiveSession(id) ==
    /\ UIIdle
    /\ Registered(id)
    /\ activeID' = id
    /\ UNCHANGED <<sessions, resources, calls, exit>>

(* disconnectActive: enabled when the active session has a DB handle.      *)
DisconnectCommand ==
    /\ UIIdle /\ HasActive
    /\ ses[Active].db # "none"
    /\ Enter(UI, "disc", activeID, NoObj)
    /\ UNCHANGED <<registry, resources, exit>>

(* BeginTx checks Tx and opens the transaction outside the lock, then      *)
(* stores it under the lock.                                               *)
BeginTx(x) ==
    /\ UIIdle /\ HasActive
    /\ ses[Active].db = "open" /\ ses[Active].tx = NoTx
    /\ x \notin txOpen
    /\ txOpen' = txOpen \union {x}
    /\ pc' = [pc EXCEPT ![UI] = "txSet"]
    /\ cid' = [cid EXCEPT ![UI] = activeID]
    /\ cobj' = [cobj EXCEPT ![UI] = Active]
    /\ ctx' = [ctx EXCEPT ![UI] = x]
    /\ UNCHANGED <<registry, ses, catalogMu, exit>>

BeginTxSet ==
    /\ pc[UI] = "txSet"
    /\ SetSession(cobj[UI], [ses[cobj[UI]] EXCEPT !.tx = ctx[UI]])
    /\ Return(UI)
    /\ UNCHANGED <<registry, catalogMu, txOpen, exit>>

(* CommitTx and RollbackTx end the transaction, then forget it, whether or *)
(* not the driver reported an error.                                       *)
EndTx ==
    /\ UIIdle /\ HasActive
    /\ ses[Active].tx # NoTx
    /\ txOpen' = txOpen \ {ses[Active].tx}
    /\ Enter(UI, "txClear", activeID, Active)
    /\ UNCHANGED <<registry, ses, catalogMu, exit>>

EndTxClear ==
    /\ pc[UI] = "txClear"
    /\ SetSession(cobj[UI], [ses[cobj[UI]] EXCEPT !.tx = NoTx])
    /\ Return(UI)
    /\ UNCHANGED <<registry, catalogMu, txOpen, exit>>

(* CachedDBInfo takes catalogMu to read the cached info.                   *)
CachedDBInfo ==
    /\ UIIdle /\ HasActive
    /\ Enter(UI, "infoWait", activeID, Active)
    /\ UNCHANGED <<registry, resources, exit>>

CachedDBInfoRead ==
    /\ pc[UI] = "infoWait"
    /\ MuFree(cobj[UI])
    /\ Return(UI)
    /\ UNCHANGED <<registry, resources, exit>>

(* The Closing handler: DisconnectAll disconnects every session that is in *)
(* the list it took, those still connecting included.                      *)
Connecting(id) == \E w \in Workers : pc[w] \in ConnectPCs /\ cid[w] = id

Exit ==
    /\ UIIdle /\ ~exiting
    /\ ExitWhileConnecting \/ \A id \in Ids : ~Connecting(id)
    /\ exiting' = TRUE
    /\ closing' = RegisteredIds
    /\ Goto(UI, "exit")
    /\ UNCHANGED <<registry, resources>>

ExitDisconnect(id) ==
    /\ pc[UI] = "exit"
    /\ id \in closing
    /\ closing' = closing \ {id}
    /\ Enter(UI, "disc", id, NoObj)
    /\ UNCHANGED <<registry, resources, exiting>>

ExitDone ==
    /\ pc[UI] = "exit"
    /\ closing = {}
    /\ Goto(UI, "exited")
    /\ UNCHANGED <<registry, resources, exit>>

-----------------------------------------------------------------------------
ConnectStep(w) == DialFails(w) \/ ConnectError(w) \/ ConnectPublish(w)

DisconnectStep(t) ==
    \/ DisconnectRemove(t) \/ DisconnectClearConnStr(t) \/ DisconnectActive(t)
    \/ DisconnectRollback(t) \/ DisconnectCatalog(t) \/ DisconnectDB(t)

MetadataStep(w) ==
    \/ RefreshRetry(w) \/ RefreshLookup(w) \/ CatalogUnavailable(w)
    \/ CatalogEnter(w) \/ CatalogOpened(w) \/ CatalogOpenFails(w)
    \/ CatalogDone(w)

UIStep == BeginTxSet \/ EndTxClear \/ CachedDBInfoRead

ExitStep == ExitDone \/ \E id \in Ids : ExitDisconnect(id)

WorkerStart(w, id) ==
    ConnectRegister(w, id) \/ MetadataStart(w, id) \/ RefreshStart(w, id)

UIStart ==
    \/ \E id \in Ids : SetActiveSession(id)
    \/ DisconnectCommand \/ EndTx \/ CachedDBInfo \/ Exit
    \/ \E x \in Txs : BeginTx(x)

(* The process has ended its calls after the window closed.                *)
Exited ==
    /\ \A t \in Threads : pc[t] = IF t = UI THEN "exited" ELSE "idle"
    /\ UNCHANGED vars

Next ==
    \/ \E w \in Workers : ConnectStep(w) \/ MetadataStep(w)
    \/ \E t \in Threads : DisconnectStep(t)
    \/ \E w \in Workers, id \in Ids : WorkerStart(w, id)
    \/ UIStep \/ ExitStep \/ UIStart \/ Exited

Spec == Init /\ [][Next]_vars

-----------------------------------------------------------------------------
(* Safety                                                                  *)

(* Disconnect of id is between taking it out of the map and choosing       *)
(* another active session.                                                 *)
Disconnecting(id) ==
    \E t \in Threads : pc[t] \in {"discConnStr", "discActive"} /\ cid[t] = id

(* The active id names a registered session, or the Disconnect that took   *)
(* it out is about to replace it: ActiveSession's "active session not      *)
(* found" (manager.go:57) is only ever transient.                          *)
ActiveIsRegistered ==
    activeID # NoId => Registered(activeID) \/ Disconnecting(activeID)

(* While any session is registered one is active: a Connect that overtakes *)
(* a Disconnect never leaves the Manager with sessions and none active     *)
(* (manager.go:120-122, 201-208).                                          *)
SomeSessionActive == activeID = NoId => RegisteredIds = {}

(* A Disconnect that still has to release what object o holds.             *)
Releasing(o, pcs) == \E t \in Threads : cobj[t] = o /\ pc[t] \in pcs

(* No database handle is left open on a session nobody can reach any more  *)
(* (manager.go:132-158 against 185-222).                                   *)
NoHandleLeak ==
    \A o \in Objs : ses[o].db = "open" => Live(o) \/ Releasing(o, DisconnectPCs)

(* Nor is a native catalog connection, in use or being opened by a metadata *)
(* call that fetched the session earlier (catalog.go:50-80).               *)
NoCatalogLeak ==
    \A o \in Objs :
        ses[o].catalog \/ (\E w \in Workers : cobj[w] = o /\ pc[w] = "catOpen")
        => Live(o) \/ Releasing(o, DisconnectPCs \ {"discDB"})

(* Every transaction open at the database can still be ended: the session  *)
(* that is registered, or the Disconnect in flight, or the BeginTx that is *)
(* about to store it, holds it (manager.go:193-216, 248-297).              *)
NoOrphanTransaction ==
    \A x \in txOpen :
        \/ \E o \in Objs : Live(o) /\ ses[o].tx = x
        \/ \E t \in Threads : ctx[t] = x /\ pc[t] \in DisconnectPCs \union {"txSet"}

(* "No new native catalog connection may be opened for a closed session    *)
(* (an in-flight schema load could otherwise reopen and leak one)",        *)
(* manager.go:196-197: once Disconnect is past that point the session's    *)
(* catalog never goes from closed to open.                                 *)
CatalogOpens(o) == ~ses[o].catalog /\ ses'[o].catalog

ClosedSessionOpensNoCatalog ==
    [][\A o \in Objs :
          CatalogOpens(o) => Live(o) \/ Releasing(o, {"discConnStr"})]_vars

(* CachedDBInfo "never touches the database, so the UI thread can call it" *)
(* (catalog.go:82-83): it does not wait for a database call either.        *)
CachedInfoNeverWaits ==
    pc[UI] = "infoWait" =>
        \A w \in Workers :
            catalogMu[cobj[UI]] = w => pc[w] \notin {"catOpen", "catCall"}

-----------------------------------------------------------------------------
(* Liveness                                                                *)

(* Goroutines with work run; a catalog call returns in the end; sync.Mutex *)
(* does not starve a waiter (its starvation mode), hence strong fairness   *)
(* on the two steps of Disconnect that take catalogMu.                     *)
Fairness ==
    /\ \A t \in Threads :
         /\ WF_vars(DisconnectStep(t))
         /\ SF_vars(DisconnectClearConnStr(t))
         /\ SF_vars(DisconnectCatalog(t))
    /\ \A w \in Workers :
         WF_vars(CatalogOpened(w) \/ CatalogOpenFails(w) \/ CatalogDone(w))
    /\ WF_vars(ExitStep)

FairSpec == Spec /\ Fairness

(* Every Disconnect, the user's and a failed Connect's, returns although    *)
(* metadata calls keep taking the catalog lock.                            *)
DisconnectReturns ==
    \A t \in Threads : pc[t] = "disc" ~> pc[t] \in {"idle", "exit"}

(* Closing the window ends: DisconnectAll gets through its list.           *)
ExitCompletes == exiting ~> pc[UI] = "exited"

=============================================================================
