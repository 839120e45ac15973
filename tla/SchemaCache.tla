---------------------------- MODULE SchemaCache ----------------------------
(***************************************************************************)
(* The schema browser: metadata loads of internal/odbc/schema.go, the      *)
(* per-session cache of schema_cache.go and the tree of internal/ui that   *)
(* shows a snapshot.                                                       *)
(*                                                                         *)
(* A load looks into the cache, asks the database in several calls, stores *)
(* the answer and hands it to the window.  Loads and details calls run on  *)
(* goroutines of their own; typing in the search box loads on the UI       *)
(* thread.  Nothing orders them: F8 invalidates the cache while an earlier *)
(* load is still reading.                                                  *)
(*                                                                         *)
(* A Go map is shared by reference: the Columns map of a cached snapshot   *)
(* is the one the window shows.  Snapshots are values here, and sharers    *)
(* says who holds the very map of the cached one, so that a write through  *)
(* a shared map reaches the cache.  What the database says is abstracted   *)
(* to the session it was read from and a version that grows with every     *)
(* change of the schema.                                                   *)
(***************************************************************************)
EXTENDS Naturals

CONSTANTS
    Sessions,   \* connected sessions
    Tables,     \* table names; every database has tables of these names
    NameHits,   \* the tables whose name contains the search text
    Jobs,       \* goroutines
    UIThread,   \* the UI thread
    MaxEvents,  \* bound on schema changes and switches of the session, in all
    Tree,       \* the window, as a holder of a snapshot
    NoSnap, NoTable, NoCols, NoOwner, NoSession

ASSUME SchemaConstants ==
    /\ NameHits \subseteq Tables
    /\ MaxEvents \in Nat
    /\ UIThread \notin Jobs /\ Tree \notin Jobs \union {UIThread}
    /\ NoTable \notin Tables
    /\ NoOwner \notin Jobs \union {UIThread}
    /\ NoSession \notin Sessions

Callers == Jobs \union {UIThread}
Versions == 0..MaxEvents
Searches == {"", "text"}    \* the search box: empty or not

VARIABLES
    db,         \* version of each session's database schema
    schema,     \* SchemaCache.schema of each session
    sharers,    \* who holds the Columns map of that snapshot, too
    details,    \* SchemaCache.details of each session
    cacheMu,    \* Session.catalogMu: the thread that holds it
    call,       \* the metadata call each thread is in
    active,     \* Manager.activeID
    search,     \* text of the search box
    tree,       \* applicationUI.schemaSnapshot
    selected,   \* applicationUI.selectedSchemaID
    latest,     \* thread of the call that carries the current detailsGen
    shown,      \* table and columns in the details pane
    events,     \* schema changes and switches so far
    floor,      \* ghost: version of the database at the last refresh
    overlapped  \* ghost: a call had read but not stored its answer then

cacheVars == <<schema, sharers, details>>
windowVars == <<tree, selected, latest, shown>>
ghosts == <<events, floor, overlapped>>
schemaVars == <<db, schema, sharers, details, cacheMu, call, active, search, tree,
          selected, latest, shown, events, floor, overlapped>>

-----------------------------------------------------------------------------
Cols == [of : Sessions, at : Versions]
Columns == UNION {[ts -> Cols] : ts \in SUBSET Tables}
Snapshot == [at : Versions, tables : SUBSET Tables, columns : Columns]

LoadPCs == {"invalidate", "relock", "check", "wait", "catTables", "catCols",
            "sqlTables", "sqlCols", "put", "show"}
DetailPCs == {"dcheck", "dwait", "dcat", "dsql", "dput", "dshow"}

NoCall == [pc |-> "idle", s |-> NoSession, q |-> "", table |-> NoTable,
         snap |-> NoSnap, cols |-> NoCols]

Call == [pc : {"idle"} \union LoadPCs \union DetailPCs,
         s : Sessions \union {NoSession}, q : Searches,
         table : Tables \union {NoTable}, snap : Snapshot \union {NoSnap},
         cols : Cols \union {NoCols}]

SchemaTypeOK ==
    /\ db \in [Sessions -> Versions]
    /\ schema \in [Sessions -> Snapshot \union {NoSnap}]
    /\ sharers \in [Sessions -> SUBSET (Callers \union {Tree})]
    /\ details \in [Sessions -> [Tables -> [cols : Cols \union {NoCols}]
                                             \union {NoTable}]]
    /\ cacheMu \in [Sessions -> Callers \union {NoOwner}]
    /\ call \in [Callers -> Call]
    /\ active \in Sessions /\ search \in Searches
    /\ tree \in Snapshot \union {NoSnap}
    /\ selected \in Tables \union {NoTable}
    /\ latest \in Jobs \union {NoOwner}
    /\ shown \in [table : Tables, cols : Cols \union {NoCols}] \union {NoTable}
    /\ events \in 0..MaxEvents
    /\ floor \in [Sessions -> Versions]
    /\ overlapped \in [Sessions -> BOOLEAN]

SchemaInit ==
    /\ db = [s \in Sessions |-> 0]
    /\ schema = [s \in Sessions |-> NoSnap]
    /\ sharers = [s \in Sessions |-> {}]
    /\ details = [s \in Sessions |-> [t \in Tables |-> NoTable]]
    /\ cacheMu = [s \in Sessions |-> NoOwner]
    /\ call = [t \in Callers |-> NoCall]
    /\ active \in Sessions
    /\ search = ""
    /\ tree = NoSnap /\ selected = NoTable
    /\ latest = NoOwner /\ shown = NoTable
    /\ events = 0
    /\ floor = [s \in Sessions |-> 0]
    /\ overlapped = [s \in Sessions |-> FALSE]

-----------------------------------------------------------------------------
(* Snapshots                                                               *)

(* filterSnapshot: the tables whose name matches, or some column of which  *)
(* is loaded and matches (one does, in every table).  The result has a map *)
(* of its own.                                                             *)
Filter(snap) ==
    LET hits == snap.tables \intersect (NameHits \union DOMAIN snap.columns)
    IN [snap EXCEPT
          !.tables = hits,
          !.columns = [t \in hits \intersect DOMAIN snap.columns |->
                         snap.columns[t]]]

(* What a caller gets of a snapshot: itself, or a filtered copy.           *)
Searched(snap, q) == IF q = "" THEN snap ELSE Filter(snap)

(* Holder h drops the map it holds; it now also holds the map of the       *)
(* cached snapshot of the sessions in ss.                                  *)
Holds(h, ss) ==
    sharers' = [s \in Sessions |-> IF s \in ss THEN sharers[s] \union {h}
                                  ELSE sharers[s] \ {h}]

SharedBy(h) == {s \in Sessions : h \in sharers[s]}

-----------------------------------------------------------------------------
(* Calls                                                                   *)

UIFree == call[UIThread].pc = "idle"

SetCall(t, c) == call' = [call EXCEPT ![t] = c]
GoOn(t, where) == SetCall(t, [call[t] EXCEPT !.pc = where])

Answered(t, snap) ==
    SetCall(t, [call[t] EXCEPT !.pc = "show", !.snap = snap])

(* loadSchema: Refresh (forced), or the load that follows a connect.  Its  *)
(* goroutine then asks for DBInfo (walk_windows.go:1429), which changes    *)
(* nothing here; that it may wait for catalogMu is in SessionManager.      *)
StartLoad(j, forced) ==
    /\ UIFree
    /\ call[j].pc = "idle"
    /\ SetCall(j, [NoCall EXCEPT !.pc = IF forced THEN "invalidate" ELSE "check",
                               !.s = active, !.q = search])
    /\ UNCHANGED <<db, cacheVars, cacheMu, active, search,
                   windowVars, ghosts>>

(* TextChanged of the search box: refreshSchemaList loads on the UI thread.*)
TypeSearch(q) ==
    /\ UIFree
    /\ q # search
    /\ search' = q
    /\ SetCall(UIThread, [NoCall EXCEPT !.pc = "check", !.s = active, !.q = q])
    /\ UNCHANGED <<db, cacheVars, cacheMu, active, windowVars, ghosts>>

(* A call on s has an answer in hand that it has not stored yet.           *)
Reading(t, s) == /\ call[t].s = s
                 /\ call[t].pc \in {"catCols", "sqlCols", "put", "dput"}

(* Mutant: the details stay in the cache.                                  *)
InvalidateSchemaOnly(t) ==
    /\ call[t].pc = "invalidate"
    /\ LET s == call[t].s IN
         /\ schema' = [schema EXCEPT ![s] = NoSnap]
         /\ sharers' = [sharers EXCEPT ![s] = {}]
         /\ floor' = [floor EXCEPT ![s] = db[s]]
         /\ overlapped' = [overlapped EXCEPT
                             ![s] = \E u \in Callers : Reading(u, s)]
    /\ GoOn(t, "relock")
    /\ UNCHANGED <<db, details, cacheMu, active, search, windowVars, events>>

(* RefreshSchema: Invalidate.                                              *)
Invalidate(t) ==
    /\ call[t].pc = "invalidate"
    /\ LET s == call[t].s IN
         /\ schema' = [schema EXCEPT ![s] = NoSnap]
         /\ sharers' = [sharers EXCEPT ![s] = {}]
         /\ details' = [details EXCEPT ![s] = [x \in Tables |-> NoTable]]
         /\ floor' = [floor EXCEPT ![s] = db[s]]
         /\ overlapped' = [overlapped EXCEPT
                             ![s] = \E u \in Callers : Reading(u, s)]
    /\ GoOn(t, "relock")
    /\ UNCHANGED <<db, cacheMu, active, search, windowVars, events>>

(* ... then a failed catalog is forgotten, under catalogMu.                *)
ForgetCatalogError(t) ==
    /\ call[t].pc = "relock"
    /\ cacheMu[call[t].s] = NoOwner
    /\ GoOn(t, "check")
    /\ UNCHANGED <<db, cacheVars, cacheMu, active, search, windowVars,
                   ghosts>>

(* LoadSchema with a cached snapshot: shared as it is without a search     *)
(* text, filtered into a new one otherwise.                                *)
CheckHit(t) ==
    /\ call[t].pc = "check"
    /\ LET s == call[t].s  q == call[t].q IN
         /\ schema[s] # NoSnap
         /\ Answered(t, Searched(schema[s], q))
         /\ Holds(t, IF q = "" THEN {s} ELSE {})
    /\ UNCHANGED <<db, schema, details, cacheMu, active, search, windowVars,
                   ghosts>>

CheckMiss(t) ==
    /\ call[t].pc = "check"
    /\ schema[call[t].s] = NoSnap
    /\ GoOn(t, "wait")
    /\ UNCHANGED <<db, cacheVars, cacheMu, active, search, windowVars,
                   ghosts>>

-----------------------------------------------------------------------------
(* withCatalog and the fallbacks                                           *)

(* withCatalog takes the session's mutex for the whole of fn.              *)
EnterCatalog(t) ==
    /\ call[t].pc \in {"wait", "dwait"}
    /\ cacheMu[call[t].s] = NoOwner
    /\ cacheMu' = [cacheMu EXCEPT ![call[t].s] = t]
    /\ GoOn(t, IF call[t].pc = "wait" THEN "catTables" ELSE "dcat")
    /\ UNCHANGED <<db, cacheVars, active, search, windowVars, ghosts>>

Release(t) == cacheMu' = [cacheMu EXCEPT ![call[t].s] = NoOwner]

(* No catalog, it cannot be opened, it fails, or it answers nothing.       *)
CatalogFails(t) ==
    /\ call[t].pc \in {"catTables", "dcat"}
    /\ Release(t)
    /\ GoOn(t, IF call[t].pc = "catTables" THEN "sqlTables" ELSE "dsql")
    /\ UNCHANGED <<db, cacheVars, active, search, windowVars, ghosts>>

(* SQLTables under the mutex, or loadTables without it.                    *)
ReadTables(t) ==
    /\ call[t].pc \in {"catTables", "sqlTables"}
    /\ SetCall(t, [call[t] EXCEPT
                     !.pc = IF @ = "catTables" THEN "catCols" ELSE "sqlCols",
                     !.cols = [of |-> call[t].s, at |-> db[call[t].s]]])
    /\ UNCHANGED <<db, cacheVars, cacheMu, active, search, windowVars,
                   ghosts>>

(* loadTables fails: an error for the window, nothing cached.              *)
SqlTablesFail(t) ==
    /\ call[t].pc = "sqlTables"
    /\ Answered(t, NoSnap)
    /\ UNCHANGED <<db, cacheVars, cacheMu, active, search, windowVars,
                   ghosts>>

(* Columns for the whole schema, table by table, or for none of them (too  *)
(* many tables, or the driver refuses); the error of one table skips it.   *)
ReadColumns(t) ==
    /\ call[t].pc \in {"catCols", "sqlCols"}
    /\ LET s == call[t].s IN
       \E covered \in SUBSET Tables :
         /\ SetCall(t, [call[t] EXCEPT !.pc = "put", !.cols = NoCols,
                          !.snap = [at |-> call[t].cols.at, tables |-> Tables,
                                    columns |-> [x \in covered |->
                                      [of |-> s, at |-> db[s]]]]])
         /\ IF call[t].pc = "catCols" THEN Release(t) ELSE UNCHANGED cacheMu
    /\ UNCHANGED <<db, cacheVars, active, search, windowVars, ghosts>>

(* PutSchema: the whole snapshot is cached, the filtered one is shown.     *)
PutSchema(t) ==
    /\ call[t].pc = "put"
    /\ LET s == call[t].s  q == call[t].q IN
         /\ schema' = [schema EXCEPT ![s] = call[t].snap]
         /\ Answered(t, Searched(call[t].snap, q))
         /\ sharers' = [sharers EXCEPT ![s] = IF q = "" THEN {t} ELSE {}]
    /\ UNCHANGED <<db, details, cacheMu, active, search, windowVars, ghosts>>

-----------------------------------------------------------------------------
(* Table details: of them the columns are followed; keys and indexes are   *)
(* read, stored and shown in the same steps.                               *)

(* A table is selected in the tree: showTableDetails asks the session that *)
(* is active now, under a new detailsGen.                                  *)
SelectTable(j, table) ==
    /\ UIFree
    /\ call[j].pc = "idle"
    /\ tree # NoSnap
    /\ table \in tree.tables \ {selected}
    /\ selected' = table
    /\ latest' = j
    /\ SetCall(j, [NoCall EXCEPT !.pc = "dcheck", !.s = active, !.table = table])
    /\ UNCHANGED <<db, cacheVars, cacheMu, active, search, tree, shown,
                   ghosts>>

(* A group or the database information is selected.                        *)
SelectOther ==
    /\ UIFree
    /\ selected # NoTable
    /\ selected' = NoTable
    /\ UNCHANGED <<db, cacheVars, cacheMu, call, active, search, tree,
                   latest, shown, ghosts>>

CheckDetails(t) ==
    /\ call[t].pc = "dcheck"
    /\ LET cached == details[call[t].s][call[t].table] IN
         IF cached = NoTable THEN GoOn(t, "dwait")
         ELSE SetCall(t, [call[t] EXCEPT !.pc = "dshow", !.cols = cached.cols])
    /\ UNCHANGED <<db, cacheVars, cacheMu, active, search, windowVars,
                   ghosts>>

(* The catalog's columns, or those of the SQL fallback, or none.           *)
ReadDetails(t) ==
    /\ call[t].pc \in {"dcat", "dsql"}
    /\ LET s == call[t].s IN
       \E cols \in {[of |-> s, at |-> db[s]]}
                     \union (IF call[t].pc = "dsql" THEN {NoCols} ELSE {}) :
         SetCall(t, [call[t] EXCEPT !.pc = "dput", !.cols = cols])
    /\ IF call[t].pc = "dcat" THEN Release(t) ELSE UNCHANGED cacheMu
    /\ UNCHANGED <<db, cacheVars, active, search, windowVars, ghosts>>

PutTableDetails(t) ==
    /\ call[t].pc = "dput"
    /\ details' = [details EXCEPT
                     ![call[t].s][call[t].table] = [cols |-> call[t].cols]]
    /\ GoOn(t, "dshow")
    /\ UNCHANGED <<db, schema, sharers, cacheMu, active, search, windowVars,
                   ghosts>>

-----------------------------------------------------------------------------
(* The window                                                              *)

CallReturns(t) == SetCall(t, NoCall)

(* setSchemaSnapshot: a new tree; nothing is selected, no details shown.   *)
SetSchemaSnapshot(snap) ==
    /\ tree' = snap
    /\ selected' = NoTable
    /\ shown' = NoTable
    /\ UNCHANGED latest

(* The callback of a load; on the UI thread the load returns to it.        *)
ShowSnapshot(t) ==
    /\ call[t].pc = "show"
    /\ t = UIThread \/ UIFree
    /\ IF call[t].snap = NoSnap THEN UNCHANGED <<windowVars, sharers>>
       ELSE /\ SetSchemaSnapshot(call[t].snap)
            /\ sharers' = [s \in Sessions |->
                             IF t \in sharers[s]
                               THEN (sharers[s] \ {t}) \union {Tree}
                               ELSE sharers[s] \ {Tree}]
    /\ CallReturns(t)
    /\ UNCHANGED <<db, schema, details, cacheMu, active, search, ghosts>>

(* OK in Settings shows the present snapshot again.                        *)
ApplySettings ==
    /\ UIFree
    /\ tree # NoSnap
    /\ SetSchemaSnapshot(tree)
    /\ UNCHANGED <<db, cacheVars, cacheMu, call, active, search, ghosts>>

Lazy(table, cols) ==
    cols # NoCols /\ tree # NoSnap /\ table \notin DOMAIN tree.columns

WithColumns(snap, table, cols) ==
    [snap EXCEPT !.columns = [x \in DOMAIN snap.columns \union {table} |->
                    IF x = table THEN cols ELSE snap.columns[x]]]

(* Mutant: the columns go into the map the snapshot came with.             *)
AddColumnsInPlace(table, cols) ==
    IF ~Lazy(table, cols) THEN UNCHANGED <<tree, schema, sharers>>
    ELSE /\ tree' = WithColumns(tree, table, cols)
         /\ schema' = [s \in Sessions |->
                          IF Tree \in sharers[s]
                            THEN WithColumns(schema[s], table, cols)
                            ELSE schema[s]]
         /\ UNCHANGED sharers

(* addLazyColumns: into a copy of the map, which the window then shows.    *)
AddLazyColumns(table, cols) ==
    IF ~Lazy(table, cols) THEN UNCHANGED <<tree, schema, sharers>>
    ELSE /\ tree' = WithColumns(tree, table, cols)
         /\ Holds(Tree, {})
         /\ UNCHANGED schema

(* The callback of a details call; an outdated one does nothing.           *)
ShowDetails(t) ==
    /\ call[t].pc = "dshow"
    /\ UIFree
    /\ IF t # latest THEN UNCHANGED <<tree, schema, sharers, shown>>
       ELSE /\ AddLazyColumns(call[t].table, call[t].cols)
            /\ shown' = [table |-> call[t].table, cols |-> call[t].cols]
    /\ CallReturns(t)
    /\ UNCHANGED <<db, details, cacheMu, active, search, selected, latest,
                   ghosts>>

Bounded == events < MaxEvents /\ events' = events + 1

(* The session box: another session is active, the tree stays as it is.    *)
SwitchSession(s) ==
    /\ UIFree
    /\ s # active
    /\ active' = s
    /\ Bounded
    /\ UNCHANGED <<db, cacheVars, cacheMu, call, search, windowVars, floor,
                   overlapped>>

(* DDL, from this program or another one.                                  *)
SchemaChanges(s) ==
    /\ Bounded
    /\ db' = [db EXCEPT ![s] = @ + 1]
    /\ UNCHANGED <<cacheVars, cacheMu, call, active, search, windowVars,
                   floor, overlapped>>

-----------------------------------------------------------------------------
CallStep(t) ==
    \/ Invalidate(t) \/ ForgetCatalogError(t)
    \/ CheckHit(t) \/ CheckMiss(t)
    \/ EnterCatalog(t) \/ CatalogFails(t)
    \/ ReadTables(t) \/ SqlTablesFail(t) \/ ReadColumns(t) \/ PutSchema(t)
    \/ CheckDetails(t) \/ ReadDetails(t) \/ PutTableDetails(t)
    \/ ShowSnapshot(t) \/ ShowDetails(t)

UserStep ==
    \/ \E j \in Jobs, forced \in BOOLEAN : StartLoad(j, forced)
    \/ \E q \in Searches : TypeSearch(q)
    \/ \E j \in Jobs, table \in Tables : SelectTable(j, table)
    \/ SelectOther
    \/ ApplySettings
    \/ \E s \in Sessions : SwitchSession(s)

SchemaNext ==
    \/ \E t \in Callers : CallStep(t)
    \/ UserStep
    \/ \E s \in Sessions : SchemaChanges(s)

SchemaSpec == SchemaInit /\ [][SchemaNext]_schemaVars

-----------------------------------------------------------------------------
(* Properties                                                              *)

HasColumns(s, t) == details[s][t] # NoTable /\ details[s][t].cols # NoCols

(* A session's cache holds that session's data, although the window puts   *)
(* what another session said about a table into the snapshot it shows      *)
(* (schema_tree_windows.go:206-217).                                       *)
CacheIsOwn ==
    \A s \in Sessions :
      /\ schema[s] # NoSnap => \A t \in DOMAIN schema[s].columns :
                                schema[s].columns[t].of = s
      /\ \A t \in Tables : HasColumns(s, t) => details[s][t].cols.of = s

(* A cached snapshot is replaced as a whole, by a load that stores its     *)
(* own; nothing is written into the map that background loads read         *)
(* (schema_tree_windows.go:210-211).                                       *)
CachedMapsFrozen ==
    [][\A s \in Sessions :
         schema[s] # NoSnap /\ schema'[s] \notin {schema[s], NoSnap}
           => \E t \in Callers : call[t].pc = "put" /\ call[t].s = s
                                 /\ schema'[s] = call[t].snap]_schemaVars

(* After a refresh the cache is never older than the refresh, snapshot and *)
(* details alike, unless another call had read but not yet stored its      *)
(* answer when the refresh emptied the cache (schema.go:90-101,            *)
(* schema_cache.go:48-53).                                                 *)
RefreshIsHonoured ==
    \A s \in Sessions : ~overlapped[s] =>
      /\ schema[s] # NoSnap => schema[s].at >= floor[s]
      /\ \A t \in Tables : HasColumns(s, t) => details[s][t].cols.at >= floor[s]

=============================================================================
