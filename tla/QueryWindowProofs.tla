------------------------- MODULE QueryWindowProofs -------------------------
(***************************************************************************)
(* What stands around the statement that runs.  First the schema: what a   *)
(* cache holds is its session's, no older than the last refresh, and never *)
(* written into, for any number of sessions, tables, calls and changes.    *)
(* Then the tabs: no text is lost unasked and the next start opens what    *)
(* was open, for any number of tabs, files and failures.  Last, that in    *)
(* QueryWindow both do what their own specifications say.                  *)
(***************************************************************************)
EXTENDS QueryWindow, PlacesProofs, SequenceTheorems

-----------------------------------------------------------------------------
(* The schema and its cache                                                *)

(* What the place in a call says about what it carries.                    *)
Carries(c) ==
    /\ c.pc # "idle" => c.s \in Sessions
    /\ c.pc \in DetailPCs => c.table \in Tables
    /\ c.pc \in {"catCols", "sqlCols"} => c.cols \in Cols
    /\ c.pc = "put" => c.snap \in Snapshot

Calls == call \in [Callers -> Call] /\ \A t \in Callers : Carries(call[t])

(* SchemaTypeOK of the rest, and that a schema changes, or the session is  *)
(* switched, at most once per event.                                       *)
Data ==
    /\ db \in [Sessions -> Versions] /\ \A s \in Sessions : db[s] <= events
    /\ schema \in [Sessions -> Snapshot \union {NoSnap}]
    /\ sharers \in [Sessions -> SUBSET (Callers \union {Tree})]
    /\ details \in [Sessions -> [Tables -> [cols : Cols \union {NoCols}]
                                             \union {NoTable}]]
    /\ cacheMu \in [Sessions -> Callers \union {NoOwner}]
    /\ active \in Sessions /\ search \in Searches
    /\ tree \in Snapshot \union {NoSnap}
    /\ selected \in Tables \union {NoTable}
    /\ latest \in Jobs \union {NoOwner}
    /\ shown \in [table : Tables, cols : Cols \union {NoCols}] \union {NoTable}
    /\ events \in 0..MaxEvents
    /\ floor \in [Sessions -> Versions]
    /\ overlapped \in [Sessions -> BOOLEAN]

(* A map of columns is a function of some of the tables.                   *)
LEMMA ColumnsType ==
    ASSUME NEW ts \in SUBSET Tables, NEW f \in [ts -> Cols]
    PROVE  f \in Columns
  BY DEF Columns

(* And its domain is among the tables.                                     *)
LEMMA ColumnsDomain ==
    ASSUME NEW f \in Columns
    PROVE  DOMAIN f \subseteq Tables /\ f \in [DOMAIN f -> Cols]
  BY DEF Columns

(* What a search finds in a snapshot is a snapshot (filterSnapshot).       *)
LEMMA FilterType ==
    ASSUME NEW snap \in Snapshot
    PROVE  Filter(snap) \in Snapshot
<1> DEFINE hits == snap.tables \intersect (NameHits \union DOMAIN snap.columns)
           kept == [t \in hits \intersect DOMAIN snap.columns |-> snap.columns[t]]
<1>1. snap \in [at : Versions, tables : SUBSET Tables, columns : Columns]
  BY DEF Snapshot
<1>2. /\ DOMAIN snap.columns \subseteq Tables
      /\ snap.columns \in [DOMAIN snap.columns -> Cols]
  BY <1>1, ColumnsDomain
<1>3. kept \in [hits \intersect DOMAIN snap.columns -> Cols]
  BY <1>2
<1>4. hits \in SUBSET Tables /\ kept \in Columns
  BY <1>1, <1>2, <1>3, ColumnsType
<1>5. Filter(snap) = [snap EXCEPT !.tables = hits, !.columns = kept]
  BY DEF Filter
<1> HIDE DEF hits, kept
<1> QED
  BY <1>1, <1>4, <1>5 DEF Snapshot

(* The version a schema starts with is one, and so is the count of events. *)
LEMMA ZeroVersion == 0 \in Versions /\ 0 \in 0..MaxEvents
  BY SchemaConstants DEF Versions

(* Nothing is cached or shown at the start.                                *)
LEMMA DataInit == SchemaInit => Data
<1> SUFFICES ASSUME SchemaInit PROVE Data
  OBVIOUS
<1> USE DEF SchemaInit
<1>1. ASSUME NEW s \in Sessions PROVE db[s] <= events
  <2>1. db[s] = 0 /\ events = 0
    OBVIOUS
  <2> HIDE DEF SchemaInit
  <2> QED
    BY <2>1
<1> QED
  BY <1>1, ZeroVersion DEF Data, Searches

(* A goroutine with no call carries nothing.                               *)
LEMMA IdleTyped == NoCall \in Call /\ Carries(NoCall)
  BY DEF NoCall, Call, Searches, Carries, LoadPCs, DetailPCs

(* No call is in flight at the start.                                      *)
LEMMA CallsInit == SchemaInit => Calls
  BY IdleTyped DEF SchemaInit, Calls

(* A call moves on: to be typed again it is enough that its record is.     *)
LEMMA SetCallTyped ==
    ASSUME Calls, NEW t \in Callers, NEW c \in Call, Carries(c), SetCall(t, c)
    PROVE  Calls'
<1>1. call' = [call EXCEPT ![t] = c]
  BY DEF SetCall
<1>2. \A u \in Callers : call'[u] = IF u = t THEN c ELSE call[u]
  BY <1>1 DEF Calls
<1>3. call' \in [Callers -> Call]
  BY <1>1 DEF Calls
<1> QED
  BY <1>2, <1>3 DEF Calls

(* A call that only moves on carries what it carried.                      *)
LEMMA GotoTyped ==
    ASSUME Calls, NEW t \in Callers, call[t].pc # "idle",
           NEW where \in (LoadPCs \union DetailPCs) \ {"catCols", "sqlCols", "put"},
           where \in DetailPCs => call[t].pc \in DetailPCs, GoOn(t, where)
    PROVE  Calls'
<1> DEFINE c == [call[t] EXCEPT !.pc = where]
<1>1. call[t] \in Call /\ Carries(call[t])
  BY DEF Calls
<1>2. c \in Call /\ Carries(c)
  BY <1>1 DEF Call, Carries, LoadPCs, DetailPCs
<1> QED
  BY <1>2, SetCallTyped DEF GoOn

(* A call that returns carries nothing.                                    *)
LEMMA ReturnTyped ==
    ASSUME Calls, NEW t \in Callers, CallReturns(t)
    PROVE  Calls'
  BY IdleTyped, SetCallTyped DEF CallReturns

(* A call has its answer, or an error in its place.                        *)
LEMMA AnsweredTyped ==
    ASSUME Calls, NEW t \in Callers, call[t].pc # "idle",
           NEW snap \in Snapshot \union {NoSnap}, Answered(t, snap)
    PROVE  Calls'
<1> DEFINE c == [call[t] EXCEPT !.pc = "show", !.snap = snap]
<1>1. call[t] \in Call /\ Carries(call[t])
  BY DEF Calls
<1>2. c \in Call /\ Carries(c)
  BY <1>1 DEF Call, Carries, LoadPCs, DetailPCs
<1> QED
  BY <1>2, SetCallTyped DEF Answered

(* The steps that start or advance a call carry what its place says.       *)
LEMMA CallsNext ==
    ASSUME Calls, Data, [SchemaNext]_schemaVars
    PROVE  Calls'
<1>1. ASSUME NEW t \in Callers, CallStep(t)
      PROVE  Calls'
  <2>0. call[t] \in Call /\ Carries(call[t])
    BY DEF Calls
  <2>a. call[t].pc # "idle" => call[t].s \in Sessions
    BY <2>0 DEF Carries
  <2>1. CASE Invalidate(t) \/ ForgetCatalogError(t)
    BY <2>1, GotoTyped DEF Invalidate, ForgetCatalogError, LoadPCs, DetailPCs
  <2>2. CASE CheckHit(t)
    <3>1. call[t].pc = "check" /\ schema[call[t].s] \in Snapshot
      BY <2>2, <2>a DEF CheckHit, Data
    <3>2. Searched(schema[call[t].s], call[t].q) \in Snapshot
      BY <3>1, FilterType DEF Searched
    <3> QED
      BY <2>2, <3>1, <3>2, AnsweredTyped DEF CheckHit
  <2>3. CASE CheckMiss(t)
    BY <2>3, GotoTyped DEF CheckMiss, LoadPCs, DetailPCs
  <2>4. CASE EnterCatalog(t)
    <3>1. CASE call[t].pc = "wait"
      <4>1. GoOn(t, "catTables")
        BY <2>4, <3>1 DEF EnterCatalog
      <4> QED
        BY <3>1, <4>1, GotoTyped DEF LoadPCs, DetailPCs
    <3>2. CASE call[t].pc = "dwait"
      <4>1. GoOn(t, "dcat")
        BY <2>4, <3>2 DEF EnterCatalog
      <4> QED
        BY <3>2, <4>1, GotoTyped DEF LoadPCs, DetailPCs
    <3> QED
      BY <2>4, <3>1, <3>2 DEF EnterCatalog
  <2>5. CASE CatalogFails(t)
    <3>1. CASE call[t].pc = "catTables"
      <4>1. GoOn(t, "sqlTables")
        BY <2>5, <3>1 DEF CatalogFails
      <4> QED
        BY <3>1, <4>1, GotoTyped DEF LoadPCs, DetailPCs
    <3>2. CASE call[t].pc = "dcat"
      <4>1. GoOn(t, "dsql")
        BY <2>5, <3>2 DEF CatalogFails
      <4> QED
        BY <3>2, <4>1, GotoTyped DEF LoadPCs, DetailPCs
    <3> QED
      BY <2>5, <3>1, <3>2 DEF CatalogFails
  <2>6. CASE ReadTables(t)
    <3> DEFINE where == IF call[t].pc = "catTables" THEN "catCols" ELSE "sqlCols"
               read == [of |-> call[t].s, at |-> db[call[t].s]]
               c == [call[t] EXCEPT !.pc = where, !.cols = read]
    <3>1. read \in Cols
      BY <2>6, <2>a DEF ReadTables, Data, Cols
    <3>2. c \in Call /\ Carries(c)
      BY <2>0, <2>6, <3>1 DEF ReadTables, Call, Carries, LoadPCs, DetailPCs
    <3>3. SetCall(t, c)
      BY <2>6 DEF ReadTables, SetCall
    <3> QED
      BY <3>2, <3>3, SetCallTyped
  <2>7. CASE SqlTablesFail(t)
    BY <2>7, AnsweredTyped DEF SqlTablesFail
  <2>8. CASE ReadColumns(t)
    <3>1. PICK covered \in SUBSET Tables :
            SetCall(t, [call[t] EXCEPT !.pc = "put", !.cols = NoCols,
                          !.snap = [at |-> call[t].cols.at, tables |-> Tables,
                                    columns |-> [x \in covered |->
                                      [of |-> call[t].s, at |-> db[call[t].s]]]]])
      BY <2>8 DEF ReadColumns
    <3> DEFINE cols == [x \in covered |-> [of |-> call[t].s, at |-> db[call[t].s]]]
               snap == [at |-> call[t].cols.at, tables |-> Tables, columns |-> cols]
               c == [call[t] EXCEPT !.pc = "put", !.cols = NoCols, !.snap = snap]
    <3>2. call[t].s \in Sessions /\ call[t].cols \in Cols
      BY <2>0, <2>8 DEF ReadColumns, Carries
    <3>3. cols \in [covered -> Cols]
      BY <3>2 DEF Data, Cols
    <3>4. cols \in Columns
      BY <3>3, ColumnsType
    <3>5. call[t].cols.at \in Versions
      BY <3>2 DEF Cols
    <3>6. snap \in Snapshot
      BY <3>4, <3>5 DEF Snapshot
    <3>7. SetCall(t, c)
      BY <3>1
    <3> HIDE DEF cols, snap
    <3>8. c \in Call /\ Carries(c)
      BY <2>0, <3>2, <3>6 DEF Call, Carries, LoadPCs, DetailPCs
    <3> QED
      BY <3>7, <3>8, SetCallTyped
  <2>9. CASE PutSchema(t)
    <3>1. call[t].pc = "put" /\ call[t].snap \in Snapshot
      BY <2>0, <2>9 DEF PutSchema, Carries
    <3>2. Searched(call[t].snap, call[t].q) \in Snapshot
      BY <3>1, FilterType DEF Searched
    <3> QED
      BY <2>9, <3>1, <3>2, AnsweredTyped DEF PutSchema
  <2>10. CASE CheckDetails(t)
    <3> DEFINE cached == details[call[t].s][call[t].table]
               c == [call[t] EXCEPT !.pc = "dshow", !.cols = cached.cols]
    <3>1. call[t].pc = "dcheck" /\ call[t].s \in Sessions /\ call[t].table \in Tables
      BY <2>0, <2>10 DEF CheckDetails, Carries, DetailPCs
    <3>2. CASE cached = NoTable
      <4>1. GoOn(t, "dwait")
        BY <2>10, <3>2 DEF CheckDetails
      <4> QED
        BY <3>1, <4>1, GotoTyped DEF LoadPCs, DetailPCs
    <3>3. CASE cached # NoTable
      <4>1. cached \in [cols : Cols \union {NoCols}]
        BY <3>1, <3>3 DEF Data
      <4>2. SetCall(t, c)
        BY <2>10, <3>3 DEF CheckDetails
      <4> HIDE DEF cached
      <4>3. c \in Call /\ Carries(c)
        BY <2>0, <3>1, <4>1 DEF Call, Carries, LoadPCs, DetailPCs
      <4> QED
        BY <4>2, <4>3, SetCallTyped
    <3> QED
      BY <3>2, <3>3
  <2>11. CASE ReadDetails(t)
    <3>1. call[t].pc \in {"dcat", "dsql"} /\ call[t].s \in Sessions
      BY <2>11, <2>a DEF ReadDetails
    <3>2. PICK cols \in {[of |-> call[t].s, at |-> db[call[t].s]], NoCols} :
            SetCall(t, [call[t] EXCEPT !.pc = "dput", !.cols = cols])
      BY <2>11 DEF ReadDetails
    <3>3. cols \in Cols \union {NoCols}
      BY <3>1, <3>2 DEF Data, Cols
    <3> DEFINE c == [call[t] EXCEPT !.pc = "dput", !.cols = cols]
    <3>4. c \in Call /\ Carries(c)
      BY <2>0, <3>1, <3>3 DEF Call, Carries, LoadPCs, DetailPCs
    <3> QED
      BY <3>2, <3>4, SetCallTyped
  <2>12. CASE PutTableDetails(t)
    BY <2>12, GotoTyped DEF PutTableDetails, LoadPCs, DetailPCs
  <2>13. CASE ShowSnapshot(t) \/ ShowDetails(t)
    BY <2>13, ReturnTyped DEF ShowSnapshot, ShowDetails
  <2> QED
    BY <1>1, <2>1, <2>2, <2>3, <2>4, <2>5, <2>6, <2>7, <2>8, <2>9, <2>10, <2>11,
       <2>12, <2>13 DEF CallStep
<1>2. CASE UserStep
  <2>1. ASSUME NEW j \in Jobs, NEW forced \in BOOLEAN, StartLoad(j, forced)
        PROVE  Calls'
    <3> DEFINE c == [NoCall EXCEPT !.pc = IF forced THEN "invalidate" ELSE "check",
                                 !.s = active, !.q = search]
    <3>1. c \in Call /\ Carries(c)
      BY IdleTyped DEF Data, Call, Carries, LoadPCs, DetailPCs
    <3> QED
      BY <2>1, <3>1, SetCallTyped DEF StartLoad, Callers
  <2>2. ASSUME NEW q \in Searches, TypeSearch(q)
        PROVE  Calls'
    <3> DEFINE c == [NoCall EXCEPT !.pc = "check", !.s = active, !.q = q]
    <3>1. c \in Call /\ Carries(c)
      BY IdleTyped DEF Data, Call, Carries, LoadPCs, DetailPCs
    <3> QED
      BY <2>2, <3>1, SetCallTyped DEF TypeSearch, Callers
  <2>3. ASSUME NEW j \in Jobs, NEW table \in Tables, SelectTable(j, table)
        PROVE  Calls'
    <3> DEFINE c == [NoCall EXCEPT !.pc = "dcheck", !.s = active, !.table = table]
    <3>1. c \in Call /\ Carries(c)
      BY IdleTyped DEF Data, Call, Carries, LoadPCs, DetailPCs
    <3> QED
      BY <2>3, <3>1, SetCallTyped DEF SelectTable, Callers
  <2>4. CASE UNCHANGED call
    BY <2>4 DEF Calls
  <2> QED
    BY <1>2, <2>1, <2>2, <2>3, <2>4
       DEF UserStep, SelectOther, ApplySettings, SwitchSession
<1>3. CASE UNCHANGED call
  BY <1>3 DEF Calls
<1> QED
  BY <1>1, <1>2, <1>3 DEF SchemaNext, SchemaChanges, schemaVars

(* The columns that are loaded lazily make a snapshot of a snapshot.       *)
LEMMA WithColumnsTyped ==
    ASSUME NEW snap \in Snapshot, NEW table \in Tables, NEW cols \in Cols
    PROVE  WithColumns(snap, table, cols) \in Snapshot
<1> DEFINE both == [x \in DOMAIN snap.columns \union {table} |->
                      IF x = table THEN cols ELSE snap.columns[x]]
<1>1. snap \in [at : Versions, tables : SUBSET Tables, columns : Columns]
  BY DEF Snapshot
<1>2. /\ DOMAIN snap.columns \subseteq Tables
      /\ snap.columns \in [DOMAIN snap.columns -> Cols]
  BY <1>1, ColumnsDomain
<1>3. both \in [DOMAIN snap.columns \union {table} -> Cols]
  BY <1>2
<1>4. both \in Columns
  BY <1>2, <1>3, ColumnsType
<1>5. WithColumns(snap, table, cols) = [snap EXCEPT !.columns = both]
  BY DEF WithColumns
<1> HIDE DEF both
<1> QED
  BY <1>1, <1>4, <1>5 DEF Snapshot

(* Every step keeps the types of what is not a call.                       *)
LEMMA DataNext ==
    ASSUME Calls, Data, [SchemaNext]_schemaVars
    PROVE  Data'
<1> USE DEF cacheVars, windowVars, ghosts
<1>1. ASSUME NEW t \in Callers, CallStep(t)
      PROVE  Data'
  <2>0. call[t] \in Call /\ Carries(call[t])
    BY DEF Calls
  <2>a. call[t].pc # "idle" => call[t].s \in Sessions
    BY <2>0 DEF Carries
  <2>1. CASE Invalidate(t)
    <3>1. call[t].s \in Sessions
      BY <2>1, <2>a DEF Invalidate
    <3> QED
      BY <2>1, <3>1 DEF Invalidate, Data
  <2>2. CASE CheckHit(t)
    <3>1. call[t].s \in Sessions
      BY <2>2, <2>a DEF CheckHit
    <3> QED
      BY <2>2, <3>1 DEF CheckHit, Holds, Data
  <2>3. CASE EnterCatalog(t) \/ CatalogFails(t) \/ ReadColumns(t) \/ ReadDetails(t)
    BY <2>3 DEF EnterCatalog, CatalogFails, ReadColumns, ReadDetails, Release, Data
  <2>4. CASE PutSchema(t)
    <3>1. call[t].s \in Sessions /\ call[t].snap \in Snapshot
      BY <2>0, <2>4 DEF PutSchema, Carries
    <3> QED
      BY <2>4, <3>1 DEF PutSchema, Data
  <2>5. CASE PutTableDetails(t)
    <3>1. /\ call[t].s \in Sessions /\ call[t].table \in Tables
          /\ call[t].cols \in Cols \union {NoCols}
      BY <2>0, <2>5 DEF PutTableDetails, Carries, DetailPCs, Call
    <3> QED
      BY <2>5, <3>1 DEF PutTableDetails, Data
  <2>6. CASE ShowSnapshot(t)
    <3>1. call[t].snap \in Snapshot \union {NoSnap}
      BY <2>0 DEF Call
    <3> QED
      BY <2>6, <3>1 DEF ShowSnapshot, SetSchemaSnapshot, Data
  <2>7. CASE ShowDetails(t)
    <3>1. /\ call[t].table \in Tables /\ call[t].cols \in Cols \union {NoCols}
      BY <2>0, <2>7 DEF ShowDetails, Carries, DetailPCs, Call
    <3>2. AddLazyColumns(call[t].table, call[t].cols) =>
            /\ tree' \in Snapshot \union {NoSnap}
            /\ sharers' \in [Sessions -> SUBSET (Callers \union {Tree})]
      BY <3>1, WithColumnsTyped DEF AddLazyColumns, Lazy, Holds, Data
    <3>3. AddLazyColumns(call[t].table, call[t].cols) => schema' = schema
      BY DEF AddLazyColumns
    <3> QED
      BY <2>7, <3>1, <3>2, <3>3 DEF ShowDetails, Data
  <2>8. CASE UNCHANGED <<db, schema, sharers, details, cacheMu, active, search,
                         tree, selected, latest, shown, events, floor, overlapped>>
    BY <2>8 DEF Data
  <2> QED
    BY <1>1, <2>1, <2>2, <2>3, <2>4, <2>5, <2>6, <2>7, <2>8
       DEF CallStep, ForgetCatalogError, CheckMiss, ReadTables, SqlTablesFail, CheckDetails
<1>2. CASE UserStep
  <2>1. CASE \E j \in Jobs, table \in Tables : SelectTable(j, table)
    BY <2>1 DEF SelectTable, Data
  <2>2. CASE SelectOther
    BY <2>2 DEF SelectOther, Data
  <2>3. CASE ApplySettings
    BY <2>3 DEF ApplySettings, SetSchemaSnapshot, Data
  <2>4. CASE \E s \in Sessions : SwitchSession(s)
    BY <2>4, SchemaConstants DEF SwitchSession, Bounded, Data, Versions
  <2>5. CASE \E q \in Searches : TypeSearch(q)
    BY <2>5 DEF TypeSearch, Data
  <2>6. CASE \E j \in Jobs, forced \in BOOLEAN : StartLoad(j, forced)
    BY <2>6 DEF StartLoad, Data
  <2> QED
    BY <1>2, <2>1, <2>2, <2>3, <2>4, <2>5, <2>6 DEF UserStep
<1>3. ASSUME NEW s \in Sessions, SchemaChanges(s)
      PROVE  Data'
  <2>1. \A x \in Sessions : db'[x] = IF x = s THEN db[x] + 1 ELSE db[x]
    BY <1>3 DEF SchemaChanges, Data
  <2>2. events < MaxEvents /\ events' = events + 1 /\ events \in Nat
    BY <1>3, SchemaConstants DEF SchemaChanges, Bounded, Data
  <2>3. \A x \in Sessions : db[x] \in Nat /\ db[x] <= events
    BY SchemaConstants DEF Data, Versions
  <2>4. \A x \in Sessions : db'[x] <= events' /\ db'[x] \in Versions
    BY <2>1, <2>2, <2>3, SchemaConstants DEF Versions
  <2>5. events' \in 0..MaxEvents
    BY <2>2, SchemaConstants
  <2>6. db' \in [Sessions -> Versions]
    BY <1>3, <2>4 DEF SchemaChanges, Data
  <2> QED
    BY <1>3, <2>4, <2>5, <2>6 DEF SchemaChanges, Data
<1>4. CASE UNCHANGED schemaVars
  BY <1>4 DEF schemaVars, Data
<1> QED
  BY <1>1, <1>2, <1>3, <1>4 DEF SchemaNext

(* Type correctness (SchemaTypeOK): a call carries what its place needs,   *)
(* and no version number exceeds the number of events.                     *)
THEOREM TypesHold == SchemaSpec => []SchemaTypeOK
<1>1. SchemaInit => Data /\ Calls
  BY DataInit, CallsInit
<1>2. Data /\ Calls /\ [SchemaNext]_schemaVars => (Data /\ Calls)'
  BY DataNext, CallsNext
<1>3. Data /\ Calls => SchemaTypeOK
  BY DEF Data, Calls, SchemaTypeOK
<1> QED
  BY <1>1, <1>2, <1>3, PTL DEF SchemaSpec

-----------------------------------------------------------------------------
(* What is stored and what is read                                         *)

InHand == {"catCols", "sqlCols", "put", "dput"}

(* A step that reads nothing and stores nothing.                           *)
Quiet ==
    /\ UNCHANGED <<db, schema, details, floor, overlapped>>
    /\ \A u \in Callers : call'[u] = call[u] \/ call'[u].pc \notin InHand

(* A step of one call leaves the others as they are.                       *)
LEMMA SetCallOthers ==
    ASSUME Calls, NEW t \in Callers, NEW c, SetCall(t, c)
    PROVE  \A u \in Callers : call'[u] = IF u = t THEN c ELSE call[u]
  BY DEF SetCall, Calls

(* All but the steps that read, store, forget or change data are quiet.    *)
LEMMA QuietSteps ==
    ASSUME Calls, Data, [SchemaNext]_schemaVars,
           \A t \in Callers : ~Invalidate(t) /\ ~ReadTables(t) /\ ~ReadColumns(t)
              /\ ~PutSchema(t) /\ ~ReadDetails(t) /\ ~PutTableDetails(t),
           \A s \in Sessions : ~SchemaChanges(s)
    PROVE  Quiet
<1> USE DEF cacheVars, windowVars, ghosts, InHand
<1>1. ASSUME NEW t \in Callers, CallStep(t)
      PROVE  Quiet
  <2>0. ASSUME NEW where \in (LoadPCs \union DetailPCs) \ InHand, GoOn(t, where)
        PROVE  \A u \in Callers : call'[u] = call[u] \/ call'[u].pc \notin InHand
    <3>1. call[t] \in Call
      BY DEF Calls
    <3>2. [call[t] EXCEPT !.pc = where].pc = where
      BY <3>1 DEF Call
    <3> QED
      BY <2>0, <3>2, SetCallOthers DEF GoOn
  <2>1. ASSUME NEW snap, Answered(t, snap)
        PROVE  \A u \in Callers : call'[u] = call[u] \/ call'[u].pc \notin InHand
    <3>1. call[t] \in Call
      BY DEF Calls
    <3>2. [call[t] EXCEPT !.pc = "show", !.snap = snap].pc = "show"
      BY <3>1 DEF Call
    <3> QED
      BY <2>1, <3>2, SetCallOthers DEF Answered
  <2>2. CASE ForgetCatalogError(t) \/ CheckMiss(t)
    BY <2>0, <2>2 DEF ForgetCatalogError, CheckMiss, Quiet, LoadPCs
  <2>3. CASE CheckHit(t) \/ SqlTablesFail(t)
    BY <2>1, <2>3 DEF CheckHit, SqlTablesFail, Quiet
  <2>4. CASE EnterCatalog(t)
    <3>1. \E where \in {"catTables", "dcat"} : GoOn(t, where)
      BY <2>4 DEF EnterCatalog
    <3> QED
      BY <2>0, <2>4, <3>1 DEF EnterCatalog, Quiet, LoadPCs, DetailPCs
  <2>5. CASE CatalogFails(t)
    <3>1. \E where \in {"sqlTables", "dsql"} : GoOn(t, where)
      BY <2>5 DEF CatalogFails
    <3> QED
      BY <2>0, <2>5, <3>1 DEF CatalogFails, Quiet, LoadPCs, DetailPCs
  <2>6. CASE CheckDetails(t)
    <3> DEFINE c == [call[t] EXCEPT !.pc = "dshow",
                                    !.cols = details[call[t].s][call[t].table].cols]
    <3>1. GoOn(t, "dwait") \/ SetCall(t, c)
      BY <2>6 DEF CheckDetails
    <3>2. c.pc = "dshow"
      BY DEF Calls, Call
    <3>3. \A u \in Callers : call'[u] = call[u] \/ call'[u].pc \notin InHand
      BY <2>0, <3>1, <3>2, SetCallOthers DEF DetailPCs
    <3> QED
      BY <2>6, <3>3 DEF CheckDetails, Quiet
  <2>r. ASSUME CallReturns(t)
        PROVE  \A u \in Callers : call'[u] = call[u] \/ call'[u].pc \notin InHand
    <3>1. SetCall(t, NoCall) /\ NoCall.pc \notin InHand
      BY <2>r DEF CallReturns, NoCall
    <3> QED
      BY <3>1, SetCallOthers
  <2>7. CASE ShowSnapshot(t)
    BY <2>7, <2>r DEF ShowSnapshot, Quiet
  <2>8. CASE ShowDetails(t)
    <3>1. AddLazyColumns(call[t].table, call[t].cols) => schema' = schema
      BY DEF AddLazyColumns
    <3> QED
      BY <2>8, <2>r, <3>1 DEF ShowDetails, Quiet
  <2> QED
    BY <1>1, <2>2, <2>3, <2>4, <2>5, <2>6, <2>7, <2>8 DEF CallStep
<1>2. CASE UserStep
  <2>1. ASSUME NEW t \in Callers, NEW c, c.pc \notin InHand, SetCall(t, c)
        PROVE  \A u \in Callers : call'[u] = call[u] \/ call'[u].pc \notin InHand
    BY <2>1, SetCallOthers
  <2>2. ASSUME NEW j \in Jobs, NEW forced \in BOOLEAN, StartLoad(j, forced)
        PROVE  Quiet
    BY <2>1, <2>2 DEF StartLoad, Quiet, NoCall, Callers
  <2>3. ASSUME NEW q \in Searches, TypeSearch(q)
        PROVE  Quiet
    BY <2>1, <2>3 DEF TypeSearch, Quiet, NoCall, Callers
  <2>4. ASSUME NEW j \in Jobs, NEW table \in Tables, SelectTable(j, table)
        PROVE  Quiet
    BY <2>1, <2>4 DEF SelectTable, Quiet, NoCall, Callers
  <2>5. CASE SelectOther \/ ApplySettings \/ \E s \in Sessions : SwitchSession(s)
    BY <2>5 DEF SelectOther, ApplySettings, SwitchSession, Quiet
  <2> QED
    BY <1>2, <2>2, <2>3, <2>4, <2>5 DEF UserStep
<1>3. CASE UNCHANGED schemaVars
  BY <1>3 DEF schemaVars, Quiet
<1> QED
  BY <1>1, <1>2, <1>3 DEF SchemaNext

(* What a call has read is of its own session, too.                        *)
ReadsOwn(c) ==
    /\ c.pc = "put" => \A x \in DOMAIN c.snap.columns : c.snap.columns[x].of = c.s
    /\ c.pc = "dput" /\ c.cols # NoCols => c.cols.of = c.s

OwnInv == CacheIsOwn /\ \A t \in Callers : ReadsOwn(call[t])

(* What is read on a call for a session is that session's, and it is       *)
(* stored for the session it was read for.                                 *)
LEMMA OwnNext ==
    ASSUME Calls, Data, OwnInv, [SchemaNext]_schemaVars
    PROVE  OwnInv'
<1> USE DEF cacheVars, windowVars, ghosts
<1>0. ASSUME NEW t \in Callers, call[t].pc # "idle"
      PROVE  /\ call[t] \in Call /\ call[t].s \in Sessions
             /\ call[t].pc \in DetailPCs => call[t].table \in Tables
  BY <1>0 DEF Calls, Carries
<1>1. CASE Quiet
  <2>1. CacheIsOwn'
    BY <1>1 DEF OwnInv, CacheIsOwn, HasColumns, Quiet
  <2>2. \A t \in Callers : ReadsOwn(call'[t])
    BY <1>1 DEF OwnInv, ReadsOwn, Quiet, InHand
  <2> QED
    BY <2>1, <2>2 DEF OwnInv, ReadsOwn
<1>2. ASSUME NEW t \in Callers, Invalidate(t)
      PROVE  OwnInv'
  <2>1. call[t].pc = "invalidate" /\ call[t].s \in Sessions
    BY <1>0, <1>2 DEF Invalidate
  <2>2. /\ schema' = [schema EXCEPT ![call[t].s] = NoSnap]
        /\ details' = [details EXCEPT ![call[t].s] = [x \in Tables |-> NoTable]]
    BY <1>2 DEF Invalidate
  <2>3. CacheIsOwn'
    BY <2>1, <2>2 DEF OwnInv, CacheIsOwn, HasColumns, Data
  <2>4. \A u \in Callers : call'[u] = call[u] \/ call'[u].pc = "relock"
    BY <1>0, <1>2, <2>1, SetCallOthers DEF Invalidate, GoOn, Call
  <2> QED
    BY <2>3, <2>4 DEF OwnInv, ReadsOwn
<1>3. ASSUME NEW t \in Callers, ReadTables(t)
      PROVE  OwnInv'
  <2>1. \A u \in Callers : call'[u] = call[u] \/ call'[u].pc \in {"catCols", "sqlCols"}
    <3> DEFINE where == IF call[t].pc = "catTables" THEN "catCols" ELSE "sqlCols"
               c == [call[t] EXCEPT !.pc = where,
                       !.cols = [of |-> call[t].s, at |-> db[call[t].s]]]
    <3>1. SetCall(t, c)
      BY <1>3 DEF ReadTables, SetCall
    <3>2. c.pc = where
      BY <1>0, <1>3 DEF ReadTables, Call
    <3> HIDE DEF c
    <3> QED
      BY <3>1, <3>2, SetCallOthers
  <2> QED
    BY <1>3, <2>1 DEF ReadTables, OwnInv, ReadsOwn, CacheIsOwn, HasColumns
<1>4. ASSUME NEW t \in Callers, ReadColumns(t)
      PROVE  OwnInv'
  <2> DEFINE snap(covered) ==
               [at |-> call[t].cols.at, tables |-> Tables,
                columns |-> [x \in covered |->
                  [of |-> call[t].s, at |-> db[call[t].s]]]]
             c(covered) == [call[t] EXCEPT !.pc = "put", !.cols = NoCols,
                                           !.snap = snap(covered)]
  <2>1. PICK covered \in SUBSET Tables : SetCall(t, c(covered))
    BY <1>4 DEF ReadColumns
  <2>2. /\ c(covered).pc = "put" /\ c(covered).s = call[t].s
        /\ c(covered).snap = snap(covered)
    BY <1>0, <1>4 DEF ReadColumns, Call
  <2>3. \A x \in DOMAIN snap(covered).columns : snap(covered).columns[x].of = call[t].s
    OBVIOUS
  <2> HIDE DEF snap, c
  <2>4. ReadsOwn(c(covered))
    BY <2>2, <2>3 DEF ReadsOwn
  <2>5. \A u \in Callers : ReadsOwn(call'[u])
    BY <2>1, <2>4, SetCallOthers DEF OwnInv
  <2> QED
    BY <1>4, <2>5 DEF ReadColumns, OwnInv, ReadsOwn, CacheIsOwn, HasColumns
<1>5. ASSUME NEW t \in Callers, PutSchema(t)
      PROVE  OwnInv'
  <2>1. call[t].pc = "put" /\ call[t].s \in Sessions /\ ReadsOwn(call[t])
    BY <1>0, <1>5 DEF PutSchema, OwnInv
  <2>2. schema' = [schema EXCEPT ![call[t].s] = call[t].snap] /\ details' = details
    BY <1>5 DEF PutSchema
  <2>3. CacheIsOwn'
    BY <2>1, <2>2 DEF OwnInv, ReadsOwn, CacheIsOwn, HasColumns, Data
  <2>4. \A u \in Callers : call'[u] = call[u] \/ call'[u].pc = "show"
    <3> DEFINE c == [call[t] EXCEPT !.pc = "show",
                       !.snap = Searched(call[t].snap, call[t].q)]
    <3>1. SetCall(t, c) /\ c.pc = "show"
      BY <1>0, <1>5, <2>1 DEF PutSchema, Answered, Call
    <3> HIDE DEF c
    <3> QED
      BY <3>1, SetCallOthers
  <2> QED
    BY <2>3, <2>4 DEF OwnInv, ReadsOwn
<1>6. ASSUME NEW t \in Callers, ReadDetails(t)
      PROVE  OwnInv'
  <2>1. PICK cols \in {[of |-> call[t].s, at |-> db[call[t].s]], NoCols} :
          SetCall(t, [call[t] EXCEPT !.pc = "dput", !.cols = cols])
    BY <1>6 DEF ReadDetails
  <2> DEFINE c == [call[t] EXCEPT !.pc = "dput", !.cols = cols]
  <2>2. c.pc = "dput" /\ c.s = call[t].s /\ c.cols = cols
    BY <1>0, <1>6 DEF ReadDetails, Call
  <2>3. ReadsOwn(c)
    BY <2>1, <2>2 DEF ReadsOwn
  <2>4. \A u \in Callers : ReadsOwn(call'[u])
    BY <2>1, <2>3, SetCallOthers DEF OwnInv
  <2> QED
    BY <1>6, <2>4 DEF ReadDetails, OwnInv, ReadsOwn, CacheIsOwn, HasColumns
<1>7. ASSUME NEW t \in Callers, PutTableDetails(t)
      PROVE  OwnInv'
  <2>1. /\ call[t].pc = "dput" /\ call[t].s \in Sessions
        /\ call[t].table \in Tables /\ ReadsOwn(call[t])
    BY <1>0, <1>7 DEF PutTableDetails, OwnInv, DetailPCs
  <2>2. /\ details' = [details EXCEPT ![call[t].s][call[t].table] =
                                        [cols |-> call[t].cols]]
        /\ schema' = schema
    BY <1>7 DEF PutTableDetails
  <2>3. CacheIsOwn'
    BY <2>1, <2>2 DEF OwnInv, ReadsOwn, CacheIsOwn, HasColumns, Data
  <2>4. \A u \in Callers : call'[u] = call[u] \/ call'[u].pc = "dshow"
    BY <1>0, <1>7, <2>1, SetCallOthers DEF PutTableDetails, GoOn, Call
  <2> QED
    BY <2>3, <2>4 DEF OwnInv, ReadsOwn
<1>8. ASSUME NEW s \in Sessions, SchemaChanges(s)
      PROVE  OwnInv'
  BY <1>8 DEF SchemaChanges, OwnInv, CacheIsOwn, HasColumns
<1> QED
  BY <1>1, <1>2, <1>3, <1>4, <1>5, <1>6, <1>7, <1>8, QuietSteps

(* The cache of a session holds that session's data (CacheIsOwn), although *)
(* the window adds what another session said to the snapshot it shows      *)
(* (schema_tree_windows.go:206-217).                                       *)
THEOREM CacheStaysOwn == SchemaSpec => []CacheIsOwn
<1>1. SchemaInit => OwnInv
  <2> SUFFICES ASSUME SchemaInit PROVE OwnInv
    OBVIOUS
  <2>1. CacheIsOwn
    BY DEF SchemaInit, CacheIsOwn, HasColumns
  <2>2. \A t \in Callers : call[t] = NoCall
    BY DEF SchemaInit
  <2>3. ReadsOwn(NoCall)
    BY DEF ReadsOwn, NoCall
  <2> QED
    BY <2>1, <2>2, <2>3 DEF OwnInv
<1>2. SchemaInit => Data /\ Calls
  BY DataInit, CallsInit
<1>3. /\ Data /\ Calls /\ OwnInv /\ [SchemaNext]_schemaVars
      => (Data /\ Calls /\ OwnInv)'
  BY DataNext, CallsNext, OwnNext
<1>4. OwnInv => CacheIsOwn
  BY DEF OwnInv
<1> QED
  BY <1>1, <1>2, <1>3, <1>4, PTL DEF SchemaSpec

(* Nothing is written into the map of a cached snapshot (CachedMapsFrozen, *)
(* schema_tree_windows.go:210-211).                                        *)
THEOREM CachedMapsStayFrozen == SchemaSpec => CachedMapsFrozen
<1> DEFINE Frozen == \A s \in Sessions :
              schema[s] # NoSnap /\ schema'[s] \notin {schema[s], NoSnap}
                => \E t \in Callers : call[t].pc = "put" /\ call[t].s = s
                                      /\ schema'[s] = call[t].snap
<1>1. Data /\ Calls /\ [SchemaNext]_schemaVars => [Frozen]_schemaVars
  <2> SUFFICES ASSUME Data, Calls, [SchemaNext]_schemaVars
               PROVE  Frozen
    OBVIOUS
  <2>1. ASSUME NEW t \in Callers, Invalidate(t)
        PROVE  Frozen
    BY <2>1 DEF Invalidate, Data
  <2>2. ASSUME NEW t \in Callers, PutSchema(t)
        PROVE  Frozen
    BY <2>2 DEF PutSchema, Data
  <2>3. CASE schema' = schema
    BY <2>3
  <2>4. ASSUME NEW t \in Callers,
               ReadTables(t) \/ ReadColumns(t) \/ ReadDetails(t) \/ PutTableDetails(t)
        PROVE  schema' = schema
    BY <2>4 DEF ReadTables, ReadColumns, ReadDetails, PutTableDetails, cacheVars
  <2>5. ASSUME NEW s \in Sessions, SchemaChanges(s)
        PROVE  schema' = schema
    BY <2>5 DEF SchemaChanges, cacheVars
  <2>6. Quiet => schema' = schema
    BY DEF Quiet
  <2> QED
    BY <2>1, <2>2, <2>3, <2>4, <2>5, <2>6, QuietSteps
<1>2. SchemaInit => Data /\ Calls
  BY DataInit, CallsInit
<1>3. Data /\ Calls /\ [SchemaNext]_schemaVars => (Data /\ Calls)'
  BY DataNext, CallsNext
<1> QED
  BY <1>1, <1>2, <1>3, PTL DEF SchemaSpec, CachedMapsFrozen

-----------------------------------------------------------------------------
(* Refresh                                                                 *)

(* A call with an answer in hand read it after the last refresh, or was    *)
(* seen reading by it.                                                     *)
ReadsFresh(c) ==
    c.pc \in InHand /\ ~overlapped[c.s] =>
      /\ c.pc \in {"catCols", "sqlCols"} => c.cols.at >= floor[c.s]
      /\ c.pc = "put" => c.snap.at >= floor[c.s]
      /\ c.pc = "dput" /\ c.cols # NoCols => c.cols.at >= floor[c.s]

RefreshInv ==
    /\ RefreshIsHonoured
    /\ \A s \in Sessions : floor[s] <= db[s]
    /\ \A t \in Callers : ReadsFresh(call[t])

(* A refresh raises the floor to what the database is at; what a call has  *)
(* in hand from before it counts as overlapping.                           *)
LEMMA RefreshNext ==
    ASSUME Calls, Data, RefreshInv, [SchemaNext]_schemaVars
    PROVE  RefreshInv'
<1> USE DEF cacheVars, windowVars, ghosts
<1>0. ASSUME NEW t \in Callers, call[t].pc # "idle"
      PROVE  /\ call[t] \in Call /\ call[t].s \in Sessions
             /\ call[t].pc \in DetailPCs => call[t].table \in Tables
  BY <1>0 DEF Calls, Carries
<1>n. \A s \in Sessions : db[s] \in Nat /\ floor[s] \in Nat
  BY SchemaConstants DEF Data, Versions
<1>1. CASE Quiet
  <2>1. RefreshIsHonoured' /\ \A s \in Sessions : floor'[s] <= db'[s]
    BY <1>1 DEF RefreshInv, RefreshIsHonoured, HasColumns, Quiet
  <2>2. ASSUME NEW t \in Callers PROVE ReadsFresh(call[t])'
    BY <1>1, <2>2 DEF RefreshInv, ReadsFresh, Quiet
  <2> QED
    BY <2>1, <2>2 DEF RefreshInv
<1>2. ASSUME NEW t \in Callers, Invalidate(t)
      PROVE  RefreshInv'
  <2>1. call[t].pc = "invalidate" /\ call[t].s \in Sessions
    BY <1>0, <1>2 DEF Invalidate
  <2> DEFINE s == call[t].s
  <2>2. /\ schema' = [schema EXCEPT ![s] = NoSnap]
        /\ details' = [details EXCEPT ![s] = [x \in Tables |-> NoTable]]
        /\ floor' = [floor EXCEPT ![s] = db[s]]
        /\ overlapped' = [overlapped EXCEPT ![s] = \E u \in Callers : Reading(u, s)]
        /\ db' = db
    BY <1>2 DEF Invalidate
  <2>3. \A u \in Callers : call'[u] = call[u] \/ call'[u].pc = "relock"
    BY <1>0, <1>2, <2>1, SetCallOthers DEF Invalidate, GoOn, Call
  <2> HIDE DEF s
  <2>s. s \in Sessions
    BY <2>1 DEF s
  <2>4. ASSUME NEW x \in Sessions
        PROVE  /\ floor'[x] = IF x = s THEN db[x] ELSE floor[x]
               /\ x # s => overlapped'[x] = overlapped[x]
               /\ x # s => schema'[x] = schema[x] /\ details'[x] = details[x]
               /\ x = s => schema'[x] = NoSnap /\ \A y \in Tables : details'[x][y] = NoTable
    BY <2>2, <2>s DEF Data
  <2>5. overlapped'[s] = \E u \in Callers : Reading(u, s)
    BY <2>2, <2>s DEF Data
  <2>6. RefreshIsHonoured'
    BY <2>4 DEF RefreshInv, RefreshIsHonoured, HasColumns
  <2>7. \A x \in Sessions : floor'[x] <= db'[x]
    BY <1>n, <2>2, <2>4 DEF RefreshInv
  <2>8. ASSUME NEW u \in Callers PROVE ReadsFresh(call[u])'
    <3>1. CASE call'[u].pc \notin InHand
      BY <3>1 DEF ReadsFresh
    <3>2. CASE call'[u].pc \in InHand /\ call[u].s # s
      <4>1. call'[u] = call[u] /\ call[u].s \in Sessions
        BY <1>0, <2>3, <3>2 DEF InHand
      <4> QED
        BY <2>4, <3>2, <4>1 DEF RefreshInv, ReadsFresh
    <3>3. CASE call'[u].pc \in InHand /\ call[u].s = s
      <4>1. call'[u] = call[u] /\ Reading(u, s)
        BY <2>3, <3>3 DEF InHand, Reading
      <4> QED
        BY <2>5, <3>3, <4>1 DEF ReadsFresh
    <3> QED
      BY <3>1, <3>2, <3>3
  <2> QED
    BY <2>6, <2>7, <2>8 DEF RefreshInv
<1>3. ASSUME NEW t \in Callers, ReadTables(t)
      PROVE  RefreshInv'
  <2> DEFINE where == IF call[t].pc = "catTables" THEN "catCols" ELSE "sqlCols"
             read == [of |-> call[t].s, at |-> db[call[t].s]]
             c == [call[t] EXCEPT !.pc = where, !.cols = read]
  <2>1. SetCall(t, c)
    BY <1>3 DEF ReadTables, SetCall
  <2>2. c.pc = where /\ c.cols = read /\ c.s = call[t].s /\ call[t].s \in Sessions
    BY <1>0, <1>3 DEF ReadTables, Call
  <2>3. read.at >= floor[call[t].s]
    BY <1>n, <2>2 DEF RefreshInv
  <2> HIDE DEF read, c
  <2>4. ReadsFresh(c)
    BY <2>2, <2>3 DEF ReadsFresh
  <2>5. \A u \in Callers : ReadsFresh(call'[u])
    BY <2>1, <2>4, SetCallOthers DEF RefreshInv
  <2> QED
    BY <1>3, <2>5 DEF ReadTables, RefreshInv, ReadsFresh, RefreshIsHonoured, HasColumns
<1>4. ASSUME NEW t \in Callers, ReadColumns(t)
      PROVE  RefreshInv'
  <2> DEFINE snap(covered) ==
               [at |-> call[t].cols.at, tables |-> Tables,
                columns |-> [x \in covered |->
                  [of |-> call[t].s, at |-> db[call[t].s]]]]
             c(covered) == [call[t] EXCEPT !.pc = "put", !.cols = NoCols,
                                           !.snap = snap(covered)]
  <2>1. PICK covered \in SUBSET Tables : SetCall(t, c(covered))
    BY <1>4 DEF ReadColumns
  <2>2. /\ c(covered).pc = "put" /\ c(covered).s = call[t].s
        /\ c(covered).snap.at = call[t].cols.at
    BY <1>0, <1>4 DEF ReadColumns, Call
  <2>3. call[t].pc \in {"catCols", "sqlCols"} /\ ReadsFresh(call[t])
    BY <1>4 DEF ReadColumns, RefreshInv
  <2> HIDE DEF snap, c
  <2>4. ReadsFresh(c(covered))
    BY <2>2, <2>3 DEF ReadsFresh, InHand
  <2>5. \A u \in Callers : ReadsFresh(call'[u])
    BY <2>1, <2>4, SetCallOthers DEF RefreshInv
  <2> QED
    BY <1>4, <2>5 DEF ReadColumns, RefreshInv, ReadsFresh, RefreshIsHonoured, HasColumns
<1>5. ASSUME NEW t \in Callers, PutSchema(t)
      PROVE  RefreshInv'
  <2>1. call[t].pc = "put" /\ call[t].s \in Sessions /\ ReadsFresh(call[t])
    BY <1>0, <1>5 DEF PutSchema, RefreshInv
  <2>2. /\ schema' = [schema EXCEPT ![call[t].s] = call[t].snap]
        /\ UNCHANGED <<db, details, floor, overlapped>>
    BY <1>5 DEF PutSchema
  <2>3. RefreshIsHonoured'
    BY <2>1, <2>2 DEF RefreshInv, ReadsFresh, RefreshIsHonoured, HasColumns, Data, InHand
  <2>4. \A u \in Callers : call'[u] = call[u] \/ call'[u].pc = "show"
    <3> DEFINE c == [call[t] EXCEPT !.pc = "show",
                       !.snap = Searched(call[t].snap, call[t].q)]
    <3>1. SetCall(t, c) /\ c.pc = "show"
      BY <1>0, <1>5, <2>1 DEF PutSchema, Answered, Call
    <3> HIDE DEF c
    <3> QED
      BY <3>1, SetCallOthers
  <2>5. ASSUME NEW u \in Callers PROVE ReadsFresh(call[u])'
    BY <2>2, <2>4 DEF RefreshInv, ReadsFresh, InHand
  <2> QED
    BY <2>2, <2>3, <2>5 DEF RefreshInv
<1>6. ASSUME NEW t \in Callers, ReadDetails(t)
      PROVE  RefreshInv'
  <2>1. PICK cols \in {[of |-> call[t].s, at |-> db[call[t].s]], NoCols} :
          SetCall(t, [call[t] EXCEPT !.pc = "dput", !.cols = cols])
    BY <1>6 DEF ReadDetails
  <2> DEFINE c == [call[t] EXCEPT !.pc = "dput", !.cols = cols]
  <2>2. c.pc = "dput" /\ c.s = call[t].s /\ c.cols = cols /\ call[t].s \in Sessions
    BY <1>0, <1>6 DEF ReadDetails, Call
  <2>3. cols # NoCols => cols.at >= floor[call[t].s]
    BY <1>n, <2>1, <2>2 DEF RefreshInv
  <2> HIDE DEF c
  <2>4. ReadsFresh(c)
    BY <2>2, <2>3 DEF ReadsFresh
  <2>5. \A u \in Callers : ReadsFresh(call'[u])
    BY <2>1, <2>4, SetCallOthers DEF RefreshInv, c
  <2> QED
    BY <1>6, <2>5 DEF ReadDetails, RefreshInv, ReadsFresh, RefreshIsHonoured, HasColumns
<1>7. ASSUME NEW t \in Callers, PutTableDetails(t)
      PROVE  RefreshInv'
  <2>1. /\ call[t].pc = "dput" /\ call[t].s \in Sessions
        /\ call[t].table \in Tables /\ ReadsFresh(call[t])
    BY <1>0, <1>7 DEF PutTableDetails, RefreshInv, DetailPCs
  <2>2. /\ details' = [details EXCEPT ![call[t].s][call[t].table] =
                                        [cols |-> call[t].cols]]
        /\ UNCHANGED <<db, schema, floor, overlapped>>
    BY <1>7 DEF PutTableDetails
  <2>3. RefreshIsHonoured'
    BY <2>1, <2>2 DEF RefreshInv, ReadsFresh, RefreshIsHonoured, HasColumns, Data, InHand
  <2>4. \A u \in Callers : call'[u] = call[u] \/ call'[u].pc = "dshow"
    BY <1>0, <1>7, <2>1, SetCallOthers DEF PutTableDetails, GoOn, Call
  <2>5. ASSUME NEW u \in Callers PROVE ReadsFresh(call[u])'
    BY <2>2, <2>4 DEF RefreshInv, ReadsFresh, InHand
  <2> QED
    BY <2>2, <2>3, <2>5 DEF RefreshInv
<1>8. ASSUME NEW s \in Sessions, SchemaChanges(s)
      PROVE  RefreshInv'
  <2>1. /\ UNCHANGED <<schema, details, call, floor, overlapped>>
        /\ db' = [db EXCEPT ![s] = @ + 1]
    BY <1>8 DEF SchemaChanges
  <2>2. ASSUME NEW x \in Sessions PROVE floor'[x] <= db'[x]
    <3>1. db'[x] = IF x = s THEN db[x] + 1 ELSE db[x]
      BY <2>1 DEF Data
    <3>2. floor'[x] = floor[x] /\ floor[x] <= db[x]
      BY <2>1 DEF RefreshInv
    <3> QED
      BY <1>n, <3>1, <3>2
  <2> QED
    BY <2>1, <2>2 DEF RefreshInv, RefreshIsHonoured, HasColumns, ReadsFresh
<1> QED
  BY <1>1, <1>2, <1>3, <1>4, <1>5, <1>6, <1>7, <1>8, QuietSteps

(* After a refresh the cache is never older than it, unless another call   *)
(* was reading then (RefreshIsHonoured, schema_cache.go:48-53).            *)
THEOREM RefreshStaysHonoured == SchemaSpec => []RefreshIsHonoured
<1>1. SchemaInit => RefreshInv
  <2> SUFFICES ASSUME SchemaInit PROVE RefreshInv
    OBVIOUS
  <2>1. RefreshIsHonoured
    BY DEF SchemaInit, RefreshIsHonoured, HasColumns
  <2>2. \A t \in Callers : call[t] = NoCall
    BY DEF SchemaInit
  <2>3. ReadsFresh(NoCall)
    BY DEF ReadsFresh, NoCall, InHand
  <2>4. ASSUME NEW s \in Sessions PROVE floor[s] <= db[s]
    <3>1. floor[s] = 0 /\ db[s] = 0
      BY DEF SchemaInit
    <3> QED
      BY <3>1
  <2> QED
    BY <2>1, <2>2, <2>3, <2>4 DEF RefreshInv
<1>2. SchemaInit => Data /\ Calls
  BY DataInit, CallsInit
<1>3. /\ Data /\ Calls /\ RefreshInv /\ [SchemaNext]_schemaVars
      => (Data /\ Calls /\ RefreshInv)'
  BY DataNext, CallsNext, RefreshNext
<1>4. RefreshInv => RefreshIsHonoured
  BY DEF RefreshInv
<1> QED
  BY <1>1, <1>2, <1>3, <1>4, PTL DEF SchemaSpec

-----------------------------------------------------------------------------
(* The tabs                                                                *)

IsTab(r) == r = [text |-> r.text, file |-> r.file, dirty |-> r.dirty, stray |-> r.stray]

(* The widget's pages and the index of the tabs agree; what the window is  *)
(* busy with concerns one of them.                                         *)
Shape ==
    /\ order \in Seq(Pages) /\ IsInjective(order)
    /\ DOMAIN tabs = ToSet(order) /\ \A p \in DOMAIN tabs : IsTab(tabs[p])
    /\ doing \in {"off", "up", "close", "exit"}
    /\ doing = "off" <=> order = <<>>
    /\ doing # "off" => current \in ToSet(order)
    /\ doing \in {"close", "exit"} => asked \in ToSet(order)
    /\ doing \in {"off", "up"} => ~confirmed
    /\ confirmed \in BOOLEAN

(* Text that is only in the window is marked as changed.                   *)
Marks == \A p \in DOMAIN tabs : Unsaved(p) => tabs[p].dirty

GivenUp(p) == tabs[p].dirty => p \in declined

(* A confirmed tab has no changes left that the user did not give up, nor  *)
(* has any tab that the exit has asked for before.                         *)
Answers ==
    /\ confirmed => GivenUp(asked)
    /\ doing = "exit" =>
         \A i, j \in DOMAIN order : order[j] = asked /\ i < j => GivenUp(order[i])

TabInv == Shape /\ Marks /\ Answers

-----------------------------------------------------------------------------
(* Lists of distinct pages                                                 *)

(* A page that is not in the row may be added at its end.                  *)
LEMMA AppendPage ==
    ASSUME NEW s \in Seq(Pages), IsInjective(s), NEW p \in Pages, p \notin ToSet(s)
    PROVE  /\ Append(s, p) \in Seq(Pages) /\ IsInjective(Append(s, p))
           /\ ToSet(Append(s, p)) = ToSet(s) \union {p}
           /\ Append(s, p) # <<>>
<1>1. Len(s) \in Nat /\ DOMAIN s = 1..Len(s)
  OBVIOUS
<1> DEFINE r == Append(s, p)
<1>2. /\ r \in Seq(Pages) /\ r # <<>> /\ DOMAIN r = 1..Len(s) + 1
      /\ r[Len(s) + 1] = p /\ \A i \in 1..Len(s) : r[i] = s[i]
  BY AppendProperties
<1> HIDE DEF r
<1>3. ASSUME NEW i \in 1..Len(s) PROVE r[i] # p
  BY <1>1, <1>2, <1>3 DEF ToSet
<1>4. IsInjective(r)
  <2> SUFFICES ASSUME NEW i \in 1..Len(s) + 1, NEW j \in 1..Len(s) + 1, r[i] = r[j]
               PROVE  i = j
    BY <1>2 DEF IsInjective
  <2>1. i \in 1..Len(s) \/ i = Len(s) + 1
    BY <1>1
  <2>2. j \in 1..Len(s) \/ j = Len(s) + 1
    BY <1>1
  <2>3. CASE i \in 1..Len(s) /\ j \in 1..Len(s)
    BY <1>1, <1>2, <2>3 DEF IsInjective
  <2> QED
    BY <1>2, <1>3, <2>1, <2>2, <2>3
<1>5. ToSet(r) \subseteq ToSet(s) \union {p}
  BY <1>1, <1>2 DEF ToSet
<1>6. \A q \in ToSet(s) : q \in ToSet(r)
  BY <1>1, <1>2 DEF ToSet
<1>7. p \in ToSet(r)
  BY <1>1, <1>2 DEF ToSet
<1> QED
  BY <1>2, <1>4, <1>5, <1>6, <1>7 DEF r

(* Taking one page out leaves the others, each once.                       *)
LEMMA RemovePage ==
    ASSUME NEW s \in Seq(Pages), IsInjective(s), NEW k \in DOMAIN s
    PROVE  /\ RemoveAt(s, k) \in Seq(Pages) /\ IsInjective(RemoveAt(s, k))
           /\ ToSet(RemoveAt(s, k)) = ToSet(s) \ {s[k]}
           /\ Len(s) > 1 => RemoveAt(s, k) # <<>>
<1> DEFINE r == RemoveAt(s, k)
<1>1. Len(s) \in Nat /\ k \in 1..Len(s) /\ DOMAIN s = 1..Len(s)
  OBVIOUS
<1>2. /\ r \in Seq(Pages) /\ Len(r) = Len(s) - 1
      /\ \A i \in 1..Len(r) : r[i] = IF i < k THEN s[i] ELSE s[i + 1]
  <2> DEFINE a == SubSeq(s, 1, k - 1)
             b == SubSeq(s, k + 1, Len(s))
  <2>1. /\ a \in Seq(Pages) /\ Len(a) = k - 1
        /\ \A i \in 1..k - 1 : a[i] = s[i]
    BY <1>1, SubSeqProperties
  <2>2. /\ b \in Seq(Pages) /\ Len(b) = Len(s) - k
        /\ \A i \in 1..Len(s) - k : b[i] = s[k + i]
    BY <1>1, SubSeqProperties
  <2>3. r = a \o b
    BY DEF RemoveAt
  <2> HIDE DEF a, b, r
  <2>4. /\ a \o b \in Seq(Pages) /\ Len(a \o b) = Len(a) + Len(b)
        /\ \A i \in 1..Len(a) + Len(b) :
               (a \o b)[i] = IF i <= Len(a) THEN a[i] ELSE b[i - Len(a)]
    BY <2>1, <2>2, ConcatProperties
  <2>5. Len(r) = Len(s) - 1
    BY <1>1, <2>1, <2>2, <2>3, <2>4
  <2>6. ASSUME NEW i \in 1..Len(r)
        PROVE  r[i] = IF i < k THEN s[i] ELSE s[i + 1]
    <3>1. i \in 1..Len(a) + Len(b) /\ i \in Int /\ k \in Int /\ Len(a) = k - 1
      BY <1>1, <2>1, <2>2, <2>5
    <3>2. CASE i < k
      BY <2>1, <2>3, <2>4, <3>1, <3>2
    <3>3. CASE ~ i < k
      <4>1. r[i] = b[i - (k - 1)]
        BY <2>3, <2>4, <3>1, <3>3
      <4>2. i - (k - 1) \in 1..Len(s) - k /\ k + (i - (k - 1)) = i + 1
        BY <1>1, <2>5, <3>1, <3>3
      <4> QED
        BY <2>2, <3>3, <4>1, <4>2
    <3> QED
      BY <3>2, <3>3
  <2> QED
    BY <2>3, <2>4, <2>5, <2>6
<1> HIDE DEF r
<1>3. IsInjective(r)
  <2>1. DOMAIN r = 1..Len(r)
    BY <1>2
  <2> SUFFICES ASSUME NEW i \in 1..Len(r), NEW j \in 1..Len(r), r[i] = r[j]
               PROVE  i = j
    BY <2>1 DEF IsInjective
  <2> DEFINE from(n) == IF n < k THEN n ELSE n + 1
  <2>2. from(i) \in 1..Len(s) /\ from(j) \in 1..Len(s) /\ s[from(i)] = s[from(j)]
    BY <1>1, <1>2
  <2>3. from(i) = from(j)
    BY <1>1, <2>2 DEF IsInjective
  <2> QED
    BY <1>1, <1>2, <2>3
<1>4. ToSet(r) \subseteq ToSet(s) \ {s[k]}
  BY <1>1, <1>2 DEF IsInjective, ToSet
<1>5. ASSUME NEW i \in DOMAIN s, i # k
      PROVE  s[i] \in ToSet(r)
  <2>1. CASE i < k
    BY <1>1, <1>2, <1>5, <2>1 DEF ToSet
  <2>2. CASE i > k
    <3>1. i - 1 \in 1..Len(r) /\ r[i - 1] = s[i]
      BY <1>1, <1>2, <1>5, <2>2
    <3> QED
      BY <1>2, <3>1 DEF ToSet
  <2> QED
    BY <1>1, <1>5, <2>1, <2>2
<1>6. ToSet(r) = ToSet(s) \ {s[k]}
  BY <1>4, <1>5 DEF ToSet
<1> QED
  BY <1>1, <1>2, <1>3, <1>6 DEF r

(* The index of a page that is in the row.                                 *)
LEMMA PlaceOf ==
    ASSUME NEW p \in ToSet(order)
    PROVE  Place(p) \in DOMAIN order /\ order[Place(p)] = p
  BY DEF Place, ToSet

(* The rows a start chooses from are rows of distinct pages.               *)
LEMMA RowShape ==
    ASSUME NEW s \in Rows
    PROVE  s \in Seq(Pages) /\ IsInjective(s)
<1>1. Cardinality(Pages) \in Nat
  BY TabAssumption, FS_CardinalityType
<1> QED
  BY <1>1 DEF Rows, BoundedSeq, SeqOf

-----------------------------------------------------------------------------
(* What every step must leave                                              *)

(* AskedBeforeLoss, of one step.                                           *)
Kept ==
    \A p \in DOMAIN tabs : Unsaved(p) =>
        \/ p \in DOMAIN tabs' /\ tabs'[p].text \in {"typed", "file"}
        \/ p \in declined

(* While nothing is being confirmed there is no answer to keep.            *)
LEMMA NothingAsked ==
    ASSUME Shape', doing' \in {"off", "up"}
    PROVE  Answers'
  BY DEF Shape, Answers

(* No text is lost while no tab changes.                                   *)
LEMMA TabsAsTheyWere ==
    ASSUME TabInv, tabs' = tabs
    PROVE  Marks' /\ Kept /\ \A p \in DOMAIN tabs : IsTab(tabs'[p])
  BY DEF TabInv, Shape, Marks, Kept, Unsaved

(* A tab gets another record, its text kept or on disk.                    *)
LEMMA OneTabChanges ==
    ASSUME TabInv, NEW q \in DOMAIN tabs, NEW t, IsTab(t),
           tabs' = [tabs EXCEPT ![q] = t],
           t.text = "typed" /\ ~t.stray => t.dirty
    PROVE  /\ DOMAIN tabs' = DOMAIN tabs
           /\ \A p \in DOMAIN tabs' : IsTab(tabs'[p])
           /\ Marks'
           /\ t.text \in {"typed", "file"} \/ ~Unsaved(q) \/ q \in declined => Kept
<1>1. DOMAIN tabs' = DOMAIN tabs
  OBVIOUS
<1>2. \A p \in DOMAIN tabs : tabs'[p] = IF p = q THEN t ELSE tabs[p]
  OBVIOUS
<1>3. \A p \in DOMAIN tabs' : IsTab(tabs'[p])
  BY <1>1, <1>2 DEF TabInv, Shape
<1>4. Marks'
  BY <1>1, <1>2 DEF TabInv, Marks, Unsaved
<1>5. t.text \in {"typed", "file"} \/ ~Unsaved(q) \/ q \in declined => Kept
  BY <1>1, <1>2 DEF Kept, Unsaved
<1> QED
  BY <1>1, <1>3, <1>4, <1>5

(* A tab that is opened holds its text and is not marked.                  *)
LEMMA TabIsTab ==
    ASSUME NEW text, NEW file
    PROVE  /\ IsTab(Tab(text, file))
           /\ Tab(text, file).text = text /\ ~Tab(text, file).dirty
  BY DEF Tab, IsTab

-----------------------------------------------------------------------------
(* The first state, and every start                                        *)

(* Before the first start there is no tab and no question.                 *)
LEMMA TabStart == TabInit => TabInv
<1> SUFFICES ASSUME TabInit PROVE TabInv
  OBVIOUS
<1>1. Shape
  <2>1. order = <<>> /\ DOMAIN order = {} /\ DOMAIN tabs = {}
    BY DEF TabInit
  <2>2. order \in Seq(Pages) /\ IsInjective(order) /\ ToSet(order) = {}
    BY <2>1 DEF IsInjective, ToSet
  <2> QED
    BY <2>1, <2>2 DEF TabInit, Shape
<1>2. Marks
  BY DEF TabInit, Marks
<1>3. Answers
  BY DEF TabInit, Answers
<1> QED
  BY <1>1, <1>2, <1>3 DEF TabInv

(* Every start of the program opens distinct tabs whose text is on disk    *)
(* (recent_windows.go, app/tabs.go).                                       *)
LEMMA StartKeeps ==
    ASSUME TabInv, NEW unreadable, NextStart(unreadable)
    PROVE  TabInv' /\ Kept
<1> DEFINE opened == Opened(FilesToRestore(remembered), unreadable)
           rows == {ps \in Rows : Len(ps) = 1 + Len(opened)}
           at(p) == CHOOSE i \in DOMAIN order' : order'[i] = p
           tab(p) == IF at(p) = 1 THEN Tab("empty", NoPath)
                     ELSE Tab("file", opened[at(p) - 1])
<1>1. order' \in rows
  BY DEF NextStart
<1>2. order' \in Seq(Pages) /\ IsInjective(order')
  BY <1>1, RowShape
<1>3. \A p : IsTab(tab(p)) /\ tab(p).text # "typed"
  BY TabIsTab
<1>4. tabs' = [p \in ToSet(order') |-> tab(p)]
  BY DEF NextStart
<1>5. /\ doing = "off" /\ doing' = "up" /\ current' = Last(order')
      /\ UNCHANGED <<asked, confirmed>>
  BY DEF NextStart
<1>6. Len(order') = 1 + Len(opened)
  BY <1>1
<1> HIDE DEF tab
<1>7. order' # <<>> /\ current' \in ToSet(order')
  <2>1. order' # <<>>
    BY <1>2, <1>6
  <2>2. Len(order') \in DOMAIN order'
    BY <1>2, <2>1
  <2> QED
    BY <1>5, <2>1, <2>2 DEF Last, ToSet
<1>8. DOMAIN tabs' = ToSet(order') /\ \A p \in DOMAIN tabs' : tabs'[p] = tab(p)
  BY <1>4
<1>9. Shape'
  BY <1>2, <1>3, <1>5, <1>7, <1>8 DEF TabInv, Shape
<1>10. Marks'
  BY <1>3, <1>8 DEF Marks, Unsaved
<1>11. DOMAIN tabs = {}
  BY <1>5 DEF TabInv, Shape, ToSet
<1> QED
  BY <1>5, <1>9, <1>10, <1>11, NothingAsked DEF TabInv, Kept

-----------------------------------------------------------------------------
(* Opening, editing, saving                                                *)

(* Between questions: the pages and the index stay in step.                *)
LEMMA AtWindow ==
    ASSUME TabInv, doing = "up", UNCHANGED asking,
           order' \in Seq(Pages), IsInjective(order'), order' # <<>>,
           DOMAIN tabs' = ToSet(order'), \A p \in DOMAIN tabs' : IsTab(tabs'[p]),
           current' \in ToSet(order'), Marks'
    PROVE  TabInv'
<1>1. Shape'
  BY DEF TabInv, Shape, asking
<1>2. Answers'
  BY <1>1, NothingAsked DEF asking
<1> QED
  BY <1>1, <1>2 DEF TabInv

(* A new tab is empty (walk_windows.go, addEditorTab).                     *)
LEMMA AddKeeps ==
    ASSUME TabInv, doing = "up", UNCHANGED asking, NEW t, IsTab(t), t.text # "typed",
           AddEditorTab(t)
    PROVE  TabInv' /\ Kept
<1>1. current' \in Pages \ DOMAIN tabs
  <2>1. DOMAIN tabs \subseteq Pages
    BY DEF TabInv, Shape, ToSet
  <2> QED
    BY <2>1 DEF AddEditorTab
<1>2. /\ DOMAIN tabs' = DOMAIN tabs \union {current'}
      /\ \A p \in DOMAIN tabs' : tabs'[p] = IF p = current' THEN t ELSE tabs[p]
  BY DEF AddEditorTab
<1>3. order' = Append(order, current')
  BY DEF AddEditorTab
<1>4. /\ order' \in Seq(Pages) /\ IsInjective(order') /\ order' # <<>>
      /\ ToSet(order') = ToSet(order) \union {current'}
  BY <1>1, <1>3, AppendPage DEF TabInv, Shape
<1>5. DOMAIN tabs' = ToSet(order')
  BY <1>2, <1>4 DEF TabInv, Shape
<1>6. \A p \in DOMAIN tabs' : IsTab(tabs'[p])
  BY <1>2 DEF TabInv, Shape
<1>7. Marks'
  BY <1>1, <1>2 DEF TabInv, Marks, Unsaved
<1>8. Kept
  BY <1>1, <1>2 DEF Kept, Unsaved
<1>9. current' \in ToSet(order')
  BY <1>4
<1> QED
  BY <1>4, <1>5, <1>6, <1>7, <1>8, <1>9, AtWindow

(* An opened file goes into a tab of its own or into one that is shown.    *)
LEMMA OpenKeeps ==
    ASSUME TabInv, doing = "up", UNCHANGED asking, NEW f, OpenSQLPath(f)
    PROVE  TabInv' /\ Kept
<1>1. CASE AddEditorTab(Tab("file", f))
  BY <1>1, TabIsTab, AddKeeps
<1>2. CASE /\ tabs' = [tabs EXCEPT ![current] =
                        [text |-> @.text, file |-> f, dirty |-> FALSE, stray |-> TRUE]]
           /\ UNCHANGED <<order, current>>
  <2> DEFINE t == [text |-> tabs[current].text, file |-> f, dirty |-> FALSE,
                   stray |-> TRUE]
  <2>1. current \in DOMAIN tabs /\ IsTab(tabs[current])
    BY DEF TabInv, Shape
  <2>2. tabs' = [tabs EXCEPT ![current] = t]
    BY <1>2, <2>1
  <2>3. IsTab(t) /\ t.text = tabs[current].text /\ t.stray
    BY DEF IsTab
  <2> HIDE DEF t
  <2>4. t.text \in {"typed", "file"} \/ ~Unsaved(current)
    BY <2>3 DEF Unsaved
  <2>5. /\ DOMAIN tabs' = DOMAIN tabs /\ Marks' /\ Kept
        /\ \A p \in DOMAIN tabs' : IsTab(tabs'[p])
    BY <2>1, <2>2, <2>3, <2>4, OneTabChanges
  <2>6. /\ order' \in Seq(Pages) /\ IsInjective(order') /\ order' # <<>>
        /\ DOMAIN tabs' = ToSet(order') /\ current' \in ToSet(order')
    BY <1>2, <2>5 DEF TabInv, Shape
  <2> QED
    BY <2>5, <2>6, AtWindow
<1> QED
  BY <1>1, <1>2 DEF OpenSQLPath

(* Typing marks the tab.                                                   *)
LEMMA EditKeeps ==
    ASSUME TabInv, Edit
    PROVE  TabInv'
<1> DEFINE t == [text |-> "typed", file |-> tabs[current].file, dirty |-> TRUE,
                 stray |-> tabs[current].stray]
<1>1. doing = "up" /\ UNCHANGED <<order, current, asking>>
  BY DEF Edit
<1>2. current \in DOMAIN tabs /\ IsTab(tabs[current])
  BY <1>1 DEF TabInv, Shape
<1>3. tabs' = [tabs EXCEPT ![current] = t]
  BY <1>2 DEF Edit
<1>4. IsTab(t) /\ t.dirty
  BY DEF IsTab
<1> HIDE DEF t
<1>5. /\ DOMAIN tabs' = DOMAIN tabs /\ Marks'
      /\ \A p \in DOMAIN tabs' : IsTab(tabs'[p])
  BY <1>2, <1>3, <1>4, OneTabChanges
<1>6. /\ order' \in Seq(Pages) /\ IsInjective(order') /\ order' # <<>>
      /\ DOMAIN tabs' = ToSet(order') /\ current' \in ToSet(order')
  BY <1>1, <1>5 DEF TabInv, Shape
<1> QED
  BY <1>1, <1>5, <1>6, AtWindow

(* Switching tabs changes no text.                                         *)
LEMMA SwitchKeeps ==
    ASSUME TabInv, doing = "up", UNCHANGED <<tabs, order, asking>>,
           current' \in DOMAIN tabs
    PROVE  TabInv' /\ Kept
<1>1. Marks' /\ Kept /\ \A p \in DOMAIN tabs' : IsTab(tabs'[p])
  BY TabsAsTheyWere
<1>2. /\ order' \in Seq(Pages) /\ IsInjective(order') /\ order' # <<>>
      /\ DOMAIN tabs' = ToSet(order') /\ current' \in ToSet(order')
  BY DEF TabInv, Shape
<1> QED
  BY <1>1, <1>2, AtWindow

(* Nor does the list of files to reopen.                                   *)
LEMMA RecentKeeps ==
    ASSUME TabInv, NEW f, SwitchToRecent(f)
    PROVE  TabInv' /\ Kept
<1>1. doing = "up" /\ UNCHANGED <<tabs, order, asking>>
  BY DEF SwitchToRecent
<1>2. PICK i \in DOMAIN order : current' = order[i]
  BY DEF SwitchToRecent
<1>3. current' \in DOMAIN tabs
  BY <1>2 DEF TabInv, Shape, ToSet
<1> QED
  BY <1>1, <1>3, SwitchKeeps

(* A save puts the text on disk before it clears the mark.                 *)
LEMMA SaveKeeps ==
    ASSUME TabInv, NEW asNew, SaveTab(asNew)
    PROVE  TabInv' /\ Kept
<1>1. doing = "up" /\ UNCHANGED <<order, current, asking>>
  BY DEF SaveTab
<1>2. current \in DOMAIN tabs
  BY <1>1 DEF TabInv, Shape
<1>3. PICK f : Written(current, f) \/ WriteFails(f)
  BY DEF SaveTab
<1>4. CASE Written(current, f)
  <2>1. tabs' = [tabs EXCEPT ![current] = Tab("file", f)]
    BY <1>4 DEF Written
  <2>2. /\ DOMAIN tabs' = DOMAIN tabs /\ Marks' /\ Kept
        /\ \A p \in DOMAIN tabs' : IsTab(tabs'[p])
    BY <1>2, <2>1, TabIsTab, OneTabChanges
  <2>3. /\ order' \in Seq(Pages) /\ IsInjective(order') /\ order' # <<>>
        /\ DOMAIN tabs' = ToSet(order') /\ current' \in ToSet(order')
    BY <1>1, <2>2 DEF TabInv, Shape
  <2> QED
    BY <1>1, <2>2, <2>3, AtWindow
<1>5. CASE WriteFails(f)
  BY <1>1, <1>2, <1>5, SwitchKeeps DEF WriteFails
<1> QED
  BY <1>3, <1>4, <1>5

-----------------------------------------------------------------------------
(* Questions                                                               *)

(* Closing a tab asks about it first.                                      *)
LEMMA CloseKeeps ==
    ASSUME TabInv, CloseCurrentTab
    PROVE  TabInv' /\ Kept
<1>1. /\ doing = "up" /\ doing' = "close" /\ asked' = current /\ ~confirmed'
      /\ UNCHANGED <<tabs, order, current, confirmed>>
  BY DEF CloseCurrentTab, pages, TabInv, Shape
<1>2. Marks' /\ Kept /\ \A p \in DOMAIN tabs : IsTab(tabs'[p])
  BY <1>1, TabsAsTheyWere
<1>3. Shape'
  BY <1>1 DEF TabInv, Shape
<1>4. Answers'
  BY <1>1 DEF Answers
<1> QED
  BY <1>2, <1>3, <1>4 DEF TabInv

(* An exit asks about the tabs from the first on.                          *)
LEMMA ExitKeeps ==
    ASSUME TabInv, ExitClicked
    PROVE  TabInv' /\ Kept
<1>1. /\ doing = "up" /\ doing' = "exit" /\ asked' = order[1] /\ ~confirmed'
      /\ UNCHANGED <<tabs, order, current, confirmed>>
  BY DEF ExitClicked, pages, TabInv, Shape
<1>2. Marks' /\ Kept /\ \A p \in DOMAIN tabs : IsTab(tabs'[p])
  BY <1>1, TabsAsTheyWere
<1>3. DOMAIN order = 1..Len(order) /\ Len(order) \in Nat \ {0}
  BY <1>1, EmptySeq DEF TabInv, Shape
<1>4. 1 \in DOMAIN order
  BY <1>3
<1>5. Shape'
  BY <1>1, <1>4 DEF TabInv, Shape, ToSet
<1>6. ASSUME NEW i \in DOMAIN order, NEW j \in DOMAIN order, order[j] = order[1], i < j
      PROVE  FALSE
  <2>1. j = 1
    BY <1>4, <1>6 DEF TabInv, Shape, IsInjective
  <2> QED
    BY <1>3, <1>6, <2>1
<1>7. Answers'
  BY <1>1, <1>6 DEF Answers
<1> QED
  BY <1>2, <1>5, <1>7 DEF TabInv

(* Back to the window, with the pages there were.                          *)
LEMMA BackKeeps ==
    ASSUME TabInv, doing \in {"close", "exit"}, BackToWindow, UNCHANGED order,
           DOMAIN tabs' = DOMAIN tabs, \A p \in DOMAIN tabs' : IsTab(tabs'[p]),
           current' \in ToSet(order), Marks'
    PROVE  TabInv'
<1>1. doing' = "up" /\ confirmed' = FALSE
  BY DEF BackToWindow
<1>2. Shape'
  BY <1>1 DEF TabInv, Shape
<1> QED
  BY <1>1, <1>2, NothingAsked DEF TabInv

(* The tab that is asked about is settled: the pages stay, and what was    *)
(* given up of other tabs stays given up.                                  *)
LEMMA SettledKeeps ==
    ASSUME TabInv, Asking, UNCHANGED <<order, doing, asked>>, confirmed' = TRUE,
           DOMAIN tabs' = DOMAIN tabs, \A p \in DOMAIN tabs' : IsTab(tabs'[p]),
           current' \in ToSet(order), Marks',
           \A p \in DOMAIN tabs \ {asked} : tabs'[p] = tabs[p],
           declined \subseteq declined',
           GivenUp(asked)'
    PROVE  TabInv'
<1>1. doing \in {"close", "exit"}
  BY DEF Asking
<1>2. Shape'
  BY <1>1 DEF TabInv, Shape
<1>3. ASSUME doing = "exit", NEW i \in DOMAIN order, NEW j \in DOMAIN order,
             order[j] = asked, i < j
      PROVE  GivenUp(order[i])'
  <2>1. GivenUp(order[i])
    BY <1>3 DEF TabInv, Answers
  <2>2. order[i] \in DOMAIN tabs
    BY <1>3 DEF TabInv, Shape, ToSet
  <2>3. CASE order[i] = asked
    BY <2>3
  <2>4. CASE order[i] # asked
    BY <2>1, <2>2, <2>4 DEF GivenUp
  <2> QED
    BY <2>3, <2>4
<1>4. Answers'
  BY <1>3 DEF Answers
<1> QED
  BY <1>2, <1>4 DEF TabInv

(* The tab that is asked about is open.                                    *)
LEMMA AskedIsTab ==
    ASSUME TabInv, doing \in {"close", "exit"}
    PROVE  asked \in DOMAIN tabs /\ asked \in ToSet(order) /\ current \in ToSet(order)
  BY DEF TabInv, Shape

(* An unchanged tab is confirmed without a question.                       *)
LEMMA NotAskedKeeps ==
    ASSUME TabInv, NotAsked
    PROVE  TabInv' /\ Kept
<1>1. /\ Asking /\ ~tabs[asked].dirty /\ confirmed' = TRUE
      /\ UNCHANGED <<tabs, order, current, doing, asked, declined>>
  BY DEF NotAsked, pages
<1>2. doing \in {"close", "exit"}
  BY <1>1 DEF Asking
<1>3. Marks' /\ Kept /\ \A p \in DOMAIN tabs : IsTab(tabs'[p])
  BY <1>1, TabsAsTheyWere
<1>4. GivenUp(asked)'
  BY <1>1 DEF GivenUp
<1> QED
  BY <1>1, <1>2, <1>3, <1>4, AskedIsTab, SettledKeeps

(* "Yes" saves, or confirms nothing when the save fails.                   *)
LEMMA AnswerYesKeeps ==
    ASSUME TabInv, AnswerYes
    PROVE  TabInv' /\ Kept
<1>1. Asking /\ current' = asked /\ UNCHANGED order
  BY DEF AnswerYes
<1>2. doing \in {"close", "exit"}
  BY <1>1 DEF Asking
<1>3. CASE Saves /\ confirmed' = TRUE /\ UNCHANGED <<doing, asked, declined>>
  <2>1. PICK f : tabs' = [tabs EXCEPT ![asked] = Tab("file", f)]
    BY <1>3 DEF Saves, Written
  <2>2. /\ DOMAIN tabs' = DOMAIN tabs /\ Marks' /\ Kept
        /\ \A p \in DOMAIN tabs' : IsTab(tabs'[p])
    BY <1>2, <2>1, AskedIsTab, TabIsTab, OneTabChanges
  <2>3. tabs'[asked] = Tab("file", f)
    BY <1>2, <2>1, AskedIsTab
  <2>4. GivenUp(asked)'
    BY <1>3, <2>3, TabIsTab DEF GivenUp
  <2>5. \A p \in DOMAIN tabs \ {asked} : tabs'[p] = tabs[p]
    BY <2>1
  <2> QED
    BY <1>1, <1>2, <1>3, <2>2, <2>4, <2>5, AskedIsTab, SettledKeeps
<1>4. CASE SavesNot /\ BackToWindow
  <2>1. tabs' = tabs
    BY <1>4 DEF SavesNot, WriteFails
  <2>2. Marks' /\ Kept /\ \A p \in DOMAIN tabs : IsTab(tabs'[p])
    BY <2>1, TabsAsTheyWere
  <2> QED
    BY <1>1, <1>2, <1>4, <2>1, <2>2, AskedIsTab, BackKeeps
<1> QED
  BY <1>3, <1>4 DEF AnswerYes

(* "No" is the user giving the text up.                                    *)
LEMMA AnswerNoKeeps ==
    ASSUME TabInv, AnswerNo
    PROVE  TabInv' /\ Kept
<1>1. /\ Asking /\ confirmed' = TRUE /\ current' = asked
      /\ declined' = declined \union {asked}
      /\ UNCHANGED <<tabs, order, doing, asked>>
  BY DEF AnswerNo
<1>2. doing \in {"close", "exit"}
  BY <1>1 DEF Asking
<1>3. Marks' /\ Kept /\ \A p \in DOMAIN tabs : IsTab(tabs'[p])
  BY <1>1, TabsAsTheyWere
<1>4. GivenUp(asked)'
  BY <1>1 DEF GivenUp
<1> QED
  BY <1>1, <1>2, <1>3, <1>4, AskedIsTab, SettledKeeps

(* "Cancel" leaves everything as it was.                                   *)
LEMMA AnswerCancelKeeps ==
    ASSUME TabInv, AnswerCancel
    PROVE  TabInv' /\ Kept
<1>1. Asking /\ BackToWindow /\ current' = asked /\ UNCHANGED <<tabs, order>>
  BY DEF AnswerCancel
<1>2. doing \in {"close", "exit"}
  BY <1>1 DEF Asking
<1>3. Marks' /\ Kept /\ \A p \in DOMAIN tabs : IsTab(tabs'[p])
  BY <1>1, TabsAsTheyWere
<1> QED
  BY <1>1, <1>2, <1>3, AskedIsTab, BackKeeps

-----------------------------------------------------------------------------
(* What was confirmed                                                      *)

(* The last tab is cleared once it is confirmed.                           *)
LEMMA ClearKeeps ==
    ASSUME TabInv, ClearsOnlyTab
    PROVE  TabInv' /\ Kept
<1> DEFINE t == Tab("empty", tabs[asked].file)
<1>1. /\ doing = "close" /\ confirmed /\ BackToWindow /\ UNCHANGED <<order, current>>
      /\ tabs' = [tabs EXCEPT ![asked] = t]
  BY DEF ClearsOnlyTab
<1>2. asked \in DOMAIN tabs /\ current \in ToSet(order)
  BY <1>1, AskedIsTab
<1>3. ~Unsaved(asked) \/ asked \in declined
  BY <1>1, <1>2 DEF TabInv, Marks, Answers, GivenUp
<1>4. IsTab(t) /\ t.text = "empty"
  BY TabIsTab
<1> HIDE DEF t
<1>5. /\ DOMAIN tabs' = DOMAIN tabs /\ Marks' /\ Kept
      /\ \A p \in DOMAIN tabs' : IsTab(tabs'[p])
  BY <1>1, <1>2, <1>3, <1>4, OneTabChanges
<1> QED
  BY <1>1, <1>2, <1>5, BackKeeps

(* Any other tab is removed once it is confirmed.                          *)
LEMMA RemoveKeeps ==
    ASSUME TabInv, RemovesTab
    PROVE  TabInv' /\ Kept
<1> DEFINE k == Place(asked)
<1>1. /\ doing = "close" /\ confirmed /\ Len(order) > 1 /\ BackToWindow
      /\ current' = order[IF k > 1 THEN k - 1 ELSE 2]
      /\ tabs' = [p \in DOMAIN tabs \ {asked} |-> tabs[p]]
      /\ order' = RemoveAt(order, k)
  BY DEF RemovesTab
<1>2. /\ order \in Seq(Pages) /\ IsInjective(order)
      /\ DOMAIN tabs = ToSet(order) /\ \A p \in DOMAIN tabs : IsTab(tabs[p])
  BY DEF TabInv, Shape
<1>3. k \in DOMAIN order /\ order[k] = asked
  BY <1>1, AskedIsTab, PlaceOf
<1> HIDE DEF k
<1>4. /\ order' \in Seq(Pages) /\ IsInjective(order') /\ order' # <<>>
      /\ ToSet(order') = ToSet(order) \ {asked}
  BY <1>1, <1>2, <1>3, RemovePage
<1>5. /\ DOMAIN tabs' = ToSet(order')
      /\ \A p \in DOMAIN tabs' : tabs'[p] = tabs[p] /\ p \in DOMAIN tabs
  BY <1>1, <1>2, <1>4
<1>6. current' \in ToSet(order')
  <2> DEFINE n == IF k > 1 THEN k - 1 ELSE 2
  <2>1. n \in DOMAIN order /\ n # k
    BY <1>1, <1>2, <1>3
  <2>2. order[n] \in ToSet(order) /\ order[n] # asked
    BY <1>2, <1>3, <2>1 DEF IsInjective, ToSet
  <2> QED
    BY <1>1, <1>4, <2>2
<1>7. doing' = "up" /\ confirmed' = FALSE
  BY <1>1 DEF BackToWindow
<1>8. Shape'
  BY <1>2, <1>4, <1>5, <1>6, <1>7 DEF Shape
<1>9. Marks'
  BY <1>5 DEF TabInv, Marks, Unsaved
<1>10. ~Unsaved(asked) \/ asked \in declined
  BY <1>1, AskedIsTab DEF TabInv, Marks, Answers, GivenUp
<1>11. \A p \in DOMAIN tabs : p = asked \/ p \in DOMAIN tabs'
  BY <1>1
<1>12. Kept
  BY <1>5, <1>10, <1>11 DEF Kept, Unsaved
<1> QED
  BY <1>7, <1>8, <1>9, <1>12, NothingAsked DEF TabInv

(* The exit goes on to the next tab with those before it settled.          *)
LEMMA NextKeeps ==
    ASSUME TabInv, ConfirmNext
    PROVE  TabInv' /\ Kept
<1> DEFINE k == Place(asked)
<1>1. /\ doing = "exit" /\ confirmed /\ asked # Last(order)
      /\ asked' = order[k + 1] /\ confirmed' = FALSE
      /\ UNCHANGED <<tabs, order, current, doing, declined>>
  BY DEF ConfirmNext, pages
<1>2. k \in DOMAIN order /\ order[k] = asked
  BY <1>1, AskedIsTab, PlaceOf
<1> HIDE DEF k
<1>3. /\ DOMAIN order = 1..Len(order) /\ Len(order) \in Nat
      /\ IsInjective(order)
  BY DEF TabInv, Shape
<1>4. k # Len(order)
  BY <1>1, <1>2 DEF Last
<1>5. k + 1 \in DOMAIN order /\ k \in Nat
  BY <1>2, <1>3, <1>4
<1>6. Marks' /\ Kept /\ \A p \in DOMAIN tabs : IsTab(tabs'[p])
  BY <1>1, TabsAsTheyWere
<1>7. Shape'
  BY <1>1, <1>5 DEF TabInv, Shape, ToSet
<1>8. ASSUME NEW i \in DOMAIN order, NEW j \in DOMAIN order,
             order[j] = order[k + 1], i < j
      PROVE  GivenUp(order[i])
  <2>1. j = k + 1
    BY <1>3, <1>5, <1>8 DEF IsInjective
  <2>2. i = k \/ i < k
    BY <1>3, <1>5, <1>8, <2>1
  <2>3. CASE i = k
    BY <1>1, <1>2, <2>3 DEF TabInv, Answers
  <2>4. CASE i < k
    BY <1>1, <1>2, <1>8, <2>4 DEF TabInv, Answers
  <2> QED
    BY <2>2, <2>3, <2>4
<1>9. Answers'
  BY <1>1, <1>8 DEF Answers, GivenUp
<1> QED
  BY <1>6, <1>7, <1>9 DEF TabInv

(* When the last tab is settled all of them are.                           *)
LEMMA EndKeeps ==
    ASSUME RunIsOver
    PROVE  TabInv'
<1>1. /\ tabs' = << >> /\ order' = << >>
      /\ doing' = "off" /\ confirmed' = FALSE
  BY DEF RunIsOver
<1>2. DOMAIN order' = {} /\ DOMAIN tabs' = {}
  BY <1>1
<1>3. order' \in Seq(Pages) /\ IsInjective(order') /\ ToSet(order') = {}
  BY <1>1, <1>2 DEF IsInjective, ToSet
<1>4. Shape'
  BY <1>1, <1>2, <1>3 DEF Shape
<1>5. Marks'
  BY <1>2 DEF Marks
<1> QED
  BY <1>1, <1>4, <1>5, NothingAsked DEF TabInv

(* The window closes with every tab settled.                               *)
LEMMA ExitsKeeps ==
    ASSUME TabInv, Exits
    PROVE  TabInv' /\ Kept
<1>1. doing = "exit" /\ confirmed /\ asked = Last(order) /\ RunIsOver
  BY DEF Exits
<1>2. /\ DOMAIN order = 1..Len(order) /\ Len(order) \in Nat
      /\ DOMAIN tabs = ToSet(order)
  BY DEF TabInv, Shape
<1>3. ASSUME NEW p \in DOMAIN tabs
      PROVE  GivenUp(p)
  <2>1. PICK i \in DOMAIN order : order[i] = p
    BY <1>2 DEF ToSet
  <2>2. CASE i = Len(order)
    BY <1>1, <2>1, <2>2 DEF TabInv, Answers, Last
  <2>3. CASE i < Len(order)
    <3>1. Len(order) \in DOMAIN order /\ order[Len(order)] = asked
      BY <1>1, <1>2, <2>3 DEF Last
    <3> QED
      BY <1>1, <2>1, <2>3, <3>1 DEF TabInv, Answers
  <2> QED
    BY <1>2, <2>1, <2>2, <2>3
<1>4. Kept
  BY <1>3 DEF Kept, TabInv, Marks, GivenUp
<1> QED
  BY <1>1, <1>4, EndKeeps

-----------------------------------------------------------------------------

(* No step loses a text that was not given up, and each keeps the          *)
(* invariant.                                                              *)
LEMMA TabStep ==
    ASSUME TabInv, [TabNext]_tabVars
    PROVE  TabInv' /\ (Edit \/ ProgramStops \/ Kept \/ UNCHANGED tabVars)
<1>1. CASE UNCHANGED tabVars
  BY <1>1 DEF tabVars, TabInv, Shape, Marks, Answers, Unsaved, GivenUp
<1>2. CASE NewTab
  BY <1>2, TabIsTab, AddKeeps DEF NewTab
<1>3. CASE Edit
  BY <1>3, EditKeeps
<1>4. ASSUME NEW p \in Pages, SelectTab(p)
      PROVE  TabInv' /\ Kept
  <2>1. doing = "up" /\ UNCHANGED <<tabs, order, asking>> /\ current' \in DOMAIN tabs
    BY <1>4 DEF SelectTab
  <2> QED
    BY <2>1, SwitchKeeps
<1>5. ASSUME NEW f \in Paths, OpenSQLFile(f) \/ OpenRecentFile(f)
      PROVE  TabInv' /\ Kept
  BY <1>5, OpenKeeps DEF OpenSQLFile, OpenRecentFile
<1>6. ASSUME NEW f \in Paths, SwitchToRecent(f)
      PROVE  TabInv' /\ Kept
  BY <1>6, RecentKeeps
<1>7. ASSUME NEW f \in Paths, FileRemoved(f)
      PROVE  TabInv' /\ Kept
  BY <1>7, TabsAsTheyWere
  DEF FileRemoved, pages, asking, TabInv, Shape, Answers, GivenUp
<1>8. ASSUME NEW asNew \in BOOLEAN, SaveTab(asNew)
      PROVE  TabInv' /\ Kept
  BY <1>8, SaveKeeps
<1>9. CASE CloseCurrentTab \/ ExitClicked
  BY <1>9, CloseKeeps, ExitKeeps
<1>10. CASE NotAsked \/ AnswerYes \/ AnswerNo \/ AnswerCancel
  BY <1>10, NotAskedKeeps, AnswerYesKeeps, AnswerNoKeeps, AnswerCancelKeeps
<1>11. CASE ClearsOnlyTab \/ RemovesTab \/ ConfirmNext \/ Exits
  BY <1>11, ClearKeeps, RemoveKeeps, NextKeeps, ExitsKeeps
<1>12. CASE ProgramStops
  BY <1>12, EndKeeps DEF ProgramStops
<1>13. ASSUME NEW unreadable, NextStart(unreadable)
       PROVE  TabInv' /\ Kept
  BY <1>13, StartKeeps
<1> QED
  BY <1>1, <1>2, <1>3, <1>4, <1>5, <1>6, <1>7, <1>8, <1>9, <1>10, <1>11, <1>12, <1>13
  DEF TabNext

(* AskedBeforeLoss, for any number of tabs and files: no order of edits,   *)
(* saves, questions, answers and failures loses a text that the user did   *)
(* not give up, walk_windows.go:522-561, 1088-1160 and 334-350.            *)
THEOREM AlwaysAskedBeforeLoss == TabSpec => AskedBeforeLoss
<1>1. TabInit => TabInv
  BY TabStart
<1>2. TabInv /\ [TabNext]_tabVars => TabInv'
  BY TabStep
<1>3. TabInv /\ [TabNext]_tabVars =>
        [ Edit \/ ProgramStops \/
          \A p \in DOMAIN tabs : Unsaved(p) =>
              \/ p \in DOMAIN tabs' /\ tabs'[p].text \in {"typed", "file"}
              \/ p \in declined ]_tabVars
  BY TabStep DEF Kept
<1> QED
  BY <1>1, <1>2, <1>3, PTL DEF TabSpec, AskedBeforeLoss

-----------------------------------------------------------------------------
(* The next start                                                          *)

(* In the list, g is never named before f is.                              *)
Before(list, f, g) ==
    \A j \in DOMAIN list : list[j] = g => \E i \in 1..j : list[i] = f

(* A list of different elements of another one, in the order of that.      *)
InOrderOf(part, list) ==
    \A i, j \in 1..Len(part) :
        i < j => part[i] # part[j] /\ Before(list, part[i], part[j])

(* FilesToRestore cleans the list up without changing its order, and drops *)
(* a file that is there only when it has as many as it may                 *)
(* (app/tabs.go:15-34).                                                    *)
LEMMA WhatIsRestored ==
    ASSUME NEW list \in Seq(Paths)
    PROVE  /\ FilesToRestore(list) \in Seq(Paths)
           /\ InOrderOf(FilesToRestore(list), list)
           /\ \A f \in ToSet(list) : Exists(f) =>
                \/ f \in ToSet(FilesToRestore(list))
                \/ Len(FilesToRestore(list)) = MaxRestored
<1>1. PICK m \in Nat : m = Len(list) /\ DOMAIN list = 1..m
  OBVIOUS
<1>2. PICK P \in SUBSET (1..Len(list)) : P = Restorable(list)
  BY <1>1 DEF Restorable
<1>3. PICK d \in Seq(Paths) : d = ElementsAt(list, P)
  BY ElementsKept
<1>4. PICK c \in Nat : c = Cardinality(P) /\ c = Len(d)
  BY <1>3, ElementsKept
<1>5. /\ \A n \in 1..c : NthPlace(P, n) \in P /\ d[n] = list[NthPlace(P, n)]
      /\ \A k, n \in 1..c : k < n => NthPlace(P, k) < NthPlace(P, n)
      /\ \A i \in P : \E n \in 1..c : d[n] = list[i]
  <2>1. /\ \A n \in 1..Cardinality(P) :
             /\ NthPlace(P, n) \in P
             /\ ElementsAt(list, P)[n] = list[NthPlace(P, n)]
        /\ \A k, n \in 1..Cardinality(P) :
             k < n => NthPlace(P, k) < NthPlace(P, n)
        /\ \A i \in P :
             \E n \in 1..Cardinality(P) : ElementsAt(list, P)[n] = list[i]
    BY ElementsKept
  <2> QED
    BY <1>3, <1>4, <2>1
<1>6. InOrderOf(d, list)
  <2> SUFFICES ASSUME NEW i \in 1..c, NEW j \in 1..c, i < j
               PROVE  d[i] # d[j] /\ Before(list, d[i], d[j])
    BY <1>4 DEF InOrderOf
  <2>1. PICK a \in 1..m : a = NthPlace(P, i) /\ d[i] = list[a]
    BY <1>1, <1>5
  <2>2. PICK b \in 1..m : b = NthPlace(P, j) /\ d[j] = list[b]
                           /\ \A k \in 1..b - 1 : list[k] # list[b]
    BY <1>1, <1>2, <1>5 DEF Restorable
  <2>3. a < b
    BY <1>5, <2>1, <2>2
  <2>4. d[i] # d[j]
    BY <2>1, <2>2, <2>3
  <2>5. ASSUME NEW k \in 1..m, list[k] = d[j]
        PROVE  \E n \in 1..k : list[n] = d[i]
    <3>1. ~(k < b)
      BY <2>2, <2>5
    <3> QED
      BY <2>1, <2>3, <3>1
  <2> QED
    BY <1>1, <2>4, <2>5 DEF Before
<1>7. \A f \in ToSet(list) : Exists(f) => \E n \in 1..c : d[n] = f
  <2> SUFFICES ASSUME NEW f \in ToSet(list), Exists(f)
               PROVE  \E n \in 1..c : d[n] = f
    OBVIOUS
  <2>1. PICK K \in SUBSET (1..m) : K = {k \in 1..m : list[k] = f}
    OBVIOUS
  <2>2. K # {}
    BY <1>1, <2>1 DEF ToSet
  <2>3. PICK i \in K : \A k \in K : ~(k < i)
    BY <2>2, FirstPlace
  <2>4. i \in 1..m /\ list[i] = f /\ \A k \in 1..i - 1 : list[k] # f
    BY <2>1, <2>3
  <2>5. i \in P
    BY <1>1, <1>2, <2>4 DEF Restorable
  <2> QED
    BY <1>5, <2>4, <2>5
<1>8. PICK F : F = FilesToRestore(list)
  OBVIOUS
<1>9. PICK l \in Nat : l = IF c < MaxRestored THEN c ELSE MaxRestored
  BY TabAssumption
<1>10. F = SubSeq(d, 1, l)
  BY <1>2, <1>3, <1>4, <1>8, <1>9 DEF FilesToRestore, FirstOf
<1>11. /\ F \in Seq(Paths) /\ Len(F) = l /\ l <= c
       /\ \A n \in 1..l : F[n] = d[n]
  BY <1>4, <1>9, <1>10, TabAssumption
<1>12. InOrderOf(F, list)
  BY <1>4, <1>6, <1>11 DEF InOrderOf
<1>13. ASSUME NEW f \in ToSet(list), Exists(f), l # MaxRestored
       PROVE  f \in ToSet(F)
  <2>1. l = c
    BY <1>9, <1>13
  <2>2. PICK n \in 1..c : d[n] = f
    BY <1>7, <1>13
  <2>3. n \in DOMAIN F /\ F[n] = f
    BY <1>11, <2>1, <2>2
  <2> QED
    BY <2>3 DEF ToSet
<1> QED
  BY <1>8, <1>11, <1>12, <1>13

(* Files that cannot be read leave the others in their order               *)
(* (walk_windows.go:632-642).                                              *)
LEMMA WhatIsOpened ==
    ASSUME NEW list \in Seq(Paths), NEW F \in Seq(Paths), InOrderOf(F, list),
           NEW unreadable
    PROVE  /\ Opened(F, unreadable) \in Seq(Paths)
           /\ InOrderOf(Opened(F, unreadable), list)
           /\ unreadable = {} => Opened(F, unreadable) = F
<1>1. PICK m \in Nat : m = Len(F) /\ DOMAIN F = 1..m
  OBVIOUS
<1>2. PICK P \in SUBSET (1..Len(F)) :
         P = {i \in DOMAIN F : F[i] \notin unreadable}
  BY <1>1
<1>3. PICK d \in Seq(Paths) : d = ElementsAt(F, P) /\ d = Opened(F, unreadable)
  BY <1>2, ElementsKept DEF Opened
<1>4. PICK c \in Nat : c = Cardinality(P) /\ c = Len(d)
  BY <1>3, ElementsKept
<1>5. /\ \A n \in 1..c : NthPlace(P, n) \in P /\ d[n] = F[NthPlace(P, n)]
      /\ \A k, n \in 1..c : k < n => NthPlace(P, k) < NthPlace(P, n)
  <2>1. /\ \A n \in 1..Cardinality(P) :
             /\ NthPlace(P, n) \in P
             /\ ElementsAt(F, P)[n] = F[NthPlace(P, n)]
        /\ \A k, n \in 1..Cardinality(P) :
             k < n => NthPlace(P, k) < NthPlace(P, n)
    BY ElementsKept
  <2> QED
    BY <1>3, <1>4, <2>1
<1>6. InOrderOf(d, list)
  <2> SUFFICES ASSUME NEW i \in 1..c, NEW j \in 1..c, i < j
               PROVE  d[i] # d[j] /\ Before(list, d[i], d[j])
    BY <1>4 DEF InOrderOf
  <2>1. PICK a \in 1..Len(F) : a = NthPlace(P, i) /\ d[i] = F[a]
    BY <1>5
  <2>2. PICK b \in 1..Len(F) : b = NthPlace(P, j) /\ d[j] = F[b]
    BY <1>5
  <2>3. a < b
    BY <1>5, <2>1, <2>2
  <2> QED
    BY <2>1, <2>2, <2>3 DEF InOrderOf
<1>7. unreadable = {} => d = F
  BY <1>1, <1>2, <1>3, AllKept
<1> QED
  BY <1>3, <1>6, <1>7

(* Files have paths, and the list that is saved is a list of paths.        *)
Named(t) == t.file \in Paths \union {NoPath}

Typed ==
    /\ remembered \in Seq(Paths)
    /\ tabFaults \in Nat
    /\ \A p \in DOMAIN tabs : Named(tabs[p])

(* A tab of a path is named by it.                                         *)
LEMMA TabIsNamed ==
    ASSUME NEW text, NEW f \in Paths \union {NoPath}
    PROVE  Named(Tab(text, f)) /\ Tab(text, f).file = f
  BY DEF Named, Tab

(* One tab gets another record.                                            *)
LEMMA OneTabNamed ==
    ASSUME Typed, NEW q, NEW t, Named(t), tabs' = [tabs EXCEPT ![q] = t]
    PROVE  \A p \in DOMAIN tabs' : Named(tabs'[p])
  BY DEF Typed

(* What openFilePaths saves (walk_windows.go:620-629).                     *)
LEMMA SavedPaths ==
    ASSUME Shape, Typed
    PROVE  OpenFilePaths \in Seq(Paths)
<1>1. PICK m \in Nat : m = Len(order) /\ DOMAIN order = 1..m
  BY DEF Shape
<1>2. PICK ps : ps = [i \in DOMAIN order |-> tabs[order[i]].file]
  OBVIOUS
<1>3. \A i \in 1..m : tabs[order[i]].file \in Paths \union {NoPath}
  BY <1>1 DEF Shape, ToSet, Typed, Named
<1>4. /\ ps \in Seq(Paths \union {NoPath}) /\ Len(ps) = m
      /\ DOMAIN ps = 1..m
  BY <1>1, <1>2, <1>3
<1>5. PICK P \in SUBSET (1..Len(ps)) : P = {i \in DOMAIN ps : ps[i] # NoPath}
  BY <1>4
<1>6. PICK d \in Seq(Paths \union {NoPath}) : d = ElementsAt(ps, P)
  BY <1>4, ElementsKept
<1>7. PICK c \in Nat : c = Cardinality(P) /\ c = Len(d)
  BY <1>4, <1>6, ElementsKept
<1>8. \A n \in 1..c : NthPlace(P, n) \in P /\ d[n] = ps[NthPlace(P, n)]
  <2>1. \A n \in 1..Cardinality(P) :
          NthPlace(P, n) \in P /\ ElementsAt(ps, P)[n] = ps[NthPlace(P, n)]
    BY <1>4, ElementsKept
  <2> QED
    BY <1>6, <1>7, <2>1
<1>9. \A n \in 1..c : d[n] \in Paths
  <2> TAKE n \in 1..c
  <2>1. PICK i \in 1..m : i = NthPlace(P, n) /\ d[n] = ps[i] /\ ps[i] # NoPath
    BY <1>4, <1>5, <1>8
  <2> QED
    BY <1>4, <2>1
<1>10. d \in Seq(Paths)
  BY <1>6, <1>7, <1>9
<1> QED
  BY <1>2, <1>5, <1>6, <1>10 DEF OpenFilePaths

(* What a start shows: the first tab without a file, then what it opens.   *)
LEMMA WhatIsShown ==
    ASSUME Shape, Typed, NEW unreadable, NextStart(unreadable)
    PROVE  LET d == Opened(FilesToRestore(remembered), unreadable)
           IN /\ d \in Seq(Paths) /\ order' \in Seq(Pages) /\ IsInjective(order')
              /\ Len(order') = 1 + Len(d) /\ DOMAIN tabs' = ToSet(order')
              /\ \A i \in DOMAIN order' :
                   tabs'[order'[i]].file = IF i = 1 THEN NoPath ELSE d[i - 1]
<1>1. PICK d \in Seq(Paths) : d = Opened(FilesToRestore(remembered), unreadable)
  BY WhatIsRestored, WhatIsOpened DEF Typed
<1> DEFINE at(p) == CHOOSE i \in DOMAIN order' : order'[i] = p
           tab(p) == IF at(p) = 1 THEN Tab("empty", NoPath)
                     ELSE Tab("file", d[at(p) - 1])
<1>2. order' \in {ps \in Rows : Len(ps) = 1 + Len(d)}
  BY <1>1 DEF NextStart
<1>3. order' \in Seq(Pages) /\ IsInjective(order') /\ Len(order') = 1 + Len(d)
  BY <1>2, RowShape
<1>4. tabs' = [p \in ToSet(order') |-> tab(p)]
  BY <1>1 DEF NextStart
<1>5. ASSUME NEW i \in DOMAIN order'
      PROVE  tabs'[order'[i]].file = IF i = 1 THEN NoPath ELSE d[i - 1]
  <2>1. at(order'[i]) = i
    BY <1>3 DEF IsInjective
  <2>2. order'[i] \in ToSet(order')
    BY DEF ToSet
  <2>3. tabs'[order'[i]] = IF i = 1 THEN Tab("empty", NoPath)
                           ELSE Tab("file", d[i - 1])
    <3>1. tabs'[order'[i]] = tab(order'[i])
      <4> HIDE DEF tab
      <4> QED
        BY <1>4, <2>2, Zenon
    <3> HIDE DEF at
    <3> QED
      BY <2>1, <3>1
  <2>4. CASE i = 1
    BY <2>3, <2>4 DEF Tab
  <2>5. CASE i # 1
    BY <2>3, <2>5 DEF Tab
  <2> QED
    BY <2>4, <2>5
<1> QED
  BY <1>1, <1>3, <1>4, <1>5

(* Every step saves paths and gives tabs paths.                            *)
LEMMA TypedStep ==
    ASSUME TabInv, Typed, [TabNext]_tabVars
    PROVE  Typed'
<1>0. Shape
  BY DEF TabInv
<1>1. CASE UNCHANGED <<tabs, remembered, tabFaults>>
  BY <1>1 DEF Typed
<1>2. ASSUME TabFault PROVE tabFaults' \in Nat
  BY <1>2 DEF TabFault, Typed
<1>3. ASSUME NEW f \in Paths \union {NoPath}, NEW text, AddEditorTab(Tab(text, f)),
             UNCHANGED <<remembered, tabFaults>>
      PROVE  Typed'
  <2>1. PICK t : t = Tab(text, f) /\ Named(t)
    BY TabIsNamed
  <2>2. PICK q : tabs' = [p \in DOMAIN tabs \union {q} |->
                            IF p = q THEN t ELSE tabs[p]]
    BY <1>3, <2>1 DEF AddEditorTab
  <2>3. ASSUME NEW p \in DOMAIN tabs' PROVE Named(tabs'[p])
    BY <2>1, <2>2, <2>3 DEF Typed
  <2> QED
    BY <1>3, <2>3 DEF Typed
<1>4. ASSUME NEW f \in Paths, OpenSQLPath(f), UNCHANGED remembered
      PROVE  Typed'
  <2>1. CASE UNCHANGED tabFaults /\ AddEditorTab(Tab("file", f))
    BY <1>3, <1>4, <2>1
  <2>2. CASE /\ TabFault
             /\ tabs' = [tabs EXCEPT ![current] =
                   [text |-> @.text, file |-> f, dirty |-> FALSE, stray |-> TRUE]]
    <3>1. PICK t : /\ t = [text |-> tabs[current].text, file |-> f,
                           dirty |-> FALSE, stray |-> TRUE]
                   /\ tabs' = [tabs EXCEPT ![current] = t]
      BY <2>2
    <3>2. Named(t)
      BY <3>1 DEF Named
    <3>3. \A p \in DOMAIN tabs' : Named(tabs'[p])
      BY <3>1, <3>2, OneTabNamed
    <3> QED
      BY <1>2, <1>4, <2>2, <3>3 DEF Typed
  <2> QED
    BY <1>4, <2>1, <2>2 DEF OpenSQLPath
<1>5. ASSUME NEW p \in DOMAIN tabs, NEW asNew \in BOOLEAN,
             NEW f \in Writable(p, asNew), Written(p, f) \/ WriteFails(f),
             UNCHANGED remembered
      PROVE  Typed'
  <2>1. f \in Paths
    BY <1>5 DEF Writable, Typed, Named
  <2>2. CASE Written(p, f)
    <3>1. \A q \in DOMAIN tabs' : Named(tabs'[q])
      BY <2>1, <2>2, OneTabNamed, TabIsNamed DEF Written
    <3> QED
      BY <1>5, <2>2, <3>1 DEF Written, Typed
  <2>3. CASE WriteFails(f)
    BY <1>2, <1>5, <2>3 DEF WriteFails, Typed
  <2> QED
    BY <1>5, <2>2, <2>3
<1>6. CASE NewTab
  BY <1>3, <1>6 DEF NewTab
<1>7. CASE Edit
  <2>1. PICK t : /\ t = [text |-> "typed", file |-> tabs[current].file,
                         dirty |-> TRUE, stray |-> tabs[current].stray]
                 /\ tabs' = [tabs EXCEPT ![current] = t]
    BY <1>7 DEF Edit
  <2>2. current \in DOMAIN tabs
    BY <1>0, <1>7 DEF Edit, Shape
  <2>3. Named(t)
    BY <2>1, <2>2 DEF Named, Typed
  <2>4. \A p \in DOMAIN tabs' : Named(tabs'[p])
    BY <2>1, <2>3, OneTabNamed
  <2> QED
    BY <1>7, <2>4 DEF Edit, Typed
<1>8. ASSUME NEW f \in Paths, OpenSQLFile(f) \/ OpenRecentFile(f) PROVE Typed'
  BY <1>4, <1>8 DEF OpenSQLFile, OpenRecentFile
<1>9. ASSUME NEW f \in Paths, SwitchToRecent(f) PROVE Typed'
  BY <1>1, <1>9 DEF SwitchToRecent
<1>10. ASSUME NEW f \in Paths, FileRemoved(f) PROVE Typed'
  BY <1>2, <1>10 DEF FileRemoved, pages, Typed
<1>11. ASSUME NEW asNew \in BOOLEAN, SaveTab(asNew) PROVE Typed'
  <2>1. current \in DOMAIN tabs
    BY <1>0, <1>11 DEF SaveTab, Shape
  <2> QED
    BY <1>5, <1>11, <2>1 DEF SaveTab
<1>12. CASE CloseCurrentTab \/ ExitClicked \/ NotAsked \/ AnswerNo \/ AnswerCancel
            \/ ConfirmNext
  BY <1>1, <1>12 DEF CloseCurrentTab, ExitClicked, NotAsked, AnswerNo,
     AnswerCancel, ConfirmNext, pages
<1>13. CASE AnswerYes
  <2>1. asked \in DOMAIN tabs /\ UNCHANGED remembered
    BY <1>0, <1>13 DEF AnswerYes, Asking, Shape
  <2>2. CASE Saves
    BY <1>5, <2>1, <2>2 DEF Saves
  <2>3. CASE SavesNot
    BY <1>1, <1>5, <2>1, <2>3 DEF SavesNot
  <2> QED
    BY <1>13, <2>2, <2>3 DEF AnswerYes
<1>14. CASE ClearsOnlyTab
  <2>1. asked \in DOMAIN tabs
    BY <1>0, <1>14 DEF ClearsOnlyTab, Shape
  <2>2. tabs[asked].file \in Paths \union {NoPath}
    BY <2>1 DEF Typed, Named
  <2>3. \A q \in DOMAIN tabs' : Named(tabs'[q])
    BY <1>14, <2>2, OneTabNamed, TabIsNamed DEF ClearsOnlyTab
  <2> QED
    BY <1>14, <2>3 DEF ClearsOnlyTab, Typed
<1>15. CASE RemovesTab
  BY <1>15 DEF RemovesTab, Typed
<1>16. CASE Exits \/ ProgramStops
  <2>1. DOMAIN tabs' = {}
    BY <1>16 DEF Exits, ProgramStops, RunIsOver
  <2>2. tabFaults' \in Nat
    BY <1>2, <1>16 DEF Exits, ProgramStops, Typed
  <2>3. remembered' \in Seq(Paths)
    BY <1>0, <1>16, SavedPaths DEF Exits, ProgramStops, Typed
  <2> QED
    BY <2>1, <2>2, <2>3 DEF Typed
<1>17. ASSUME NEW unreadable, NextStart(unreadable) PROVE Typed'
  <2>1. PICK d \in Seq(Paths) :
           /\ d = Opened(FilesToRestore(remembered), unreadable)
           /\ order' \in Seq(Pages) /\ Len(order') = 1 + Len(d)
           /\ DOMAIN tabs' = ToSet(order')
           /\ \A i \in DOMAIN order' :
                tabs'[order'[i]].file = IF i = 1 THEN NoPath ELSE d[i - 1]
    BY <1>0, <1>17, WhatIsShown
  <2>2. ASSUME NEW p \in DOMAIN tabs' PROVE Named(tabs'[p])
    <3>1. PICK i \in 1..Len(order') : p = order'[i]
      BY <2>1, <2>2 DEF ToSet
    <3> QED
      BY <2>1, <3>1 DEF Named
  <2>3. tabFaults' \in Nat /\ UNCHANGED remembered
    BY <1>2, <1>17 DEF NextStart, Typed
  <2> QED
    BY <2>2, <2>3 DEF Typed
<1>18. ASSUME NEW p \in Pages, SelectTab(p) PROVE Typed'
  BY <1>1, <1>18 DEF SelectTab
<1>19. CASE UNCHANGED tabVars
  BY <1>1, <1>19 DEF tabVars
<1> QED
  BY <1>6, <1>7, <1>8, <1>9, <1>10, <1>11, <1>12, <1>13, <1>14, <1>15, <1>16,
     <1>17, <1>18, <1>19 DEF TabNext

(* "The SQL files open in tabs" are "reopened at startup" (docs/           *)
(* USER_GUIDE.md:148): every remembered file that is there and can be read *)
(* is open after the start, none in two tabs, in the remembered order,     *)
(* unless as many as are ever reopened are open, for any list, any number  *)
(* of tabs and any cap (app/tabs.go:15-34, walk_windows.go:632-642).       *)
THEOREM ReopensWhatWasOpen == TabSpec => RestoredAsLeft
<1>1. TabInit => TabInv /\ Typed
  BY TabStart DEF TabInit, Typed
<1>2. TabInv /\ Typed /\ [TabNext]_tabVars => TabInv' /\ Typed'
  BY TabStep, TypedStep
<1> DEFINE Shown == [i \in DOMAIN order' |-> tabs'[order'[i]].file]
           First(f, g) == \A j \in DOMAIN remembered : remembered[j] = g =>
                             \E i \in 1..j : remembered[i] = f
           Restored ==
             /\ \A i, j \in 2..Len(Shown) : i < j =>
                   Shown[i] # Shown[j] /\ First(Shown[i], Shown[j])
             /\ tabFaults' = tabFaults =>
                   \A f \in ToSet(remembered) : Exists(f) =>
                      f \in ToSet(Shown) \/ Len(Shown) = 1 + MaxRestored
<1>3. TabInv /\ Typed /\ [TabNext]_tabVars =>
        [doing = "off" /\ doing' = "up" => Restored]_tabVars
  <2> SUFFICES ASSUME TabInv, Typed, TabNext, doing = "off", doing' = "up"
               PROVE  Restored
    OBVIOUS
  <2>1. PICK unreadable : NextStart(unreadable)
    BY DEF TabNext, NewTab, Edit, SelectTab, OpenSQLFile, OpenRecentFile,
       SwitchToRecent, FileRemoved, SaveTab, CloseCurrentTab, ExitClicked,
       NotAsked, AnswerYes, AnswerNo, AnswerCancel, ClearsOnlyTab, RemovesTab,
       ConfirmNext, Exits, ProgramStops, Asking, asking
  <2>2. PICK d \in Seq(Paths) :
           /\ d = Opened(FilesToRestore(remembered), unreadable)
           /\ order' \in Seq(Pages) /\ Len(order') = 1 + Len(d)
           /\ \A i \in DOMAIN order' :
                tabs'[order'[i]].file = IF i = 1 THEN NoPath ELSE d[i - 1]
    BY <2>1, WhatIsShown DEF TabInv
  <2>3. remembered \in Seq(Paths)
    BY DEF Typed
  <2>4. PICK F \in Seq(Paths) :
           /\ F = FilesToRestore(remembered) /\ InOrderOf(F, remembered)
           /\ \A f \in ToSet(remembered) : Exists(f) =>
                f \in ToSet(F) \/ Len(F) = MaxRestored
    BY <2>3, WhatIsRestored
  <2>5. InOrderOf(d, remembered) /\ (unreadable = {} => d = F)
    BY <2>2, <2>3, <2>4, WhatIsOpened
  <2>6. PICK n \in Nat : n = Len(d)
    BY <2>2
  <2>7. PICK s : s = Shown
    OBVIOUS
  <2>8. /\ DOMAIN s = 1..n + 1 /\ Len(s) = n + 1
        /\ \A i \in 2..n + 1 : s[i] = d[i - 1]
    <3>1. DOMAIN order' = 1..n + 1
      BY <2>2, <2>6
    <3>2. s = [i \in DOMAIN order' |-> tabs'[order'[i]].file]
      BY <2>7, Zenon
    <3>3. DOMAIN s = 1..n + 1 /\ s = [i \in 1..n + 1 |-> s[i]]
      BY <3>1, <3>2
    <3>4. Len(s) = n + 1
      BY <3>3
    <3>5. ASSUME NEW i \in 2..n + 1 PROVE s[i] = d[i - 1]
      <4>1. i \in DOMAIN order' /\ i # 1
        BY <2>6, <3>1
      <4>2. s[i] = tabs'[order'[i]].file
        BY <3>2, <4>1, Zenon
      <4> QED
        BY <2>2, <4>1, <4>2
    <3> QED
      BY <3>3, <3>4, <3>5
  <2> HIDE DEF Shown
  <2>9. ASSUME NEW i \in 2..Len(s), NEW j \in 2..Len(s), i < j
        PROVE  s[i] # s[j] /\ First(s[i], s[j])
    <3>1. /\ i - 1 \in 1..n /\ j - 1 \in 1..n /\ i - 1 < j - 1
          /\ s[i] = d[i - 1] /\ s[j] = d[j - 1]
      BY <2>6, <2>8, <2>9
    <3> QED
      BY <2>5, <2>6, <3>1 DEF InOrderOf, Before
  <2>10. ASSUME tabFaults' = tabFaults, NEW f \in ToSet(remembered), Exists(f)
         PROVE  f \in ToSet(s) \/ Len(s) = 1 + MaxRestored
    <3>1. unreadable = {}
      BY <2>1, <2>10 DEF NextStart, TabFault, Typed
    <3>2. f \in ToSet(d) \/ Len(d) = MaxRestored
      BY <2>4, <2>5, <2>10, <3>1
    <3>3. ASSUME f \in ToSet(d) PROVE f \in ToSet(s)
      <4>1. PICK k \in 1..n : d[k] = f
        BY <2>6, <3>3 DEF ToSet
      <4>2. k + 1 \in DOMAIN s /\ s[k + 1] = f
        BY <2>8, <4>1
      <4> QED
        BY <4>2 DEF ToSet
    <3> QED
      BY <2>6, <2>8, <3>2, <3>3, TabAssumption
  <2> QED
    BY <2>7, <2>9, <2>10
<1> QED
  BY <1>1, <1>2, <1>3, PTL DEF TabSpec, RestoredAsLeft

-----------------------------------------------------------------------------
(* The tree and the tabs in one window                                     *)

(* A step of the window is one of the tree or leaves it alone.             *)
LEMMA TreeMoves ==
    InTree \/ InTabs \/ UNCHANGED windowParts
      => SchemaNext \/ UNCHANGED schemaVars
BY DEF InTree, InTabs, windowParts

(* Or one of the tabs or leaves them alone.                                *)
LEMMA TabsMove ==
    InTree \/ InTabs \/ UNCHANGED windowParts => TabNext \/ UNCHANGED tabVars
BY DEF InTree, InTabs, windowParts

(* The window implements the specification of each of its two parts, which *)
(* share no state.                                                         *)
THEOREM WindowKeepsParts == WindowSpec => SchemaSpec /\ TabSpec
<1>1. WindowInit => SchemaInit /\ TabInit
  BY DEF WindowInit, TreeInit
<1>2. [InTree \/ InTabs]_windowParts => [SchemaNext]_schemaVars
  BY TreeMoves
<1>3. [InTree \/ InTabs]_windowParts => [TabNext]_tabVars
  BY TabsMove
<1> QED
  BY <1>1, <1>2, <1>3, PTL DEF WindowSpec, SchemaSpec, TabSpec

(* So every safety property of the two holds of the whole: what the run of *)
(* QueryWindow checks on its instance.                                     *)
THEOREM WindowIsSafe ==
    WindowSpec => /\ []CacheIsOwn /\ []RefreshIsHonoured /\ CachedMapsFrozen
                  /\ AskedBeforeLoss /\ RestoredAsLeft
<1>1. SchemaSpec => []CacheIsOwn /\ []RefreshIsHonoured /\ CachedMapsFrozen
  BY CacheStaysOwn, RefreshStaysHonoured, CachedMapsStayFrozen
<1>2. TabSpec => AskedBeforeLoss /\ RestoredAsLeft
  BY AlwaysAskedBeforeLoss, ReopensWhatWasOpen
<1> QED
  BY <1>1, <1>2, WindowKeepsParts

=============================================================================
