--------------------------- MODULE ApplicationUI ---------------------------
(***************************************************************************)
(* The main window (internal/ui, internal/app/presenter.go): which actions *)
(* it offers, the goroutines its handlers start and the callbacks those    *)
(* hand back with runOnMain.                                               *)
(*                                                                         *)
(* Handlers and callbacks run on the one UI thread, so each is one action. *)
(* A goroutine is a job: it starts, works, and posts a callback; walk runs *)
(* the callbacks in the order they were posted.  The Manager is reduced to *)
(* the connection of one profile; SessionManager and Executor hold the     *)
(* rest.                                                                   *)
(***************************************************************************)
EXTENDS Naturals, Sequences, FiniteSets

CONSTANTS
    Slots,      \* bound: jobs in flight
    Queries,    \* row-returning statements
    Commands,   \* the other statements
    NoQuery,
    Tables,     \* of the schema tree
    NoTable,
    MaxDetails  \* bound: table selections

ASSUME UIAssumption ==
    /\ Queries \intersect Commands = {}
    /\ NoQuery \notin Queries \union Commands
    /\ NoTable \notin Tables
    /\ MaxDetails \in Nat

VARIABLES
    conn,          \* the profile's session
    executing,     \* applicationUI.executing
    enabled,       \* the actions as last set by refreshState
    lastQuery,     \* lastQuerySQL
    lastTruncated,
    shown,         \* the statement whose rows the Results tab shows
    listed,        \* the tree lists the tables of a snapshot
    detailsGen,
    chosen,        \* the table of the latest request for details
    selected,      \* selectedSchemaID
    details,       \* the table the details pane describes
    jobs,          \* Slot -> Job
    callbacks      \* posted, in order

uvars == <<conn, executing, enabled, lastQuery, lastTruncated, shown,
           listed, detailsGen, chosen, selected, details, jobs, callbacks>>
results == <<lastQuery, lastTruncated, shown>>
tree == <<listed, detailsGen, chosen, selected, details>>

-----------------------------------------------------------------------------
Statements == Queries \union Commands
Kinds == {"none", "statement", "script", "more", "schema", "connect", "details"}

(* arg is what the job works on; of, for Load more, the query whose rows   *)
(* were shown when it was chosen.                                          *)
Job == [kind : Kinds, pc : {"free", "begin", "running", "posted"},
        arg : Statements \union Tables \union {NoQuery},
        of  : Statements \union {NoQuery},
        gen : 0..MaxDetails,
        out : {"none", "rows", "truncated", "norows", "error"}]

JobOf(kind, at, arg, of, gen) ==
    [kind |-> kind, pc |-> at, arg |-> arg, of |-> of, gen |-> gen, out |-> "none"]

NoJob == JobOf("none", "free", NoQuery, NoQuery, 0)

ActionNames == {"run", "cancel", "loadMore", "disconnect", "refresh"}

UITypeOK ==
    /\ conn \in {"none", "connecting", "open"}
    /\ executing \in BOOLEAN
    /\ enabled \in SUBSET ActionNames
    /\ lastQuery \in Statements \union {NoQuery}
    /\ lastTruncated \in BOOLEAN
    /\ shown \in Queries \union {NoQuery}
    /\ listed \in BOOLEAN
    /\ detailsGen \in 0..MaxDetails
    /\ chosen \in Tables \union {NoTable}
    /\ selected \in Tables \union {NoTable}
    /\ details \in Tables \union {NoTable}
    /\ jobs \in [Slots -> Job]
    /\ callbacks \in Seq(Slots)

(* ComputeActions, presenter.go:74-100, for the actions that matter here;  *)
(* Run stands for Run script, Begin, Commit and Rollback too.              *)
ComputeActions(connected, exec, canLoadMore) ==
    (IF connected /\ ~exec THEN {"run", "disconnect", "refresh"} ELSE {})
        \union (IF connected /\ exec THEN {"cancel"} ELSE {})
        \union (IF connected /\ ~exec /\ canLoadMore THEN {"loadMore"} ELSE {})

(* refreshState, actions_windows.go:330-361, at the end of a handler.      *)
RefreshState ==
    enabled' = ComputeActions(conn' = "open", executing',
                              lastTruncated' /\ lastQuery' \in Queries)

(* updateStatus and beginExecuting, walk_windows.go:2289-2300.             *)
UpdateStatus == executing' = FALSE /\ RefreshState
BeginExecuting == executing' = TRUE /\ RefreshState

UIInit ==
    /\ conn = "none" /\ executing = FALSE /\ enabled = {}
    /\ lastQuery = NoQuery /\ lastTruncated = FALSE /\ shown = NoQuery
    /\ listed = FALSE /\ detailsGen = 0
    /\ chosen = NoTable /\ selected = NoTable /\ details = NoTable
    /\ jobs = [s \in Slots |-> NoJob]
    /\ callbacks = <<>>

NewJob(s, job) ==
    /\ jobs[s].pc = "free"
    /\ jobs' = [jobs EXCEPT ![s] = job]

-----------------------------------------------------------------------------
(* Handlers                                                                *)

(* runStatement, walk_windows.go:1184-1247.                                *)
RunStatement(s, q) ==
    /\ "run" \in enabled /\ conn # "none"
    /\ NewJob(s, JobOf("statement", "running", q, NoQuery, 0))
    /\ lastQuery' = q
    /\ UNCHANGED <<conn, lastTruncated, shown, tree, callbacks>>
    /\ BeginExecuting

(* runScript, walk_windows.go:1249-1311; q is its first statement that     *)
(* returns rows, if one does.                                              *)
RunScript(s, q) ==
    /\ "run" \in enabled /\ conn # "none"
    /\ NewJob(s, JobOf("script", "running", q, NoQuery, 0))
    /\ UNCHANGED <<conn, results, tree, callbacks>>
    /\ BeginExecuting

(* loadMoreRows, walk_windows.go:1578-1612: a command is never re-run.     *)
LoadMore(s) ==
    /\ "loadMore" \in enabled /\ conn # "none"
    /\ lastQuery \in Queries
    /\ NewJob(s, JobOf("more", "begin", NoQuery, shown, 0))
    /\ UNCHANGED <<conn, results, tree, callbacks>>
    /\ BeginExecuting

(* loadSchema, walk_windows.go:1410-1443, from F8 (enabled) or from the    *)
(* schema tree's context menu (always there), schema_tree_windows.go:121.  *)
SchemaJob == JobOf("schema", "running", NoQuery, NoQuery, 0)

LoadSchema(s) ==
    /\ conn # "none"
    /\ NewJob(s, SchemaJob)
    /\ UNCHANGED <<conn, executing, results, tree, callbacks>>
    /\ RefreshState

(* Another table is selected, schema_tree_windows.go:65-76:                *)
(* showTableDetails, walk_windows.go:1457-1465, asks for its details.      *)
SelectTable(s, t) ==
    /\ listed /\ t # selected
    /\ conn # "none"
    /\ detailsGen < MaxDetails
    /\ detailsGen' = detailsGen + 1
    /\ chosen' = t /\ selected' = t
    /\ NewJob(s, JobOf("details", "running", t, NoQuery, detailsGen'))
    /\ UNCHANGED <<conn, executing, enabled, results, listed, details, callbacks>>

(* Nothing is asked for when the node is no table or no session is active: *)
(* the tree stays when its session is disconnected.                        *)
SelectUnasked(t) ==
    /\ listed /\ t # selected
    /\ t = NoTable \/ conn = "none"
    /\ selected' = t
    /\ UNCHANGED <<conn, executing, enabled, results, listed, detailsGen, chosen,
                   details, jobs, callbacks>>

(* setSchemaSnapshot, schema_tree_windows.go:152-156: the generation stays. *)
SetSchemaSnapshot == selected' = NoTable /\ details' = NoTable

(* refreshSchemaList, walk_windows.go:678-680, 1445-1455, at every change  *)
(* of the search, and settings_windows.go:101 for the snapshot it has.     *)
FilterSchema ==
    /\ SetSchemaSnapshot
    /\ listed' \in {listed, listed \/ conn = "open"}
    /\ UNCHANGED <<conn, executing, enabled, results, detailsGen, chosen, jobs, callbacks>>

(* quickConnect, quickconnect_windows.go:43-66, from the Connect-to menu,  *)
(* which is never disabled.  A session that is CONNECTED is only made      *)
(* active; one that is EXECUTING is connected again, which fails.          *)
InFlight(kinds) == \E s \in Slots : jobs[s].kind \in kinds /\ jobs[s].pc = "running"

SessionConnected == conn = "open" /\ ~InFlight({"statement", "script", "more"})

QuickConnect(s) ==
    /\ ~SessionConnected
    /\ NewJob(s, JobOf("connect", "begin", NoQuery, NoQuery, 0))
    /\ UNCHANGED <<conn, results, tree, callbacks>>
    /\ BeginExecuting

(* disconnectActive, actions_windows.go:379-396.                           *)
Disconnect ==
    /\ "disconnect" \in enabled /\ conn # "none"
    /\ conn' = "none"
    /\ UNCHANGED <<executing, results, tree, jobs, callbacks>>
    /\ RefreshState

-----------------------------------------------------------------------------
(* Goroutines                                                              *)

(* The goroutine of Load more reads lastQuerySQL itself, line 1597.        *)
MoreReadsQuery(s) ==
    /\ jobs[s].kind = "more" /\ jobs[s].pc = "begin"
    /\ jobs' = [jobs EXCEPT ![s].pc = "running", ![s].arg = lastQuery]
    /\ UNCHANGED <<conn, executing, enabled, results, tree, callbacks>>

Post(s, out) ==
    /\ jobs' = [jobs EXCEPT ![s].pc = "posted", ![s].out = out]
    /\ callbacks' = Append(callbacks, s)

(* Manager.Connect registers the session, or refuses an open one.          *)
ConnectBegins(s) ==
    /\ jobs[s].kind = "connect" /\ jobs[s].pc = "begin"
    /\ IF conn = "none"
         THEN /\ conn' = "connecting"
              /\ jobs' = [jobs EXCEPT ![s].pc = "running"]
              /\ UNCHANGED callbacks
         ELSE Post(s, "error") /\ UNCHANGED conn
    /\ UNCHANGED <<executing, enabled, results, tree>>

ConnectEnds(s) ==
    /\ jobs[s].kind = "connect" /\ jobs[s].pc = "running"
    /\ \/ conn' = "open" /\ Post(s, "norows")
       \/ conn' = "none" /\ Post(s, "error")
    /\ UNCHANGED <<executing, enabled, results, tree>>

(* What the call can return for its statement.                             *)
Outcomes(job) ==
    CASE job.kind = "script" -> IF job.arg = NoQuery THEN {"norows"}
                                ELSE {"rows", "truncated"}
      [] job.kind \in {"details", "schema"} -> {"rows", "error"}
      [] job.kind \in {"statement", "more"} ->
           IF job.arg \in Queries THEN {"rows", "truncated", "error"}
           ELSE {"norows", "error"}

JobEnds(s) ==
    /\ jobs[s].pc = "running" /\ jobs[s].kind # "connect"
    /\ \E out \in Outcomes(jobs[s]) : Post(s, out)
    /\ UNCHANGED <<conn, executing, enabled, results, tree>>

-----------------------------------------------------------------------------
(* Callbacks, on the UI thread again                                       *)

NextCallback(s, kinds) ==
    /\ callbacks # <<>> /\ s = Head(callbacks)
    /\ jobs[s].kind \in kinds
    /\ callbacks' = Tail(callbacks)

Done(s) == jobs' = [jobs EXCEPT ![s] = NoJob]

(* Mutant: a command is shown as if it had rows.                           *)
ApplyAnyResult(job) ==
    /\ shown' = IF job.out = "error" THEN shown ELSE job.arg
    /\ lastTruncated' = (job.out = "truncated")

(* applyStatementResult, walk_windows.go:1325-1359: an error leaves the    *)
(* results as they are.                                                    *)
ApplyResult(job) ==
    /\ shown' = CASE job.out \in {"rows", "truncated"} -> job.arg
                  [] job.out = "norows" -> NoQuery
                  [] OTHER -> shown
    /\ lastTruncated' = CASE job.out = "truncated" -> TRUE
                          [] job.out = "error" -> lastTruncated
                          [] OTHER -> FALSE

(* Mutant: the error path returns before updateStatus.                     *)
StatementCallbackReturns(s) ==
    /\ NextCallback(s, {"statement", "more"})
    /\ ApplyResult(jobs[s])
    /\ Done(s)
    /\ UNCHANGED <<conn, lastQuery, tree>>
    /\ IF jobs[s].out = "error" THEN UNCHANGED <<executing, enabled>> ELSE UpdateStatus

(* walk_windows.go:1224-1238, 1602-1610.                                   *)
StatementCallback(s) ==
    /\ NextCallback(s, {"statement", "more"})
    /\ ApplyResult(jobs[s])
    /\ Done(s)
    /\ UNCHANGED <<conn, lastQuery, tree>>
    /\ UpdateStatus

(* walk_windows.go:1273-1309: only a result with rows is applied.          *)
ScriptCallback(s) ==
    /\ NextCallback(s, {"script"})
    /\ IF jobs[s].arg = NoQuery THEN UNCHANGED <<shown, lastTruncated>> ELSE ApplyResult(jobs[s])
    /\ Done(s)
    /\ UNCHANGED <<conn, lastQuery, tree>>
    /\ UpdateStatus

(* walk_windows.go:1432-1441.                                              *)
SchemaCallback(s) ==
    /\ NextCallback(s, {"schema"})
    /\ IF jobs[s].out = "error" THEN UNCHANGED <<listed, selected, details>>
                                ELSE SetSchemaSnapshot /\ listed' = TRUE
    /\ Done(s)
    /\ UNCHANGED <<conn, results, detailsGen, chosen>>
    /\ UpdateStatus

(* Mutant: stale details are not dropped.                                  *)
DetailsCallbackStale(s) ==
    /\ NextCallback(s, {"details"})
    /\ details' = jobs[s].arg
    /\ Done(s)
    /\ UNCHANGED <<conn, executing, enabled, results, listed, detailsGen, chosen,
                   selected>>

(* walk_windows.go:1466-1518.                                              *)
DetailsCallback(s) ==
    /\ NextCallback(s, {"details"})
    /\ details' = IF jobs[s].gen = detailsGen THEN jobs[s].arg ELSE details
    /\ Done(s)
    /\ UNCHANGED <<conn, executing, enabled, results, listed, detailsGen, chosen,
                   selected>>

(* Mutant: a connect that failed returns before updateStatus.              *)
ConnectCallbackReturns(s) ==
    /\ NextCallback(s, {"connect"})
    /\ jobs' = [jobs EXCEPT ![s] =
                  IF jobs[s].out # "error" /\ conn # "none" THEN SchemaJob ELSE NoJob]
    /\ UNCHANGED <<conn, results, tree>>
    /\ IF jobs[s].out = "error" THEN UNCHANGED <<executing, enabled>> ELSE UpdateStatus

(* quickconnect_windows.go:73-85: a connect that succeeded goes on with    *)
(* loadSchema, for which the session may be gone again.                    *)
ConnectCallback(s) ==
    /\ NextCallback(s, {"connect"})
    /\ jobs' = [jobs EXCEPT ![s] =
                  IF jobs[s].out # "error" /\ conn # "none" THEN SchemaJob ELSE NoJob]
    /\ UNCHANGED <<conn, results, tree>>
    /\ UpdateStatus

-----------------------------------------------------------------------------
Handler(s) ==
    \/ \E q \in Statements : RunStatement(s, q)
    \/ \E q \in Queries \union {NoQuery} : RunScript(s, q)
    \/ LoadMore(s) \/ LoadSchema(s) \/ QuickConnect(s)
    \/ \E t \in Tables : SelectTable(s, t)

Goroutine(s) == MoreReadsQuery(s) \/ ConnectBegins(s) \/ ConnectEnds(s) \/ JobEnds(s)

Callback(s) ==
    \/ StatementCallback(s) \/ ScriptCallback(s) \/ SchemaCallback(s)
    \/ DetailsCallback(s) \/ ConnectCallback(s)

UINext ==
    \/ Disconnect \/ FilterSchema
    \/ \E t \in Tables \union {NoTable} : SelectUnasked(t)
    \/ \E s \in Slots : Handler(s) \/ Goroutine(s) \/ Callback(s)

UISpec == UIInit /\ [][UINext]_uvars

(* Calls return (a statement at its deadline), the message loop runs.      *)
FairUISpec ==
    /\ UISpec
    /\ \A s \in Slots : WF_uvars(Goroutine(s)) /\ WF_uvars(Callback(s))

-----------------------------------------------------------------------------
(* Properties                                                              *)

NothingInFlight == \A s \in Slots : jobs[s].pc = "free"

(* When nothing is in flight the window is not stuck: it does not claim to  *)
(* execute, and the actions it offers are those of its present state,      *)
(* although a connection opens and a result is applied away from the       *)
(* handler that last refreshed them (actions_windows.go:330-361,           *)
(* walk_windows.go:1410-1443, 1578-1612, 2289-2300).                       *)
QuiescentIsFresh ==
    NothingInFlight =>
        /\ ~executing
        /\ enabled = ComputeActions(conn = "open", executing,
                                    lastTruncated /\ lastQuery \in Queries)

(* Whatever the order in which the TableDetails calls come back, the pane  *)
(* only ever changes to the table of the latest request, or is cleared:    *)
(* "latest table-details request (stale results are dropped)"              *)
(* (walk_windows.go:153, 1457-1518).                                       *)
DetailsAreOfLatest ==
    [][details' # details => details' \in {chosen, NoTable}]_uvars

(* "Nothing that talks to the database is enabled while a statement is     *)
(* executing" (presenter.go:72-73).                                        *)
NothingEnabledWhileExecuting ==
    InFlight({"statement", "script", "more"}) =>
        enabled \intersect {"run", "loadMore", "disconnect", "refresh"} = {}

(* "Load more rows re-runs the query ... and fetches the next page"        *)
(* (docs/USER_GUIDE.md:74-76): the query it runs is the one whose rows     *)
(* are shown.                                                              *)
LoadMoreRerunsTheQuery ==
    \A s \in Slots :
        jobs[s].kind = "more" /\ jobs[s].pc = "running" => jobs[s].arg = jobs[s].of

(* The window does not say Executing for ever: every operation it started  *)
(* comes back and ends it (walk_windows.go:2289-2300 and its callers).     *)
ExecutingEnds == executing ~> ~executing

=============================================================================
