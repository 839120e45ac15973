--------------------------- MODULE DesktopProofs ---------------------------
(***************************************************************************)
(* The process around the sessions.  First the main window: it is never    *)
(* stuck and never shows what it should not, for every number of jobs in   *)
(* flight, of statements, of tables and of table selections.  Then the     *)
(* profiles, for any set of profile ids, any number of failed calls and    *)
(* any number of runs of the program.  Last, that in Desktop each part,    *)
(* the history included, does what its own specification says, so that     *)
(* the theorems about the parts hold of the whole.                         *)
(***************************************************************************)
EXTENDS Desktop, QueryHistoryProofs

-----------------------------------------------------------------------------
(* The main window                                                         *)

(* The jobs whose callback ends with updateStatus.                         *)
Updaters == {"statement", "script", "more", "schema", "connect"}

(* What a job works on, and what it has come back with.                    *)
Asked(task) ==
    /\ task.kind = "none" => task = NoJob
    /\ task.kind = "script" => task.arg \in Queries \union {NoQuery}
    /\ task.kind = "details" => task.arg \in Tables
    /\ task.kind \in {"statement", "more"} => task.arg \in Statements \union {NoQuery}

Answered(task) ==
    /\ task.out # "none" => task.pc = "posted"
    /\ task.kind \in {"statement", "script", "more"} /\ task.out \in {"rows", "truncated"}
         => task.arg \in Queries

JobOK(task) ==
    /\ task \in Job
    /\ task.pc = "free" <=> task.kind = "none"
    /\ Asked(task)
    /\ Answered(task)

JobsOK == \A s \in Slots : JobOK(jobs[s])

(* What the window offers is right as long as nothing comes back that      *)
(* would refresh it.                                                       *)
Offer == ComputeActions(conn = "open", executing,
                        lastTruncated /\ lastQuery \in Queries)

NoUpdater == \A s \in Slots : jobs[s].kind \notin Updaters

FreshUnlessBusy == NoUpdater => ~executing /\ enabled = Offer

(* Of the details that are under way only those asked for last carry the   *)
(* present generation, and they are of the table chosen then.              *)
DetailsOK(task) ==
    task.kind = "details" =>
        /\ task.gen <= detailsGen
        /\ task.gen = detailsGen => task.arg = chosen

DetailsOfChosen == \A s \in Slots : DetailsOK(jobs[s])

UIInv == UITypeOK /\ JobsOK /\ FreshUnlessBusy /\ DetailsOfChosen

-----------------------------------------------------------------------------
(* Steps that give one job a new value keep what holds of every job.       *)
LEMMA OneJob ==
    ASSUME UITypeOK, JobsOK, NEW s \in Slots, NEW task \in Job, JobOK(task),
           jobs' = [jobs EXCEPT ![s] = task]
    PROVE  /\ jobs' \in [Slots -> Job]
           /\ jobs'[s] = task
           /\ \A r \in Slots \ {s} : jobs'[r] = jobs[r]
           /\ JobsOK'
<1>1. jobs \in [Slots -> Job]
  BY DEF UITypeOK
<1>2. jobs' \in [Slots -> Job] /\ jobs'[s] = task
  BY <1>1
<1>3. \A r \in Slots \ {s} : jobs'[r] = jobs[r]
  BY <1>1
<1>4. \A r \in Slots : JobOK(jobs'[r])
  BY <1>2, <1>3 DEF JobsOK
<1> QED
  BY <1>2, <1>3, <1>4 DEF JobsOK

(* While a job of these kinds is in flight nothing is claimed of the       *)
(* window.                                                                 *)
LEMMA BusyIsFresh ==
    ASSUME NEW s \in Slots, jobs'[s].kind \in Updaters
    PROVE  FreshUnlessBusy'
  BY DEF FreshUnlessBusy, NoUpdater

(* updateStatus leaves the window fresh (walk_windows.go:2289-2300,        *)
(* actions_windows.go:330-361).                                            *)
LEMMA UpdatedIsFresh == UpdateStatus => FreshUnlessBusy'
  BY DEF UpdateStatus, RefreshState, FreshUnlessBusy, Offer

(* What is computed are actions (presenter.go:74-100).                     *)
LEMMA OfferType ==
    ASSUME NEW a \in BOOLEAN, NEW b \in BOOLEAN, NEW c \in BOOLEAN
    PROVE  ComputeActions(a, b, c) \in SUBSET ActionNames
  BY DEF ComputeActions, ActionNames

(* A refreshed window offers actions.                                      *)
LEMMA RefreshType ==
    ASSUME RefreshState, executing' \in BOOLEAN, lastTruncated' \in BOOLEAN
    PROVE  enabled' \in SUBSET ActionNames
<1>1. PICK a \in BOOLEAN : a = (conn' = "open")
  OBVIOUS
<1>2. PICK b \in BOOLEAN : b = executing'
  OBVIOUS
<1>3. PICK c \in BOOLEAN : c = (lastTruncated' /\ lastQuery' \in Queries)
  OBVIOUS
<1>4. enabled' = ComputeActions(a, b, c)
  BY <1>1, <1>2, <1>3 DEF RefreshState
<1> QED
  BY <1>4, OfferType

(* Steps that leave the selection alone.                                   *)
LEMMA KeepsDetails ==
    ASSUME UITypeOK, DetailsOfChosen, UNCHANGED <<detailsGen, chosen>>,
           NEW s \in Slots, NEW task \in Job, DetailsOK(task),
           jobs'[s] = task, \A r \in Slots \ {s} : jobs'[r] = jobs[r]
    PROVE  DetailsOfChosen'
<1>1. \A r \in Slots : DetailsOK(jobs'[r])
  BY DEF DetailsOfChosen
<1> QED
  BY <1>1 DEF DetailsOfChosen, DetailsOK

-----------------------------------------------------------------------------
(* The handlers that say Executing: one statement, a script, Load more and *)
(* a connect (walk_windows.go:1184-1311, 1578-1612,                        *)
(* quickconnect_windows.go:43-66).                                         *)
LEMMA BusyJob ==
    ASSUME UIInv, NEW s \in Slots, NEW task \in Job, JobOK(task),
           task.kind \in Updaters,
           jobs' = [jobs EXCEPT ![s] = task],
           UNCHANGED <<conn, tree, callbacks, lastTruncated, shown>>,
           lastQuery' \in Statements \union {NoQuery},
           executing' \in BOOLEAN, RefreshState
    PROVE  UIInv'
<1>1. UITypeOK /\ JobsOK /\ DetailsOfChosen
  BY DEF UIInv
<1>2. /\ jobs' \in [Slots -> Job] /\ jobs'[s] = task
      /\ \A r \in Slots \ {s} : jobs'[r] = jobs[r]
      /\ JobsOK'
  BY <1>1, OneJob
<1>3. enabled' \in SUBSET ActionNames
  BY <1>1, RefreshType DEF UITypeOK
<1>4. UITypeOK'
  BY <1>1, <1>2, <1>3 DEF UITypeOK, tree
<1>5. FreshUnlessBusy'
  BY <1>2, BusyIsFresh
<1>6. DetailsOK(task)
  BY DEF DetailsOK, Updaters
<1>7. UNCHANGED <<detailsGen, chosen>>
  BY DEF tree
<1>8. DetailsOfChosen'
  BY <1>1, <1>2, <1>6, <1>7, KeepsDetails
<1> QED
  BY <1>2, <1>4, <1>5, <1>8 DEF UIInv

(* A menu handler, or a click that starts a job, keeps the invariant:      *)
(* whoever sets Executing has a job that clears it                         *)
(* (actions_windows.go:330-361).                                           *)
LEMMA HandlerKeeps ==
    ASSUME UIInv, NEW s \in Slots, Handler(s)
    PROVE  UIInv'
<1> USE UIAssumption
<1>0. UITypeOK
  BY DEF UIInv
<1>1. CASE \E q \in Statements : RunStatement(s, q)
  <2>1. PICK q \in Statements : RunStatement(s, q)
    BY <1>1
  <2>2. PICK task : task = [kind |-> "statement", pc |-> "running", arg |-> q,
                            of |-> NoQuery, gen |-> 0, out |-> "none"]
    OBVIOUS
  <2>3. jobs' = [jobs EXCEPT ![s] = task]
    BY <2>1, <2>2 DEF RunStatement, NewJob, JobOf
  <2>4. task \in Job /\ JobOK(task) /\ task.kind \in Updaters
    BY <2>2 DEF JobOK, Job, Kinds, Asked, Answered, Updaters, Statements
  <2>5. /\ UNCHANGED <<conn, tree, callbacks, lastTruncated, shown>>
        /\ lastQuery' = q /\ executing' \in BOOLEAN /\ RefreshState
    BY <2>1 DEF RunStatement, BeginExecuting
  <2> QED
    BY <2>3, <2>4, <2>5, BusyJob
<1>2. CASE \E q \in Queries \union {NoQuery} : RunScript(s, q)
  <2>1. PICK q \in Queries \union {NoQuery} : RunScript(s, q)
    BY <1>2
  <2>2. PICK task : task = [kind |-> "script", pc |-> "running", arg |-> q,
                            of |-> NoQuery, gen |-> 0, out |-> "none"]
    OBVIOUS
  <2>3. jobs' = [jobs EXCEPT ![s] = task]
    BY <2>1, <2>2 DEF RunScript, NewJob, JobOf
  <2>4. task \in Job /\ JobOK(task) /\ task.kind \in Updaters
    BY <2>2 DEF JobOK, Job, Kinds, Asked, Answered, Updaters, Statements
  <2>5. /\ UNCHANGED <<conn, tree, callbacks, lastTruncated, shown>>
        /\ lastQuery' \in Statements \union {NoQuery}
        /\ executing' \in BOOLEAN /\ RefreshState
    BY <1>0, <2>1 DEF RunScript, BeginExecuting, results, UITypeOK
  <2> QED
    BY <2>3, <2>4, <2>5, BusyJob
<1>3. CASE LoadMore(s)
  <2>1. PICK task : task = [kind |-> "more", pc |-> "begin", arg |-> NoQuery,
                            of |-> shown, gen |-> 0, out |-> "none"]
    OBVIOUS
  <2>2. jobs' = [jobs EXCEPT ![s] = task]
    BY <1>3, <2>1 DEF LoadMore, NewJob, JobOf
  <2>3. task \in Job /\ JobOK(task) /\ task.kind \in Updaters
    BY <1>0, <2>1 DEF JobOK, Job, Kinds, Asked, Answered, Updaters,
                      Statements, UITypeOK
  <2>4. /\ UNCHANGED <<conn, tree, callbacks, lastTruncated, shown>>
        /\ lastQuery' \in Statements \union {NoQuery}
        /\ executing' \in BOOLEAN /\ RefreshState
    BY <1>0, <1>3 DEF LoadMore, BeginExecuting, results, UITypeOK
  <2> QED
    BY <2>2, <2>3, <2>4, BusyJob
<1>4. CASE LoadSchema(s)
  <2>1. PICK task : task = [kind |-> "schema", pc |-> "running", arg |-> NoQuery,
                            of |-> NoQuery, gen |-> 0, out |-> "none"]
    OBVIOUS
  <2>2. jobs' = [jobs EXCEPT ![s] = task]
    BY <1>4, <2>1 DEF LoadSchema, NewJob, SchemaJob, JobOf
  <2>3. task \in Job /\ JobOK(task) /\ task.kind \in Updaters
    BY <2>1 DEF JobOK, Job, Kinds, Asked, Answered, Updaters, Statements
  <2>4. /\ UNCHANGED <<conn, tree, callbacks, lastTruncated, shown>>
        /\ lastQuery' \in Statements \union {NoQuery}
        /\ executing' \in BOOLEAN /\ RefreshState
    BY <1>0, <1>4 DEF LoadSchema, results, UITypeOK
  <2> QED
    BY <2>2, <2>3, <2>4, BusyJob
<1>5. CASE QuickConnect(s)
  <2>1. PICK task : task = [kind |-> "connect", pc |-> "begin", arg |-> NoQuery,
                            of |-> NoQuery, gen |-> 0, out |-> "none"]
    OBVIOUS
  <2>2. jobs' = [jobs EXCEPT ![s] = task]
    BY <1>5, <2>1 DEF QuickConnect, NewJob, JobOf
  <2>3. task \in Job /\ JobOK(task) /\ task.kind \in Updaters
    BY <2>1 DEF JobOK, Job, Kinds, Asked, Answered, Updaters, Statements
  <2>4. /\ UNCHANGED <<conn, tree, callbacks, lastTruncated, shown>>
        /\ lastQuery' \in Statements \union {NoQuery}
        /\ executing' \in BOOLEAN /\ RefreshState
    BY <1>0, <1>5 DEF QuickConnect, BeginExecuting, results, UITypeOK
  <2> QED
    BY <2>2, <2>3, <2>4, BusyJob
<1>6. CASE \E t \in Tables : SelectTable(s, t)
  <2>1. PICK t \in Tables : SelectTable(s, t)
    BY <1>6
  <2>2. detailsGen \in Nat /\ detailsGen' = detailsGen + 1
        /\ detailsGen' \in 0..MaxDetails
    BY <1>0, <2>1 DEF SelectTable, UITypeOK
  <2>3. PICK g \in 0..MaxDetails : g = detailsGen'
    BY <2>2
  <2>4. PICK task : task = [kind |-> "details", pc |-> "running", arg |-> t,
                            of |-> NoQuery, gen |-> g, out |-> "none"]
    OBVIOUS
  <2>5. jobs[s].pc = "free" /\ jobs' = [jobs EXCEPT ![s] = task]
    BY <2>1, <2>3, <2>4 DEF SelectTable, NewJob, JobOf
  <2>6. task \in Job /\ JobOK(task)
    BY <2>4 DEF JobOK, Job, Kinds, Asked, Answered, Statements
  <2>7. /\ jobs' \in [Slots -> Job] /\ jobs'[s] = task
        /\ \A r \in Slots \ {s} : jobs'[r] = jobs[r]
        /\ JobsOK'
    BY <1>0, <2>5, <2>6, OneJob DEF UIInv
  <2>8. /\ UNCHANGED <<conn, executing, enabled, lastQuery, lastTruncated, shown>>
        /\ UNCHANGED <<listed, details, callbacks>> /\ chosen' = t /\ selected' = t
    BY <2>1 DEF SelectTable, results
  <2>9. UITypeOK'
    BY <1>0, <2>2, <2>7, <2>8 DEF UITypeOK
  <2>10. FreshUnlessBusy'
    <3>1. jobs[s].kind = "none"
      BY <2>5 DEF UIInv, JobsOK, JobOK
    <3>2. NoUpdater' => NoUpdater
      BY <2>7, <3>1 DEF NoUpdater, Updaters
    <3> QED
      BY <2>8, <3>2 DEF UIInv, FreshUnlessBusy, Offer
  <2>11. \A r \in Slots : DetailsOK(jobs[r])'
    <3>1. \A r \in Slots \ {s} : DetailsOK(jobs[r]) /\ jobs[r] \in Job
      BY <1>0 DEF UIInv, DetailsOfChosen, UITypeOK
    <3>2. \A r \in Slots \ {s} : jobs[r].kind = "details" =>
             jobs[r].gen <= detailsGen' /\ jobs[r].gen # detailsGen'
      BY <2>2, <3>1 DEF DetailsOK, Job
    <3> QED
      BY <2>3, <2>4, <2>7, <2>8, <3>2 DEF DetailsOK
  <2> QED
    BY <2>7, <2>9, <2>10, <2>11 DEF UIInv, DetailsOfChosen
<1> QED
  BY <1>1, <1>2, <1>3, <1>4, <1>5, <1>6 DEF Handler

-----------------------------------------------------------------------------
(* A search or a selection that asks for nothing changes what the tree and *)
(* the pane show (schema_tree_windows.go:65-76, 152-156).                  *)
LEMMA TreeKeeps ==
    ASSUME UIInv, FilterSchema \/ \E t \in Tables \union {NoTable} : SelectUnasked(t)
    PROVE  UIInv'
<1>0. UITypeOK
  BY DEF UIInv
<1>1. /\ UNCHANGED <<conn, executing, enabled, lastQuery, lastTruncated, shown>>
      /\ UNCHANGED <<detailsGen, chosen, jobs, callbacks>>
      /\ listed' \in BOOLEAN
      /\ selected' \in Tables \union {NoTable}
      /\ details' \in {details, NoTable}
  <2>1. CASE FilterSchema
    <3>1. listed' \in {listed, TRUE}
      BY <1>0, <2>1 DEF FilterSchema, UITypeOK
    <3> QED
      BY <1>0, <2>1, <3>1 DEF FilterSchema, SetSchemaSnapshot, UITypeOK, results
  <2>2. CASE \E t \in Tables \union {NoTable} : SelectUnasked(t)
    BY <1>0, <2>2 DEF SelectUnasked, UITypeOK, results
  <2> QED
    BY <2>1, <2>2
<1>2. UITypeOK'
  BY <1>0, <1>1 DEF UITypeOK
<1>3. FreshUnlessBusy'
  BY <1>1 DEF UIInv, FreshUnlessBusy, NoUpdater, Offer
<1>4. JobsOK' /\ DetailsOfChosen'
  BY <1>1 DEF UIInv, JobsOK, DetailsOfChosen, DetailsOK
<1> QED
  BY <1>2, <1>3, <1>4 DEF UIInv

-----------------------------------------------------------------------------
(* disconnectActive refreshes what the window offers and starts nothing    *)
(* (actions_windows.go:379-396).                                           *)
LEMMA DisconnectKeeps == ASSUME UIInv, Disconnect PROVE UIInv'
<1>0. UITypeOK
  BY DEF UIInv
<1>1. /\ conn' = "none" /\ RefreshState
      /\ UNCHANGED <<executing, lastQuery, lastTruncated, shown, jobs, callbacks>>
      /\ UNCHANGED <<listed, detailsGen, chosen, selected, details>>
  BY DEF Disconnect, results, tree
<1>2. enabled' \in SUBSET ActionNames
  BY <1>0, <1>1, RefreshType DEF UITypeOK
<1>3. UITypeOK'
  BY <1>0, <1>1, <1>2 DEF UITypeOK
<1>4. FreshUnlessBusy'
  BY <1>1 DEF UIInv, FreshUnlessBusy, NoUpdater, RefreshState, Offer
<1>5. JobsOK' /\ DetailsOfChosen'
  BY <1>1 DEF UIInv, JobsOK, DetailsOfChosen, DetailsOK
<1> QED
  BY <1>3, <1>4, <1>5 DEF UIInv

(* A goroutine changes its own job, posts at most its own callback and     *)
(* touches nothing the window shows but the session a connect opens, which *)
(* that connect's callback will show.                                      *)
LEMMA GoroutineStep ==
    ASSUME UIInv, NEW s \in Slots, NEW task \in Job, JobOK(task),
           jobs[s].kind # "none",
           task.kind = jobs[s].kind, task.gen = jobs[s].gen,
           task.kind = "details" => task.arg = jobs[s].arg,
           jobs' = [jobs EXCEPT ![s] = task],
           callbacks' \in {callbacks, Append(callbacks, s)},
           conn' \in {"none", "connecting", "open"},
           conn' # conn => task.kind = "connect",
           UNCHANGED <<executing, enabled, results, tree>>
    PROVE  UIInv'
<1>1. UITypeOK /\ JobsOK /\ FreshUnlessBusy /\ DetailsOfChosen
  BY DEF UIInv
<1>2. /\ jobs' \in [Slots -> Job] /\ jobs'[s] = task
      /\ \A r \in Slots \ {s} : jobs'[r] = jobs[r]
      /\ JobsOK'
  BY <1>1, OneJob
<1>3. callbacks' \in Seq(Slots)
  BY <1>1 DEF UITypeOK
<1>4. UITypeOK'
  BY <1>1, <1>2, <1>3 DEF UITypeOK, results, tree
<1>5. FreshUnlessBusy'
  <2>1. \A r \in Slots : jobs'[r].kind = jobs[r].kind
    BY <1>2
  <2>2. NoUpdater' => NoUpdater
    BY <2>1 DEF NoUpdater
  <2>3. NoUpdater' => UNCHANGED conn
    BY <1>2 DEF NoUpdater, Updaters
  <2> QED
    BY <1>1, <2>2, <2>3 DEF FreshUnlessBusy, Offer, results
<1>6. DetailsOK(task)
  BY <1>1 DEF DetailsOfChosen, DetailsOK
<1>7. DetailsOfChosen'
  BY <1>1, <1>2, <1>6, KeepsDetails DEF tree
<1> QED
  BY <1>2, <1>4, <1>5, <1>7 DEF UIInv

(* Load more picks its query up, Connect starts and ends, a call of the    *)
(* driver ends (walk_windows.go:1184-1612, quickconnect_windows.go:43-85). *)
LEMMA GoroutineKeeps ==
    ASSUME UIInv, NEW s \in Slots, Goroutine(s)
    PROVE  UIInv'
<1> USE UIAssumption
<1>0. UITypeOK /\ JobsOK
  BY DEF UIInv
<1>a. PICK j \in Job : j = jobs[s]
  BY <1>0 DEF UITypeOK
<1>b. JobOK(j)
  BY <1>0, <1>a DEF JobsOK
<1>1. CASE MoreReadsQuery(s)
  <2>1. j.kind = "more" /\ j.pc = "begin"
    BY <1>1, <1>a DEF MoreReadsQuery
  <2>2. PICK task : task = [j EXCEPT !.pc = "running", !.arg = lastQuery]
    OBVIOUS
  <2>3. jobs' = [jobs EXCEPT ![s] = task]
    BY <1>0, <1>1, <1>a, <2>2 DEF MoreReadsQuery, UITypeOK
  <2>4. task \in Job /\ task.kind = j.kind /\ task.gen = j.gen
        /\ task.pc = "running" /\ task.arg = lastQuery /\ task.out = j.out
    BY <1>0, <2>2 DEF Job, UITypeOK
  <2>5. JobOK(task)
    BY <1>0, <1>b, <2>1, <2>4 DEF JobOK, Asked, Answered, UITypeOK
  <2> QED
    BY <1>0, <1>1, <1>a, <2>1, <2>3, <2>4, <2>5, GoroutineStep
       DEF MoreReadsQuery, UITypeOK
<1>2. ASSUME NEW out \in {"rows", "truncated", "norows", "error"},
             Post(s, out), j.kind # "none",
             j.kind \in {"statement", "script", "more"}
               /\ out \in {"rows", "truncated"} => j.arg \in Queries,
             conn' \in {"none", "connecting", "open"},
             conn' # conn => j.kind = "connect",
             UNCHANGED <<executing, enabled, results, tree>>
      PROVE  UIInv'
  <2>2. PICK task : task = [j EXCEPT !.pc = "posted", !.out = out]
    OBVIOUS
  <2>3. jobs' = [jobs EXCEPT ![s] = task] /\ callbacks' = Append(callbacks, s)
    BY <1>0, <1>2, <1>a, <2>2 DEF Post, UITypeOK
  <2>4. task \in Job /\ task.kind = j.kind /\ task.gen = j.gen
        /\ task.pc = "posted" /\ task.arg = j.arg /\ task.out = out
    BY <2>2 DEF Job
  <2>5. JobOK(task)
    BY <1>2, <1>b, <2>4 DEF JobOK, Asked, Answered
  <2> QED
    BY <1>2, <1>a, <2>3, <2>4, <2>5, GoroutineStep
<1>3. CASE ConnectBegins(s)
  <2>1. j.kind = "connect" /\ j.pc = "begin"
        /\ UNCHANGED <<executing, enabled, results, tree>>
    BY <1>3, <1>a DEF ConnectBegins
  <2>2. CASE conn = "none"
    <3>1. PICK task : task = [j EXCEPT !.pc = "running"]
      OBVIOUS
    <3>2. jobs' = [jobs EXCEPT ![s] = task] /\ conn' = "connecting"
          /\ callbacks' = callbacks
      BY <1>0, <1>3, <1>a, <2>2, <3>1 DEF ConnectBegins, UITypeOK
    <3>3. task \in Job /\ task.kind = j.kind /\ task.gen = j.gen
          /\ task.pc = "running" /\ task.arg = j.arg /\ task.out = j.out
      BY <3>1 DEF Job
    <3>4. JobOK(task)
      BY <1>b, <2>1, <3>3 DEF JobOK, Asked, Answered
    <3> QED
      BY <1>a, <2>1, <3>2, <3>3, <3>4, GoroutineStep
  <2>3. CASE conn # "none"
    <3>1. Post(s, "error") /\ conn' = conn
      BY <1>3, <2>3 DEF ConnectBegins
    <3> QED
      BY <1>0, <1>2, <2>1, <3>1 DEF UITypeOK
  <2> QED
    BY <2>2, <2>3
<1>4. CASE ConnectEnds(s)
  <2>1. j.kind = "connect" /\ UNCHANGED <<executing, enabled, results, tree>>
    BY <1>4, <1>a DEF ConnectEnds
  <2>2. \/ conn' = "open" /\ Post(s, "norows")
        \/ conn' = "none" /\ Post(s, "error")
    BY <1>4 DEF ConnectEnds
  <2> QED
    BY <1>2, <2>1, <2>2
<1>5. CASE JobEnds(s)
  <2>1. PICK out \in Outcomes(j) : Post(s, out)
    BY <1>5, <1>a DEF JobEnds
  <2>2. j.kind # "connect" /\ j.kind # "none" /\ conn' = conn
        /\ UNCHANGED <<executing, enabled, results, tree>>
    BY <1>5, <1>a, <1>b DEF JobEnds, JobOK
  <2>3. /\ out \in {"rows", "truncated", "norows", "error"}
        /\ j.kind \in {"statement", "script", "more"}
             /\ out \in {"rows", "truncated"} => j.arg \in Queries
    <3>1. CASE j.kind = "script"
      <4>1. j.arg # NoQuery => j.arg \in Queries
        BY <1>b, <3>1 DEF JobOK, Asked
      <4> QED
        BY <2>1, <3>1, <4>1 DEF Outcomes
    <3>2. CASE j.kind \in {"details", "schema"}
      BY <2>1, <3>2 DEF Outcomes
    <3>3. CASE j.kind \in {"statement", "more"}
      BY <2>1, <3>3 DEF Outcomes
    <3> QED
      BY <2>2, <3>1, <3>2, <3>3 DEF Job, Kinds
  <2> QED
    BY <1>0, <1>2, <2>1, <2>2, <2>3 DEF UITypeOK
<1> QED
  BY <1>1, <1>3, <1>4, <1>5 DEF Goroutine

-----------------------------------------------------------------------------
(* A callback is taken off the front of the queue.                         *)
LEMMA TakesCallback ==
    ASSUME UITypeOK, NEW s \in Slots, NEW kinds, NextCallback(s, kinds)
    PROVE  callbacks' \in Seq(Slots) /\ jobs[s].kind \in kinds
  BY DEF NextCallback, UITypeOK

(* A callback that ends with updateStatus leaves the window fresh whatever *)
(* it did before, and frees its job or turns it into the schema load that  *)
(* follows a connect.                                                      *)
LEMMA UpdaterStep ==
    ASSUME UIInv, NEW s \in Slots, NEW task \in {NoJob, SchemaJob},
           jobs' = [jobs EXCEPT ![s] = task],
           callbacks' \in Seq(Slots),
           UNCHANGED <<conn, lastQuery, detailsGen, chosen>>,
           listed' \in BOOLEAN, selected' \in Tables \union {NoTable},
           shown' \in Queries \union {NoQuery},
           lastTruncated' \in BOOLEAN,
           details' \in Tables \union {NoTable},
           UpdateStatus
    PROVE  UIInv'
<1> USE UIAssumption
<1>1. UITypeOK /\ JobsOK /\ DetailsOfChosen
  BY DEF UIInv
<1>2. task \in Job /\ JobOK(task) /\ DetailsOK(task)
  BY DEF NoJob, SchemaJob, JobOf, Job, JobOK, Kinds, Asked, Answered,
         DetailsOK, Statements
<1>3. /\ jobs' \in [Slots -> Job] /\ jobs'[s] = task
      /\ \A r \in Slots \ {s} : jobs'[r] = jobs[r]
      /\ JobsOK'
  BY <1>1, <1>2, OneJob
<1>4. executing' = FALSE /\ enabled' \in SUBSET ActionNames
  BY RefreshType DEF UpdateStatus
<1>5. UITypeOK'
  BY <1>1, <1>3, <1>4 DEF UITypeOK
<1>6. FreshUnlessBusy'
  BY UpdatedIsFresh
<1>7. DetailsOfChosen'
  BY <1>1, <1>2, <1>3, KeepsDetails
<1> QED
  BY <1>3, <1>5, <1>6, <1>7 DEF UIInv

(* What applyStatementResult shows are the rows of a statement that        *)
(* returns rows, or none (walk_windows.go:1325-1359).                      *)
LEMMA AppliedType ==
    ASSUME UITypeOK, NEW task \in Job, JobOK(task), ApplyResult(task),
           task.kind \in {"statement", "script", "more"}
    PROVE  /\ shown' \in Queries \union {NoQuery}
           /\ lastTruncated' \in BOOLEAN
<1>1. CASE task.out \in {"rows", "truncated"}
  BY <1>1 DEF ApplyResult, JobOK, Answered
<1>2. CASE task.out = "norows"
  BY <1>2 DEF ApplyResult
<1>3. CASE task.out \in {"none", "error"}
  BY <1>3 DEF ApplyResult, UITypeOK
<1> QED
  BY <1>1, <1>2, <1>3 DEF Job

(* A callback that Synchronize hands to the UI thread keeps it             *)
(* (walk_windows.go:1325-1518).                                            *)
LEMMA CallbackKeeps ==
    ASSUME UIInv, NEW s \in Slots, Callback(s)
    PROVE  UIInv'
<1> USE UIAssumption
<1>0. UITypeOK /\ JobsOK
  BY DEF UIInv
<1>a. PICK j \in Job : j = jobs[s]
  BY <1>0 DEF UITypeOK
<1>b. JobOK(j)
  BY <1>0, <1>a DEF JobsOK
<1>1. CASE StatementCallback(s)
  <2>1. callbacks' \in Seq(Slots) /\ j.kind \in {"statement", "more"}
    BY <1>0, <1>1, <1>a, TakesCallback DEF StatementCallback
  <2>2. shown' \in Queries \union {NoQuery} /\ lastTruncated' \in BOOLEAN
    BY <1>0, <1>1, <1>a, <1>b, <2>1, AppliedType DEF StatementCallback
  <2>3. /\ jobs' = [jobs EXCEPT ![s] = NoJob] /\ UpdateStatus
        /\ UNCHANGED <<conn, lastQuery, listed, detailsGen, chosen, selected, details>>
    BY <1>1 DEF StatementCallback, Done, tree
  <2> QED
    BY <1>0, <2>1, <2>2, <2>3, UpdaterStep DEF UITypeOK
<1>2. CASE ScriptCallback(s)
  <2>1. callbacks' \in Seq(Slots) /\ j.kind = "script"
    BY <1>0, <1>2, <1>a, TakesCallback DEF ScriptCallback
  <2>2. shown' \in Queries \union {NoQuery} /\ lastTruncated' \in BOOLEAN
    <3>1. CASE j.arg = NoQuery
      BY <1>0, <1>2, <1>a, <3>1 DEF ScriptCallback, UITypeOK
    <3>2. CASE j.arg # NoQuery
      BY <1>0, <1>2, <1>a, <1>b, <2>1, <3>2, AppliedType DEF ScriptCallback
    <3> QED
      BY <3>1, <3>2
  <2>3. /\ jobs' = [jobs EXCEPT ![s] = NoJob] /\ UpdateStatus
        /\ UNCHANGED <<conn, lastQuery, listed, detailsGen, chosen, selected, details>>
    BY <1>2 DEF ScriptCallback, Done, tree
  <2> QED
    BY <1>0, <2>1, <2>2, <2>3, UpdaterStep DEF UITypeOK
<1>3. CASE SchemaCallback(s)
  <2>1. callbacks' \in Seq(Slots)
    BY <1>0, <1>3, TakesCallback DEF SchemaCallback
  <2>2. /\ jobs' = [jobs EXCEPT ![s] = NoJob] /\ UpdateStatus
        /\ listed' \in {listed, TRUE} /\ selected' \in {selected, NoTable}
        /\ details' \in {details, NoTable}
        /\ UNCHANGED <<conn, lastQuery, lastTruncated, shown>>
        /\ UNCHANGED <<detailsGen, chosen>>
    BY <1>3 DEF SchemaCallback, SetSchemaSnapshot, Done, results
  <2> QED
    BY <1>0, <2>1, <2>2, UpdaterStep DEF UITypeOK
<1>4. CASE ConnectCallback(s)
  <2>1. callbacks' \in Seq(Slots)
    BY <1>0, <1>4, TakesCallback DEF ConnectCallback
  <2>2. PICK task \in {NoJob, SchemaJob} : jobs' = [jobs EXCEPT ![s] = task]
    BY <1>4 DEF ConnectCallback
  <2>3. /\ UpdateStatus
        /\ UNCHANGED <<conn, lastQuery, lastTruncated, shown>>
        /\ UNCHANGED <<listed, detailsGen, chosen, selected, details>>
    BY <1>4 DEF ConnectCallback, results, tree
  <2> QED
    BY <1>0, <2>1, <2>2, <2>3, UpdaterStep DEF UITypeOK
<1>5. CASE DetailsCallback(s)
  <2>1. callbacks' \in Seq(Slots) /\ j.kind = "details"
    BY <1>0, <1>5, <1>a, TakesCallback DEF DetailsCallback
  <2>2. /\ jobs' = [jobs EXCEPT ![s] = NoJob]
        /\ details' \in {j.arg, details}
        /\ UNCHANGED <<conn, executing, enabled, lastQuery>>
        /\ UNCHANGED <<lastTruncated, shown, listed, detailsGen, chosen, selected>>
    BY <1>5, <1>a DEF DetailsCallback, Done, results
  <2>3. NoJob \in Job /\ JobOK(NoJob) /\ DetailsOK(NoJob)
    BY DEF NoJob, JobOf, Job, JobOK, Kinds, Asked, Answered, DetailsOK,
           Statements
  <2>4. /\ jobs' \in [Slots -> Job] /\ jobs'[s] = NoJob
        /\ \A r \in Slots \ {s} : jobs'[r] = jobs[r]
        /\ JobsOK'
    BY <1>0, <2>2, <2>3, OneJob
  <2>5. details' \in Tables \union {NoTable}
    BY <1>0, <1>b, <2>1, <2>2 DEF UITypeOK, JobOK, Asked
  <2>6. UITypeOK'
    BY <1>0, <2>1, <2>2, <2>4, <2>5 DEF UITypeOK
  <2>7. FreshUnlessBusy'
    <3>1. NoUpdater' => NoUpdater
      BY <1>a, <2>1, <2>4 DEF NoUpdater, Updaters
    <3> QED
      BY <2>2, <3>1 DEF UIInv, FreshUnlessBusy, Offer
  <2>8. DetailsOfChosen'
    BY <1>0, <2>2, <2>3, <2>4, KeepsDetails DEF UIInv
  <2> QED
    BY <2>4, <2>6, <2>7, <2>8 DEF UIInv
<1> QED
  BY <1>1, <1>2, <1>3, <1>4, <1>5 DEF Callback

-----------------------------------------------------------------------------
(* The window opens with no session, nothing to offer and no job.          *)
LEMMA UIInvInit == UIInit => UIInv
<1> SUFFICES ASSUME UIInit PROVE UIInv
  OBVIOUS
<1> USE UIAssumption
<1>1. NoJob \in Job /\ JobOK(NoJob) /\ NoJob.kind = "none"
  BY DEF NoJob, JobOf, Job, JobOK, Kinds, Asked, Answered, Statements
<1>2. jobs \in [Slots -> Job] /\ \A s \in Slots : jobs[s] = NoJob
  BY <1>1 DEF UIInit
<1>3. UITypeOK
  <2>1. callbacks \in Seq(Slots) /\ enabled \in SUBSET ActionNames
    <3>1. callbacks \in Seq(Slots)
      BY DEF UIInit
    <3>2. \A a \in enabled : a \in ActionNames
      BY DEF UIInit
    <3> QED
      BY <3>1, <3>2
  <2>2. conn \in {"none", "connecting", "open"} /\ detailsGen \in 0..MaxDetails
    BY DEF UIInit
  <2>4. executing \in BOOLEAN /\ lastTruncated \in BOOLEAN /\ listed \in BOOLEAN
    BY Zenon DEF UIInit
  <2>3. /\ lastQuery \in Statements \union {NoQuery}
        /\ shown \in Queries \union {NoQuery}
        /\ chosen \in Tables \union {NoTable}
        /\ selected \in Tables \union {NoTable}
        /\ details \in Tables \union {NoTable}
    BY DEF UIInit
  <2> QED
    BY <1>2, <2>1, <2>2, <2>3, <2>4 DEF UITypeOK
<1>4. JobsOK /\ DetailsOfChosen
  BY <1>1, <1>2 DEF JobsOK, DetailsOfChosen, DetailsOK
<1>5. FreshUnlessBusy
  BY DEF UIInit, FreshUnlessBusy, Offer, ComputeActions
<1> QED
  BY <1>3, <1>4, <1>5 DEF UIInv

(* Handlers, callbacks, Disconnect and the steps of goroutines keep it.    *)
LEMMA UIInvStep == UIInv /\ [UINext]_uvars => UIInv'
<1> SUFFICES ASSUME UIInv, [UINext]_uvars PROVE UIInv'
  OBVIOUS
<1>1. CASE Disconnect
  BY <1>1, DisconnectKeeps
<1>2. CASE \E s \in Slots : Handler(s) \/ Goroutine(s) \/ Callback(s)
  BY <1>2, HandlerKeeps, GoroutineKeeps, CallbackKeeps
<1>4. CASE FilterSchema \/ \E t \in Tables \union {NoTable} : SelectUnasked(t)
  BY <1>4, TreeKeeps
<1>3. CASE UNCHANGED uvars
  <2>1. /\ UNCHANGED <<conn, executing, enabled, lastQuery, lastTruncated>>
        /\ UNCHANGED <<shown, listed, detailsGen, chosen, selected, details>>
        /\ UNCHANGED <<jobs, callbacks>>
    BY <1>3 DEF uvars
  <2>2. UITypeOK' /\ JobsOK' /\ DetailsOfChosen'
    BY <2>1 DEF UIInv, UITypeOK, JobsOK, DetailsOfChosen, DetailsOK
  <2>3. FreshUnlessBusy'
    BY <2>1 DEF UIInv, FreshUnlessBusy, NoUpdater, Offer
  <2> QED
    BY <2>2, <2>3 DEF UIInv
<1> QED
  BY <1>1, <1>2, <1>3, <1>4 DEF UINext

(* The invariant of the window.                                            *)
LEMMA UIInvHolds == UISpec => []UIInv
  BY UIInvInit, UIInvStep, PTL DEF UISpec

(* The window, its jobs and its callbacks only ever hold what their types  *)
(* say; in particular only the rows of a statement that returns rows are   *)
(* shown (walk_windows.go:1325-1359).                                      *)
THEOREM WindowTypeInvariant == UISpec => []UITypeOK
<1>1. UIInv => UITypeOK
  BY DEF UIInv
<1> QED
  BY <1>1, UIInvHolds, PTL

(* When nothing is in flight the window does not claim to execute and      *)
(* offers exactly the actions of its present state, whatever connections,  *)
(* results and disconnects came in between (actions_windows.go:330-361,    *)
(* walk_windows.go:2289-2300).                                             *)
THEOREM QuietWindowIsFresh == UISpec => []QuiescentIsFresh
<1>1. UIInv => QuiescentIsFresh
  <2> SUFFICES ASSUME UIInv, NothingInFlight
               PROVE  ~executing /\ enabled = Offer
    BY DEF QuiescentIsFresh, Offer
  <2>1. \A s \in Slots : jobs[s].kind = "none"
    BY DEF UIInv, JobsOK, JobOK, NothingInFlight
  <2>2. NoUpdater
    BY <2>1 DEF NoUpdater, Updaters
  <2> QED
    BY <2>2 DEF UIInv, FreshUnlessBusy
<1> QED
  BY <1>1, UIInvHolds, PTL

(* Whatever the order in which the TableDetails calls come back and        *)
(* however many selections were made, the details pane only ever changes   *)
(* to the table of the latest request, or is cleared                       *)
(* (walk_windows.go:1457-1518).                                            *)
THEOREM DetailsFollowSelection == UISpec => DetailsAreOfLatest
<1>1. UIInv /\ [UINext]_uvars =>
        [details' # details => details' \in {chosen, NoTable}]_uvars
  <2> SUFFICES ASSUME UIInv, UINext, details' # details
               PROVE  details' \in {chosen, NoTable}
    OBVIOUS
  <2>1. \/ FilterSchema
        \/ \E s \in Slots : SchemaCallback(s) \/ DetailsCallback(s)
    BY DEF UINext, Disconnect, SelectUnasked, Handler, RunStatement, RunScript,
           LoadMore, LoadSchema, QuickConnect, SelectTable, Goroutine,
           MoreReadsQuery, ConnectBegins, ConnectEnds, JobEnds, Callback,
           StatementCallback, ScriptCallback, ConnectCallback, tree
  <2>2. CASE FilterSchema
    BY <2>2 DEF FilterSchema, SetSchemaSnapshot
  <2>3. ASSUME NEW s \in Slots, SchemaCallback(s) PROVE details' \in {chosen, NoTable}
    BY <2>3 DEF SchemaCallback, SetSchemaSnapshot
  <2>4. ASSUME NEW s \in Slots, DetailsCallback(s) PROVE details' \in {chosen, NoTable}
    <3>1. jobs[s].kind = "details" /\ jobs[s].gen = detailsGen
          /\ details' = jobs[s].arg
      BY <2>4 DEF DetailsCallback, NextCallback
    <3> QED
      BY <3>1 DEF UIInv, DetailsOfChosen, DetailsOK
  <2> QED
    BY <2>1, <2>2, <2>3, <2>4
<1> QED
  BY <1>1, UIInvHolds, PTL DEF UISpec, DetailsAreOfLatest

-----------------------------------------------------------------------------
(* The profiles                                                            *)

(* The profiles saved last are never out of reach (ProfilesSurvive): the   *)
(* rename replaces file and memory of it together, and whatever takes the  *)
(* file away puts it aside or warns (config.go, recover.go:11-60).         *)
THEOREM SavedProfilesSurvive == ProfileSpec => []ProfilesSurvive
<1>1. ProfileInit => ProfilesSurvive
  BY DEF ProfileInit, ProfilesSurvive
<1>2. ProfilesSurvive /\ [ProfileNext]_profileVars => ProfilesSurvive'
  <2> SUFFICES ASSUME ProfilesSurvive, [ProfileNext]_profileVars
               PROVE  ProfilesSurvive'
    OBVIOUS
  <2> USE DEF ProfilesSurvive, disk, flow, memory, bounds, witness
  <2>1. CASE Rename
    <3>1. CASE configFile' = configFile /\ kept' = kept
      BY <2>1, <3>1 DEF Rename
    <3>2. CASE \E p \in temp :
                 configFile' = [kind |-> "current", profiles |-> p] /\ kept' = p
      BY <3>2
    <3> QED
      BY <2>1, <3>1, <3>2 DEF Rename
  <2>2. CASE MigrateLegacy
    BY <2>2 DEF MigrateLegacy
  <2>3. CASE Recover
    BY <2>3 DEF Recover
  <2>4. CASE UNCHANGED <<configFile, aside, kept, warned>>
    BY <2>4
  <2>5. ASSUME ProfileNext, ~Rename, ~MigrateLegacy, ~Recover
        PROVE  UNCHANGED <<configFile, aside, kept, warned>>
    BY <2>5 DEF ProfileNext, RunProgram, LoadConfig, OpenStore, WriteTemp,
                TruncateStore, WriteStore, SaveClicked, ConnectClicked,
                ConnectDone, Duplicate, Delete, SaveAgain, Killed
  <2> QED
    BY <2>1, <2>2, <2>3, <2>4, <2>5 DEF profileVars
<1> QED
  BY <1>1, <1>2, PTL DEF ProfileSpec

-----------------------------------------------------------------------------
(* Where a saved reference leads (RefsResolve).  The strengthening says of *)
(* the configuration file, of the profiles in memory and of those being    *)
(* saved that the file of the store has their passwords, unless that file  *)
(* was hurt (OnDisk), and that the store's memory has them, unless they    *)
(* are lost (InMemory).  The second is what makes the first true again     *)
(* when a damaged file is written once more.                               *)

Refs(ps, gone) == {id \in DOMAIN ps \ gone : ps[id].ref}

Starting ==
    \/ pc \in {"load", "migrate", "recover", "store"}
    \/ pc \in {"writeTemp", "rename"} /\ job.then = "store"

Places == {"off", "idle", "load", "migrate", "recover", "store",
           "truncate", "writeStore", "writeTemp", "rename"}

Known ==
    /\ DOMAIN configFile.profiles \subseteq Ids
    /\ DOMAIN cfg \subseteq Ids
    /\ DOMAIN job.new \subseteq Ids
    /\ pending.id \in Ids \/ pending = NoConn

Targets ==
    /\ pc \in Places
    /\ job.then \in {"idle", "off", "store"}
    /\ job.failed \in (IF job.then = "store" THEN {"store", "recover"}
                                           ELSE {"idle", "off"})
    /\ job.storeFailed \in {"idle", "writeTemp"}
    /\ pc \in {"truncate", "writeStore"} => job.then = "idle" /\ entries # NoStore

Temp ==
    /\ temp \subseteq {job.new}
    /\ pc # "rename" => temp = {}

Stores ==
    /\ credFile \in (SUBSET Ids) \union {Unreadable}
    /\ entries \in (SUBSET Ids) \union {NoStore}
    /\ hurt \in {"no", "file", "lost"}
    /\ Starting => entries = NoStore
    /\ hurt = "file" => entries # NoStore
    /\ pc = "writeStore" => hurt # "no"

OnDisk ==
    hurt = "no" =>
      /\ Refs(configFile.profiles, deleted) \subseteq credFile
      /\ Refs(cfg, deleted) \subseteq credFile
      /\ pc \in {"writeTemp", "rename"}
            \/ (pc = "truncate" /\ job.storeFailed = "writeTemp")
           => Refs(job.new, deleted) \subseteq credFile

InMemory ==
    hurt # "lost" /\ entries # NoStore =>
      /\ Refs(configFile.profiles, deleted) \subseteq entries
      /\ Refs(cfg, deleted) \subseteq entries
      /\ pc \in {"truncate", "writeStore", "writeTemp", "rename"}
           => Refs(job.new, deleted) \subseteq entries

ProfileInv == Known /\ Targets /\ Temp /\ Stores /\ OnDisk /\ InMemory

(* The files of an earlier version have no references.                     *)
LEMMA InvInit == ProfileInit => ProfileInv
<1> SUFFICES ASSUME ProfileInit PROVE ProfileInv
  OBVIOUS
<1> USE ProfileAssumption DEF ProfileInit
<1>1. Known
  BY DEF Known, Missing, NoProfiles, NoSave
<1>2. Targets /\ Temp /\ Stores
  BY DEF Targets, Places, Temp, Stores, Starting, NoSave
<1>3. Refs(configFile.profiles, deleted) = {} /\ Refs(cfg, deleted) = {}
  BY DEF Refs, Missing, NoProfiles
<1> QED
  BY <1>1, <1>2, <1>3 DEF ProfileInv, OnDisk, InMemory

(* The profiles that buildProfile and upsertProfile make of u.cfg.         *)
LEMMA UpsertRefs ==
    ASSUME NEW id \in Ids, DOMAIN cfg \subseteq Ids
    PROVE  /\ \A tick, ref \in BOOLEAN : DOMAIN Upsert(id, tick, ref) \subseteq Ids
           /\ Refs(Upsert(id, FALSE, FALSE), deleted) \subseteq Refs(cfg, deleted)
           /\ Refs(Upsert(id, TRUE, TRUE), deleted)
                 \subseteq Refs(cfg, deleted) \union {id}
  BY DEF Upsert, Refs

(* The click on Save and the end of Connect: with a password, the store is  *)
(* written first, so the reference to it is in its memory alone; without    *)
(* one, a reference is dropped.                                             *)
LEMMA SaveKeepsInv ==
    ASSUME ProfileInv, pc = "idle", NEW p, p.id \in Ids, SaveProfile(p),
           UNCHANGED <<configFile, temp, credFile, hurt, deleted>>,
           pending'.id \in Ids \/ pending' = NoConn
    PROVE  ProfileInv'
<1> USE DEF ProfileInv
<1>1. CASE Untick(p)
  <2>1. /\ job'.new = Upsert(p.id, FALSE, FALSE) /\ cfg' = job'.new
        /\ job'.then = "idle" /\ job'.failed = "idle" /\ job'.storeFailed = "idle"
        /\ pc' = "writeTemp" /\ entries' = entries
    BY <1>1 DEF Untick, SaveJob
  <2>2. Refs(job'.new, deleted) \subseteq Refs(cfg, deleted) /\ DOMAIN job'.new \subseteq Ids
    BY <2>1, UpsertRefs DEF Known
  <2> QED
    BY <2>1, <2>2 DEF Known, Targets, Temp, Stores, Starting, OnDisk, InMemory,
                      Places
<1>2. CASE /\ entries # NoStore
           /\ entries' = entries \union {p.id}
           /\ job' = SaveJob(Upsert(p.id, TRUE, TRUE), "idle", "idle")
           /\ pc' = "truncate" /\ cfg' = cfg
  <2>1. /\ job'.new = Upsert(p.id, TRUE, TRUE) /\ cfg' = cfg
        /\ job'.then = "idle" /\ job'.failed = "idle" /\ job'.storeFailed = "idle"
        /\ pc' = "truncate"
        /\ entries # NoStore /\ entries' = entries \union {p.id}
    BY <1>2 DEF SaveJob
  <2>2. /\ Refs(job'.new, deleted) \subseteq Refs(cfg, deleted) \union {p.id}
        /\ DOMAIN job'.new \subseteq Ids
    BY <2>1, UpsertRefs DEF Known
  <2>3. entries' \in SUBSET Ids /\ entries' # NoStore
    BY <2>1, ProfileAssumption DEF Stores, NoStore
  <2> QED
    BY <2>1, <2>2, <2>3 DEF Known, Targets, Temp, Stores, Starting, OnDisk,
                            InMemory, Places
<1> QED
  BY <1>1, <1>2 DEF SaveProfile

(* Every step of the program, every failed call and every stop.            *)
LEMMA InvNext == ProfileInv /\ [ProfileNext]_profileVars => ProfileInv'
<1> SUFFICES ASSUME ProfileInv, [ProfileNext]_profileVars
             PROVE  ProfileInv'
  OBVIOUS
<1> USE DEF ProfileInv, Known, Targets, Temp, Stores, Starting, OnDisk, InMemory,
            Places, disk, memory, bounds, witness, NoMishap, Mishap
<1>0. Refs(NoProfiles, deleted) = {} /\ DOMAIN NoProfiles = {}
  BY DEF Refs, NoProfiles
<1>1. CASE RunProgram
  BY <1>1, <1>0 DEF RunProgram
<1>2. CASE LoadConfig
  BY <1>2, <1>0 DEF LoadConfig, SaveJob
<1>3. CASE MigrateLegacy
  BY <1>3 DEF MigrateLegacy, SaveJob
<1>4. CASE Recover
  BY <1>4, <1>0 DEF Recover, Missing
<1>5. CASE OpenStore
  BY <1>5 DEF OpenStore
<1>6. CASE WriteTemp
  BY <1>6 DEF WriteTemp
<1>7. CASE Rename
  BY <1>7 DEF Rename
<1>8. CASE TruncateStore
  BY <1>8 DEF TruncateStore, Proceed
<1>9. CASE WriteStore
  BY <1>9 DEF WriteStore, Proceed
<1>10. ASSUME NEW id \in Editing, NEW tick \in BOOLEAN, NEW typed \in BOOLEAN,
              SaveClicked(id, tick, typed)
       PROVE  ProfileInv'
  <2>1. id \in Ids /\ Built(id, tick, typed).id = id
    BY DEF Editing, Built
  <2> QED
    BY <1>10, <2>1, SaveKeepsInv DEF SaveClicked
<1>11. ASSUME NEW id \in Editing, NEW tick \in BOOLEAN, NEW typed \in BOOLEAN,
              ConnectClicked(id, tick, typed)
       PROVE  ProfileInv'
  <2>1. id \in Ids /\ Built(id, tick, typed).id = id
    BY DEF Editing, Built
  <2> QED
    BY <1>11, <2>1 DEF ConnectClicked
<1>12. CASE ConnectDone
  <2>1. CASE SaveProfile(pending)
    BY <1>12, <2>1, SaveKeepsInv DEF ConnectDone
  <2>2. CASE UNCHANGED <<pc, job, memory>>
    BY <1>12, <2>2 DEF ConnectDone
  <2> QED
    BY <1>12, <2>1, <2>2 DEF ConnectDone
<1>13. ASSUME NEW id \in Ids, Duplicate(id)
       PROVE  ProfileInv'
  <2>1. /\ job'.new = Upsert(id, FALSE, FALSE) /\ cfg' = job'.new
        /\ job'.then = "idle" /\ job'.failed = "idle" /\ job'.storeFailed = "idle"
    BY <1>13 DEF Duplicate, SaveJob
  <2>2. Refs(job'.new, deleted) \subseteq Refs(cfg, deleted) /\ DOMAIN job'.new \subseteq Ids
    BY <2>1, UpsertRefs DEF Known
  <2> QED
    BY <1>13, <2>1, <2>2 DEF Duplicate
<1>14. ASSUME NEW id \in Ids, Delete(id)
       PROVE  ProfileInv'
  <2>1. /\ job'.new = [i \in DOMAIN cfg \ {id} |-> cfg[i]]
        /\ job'.then = "idle" /\ job'.failed = "idle" /\ job'.storeFailed = "writeTemp"
    BY <1>14 DEF Delete, SaveJob
  <2>2. /\ DOMAIN job'.new \subseteq Ids
        /\ Refs(job'.new, deleted') \subseteq Refs(cfg, deleted) \ {id}
        /\ Refs(cfg, deleted') \subseteq Refs(cfg, deleted) \ {id}
        /\ Refs(configFile.profiles, deleted')
             \subseteq Refs(configFile.profiles, deleted) \ {id}
    BY <1>14, <2>1 DEF Delete, Refs
  <2>3. CASE cfg[id].ref /\ entries # NoStore
    <3>1. entries' = entries \ {id} /\ entries' # NoStore /\ entries' \subseteq Ids
      BY <1>14, <2>3, ProfileAssumption DEF Delete, Stores, NoStore
    <3> QED
      BY <1>14, <2>1, <2>2, <2>3, <3>1 DEF Delete, SaveJob
  <2>4. CASE ~(cfg[id].ref /\ entries # NoStore)
    BY <1>14, <2>1, <2>2, <2>4 DEF Delete, SaveJob
  <2> QED
    BY <2>3, <2>4
<1>15. ASSUME NEW then \in {"idle", "off"}, SaveAgain(then)
       PROVE  ProfileInv'
  BY <1>15 DEF SaveAgain, SaveJob
<1>16. CASE Killed
  BY <1>16 DEF Killed
<1>17. CASE UNCHANGED profileVars
  BY <1>17 DEF profileVars, flow
<1> QED
  BY <1>1, <1>2, <1>3, <1>4, <1>5, <1>6, <1>7, <1>8, <1>9, <1>10, <1>11, <1>12,
     <1>13, <1>14, <1>15, <1>16, <1>17 DEF ProfileNext

(* A saved reference to a password is answered by the store, after any     *)
(* stop and any failed call that did not cut the store's own file off      *)
(* (store.go:73-110, walk_windows.go:2058-2080).                           *)
THEOREM SavedRefsResolve == ProfileSpec => []RefsResolve
<1>1. ProfileInv => RefsResolve
  BY ProfileAssumption DEF ProfileInv, Known, Stores, OnDisk, Refs, RefsResolve,
                           Unreadable
<1> QED
  BY <1>1, InvInit, InvNext, PTL DEF ProfileSpec

-----------------------------------------------------------------------------
(* The parts in one process                                                *)

(* A step of Desktop is one of the window or leaves it alone.              *)
LEMMA WindowMoves ==
    DesktopNext \/ UNCHANGED desktopVars => UINext \/ UNCHANGED uvars
BY DEF DesktopNext, InWindow, InHistory, InProfiles, ProfilesEnd, desktopVars

(* Or one of the history or leaves it alone.                               *)
LEMMA HistoryMoves ==
    DesktopNext \/ UNCHANGED desktopVars => HistNext \/ UNCHANGED hvars
BY DEF DesktopNext, InWindow, InHistory, InProfiles, ProfilesEnd, desktopVars

(* Or one of the profiles or leaves them alone.                            *)
LEMMA ProfilesMove ==
    DesktopNext \/ UNCHANGED desktopVars => ProfileNext \/ UNCHANGED profileVars
BY DEF DesktopNext, InWindow, InHistory, InProfiles, ProfilesEnd, desktopVars

(* Desktop implements the specification of each of its parts: what was     *)
(* proved of them holds in the process that has all of them (main.go wires *)
(* them together; they share no state).                                    *)
THEOREM DesktopKeepsParts == DesktopSpec => UISpec /\ HistSpec /\ ProfileSpec
<1>1. DesktopInit => UIInit /\ HistInit /\ ProfileInit
  BY DEF DesktopInit
<1>2. [DesktopNext]_desktopVars => [UINext]_uvars
  BY WindowMoves
<1>3. [DesktopNext]_desktopVars => [HistNext]_hvars
  BY HistoryMoves
<1>4. [DesktopNext]_desktopVars => [ProfileNext]_profileVars
  BY ProfilesMove
<1> QED
  BY <1>1, <1>2, <1>3, <1>4, PTL DEF DesktopSpec, UISpec, HistSpec, ProfileSpec

(* So every safety property of the three parts holds of the whole: what    *)
(* the run of Desktop checks on its instance.                              *)
THEOREM DesktopIsSafe ==
    DesktopSpec => /\ []QuiescentIsFresh /\ DetailsAreOfLatest
                   /\ []NoEnqueueAfterClose /\ []ExitFlushes /\ []FileInOrder
                   /\ []FileBounded /\ []FaultCostsLittle /\ NothingVanishes
                   /\ []ProfilesSurvive /\ []RefsResolve
<1>1. UISpec => []QuiescentIsFresh /\ DetailsAreOfLatest
  BY QuietWindowIsFresh, DetailsFollowSelection
<1>2. HistSpec => /\ []NoEnqueueAfterClose /\ []ExitFlushes /\ []FileInOrder
                  /\ []FileBounded /\ []FaultCostsLittle /\ NothingVanishes
  BY NeverEnqueuesAfterClose, ExitAlwaysFlushes, FileAlwaysInOrder,
     FileStaysBounded, FaultsCostLittle, NothingEverVanishes
<1>3. ProfileSpec => []ProfilesSurvive /\ []RefsResolve
  BY SavedProfilesSurvive, SavedRefsResolve
<1> QED
  BY <1>1, <1>2, <1>3, DesktopKeepsParts

=============================================================================
