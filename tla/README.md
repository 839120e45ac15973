# GoQueryOne: verification project

TLA+ models of GoQueryOne, a Windows ODBC query tool written in Go: what its
parts do when the UI thread, the goroutines it starts, the database driver and
the disk get in each other's way, and what its text and table algorithms do at
their edges. TLC checks small instances; TLAPS proves theorems for every
instance. `PROJECT.json` lists the runs, the lines of code each definition
stands for, the hazards and the findings.

## 1. The system

| Part | Code | State it keeps | Operations |
|---|---|---|---|
| Session registry | `internal/odbc/manager.go` | map id -> `*Session`, active id, transaction, state | Connect, Disconnect, DisconnectAll, SetActiveSession, BeginTx, CommitTx, RollbackTx |
| Native catalog | `internal/odbc/catalog.go` | per session: connection string, catalog handle, remembered error, `catalogMu` | withCatalog, closeCatalog, DBInfo, CachedDBInfo |
| Executor | `internal/odbc/executor.go` | `ExecCancel`, `scriptCanceled`, session state | ExecuteStatement, ExecuteScript, CancelExecution |
| Schema metadata | `internal/odbc/schema.go`, `schema_cache.go`, `ui/schema_tree_windows.go` | per session: cached snapshot and table details; in the window: the snapshot and details shown | LoadSchema, RefreshSchema, TableDetails, search, lazy columns |
| Query history | `internal/history`, hooks in `manager.go` | queue, writer goroutine, `history.jsonl` | Enqueue, Append, compaction, Close |
| Main window | `internal/ui`, `internal/app/presenter.go` | executing flag, enabled actions, last query, results shown, details generation | menu handlers and the callbacks of their goroutines |
| SQL tabs | `ui/walk_windows.go`, `recent_windows.go`, `app/tabs.go` | tabs with text, file and modified mark; the files to reopen | new, open, save, close, exit, restore at startup |
| SQL text | `internal/core` | none (the editor keeps text and selection) | splitter, statement at the caret, find, classifier, placeholders, appended query |
| Grid and export | `core/sortrows.go`, `internal/export` | rows, NULL flags and original positions | sort, copy, five export formats |
| Profiles and passwords | `internal/config`, `internal/securestore`, the connection dialog | `config.json`, `credentials.json`, the profiles in memory | load, migrate, recover, save, delete, duplicate, connect |
| Bindings and glue | `odbcapi`, `odbcdriver`, `platform`, `cmd`, `buildinfo` | none worth modelling | system calls, wiring |

How they interact. There is one UI thread (the `walk` message loop). Menu
handlers run on it; those that talk to the database start a goroutine, which
calls the Manager and hands a callback back with `Synchronize`. The Manager
guards its map and the sessions' fields with `Manager.mu`, held only for short
sections, and the native catalog of a session with `Session.catalogMu`, held
across driver calls. Disconnect, Begin, Commit, Rollback and CachedDBInfo run
on the UI thread; Connect, statements, scripts and metadata calls do not, but
typing in the schema's search box loads metadata on the UI thread.
`addHistory` calls a hook under `Manager.mu`, which queues the entry for the
history writer's goroutine. The configuration and the credential store are
read and written by the UI thread only, in two files that refer to each other.

What is hard: the gaps between critical sections of one call; pointers to a
session that are used after it was disconnected; cancel, timeout and shutdown
meeting a statement at any point; callbacks that arrive in another order or
after the state they were computed for has gone; a Go map that a cache and the
window share; a crash in the middle of a file append, or between the two files
that must agree; one question per tab with five ways to answer; and bytes, runes
and UTF-16 units of the same text.

## 2. Modules

| Module | Content |
|---|---|
| `SessionManager` | registry, catalog, transactions, shutdown |
| `Executor` | EXTENDS `SessionManager` with statements, scripts, cancel; implements `ScriptContract` |
| `ScriptContract` | abstract: what F5 and F6 promise |
| `StatementOverlap` | EXTENDS `Executor`: what statements that overlap on one session meet |
| `Sessions` | `SessionManager` and `StatementOverlap` in one specification |
| `ApplicationUI` | main window: enablement, jobs, callbacks |
| `QueryHistory` | history queue, file, crashes, shutdown order |
| `ProfileStore` | `config.json`, `credentials.json`, start of the program, connection dialog |
| `Desktop` | the three above in one specification |
| `SqlText` | the editor, and what is read out of its text |
| `ResultGrid` | sort, copy and export of a result |
| `QueryRun` | `Executor`, `SqlText` and `ResultGrid` in one specification |
| `SchemaCache` | metadata loads, the cache, the tree and the details pane |
| `EditorTabs` | the SQL tabs, their files, closing, exit and restart |
| `QueryWindow` | the two above in one specification |
| `MainWindow` | `QueryRun` and `QueryWindow` in one specification |
| `Places` | the elements of a list at chosen places; used by `QueryHistory`, `EditorTabs` and `SqlText` |
| `SessionManagerProofs`, `QueryHistoryProofs`, `SqlTextProofs` | theorems about the module of that name |
| `ExecutorProofs` | theorems about `Executor`, `StatementOverlap` and `Sessions` |
| `DesktopProofs` | theorems about `ApplicationUI`, `ProfileStore` and `Desktop` |
| `QueryWindowProofs` | theorems about `SchemaCache`, `EditorTabs` and `QueryWindow` |
| `QueryRunProofs` | theorems about `ResultGrid`, `QueryRun` and `MainWindow` |
| `PlacesProofs` | the lemmas the others cite: about `Places`, and induction and recursion over 0..n |
| `MC*` | the instances TLC checks |

Definitions whose comment says *Mutant* are not part of any specification.
Each is a plausible bug of the definition that follows it; with it in place the
property named in `PROJECT.json` fails, which shows that the property depends
on the code.

`Desktop`, `QueryRun`, `QueryWindow` and `MainWindow` put components that share
no state into one specification and let one of them move at a time, each from
its own beginning: the interleaving of steps that commute would add states and
no behaviour. `Sessions` does the same for two sides of the sessions that do
share state, by a choice at the start (`part`): metadata calls, several Connects
and the exit on one, statements on the other. A metadata call and a statement
meet only through Connect, Disconnect and the transactions, which both sides
have. Each component keeps a specification of its own (`UISpec`,
`HistSpec`, `ProfileSpec`, `ExecSpec`, `TextSpec`, `GridSpec`, `SchemaSpec`,
`TabSpec`), which is what most theorems are about and what the runs that look for
one counterexample check; one theorem for each composition carries those results
over to it.

### SessionManager

`sessions` and `activeID` are the Manager's map and active id. A `Session`
object outlives its registration, so objects (`ses`, indexed by `Objs`) are
kept apart from ids; connecting an id again takes a fresh object. `pc`, `cid`,
`cobj` and `ctx` are the call each thread is in and the id, pointer and
transaction it holds. One action is one critical section or one driver call:
Disconnect is `DisconnectRemove`, `DisconnectClearConnStr`, `DisconnectActive`,
`DisconnectRollback`, `DisconnectCatalog`, `DisconnectDB`, in the code's order;
Connect is `ConnectRegister`, then `ConnectPublish` or `DialFails` and
`ConnectError`, after which the same goroutine runs Disconnect by id.
`DisconnectActive` picks any remaining id, as Go's map iteration does.
`catalogMu` is the lock's holder; it stays held from `CatalogEnter` to
`CatalogDone` or `CatalogOpenFails`, as the deferred Unlock has it.

`Objs` bounds the number of Connects and `Txs` the transactions open at once.
What a call leaves for display (`LastDiag`, `LastResult`, timestamps) and the
cached `DBInfo` value are abstracted. `TestConnection` keeps no state. A
metadata call is one or more passes through `withCatalog` with the same
pointer; what it reads and caches is `SchemaCache`'s.

`ExitWhileConnecting` says whether the window may be closed while a Connect is
in flight. The program allows it (quick connect is not modal), and the run
`exit_while_connecting` shows what then happens; the other runs assume it does
not happen, because `ClosedSessionOpensNoCatalog` and `NoHandleLeak` are false
otherwise, and they would say nothing about the rest of the code.

### Executor and ScriptContract

A runner is the goroutine of one F5 or F6. `run[r]` holds the call in progress:
`ScriptReset`, `ScriptCheck`, `Lookup`, `EnterExecuting`, `ReadTx`,
`DriverStart`, `DriverEnd`, `Outcome`, `LeaveExecuting` and `After` are the
steps of `ExecuteScript` and `ExecuteStatement`. `Refused` is database/sql's own
check (external): a done context, a finished transaction or a closed handle
never reaches the driver. `DisconnectCapture` and `DisconnectCancel` add to
Disconnect what it does to a running statement. `ran`, `asked` and `since` are
history variables of the properties: how often a statement was handed to the
driver, how the last cancel met the script, and how many statements began after
it.

`ScriptContract` promises, per runner, that statements are begun in order, one
at a time, each at most once, and none after a cancel was accepted.
`ImplementsContract` is the refinement: `left` is what has not begun, `busy`
that the driver works, `stopped` that CancelExecution found the statement.

`Gated` is the assumption that the window offers only what `ComputeActions`
enables for the present state. It is an assumption about the window:
`ApplicationUI` checks it, and the run `enabled_while_executing` shows the code
does not always keep it. So it is assumed only where the property is about one
script: the runs `main_window` and `sessions_liveness`, and the theorems about
`CancelStopsScript` and `ImplementsContract`, which do not hold without it (the
reset of a second script on the session takes the cancel of the first back, and a session that is
disconnected under a script may be another one for its next statement). What
does not need the gate is checked and proved without it.

### StatementOverlap

The executor with `Gated` off and two history variables, recorded in every step
and read by no action: `crossed`, that a statement has had another one in flight
beside it on its session, and `txSince`, the transactions its session has had
since `Lookup`. `CancelReachesStatement` says who can take a cancel function
away: only a statement that overlapped; and that Esc never reaches a statement
that is over. `RunsInTransaction` says that a BEGIN, COMMIT or ROLLBACK between
the lookup and the driver does not send a statement into a transaction its
session never had, or one that is over. The guide's promise for Esc has no such
exception (observation 15).

### ApplicationUI

Handlers and callbacks are atomic, as they run on the UI thread. A slot of
`jobs` is one goroutine with its callback; `callbacks` is the order they were
posted in, which `walk` keeps. `enabled` is what the last `refreshState` set,
so it can be stale. The Manager is one profile's connection. A modal error box
inside a callback, during which other callbacks run, is not split off.

Of the schema tree the window's module has what the details pane depends on:
`listed`, that the tree has tables; `selected`, the code's `selectedSchemaID`;
`chosen`, the table of the latest request. `SelectTable` is a selection that
asks for details, `SelectUnasked` one without an active session, which changes
`selected` and no more; `SetSchemaSnapshot`, in the callback of a load and in
the search box (`FilterSchema`), clears the selection and the pane and leaves
`detailsGen`. Disconnect leaves the tree. What the tree shows of which session
is `SchemaCache`'s.

### QueryHistory

Records are numbered in the order `addHistory` is called; the file is a
sequence of records and `Corrupt` lines, `torn` when its last line has no
newline. `AppendLine`, `Compact` and their failures are the writer goroutine's
steps; `Crash` can fall between any two and, within an append, leave nothing,
part of the line, or all of it but the newline (`Torn`). The rename of a
compaction is atomic (a process crash, not a power failure, is modelled).
`CloseDisconnects`, `CloseUnhooks`, `CloseWriter`, `CloseReturns` are the
Closing handler; `AddHistory` stays possible throughout, because statements in
flight are not waited for. `dropped`, `lost` and `faults` are ghosts for the
properties; `faults` counts crashes and I/O errors, bounded by `MaxFaults`.
`Valid`, what `readAll` finds in a file, is the lines that are records, by
their places (`Places`); `ValidSelects` in `MCDesktop` compares it with the
selection of a loop on every file of up to five lines. `FileBounded` is the bound
the code keeps, twice the limit; the guide gives the limit (observation 14).

### ProfileStore

A profile is its id, the "Save password" tick and whether it has a
`CredentialRef`. `configFile` is `config.json` as one of the forms a start can
meet (missing, current, older schema, without a schema, not readable), `aside`
the `.legacy.bak` and `.broken-*` files, `temp` the temporary file of
`writeFileAtomic`, `credFile` the set of ids in `credentials.json`, or
`Unreadable`. In memory there are `cfg` and `entries`, the store's map, or
`NoStore` after the store could not be opened.

A run of the program is `RunProgram`, then `LoadConfig` with `MigrateLegacy` or
`Recover`, then `OpenStore`. A handler of the dialog sets `job`, the profiles to
save and where to go on from each outcome, and passes through `TruncateStore`,
`WriteStore`, `WriteTemp` and `Rename`, in the order the code has: each is one
call of the file system, may fail (`Mishap`), and `Killed` may fall before and
after it. `os.WriteFile` of the credential store is two steps, because a stop
between them leaves the file empty. `pending` is the profile of a Connect in
flight, which is saved when it comes back, whatever the user did meanwhile.

Profiles' other fields are data. The validation in `SaveConfig` is left out:
nothing the dialogs build fails it. `kept`, `warned`, `hurt` and `deleted` are
ghosts: the profiles saved last, that the user was told saving may overwrite
the file, that a write of the store was cut off, and what the user deleted.

### SqlText

A text is a sequence of bytes over a few characters, of which `W, x, c, c` are
the four bytes of a character with two UTF-16 units. `AfterByte` is one round
of the loop in `SplitSQLScriptRanges` and `CountPositionalParams`, with a mode
for each byte the loop steps over; `Modes`, a recursive function, runs it over
the text. `StatementAt`,
`UTF16OffsetToByteOffset` and its inverse, `FindNext`, `KeywordStart`
(`leadingKeyword`) and `AppendStatement` follow the code's functions; the
actions type, move the caret, run a statement, find, and append a quick query,
and `Control` is the edit control (external), which counts units: it
holds the elements of a text at the places (`Places`) of W and x, the two units
of a wide character, and of all narrow ones. A wide character is typed as a
whole, so x and c belong to no alphabet (`AlphabetsAssumption`). The reference
is a tokenizer written from SQL's lexical structure as the guide has it
(`Tokens`), with `[brackets]`; it takes one token at a time and has no modes.

Where the code's readers part from it, a property says so and is violated:
`SplitsAtDelimiters` (brackets) and `AppendedStandsAlone` (the last line alone),
findings 7 and 8. The classifier parts from it at slash, star, slash
(observation 12). Beside them stand
the properties that hold: `StatementsStandAlone` compares the cuts with the
tokens where there is no bracket, and the rest of it holds of every text.
`ReadersAgree` has the keyword in texts without slash, star, slash; that an
appended query keeps every statement that a semicolon ends (`Ended`), whatever
the text; and that it is a statement of its own behind a `PlainEnd`: a last line
that, by the tokens, begins outside of literals and comments, has no comment
and leaves nothing open. What is left between `PlainEnd` and
`AppendedStandsAlone` are the last lines that begin in a literal or comment, and
those that hold one. Behind a text that ends in a comment nothing that is added
could delimit, and `insert_test.go:17` expects that nothing is.

### ResultGrid

`columns`, `rows`, `nulls` are the result set, `orig` the `Orig` of
`core.RowSorter`. `GridAssumption` says what every result set has: a cell and a
NULL flag for each column of each row. `Stable` is the insertion sort
`sort.Stable` uses for lists of up to 20 rows (external), run over `Less` and
`Swap` on the very slices that move, so that a lookup by the wrong index shows;
it and `SiftDown` are recursive functions. Beyond 20 rows `sort.Stable` sorts
blocks of 20 that way and merges them, which is not modelled. A number is digits,
or NaN, with space around it (`TrimSpace`). Each export format is an operator, and
the reference is a reader of that format: RFC 4180, split at tabs, Markdown
with escaped pipes, JSON keys, and columns that line up. Every format is one
sequence of characters, with the line breaks of its cells in it; the text format
is cut into lines at each of them (`LinesOf`), so a cell that shows one breaks
its row. `ExportsReadBack` excludes such cells, from the text format only
(observation 13).

### SchemaCache

A call of `LoadSchema`, `RefreshSchema` or `TableDetails` is a goroutine's
record `call[t]`, and an action is one critical section of the cache, one
holding of `catalogMu` or one database call. A Go map is shared by reference:
the `Columns` map of a cached snapshot is the one the window shows. Snapshots
are values in the model, and `sharers[s]` says who holds the very map of the
one cached for `s`, so that a write in place reaches the cache. A column is
abstracted to the session it was read from and the version of the schema then.
The callbacks (`ShowSnapshot`, `ShowDetails` with `AddLazyColumns`) are those
of the window, without a generation guard for loads and with one for details.
`floor` and `overlapped` are ghosts: the database's version at the last refresh,
and whether a call had read but not stored its answer then. The sessions stay
connected; a call that meets a Disconnect is `SessionManager`'s.

### EditorTabs

`tabs` is `editorTabIndex`, `order` the pages of the tab widget, `current` its
current page; `files` the files there are, `remembered` the OpenFiles of
`config.json`. A tab is its text ("empty", from a "file", "typed"), its path and
its modified mark. `doing`, `asked` and `confirmed` are `confirmDiscard`, called
for one tab by a close and for every tab by an exit; its answers are `NotAsked`,
`AnswerYes` (whose save may fail or be cancelled), `AnswerNo` and `AnswerCancel`.
`ClearsOnlyTab`, `RemovesTab`, `ConfirmNext` and `Exits` do what was confirmed.
`NextStart` opens what `FilesToRestore` lets through, as far as it can be read;
both are the elements of the list at the places that pass (`Places`).
`stray` marks a tab whose text `openSQLPath` called unchanged (observation 7
in section 5), `declined` is a ghost: the tabs whose changes the user gave up.

## 3. What TLC checks

| Run | Instance | Shows |
|---|---|---|
| `sessions` | 3 objects, 2 ids, symmetric. Calls: 2 goroutines, 1 transaction at a time. Statements: 2 runners with single statements, without the gate, 1 Connect, 2 transactions | the active id is registered or being replaced (`ActiveIsRegistered`); with a session registered one is active (`SomeSessionActive`); no handle, catalog or transaction without an owner (`NoHandleLeak`, `NoCatalogLeak`, `NoOrphanTransaction`); no catalog opens on a closed session (`ClosedSessionOpensNoCatalog`); what Esc reaches and does not when statements overlap (`CancelReachesStatement`), and the transaction a statement is handed over in (`RunsInTransaction`) |
| `sessions_liveness` | 2 objects, 1 goroutine, 1 transaction. Calls: 2 ids. Statements: 1 id, 1 runner, scripts of 2, with the gate | Disconnect and shutdown return (`DisconnectReturns`, `ExitCompletes`); a statement at the driver, and its script, end (`RunEnds`) |
| `exit_while_connecting` | 1 id, 2 objects, 2 goroutines | expected violation, finding 1 |
| `cached_info_on_ui_thread` | the same | expected violation, finding 2 |
| `main_window` | statement: 2 ids, 2 objects, 1 connecting goroutine, 1 runner, scripts of 2; texts of up to 4 characters of 6 alphabets; results of up to 3 rows or 3 columns. Tree: 2 sessions, 1 table, 1 goroutine and the UI thread, 1 event. Tabs: 3 tabs, 2 files, 1 fault, 2 reopened. Symmetric | with the window's gate: a cancel stops the script (`CancelStopsScript`), no session stays Executing (`NoStuckExecuting`), the refinement (`ImplementsContract`); statements stand alone and are cut at the semicolons that are tokens (`StatementsStandAlone`), what runs or is found is what is selected (`SelectionIsExact`), the other readers agree with the splitter (`ReadersAgree`); a sort permutes whole rows into order (`SortKeepsRows`), exports read back (`ExportsReadBack`); a cache holds its session's data (`CacheIsOwn`), no older than the last refresh (`RefreshIsHonoured`), and is never written into (`CachedMapsFrozen`); no text leaves without the user giving it up (`AskedBeforeLoss`), the next start opens what was open (`RestoredAsLeft`) |
| `desktop` | window: 2 jobs, 1 query, 1 command, 2 tables, 2 selections; history: limit 2, queue 2, 6 records, 2 faults; profiles: 2 ids, 1 mishap, 2 runs | actions are those of the state when nothing runs (`QuiescentIsFresh`), the details are the latest request's (`DetailsAreOfLatest`), Executing ends (`ExecutingEnds`); the file's order, size and losses (`FileInOrder`, `FileBounded`, `FaultCostsLittle`, `NothingVanishes`), nothing is sent on the closed queue and exit flushes it (`NoEnqueueAfterClose`, `ExitFlushes`, `CloseEnds`); saved profiles survive and their password references resolve (`ProfilesSurvive`, `RefsResolve`) |
| `enabled_while_executing` | `ApplicationUI`, 2 jobs, 2 queries | expected violation, finding 3 |
| `load_more_other_query` | the same | expected violation, finding 4 |
| `deleted_keeps_password` | `ProfileStore`, 2 ids, no mishap, 1 run | expected violation, finding 5 |
| `closed_is_reopened` | `EditorTabs`, 2 tabs, 2 files, no fault | expected violation, finding 6 |
| `bracket_splits` | `SqlText`, 4 characters, `[ ; ]` | expected violation, finding 7 |
| `appended_query_merges` | `SqlText`, 5 characters, `'`, `-` and line break | expected violation, finding 8 |

Why these bounds. Two ids give Disconnect another session to activate, and the
third object lets a profile be connected again while a goroutine still uses its
old object; two goroutines let a metadata call race a failing Connect's cleanup
and the UI's Disconnect. A cancel that slips between two statements needs a
script of two. Two runners are what overlapping takes, and both share one
session, hence one Connect, and a session that ends stays ended; single
statements only, as a script adds its reset and check between statements, which
the gated run has; and no exit beside them, which to a statement is the
Disconnect of its session. A second transaction can begin while a statement that
read the first is on its way. A
compaction with limit 2 happens at five records, so six reach one after a crash
and restart, and a second fault can fall into it. Two details calls are what it
takes for the older answer to come last. A second run of the program meets what
the first left behind, and one mishap may fall on any call of either. Each
alphabet holds the characters of one kind of confusion (quotes and dashes and
breaks; comment marks and semicolons; keywords and parentheses; wide characters;
the two quotes and placeholders; an opening bracket), and four characters are
what a comment or a doubled quote needs to open and close, or to overlap
another. The cells of `MCResults` are those that the sort and the formats treat
differently, and three rows with equal keys show a sort that is not stable. One
goroutine and the UI thread are two calls at once, two sessions let one's
columns reach the other's tree, and one event is a schema change or a switch.
Three tabs are what an exit needs to be cancelled at the second after the first
was declined while the third waits; one file in two of them and another file in
the third is what a cap applied before the list is cleaned up gets wrong.

Fairness, and why the code has it. Goroutines with work to do run (the Go
scheduler), and the message loop runs the callbacks that were posted. A mutex
does not starve a waiter (Go's starvation mode): strong fairness on the two
steps of Disconnect that take `catalogMu`. A catalog call returns: an
assumption on the native driver, which has no timeout; without it Disconnect on
the UI thread would hang, which is the hazard at `catalog.go:54`. A statement's
deadline passes, and the driver comes back from a call whose context is done,
again an assumption on the driver. Nothing is assumed of the user, of Connect's
result or of a statement before its deadline, and nothing of `ProfileStore`,
of the editor and the grid, or of the two parts of `QueryWindow`, which have no
liveness property: between two clicks nothing has to happen there.

Deadlock is checked in every passing run. `Exited` and `ExecExited` let the
registry and the executor stop only when every call has returned and the window
is closed; `ProfilesEnd` lets `Desktop` stop when the program has ended as often
as `MaxRuns` allows. `ProfileStoreDelete.cfg`, an expected violation, turns the
check off for that reason.

## 4. Findings

1. `manager.go:148-158` against the comment at 196-197: Connect publishes on a
   session that shutdown has already closed; a catalog can then be opened on it,
   and its handle stays open.
2. `catalog.go:89` against 82-83: CachedDBInfo waits on the UI thread for
   another goroutine's database call.
3. `walk_windows.go:1440` against `presenter.go:72-73`: a schema load that ends
   while a statement runs enables Run, Disconnect and Commit again, and disables
   Cancel. The load that follows every connect is enough.
4. `walk_windows.go:1597` against `docs/USER_GUIDE.md:74-76`: Load more re-runs
   the statement started last, not the one whose rows are shown. A script does
   not set it at all.
5. `walk_windows.go:1957` against `docs/USER_GUIDE.md:132`: a profile that was
   saved with its password and later without the tick keeps the password in
   `credentials.json`, and deleting the profile does not remove it. The branch
   of `saveProfile` meant for that (2074-2077) cannot be reached, because
   `buildProfile` drops the reference together with the tick.
6. `walk_windows.go:540` against `docs/USER_GUIDE.md:148`: closing the only tab
   clears its text and keeps its path, so the file is reopened at the next
   start, and Ctrl+S writes what is typed into the emptied tab over it.
7. `splitter.go:38-102` against `docs/USER_GUIDE.md:62-63`: the splitter has no
   case for a bracket, so the semicolon in `[a;b]` splits the statement.
8. `insert.go:31-46` against `insert.go:8-10`: whether the text ends in a comment
   is decided from its last line alone. When that line began in a literal, its
   dashes are taken for a comment, no semicolon is added, and the quick query
   merges with the user's statement.

## 5. Observations

Smaller things met while modelling. The last five (12 to 16) disagree with a
sentence in a document, a comment or a test; the models do what the code does,
and the properties about the place say how far they go.

1. A new snapshot clears the selection of the tree without advancing
   `detailsGen` (`schema_tree_windows.go:155`): a late answer then fills the
   details pane while nothing is selected. `DetailsAreOfLatest` holds then: the
   answer is still that of the latest request.
2. `strconv.ParseFloat` accepts `NaN`, so a column of numbers and a `NaN` has no
   strict order; `SortKeepsRows` asks for order only where there is one.
3. The dialog sets a profile's options to auto and 30000 whenever it saves,
   and Settings change `cfg` before the save, which may fail.
4. A write of `credentials.json` that is cut off loses every password; if the
   file is torn and not empty, the store cannot be opened any more until the
   file is removed. `RefsResolve` has this as its exception (`hurt`).
5. An error while reading `config.json`, or while saving the upgraded form,
   also moves the file aside and starts empty; nothing is lost.
6. A profile that is deleted while its Connect is in flight is saved again when
   the Connect succeeds.
7. When the tab for a file cannot be made, `openSQLPath` (608) gives the path to
   the current tab and marks it unchanged: its text is no longer asked about.
   `AskedBeforeLoss` leaves such a tab out (`stray`). A save writes the file in
   place, so a failure can cut it short.
8. Labels: sessions or profiles with the same name and state share an entry of
   the label map, the last one wins; saving the hidden profile twice makes a
   copy, contrary to the comment at `walk_windows.go:2158-2159`.
9. The tree is not refreshed when the session is switched, and a load that ends
   late replaces the tree of another session. A details key joins its parts
   with `|`, which names may contain. A call that overlaps a refresh stores what
   it read before it (`RefreshIsHonoured` has this exception).
10. `AppendStatement` adds no semicolon behind a text that ends in a `--`
    comment, as its test expects, so the appended query and a statement before
    the comment are one statement for the splitter; behind an open literal or
    block comment neither the semicolon nor the query is code.
11. `ActiveView` reads the active id and the session in two critical sections;
    the status bar can show no connection for a moment.
12. `classify.go:35-37` says that the keyword is looked for behind whitespace and
    comments. The end of a block comment is searched from the slash that opens
    it (89), so `/*/` is a whole comment to the classifier and opens one for the
    splitter, and a word inside the comment is then the keyword. `ReadersAgree`
    leaves such texts out of that one conjunct.
13. `export/text_test.go:30` says that every line must have the same rune count.
    A cell is written with its line breaks (`text.go:123-156`), so its row is
    several lines that do not line up.
14. `docs/USER_GUIDE.md:123-124` says that `history.jsonl` is capped at 1000
    entries. It is cut to the limit only when it exceeds twice the limit
    (`history.go:65`), so it holds up to 2000.
15. `docs/USER_GUIDE.md:48` says that Esc cancels the running statement. With two
    statements in flight on a session (finding 3 is how) the one that ends first
    clears `ExecCancel` (`executor.go:54`), and Esc no longer cancels the other.
16. `walk_windows.go:1468` says that an answer is dropped when the user selected
    another table meanwhile. After a disconnect the tree stays, and selecting in
    it changes the selection and not the generation, so that the late answer for
    the table selected before fills the details pane (1467).

## 6. What is proved

All theorems hold for every value of the constants, from the named assumptions
of the modules (distinct null values, finite pages, natural bounds, alphabets
without the bytes that only a wide character has, result sets with a cell for
each column of each row) and, for the second part of `SessionManagerProofs`,
from `~ExitWhileConnecting`, and for `CancelAlwaysStopsScript` and
`ExecutorKeepsContract`, from `Gated`. Both are assumptions the code does not
always keep (findings 1 and 3): those theorems say what the code does as long as
it does. The bounds of the runs are
constants too, so the theorems hold for any number of failures, runs, records,
schema changes and goroutines. Every safety property of a passing run is the
subject of a theorem, but for `ExportsReadBack`, named at the end.

`SessionManagerProofs`, first part, for any value of `ExitWhileConnecting`:

- `TypeInvariant`. `TypeOK` is not inductive: a step that stores `cobj[t]` needs
  a call at that point to hold a pointer. `CallOK` adds what each program
  counter implies about `cid` and `cobj`.
- `ActiveIsAlwaysRegistered`, `SomeSessionIsAlwaysActive`: from the invariant
  with one step per action; every action but those of Connect, Disconnect and
  SetActiveSession leaves the registry alone (`KeepsDisconnects`), and in
  Disconnect the obligation moves from `DisconnectRemove` to `DisconnectActive`.

Second part, assuming `~ExitWhileConnecting` (finding 1 is what happens without
it):

- `NoHandleIsLeaked`, `NoCatalogIsLeaked`, `NoTransactionIsOrphaned`,
  `ClosedSessionStaysClosed` follow from one invariant of ownership, `OInv`.
  `Claims` is its heart: an id is claimed by at most one call that registers,
  cleans up or stores something under it, so the object a Connect will publish
  on is the registered one. `Roles` and `Objects` say which thread can be in
  which call and that objects are registered once; `ConnectsOver` uses the
  hypothesis. `HandleHeld`, `CatalogHeld` and `Transactions` then name, for
  every open handle, catalog or transaction, its owner: a registered session,
  or a call that is past taking it over and not yet past releasing it.
  `LockHeld` and `OpenHeld` tie the catalog to the holder of `catalogMu`.

`ExecutorProofs`:

- `ExecutorTypeInvariant`, `NeverStuckExecuting`, with or without `Gated`.
  `XInv` describes a call by where it is (`Shapes`), and says that an Executing
  session has a runner between entering and leaving (`Held`).
- `CancelAlwaysReaches`, `StatementsRunInTransaction`: of `StatementOverlap`,
  without `Gated`, for any number of runners. `XInv` carries over, because the
  recorded variables restrict no step. `OverlapInv` adds that two statements in
  flight on a session have both recorded it (`Met`), that one which met none is
  what `ExecCancel` cancels (`Reached`), and that the transaction a statement has
  read is one its session has had since the lookup (`TxSeen`). Only entering and
  leaving a statement change a cancel function; every other step leaves them and
  the statements alone (`NoEntry`). That the transaction handed over is not over
  is database/sql's check (`Refused`).
- `CancelAlwaysStopsScript` assumes `Gated`. `GInv` says of a call that is not
  idle: no other runner is busy, and the UI thread neither ends a transaction
  nor disconnects (`Quiet`); until the window closes its id names the session it
  works on (`Bound`); CancelExecution finds it (`Reachable`); the transaction it
  read is the session's (`TxOK`); and a cancel it has met has left its mark in
  the flag or the context (`AskedOK`). Without the gate it is false: another
  script's reset on the session clears the flag.
- `ExecutorKeepsContract`: `ExecSpec => ImplementsContract`, under `Gated`. Every
  step of a runner, a cancel and a Disconnect is a step of `ScriptContract` or a
  stutter, one lemma each (`RunnerContract`, `CancelContract`,
  `SharedContract`).

`DesktopProofs`, the window:

- `WindowTypeInvariant`, `QuietWindowIsFresh`, `DetailsFollowSelection`. `UIInv`
  adds to the types what a slot can hold (`JobsOK`), that the enabled actions
  can be stale only while a job that will set them is outstanding
  (`FreshUnlessBusy`), and that a details job of the present generation was
  asked for the table chosen last (`DetailsOfChosen`).

`QueryHistoryProofs`:

- `HistoryTypeInvariant`, `NeverEnqueuesAfterClose`, `ExitAlwaysFlushes`,
  `FileAlwaysInOrder`, `FileStaysBounded` from `HInv`: `Lifecycle` relates the
  hook, the closed channel and the writer to the phase of the program; `InTurn`
  says that the records in the file, then the one in the writer's hand, then the
  queue, ascend; `Bound` is the size of the file at each step of the writer, with
  what a crash can add.
- `NothingEverVanishes` and `FaultsCostLittle` follow the lost records through
  every step; `Owed` is what a torn file may still cost at the next append, so
  that a fault pays for at most its queue and two records (`Cost`).

`DesktopProofs`, the profiles:

- `SavedProfilesSurvive`: `ProfilesSurvive` is inductive by itself: the rename
  replaces the file and the memory of it together, and every other step that
  takes the file away puts it aside or warns.
- `SavedRefsResolve`: `RefsResolve` needs `ProfileInv`, which says for every
  point between the two files who may refer to what: as long as no write of the
  store was cut off, the profiles on disk, those in memory and, once the store
  is written, those about to be saved refer only to passwords in the store's
  file (`OnDisk`); and as long as the store's memory is not lost they refer only
  to what it holds (`InMemory`), from which the next write heals the file.

`QueryWindowProofs`, the schema:

- `TypesHold`: type correctness, from `Calls` (what a call carries at each
  place) and `Data` (a version number never exceeds the number of events).
- `CacheStaysOwn`: `OwnInv` adds that what a call has read, but not stored, is
  of the session it was started for.
- `CachedMapsStayFrozen`: by cases over the steps that change a cached snapshot.
- `RefreshStaysHonoured`: `RefreshInv` adds that the floor is never above the
  database's version, and that what a call has in hand is no older than the
  floor unless it overlapped. Most steps neither read nor store (`Quiet`).

`QueryWindowProofs`, the tabs:

- `AlwaysAskedBeforeLoss`: `TabInv` says that the widget's pages and the index
  are the same, each once (`Shape`), that typed text carries the modified mark
  (`Marks`), and that a confirmed tab, and every tab left of the one the exit is
  at, has no changes or declined ones (`Answers`). An exit drops all tabs at
  once, so it is `Answers` over the whole row that makes it safe.
- `ReopensWhatWasOpen`: the start is one step over a list, so its proof is about
  the list: which files `FilesToRestore` takes (`WhatIsRestored`), which of them
  are opened (`WhatIsOpened`), and what the row of tabs shows (`WhatIsShown`),
  whatever is in `config.json` (`Typed`).

`SqlTextProofs`, for texts of any length over any alphabets:

- `TextTypedAlways`: the text is a sequence of the bytes of the alphabets and of
  the quick query.
- `StatementsStandAloneAlways`: the scanner knows modes and the reference knows
  tokens, so the proof relates the two (`TokensAre`): the tokens begin exactly
  at the bytes the scanner reads in code or as the second of a doubled quote,
  which to the tokens begins another literal. One lemma for each kind of token
  (`QuoteToken`, `LineToken`, `BlockToken`) goes from one to the next, as long as
  there is no bracket. That a statement reads by itself as it reads in the
  script follows, for every text, because the scanner is in code where the
  statement begins (`PartModes`, `SameModes`), so that its modes are those of the
  script shifted.
- `ReadersAgreeAlways`: `leadingKeyword` stops only where the scanner is in code
  (`KeywordIsToken`), as long as no slash, star, slash makes the two part. The
  modes of a text are those of any longer one as far as it goes, so a statement
  that a semicolon ends is one in the longer text as well (`EndedKept`), whatever
  follows. Behind a `PlainEnd` the scanner is in code from the last line on, sees
  no comment there (`PlainHasNoComment`) and is in code at the end (`EndClosed`);
  so `endsWithLineComment` says no, the semicolon is added and read in code, and
  the ranges are those of the shorter text and the query's (`AppendedBegins`).
- `SelectionIsExactAlways`: the code works with bytes and the edit control with
  UTF-16 units. `EditorTyped` is the invariant: in the text x, c, c stand only
  behind a W (`Whole`). At an offset that is not behind a W, between whole
  characters (`InStep`), the units the code counts are the bytes the control
  shows (`UnitsShown`), so a selection from one such offset to another shows
  exactly the bytes between them (`SelectionShown`). It is left to show that
  statements, characters found and appended queries begin and end at such
  offsets (`StatementFits`, `FindsNext`, `QueryAtEnd`). A caret can be in the
  middle of a wide character; its byte offset then lies in the character, and
  `AtOrBefore` shows that as many statements begin at or before it.
  `StatementAtIs` says which of them is taken, because they lie apart
  (`StatementsApart`).

`QueryRunProofs`, the grid, for results of any size and cells of any text:

- `GridTypedAlways`: cells, flags and original positions are lists of one length,
  and no row is named twice; it is inductive.
- `SortKeepsRowsAlways`: after any rounds of the sort the grid is the original
  one under a rearrangement p of the places (`Moved`), and an exchange changes
  nothing but p (`SwapMoved`), whatever the comparison says. So whole rows are
  permuted even in a column with a NaN. That the column ends in order, and equal
  rows as they were, needs the comparison to be a strict weak order (`LessWeak`,
  from the order of texts and of numbers), which a NaN is what breaks. Numbers
  are kept by original position (`nums[Orig[i]]`), so the comparison of two rows
  does not change as they move.

The compositions: `DesktopKeepsParts`, `WindowKeepsParts` and
`QueryRunKeepsParts` say that the composition implements the specification of
each of its parts: a step of one part leaves the variables of the others alone.
`MainWindowKeepsParts` says it of `MainWindow` and the two it is made of, and
`SessionsKeepParts` that a behaviour of `Sessions` is one of the registry or one
of overlapping statements. `DesktopIsSafe`, `WindowIsSafe` and `QueryRunIsSafe`
collect what follows for the
whole; of the executor the last has the types and `NoStuckExecuting`, which need
no gate.

`PlacesProofs`: the elements of a list at a set of places, in order, are as many
as the places, and nothing else is in the list. The library's induction theorem
takes an operator, which the provers cannot instantiate. `Ranks` does without and
goes by cardinality: the number of chosen places up to each place is an injection
of the places into 1..n, and hence meets every number. Where induction is needed,
it is that of 0..n for a *set* of numbers, which has a least element left out
(`LeastOf`, `Upwards`, `Downwards`), and a function defined by recursion over
0..n exists because the functions that satisfy the recursion up to n do, for
each n (`RecursionUp`, `RecursionDown`).

Only model-checked:

- liveness (`DisconnectReturns`, `ExitCompletes`, `RunEnds`, `ExecutingEnds`,
  `CloseEnds`): fairness and ENABLED;
- `ExportsReadBack` of `ResultGrid`: its readers fold over a text with
  `FoldLeft` and build it with `FlattenSeq`, both recursive definitions of the
  community modules over operators, and the names of repeated columns are made
  with TLC's `ToString`, of which the provers know nothing.

## 7. Plan

1. `ExportsReadBack`, a format at a time, with readers written as recursive
   functions; CSV first.
2. The settings dialog's checks, the limit clause and the connection string, as
   operators with reference definitions.

## 8. Not modelled

System calls and wiring (`odbcapi`, `odbcdriver`, `platform`, `cmd`) keep no
state of their own; ODBC discovery reads the registry. Diagnostics and masking,
status texts, titles, fonts and window layout are wording and presentation.
Limit syntax, identifier quoting, connection strings and durations are
formatting of single values. `view.go` and the history dialog only read;
`Store.Clear` has no caller. Passwords are encrypted by a Windows service. A
power failure, which may undo a rename or reorder writes, is outside the file
model. Renaming profiles, labels, and inserting text at the caret are left out
(observation 8).
