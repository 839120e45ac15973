------------------------------ MODULE Executor ------------------------------
(***************************************************************************)
(* ExecuteStatement, ExecuteScript and CancelExecution                     *)
(* (internal/odbc/executor.go, manager.go:328-341) on top of the session   *)
(* registry of SessionManager.                                             *)
(*                                                                         *)
(* A runner is the goroutine the UI starts for one F5 or F6.  It looks the *)
(* session up by id for every statement, registers its cancel function in  *)
(* Session.ExecCancel, reads Session.Tx, hands the statement to the driver *)
(* and deregisters, each under Manager.mu but with gaps between.            *)
(* In the gaps the user cancels, the deadline passes, the window closes or *)
(* another goroutine finishes a Connect.                                   *)
(*                                                                         *)
(* Metadata calls share nothing with a statement but the Session pointer;  *)
(* they stay in SessionManager.  What a statement leaves in the session for *)
(* display (LastResult, LastDiag, LastOutcome, History) is not here.       *)
(***************************************************************************)
EXTENDS SessionManager

CONSTANTS
    Runners,       \* goroutines that run a statement or a script
    NoRunner,
    MaxStatements, \* longest script
    Gated          \* the UI offers only what ComputeActions enables

ASSUME RunnerAssumption ==
    /\ Runners \intersect Threads = {}
    /\ NoRunner \notin Runners
    /\ MaxStatements \in Nat \ {0}
    /\ Gated \in BOOLEAN

VARIABLES
    exe,            \* per Session object: what executions leave in it
    run,            \* per runner: the call in progress
    capturedCancel  \* the ExecCancel a Disconnect captured, per thread

xvars == <<exe, run, capturedCancel>>
evars == <<vars, exe, run, capturedCancel>>

-----------------------------------------------------------------------------
Statuses == {"ok", "error", "canceled", "timeout"}

Execution == [cancel         : Runners \union {NoRunner}, \* Session.ExecCancel
              scriptCanceled : BOOLEAN]

RunPCs == {"idle", "reset", "check", "lookup", "enter", "readTx", "start",
           "driver", "done", "leave", "after"}

(* ctx is the statement's context; out what the driver returned; res the   *)
(* status recorded for it; ran how often it was handed to the driver; asked *)
(* and since: how the user's last cancel met this call, and how many       *)
(* statements the driver was given after it.                               *)
Run == [pc : RunPCs, id : Ids \union {NoId}, obj : Objs \union {NoObj},
        tx : Txs \union {NoTx}, script : BOOLEAN, stopOnErr : BOOLEAN,
        left : 0..MaxStatements, ctx : {"none", "live", "canceled", "deadline"},
        out : {"none", "ok", "error"}, res : Statuses \union {"none"},
        ran : Nat, asked : {"no", "flag", "ctx"}, since : Nat]

NoRun == [pc |-> "idle", id |-> NoId, obj |-> NoObj, tx |-> NoTx,
          script |-> FALSE, stopOnErr |-> FALSE, left |-> 0, ctx |-> "none",
          out |-> "none", res |-> "none", ran |-> 0, asked |-> "no", since |-> 0]

NoExecution == [cancel |-> NoRunner, scriptCanceled |-> FALSE]

ExecTypeOK ==
    /\ TypeOK
    /\ exe \in [Objs -> Execution]
    /\ run \in [Runners -> Run]
    /\ capturedCancel \in [Threads -> Runners \union {NoRunner}]

ExecInit ==
    /\ Init
    /\ exe = [o \in Objs |-> NoExecution]
    /\ run = [r \in Runners |-> NoRun]
    /\ capturedCancel = [t \in Threads |-> NoRunner]

Idle(r) == run[r].pc = "idle"
NoneExecuting == \A r \in Runners : Idle(r)

(* ComputeActions (presenter.go:74-100): nothing that talks to the         *)
(* database while something executes, Cancel only then.                    *)
GateIdle == Gated => NoneExecuting

Put(r, rec) == run' = [run EXCEPT ![r] = rec]
Go(r, where) == Put(r, [run[r] EXCEPT !.pc = where])

-----------------------------------------------------------------------------
(* The UI thread starts and cancels                                        *)

CanRun == UIIdle /\ HasActive /\ ses[Active].db # "none" /\ GateIdle

(* runStatement, walk_windows.go:1184-1247.                                *)
StartStatement(r) ==
    /\ CanRun /\ Idle(r)
    /\ Put(r, [NoRun EXCEPT !.pc = "lookup", !.id = activeID, !.left = 1])
    /\ UNCHANGED <<vars, exe, capturedCancel>>

(* runScript, walk_windows.go:1249-1311; n statements after splitting.     *)
StartScript(r) ==
    /\ CanRun /\ Idle(r)
    /\ \E n \in 1..MaxStatements, stop \in BOOLEAN :
         Put(r, [NoRun EXCEPT !.pc = "reset", !.id = activeID, !.script = TRUE,
                              !.stopOnErr = stop, !.left = n])
    /\ UNCHANGED <<vars, exe, capturedCancel>>

Canceled(v) == IF v.ctx = "live" THEN [v EXCEPT !.ctx = "canceled"] ELSE v

(* A script of id that is past its reset, so that the flag set now counts. *)
ScriptOf(id, v) == v.script /\ v.id = id /\ v.pc \notin {"idle", "reset"}

Asked(v, how) == CASE how = "ctx" -> [v EXCEPT !.asked = "ctx", !.since = 0]
                   [] how = "flag" /\ v.asked = "no" ->
                        [v EXCEPT !.asked = "flag", !.since = 0]
                   [] OTHER -> v

(* Mutant: returns "no running execution" before it sets the flag.         *)
CancelOnlyRunning ==
    /\ UIIdle /\ HasActive
    /\ Gated => ~NoneExecuting /\ ses[Active].db # "none"
    /\ exe' = [exe EXCEPT ![Active].scriptCanceled = @ \/ exe[Active].cancel # NoRunner]
    /\ run' = [r \in Runners |->
                 IF exe[Active].cancel = r THEN Asked(Canceled(run[r]), "ctx")
                 ELSE IF ScriptOf(activeID, run[r]) THEN Asked(run[r], "flag")
                 ELSE run[r]]
    /\ UNCHANGED <<vars, capturedCancel>>

(* CancelExecution on the active session, manager.go:328-341: the flag is  *)
(* set even when there is nothing to cancel and an error is returned.      *)
CancelExecution ==
    /\ UIIdle /\ HasActive
    /\ Gated => ~NoneExecuting /\ ses[Active].db # "none"
    /\ exe' = [exe EXCEPT ![Active].scriptCanceled = TRUE]
    /\ run' = [r \in Runners |->
                 IF exe[Active].cancel = r THEN Asked(Canceled(run[r]), "ctx")
                 ELSE IF ScriptOf(activeID, run[r]) THEN Asked(run[r], "flag")
                 ELSE run[r]]
    /\ UNCHANGED <<vars, capturedCancel>>

-----------------------------------------------------------------------------
(* ExecuteScript                                                           *)

ScriptCanceled(id) == Registered(id) /\ exe[sessions[id]].scriptCanceled

(* executor.go:198-202.                                                    *)
ScriptReset(r) ==
    /\ run[r].pc = "reset"
    /\ exe' = [o \in Objs |->
                 [exe[o] EXCEPT !.scriptCanceled = @ /\ sessions[run[r].id] # o]]
    /\ Go(r, "check")
    /\ UNCHANGED <<vars, capturedCancel>>

(* executor.go:203-208.                                                    *)
ScriptCheck(r) ==
    /\ run[r].pc = "check"
    /\ IF ScriptCanceled(run[r].id) THEN Put(r, NoRun) ELSE Go(r, "lookup")
    /\ UNCHANGED <<vars, exe, capturedCancel>>

-----------------------------------------------------------------------------
(* ExecuteStatement                                                        *)

(* executor.go:23-29: an unknown or unconnected session is an error, which *)
(* is not recorded.                                                        *)
Lookup(r) ==
    /\ run[r].pc = "lookup"
    /\ LET id == run[r].id IN
       IF Registered(id) /\ ses[sessions[id]].db # "none"
         THEN Put(r, [run[r] EXCEPT !.pc = "enter", !.obj = sessions[id]])
         ELSE Put(r, [run[r] EXCEPT !.pc = "after", !.out = "error", !.res = "error"])
    /\ UNCHANGED <<vars, exe, capturedCancel>>

(* Mutant: ExecCancel is not stored.                                       *)
EnterWithoutCancel(r) ==
    /\ run[r].pc = "enter"
    /\ SetSession(run[r].obj, [ses[run[r].obj] EXCEPT !.state = "EXECUTING"])
    /\ Put(r, [run[r] EXCEPT !.pc = "readTx", !.ctx = "live"])
    /\ UNCHANGED <<registry, catalogMu, txOpen, calls, exit, exe, capturedCancel>>

(* executor.go:45-51.                                                      *)
EnterExecuting(r) ==
    /\ run[r].pc = "enter"
    /\ SetSession(run[r].obj, [ses[run[r].obj] EXCEPT !.state = "EXECUTING"])
    /\ exe' = [exe EXCEPT ![run[r].obj].cancel = r]
    /\ Put(r, [run[r] EXCEPT !.pc = "readTx", !.ctx = "live"])
    /\ UNCHANGED <<registry, catalogMu, txOpen, calls, exit, capturedCancel>>

(* Mutant: every statement goes to the pool.                               *)
IgnoreTx(r) ==
    /\ run[r].pc = "readTx"
    /\ Go(r, "start")
    /\ UNCHANGED <<vars, exe, capturedCancel>>

(* executor.go:61-69: the statement runs in the open transaction, if any.  *)
ReadTx(r) ==
    /\ run[r].pc = "readTx"
    /\ Put(r, [run[r] EXCEPT !.pc = "start", !.tx = ses[run[r].obj].tx])
    /\ UNCHANGED <<vars, exe, capturedCancel>>

(* database/sql refuses a context that is done, a finished transaction or  *)
(* a closed handle without calling the driver.                             *)
Refused(v) ==
    \/ v.ctx # "live"
    \/ v.tx # NoTx /\ v.tx \notin txOpen
    \/ ses[v.obj].db # "open"

DriverStart(r) ==
    /\ run[r].pc = "start"
    /\ IF Refused(run[r])
         THEN Put(r, [run[r] EXCEPT !.pc = "done", !.out = "error"])
         ELSE Put(r, [run[r] EXCEPT !.pc = "driver", !.ran = @ + 1,
                                    !.since = IF run[r].asked = "no" THEN 0 ELSE @ + 1])
    /\ UNCHANGED <<vars, exe, capturedCancel>>

(* Mutant: a failed query is tried once more through ExecContext.          *)
DriverEndRetries(r) ==
    /\ run[r].pc = "driver"
    /\ \/ Put(r, [run[r] EXCEPT !.pc = "done", !.out = "ok"])
       \/ IF run[r].ran = 1 THEN Go(r, "start")
          ELSE Put(r, [run[r] EXCEPT !.pc = "done", !.out = "error"])
    /\ UNCHANGED <<vars, exe, capturedCancel>>

(* executor.go:78-111: classified once, executed exactly once.  Also when  *)
(* the context is done the driver may still report success.                *)
DriverEnd(r) ==
    /\ run[r].pc = "driver"
    /\ \E out \in {"ok", "error"} :
         Put(r, [run[r] EXCEPT !.pc = "done", !.out = out])
    /\ UNCHANGED <<vars, exe, capturedCancel>>

(* Mutant: a context without a deadline.                                   *)
NoTimeout(r) == FALSE

Timeout(r) ==
    /\ run[r].ctx = "live"
    /\ run[r].pc \in {"readTx", "start", "driver", "done"}
    /\ Put(r, [run[r] EXCEPT !.ctx = "deadline"])
    /\ UNCHANGED <<vars, exe, capturedCancel>>

(* executor.go:113-131, 144-163: the context is looked at before the       *)
(* driver's own answer, on the success path too.                           *)
Status(v) == CASE v.ctx = "canceled" -> "canceled"
               [] v.ctx = "deadline" -> "timeout"
               [] OTHER -> v.out

Outcome(r) ==
    /\ run[r].pc = "done"
    /\ Put(r, [run[r] EXCEPT !.pc = "leave", !.res = Status(run[r])])
    /\ UNCHANGED <<vars, exe, capturedCancel>>

(* Mutant: the state is not put back.                                      *)
LeaveStuck(r) ==
    /\ run[r].pc = "leave"
    /\ exe' = [exe EXCEPT ![run[r].obj].cancel = NoRunner]
    /\ Put(r, [run[r] EXCEPT !.pc = "after", !.ctx = "none"])
    /\ UNCHANGED <<vars, capturedCancel>>

(* The deferred function, executor.go:52-59.  The statement's context is   *)
(* over: a Disconnect that captured its cancel function cancels nothing.   *)
LeaveExecuting(r) ==
    /\ run[r].pc = "leave"
    /\ LET s == ses[run[r].obj] IN
       SetSession(run[r].obj,
           [s EXCEPT !.state = IF s.state = "EXECUTING" THEN "CONNECTED" ELSE @])
    /\ exe' = [exe EXCEPT ![run[r].obj].cancel = NoRunner]
    /\ Put(r, [run[r] EXCEPT !.pc = "after", !.ctx = "none"])
    /\ capturedCancel' = [t \in Threads |->
                           IF capturedCancel[t] = r THEN NoRunner ELSE capturedCancel[t]]
    /\ UNCHANGED <<registry, catalogMu, txOpen, calls, exit>>

(* Mutant: runs past the last statement.                                   *)
AfterRunsOn(r) ==
    /\ run[r].pc = "after"
    /\ Put(r, IF run[r].script
               THEN [NoRun EXCEPT !.pc = "check", !.id = run[r].id, !.script = TRUE,
                                  !.left = run[r].left - 1]
               ELSE NoRun)
    /\ UNCHANGED <<vars, exe, capturedCancel>>

(* executor.go:214-229: stop, or go on with the next statement.            *)
After(r) ==
    /\ run[r].pc = "after"
    /\ LET v == run[r]
           stops == \/ v.left = 1
                    \/ v.res = "canceled" \/ ScriptCanceled(v.id)
                    \/ v.out = "error" /\ v.stopOnErr
       IN  IF ~v.script \/ stops
             THEN Put(r, NoRun)
             ELSE Put(r, [NoRun EXCEPT !.pc = "check", !.id = v.id, !.script = TRUE,
                              !.stopOnErr = v.stopOnErr, !.left = v.left - 1,
                              !.asked = v.asked, !.since = v.since])
    /\ UNCHANGED <<vars, exe, capturedCancel>>

-----------------------------------------------------------------------------
(* Disconnect, with what it does to a running statement                    *)

DisconnectCapture(t) ==
    /\ DisconnectRemove(t)
    /\ capturedCancel' = [capturedCancel EXCEPT ![t] =
           IF Registered(cid[t]) THEN exe[sessions[cid[t]]].cancel ELSE NoRunner]
    /\ UNCHANGED <<exe, run>>

(* manager.go:211-216.                                                     *)
DisconnectCancel(t) ==
    /\ DisconnectRollback(t)
    /\ run' = [r \in Runners |->
                 IF capturedCancel[t] = r THEN Canceled(run[r]) ELSE run[r]]
    /\ capturedCancel' = [capturedCancel EXCEPT ![t] = NoRunner]
    /\ UNCHANGED exe

DisconnectRest(t) ==
    \/ DisconnectClearConnStr(t) \/ DisconnectActive(t)
    \/ DisconnectCatalog(t) \/ DisconnectDB(t)

-----------------------------------------------------------------------------
UICommand ==
    \/ GateIdle /\ (DisconnectCommand \/ EndTx \/ \E x \in Txs : BeginTx(x))
    \/ Exit \/ \E id \in Ids : SetActiveSession(id)

SessionStep ==
    \/ \E w \in Workers : ConnectStep(w) \/ \E id \in Ids : ConnectRegister(w, id)
    \/ \E t \in Threads : DisconnectRest(t)
    \/ UICommand \/ BeginTxSet \/ EndTxClear \/ ExitStep

RunnerStep(r) ==
    \/ ScriptReset(r) \/ ScriptCheck(r) \/ Lookup(r) \/ EnterExecuting(r)
    \/ ReadTx(r) \/ DriverStart(r) \/ Outcome(r) \/ LeaveExecuting(r)
    \/ After(r)

ExecExited == Exited /\ (\A r \in Runners : Idle(r)) /\ UNCHANGED xvars

ExecNext ==
    \/ SessionStep /\ UNCHANGED xvars
    \/ \E t \in Threads : DisconnectCapture(t) \/ DisconnectCancel(t)
    \/ \E r \in Runners :
         \/ RunnerStep(r) \/ DriverEnd(r) \/ Timeout(r)
         \/ StartStatement(r) \/ StartScript(r)
    \/ CancelExecution
    \/ ExecExited

ExecSpec == ExecInit /\ [][ExecNext]_evars

(* Goroutines run; the deadline of a statement's context passes; the       *)
(* driver comes back from a call whose context is done (it may hang        *)
(* otherwise).                                                             *)
ExecFairness ==
    \A r \in Runners :
        /\ WF_evars(RunnerStep(r))
        /\ WF_evars(Timeout(r))
        /\ WF_evars(run[r].ctx # "live" /\ DriverEnd(r))

FairExecSpec == ExecSpec /\ ExecFairness

-----------------------------------------------------------------------------
(* Properties                                                              *)

Begun(v) == v.ran > 0 \/ v.out = "error"

Contract == INSTANCE ScriptContract WITH
    left <- [r \in Runners |-> run[r].left - IF Begun(run[r]) THEN 1 ELSE 0],
    busy <- [r \in Runners |-> run[r].pc = "driver"],
    stopped <- [r \in Runners |-> run[r].asked = "ctx"]

(* The executor keeps ScriptContract: a statement reaches the driver at     *)
(* most once, in order, one at a time, and none after a cancel that was     *)
(* reported as accepted (executor.go:78-111, 203-227).                     *)
ImplementsContract == Contract!Spec

(* A cancel that found nothing running ("no running execution") still       *)
(* stops the script of the session: at most the statement that was already *)
(* past its check is begun after it (executor.go:204-219,                  *)
(* manager.go:335-338).                                                    *)
CancelStopsScript ==
    \A r \in Runners : run[r].since <= IF run[r].asked = "flag" THEN 1 ELSE 0

(* A session says EXECUTING only while a statement is in flight on it, so   *)
(* it never sticks there (executor.go:48-59; quickConnect asks for the     *)
(* state CONNECTED).                                                       *)
InFlightPCs == {"readTx", "start", "driver", "done", "leave"}

NoStuckExecuting ==
    \A o \in Objs : ses[o].state = "EXECUTING" =>
        \E r \in Runners : run[r].obj = o /\ run[r].pc \in InFlightPCs

(* What the driver works on comes to an end, and the script with it.       *)
RunEnds == \A r \in Runners : run[r].pc = "driver" ~> Idle(r)

=============================================================================
