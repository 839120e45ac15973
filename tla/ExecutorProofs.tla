--------------------------- MODULE ExecutorProofs ---------------------------
(***************************************************************************)
(* The executor keeps ScriptContract, its sessions never stick in the      *)
(* state EXECUTING, the user's cancel finds every statement that met no    *)
(* other one on its session, statements run in a transaction of their      *)
(* session, and behind the UI's gate a cancelled script stops.             *)
(*                                                                         *)
(* XInv needs nothing but the code of the executor: how far a call has     *)
(* come fixes what it holds.  OverlapInv adds what a statement met on its  *)
(* session and needs no gate either.  GInv needs the gate (Gated): the UI  *)
(* starts nothing that talks to the database while a statement is in       *)
(* flight (ComputeActions, presenter.go:74-100).  Then a call is alone, and *)
(* the session it was started on stays registered until the window closes; *)
(* the steps of Connects, of their failures and of metadata calls, which   *)
(* go on in the meantime, cannot take it away.                             *)
(***************************************************************************)
EXTENDS Sessions, SessionManagerProofs, TLAPS

USE DEF Threads

(* What the proofs about the session registry know of its state.           *)
Base == TInv /\ Roles /\ Objects /\ Claims

(* Every step of the session registry keeps Base (manager.go).             *)
LEMMA BaseNext == ASSUME Base, [Next]_vars PROVE Base'
<1>1. CASE Next
  BY <1>1, NextTInv, RolesStep, ObjectsStep, ClaimsStep DEF Base
<1>2. CASE UNCHANGED vars
  BY <1>2 DEF vars, Base, TInv, TypeOK, CallOK, Roles, Objects, Claims, Live,
     Registered
<1>3. QED BY <1>1, <1>2

(* So does a step that sets only the state of a Session in use, as         *)
(* ExecuteStatement does on its way in and out (executor.go:48-59).        *)
LEMMA StateOnly ==
  ASSUME Base, NEW o \in Objs, ses[o].state # "UNUSED",
         NEW v \in States \ {"UNUSED"},
         SetSession(o, [ses[o] EXCEPT !.state = v]),
         UNCHANGED <<registry, catalogMu, txOpen, calls, exit>>
  PROVE  Base'
<1> USE DEF Base, registry, calls, exit
<1>1. ses' \in [Objs -> Session]
  BY FieldUpdate, SetSessionType DEF TInv, TypeOK
<1>2. TInv'
  BY <1>1 DEF TInv, TypeOK, CallOK
<1>3. \A x \in Objs : /\ ses'[x].state = "UNUSED" => ses[x].state = "UNUSED"
                      /\ ses'[x].db = ses[x].db
  BY DEF TInv, TypeOK, Session, SetSession
<1>4. Roles'
  BY DEF Roles
<1>5. Objects'
  BY <1>3, ObjectsFrame DEF TInv
<1>6. Claims'
  BY <1>3 DEF Claims, TInv, TypeOK, CallOK, NoCallPCs, Registered, ClaimPCs,
              ConnectPCs
<1>7. QED BY <1>2, <1>4, <1>5, <1>6

-----------------------------------------------------------------------------
(* The fields of a call                                                    *)

(* The types of the fields of a call (executor.go:22-135).                 *)
LEMMA RunFields ==
  ASSUME NEW v \in Run
  PROVE  /\ v.pc \in RunPCs /\ v.id \in Ids \union {NoId}
         /\ v.obj \in Objs \union {NoObj} /\ v.tx \in Txs \union {NoTx}
         /\ v.script \in BOOLEAN /\ v.stopOnErr \in BOOLEAN
         /\ v.left \in 0..MaxStatements
         /\ v.ctx \in {"none", "live", "canceled", "deadline"}
         /\ v.out \in {"none", "ok", "error"}
         /\ v.res \in Statuses \union {"none"} /\ v.ran \in Nat
         /\ v.asked \in {"no", "flag", "ctx"} /\ v.since \in Nat
BY DEF Run

(* No call in progress is a value of that type.                            *)
LEMMA NoRunType == NoRun \in Run
BY RunnerAssumption DEF NoRun, Run, RunPCs

(* The types of the executor's own variables.                              *)
XType ==
    /\ exe \in [Objs -> Execution]
    /\ run \in [Runners -> Run]
    /\ capturedCancel \in [Threads -> Runners \union {NoRunner}]

(* The points of a call before the statement is at the driver.             *)
BeforeDriver == {"reset", "check", "lookup", "enter", "readTx", "start"}

(* How far a call has come fixes what it holds: its id, its Session and    *)
(* whether the driver had the statement.                                   *)
Shape(v) ==
    /\ v.pc = "idle" => v = NoRun
    /\ v.pc # "idle" => v.id \in Ids /\ v.left # 0
    /\ v.pc \in {"enter"} \union InFlightPCs => v.obj \in Objs
    /\ v.pc \in BeforeDriver => v.ran = 0 /\ v.out = "none"
    /\ v.pc = "driver" => v.ran = 1 /\ v.out = "none"
    /\ v.pc \in {"done", "leave", "after"} =>
          v.out # "none" /\ (v.ran > 0 \/ v.out = "error")

(* What a step of a call leaves alone: which call it is, how the user's    *)
(* cancel met it, and its work on the statement.                           *)
SameCall(v, w) ==
    /\ w.id = v.id /\ w.script = v.script /\ w.stopOnErr = v.stopOnErr
    /\ w.left = v.left

SameAsk(v, w) == w.asked = v.asked /\ w.since = v.since

SameWork(v, w) ==
    /\ w.obj = v.obj /\ w.tx = v.tx /\ w.ctx = v.ctx /\ w.out = v.out
    /\ w.res = v.res /\ w.ran = v.ran

(* Only the call of r takes a step.                                        *)
Only(r) ==
    /\ run' \in [Runners -> Run]
    /\ \A s \in Runners \ {r} : run'[s] = run[s]

(* Storing a call changes no other one.                                    *)
LEMMA PutOnly ==
  ASSUME XType, NEW r \in Runners, NEW w \in Run, Put(r, w)
  PROVE  run'[r] = w /\ Only(r)
BY DEF XType, Put, Only

(* What each step of a call does to its fields.  First the reset of the    *)
(* script's cancel flag (executor.go:198-202),                             *)
LEMMA ScriptResetFields ==
  ASSUME XType, NEW r \in Runners, ScriptReset(r)
  PROVE  LET v == run[r] w == run'[r] IN
         /\ Only(r)
         /\ v.pc = "reset" /\ w.pc = "check"
         /\ SameCall(v, w) /\ SameAsk(v, w) /\ SameWork(v, w)
<1>1. PICK v \in Run : v = run[r]
  BY DEF XType
<1>2. PICK u : u = [v EXCEPT !.pc = "check"]
  OBVIOUS
<1>3. Put(r, u) /\ v.pc = "reset"
  BY <1>1, <1>2 DEF ScriptReset, Go
<1>4. /\ u \in Run /\ u.pc = "check"
      /\ SameCall(v, u) /\ SameAsk(v, u) /\ SameWork(v, u)
  BY <1>2 DEF Run, RunPCs, SameCall, SameAsk, SameWork
<1>5. QED BY <1>1, <1>3, <1>4, PutOnly

(* reading the session's transaction (executor.go:61-69),                  *)
LEMMA ReadTxFields ==
  ASSUME Base, XType, NEW r \in Runners, ReadTx(r), run[r].obj \in Objs
  PROVE  LET v == run[r] w == run'[r] IN
         /\ Only(r)
         /\ v.pc = "readTx" /\ w.pc = "start" /\ w.tx = ses[v.obj].tx
         /\ SameCall(v, w) /\ SameAsk(v, w)
         /\ w.ctx = v.ctx /\ w.out = v.out /\ w.obj = v.obj
         /\ w.res = v.res /\ w.ran = v.ran
<1>1. PICK v \in Run : v = run[r]
  BY DEF XType
<1>2. PICK x \in Txs \union {NoTx} : x = ses[run[r].obj].tx
  BY DEF Base, TInv, TypeOK, Session
<1>3. PICK u : u = [v EXCEPT !.pc = "start", !.tx = x]
  OBVIOUS
<1>4. Put(r, u) /\ v.pc = "readTx"
  BY <1>1, <1>2, <1>3 DEF ReadTx
<1>5. /\ u \in Run /\ u.pc = "start" /\ u.tx = x
      /\ SameCall(v, u) /\ SameAsk(v, u)
      /\ u.ctx = v.ctx /\ u.out = v.out /\ u.obj = v.obj
      /\ u.res = v.res /\ u.ran = v.ran
  BY <1>3 DEF Run, RunPCs, SameCall, SameAsk
<1>6. QED BY <1>1, <1>2, <1>4, <1>5, PutOnly

(* the check of the cancel flag before a statement (executor.go:203-208),  *)
LEMMA ScriptCheckFields ==
  ASSUME XType, NEW r \in Runners, ScriptCheck(r)
  PROVE  LET v == run[r] w == run'[r] IN
         /\ Only(r) /\ v.pc = "check"
         /\ IF ScriptCanceled(v.id) THEN w = NoRun
            ELSE /\ w.pc = "lookup"
                 /\ SameCall(v, w) /\ SameAsk(v, w) /\ SameWork(v, w)
<1>1. PICK v \in Run : v = run[r]
  BY DEF XType
<1>2. CASE ScriptCanceled(v.id)
  <2>1. Put(r, NoRun) /\ v.pc = "check"
    BY <1>1, <1>2 DEF ScriptCheck
  <2>2. QED BY <1>1, <1>2, <2>1, PutOnly, NoRunType
<1>3. CASE ~ScriptCanceled(v.id)
  <2>1. PICK u : u = [v EXCEPT !.pc = "lookup"]
    OBVIOUS
  <2>2. Put(r, u) /\ v.pc = "check"
    BY <1>1, <1>3, <2>1 DEF ScriptCheck, Go
  <2>3. /\ u \in Run /\ u.pc = "lookup"
        /\ SameCall(v, u) /\ SameAsk(v, u) /\ SameWork(v, u)
    BY <2>1 DEF Run, RunPCs, Statuses, SameCall, SameAsk, SameWork
  <2>4. QED BY <1>1, <1>3, <2>2, <2>3, PutOnly
<1>4. QED BY <1>2, <1>3

(* looking the session up (executor.go:23-29),                             *)
LEMMA LookupFields ==
  ASSUME Base, XType, NEW r \in Runners, Lookup(r), run[r].id \in Ids
  PROVE  LET v == run[r] w == run'[r] IN
         /\ Only(r) /\ v.pc = "lookup"
         /\ SameCall(v, w) /\ SameAsk(v, w)
         /\ w.tx = v.tx /\ w.ctx = v.ctx /\ w.ran = v.ran
         /\ IF Registered(v.id) /\ ses[sessions[v.id]].db # "none"
              THEN /\ w.pc = "enter" /\ w.obj = sessions[v.id] /\ w.obj \in Objs
                   /\ w.out = v.out /\ w.res = v.res
              ELSE /\ w.pc = "after" /\ w.obj = v.obj
                   /\ w.out = "error" /\ w.res = "error"
<1>1. PICK v \in Run : v = run[r]
  BY DEF XType
<1>2. v.pc = "lookup"
  BY <1>1 DEF Lookup
<1>3. CASE Registered(v.id) /\ ses[sessions[v.id]].db # "none"
  <2>1. PICK o \in Objs : o = sessions[v.id]
    BY <1>1, <1>3 DEF Registered, Base, TInv, TypeOK
  <2>2. PICK u : u = [v EXCEPT !.pc = "enter", !.obj = o]
    OBVIOUS
  <2>3. Put(r, u)
    BY <1>1, <1>3, <2>1, <2>2 DEF Lookup
  <2>4. /\ u \in Run /\ u.pc = "enter" /\ u.obj = o
        /\ SameCall(v, u) /\ SameAsk(v, u)
        /\ u.tx = v.tx /\ u.ctx = v.ctx /\ u.out = v.out
        /\ u.res = v.res /\ u.ran = v.ran
    BY <2>2 DEF Run, RunPCs, Statuses, SameCall, SameAsk, SameWork
  <2>5. QED BY <1>1, <1>2, <1>3, <2>1, <2>3, <2>4, PutOnly
<1>4. CASE ~(Registered(v.id) /\ ses[sessions[v.id]].db # "none")
  <2>1. PICK u : u = [v EXCEPT !.pc = "after", !.out = "error", !.res = "error"]
    OBVIOUS
  <2>2. Put(r, u)
    BY <1>1, <1>4, <2>1 DEF Lookup
  <2>3. /\ u \in Run /\ u.pc = "after" /\ u.out = "error" /\ u.res = "error"
        /\ SameCall(v, u) /\ SameAsk(v, u)
        /\ u.tx = v.tx /\ u.ctx = v.ctx /\ u.obj = v.obj /\ u.ran = v.ran
    BY <2>1 DEF Run, RunPCs, Statuses, SameCall, SameAsk, SameWork
  <2>4. QED BY <1>1, <1>2, <1>4, <2>2, <2>3, PutOnly
<1>5. QED BY <1>3, <1>4

(* registering the statement's cancel function (executor.go:45-51),        *)
LEMMA EnterFields ==
  ASSUME XType, NEW r \in Runners, EnterExecuting(r)
  PROVE  LET v == run[r] w == run'[r] IN
         /\ Only(r) /\ v.pc = "enter" /\ w.pc = "readTx" /\ w.ctx = "live"
         /\ SameCall(v, w) /\ SameAsk(v, w)
         /\ w.tx = v.tx /\ w.out = v.out /\ w.obj = v.obj
         /\ w.res = v.res /\ w.ran = v.ran
<1>1. PICK v \in Run : v = run[r]
  BY DEF XType
<1>2. PICK u : u = [v EXCEPT !.pc = "readTx", !.ctx = "live"]
  OBVIOUS
<1>3. Put(r, u) /\ v.pc = "enter"
  BY <1>1, <1>2 DEF EnterExecuting
<1>4. /\ u \in Run /\ u.pc = "readTx" /\ u.ctx = "live"
      /\ SameCall(v, u) /\ SameAsk(v, u)
      /\ u.tx = v.tx /\ u.out = v.out /\ u.obj = v.obj
      /\ u.res = v.res /\ u.ran = v.ran
  BY <1>2 DEF Run, RunPCs, Statuses, SameCall, SameAsk, SameWork
<1>5. QED BY <1>1, <1>3, <1>4, PutOnly

(* handing the statement to database/sql (executor.go:78-111),             *)
LEMMA DriverStartFields ==
  ASSUME XType, NEW r \in Runners, DriverStart(r)
  PROVE  LET v == run[r] w == run'[r] IN
         /\ Only(r) /\ v.pc = "start"
         /\ SameCall(v, w) /\ w.asked = v.asked
         /\ w.ctx = v.ctx /\ w.tx = v.tx /\ w.obj = v.obj /\ w.res = v.res
         /\ IF Refused(v)
              THEN /\ w.pc = "done" /\ w.out = "error" /\ w.ran = v.ran
                   /\ w.since = v.since
              ELSE /\ w.pc = "driver" /\ w.out = v.out /\ w.ran = v.ran + 1
                   /\ w.since = IF v.asked = "no" THEN 0 ELSE v.since + 1
<1>1. PICK v \in Run : v = run[r]
  BY DEF XType
<1>2. v.pc = "start" /\ v.ran \in Nat /\ v.since \in Nat
  BY <1>1, RunFields DEF DriverStart
<1>3. CASE Refused(v)
  <2>1. PICK u : u = [v EXCEPT !.pc = "done", !.out = "error"]
    OBVIOUS
  <2>2. Put(r, u)
    BY <1>1, <1>3, <2>1 DEF DriverStart
  <2>3. /\ u \in Run /\ u.pc = "done" /\ u.out = "error"
        /\ SameCall(v, u) /\ SameAsk(v, u)
        /\ u.ctx = v.ctx /\ u.tx = v.tx /\ u.obj = v.obj
        /\ u.res = v.res /\ u.ran = v.ran
    BY <2>1 DEF Run, RunPCs, Statuses, SameCall, SameAsk, SameWork
  <2>4. QED BY <1>1, <1>2, <1>3, <2>2, <2>3, PutOnly DEF SameAsk
<1>4. CASE ~Refused(v)
  <2>1. PICK n \in Nat : n = v.ran + 1
    BY <1>2
  <2>2. PICK m \in Nat : m = IF v.asked = "no" THEN 0 ELSE v.since + 1
    BY <1>2
  <2>3. PICK u : u = [v EXCEPT !.pc = "driver", !.ran = n, !.since = m]
    OBVIOUS
  <2>4. Put(r, u)
    BY <1>1, <1>4, <2>1, <2>2, <2>3 DEF DriverStart
  <2>5. /\ u \in Run /\ u.pc = "driver" /\ u.ran = n /\ u.since = m
        /\ SameCall(v, u) /\ u.asked = v.asked
        /\ u.ctx = v.ctx /\ u.tx = v.tx /\ u.obj = v.obj
        /\ u.out = v.out /\ u.res = v.res
    BY <2>3 DEF Run, RunPCs, Statuses, SameCall, SameAsk, SameWork
  <2>6. QED BY <1>1, <1>2, <1>4, <2>1, <2>2, <2>4, <2>5, PutOnly
<1>5. QED BY <1>3, <1>4

(* the driver's answer,                                                    *)
LEMMA DriverEndFields ==
  ASSUME XType, NEW r \in Runners, DriverEnd(r)
  PROVE  LET v == run[r] w == run'[r] IN
         /\ Only(r) /\ v.pc = "driver" /\ w.pc = "done"
         /\ w.out \in {"ok", "error"}
         /\ SameCall(v, w) /\ SameAsk(v, w)
         /\ w.ctx = v.ctx /\ w.tx = v.tx /\ w.obj = v.obj
         /\ w.res = v.res /\ w.ran = v.ran
<1>1. PICK v \in Run : v = run[r]
  BY DEF XType
<1>2. PICK o \in {"ok", "error"} : Put(r, [v EXCEPT !.pc = "done", !.out = o])
  BY <1>1 DEF DriverEnd
<1>3. PICK u : u = [v EXCEPT !.pc = "done", !.out = o]
  OBVIOUS
<1>4. Put(r, u) /\ v.pc = "driver"
  BY <1>1, <1>2, <1>3 DEF DriverEnd
<1>5. /\ u \in Run /\ u.pc = "done" /\ u.out = o
      /\ SameCall(v, u) /\ SameAsk(v, u)
      /\ u.ctx = v.ctx /\ u.tx = v.tx /\ u.obj = v.obj
      /\ u.res = v.res /\ u.ran = v.ran
  BY <1>3 DEF Run, RunPCs, Statuses, SameCall, SameAsk, SameWork
<1>6. QED BY <1>1, <1>4, <1>5, PutOnly

(* the deadline of the statement's context (executor.go:36-44),            *)
LEMMA TimeoutFields ==
  ASSUME XType, NEW r \in Runners, Timeout(r)
  PROVE  LET v == run[r] w == run'[r] IN
         /\ Only(r) /\ v.pc \in {"readTx", "start", "driver", "done"}
         /\ v.ctx = "live" /\ w.ctx = "deadline" /\ w.pc = v.pc
         /\ SameCall(v, w) /\ SameAsk(v, w)
         /\ w.tx = v.tx /\ w.out = v.out /\ w.obj = v.obj
         /\ w.res = v.res /\ w.ran = v.ran
<1>1. PICK v \in Run : v = run[r]
  BY DEF XType
<1>2. PICK u : u = [v EXCEPT !.pc = v.pc, !.ctx = "deadline"]
  OBVIOUS
<1>3. [v EXCEPT !.ctx = "deadline"] = u
  BY <1>2 DEF Run
<1>4. /\ Put(r, u) /\ v.ctx = "live"
      /\ v.pc \in {"readTx", "start", "driver", "done"}
  BY <1>1, <1>3 DEF Timeout
<1>5. /\ u \in Run /\ u.pc = v.pc /\ u.ctx = "deadline"
      /\ SameCall(v, u) /\ SameAsk(v, u)
      /\ u.tx = v.tx /\ u.out = v.out /\ u.obj = v.obj
      /\ u.res = v.res /\ u.ran = v.ran
  BY <1>2, <1>4 DEF Run, RunPCs, Statuses, SameCall, SameAsk, SameWork
<1>6. QED BY <1>1, <1>4, <1>5, PutOnly

(* classifying the outcome (executor.go:113-131, 144-163),                 *)
LEMMA OutcomeFields ==
  ASSUME XType, NEW r \in Runners, Outcome(r), run[r].out # "none"
  PROVE  LET v == run[r] w == run'[r] IN
         /\ Only(r) /\ v.pc = "done" /\ w.pc = "leave" /\ w.res = Status(v)
         /\ SameCall(v, w) /\ SameAsk(v, w)
         /\ w.ctx = v.ctx /\ w.tx = v.tx /\ w.obj = v.obj
         /\ w.out = v.out /\ w.ran = v.ran
<1>1. PICK v \in Run : v = run[r]
  BY DEF XType
<1>2. v.out \in {"ok", "error"}
  BY <1>1, RunFields
<1>3. Status(v) \in Statuses
  BY <1>2 DEF Status, Statuses
<1>4. PICK st \in Statuses : st = Status(v)
  BY <1>3
<1>5. PICK u : u = [v EXCEPT !.pc = "leave", !.res = st]
  OBVIOUS
<1>6. Put(r, u) /\ v.pc = "done"
  BY <1>1, <1>4, <1>5 DEF Outcome
<1>7. /\ u \in Run /\ u.pc = "leave" /\ u.res = st
      /\ SameCall(v, u) /\ SameAsk(v, u)
      /\ u.ctx = v.ctx /\ u.tx = v.tx /\ u.obj = v.obj
      /\ u.out = v.out /\ u.ran = v.ran
  BY <1>5 DEF Run, RunPCs, Statuses, SameCall, SameAsk, SameWork
<1>8. QED BY <1>1, <1>4, <1>6, <1>7, PutOnly

(* the deferred function (executor.go:52-59),                              *)
LEMMA LeaveFields ==
  ASSUME XType, NEW r \in Runners, LeaveExecuting(r)
  PROVE  LET v == run[r] w == run'[r] IN
         /\ Only(r) /\ v.pc = "leave" /\ w.pc = "after" /\ w.ctx = "none"
         /\ SameCall(v, w) /\ SameAsk(v, w)
         /\ w.tx = v.tx /\ w.out = v.out /\ w.obj = v.obj
         /\ w.res = v.res /\ w.ran = v.ran
<1>1. PICK v \in Run : v = run[r]
  BY DEF XType
<1>2. PICK u : u = [v EXCEPT !.pc = "after", !.ctx = "none"]
  OBVIOUS
<1>3. Put(r, u) /\ v.pc = "leave"
  BY <1>1, <1>2 DEF LeaveExecuting
<1>4. /\ u \in Run /\ u.pc = "after" /\ u.ctx = "none"
      /\ SameCall(v, u) /\ SameAsk(v, u)
      /\ u.tx = v.tx /\ u.out = v.out /\ u.obj = v.obj
      /\ u.res = v.res /\ u.ran = v.ran
  BY <1>2 DEF Run, RunPCs, Statuses, SameCall, SameAsk, SameWork
<1>5. QED BY <1>1, <1>3, <1>4, PutOnly

(* The call of a statement that has just begun.                            *)
Begin(p, i, scr, stop, n, a, m) ==
    [pc |-> p, id |-> i, obj |-> NoObj, tx |-> NoTx, script |-> scr,
     stopOnErr |-> stop, left |-> n, ctx |-> "none", out |-> "none",
     res |-> "none", ran |-> 0, asked |-> a, since |-> m]

(* the next statement of a script, which inherits how the user's cancel    *)
(* met the script (executor.go:203-229),                                   *)
LEMMA NextStatementFields ==
  ASSUME NEW v \in Run, v.left # 0, NEW w,
         w = Begin("check", v.id, TRUE, v.stopOnErr, v.left - 1,
                   v.asked, v.since)
  PROVE  /\ w \in Run /\ w.pc = "check" /\ w.id = v.id
         /\ w.left = v.left - 1 /\ w.asked = v.asked /\ w.since = v.since
         /\ w.obj = NoObj /\ w.ctx = "none" /\ w.out = "none" /\ w.ran = 0
<1>1. v.left - 1 \in 0..MaxStatements
  BY RunFields, RunnerAssumption
<1>2. PICK n \in 0..MaxStatements : n = v.left - 1
  BY <1>1
<1>3. PICK i \in Ids \union {NoId} : i = v.id
  BY RunFields
<1>4. PICK b \in BOOLEAN : b = v.stopOnErr
  BY RunFields
<1>5. PICK a \in {"no", "flag", "ctx"}, m \in Nat : a = v.asked /\ m = v.since
  BY RunFields
<1>6. PICK p \in RunPCs : p = "check"
  BY DEF RunPCs
<1>7. PICK t \in BOOLEAN : t = TRUE
  OBVIOUS
<1>8. w = Begin(p, i, t, b, n, a, m)
  BY <1>2, <1>3, <1>4, <1>5, <1>6, <1>7
<1>9. /\ w \in Run /\ w.pc = p /\ w.id = i /\ w.left = n
      /\ w.asked = a /\ w.since = m /\ w.obj = NoObj /\ w.ctx = "none"
      /\ w.out = "none" /\ w.ran = 0
  BY <1>8 DEF Begin, Run
<1>10. QED BY <1>2, <1>3, <1>5, <1>6, <1>9

(* the end of the call or of one of its statements (executor.go:214-229),  *)
LEMMA AfterFields ==
  ASSUME XType, NEW r \in Runners, After(r), run[r].left # 0
  PROVE  LET v == run[r] w == run'[r] IN
         /\ Only(r) /\ v.pc = "after"
         /\ \/ w = NoRun
            \/ /\ v.left # 1 /\ v.res # "canceled" /\ ~ScriptCanceled(v.id)
               /\ w.pc = "check" /\ w.id = v.id
               /\ w.left = v.left - 1 /\ w.asked = v.asked /\ w.since = v.since
               /\ w.obj = NoObj /\ w.ctx = "none" /\ w.out = "none" /\ w.ran = 0
<1>1. PICK v \in Run : v = run[r]
  BY DEF XType
<1>2. v.pc = "after"
  BY <1>1 DEF After
<1>3. CASE Put(r, NoRun)
  BY <1>1, <1>2, <1>3, PutOnly, NoRunType
<1>4. CASE ~Put(r, NoRun)
  <2>1. PICK u : u = [NoRun EXCEPT !.pc = "check", !.id = v.id, !.script = TRUE,
                     !.stopOnErr = v.stopOnErr, !.left = v.left - 1,
                     !.asked = v.asked, !.since = v.since]
    OBVIOUS
  <2>2. /\ Put(r, u) /\ v.left # 1 /\ v.res # "canceled"
        /\ ~ScriptCanceled(v.id)
    BY <1>1, <1>4, <2>1 DEF After
  <2>3. /\ u \in Run /\ u.pc = "check" /\ u.id = v.id
        /\ u.left = v.left - 1 /\ u.asked = v.asked /\ u.since = v.since
        /\ u.obj = NoObj /\ u.ctx = "none" /\ u.out = "none" /\ u.ran = 0
    <3>1. v.left # 0
      BY <1>1
    <3>2. u = Begin("check", v.id, TRUE, v.stopOnErr, v.left - 1,
                    v.asked, v.since)
      BY <2>1 DEF NoRun, Begin
    <3>3. QED BY <3>1, <3>2, NextStatementFields
  <2>4. QED BY <1>1, <1>2, <2>2, <2>3, PutOnly
<1>5. QED BY <1>3, <1>4

(* and the start, by the UI thread on the active session                   *)
(* (walk_windows.go:1184-1311).                                            *)
LEMMA StartFields ==
  ASSUME Base, XType, NEW r \in Runners, StartStatement(r) \/ StartScript(r)
  PROVE  LET w == run'[r] IN
         /\ Only(r) /\ run[r].pc = "idle" /\ CanRun
         /\ w.pc \in {"reset", "lookup"} /\ w.id = activeID /\ w.id \in Ids
         /\ w.left \in 1..MaxStatements /\ w.asked = "no" /\ w.since = 0
         /\ w.obj = NoObj /\ w.ctx = "none" /\ w.out = "none" /\ w.ran = 0
<1>0. activeID # NoId /\ activeID \in Ids \union {NoId}
  BY DEF StartStatement, StartScript, CanRun, HasActive, Base, TInv, TypeOK
<1>1. activeID \in Ids /\ 1 \in 1..MaxStatements
  BY <1>0, RunnerAssumption
<1>2. PICK i \in Ids : i = activeID
  BY <1>1
<1>3. CASE StartStatement(r)
  <2>1. PICK u : u = [NoRun EXCEPT !.pc = "lookup", !.id = i, !.left = 1]
    OBVIOUS
  <2>2. Put(r, u) /\ CanRun /\ run[r].pc = "idle"
    BY <1>2, <1>3, <2>1 DEF StartStatement, Idle
  <2>3. /\ u \in Run /\ u.pc = "lookup" /\ u.id = i /\ u.left = 1
        /\ u.asked = "no" /\ u.since = 0 /\ u.obj = NoObj /\ u.ctx = "none"
        /\ u.out = "none" /\ u.ran = 0
    <3>1. u = [pc |-> "lookup", id |-> i, obj |-> NoObj, tx |-> NoTx,
           script |-> FALSE, stopOnErr |-> FALSE, left |-> 1,
           ctx |-> "none", out |-> "none", res |-> "none", ran |-> 0,
           asked |-> "no", since |-> 0]
      BY <2>1 DEF NoRun
    <3>2. u \in Run
      BY <1>1, <3>1, RunnerAssumption DEF Run, RunPCs
    <3>3. QED BY <3>1, <3>2
  <2>4. QED BY <1>1, <1>2, <2>2, <2>3, PutOnly
<1>4. CASE StartScript(r)
  <2>1. PICK n \in 1..MaxStatements, b \in BOOLEAN :
           Put(r, [NoRun EXCEPT !.pc = "reset", !.id = i, !.script = TRUE,
                                !.stopOnErr = b, !.left = n])
    BY <1>2, <1>4 DEF StartScript
  <2>2. PICK u : u = [NoRun EXCEPT !.pc = "reset", !.id = i, !.script = TRUE,
                                !.stopOnErr = b, !.left = n]
    OBVIOUS
  <2>3. Put(r, u) /\ CanRun /\ run[r].pc = "idle"
    BY <1>4, <2>1, <2>2 DEF StartScript, Idle
  <2>4. /\ u \in Run /\ u.pc = "reset" /\ u.id = i /\ u.left = n
        /\ u.asked = "no" /\ u.since = 0 /\ u.obj = NoObj /\ u.ctx = "none"
        /\ u.out = "none" /\ u.ran = 0
    <3>1. u = [pc |-> "reset", id |-> i, obj |-> NoObj, tx |-> NoTx,
           script |-> TRUE, stopOnErr |-> b, left |-> n,
           ctx |-> "none", out |-> "none", res |-> "none", ran |-> 0,
           asked |-> "no", since |-> 0]
      BY <2>2 DEF NoRun
    <3>2. u \in Run
      BY <3>1, RunnerAssumption DEF Run, RunPCs
    <3>3. QED BY <3>1, <3>2
  <2>5. QED BY <1>2, <2>3, <2>4, PutOnly
<1>5. QED BY <1>3, <1>4

-----------------------------------------------------------------------------
(* What executions leave in a Session                                      *)

(* The fields of what executions leave in a Session.                       *)
LEMMA ExeFields ==
  ASSUME NEW e \in Execution, NEW c \in Runners \union {NoRunner},
         NEW b \in BOOLEAN
  PROVE  /\ [e EXCEPT !.cancel = c] \in Execution
         /\ [e EXCEPT !.cancel = c].cancel = c
         /\ [e EXCEPT !.cancel = c].scriptCanceled = e.scriptCanceled
         /\ [e EXCEPT !.scriptCanceled = b] \in Execution
         /\ [e EXCEPT !.scriptCanceled = b].scriptCanceled = b
         /\ [e EXCEPT !.scriptCanceled = b].cancel = e.cancel
BY DEF Execution

(* Session.ExecCancel of o becomes c and nothing else in exe changes.      *)
SetCancel(o, c) ==
    /\ exe' \in [Objs -> Execution]
    /\ exe'[o].cancel = c
    /\ \A p \in Objs \ {o} : exe'[p].cancel = exe[p].cancel
    /\ \A p \in Objs : exe'[p].scriptCanceled = exe[p].scriptCanceled

(* A statement that enters registers its cancel function                   *)
(* (executor.go:50).                                                       *)
LEMMA EnterExe ==
  ASSUME XType, NEW r \in Runners, run[r].obj \in Objs, EnterExecuting(r)
  PROVE  SetCancel(run[r].obj, r)
<1>1. PICK o \in Objs : o = run[r].obj
  OBVIOUS
<1>2. PICK e \in Execution : e = [exe[o] EXCEPT !.cancel = r]
  BY ExeFields DEF XType
<1>3. exe' = [exe EXCEPT ![o] = e]
  BY <1>1, <1>2 DEF EnterExecuting
<1>4. e.cancel = r /\ e.scriptCanceled = exe[o].scriptCanceled
  BY <1>2, ExeFields DEF XType
<1>5. QED BY <1>1, <1>3, <1>4 DEF XType, SetCancel

(* One that leaves takes it out again (executor.go:54).                    *)
LEMMA LeaveExe ==
  ASSUME XType, NEW r \in Runners, run[r].obj \in Objs, LeaveExecuting(r)
  PROVE  SetCancel(run[r].obj, NoRunner)
<1>1. PICK o \in Objs : o = run[r].obj
  OBVIOUS
<1>2. PICK e \in Execution : e = [exe[o] EXCEPT !.cancel = NoRunner]
  BY ExeFields DEF XType
<1>3. exe' = [exe EXCEPT ![o] = e]
  BY <1>1, <1>2 DEF LeaveExecuting
<1>4. e.cancel = NoRunner /\ e.scriptCanceled = exe[o].scriptCanceled
  BY <1>2, ExeFields DEF XType
<1>5. QED BY <1>1, <1>3, <1>4 DEF XType, SetCancel

(* CancelExecution sets the script flag of the active session only         *)
(* (manager.go:335).                                                       *)
LEMMA CancelExe ==
  ASSUME Base, XType, CancelExecution
  PROVE  /\ exe' \in [Objs -> Execution] /\ Active \in Objs
         /\ exe'[Active].scriptCanceled
         /\ \A p \in Objs : exe'[p].cancel = exe[p].cancel
         /\ \A p \in Objs : exe[p].scriptCanceled => exe'[p].scriptCanceled
<1>1. PICK o \in Objs : o = Active
  BY DEF CancelExecution, HasActive, Active, Registered, Base, TInv, TypeOK
<1>2. PICK e \in Execution : e = [exe[o] EXCEPT !.scriptCanceled = TRUE]
  BY ExeFields DEF XType
<1>3. exe' = [exe EXCEPT ![o] = e]
  BY <1>1, <1>2 DEF CancelExecution
<1>4. e.cancel = exe[o].cancel /\ e.scriptCanceled
  BY <1>2, ExeFields DEF XType
<1>5. QED BY <1>1, <1>3, <1>4 DEF XType

(* ExecuteScript's reset touches no cancel function                        *)
(* (executor.go:198-202).                                                  *)
LEMMA ResetExe ==
  ASSUME XType, NEW r \in Runners, ScriptReset(r)
  PROVE  /\ exe' \in [Objs -> Execution]
         /\ \A p \in Objs : exe'[p].cancel = exe[p].cancel
<1>1. ASSUME NEW p \in Objs
      PROVE  exe'[p] \in Execution /\ exe'[p].cancel = exe[p].cancel
  <2>1. PICK b \in BOOLEAN :
           b = (exe[p].scriptCanceled /\ sessions[run[r].id] # p)
    OBVIOUS
  <2>2. exe'[p] = [exe[p] EXCEPT !.scriptCanceled = b]
    BY <2>1 DEF ScriptReset
  <2>3. PICK e \in Execution : e = exe[p]
    BY DEF XType
  <2>4. /\ [e EXCEPT !.scriptCanceled = b] \in Execution
        /\ [e EXCEPT !.scriptCanceled = b].cancel = e.cancel
    BY DEF Execution
  <2>5. QED BY <2>2, <2>3, <2>4
<1>2. exe' = [o \in Objs |-> exe'[o]]
  BY DEF ScriptReset
<1>3. QED BY <1>1, <1>2

-----------------------------------------------------------------------------
(* Calls keep their shape                                                  *)

(* Every call has its shape.                                               *)
Shapes == \A r \in Runners : Shape(run[r])

(* No call in progress has the shape of an idle one.                       *)
LEMMA IdleShape == Shape(NoRun)
BY DEF Shape, NoRun, BeforeDriver, InFlightPCs

(* A step of one call keeps all shapes if it keeps its own.                *)
LEMMA OnlyShapes ==
  ASSUME Shapes, NEW r \in Runners, Only(r), Shape(run'[r])
  PROVE  Shapes'
BY DEF Shapes, Only, Shape

(* Every step of a call keeps the shapes (executor.go:22-135, 180-232).    *)
LEMMA RunnerShape ==
  ASSUME Base, XType, Shapes, NEW r \in Runners,
         \/ RunnerStep(r) \/ DriverEnd(r) \/ Timeout(r)
         \/ StartStatement(r) \/ StartScript(r)
  PROVE  Shapes' /\ Only(r)
<1>0. PICK v \in Run : v = run[r] /\ Shape(v)
  BY DEF XType, Shapes
<1> DEFINE w == run'[r]
<1> HIDE DEF w
<1>1. CASE ScriptReset(r)
  <2>1. Only(r) /\ v.pc = "reset" /\ w.pc = "check" /\ SameCall(v, w)
        /\ SameWork(v, w)
    BY <1>0, <1>1, ScriptResetFields DEF w
  <2>2. Shape(w)
    BY <1>0, <2>1 DEF Shape, SameCall, SameWork, BeforeDriver, InFlightPCs
  <2>3. QED BY <2>1, <2>2, OnlyShapes DEF w
<1>2. CASE ScriptCheck(r)
  <2>1. Only(r) /\ v.pc = "check"
        /\ \/ w = NoRun
           \/ w.pc = "lookup" /\ SameCall(v, w) /\ SameWork(v, w)
    BY <1>0, <1>2, ScriptCheckFields DEF w
  <2>2. Shape(w)
    BY <1>0, <2>1, IdleShape
       DEF Shape, SameCall, SameWork, BeforeDriver, InFlightPCs
  <2>3. QED BY <2>1, <2>2, OnlyShapes DEF w
<1>3. CASE Lookup(r)
  <2>0. v.pc = "lookup" /\ v.id \in Ids
    BY <1>0, <1>3 DEF Lookup, Shape
  <2>1. Only(r) /\ SameCall(v, w) /\ w.ran = v.ran
        /\ \/ w.pc = "enter" /\ w.obj \in Objs /\ w.out = v.out
           \/ w.pc = "after" /\ w.out = "error"
    BY <1>0, <1>3, <2>0, LookupFields DEF w
  <2>2. Shape(w)
    BY <1>0, <2>0, <2>1 DEF Shape, SameCall, BeforeDriver, InFlightPCs
  <2>3. QED BY <2>1, <2>2, OnlyShapes DEF w
<1>4. CASE EnterExecuting(r)
  <2>1. Only(r) /\ v.pc = "enter" /\ w.pc = "readTx" /\ SameCall(v, w)
        /\ w.obj = v.obj /\ w.ran = v.ran /\ w.out = v.out
    BY <1>0, <1>4, EnterFields DEF w
  <2>2. Shape(w)
    BY <1>0, <2>1 DEF Shape, SameCall, BeforeDriver, InFlightPCs
  <2>3. QED BY <2>1, <2>2, OnlyShapes DEF w
<1>5. CASE ReadTx(r)
  <2>0. v.pc = "readTx" /\ v.obj \in Objs
    BY <1>0, <1>5 DEF ReadTx, Shape, InFlightPCs
  <2>1. Only(r) /\ w.pc = "start" /\ SameCall(v, w)
        /\ w.obj = v.obj /\ w.ran = v.ran /\ w.out = v.out
    BY <1>0, <1>5, <2>0, ReadTxFields DEF w
  <2>2. Shape(w)
    BY <1>0, <2>0, <2>1 DEF Shape, SameCall, BeforeDriver, InFlightPCs
  <2>3. QED BY <2>1, <2>2, OnlyShapes DEF w
<1>6. CASE DriverStart(r)
  <2>1. Only(r) /\ v.pc = "start" /\ SameCall(v, w) /\ w.obj = v.obj
        /\ \/ w.pc = "done" /\ w.out = "error"
           \/ w.pc = "driver" /\ w.out = v.out /\ w.ran = v.ran + 1
    BY <1>0, <1>6, DriverStartFields DEF w
  <2>2. Shape(w)
    BY <1>0, <2>1 DEF Shape, SameCall, BeforeDriver, InFlightPCs
  <2>3. QED BY <2>1, <2>2, OnlyShapes DEF w
<1>7. CASE DriverEnd(r)
  <2>1. Only(r) /\ v.pc = "driver" /\ w.pc = "done" /\ SameCall(v, w)
        /\ w.obj = v.obj /\ w.ran = v.ran /\ w.out \in {"ok", "error"}
    BY <1>0, <1>7, DriverEndFields DEF w
  <2>2. Shape(w)
    BY <1>0, <2>1 DEF Shape, SameCall, BeforeDriver, InFlightPCs
  <2>3. QED BY <2>1, <2>2, OnlyShapes DEF w
<1>8. CASE Timeout(r)
  <2>1. Only(r) /\ v.pc \in InFlightPCs /\ w.pc = v.pc /\ SameCall(v, w)
        /\ w.obj = v.obj /\ w.ran = v.ran /\ w.out = v.out
    BY <1>0, <1>8, TimeoutFields DEF w, InFlightPCs
  <2>2. Shape(w)
    BY <1>0, <2>1 DEF Shape, SameCall, BeforeDriver, InFlightPCs
  <2>3. QED BY <2>1, <2>2, OnlyShapes DEF w
<1>9. CASE Outcome(r)
  <2>0. v.pc = "done" /\ v.out # "none"
    BY <1>0, <1>9 DEF Outcome, Shape
  <2>1. Only(r) /\ w.pc = "leave" /\ SameCall(v, w)
        /\ w.obj = v.obj /\ w.ran = v.ran /\ w.out = v.out
    BY <1>0, <1>9, <2>0, OutcomeFields DEF w
  <2>2. Shape(w)
    BY <1>0, <2>0, <2>1 DEF Shape, SameCall, BeforeDriver, InFlightPCs
  <2>3. QED BY <2>1, <2>2, OnlyShapes DEF w
<1>10. CASE LeaveExecuting(r)
  <2>1. Only(r) /\ v.pc = "leave" /\ w.pc = "after" /\ SameCall(v, w)
        /\ w.obj = v.obj /\ w.ran = v.ran /\ w.out = v.out
    BY <1>0, <1>10, LeaveFields DEF w
  <2>2. Shape(w)
    BY <1>0, <2>1 DEF Shape, SameCall, BeforeDriver, InFlightPCs
  <2>3. QED BY <2>1, <2>2, OnlyShapes DEF w
<1>11. CASE After(r)
  <2>0. v.pc = "after" /\ v.id \in Ids /\ v.left \in 1..MaxStatements
    BY <1>0, <1>11, RunFields, RunnerAssumption DEF After, Shape
  <2>1. Only(r) /\ \/ w = NoRun
                   \/ /\ w.pc = "check" /\ w.id = v.id /\ w.left = v.left - 1
                      /\ v.left # 1 /\ w.ran = 0 /\ w.out = "none"
    BY <1>0, <1>11, <2>0, AfterFields DEF w
  <2>2. Shape(w)
    BY <2>0, <2>1, IdleShape DEF Shape, BeforeDriver, InFlightPCs
  <2>3. QED BY <2>1, <2>2, OnlyShapes DEF w
<1>12. CASE StartStatement(r) \/ StartScript(r)
  <2>1. Only(r) /\ w.pc \in {"reset", "lookup"} /\ w.id \in Ids
        /\ w.left \in 1..MaxStatements /\ w.ran = 0 /\ w.out = "none"
    BY <1>12, StartFields DEF w
  <2>2. Shape(w)
    BY <2>1, RunnerAssumption DEF Shape, BeforeDriver, InFlightPCs
  <2>3. QED BY <2>1, <2>2, OnlyShapes DEF w
<1>13. QED
  BY <1>1, <1>2, <1>3, <1>4, <1>5, <1>6, <1>7, <1>8, <1>9, <1>10, <1>11, <1>12
     DEF RunnerStep, Only

-----------------------------------------------------------------------------
(* Cancels                                                                 *)

(* A cancel ends the statement's context and leaves its work alone.        *)
SoftCancel(v, w) ==
    /\ w \in Run /\ w.pc = v.pc /\ SameCall(v, w)
    /\ w.obj = v.obj /\ w.tx = v.tx /\ w.out = v.out
    /\ w.res = v.res /\ w.ran = v.ran
    /\ w.ctx # v.ctx => v.ctx = "live" /\ w.ctx = "canceled"

(* Calling the cancel function is such a cancel (manager.go:211-213,       *)
(* 339).                                                                   *)
LEMMA CanceledFields ==
  ASSUME NEW v \in Run
  PROVE  SoftCancel(v, Canceled(v)) /\ SameAsk(v, Canceled(v))
         /\ Canceled(v).ctx # "live"
<1>1. CASE v.ctx = "live"
  <2>1. PICK u : u = [v EXCEPT !.ctx = "canceled"]
    OBVIOUS
  <2>2. SoftCancel(v, u) /\ SameAsk(v, u) /\ u.ctx # "live"
    BY <1>1, <2>1 DEF Run, SoftCancel, SameCall, SameAsk
  <2>3. Canceled(v) = u
    BY <1>1, <2>1 DEF Canceled
  <2>4. QED BY <2>2, <2>3
<1>2. CASE v.ctx # "live"
  <2>1. Canceled(v) = v
    BY <1>2 DEF Canceled
  <2>2. SoftCancel(v, v) /\ SameAsk(v, v)
    BY DEF SoftCancel, SameCall, SameAsk
  <2>3. QED BY <1>2, <2>1, <2>2
<1>3. QED BY <1>1, <1>2

(* Noting that the user asked changes only the note.                       *)
LEMMA AskedFields ==
  ASSUME NEW v \in Run, NEW how \in {"flag", "ctx"}
  PROVE  LET w == Asked(v, how) IN
         /\ SoftCancel(v, w) /\ w.ctx = v.ctx
         /\ IF how = "flag" /\ v.asked # "no" THEN SameAsk(v, w)
            ELSE w.asked = how /\ w.since = 0
<1>1. PICK a \in {"no", "flag", "ctx"} : a = how
  OBVIOUS
<1>2. PICK u : u = [v EXCEPT !.asked = a, !.since = 0]
  OBVIOUS
<1>3. SoftCancel(v, u) /\ u.ctx = v.ctx /\ u.asked = how /\ u.since = 0
  BY <1>1, <1>2 DEF Run, SoftCancel, SameCall
<1>4. CASE how = "flag" /\ v.asked # "no"
  <2>1. Asked(v, how) = v
    BY <1>4 DEF Asked
  <2>2. SoftCancel(v, v) /\ SameAsk(v, v)
    BY DEF SoftCancel, SameCall, SameAsk
  <2>3. QED BY <1>4, <2>1, <2>2
<1>5. CASE ~(how = "flag" /\ v.asked # "no")
  <2>1. CASE how = "ctx"
    <3>1. Asked(v, how) = [v EXCEPT !.asked = "ctx", !.since = 0]
      BY <2>1 DEF Asked
    <3>2. a = "ctx"
      BY <1>1, <2>1
    <3>3. QED BY <1>2, <1>3, <1>5, <3>1, <3>2
  <2>2. CASE how = "flag" /\ v.asked = "no"
    <3>1. Asked(v, how) = [v EXCEPT !.asked = "flag", !.since = 0]
      BY <2>2 DEF Asked
    <3>2. a = "flag"
      BY <1>1, <2>2
    <3>3. QED BY <1>2, <1>3, <1>5, <3>1, <3>2
  <2>3. QED BY <1>5, <2>1, <2>2
<1>6. QED BY <1>4, <1>5

(* Two cancels in a row are one.                                           *)
LEMMA SoftTrans ==
  ASSUME NEW u, NEW v, NEW w, SoftCancel(u, v), SoftCancel(v, w)
  PROVE  SoftCancel(u, w)
BY DEF SoftCancel, SameCall

(* What CancelExecution does to a call, by how it reaches the call.        *)
CancelEffect(v, w, how) ==
    /\ SoftCancel(v, w)
    /\ how = "ctx" => w.asked = "ctx" /\ w.since = 0 /\ w.ctx # "live"
    /\ how = "flag" => IF v.asked = "no" THEN w.asked = "flag" /\ w.since = 0
                       ELSE SameAsk(v, w)
    /\ how = "no" => w = v

(* How CancelExecution reaches a call.                                     *)
Reach(r) == IF exe[Active].cancel = r THEN "ctx"
            ELSE IF ScriptOf(activeID, run[r]) THEN "flag" ELSE "no"

(* CancelExecution does so to every call (manager.go:328-341).             *)
LEMMA CancelRuns ==
  ASSUME XType, CancelExecution
  PROVE  /\ run' \in [Runners -> Run]
         /\ \A r \in Runners : CancelEffect(run[r], run'[r], Reach(r))
<1>1. ASSUME NEW r \in Runners
      PROVE  CancelEffect(run[r], run'[r], Reach(r))
  <2>1. PICK v \in Run : v = run[r]
    BY DEF XType
  <2>2. CASE exe[Active].cancel = r
    <3>1. PICK u \in Run : u = Canceled(v)
      BY CanceledFields DEF SoftCancel
    <3>2. SoftCancel(v, u) /\ u.ctx # "live"
      BY <3>1, CanceledFields
    <3>3. PICK w : w = Asked(u, "ctx")
      OBVIOUS
    <3>4. SoftCancel(u, w) /\ w.ctx = u.ctx /\ w.asked = "ctx" /\ w.since = 0
      BY <3>3, AskedFields
    <3>5. run'[r] = w
      BY <2>1, <2>2, <3>1, <3>3 DEF CancelExecution
    <3>6. Reach(r) = "ctx"
      BY <2>2 DEF Reach
    <3>7. SoftCancel(v, w) /\ w.ctx # "live"
      BY <3>2, <3>4, SoftTrans
    <3>8. QED BY <2>1, <3>4, <3>5, <3>6, <3>7 DEF CancelEffect
  <2>3. CASE exe[Active].cancel # r /\ ScriptOf(activeID, v)
    <3>1. PICK w : w = Asked(v, "flag")
      OBVIOUS
    <3>2. /\ SoftCancel(v, w)
          /\ IF v.asked # "no" THEN SameAsk(v, w)
             ELSE w.asked = "flag" /\ w.since = 0
      BY <3>1, AskedFields
    <3>3. run'[r] = w
      BY <2>1, <2>3, <3>1 DEF CancelExecution
    <3>4. Reach(r) = "flag"
      BY <2>1, <2>3 DEF Reach
    <3>5. QED BY <2>1, <3>2, <3>3, <3>4 DEF CancelEffect
  <2>4. CASE exe[Active].cancel # r /\ ~ScriptOf(activeID, v)
    <3>1. run'[r] = v
      BY <2>1, <2>4 DEF CancelExecution
    <3>2. Reach(r) = "no"
      BY <2>1, <2>4 DEF Reach
    <3>3. SoftCancel(v, v)
      BY DEF SoftCancel, SameCall
    <3>4. QED BY <2>1, <3>1, <3>2, <3>3 DEF CancelEffect
  <2>5. QED BY <2>1, <2>2, <2>3, <2>4
<1>2. run' = [r \in Runners |-> run'[r]]
  BY DEF CancelExecution
<1>3. QED BY <1>1, <1>2 DEF CancelEffect, SoftCancel

(* Disconnect cancels the statement it captured (manager.go:211-213).      *)
LEMMA DisconnectRuns ==
  ASSUME XType, NEW t \in Threads, DisconnectCancel(t)
  PROVE  /\ run' \in [Runners -> Run]
         /\ \A r \in Runners :
              /\ SoftCancel(run[r], run'[r]) /\ SameAsk(run[r], run'[r])
              /\ run[r].ctx # "live" => run'[r] = run[r]
<1>1. ASSUME NEW r \in Runners
      PROVE  /\ SoftCancel(run[r], run'[r]) /\ SameAsk(run[r], run'[r])
             /\ run[r].ctx # "live" => run'[r] = run[r]
  <2>1. PICK v \in Run : v = run[r]
    BY DEF XType
  <2>2. SoftCancel(v, v) /\ SameAsk(v, v)
    BY DEF SoftCancel, SameCall, SameAsk
  <2>3. run'[r] = v \/ run'[r] = Canceled(v)
    BY <2>1 DEF DisconnectCancel
  <2>4. v.ctx # "live" => Canceled(v) = v
    BY DEF Canceled
  <2>5. QED BY <2>1, <2>2, <2>3, <2>4, CanceledFields
<1>2. run' = [r \in Runners |-> run'[r]]
  BY DEF DisconnectCancel
<1>3. QED BY <1>1, <1>2 DEF SoftCancel

(* A cancel keeps the shape of a call.                                     *)
LEMMA SoftShape ==
  ASSUME NEW v \in Run, NEW w \in Run, Shape(v), SoftCancel(v, w),
         v.pc = "idle" => w = v
  PROVE  Shape(w)
BY DEF Shape, SoftCancel, SameCall

-----------------------------------------------------------------------------
(* The invariant that holds without a gate                                 *)

(* How a step moves a call: one at the driver stays on its Session, one    *)
(* that takes a Session takes the registered one, and none changes its     *)
(* id.                                                                     *)
Moves(v, w) ==
    /\ v.pc \in InFlightPCs \ {"leave"} => w.pc \in InFlightPCs /\ w.obj = v.obj
    /\ w.obj \in Objs => \/ w.obj = v.obj
                         \/ /\ Registered(v.id) /\ v.id \in Ids
                            /\ w.obj = sessions[v.id]
    /\ v.pc # "idle" /\ w.pc # "idle" => w.id = v.id

(* Every step of a call is such a move.                                    *)
LEMMA RunnerMoves ==
  ASSUME Base, XType, Shapes, NEW r \in Runners,
         \/ RunnerStep(r) \/ DriverEnd(r) \/ Timeout(r)
         \/ StartStatement(r) \/ StartScript(r)
  PROVE  Moves(run[r], run'[r])
<1>0. PICK v \in Run : v = run[r] /\ Shape(v)
  BY DEF XType, Shapes
<1> DEFINE w == run'[r]
<1> HIDE DEF w
<1> USE ConstantsAssumption DEF SameCall
<1>1. CASE ScriptReset(r)
  BY <1>0, <1>1, ScriptResetFields DEF w, Moves, InFlightPCs, SameWork
<1>2. CASE ScriptCheck(r)
  BY <1>0, <1>2, ScriptCheckFields DEF w, Moves, InFlightPCs, SameWork, NoRun
<1>3. CASE Lookup(r)
  <2>1. v.pc = "lookup" /\ v.id \in Ids
    BY <1>0, <1>3 DEF Lookup, Shape
  <2>2. QED BY <1>0, <1>3, <2>1, LookupFields DEF w, Moves, InFlightPCs
<1>4. CASE EnterExecuting(r)
  BY <1>0, <1>4, EnterFields DEF w, Moves, InFlightPCs
<1>5. CASE ReadTx(r)
  <2>1. v.obj \in Objs
    BY <1>0, <1>5 DEF ReadTx, Shape, InFlightPCs
  <2>2. QED BY <1>0, <1>5, <2>1, ReadTxFields DEF w, Moves, InFlightPCs
<1>6. CASE DriverStart(r)
  <2>1. w.pc \in {"done", "driver"} /\ w.obj = v.obj /\ w.id = v.id
    BY <1>0, <1>6, DriverStartFields DEF w
  <2>2. QED BY <1>0, <2>1 DEF w, Moves, InFlightPCs
<1>7. CASE DriverEnd(r)
  BY <1>0, <1>7, DriverEndFields DEF w, Moves, InFlightPCs
<1>8. CASE Timeout(r)
  BY <1>0, <1>8, TimeoutFields DEF w, Moves, InFlightPCs
<1>9. CASE Outcome(r)
  <2>1. v.pc = "done" /\ v.out # "none"
    BY <1>0, <1>9 DEF Outcome, Shape
  <2>2. QED BY <1>0, <1>9, <2>1, OutcomeFields DEF w, Moves, InFlightPCs
<1>10. CASE LeaveExecuting(r)
  BY <1>0, <1>10, LeaveFields DEF w, Moves, InFlightPCs
<1>11. CASE After(r)
  <2>1. v.pc = "after" /\ v.left # 0
    BY <1>0, <1>11 DEF After, Shape
  <2>2. v.pc = "after" /\ w.obj = NoObj /\ (w.pc # "idle" => w.id = v.id)
    BY <1>0, <1>11, <2>1, AfterFields DEF w, NoRun
  <2>3. QED BY <1>0, <2>2 DEF w, Moves, InFlightPCs
<1>12. CASE StartStatement(r) \/ StartScript(r)
  BY <1>0, <1>12, StartFields DEF w, Moves, InFlightPCs
<1>13. QED
  BY <1>1, <1>2, <1>3, <1>4, <1>5, <1>6, <1>7, <1>8, <1>9, <1>10, <1>11, <1>12
     DEF RunnerStep

(* No Session goes back to being unused, and none starts to execute.       *)
StatesKept ==
    \A o \in Objs :
        /\ ses[o].state # "UNUSED" => ses'[o].state # "UNUSED"
        /\ ses'[o].state = "EXECUTING" => ses[o].state = "EXECUTING"

(* No step of the session registry does either (manager.go).               *)
LEMMA StatesStep ==
  ASSUME TInv, Next
  PROVE  StatesKept
<1> USE DEF TInv, CallOK, NoCallPCs, TypeOK, registry, resources, exit, calls,
        Enter, Goto, Return, SetSession, Session, StatesKept
<1>1. ASSUME NEW w \in Workers, ConnectStep(w) PROVE StatesKept
  <2>1. CASE DialFails(w)
    BY <2>1 DEF DialFails
  <2>2. CASE ConnectError(w)
    <3>1. \A o \in Objs : \/ ses'[o] = ses[o]
                          \/ ses'[o] = [ses[o] EXCEPT !.state = "ERROR"]
      BY <2>2 DEF ConnectError
    <3>2. QED BY <3>1
  <2>3. CASE ConnectPublish(w)
    BY <2>3 DEF ConnectPublish
  <2>4. QED BY <1>1, <2>1, <2>2, <2>3 DEF ConnectStep
<1>2. ASSUME NEW w \in Workers, MetadataStep(w) PROVE StatesKept
  BY <1>2 DEF MetadataStep, RefreshRetry, RefreshLookup, CatalogUnavailable,
              CatalogEnter, CatalogOpened, CatalogOpenFails, CatalogDone
<1>3. ASSUME NEW t \in Threads, DisconnectStep(t) PROVE StatesKept
  BY <1>3 DEF DisconnectStep, DisconnectRemove, DisconnectClearConnStr,
              DisconnectActive, DisconnectRollback, DisconnectCatalog,
              DisconnectDB
<1>4. ASSUME NEW w \in Workers, NEW id \in Ids, WorkerStart(w, id)
      PROVE  StatesKept
  BY <1>4 DEF WorkerStart, ConnectRegister, MetadataStart, RefreshStart,
              NewSession
<1>5. CASE UIStep
  BY <1>5 DEF UIStep, BeginTxSet, EndTxClear, CachedDBInfoRead
<1>6. CASE ExitStep
  BY <1>6 DEF ExitStep, ExitDone, ExitDisconnect
<1>7. CASE UIStart
  BY <1>7 DEF UIStart, SetActiveSession, DisconnectCommand, EndTx, CachedDBInfo,
              BeginTx, Exit, UIIdle
<1>8. CASE Exited
  BY <1>8 DEF Exited, vars
<1>9. QED BY <1>1, <1>2, <1>3, <1>4, <1>5, <1>6, <1>7, <1>8 DEF Next

(* A cancel function belongs to a statement in flight on that Session.     *)
Held ==
    \A r \in Runners : \A o \in Objs :
        exe[o].cancel = r => run[r].pc \in InFlightPCs /\ run[r].obj = o

(* A call only ever holds a Session that was handed out.                   *)
Used ==
    \A r \in Runners :
        run[r].obj \in Objs => ses[run[r].obj].state # "UNUSED"

(* The part of the inductive invariant that needs no gate in the UI.       *)
XInv == XType /\ Shapes /\ Held /\ Used /\ NoStuckExecuting

(* The steps the executor shares with the registry are steps of it.        *)
LEMMA SessionMoves ==
  ASSUME \/ SessionStep
         \/ \E t \in Threads : DisconnectCapture(t) \/ DisconnectCancel(t)
  PROVE  Next
BY DEF SessionStep, Next, WorkerStart, UICommand, DisconnectRest,
       DisconnectCapture, DisconnectCancel, DisconnectStep, UIStep, UIStart

(* Those steps keep the invariant, whatever they cancel.                   *)
LEMMA SharedStep ==
  ASSUME Base, XInv, Next, run' \in [Runners -> Run],
         exe' = exe, capturedCancel' \in [Threads -> Runners \union {NoRunner}],
         \A r \in Runners : /\ SoftCancel(run[r], run'[r])
                            /\ run[r].ctx # "live" => run'[r] = run[r]
  PROVE  Base' /\ XInv'
<1>1. Base' /\ StatesKept
  BY BaseNext, StatesStep DEF Base
<1>2. XType'
  BY DEF XInv, XType
<1>3. \A r \in Runners : Shape(run'[r])
  <2>1. TAKE r \in Runners
  <2>2. PICK v \in Run : v = run[r] /\ Shape(v)
    BY DEF XInv, XType, Shapes
  <2>3. PICK w \in Run : w = run'[r] /\ SoftCancel(v, w)
    BY <2>2
  <2>4. v.pc = "idle" => w = v
    BY <2>2, <2>3 DEF Shape, NoRun
  <2>5. QED BY <2>2, <2>3, <2>4, SoftShape
<1>4. Shapes' /\ Held' /\ Used'
  BY <1>1, <1>3
     DEF XInv, Shapes, Held, Used, SoftCancel, StatesKept, Shape
<1>5. NoStuckExecuting'
  BY <1>1 DEF XInv, NoStuckExecuting, SoftCancel, StatesKept
<1>6. QED BY <1>1, <1>2, <1>4, <1>5 DEF XInv

(* So does CancelExecution (manager.go:328-341),                           *)
LEMMA CancelStep ==
  ASSUME Base, XInv, CancelExecution
  PROVE  Base' /\ XInv'
<1>1. Base'
  BY BaseNext DEF CancelExecution
<1>2. /\ exe' \in [Objs -> Execution]
      /\ \A p \in Objs : exe'[p].cancel = exe[p].cancel
  BY CancelExe DEF XInv
<1>3. /\ run' \in [Runners -> Run]
      /\ \A r \in Runners : CancelEffect(run[r], run'[r], Reach(r))
  BY CancelRuns DEF XInv
<1>4. XType'
  BY <1>2, <1>3 DEF XInv, XType, CancelExecution
<1>5. \A r \in Runners : Shape(run'[r])
  <2>1. TAKE r \in Runners
  <2>2. PICK v \in Run : v = run[r] /\ Shape(v)
    BY DEF XInv, XType, Shapes
  <2>3. PICK w \in Run : w = run'[r] /\ SoftCancel(v, w)
    BY <1>3, <2>2 DEF CancelEffect
  <2>4. v.pc = "idle" => w = v
    <3>1. HAVE v.pc = "idle"
    <3>2. exe[Active].cancel # r
      BY <2>2, <3>1, CancelExe DEF XInv, Held, InFlightPCs
    <3>3. Reach(r) = "no"
      BY <2>2, <3>1, <3>2 DEF Reach, ScriptOf
    <3>4. QED BY <1>3, <2>2, <2>3, <3>3 DEF CancelEffect
  <2>5. QED BY <2>2, <2>3, <2>4, SoftShape
<1>6. /\ UNCHANGED ses
      /\ \A r \in Runners : run'[r].pc = run[r].pc /\ run'[r].obj = run[r].obj
  BY <1>3 DEF CancelExecution, vars, CancelEffect, SoftCancel
<1>7. Shapes' /\ Held' /\ Used' /\ NoStuckExecuting'
  BY <1>2, <1>5, <1>6 DEF XInv, Shapes, Held, Used, Shape, NoStuckExecuting
<1>8. QED BY <1>1, <1>4, <1>7 DEF XInv

(* so does a step of a call that touches no Session,                       *)
LEMMA QuietStep ==
  ASSUME Base, XInv, NEW r \in Runners,
         \/ RunnerStep(r) \/ DriverEnd(r) \/ Timeout(r)
         \/ StartStatement(r) \/ StartScript(r),
         ~EnterExecuting(r), ~LeaveExecuting(r)
  PROVE  Base' /\ XInv'
<1>1. UNCHANGED vars /\ UNCHANGED capturedCancel
  BY DEF RunnerStep, DriverEnd, Timeout, StartStatement, StartScript,
         ScriptReset, ScriptCheck, Lookup, ReadTx, DriverStart, Outcome, After
<1>2. /\ exe' \in [Objs -> Execution]
      /\ \A p \in Objs : exe'[p].cancel = exe[p].cancel
  <2>1. CASE ScriptReset(r)
    BY <2>1, ResetExe DEF XInv
  <2>2. CASE ~ScriptReset(r)
    BY <2>2 DEF RunnerStep, DriverEnd, Timeout, StartStatement, StartScript,
         ScriptCheck, Lookup, ReadTx, DriverStart, Outcome, After, XInv, XType
  <2>3. QED BY <2>1, <2>2
<1>3. Shapes' /\ Only(r) /\ Moves(run[r], run'[r])
  BY RunnerShape, RunnerMoves DEF XInv
<1>4. run[r].pc # "leave"
  BY DEF RunnerStep, DriverEnd, Timeout, StartStatement, StartScript, Idle,
         ScriptCheck, Lookup, ReadTx, DriverStart, Outcome, After, ScriptReset
<1>5. Base' /\ XType'
  BY <1>1, <1>2, <1>3, BaseNext DEF XInv, XType, Only
<1>6. Held'
  BY <1>2, <1>3, <1>4 DEF XInv, Held, Only, Moves
<1>7. Used' /\ UNCHANGED ses
  BY <1>1, <1>3
     DEF XInv, Used, Only, Moves, vars, Base, Objects, Live, TInv, TypeOK
<1>8. NoStuckExecuting'
  BY <1>3, <1>4, <1>7 DEF XInv, NoStuckExecuting, Only, Moves
<1>9. QED BY <1>3, <1>5, <1>6, <1>7, <1>8 DEF XInv

(* so does the way into a statement (executor.go:45-51)                    *)
LEMMA EnterStep ==
  ASSUME Base, XInv, NEW r \in Runners, EnterExecuting(r)
  PROVE  Base' /\ XInv'
<1>1. Shapes' /\ Only(r)
  BY RunnerShape DEF XInv, RunnerStep
<1>2. PICK o \in Objs : o = run[r].obj /\ ses[o].state # "UNUSED"
  BY DEF EnterExecuting, XInv, Shapes, Shape, Used
<1>3. /\ SetSession(o, [ses[o] EXCEPT !.state = "EXECUTING"])
      /\ UNCHANGED <<registry, catalogMu, txOpen, calls, exit>>
      /\ UNCHANGED capturedCancel
  BY <1>2 DEF EnterExecuting
<1>4. Base'
  BY <1>2, <1>3, StateOnly DEF States
<1>5. SetCancel(o, r)
  BY <1>2, EnterExe DEF XInv
<1>6. run'[r].pc = "readTx" /\ run'[r].obj = o
  BY <1>2, EnterFields DEF XInv
<1>7. XType'
  BY <1>1, <1>3, <1>5 DEF XInv, XType, SetCancel, Only
<1>8. Held'
  <2>1. run[r].pc \notin InFlightPCs
    BY DEF EnterExecuting, InFlightPCs
  <2>2. "readTx" \in InFlightPCs
    BY DEF InFlightPCs
  <2>3. QED BY <1>1, <1>5, <1>6, <2>1, <2>2 DEF XInv, Held, SetCancel, Only
<1>9. ses'[o].state = "EXECUTING" /\ \A p \in Objs \ {o} : ses'[p] = ses[p]
  BY <1>3 DEF SetSession, Base, TInv, TypeOK, Session
<1>10. Used'
  BY <1>1, <1>6, <1>9 DEF XInv, Used, Only
<1>11. run[r].pc \notin InFlightPCs
  BY DEF EnterExecuting, InFlightPCs
<1>12. NoStuckExecuting'
  BY <1>1, <1>6, <1>9, <1>11 DEF XInv, NoStuckExecuting, Only, InFlightPCs
<1>13. QED BY <1>1, <1>4, <1>7, <1>8, <1>10, <1>12 DEF XInv

(* and the way out (executor.go:52-59).                                    *)
LEMMA LeaveStep ==
  ASSUME Base, XInv, NEW r \in Runners, LeaveExecuting(r)
  PROVE  Base' /\ XInv'
<1>1. Shapes' /\ Only(r)
  BY RunnerShape DEF XInv, RunnerStep
<1>2. PICK o \in Objs : o = run[r].obj /\ ses[o].state # "UNUSED"
  BY DEF LeaveExecuting, XInv, Shapes, Shape, Used, InFlightPCs
<1>3. PICK x \in States \ {"UNUSED"} :
         x = IF ses[o].state = "EXECUTING" THEN "CONNECTED" ELSE ses[o].state
  BY <1>2 DEF States, Base, TInv, TypeOK, Session
<1>4. /\ SetSession(o, [ses[o] EXCEPT !.state = x])
      /\ UNCHANGED <<registry, catalogMu, txOpen, calls, exit>>
      /\ capturedCancel' \in [Threads -> Runners \union {NoRunner}]
  BY <1>2, <1>3 DEF LeaveExecuting, XInv, XType
<1>5. Base'
  BY <1>2, <1>4, StateOnly
<1>6. SetCancel(o, NoRunner)
  BY <1>2, LeaveExe DEF XInv
<1>7. run[r].pc = "leave" /\ run'[r].pc = "after" /\ run'[r].obj = o
  BY <1>2, LeaveFields DEF XInv
<1>8. XType'
  BY <1>1, <1>4, <1>6 DEF XInv, XType, SetCancel, Only
<1>9. Held'
  BY <1>1, <1>2, <1>6, <1>7, RunnerAssumption
     DEF XInv, Held, SetCancel, Only, InFlightPCs
<1>10. ses'[o].state = x /\ \A p \in Objs \ {o} : ses'[p] = ses[p]
  BY <1>4 DEF SetSession, Base, TInv, TypeOK, Session
<1>11. Used'
  BY <1>1, <1>7, <1>10 DEF XInv, Used, Only
<1>12. x # "EXECUTING"
  BY <1>3
<1>13. NoStuckExecuting'
  BY <1>1, <1>2, <1>7, <1>10, <1>12 DEF XInv, NoStuckExecuting, Only
<1>14. QED BY <1>1, <1>5, <1>8, <1>9, <1>11, <1>13 DEF XInv

(* It holds at the start,                                                  *)
LEMMA InitX == ExecInit => Base /\ XInv
<1> SUFFICES ASSUME ExecInit PROVE Base /\ XInv
  OBVIOUS
<1> USE ConstantsAssumption, RunnerAssumption
<1>1. Init
  BY DEF ExecInit
<1>2. Base
  <2>1. TInv
    BY <1>1, InitTInv
  <2>2. Roles
    BY <1>1 DEF Init, Roles, ConnectPCs, CatalogPCs, UIPCs
  <2>3. Objects
    BY <1>1 DEF Init, Objects, Registered, Live
  <2>4. Claims
    BY <1>1 DEF Init, Claims, ClaimPCs, ConnectPCs
  <2>5. QED BY <2>1, <2>2, <2>3, <2>4 DEF Base
<1>3. NoExecution \in Execution /\ NoExecution.cancel = NoRunner
  BY DEF NoExecution, Execution
<1>4. XType
  BY <1>3, NoRunType DEF ExecInit, XType
<1>5. Shapes
  BY IdleShape DEF ExecInit, Shapes
<1>6. NoRun.obj = NoObj
  BY DEF NoRun
<1>7. Held /\ Used
  BY <1>3, <1>6 DEF ExecInit, Held, Used
<1>8. NoStuckExecuting
  <2>1. \A o \in Objs : ses[o].state = "UNUSED"
    BY <1>1 DEF Init, NewSession
  <2>2. QED BY <2>1 DEF NoStuckExecuting
<1>9. QED BY <1>2, <1>4, <1>5, <1>7, <1>8 DEF XInv

(* and every step of the executor keeps it.                                *)
LEMMA NextX == Base /\ XInv /\ [ExecNext]_evars => Base' /\ XInv'
<1> SUFFICES ASSUME Base, XInv, [ExecNext]_evars PROVE Base' /\ XInv'
  OBVIOUS
<1>1. CASE SessionStep /\ UNCHANGED xvars
  <2>1. /\ run' \in [Runners -> Run] /\ UNCHANGED <<run, exe>>
        /\ capturedCancel' \in [Threads -> Runners \union {NoRunner}]
    BY <1>1 DEF xvars, XInv, XType
  <2>2. \A r \in Runners : SoftCancel(run[r], run'[r]) /\ run'[r] = run[r]
    BY <2>1 DEF SoftCancel, SameCall
  <2>3. QED BY <1>1, <2>1, <2>2, SessionMoves, SharedStep
<1>2. ASSUME NEW t \in Threads, DisconnectCapture(t)
      PROVE  Base' /\ XInv'
  <2>1. /\ run' \in [Runners -> Run] /\ UNCHANGED <<run, exe>>
        /\ capturedCancel' \in [Threads -> Runners \union {NoRunner}]
    <3>1. UNCHANGED <<run, exe>>
      BY <1>2 DEF DisconnectCapture
    <3>2. Registered(cid[t]) =>
            exe[sessions[cid[t]]].cancel \in Runners \union {NoRunner}
      BY <1>2 DEF DisconnectCapture, DisconnectRemove, Registered, Base, TInv,
         TypeOK, CallOK, NoCallPCs, XInv, XType, Execution
    <3>3. QED BY <1>2, <3>1, <3>2 DEF DisconnectCapture, XInv, XType
  <2>2. \A r \in Runners : SoftCancel(run[r], run'[r]) /\ run'[r] = run[r]
    BY <2>1 DEF SoftCancel, SameCall
  <2>3. QED BY <1>2, <2>1, <2>2, SessionMoves, SharedStep
<1>3. ASSUME NEW t \in Threads, DisconnectCancel(t)
      PROVE  Base' /\ XInv'
  <2>1. /\ exe' = exe
        /\ capturedCancel' \in [Threads -> Runners \union {NoRunner}]
    BY <1>3 DEF DisconnectCancel, XInv, XType
  <2>2. QED BY <1>3, <2>1, DisconnectRuns, SessionMoves, SharedStep DEF XInv
<1>4. ASSUME NEW r \in Runners,
             \/ RunnerStep(r) \/ DriverEnd(r) \/ Timeout(r)
             \/ StartStatement(r) \/ StartScript(r)
      PROVE  Base' /\ XInv'
  BY <1>4, QuietStep, EnterStep, LeaveStep
<1>5. CASE CancelExecution
  BY <1>5, CancelStep
<1>6. CASE UNCHANGED evars
  <2>1. Base'
    BY <1>6, BaseNext DEF evars, vars
  <2>2. XInv'
    BY <1>6 DEF evars, vars, XInv, XType, Shapes, Shape, Held, Used,
                NoStuckExecuting
  <2>3. QED BY <2>1, <2>2
<1>7. CASE ExecExited
  BY <1>6, <1>7 DEF ExecExited, Exited, xvars, vars, evars
<1>8. QED BY <1>1, <1>2, <1>3, <1>4, <1>5, <1>6, <1>7 DEF ExecNext

(* Whatever the user does and whoever is interrupted, every variable of    *)
(* the executor keeps its type (executor.go, manager.go).                  *)
THEOREM ExecutorTypeInvariant == ExecSpec => []ExecTypeOK
<1>1. ExecSpec => [](Base /\ XInv)
  BY InitX, NextX, PTL DEF ExecSpec
<1>2. Base /\ XInv => ExecTypeOK
  BY DEF Base, TInv, XInv, XType, ExecTypeOK
<1>3. QED BY <1>1, <1>2, PTL

(* A session says EXECUTING only while a statement is in flight on it      *)
(* (executor.go:48-59): no interleaving of statements, Connects,           *)
(* Disconnects and cancels leaves the state behind.                        *)
THEOREM NeverStuckExecuting == ExecSpec => []NoStuckExecuting
<1>1. ExecSpec => [](Base /\ XInv)
  BY InitX, NextX, PTL DEF ExecSpec
<1>2. XInv => NoStuckExecuting
  BY DEF XInv
<1>3. QED BY <1>1, <1>2, PTL

-----------------------------------------------------------------------------
(* Statements that overlap: no gate is assumed                             *)

(* Two statements in flight on one session know of each other,             *)
Met ==
    \A r \in Runners : \A q \in Runners \ {r} :
        InFlight(r) /\ InFlight(q) /\ run[q].obj = run[r].obj => crossed[r]

(* one that met none is what ExecCancel cancels,                           *)
Reached ==
    \A r \in Runners :
        InFlight(r) /\ ~crossed[r] => exe[run[r].obj].cancel = r

(* and the transaction a statement holds is one its session has had since. *)
TxSeen == \A r \in Runners : run[r].pc = "start" => run[r].tx \in txSince[r]

OverlapInv == Met /\ Reached /\ TxSeen

(* What a step that neither enters nor leaves a statement does to it.      *)
StaysIn(v, w) ==
    /\ w.pc \in InFlightPCs => v.pc \in InFlightPCs /\ w.obj = v.obj
    /\ w.pc = "start" => \/ v.pc = "start" /\ w.tx = v.tx
                         \/ w.tx = ses'[w.obj].tx
    /\ v.pc = "start" /\ w.pc = "driver" => ~Refused(v) /\ w.tx = v.tx

(* No cancel function is stored or cleared, and no statement enters.       *)
NoEntry ==
    /\ \A o \in Objs : exe'[o].cancel = exe[o].cancel
    /\ \A r \in Runners : StaysIn(run[r], run'[r])

(* A cancel is such a step for every statement (manager.go:211-213,        *)
(* 328-341),                                                               *)
LEMMA SoftStays ==
  ASSUME NEW v, NEW w, SoftCancel(v, w)
  PROVE  StaysIn(v, w)
BY DEF SoftCancel, StaysIn

(* a call that does not move takes part in none,                           *)
LEMMA SameStays ==
  ASSUME NEW v
  PROVE  StaysIn(v, v)
BY DEF StaysIn

(* and so is every other step of a call than the two that store and clear  *)
(* ExecCancel (executor.go:22-135, 180-232).                               *)
LEMMA CallStays ==
  ASSUME Base, XInv, NEW r \in Runners,
         \/ RunnerStep(r) \/ DriverEnd(r) \/ Timeout(r)
         \/ StartStatement(r) \/ StartScript(r),
         ~EnterExecuting(r), ~LeaveExecuting(r)
  PROVE  NoEntry
<1>0. PICK v \in Run : v = run[r] /\ Shape(v)
  BY DEF XInv, XType, Shapes
<1>1. \A o \in Objs : exe'[o].cancel = exe[o].cancel
  <2>1. CASE ScriptReset(r)
    BY <2>1, ResetExe DEF XInv
  <2>2. CASE ~ScriptReset(r)
    <3>1. exe' = exe
      <4>1. CASE RunnerStep(r)
        BY <2>2, <4>1 DEF RunnerStep, ScriptCheck, Lookup, ReadTx, DriverStart,
                          Outcome, After
      <4>2. CASE DriverEnd(r) \/ Timeout(r)
        BY <4>2 DEF DriverEnd, Timeout
      <4>3. CASE StartStatement(r)
        BY <4>3 DEF StartStatement
      <4>4. CASE StartScript(r)
        <5>1. UNCHANGED <<vars, exe, capturedCancel>>
          BY <4>4, Zenon DEF StartScript
        <5>2. QED BY <5>1
      <4>5. QED BY <4>1, <4>2, <4>3, <4>4
    <3>2. QED BY <3>1
  <2>3. QED BY <2>1, <2>2
<1>2. Only(r)
  BY RunnerShape DEF XInv
<1> DEFINE w == run'[r]
<1> HIDE DEF w
<1>3. StaysIn(v, w)
  <2>1. CASE ScriptReset(r)
    <3>1. w.pc = "check"
      BY <2>1, ScriptResetFields DEF XInv, w
    <3>2. QED BY <3>1 DEF StaysIn, InFlightPCs
  <2>2. CASE ScriptCheck(r)
    <3>1. w.pc \in {"idle", "lookup"}
      BY <1>0, <2>2, ScriptCheckFields DEF XInv, w, NoRun
    <3>2. QED BY <3>1 DEF StaysIn, InFlightPCs
  <2>3. CASE Lookup(r)
    <3>1. v.id \in Ids
      BY <1>0, <2>3 DEF Lookup, Shape
    <3>2. w.pc \in {"enter", "after"}
      BY <1>0, <2>3, <3>1, LookupFields DEF XInv, w
    <3>3. QED BY <3>2 DEF StaysIn, InFlightPCs
  <2>4. CASE ReadTx(r)
    <3>1. v.obj \in Objs
      BY <1>0, <2>4 DEF ReadTx, Shape, InFlightPCs
    <3>2. /\ v.pc = "readTx" /\ w.pc = "start" /\ w.obj = v.obj
          /\ w.tx = ses[v.obj].tx
      BY <1>0, <2>4, <3>1, ReadTxFields DEF XInv, w
    <3>3. ses' = ses
      BY <2>4 DEF ReadTx, vars
    <3>4. QED BY <3>2, <3>3 DEF StaysIn, InFlightPCs
  <2>5. CASE DriverStart(r)
    <3>1. /\ v.pc = "start" /\ w.tx = v.tx /\ w.obj = v.obj
          /\ w.pc = IF Refused(v) THEN "done" ELSE "driver"
      BY <1>0, <2>5, DriverStartFields DEF XInv, w
    <3>2. QED BY <3>1 DEF StaysIn, InFlightPCs
  <2>6. CASE Outcome(r)
    <3>1. v.out # "none"
      BY <1>0, <2>6 DEF Outcome, Shape
    <3>2. v.pc = "done" /\ w.pc = "leave" /\ w.obj = v.obj
      BY <1>0, <2>6, <3>1, OutcomeFields DEF XInv, w
    <3>3. QED BY <3>2 DEF StaysIn, InFlightPCs
  <2>7. CASE After(r)
    <3>1. v.left # 0
      BY <1>0, <2>7 DEF After, Shape
    <3>2. w.pc \in {"idle", "check"}
      BY <1>0, <2>7, <3>1, AfterFields DEF XInv, w, NoRun
    <3>3. QED BY <3>2 DEF StaysIn, InFlightPCs
  <2>8. CASE DriverEnd(r)
    <3>1. v.pc = "driver" /\ w.pc = "done" /\ w.obj = v.obj
      BY <1>0, <2>8, DriverEndFields DEF XInv, w
    <3>2. QED BY <3>1 DEF StaysIn, InFlightPCs
  <2>9. CASE Timeout(r)
    <3>1. w.pc = v.pc /\ w.obj = v.obj /\ w.tx = v.tx
      BY <1>0, <2>9, TimeoutFields DEF XInv, w
    <3>2. QED BY <3>1 DEF StaysIn
  <2>10. CASE StartStatement(r) \/ StartScript(r)
    <3>1. w.pc \in {"reset", "lookup"}
      BY <2>10, StartFields DEF XInv, w
    <3>2. QED BY <3>1 DEF StaysIn, InFlightPCs
  <2>11. QED
    BY <2>1, <2>2, <2>3, <2>4, <2>5, <2>6, <2>7, <2>8, <2>9, <2>10
       DEF RunnerStep
<1>4. \A s \in Runners : StaysIn(run[s], run'[s])
  BY <1>0, <1>2, <1>3, SameStays DEF Only, w
<1>5. QED BY <1>1, <1>4 DEF NoEntry

(* So a step of the executor enters a statement, leaves one or does        *)
(* neither.                                                                *)
LEMMA StepKinds ==
  ASSUME Base, XInv, [ExecNext]_evars
  PROVE  \/ NoEntry
         \/ \E r \in Runners : EnterExecuting(r) \/ LeaveExecuting(r)
<1>0. UNCHANGED <<run, exe>> => NoEntry
  BY SameStays DEF NoEntry
<1>1. CASE SessionStep /\ UNCHANGED xvars
  BY <1>0, <1>1 DEF xvars
<1>2. CASE \E t \in Threads : DisconnectCapture(t)
  BY <1>0, <1>2 DEF DisconnectCapture
<1>3. ASSUME NEW t \in Threads, DisconnectCancel(t) PROVE NoEntry
  <2>1. exe' = exe /\ \A r \in Runners : SoftCancel(run[r], run'[r])
    BY <1>3, DisconnectRuns DEF XInv, DisconnectCancel
  <2>2. QED BY <2>1, SoftStays DEF NoEntry
<1>4. ASSUME NEW r \in Runners,
             \/ RunnerStep(r) \/ DriverEnd(r) \/ Timeout(r)
             \/ StartStatement(r) \/ StartScript(r)
      PROVE  NoEntry \/ EnterExecuting(r) \/ LeaveExecuting(r)
  BY <1>4, CallStays
<1>5. CASE CancelExecution
  <2>1. \A o \in Objs : exe'[o].cancel = exe[o].cancel
    BY <1>5, CancelExe DEF XInv
  <2>2. \A r \in Runners : SoftCancel(run[r], run'[r])
    BY <1>5, CancelRuns DEF XInv, CancelEffect
  <2>3. QED BY <2>1, <2>2, SoftStays DEF NoEntry
<1>6. CASE UNCHANGED evars \/ ExecExited
  BY <1>0, <1>6 DEF evars, ExecExited, xvars
<1>7. QED BY <1>1, <1>2, <1>3, <1>4, <1>5, <1>6 DEF ExecNext

(* Two statements that are in flight on one session after a step are       *)
(* recorded as such.                                                       *)
LEMMA MetNext == ASSUME RecordCrossed PROVE Met'
BY DEF RecordCrossed, Met, Overlaps, InFlight

(* A statement that has met no other keeps its cancel function: to clear   *)
(* it, another one must leave the same session (executor.go:45-59).        *)
LEMMA ReachedNext ==
  ASSUME Base, XInv, Met, Reached, [ExecNext]_evars, RecordCrossed
  PROVE  Reached'
<1> SUFFICES ASSUME NEW s \in Runners, InFlight(s)', ~crossed'[s]
             PROVE  exe'[run'[s].obj].cancel = s
  BY DEF Reached
<1>1. ~crossed[s] /\ ~Overlaps(s)'
  BY DEF RecordCrossed
<1>2. Shapes /\ XType
  BY DEF XInv
<1>3. CASE NoEntry
  <2>1. InFlight(s) /\ run'[s].obj = run[s].obj /\ run[s].obj \in Objs
    BY <1>2, <1>3 DEF NoEntry, StaysIn, InFlight, Shapes, Shape
  <2>2. QED BY <1>1, <1>3, <2>1 DEF Reached, NoEntry
<1>4. ASSUME NEW r \in Runners, EnterExecuting(r)
      PROVE  exe'[run'[s].obj].cancel = s
  <2>0. Only(r)
    BY <1>2, <1>4, RunnerShape DEF RunnerStep
  <2>1. run[r].obj \in Objs /\ Only(r)
    BY <1>2, <1>4, <2>0 DEF EnterExecuting, Shapes, Shape
  <2>2. run'[r].pc = "readTx" /\ run'[r].obj = run[r].obj
    BY <1>2, <1>4, EnterFields
  <2>3. SetCancel(run[r].obj, r)
    BY <1>2, <1>4, <2>1, EnterExe
  <2>4. CASE s = r
    BY <2>2, <2>3, <2>4 DEF SetCancel
  <2>5. CASE s # r
    <3>1. run'[s] = run[s] /\ InFlight(s) /\ InFlight(r)'
      BY <2>1, <2>2, <2>5 DEF Only, InFlight, InFlightPCs
    <3>2. run[s].obj # run[r].obj /\ run[s].obj \in Objs
      BY <1>1, <1>2, <2>2, <2>5, <3>1 DEF Overlaps, InFlight, Shapes, Shape
    <3>3. QED BY <1>1, <2>3, <3>1, <3>2 DEF Reached, SetCancel
  <2>6. QED BY <2>4, <2>5
<1>5. ASSUME NEW r \in Runners, LeaveExecuting(r)
      PROVE  exe'[run'[s].obj].cancel = s
  <2>0. Only(r)
    BY <1>2, <1>5, RunnerShape DEF RunnerStep
  <2>1. run[r].obj \in Objs /\ Only(r)
    BY <1>2, <1>5, <2>0 DEF LeaveExecuting, Shapes, Shape, InFlightPCs
  <2>2. run[r].pc = "leave" /\ run'[r].pc = "after"
    BY <1>2, <1>5, LeaveFields
  <2>3. SetCancel(run[r].obj, NoRunner)
    BY <1>2, <1>5, <2>1, LeaveExe
  <2>4. s # r /\ run'[s] = run[s] /\ InFlight(s) /\ InFlight(r)
    BY <2>1, <2>2 DEF Only, InFlight, InFlightPCs
  <2>5. run[s].obj # run[r].obj /\ run[s].obj \in Objs
    BY <1>1, <1>2, <2>4 DEF Met, InFlight, Shapes, Shape
  <2>6. QED BY <1>1, <2>3, <2>4, <2>5 DEF Reached, SetCancel
<1>6. QED BY <1>3, <1>4, <1>5, StepKinds

(* A statement reads the transaction its session has then, and keeps it    *)
(* until it is handed over (executor.go:61-69).                            *)
LEMMA SeenNext ==
  ASSUME Base, XInv, TxSeen, [ExecNext]_evars, RecordTx
  PROVE  TxSeen'
<1> SUFFICES ASSUME NEW s \in Runners, run'[s].pc = "start"
             PROVE  run'[s].tx \in txSince'[s]
  BY DEF TxSeen
<1>1. txSince'[s] = txSince[s] \union {ses'[run'[s].obj].tx}
  BY DEF RecordTx, Approaching
<1>2. CASE NoEntry
  BY <1>1, <1>2 DEF NoEntry, StaysIn, TxSeen
<1>3. ASSUME NEW r \in Runners, EnterExecuting(r) \/ LeaveExecuting(r)
      PROVE  run'[s].tx \in txSince'[s]
  <2>1. Only(r)
    BY <1>3, RunnerShape DEF XInv, RunnerStep
  <2>2. run'[r].pc \in {"readTx", "after"}
    BY <1>3, EnterFields, LeaveFields DEF XInv
  <2>3. run'[s] = run[s]
    BY <2>1, <2>2 DEF Only
  <2>4. QED BY <1>1, <2>3 DEF TxSeen
<1>4. QED BY <1>2, <1>3, StepKinds

(* The invariant of overlapping statements, for any number of runners.     *)
LEMMA OverlapInvariant == OverlapSpec => [](Base /\ XInv /\ OverlapInv)
<1>1. OverlapInit => Base /\ XInv /\ OverlapInv
  <2> SUFFICES ASSUME OverlapInit PROVE Base /\ XInv /\ OverlapInv
    OBVIOUS
  <2>1. Base /\ XInv
    BY InitX DEF OverlapInit
  <2>2. \A r \in Runners : run[r].pc = "idle"
    BY DEF OverlapInit, ExecInit, NoRun
  <2>3. OverlapInv
    BY <2>2 DEF OverlapInv, Met, Reached, TxSeen, InFlight, InFlightPCs
  <2>4. QED BY <2>1, <2>3
<1>2. Base /\ XInv /\ OverlapInv /\ [OverlapNext]_ovars => (Base /\ XInv /\ OverlapInv)'
  <2> SUFFICES ASSUME Base, XInv, OverlapInv, [OverlapNext]_ovars
               PROVE  (Base /\ XInv /\ OverlapInv)'
    OBVIOUS
  <2>1. Base' /\ XInv'
    BY NextX DEF OverlapNext, ovars
  <2>2. CASE OverlapNext
    BY <2>1, <2>2, MetNext, ReachedNext, SeenNext DEF OverlapNext, OverlapInv
  <2>3. CASE UNCHANGED ovars
    BY <2>1, <2>3 DEF ovars, evars, OverlapInv, Met, Reached, TxSeen, InFlight
  <2>4. QED BY <2>1, <2>2, <2>3 DEF OverlapInv
<1>3. QED BY <1>1, <1>2, PTL DEF OverlapSpec

(* Whatever runs next to it, a statement loses its cancel function only to *)
(* another one in flight on its session at the same time, and ExecCancel   *)
(* never holds that of a statement which is over (executor.go:45-59,       *)
(* manager.go:191-222, 328-341): for any number of goroutines, sessions    *)
(* and statements, with and without the UI's gate.                         *)
THEOREM CancelAlwaysReaches == OverlapSpec => []CancelReachesStatement
<1>1. Base /\ XInv /\ OverlapInv => CancelReachesStatement
  <2> SUFFICES ASSUME XInv, OverlapInv PROVE CancelReachesStatement
    OBVIOUS
  <2>1. ASSUME NEW o \in Objs, exe[o].cancel # NoRunner
        PROVE  InFlight(exe[o].cancel) /\ run[exe[o].cancel].obj = o
    <3>1. exe[o].cancel \in Runners
      BY <2>1 DEF XInv, XType, Execution
    <3>2. QED BY <3>1 DEF XInv, Held, InFlight
  <2>2. QED BY <2>1 DEF OverlapInv, Reached, CancelReachesStatement
<1>2. QED BY <1>1, OverlapInvariant, PTL

(* A statement is handed to the driver in a transaction its session has    *)
(* had since the statement found it, and in none that is over, whatever    *)
(* Begin, Commit and Rollback come in between (executor.go:61-69,          *)
(* manager.go:248-297): with and without the UI's gate.                    *)
THEOREM StatementsRunInTransaction == OverlapSpec => RunsInTransaction
<1>1. Base /\ XInv /\ OverlapInv /\ [OverlapNext]_ovars =>
        [\A r \in Runners : HandedOver(r) =>
            /\ run[r].tx \in txSince[r]
            /\ run[r].tx # NoTx => run[r].tx \in txOpen]_ovars
  <2> SUFFICES ASSUME Base, XInv, OverlapInv, OverlapNext,
                      NEW r \in Runners, HandedOver(r)
               PROVE  /\ run[r].tx \in txSince[r]
                      /\ run[r].tx # NoTx => run[r].tx \in txOpen
    OBVIOUS
  <2>1. run[r].tx \in txSince[r]
    BY DEF OverlapInv, TxSeen, HandedOver
  <2>2. CASE NoEntry
    BY <2>1, <2>2 DEF NoEntry, StaysIn, HandedOver, Refused
  <2>3. ASSUME NEW q \in Runners, EnterExecuting(q) \/ LeaveExecuting(q)
        PROVE  FALSE
    <3>1. Only(q)
      BY <2>3, RunnerShape DEF XInv, RunnerStep
    <3>2. run'[q].pc \in {"readTx", "after"}
      BY <2>3, EnterFields, LeaveFields DEF XInv
    <3>3. QED BY <3>1, <3>2 DEF Only, HandedOver
  <2>4. QED BY <2>1, <2>2, <2>3, StepKinds DEF OverlapNext
<1>2. QED BY <1>1, OverlapInvariant, PTL DEF OverlapSpec, RunsInTransaction

(* The sessions from both sides do, on each side, what that side's own     *)
(* specification says: the registry's (manager.go), or the statements'     *)
(* (executor.go).  So what is proved of either holds of the whole.         *)
THEOREM SessionsKeepParts ==
    SessionsSpec => \/ Spec
                    \/ OverlapSpec
<1>1. SessionsInit => /\ part \in {"calls", "statements"}
                      /\ Init /\ OverlapInit
  BY DEF SessionsInit, OverlapInit, ExecInit
<1>2. part = "calls" /\ [SessionsNext]_sessionsVars
        => (part = "calls")' /\ [Next]_vars
  BY DEF SessionsNext, InCalls, InStatements, sessionsVars, ovars, evars
<1>3. part = "statements" /\ [SessionsNext]_sessionsVars
        => (part = "statements")' /\ [OverlapNext]_ovars
  BY DEF SessionsNext, InCalls, InStatements, sessionsVars, ovars, evars
<1>4. SessionsInit => part = "calls" \/ part = "statements"
  BY <1>1
<1> QED
  BY <1>1, <1>2, <1>3, <1>4, PTL DEF SessionsSpec, Spec, OverlapSpec

-----------------------------------------------------------------------------
(* Behind the gate of the UI: one call at a time                           *)

(* The UI thread neither ends a transaction nor, while the window is       *)
(* open, disconnects.                                                      *)
Quiet ==
    /\ pc[UI] \notin {"txSet", "txClear"}
    /\ ~exiting => pc[UI] \notin DisconnectPCs

(* Nothing a running statement relies on changes: a registered session     *)
(* with a handle stays registered while the window is open, and no         *)
(* Session in use changes its transaction or loses its handle.             *)
Unmoved ==
    /\ exiting => exiting'
    /\ \A id \in Ids : Registered(id) \/ exiting =>
           sessions'[id] \in {sessions[id], NoObj}
    /\ \A id \in Ids :
           ~exiting' /\ Registered(id) /\ ses[sessions[id]].db # "none" =>
              sessions'[id] = sessions[id]
    /\ \A o \in Objs : ses[o].state # "UNUSED" =>
           /\ ses'[o].tx = ses[o].tx
           /\ ses[o].db # "none" => ses'[o].db # "none"

(* With the UI's gate that is so at every step of the registry while       *)
(* something executes (presenter.go:74-100): the only Disconnect then is   *)
(* that of a failed Connect, which takes out a session without a handle.   *)
LEMMA SessionKept ==
  ASSUME Base, Gated, Quiet, ~NoneExecuting,
         \/ SessionStep
         \/ \E t \in Threads : DisconnectCapture(t) \/ DisconnectCancel(t)
  PROVE  Unmoved /\ Quiet'
<1> USE ConstantsAssumption
    DEF TInv, CallOK, NoCallPCs, TypeOK, registry, resources, exit, calls,
        Enter, Goto, Return, SetSession, Session, Base, Quiet, DisconnectPCs
<1>1. ASSUME NEW w \in Workers, ConnectStep(w) PROVE Unmoved /\ Quiet'
  <2>1. CASE DialFails(w)
    BY <2>1 DEF DialFails, Unmoved
  <2>2. CASE ConnectError(w)
    <3>1. \A o \in Objs : \/ ses'[o] = ses[o]
                          \/ ses'[o] = [ses[o] EXCEPT !.state = "ERROR"]
      BY <2>2 DEF ConnectError
    <3>2. UNCHANGED <<sessions, exiting>>
      BY <2>2 DEF ConnectError
    <3>3. Quiet'
      BY <2>2 DEF ConnectError
    <3>4. Unmoved
      BY <3>1, <3>2 DEF Unmoved
    <3>5. QED BY <3>3, <3>4
  <2>3. CASE ConnectPublish(w)
    <3>1. UNCHANGED <<sessions, exiting>>
      BY <2>3 DEF ConnectPublish
    <3>2. PICK s : s = [ses[cobj[w]] EXCEPT !.db = "open", !.connStr = TRUE,
                                            !.state = "CONNECTED"]
      OBVIOUS
    <3>3. SetSession(cobj[w], s) /\ cobj[w] \in Objs
      BY <2>3, <3>2 DEF ConnectPublish
    <3>4. s.tx = ses[cobj[w]].tx /\ s.db = "open"
      BY <3>2, <3>3
    <3>5. \A o \in Objs : \/ ses'[o] = ses[o]
                          \/ ses'[o].tx = ses[o].tx /\ ses'[o].db = "open"
      BY <3>3, <3>4
    <3>6. Unmoved
      BY <3>1, <3>5 DEF Unmoved
    <3>7. Quiet'
      BY <2>3 DEF ConnectPublish
    <3>8. QED BY <3>6, <3>7
  <2>4. QED BY <1>1, <2>1, <2>2, <2>3 DEF ConnectStep
<1>2. ASSUME NEW w \in Workers, NEW id \in Ids, ConnectRegister(w, id)
      PROVE  Unmoved /\ Quiet'
  <2>1. Quiet'
    BY <1>2 DEF ConnectRegister
  <2>2. PICK o \in Objs : /\ ses[o].state = "UNUSED"
                          /\ SetSession(o, NewSession)
                          /\ sessions' = [sessions EXCEPT ![id] = o]
    BY <1>2 DEF ConnectRegister
  <2>3. ~exiting /\ ~exiting' /\ ~Registered(id)
    BY <1>2 DEF ConnectRegister
  <2>4. Unmoved
    BY <2>2, <2>3 DEF Unmoved, Registered
  <2>5. QED BY <2>1, <2>4
<1>3. ASSUME NEW t \in Threads, DisconnectRest(t) PROVE Unmoved /\ Quiet'
  <2>1. UNCHANGED <<sessions, exiting>>
    BY <1>3 DEF DisconnectRest, DisconnectClearConnStr, DisconnectActive,
                DisconnectCatalog, DisconnectDB
  <2>2. \A o \in Objs : /\ ses'[o].tx = ses[o].tx
                        /\ ses[o].db # "none" => ses'[o].db # "none"
    <3>1. CASE DisconnectClearConnStr(t)
      BY <3>1 DEF DisconnectClearConnStr
    <3>2. CASE DisconnectActive(t)
      BY <3>2 DEF DisconnectActive
    <3>3. CASE DisconnectCatalog(t)
      BY <3>3 DEF DisconnectCatalog
    <3>4. CASE DisconnectDB(t)
      <4>1. PICK d \in {"none", "open", "closed"} : d = Closed(ses[cobj[t]].db)
        BY <3>4 DEF DisconnectDB, Closed
      <4>2. /\ SetSession(cobj[t], [ses[cobj[t]] EXCEPT !.db = d])
            /\ cobj[t] \in Objs
        BY <3>4, <4>1 DEF DisconnectDB
      <4>3. ses[cobj[t]].db # "none" => d # "none"
        BY <4>1 DEF Closed
      <4>4. QED BY <4>2, <4>3
    <3>5. QED BY <1>3, <3>1, <3>2, <3>3, <3>4 DEF DisconnectRest
  <2>3. Quiet'
    BY <1>3 DEF DisconnectRest, DisconnectClearConnStr, DisconnectActive,
                DisconnectCatalog, DisconnectDB
  <2>4. QED BY <2>1, <2>2, <2>3 DEF Unmoved
<1>4. CASE UICommand
  BY <1>4 DEF UICommand, GateIdle, Exit, SetActiveSession, Unmoved, UIIdle
<1>5. CASE BeginTxSet \/ EndTxClear
  BY <1>5 DEF BeginTxSet, EndTxClear
<1>6. CASE ExitStep
  BY <1>6 DEF ExitStep, ExitDone, ExitDisconnect, Roles, Unmoved
<1>7. ASSUME NEW t \in Threads, DisconnectCapture(t) PROVE Unmoved /\ Quiet'
  <2>1. DisconnectRemove(t)
    BY <1>7 DEF DisconnectCapture
  <2>2. Quiet'
    BY <2>1 DEF DisconnectRemove
  <2>3. ~exiting /\ Registered(cid[t]) => ses[sessions[cid[t]]].db = "none"
    BY <2>1 DEF DisconnectRemove, Claims, ClaimPCs
  <2>4. /\ UNCHANGED <<ses, exiting>>
        /\ \A id \in Ids \ {cid[t]} : sessions'[id] = sessions[id]
        /\ cid[t] \in Ids => sessions'[cid[t]] \in {sessions[cid[t]], NoObj}
    BY <2>1 DEF DisconnectRemove
  <2>5. Unmoved
    BY <2>3, <2>4 DEF Unmoved
  <2>6. QED BY <2>2, <2>5
<1>8. ASSUME NEW t \in Threads, DisconnectCancel(t) PROVE Unmoved /\ Quiet'
  BY <1>8 DEF DisconnectCancel, DisconnectRollback, Unmoved
<1>9. QED BY <1>1, <1>2, <1>3, <1>4, <1>5, <1>6, <1>7, <1>8 DEF SessionStep

(* The id of a call names the Session it works on.                         *)
Bound(v) ==
    /\ ~exiting => Registered(v.id) /\ ses[sessions[v.id]].db # "none"
    /\ Registered(v.id) /\ v.obj \in Objs => sessions[v.id] = v.obj

(* The call works in the transaction its Session has open.                 *)
TxOK(v) == v.pc \in {"start", "driver"} => v.tx = ses[v.obj].tx

(* A cancel the call has met has left its mark: the flag is set, and a     *)
(* cancel that was accepted ended the context or the statement is over.    *)
AskedOK(v) ==
    /\ v.asked = "no" => v.since = 0
    /\ v.asked # "no" =>
         v.pc # "reset" /\ (Registered(v.id) => ScriptCanceled(v.id))
    /\ v.asked = "ctx" => /\ v.since = 0 /\ v.pc # "enter"
                          /\ v.pc \in {"readTx", "start"} => v.ctx # "live"
                          /\ v.pc = "lookup" => ~Registered(v.id)
    /\ v.asked = "flag" =>
         /\ v.since \in {0, 1}
         /\ v.pc \in {"enter", "readTx", "start"} => v.since = 0
         /\ v.pc = "lookup" /\ Registered(v.id) => v.since = 0

(* CancelExecution finds the call's statement.                             *)
Reachable(r) == run[r].pc \in InFlightPCs => exe[run[r].obj].cancel = r

(* All that holds of a call while the UI's gate is kept: it is alone, the  *)
(* UI waits, and the rest follows.                                         *)
Good(r) ==
    /\ \A s \in Runners \ {r} : Idle(s)
    /\ Quiet /\ Bound(run[r]) /\ Reachable(r) /\ TxOK(run[r]) /\ AskedOK(run[r])

(* The part of the invariant that needs the gate.                          *)
GInv == \A r \in Runners : ~Idle(r) => Good(r)

(* The steps shared with the registry keep it,                             *)
LEMMA SharedGood ==
  ASSUME Base, XInv, GInv, Gated, exe' = exe,
         \/ SessionStep
         \/ \E t \in Threads : DisconnectCapture(t) \/ DisconnectCancel(t),
         \A s \in Runners :
            SoftCancel(run[s], run'[s]) /\ SameAsk(run[s], run'[s])
  PROVE  GInv'
<1> SUFFICES ASSUME NEW r \in Runners, ~Idle(r)' PROVE Good(r)'
  BY DEF GInv
<1>1. PICK v \in Run : v = run[r]
  BY DEF XInv, XType
<1>2. PICK w \in Run : w = run'[r] /\ SoftCancel(v, w) /\ SameAsk(v, w)
  BY <1>1 DEF SoftCancel
<1>3. v.pc # "idle" /\ ~Idle(r) /\ Good(r)
  BY <1>1, <1>2 DEF Idle, SoftCancel, GInv
<1>4. Unmoved /\ Quiet'
  <2>1. Quiet /\ ~NoneExecuting
    BY <1>3 DEF Good, NoneExecuting
  <2>2. QED BY <2>1, SessionKept
<1>5. \A s \in Runners \ {r} : Idle(s)'
  BY <1>3 DEF Good, Idle, SoftCancel
<1>6. v.id \in Ids /\ w.id = v.id /\ w.obj = v.obj /\ w.pc = v.pc /\ w.tx = v.tx
  BY <1>1, <1>2, <1>3 DEF XInv, Shapes, Shape, SoftCancel, SameCall
<1>7. Bound(v) /\ TxOK(v) /\ AskedOK(v) /\ Reachable(r)
  BY <1>1, <1>3 DEF Good
<1>8. Registered(v.id)' => Registered(v.id) /\ sessions'[v.id] = sessions[v.id]
  BY <1>4, <1>6, <1>7 DEF Unmoved, Bound, Registered
<1>9. Bound(w)'
  <2>1. ~exiting' => Registered(v.id)' /\ ses'[sessions'[v.id]].db # "none"
    <3>1. HAVE ~exiting'
    <3>2. ~exiting /\ Registered(v.id) /\ ses[sessions[v.id]].db # "none"
      BY <1>4, <1>7, <3>1 DEF Unmoved, Bound
    <3>3. sessions'[v.id] = sessions[v.id]
      BY <1>4, <1>6, <3>1, <3>2 DEF Unmoved
    <3>4. sessions[v.id] \in Objs /\ ses[sessions[v.id]].state # "UNUSED"
      BY <1>6, <3>2 DEF Base, TInv, TypeOK, Objects, Live, Registered
    <3>5. ses'[sessions[v.id]].db # "none"
      BY <1>4, <3>2, <3>4 DEF Unmoved
    <3>6. QED BY <3>2, <3>3, <3>5 DEF Registered
  <2>2. Registered(v.id)' /\ v.obj \in Objs => sessions'[v.id] = v.obj
    BY <1>7, <1>8 DEF Bound
  <2>3. QED BY <1>6, <2>1, <2>2 DEF Bound, Registered
<1>10. Reachable(r)'
  BY <1>1, <1>2, <1>6, <1>7 DEF Reachable
<1>11. TxOK(w)'
  <2>1. w.pc \in {"start", "driver"} =>
          v.obj \in Objs /\ ses[v.obj].state # "UNUSED"
    BY <1>1, <1>6 DEF XInv, Shapes, Shape, Used, InFlightPCs
  <2>2. QED BY <1>4, <1>6, <1>7, <2>1 DEF TxOK, Unmoved
<1>12. AskedOK(w)'
  <2>1. Registered(v.id)' => (ScriptCanceled(v.id)' <=> ScriptCanceled(v.id))
    BY <1>8 DEF ScriptCanceled, Registered
  <2>2. /\ w.asked = v.asked /\ w.since = v.since
        /\ w.ctx = "live" => v.ctx = "live"
    BY <1>2 DEF SoftCancel, SameAsk
  <2>3. QED BY <1>6, <1>7, <1>8, <2>1, <2>2 DEF AskedOK
<1>13. QED BY <1>2, <1>4, <1>5, <1>9, <1>10, <1>11, <1>12 DEF Good

(* A step of a call changes nothing else a call relies on.                 *)
Frame ==
    /\ UNCHANGED <<sessions, activeID, pc, exiting>>
    /\ \A o \in Objs : ses'[o].tx = ses[o].tx /\ ses'[o].db = ses[o].db

(* That is true of every step of a call (executor.go).                     *)
LEMMA RunnerFrame ==
  ASSUME Base, XInv, NEW r \in Runners,
         \/ RunnerStep(r) \/ DriverEnd(r) \/ Timeout(r)
         \/ StartStatement(r) \/ StartScript(r)
  PROVE  Frame
<1>1. CASE EnterExecuting(r) \/ LeaveExecuting(r)
  <2>1. PICK o \in Objs : o = run[r].obj
    BY <1>1 DEF EnterExecuting, LeaveExecuting, XInv, Shapes, Shape, InFlightPCs
  <2>2. PICK s \in Session : s = ses[o]
    BY DEF Base, TInv, TypeOK
  <2>3. \E x : SetSession(o, [s EXCEPT !.state = x])
    BY <1>1, <2>1, <2>2 DEF EnterExecuting, LeaveExecuting
  <2>4. \A p \in Objs : ses'[p].tx = ses[p].tx /\ ses'[p].db = ses[p].db
    BY <2>2, <2>3 DEF SetSession, Base, TInv, TypeOK, Session
  <2>5. QED
    BY <1>1, <2>4
       DEF EnterExecuting, LeaveExecuting, registry, calls, exit, Frame
<1>2. CASE ~(EnterExecuting(r) \/ LeaveExecuting(r))
  BY <1>2 DEF RunnerStep, DriverEnd, Timeout, StartStatement, StartScript,
       ScriptReset, ScriptCheck, Lookup, ReadTx, DriverStart, Outcome, After,
       vars, Frame
<1>3. QED BY <1>1, <1>2

(* Only the reset at the start of a script clears a cancel flag            *)
(* (executor.go:198-202).                                                  *)
LEMMA RunnerFlags ==
  ASSUME Base, XInv, NEW r \in Runners, NEW i \in Ids,
         \/ RunnerStep(r) \/ DriverEnd(r) \/ Timeout(r)
         \/ StartStatement(r) \/ StartScript(r),
         ~ScriptReset(r)
  PROVE  ScriptCanceled(i)' <=> ScriptCanceled(i)
<1>1. Frame
  BY RunnerFrame
<1>2. \A o \in Objs : exe'[o].scriptCanceled = exe[o].scriptCanceled
  <2>1. CASE EnterExecuting(r)
    BY <2>1, EnterExe DEF XInv, Shapes, Shape, EnterExecuting, SetCancel
  <2>2. CASE LeaveExecuting(r)
    BY <2>2, LeaveExe DEF XInv, Shapes, Shape, LeaveExecuting, SetCancel,
                          InFlightPCs
  <2>3. CASE ~EnterExecuting(r) /\ ~LeaveExecuting(r)
    BY <2>3 DEF RunnerStep, DriverEnd, Timeout, StartStatement, StartScript,
       ScriptCheck, Lookup, ReadTx, DriverStart, Outcome, After
  <2>4. QED BY <2>1, <2>2, <2>3
<1>3. Registered(i) => sessions[i] \in Objs
  BY DEF Registered, Base, TInv, TypeOK
<1>4. QED BY <1>1, <1>2, <1>3 DEF Frame, ScriptCanceled, Registered

(* No step of a call forgets a cancel or its transaction,                  *)
LEMMA RunnerAsk ==
  ASSUME Base, XInv, NEW r \in Runners, Good(r), ~Idle(r),
         RunnerStep(r) \/ DriverEnd(r) \/ Timeout(r), ~Idle(r)'
  PROVE  (TxOK(run[r]) /\ AskedOK(run[r]))'
<1>0. PICK v \in Run : v = run[r]
  BY DEF XInv, XType
<1>w. PICK w : w = run'[r]
  OBVIOUS
<1>1. v.id \in Ids /\ v.left # 0 /\ v.pc # "idle" /\ Shape(v)
  BY <1>0 DEF XInv, Shapes, Shape, Idle
<1>2. w.id = v.id
  BY <1>0, <1>w, <1>1, RunnerMoves DEF Moves, Idle, XInv
<1>3. Registered(v.id)' <=> Registered(v.id)
  BY RunnerFrame DEF Frame, Registered
<1>4. TxOK(v) /\ AskedOK(v)
  BY <1>0 DEF Good
<1>5. CASE ScriptReset(r)
  <2>1. w.pc = "check" /\ v.pc = "reset" /\ SameAsk(v, w)
    BY <1>0, <1>w, <1>5, ScriptResetFields DEF XInv
  <2>2. w.asked = "no" /\ w.since = 0
    BY <1>0, <1>4, <2>1, RunFields DEF AskedOK, SameAsk
  <2>3. QED BY <1>w, <2>1, <2>2 DEF TxOK, AskedOK
<1>6. CASE ~ScriptReset(r)
  <2> USE <1>0, <1>w, <1>1, <1>2, <1>3, <1>4
  <2>0. ScriptCanceled(v.id)' <=> ScriptCanceled(v.id)
    BY <1>6, RunnerFlags
  <2>1. CASE ScriptCheck(r)
    <3>1. /\ v.pc = "check" /\ w.pc = "lookup" /\ SameAsk(v, w)
          /\ ~ScriptCanceled(v.id)
      BY <2>1, ScriptCheckFields DEF XInv, Idle, NoRun
    <3>2. v.asked # "no" => ~Registered(v.id)
      BY <3>1 DEF AskedOK
    <3>3. w.asked = v.asked /\ w.since = v.since
      BY <3>1 DEF SameAsk
    <3>4. QED BY <2>0, <3>1, <3>2, <3>3 DEF TxOK, AskedOK
  <2>2. CASE Lookup(r)
    <3>1. /\ v.pc = "lookup" /\ SameAsk(v, w)
          /\ \/ w.pc = "enter" /\ Registered(v.id)
             \/ w.pc = "after"
      BY <2>2, LookupFields DEF XInv, Lookup
    <3>2. w.asked = v.asked /\ w.since = v.since
      BY <3>1 DEF SameAsk
    <3>3. QED BY <2>0, <3>1, <3>2 DEF TxOK, AskedOK
  <2>3. CASE EnterExecuting(r)
    <3>1. v.pc = "enter" /\ w.pc = "readTx" /\ SameAsk(v, w)
      BY <2>3, EnterFields DEF XInv
    <3>2. w.asked = v.asked /\ w.since = v.since
      BY <3>1 DEF SameAsk
    <3>3. QED BY <2>0, <3>1, <3>2 DEF TxOK, AskedOK
  <2>4. CASE ReadTx(r)
    <3>1. v.pc = "readTx" /\ v.obj \in Objs
      BY <2>4 DEF ReadTx, Shape, InFlightPCs
    <3>2. /\ w.pc = "start" /\ SameAsk(v, w) /\ w.ctx = v.ctx
          /\ w.obj = v.obj /\ w.tx = ses[v.obj].tx
      BY <2>4, <3>1, ReadTxFields DEF XInv
    <3>3. w.asked = v.asked /\ w.since = v.since
      BY <3>2 DEF SameAsk
    <3>4. ses'[v.obj].tx = ses[v.obj].tx
      BY <3>1, RunnerFrame DEF Frame
    <3>5. QED BY <2>0, <3>1, <3>2, <3>3, <3>4 DEF TxOK, AskedOK
  <2>5. CASE DriverStart(r)
    <3>1. /\ v.pc = "start" /\ v.obj \in Objs
          /\ w.asked = v.asked /\ w.obj = v.obj /\ w.tx = v.tx /\ w.ctx = v.ctx
          /\ \/ w.pc = "done" /\ w.since = v.since
             \/ /\ w.pc = "driver" /\ v.ctx = "live"
                /\ w.since = IF v.asked = "no" THEN 0 ELSE v.since + 1
      BY <2>5, DriverStartFields DEF XInv, Refused, Shape, InFlightPCs
    <3>2. ses'[v.obj].tx = ses[v.obj].tx
      BY <3>1, RunnerFrame DEF Frame
    <3>3. TxOK(run[r])'
      BY <3>1, <3>2 DEF TxOK
    <3>4. AskedOK(run[r])'
      BY <2>0, <3>1 DEF AskedOK
    <3>5. QED BY <3>3, <3>4
  <2>6. CASE DriverEnd(r)
    <3>1. v.pc = "driver" /\ w.pc = "done" /\ SameAsk(v, w)
      BY <2>6, DriverEndFields DEF XInv
    <3>2. w.asked = v.asked /\ w.since = v.since
      BY <3>1 DEF SameAsk
    <3>3. QED BY <2>0, <3>1, <3>2 DEF TxOK, AskedOK
  <2>7. CASE Timeout(r)
    <3>1. /\ w.pc = v.pc /\ SameAsk(v, w) /\ w.ctx = "deadline"
          /\ w.obj = v.obj /\ w.tx = v.tx
          /\ v.pc \in {"readTx", "start", "driver", "done"}
      BY <2>7, TimeoutFields DEF XInv
    <3>2. w.asked = v.asked /\ w.since = v.since /\ v.obj \in Objs
      BY <3>1 DEF SameAsk, Shape, InFlightPCs
    <3>3. ses'[v.obj].tx = ses[v.obj].tx
      BY <3>2, RunnerFrame DEF Frame
    <3>4. QED BY <2>0, <3>1, <3>2, <3>3 DEF TxOK, AskedOK
  <2>8. CASE Outcome(r)
    <3>1. v.pc = "done" /\ v.out # "none"
      BY <2>8 DEF Outcome, Shape
    <3>2. w.pc = "leave" /\ SameAsk(v, w)
      BY <2>8, <3>1, OutcomeFields DEF XInv
    <3>3. w.asked = v.asked /\ w.since = v.since
      BY <3>2 DEF SameAsk
    <3>4. QED BY <2>0, <3>1, <3>2, <3>3 DEF TxOK, AskedOK
  <2>9. CASE LeaveExecuting(r)
    <3>1. v.pc = "leave" /\ w.pc = "after" /\ SameAsk(v, w)
      BY <2>9, LeaveFields DEF XInv
    <3>2. w.asked = v.asked /\ w.since = v.since
      BY <3>1 DEF SameAsk
    <3>3. QED BY <2>0, <3>1, <3>2 DEF TxOK, AskedOK
  <2>10. CASE After(r)
    <3>1. /\ v.pc = "after" /\ w.pc = "check"
          /\ w.asked = v.asked /\ w.since = v.since
      BY <2>10, AfterFields DEF XInv, Idle, NoRun
    <3>2. QED BY <2>0, <3>1 DEF TxOK, AskedOK
  <2>11. QED
    BY <1>6, <2>1, <2>2, <2>3, <2>4, <2>5, <2>6, <2>7, <2>8, <2>9, <2>10
       DEF RunnerStep
<1>7. QED BY <1>5, <1>6

(* none leaves its statement out of the user's reach,                      *)
LEMMA RunnerReach ==
  ASSUME Base, XInv, NEW r \in Runners, Good(r), ~Idle(r),
         RunnerStep(r) \/ DriverEnd(r) \/ Timeout(r)
  PROVE  Reachable(r)'
<1>0. PICK v \in Run : v = run[r] /\ Shape(v)
  BY DEF XInv, XType, Shapes
<1>w. PICK w : w = run'[r]
  OBVIOUS
<1>m. Moves(v, w)
  BY <1>0, <1>w, RunnerMoves DEF XInv
<1>1. CASE EnterExecuting(r)
  <2>1. w.obj = v.obj /\ v.obj \in Objs
    BY <1>0, <1>w, <1>1, EnterFields DEF XInv, Shape
  <2>2. exe'[v.obj].cancel = r
    BY <1>0, <1>1, <2>1, EnterExe DEF XInv, SetCancel
  <2>3. QED BY <1>w, <2>1, <2>2 DEF Reachable
<1>2. CASE LeaveExecuting(r)
  <2>1. w.pc = "after"
    BY <1>w, <1>2, LeaveFields DEF XInv
  <2>2. QED BY <1>w, <2>1 DEF Reachable, InFlightPCs
<1>3. CASE v.pc \in InFlightPCs /\ ~LeaveExecuting(r)
  <2>1. v.pc # "leave" /\ ~EnterExecuting(r)
    BY <1>0, <1>3 DEF RunnerStep, DriverEnd, Timeout, ScriptReset, ScriptCheck,
       Lookup, EnterExecuting, ReadTx, DriverStart, Outcome, After, InFlightPCs
  <2>2. w.obj = v.obj /\ v.obj \in Objs
    BY <1>0, <1>3, <1>m, <2>1 DEF Moves, Shape
  <2>3. \A o \in Objs : exe'[o].cancel = exe[o].cancel
    BY <1>3, <2>1, ResetExe
       DEF RunnerStep, DriverEnd, Timeout, ScriptCheck, Lookup, ReadTx,
           DriverStart, Outcome, After, XInv
  <2>4. exe[v.obj].cancel = r
    BY <1>0, <1>3 DEF Good, Reachable
  <2>5. QED BY <1>w, <2>2, <2>3, <2>4 DEF Reachable
<1>4. CASE v.pc \notin InFlightPCs /\ ~EnterExecuting(r)
  <2>1. w.pc \notin InFlightPCs
    <3>1. ScriptReset(r) \/ ScriptCheck(r) \/ Lookup(r) \/ After(r)
      BY <1>0, <1>4 DEF RunnerStep, DriverEnd, Timeout, ReadTx, DriverStart,
         Outcome, LeaveExecuting, InFlightPCs
    <3>2. CASE ScriptReset(r)
      BY <1>w, <3>2, ScriptResetFields DEF XInv, InFlightPCs
    <3>3. CASE ScriptCheck(r)
      BY <1>w, <3>3, ScriptCheckFields DEF XInv, InFlightPCs, NoRun
    <3>4. CASE Lookup(r)
      BY <1>0, <1>w, <3>4, LookupFields DEF XInv, InFlightPCs, Lookup, Shape
    <3>5. CASE After(r)
      <4>1. v.left # 0
        BY <1>0, <3>5 DEF After, Shape
      <4>2. w = NoRun \/ w.pc = "check"
        BY <1>0, <1>w, <3>5, <4>1, AfterFields DEF XInv
      <4>3. QED BY <4>2 DEF InFlightPCs, NoRun
    <3>6. QED BY <3>1, <3>2, <3>3, <3>4, <3>5
  <2>2. QED BY <1>w, <2>1 DEF Reachable
<1>5. QED BY <1>1, <1>2, <1>3, <1>4

(* and so every step of a call keeps what holds of it.                     *)
LEMMA RunnerGood ==
  ASSUME Base, XInv, NEW r \in Runners, Good(r), ~Idle(r),
         RunnerStep(r) \/ DriverEnd(r) \/ Timeout(r), ~Idle(r)'
  PROVE  Good(r)'
<1>0. PICK v \in Run : v = run[r] /\ Shape(v) /\ v.pc # "idle"
  BY DEF XInv, XType, Shapes, Idle
<1>w. PICK w : w = run'[r] /\ w.pc # "idle"
  BY DEF Idle
<1>1. Frame /\ Only(r) /\ Moves(v, w)
  BY <1>0, <1>w, RunnerFrame, RunnerShape, RunnerMoves DEF XInv
<1>2. \A s \in Runners \ {r} : Idle(s)'
  BY <1>1 DEF Only, Idle, Good
<1>3. Quiet'
  BY <1>1 DEF Quiet, Good, Frame
<1>4. Bound(w)'
  <2>1. Bound(v) /\ v.id \in Ids /\ w.id = v.id
    BY <1>0, <1>w, <1>1 DEF Good, Shape, Moves
  <2>2. Registered(v.id) => sessions[v.id] \in Objs
    BY <2>1 DEF Registered, Base, TInv, TypeOK
  <2>3. ~exiting' => Registered(v.id)' /\ ses'[sessions'[v.id]].db # "none"
    BY <1>1, <2>1, <2>2 DEF Bound, Frame, Registered
  <2>4. Registered(v.id)' /\ w.obj \in Objs => sessions'[v.id] = w.obj
    BY <1>1, <2>1 DEF Bound, Frame, Registered, Moves
  <2>5. QED BY <2>1, <2>3, <2>4 DEF Bound, Registered
<1>5. QED BY <1>w, <1>2, <1>3, <1>4, RunnerReach, RunnerAsk DEF Good

(* A call starts alone and on a registered session (presenter.go:74-100).  *)
LEMMA StartGood ==
  ASSUME Base, XInv, Gated, NEW r \in Runners,
         StartStatement(r) \/ StartScript(r)
  PROVE  Good(r)' /\ NoneExecuting
<1>w. PICK w : w = run'[r]
  OBVIOUS
<1>1. /\ Frame /\ Only(r) /\ CanRun
      /\ w.pc \in {"reset", "lookup"} /\ w.id = activeID /\ w.id \in Ids
      /\ w.asked = "no" /\ w.since = 0 /\ w.obj = NoObj
  BY <1>w, RunnerFrame, StartFields DEF XInv
<1>2. NoneExecuting
  BY <1>1 DEF CanRun, GateIdle
<1>3. \A s \in Runners \ {r} : Idle(s)'
  BY <1>1, <1>2 DEF Only, Idle, NoneExecuting
<1>4. Quiet'
  BY <1>1 DEF Quiet, CanRun, UIIdle, Frame, DisconnectPCs
<1>5. Bound(w)'
  <2>1. Registered(w.id) /\ ses[sessions[w.id]].db # "none"
    BY <1>1 DEF CanRun, HasActive, Active
  <2>2. sessions[w.id] \in Objs
    BY <1>1, <2>1 DEF Registered, Base, TInv, TypeOK
  <2>3. w.obj \notin Objs
    BY <1>1, ConstantsAssumption
  <2>4. QED BY <1>1, <2>1, <2>2, <2>3 DEF Bound, Frame, Registered
<1>6. Reachable(r)'
  BY <1>w, <1>1 DEF Reachable, InFlightPCs
<1>7. TxOK(w)' /\ AskedOK(w)'
  BY <1>1 DEF TxOK, AskedOK
<1>8. QED BY <1>w, <1>2, <1>3, <1>4, <1>5, <1>6, <1>7 DEF Good

(* A cancel leaves its mark (manager.go:328-341).                          *)
LEMMA CancelGood ==
  ASSUME Base, XInv, GInv, CancelExecution
  PROVE  GInv'
<1> SUFFICES ASSUME NEW r \in Runners, ~Idle(r)' PROVE Good(r)'
  BY DEF GInv
<1>1. PICK v \in Run : v = run[r]
  BY DEF XInv, XType
<1>2. /\ run' \in [Runners -> Run]
      /\ \A s \in Runners : CancelEffect(run[s], run'[s], Reach(s))
  BY CancelRuns DEF XInv
<1>3. PICK w \in Run : w = run'[r] /\ CancelEffect(v, w, Reach(r))
  BY <1>1, <1>2
<1>4. w.pc = v.pc /\ w.id = v.id /\ w.obj = v.obj /\ w.tx = v.tx
      /\ (w.ctx = "live" => v.ctx = "live")
  BY <1>3 DEF CancelEffect, SoftCancel, SameCall
<1>5. v.pc # "idle" /\ v.id \in Ids /\ Good(r) /\ Shape(v)
  BY <1>1, <1>3, <1>4 DEF Idle, GInv, XInv, Shapes, Shape
<1>6. UNCHANGED vars
  BY DEF CancelExecution
<1>7. /\ Active \in Objs /\ exe'[Active].scriptCanceled
      /\ \A p \in Objs : exe'[p].cancel = exe[p].cancel
      /\ \A p \in Objs : exe[p].scriptCanceled => exe'[p].scriptCanceled
  BY CancelExe DEF XInv
<1>8. \A s \in Runners \ {r} : Idle(s)'
  BY <1>2, <1>5 DEF Good, Idle, CancelEffect, SoftCancel
<1>9. Quiet' /\ Bound(w)' /\ TxOK(w)'
  BY <1>1, <1>4, <1>5, <1>6 DEF Good, Quiet, Bound, TxOK, vars, Registered
<1>10. Reachable(r)'
  <2>1. v.pc \in InFlightPCs => v.obj \in Objs
    BY <1>5 DEF Shape
  <2>2. QED BY <1>1, <1>3, <1>4, <1>5, <1>7, <2>1 DEF Good, Reachable
<1>11. AskedOK(w)'
  <2>1. AskedOK(v) /\ Bound(v)
    BY <1>1, <1>5 DEF Good
  <2>2. Registered(v.id)' <=> Registered(v.id)
    BY <1>6 DEF vars, Registered
  <2>3. ScriptCanceled(v.id) => ScriptCanceled(v.id)'
    BY <1>5, <1>6, <1>7 DEF ScriptCanceled, Registered, vars, Base, TInv, TypeOK
  <2>4. CASE Reach(r) = "ctx"
    <3>1. exe[Active].cancel = r
      BY <2>4 DEF Reach
    <3>2. v.pc \in InFlightPCs /\ v.obj = Active
      BY <1>1, <1>7, <3>1 DEF XInv, Held
    <3>3. Registered(v.id) => ScriptCanceled(v.id)'
      BY <1>6, <1>7, <2>1, <3>2 DEF Bound, ScriptCanceled, vars, Registered
    <3>4. w.asked = "ctx" /\ w.since = 0 /\ w.ctx # "live"
      BY <1>3, <2>4 DEF CancelEffect
    <3>5. QED BY <1>4, <2>2, <3>2, <3>3, <3>4 DEF AskedOK, InFlightPCs
  <2>5. CASE Reach(r) = "flag"
    <3>1. v.id = activeID /\ v.pc # "reset"
      BY <1>1, <2>5 DEF Reach, ScriptOf
    <3>2. Registered(v.id) => ScriptCanceled(v.id)'
      BY <1>6, <1>7, <3>1 DEF ScriptCanceled, vars, Registered, Active
    <3>3. IF v.asked = "no" THEN w.asked = "flag" /\ w.since = 0
          ELSE w.asked = v.asked /\ w.since = v.since
      BY <1>3, <2>5 DEF CancelEffect, SameAsk
    <3>4. QED BY <1>4, <2>1, <2>2, <3>1, <3>2, <3>3 DEF AskedOK
  <2>6. CASE Reach(r) = "no"
    <3>1. w = v
      BY <1>3, <2>6 DEF CancelEffect
    <3>2. QED BY <2>1, <2>2, <2>3, <3>1 DEF AskedOK
  <2>7. QED BY <2>4, <2>5, <2>6 DEF Reach
<1>12. QED BY <1>3, <1>8, <1>9, <1>10, <1>11 DEF Good

(* Every step of the executor keeps the invariant.                         *)
LEMMA NextG ==
  ASSUME Base, XInv, GInv, Gated, [ExecNext]_evars
  PROVE  GInv'
<1>1. CASE SessionStep /\ UNCHANGED xvars
  <2>1. exe' = exe /\ \A s \in Runners :
            SoftCancel(run[s], run'[s]) /\ SameAsk(run[s], run'[s])
    BY <1>1 DEF xvars, SoftCancel, SameCall, SameAsk, XInv, XType
  <2>2. QED BY <1>1, <2>1, SharedGood
<1>2. ASSUME NEW t \in Threads, DisconnectCapture(t) PROVE GInv'
  <2>1. exe' = exe /\ \A s \in Runners :
            SoftCancel(run[s], run'[s]) /\ SameAsk(run[s], run'[s])
    BY <1>2 DEF DisconnectCapture, SoftCancel, SameCall, SameAsk, XInv, XType
  <2>2. QED BY <1>2, <2>1, SharedGood
<1>3. ASSUME NEW t \in Threads, DisconnectCancel(t) PROVE GInv'
  <2>1. exe' = exe
    BY <1>3 DEF DisconnectCancel
  <2>2. QED BY <1>3, <2>1, DisconnectRuns, SharedGood DEF XInv
<1>4. ASSUME NEW r \in Runners,
             \/ RunnerStep(r) \/ DriverEnd(r) \/ Timeout(r)
             \/ StartStatement(r) \/ StartScript(r)
      PROVE  GInv'
  <2> SUFFICES ASSUME NEW s \in Runners, ~Idle(s)' PROVE Good(s)'
    BY DEF GInv
  <2>1. Only(r)
    BY <1>4, RunnerShape DEF XInv
  <2>2. CASE StartStatement(r) \/ StartScript(r)
    <3>1. Good(r)' /\ NoneExecuting
      BY <2>2, StartGood
    <3>2. s = r
      BY <2>1, <3>1 DEF Only, NoneExecuting, Idle
    <3>3. QED BY <3>1, <3>2
  <2>3. CASE RunnerStep(r) \/ DriverEnd(r) \/ Timeout(r)
    <3>1. ~Idle(r)
      <4>1. CASE Timeout(r)
        BY <4>1 DEF Timeout, Idle
      <4>2. CASE ~Timeout(r)
        BY <2>3, <4>2
           DEF RunnerStep, DriverEnd, ScriptReset, ScriptCheck, Lookup,
               EnterExecuting, ReadTx, DriverStart, Outcome, LeaveExecuting,
               After, Idle
      <4>3. QED BY <4>1, <4>2
    <3>2. Good(r)
      BY <3>1 DEF GInv
    <3>3. s = r
      BY <2>1, <3>2 DEF Good, Only, Idle
    <3>4. QED BY <2>3, <3>1, <3>2, <3>3, RunnerGood
  <2>4. QED BY <1>4, <2>2, <2>3
<1>5. CASE CancelExecution
  BY <1>5, CancelGood
<1>6. CASE UNCHANGED evars
  BY <1>6 DEF evars, vars, GInv, Good, Idle, Quiet, Bound, Reachable, TxOK,
     AskedOK, ScriptCanceled, Registered
<1>7. CASE ExecExited
  BY <1>6, <1>7 DEF ExecExited, Exited, xvars, vars, evars
<1>8. QED BY <1>1, <1>2, <1>3, <1>4, <1>5, <1>6, <1>7 DEF ExecNext

(* Hence it holds throughout, behind the UI's gate.                        *)
LEMMA InvariantsHold ==
  ASSUME Gated
  PROVE  ExecSpec => [](Base /\ XInv /\ GInv)
<1>1. ExecInit => GInv
  BY DEF ExecInit, GInv, Idle, NoRun
<1>2. Base /\ XInv /\ GInv /\ [ExecNext]_evars => (Base /\ XInv /\ GInv)'
  BY NextX, NextG
<1>3. QED BY <1>1, <1>2, InitX, PTL DEF ExecSpec

-----------------------------------------------------------------------------
(* What the gate buys                                                      *)

(* After a cancel that found nothing running at most one more statement    *)
(* of the script begins, after one that was accepted none                  *)
(* (executor.go:204-219, manager.go:335-338).                              *)
THEOREM CancelAlwaysStopsScript ==
  ASSUME Gated
  PROVE  ExecSpec => []CancelStopsScript
<1>1. Base /\ XInv /\ GInv => CancelStopsScript
  <2> SUFFICES ASSUME XInv, GInv, NEW r \in Runners
               PROVE  run[r].since <= IF run[r].asked = "flag" THEN 1 ELSE 0
    BY DEF CancelStopsScript
  <2>1. PICK v \in Run : v = run[r] /\ Shape(v)
    BY DEF XInv, XType, Shapes
  <2>2. CASE v.pc = "idle"
    BY <2>1, <2>2 DEF Shape, NoRun
  <2>3. CASE v.pc # "idle"
    <3>1. AskedOK(v) /\ v.asked \in {"no", "flag", "ctx"}
      BY <2>1, <2>3, RunFields DEF GInv, Good, Idle
    <3>2. v.since \in {0, 1} /\ (v.asked # "flag" => v.since = 0)
      BY <3>1 DEF AskedOK
    <3>3. QED BY <2>1, <3>2
  <2>4. QED BY <2>2, <2>3
<1>2. QED BY <1>1, InvariantsHold, PTL

-----------------------------------------------------------------------------
(* The executor implements ScriptContract                                  *)

(* The state of the contract the executor's state stands for.              *)
Left(v) == v.left - IF Begun(v) THEN 1 ELSE 0

CLeft == [r \in Runners |-> Left(run[r])]
CBusy == [r \in Runners |-> run[r].pc = "driver"]
CStopped == [r \in Runners |-> run[r].asked = "ctx"]

(* A step that changes none of it is a stutter of the contract.            *)
LEMMA SameContract ==
  ASSUME \A r \in Runners : /\ Left(run'[r]) = Left(run[r])
                            /\ run'[r].pc = "driver" <=> run[r].pc = "driver"
                            /\ run'[r].asked = "ctx" <=> run[r].asked = "ctx"
  PROVE  UNCHANGED Contract!vars
BY DEF Contract!vars, Left, Begun

(* A step of one call changes the contract's state of that call only.      *)
LEMMA MappedStep ==
  ASSUME NEW r \in Runners, Only(r)
  PROVE  /\ CLeft' = [CLeft EXCEPT ![r] = Left(run'[r])]
         /\ CBusy' = [CBusy EXCEPT ![r] = (run'[r].pc = "driver")]
         /\ CStopped' = [CStopped EXCEPT ![r] = (run'[r].asked = "ctx")]
         /\ Left(run'[r]) = Left(run[r]) => CLeft' = CLeft
         /\ (run'[r].pc = "driver" <=> run[r].pc = "driver") => CBusy' = CBusy
         /\ (run'[r].asked = "ctx" <=> run[r].asked = "ctx") =>
              CStopped' = CStopped
         /\ CLeft[r] = Left(run[r])
         /\ CBusy[r] <=> run[r].pc = "driver"
         /\ CStopped[r] <=> run[r].asked = "ctx"
BY DEF Only, CLeft, CBusy, CStopped, Left, Begun

(* Every step of a call is a step of the contract or a stutter: a start    *)
(* submits, the way to the driver executes or skips, the driver's answer   *)
(* completes, the end of the call ends (executor.go:22-232).               *)
LEMMA RunnerContract ==
  ASSUME Base, XInv, GInv, NEW r \in Runners,
         \/ RunnerStep(r) \/ DriverEnd(r) \/ Timeout(r)
         \/ StartStatement(r) \/ StartScript(r)
  PROVE  Contract!Next \/ UNCHANGED Contract!vars
<1>0. PICK v \in Run : v = run[r] /\ Shape(v)
  BY DEF XInv, XType, Shapes
<1>w. PICK w : w = run'[r]
  OBVIOUS
<1>1. Only(r) /\ Shapes' /\ w \in Run /\ Shape(w)
  BY <1>w, RunnerShape DEF XInv, Only, Shapes, Shape
<1>m. /\ CLeft' = [CLeft EXCEPT ![r] = Left(w)]
      /\ CBusy' = [CBusy EXCEPT ![r] = (w.pc = "driver")]
      /\ CStopped' = [CStopped EXCEPT ![r] = (w.asked = "ctx")]
      /\ Left(w) = Left(v) => CLeft' = CLeft
      /\ (w.pc = "driver" <=> v.pc = "driver") => CBusy' = CBusy
      /\ (w.asked = "ctx" <=> v.asked = "ctx") => CStopped' = CStopped
      /\ CLeft[r] = Left(v)
      /\ CBusy[r] <=> v.pc = "driver"
      /\ CStopped[r] <=> v.asked = "ctx"
  BY <1>0, <1>w, <1>1, MappedStep
<1>2. ASSUME Left(w) = Left(v), w.pc = "driver" <=> v.pc = "driver",
             w.asked = "ctx" <=> v.asked = "ctx"
      PROVE  UNCHANGED Contract!vars
  BY <1>m, <1>2 DEF Contract!vars, CLeft, CBusy, CStopped, Left
<1>3. ASSUME v.pc # "driver", w.pc # "driver", Left(w) = 0, w.asked # "ctx"
      PROVE  Contract!End(r)
  BY <1>m, <1>3 DEF Contract!End, CLeft, CBusy, CStopped, Left
<1>4. ASSUME v.pc # "driver", w.pc # "driver", Left(v) > 0,
             Left(w) = Left(v) - 1, w.asked = v.asked
      PROVE  Contract!Skip(r)
  <2>1. CLeft[r] > 0 /\ ~CBusy[r] /\ UNCHANGED <<CBusy, CStopped>>
        /\ CLeft' = [CLeft EXCEPT ![r] = CLeft[r] - 1]
    BY <1>m, <1>4
  <2>2. QED BY <2>1 DEF Contract!Skip, CLeft, CBusy, CStopped, Left
<1>5. /\ v.left \in 0..MaxStatements /\ w.left \in 0..MaxStatements
      /\ v.ran \in Nat
  BY <1>1, RunFields
<1>6. CASE ScriptReset(r)
  <2>1. /\ v.pc = "reset" /\ w.pc = "check"
        /\ SameCall(v, w) /\ SameAsk(v, w) /\ SameWork(v, w)
    BY <1>0, <1>w, <1>6, ScriptResetFields DEF XInv
  <2>2. Left(w) = Left(v) /\ w.asked = v.asked
    BY <2>1 DEF Left, Begun, SameCall, SameAsk, SameWork
  <2>3. QED BY <1>2, <2>1, <2>2
<1>7. CASE ScriptCheck(r)
  <2>1. /\ v.pc = "check"
        /\ \/ w = NoRun
           \/ /\ w.pc = "lookup" /\ SameCall(v, w)
              /\ SameAsk(v, w) /\ SameWork(v, w)
    BY <1>0, <1>w, <1>7, ScriptCheckFields DEF XInv
  <2>2. CASE w = NoRun
    <3>1. Left(w) = 0 /\ w.pc # "driver" /\ w.asked # "ctx"
      BY <2>2 DEF Left, Begun, NoRun
    <3>2. QED BY <1>3, <2>1, <3>1 DEF Contract!Next
  <2>3. CASE w # NoRun
    <3>1. Left(w) = Left(v) /\ w.asked = v.asked /\ w.pc = "lookup"
      BY <2>1, <2>3 DEF Left, Begun, SameCall, SameAsk, SameWork
    <3>2. QED BY <1>2, <2>1, <3>1
  <2>4. QED BY <2>2, <2>3
<1>8. CASE Lookup(r)
  <2>1. /\ v.pc = "lookup" /\ v.id \in Ids
        /\ v.ran = 0 /\ v.out = "none" /\ v.left # 0
    BY <1>0, <1>8 DEF Lookup, Shape, BeforeDriver
  <2>2. /\ SameCall(v, w) /\ SameAsk(v, w) /\ w.ran = v.ran
        /\ \/ w.pc = "enter" /\ w.out = v.out
           \/ w.pc = "after" /\ w.out = "error"
    BY <1>0, <1>w, <1>8, <2>1, LookupFields DEF XInv
  <2>3. CASE w.out = "error"
    <3>1. w.left = v.left /\ w.asked = v.asked /\ w.pc = "after"
      BY <2>1, <2>2, <2>3 DEF SameCall, SameAsk
    <3>2. Left(v) = v.left /\ Left(w) = v.left - 1
      BY <1>5, <2>1, <2>3, <3>1 DEF Left, Begun
    <3>3. QED BY <1>4, <1>5, <2>1, <3>1, <3>2 DEF Contract!Next
  <2>4. CASE w.out = v.out
    <3>1. Left(w) = Left(v) /\ w.asked = v.asked /\ w.pc # "driver"
      BY <2>2, <2>4 DEF Left, Begun, SameCall, SameAsk
    <3>2. QED BY <1>2, <2>1, <3>1
  <2>5. QED BY <2>2, <2>3, <2>4
<1>9. CASE EnterExecuting(r)
  <2>1. /\ v.pc = "enter" /\ w.pc = "readTx" /\ SameCall(v, w) /\ SameAsk(v, w)
        /\ w.out = v.out /\ w.ran = v.ran
    BY <1>0, <1>w, <1>9, EnterFields DEF XInv
  <2>2. Left(w) = Left(v) /\ w.asked = v.asked
    BY <2>1 DEF Left, Begun, SameCall, SameAsk
  <2>3. QED BY <1>2, <2>1, <2>2
<1>10. CASE ReadTx(r)
  <2>0. v.obj \in Objs
    BY <1>0, <1>10 DEF ReadTx, Shape, InFlightPCs
  <2>1. /\ v.pc = "readTx" /\ w.pc = "start" /\ SameCall(v, w) /\ SameAsk(v, w)
        /\ w.out = v.out /\ w.ran = v.ran
    BY <1>0, <1>w, <1>10, <2>0, ReadTxFields DEF XInv
  <2>2. Left(w) = Left(v) /\ w.asked = v.asked
    BY <2>1 DEF Left, Begun, SameCall, SameAsk
  <2>3. QED BY <1>2, <2>1, <2>2
<1>11. CASE DriverStart(r)
  <2>1. /\ v.pc = "start" /\ v.ran = 0 /\ v.out = "none" /\ v.left # 0
    BY <1>0, <1>11 DEF DriverStart, Shape, BeforeDriver
  <2>2. /\ SameCall(v, w) /\ w.asked = v.asked
        /\ \/ w.pc = "done" /\ w.out = "error" /\ w.ran = v.ran
           \/ w.pc = "driver" /\ w.ran = v.ran + 1 /\ v.ctx = "live"
    BY <1>0, <1>w, <1>11, DriverStartFields DEF XInv, Refused
  <2>3. /\ w.left = v.left /\ Left(v) = v.left
        /\ Left(w) = v.left - 1 /\ Left(v) > 0
    BY <1>5, <2>1, <2>2 DEF Left, Begun, SameCall
  <2>4. CASE w.pc = "done"
    BY <1>4, <2>1, <2>2, <2>3, <2>4 DEF Contract!Next
  <2>5. CASE w.pc = "driver"
    <3>1. v.ctx = "live" /\ v.pc # "idle"
      BY <2>1, <2>2, <2>5
    <3>2. AskedOK(v)
      BY <1>0, <3>1 DEF GInv, Good, Idle
    <3>3. v.asked # "ctx"
      BY <2>1, <3>1, <3>2 DEF AskedOK
    <3>4. /\ CLeft[r] > 0 /\ ~CBusy[r] /\ ~CStopped[r]
          /\ CLeft' = [CLeft EXCEPT ![r] = CLeft[r] - 1]
          /\ CBusy' = [CBusy EXCEPT ![r] = TRUE]
          /\ UNCHANGED CStopped
      BY <1>m, <2>1, <2>2, <2>3, <2>5, <3>3
    <3>5. Contract!Execute(r)
      BY <3>4 DEF Contract!Execute, CLeft, CBusy, CStopped, Left
    <3>6. QED BY <3>5 DEF Contract!Next
  <2>6. QED BY <2>2, <2>4, <2>5
<1>12. CASE DriverEnd(r)
  <2>1. /\ v.pc = "driver" /\ w.pc = "done" /\ SameCall(v, w) /\ SameAsk(v, w)
        /\ w.ran = v.ran /\ v.ran = 1
    BY <1>0, <1>w, <1>12, DriverEndFields DEF XInv, Shape
  <2>2. Left(w) = Left(v) /\ w.asked = v.asked
    BY <2>1 DEF Left, Begun, SameCall, SameAsk
  <2>3. /\ CBusy[r] /\ CBusy' = [CBusy EXCEPT ![r] = FALSE]
        /\ UNCHANGED <<CLeft, CStopped>>
    BY <1>m, <2>1, <2>2
  <2>4. Contract!Complete(r)
    BY <2>3 DEF Contract!Complete, CLeft, CBusy, CStopped, Left
  <2>5. QED BY <2>4 DEF Contract!Next
<1>13. CASE Timeout(r)
  <2>1. /\ w.pc = v.pc /\ SameCall(v, w) /\ SameAsk(v, w)
        /\ w.out = v.out /\ w.ran = v.ran
    BY <1>0, <1>w, <1>13, TimeoutFields DEF XInv
  <2>2. Left(w) = Left(v) /\ w.asked = v.asked
    BY <2>1 DEF Left, Begun, SameCall, SameAsk
  <2>3. QED BY <1>2, <2>1, <2>2
<1>14. CASE Outcome(r)
  <2>0. v.out # "none"
    BY <1>0, <1>14 DEF Outcome, Shape
  <2>1. /\ v.pc = "done" /\ w.pc = "leave" /\ SameCall(v, w) /\ SameAsk(v, w)
        /\ w.out = v.out /\ w.ran = v.ran
    BY <1>0, <1>w, <1>14, <2>0, OutcomeFields DEF XInv
  <2>2. Left(w) = Left(v) /\ w.asked = v.asked
    BY <2>1 DEF Left, Begun, SameCall, SameAsk
  <2>3. QED BY <1>2, <2>1, <2>2
<1>15. CASE LeaveExecuting(r)
  <2>1. /\ v.pc = "leave" /\ w.pc = "after" /\ SameCall(v, w) /\ SameAsk(v, w)
        /\ w.out = v.out /\ w.ran = v.ran
    BY <1>0, <1>w, <1>15, LeaveFields DEF XInv
  <2>2. Left(w) = Left(v) /\ w.asked = v.asked
    BY <2>1 DEF Left, Begun, SameCall, SameAsk
  <2>3. QED BY <1>2, <2>1, <2>2
<1>16. CASE After(r)
  <2>1. /\ v.pc = "after" /\ v.left # 0 /\ (v.ran > 0 \/ v.out = "error")
    BY <1>0, <1>16 DEF After, Shape
  <2>2. \/ w = NoRun
        \/ /\ w.pc = "check" /\ w.left = v.left - 1 /\ w.asked = v.asked
           /\ w.out = "none" /\ w.ran = 0
    BY <1>0, <1>w, <1>16, <2>1, AfterFields DEF XInv
  <2>3. CASE w = NoRun
    <3>1. Left(w) = 0 /\ w.pc # "driver" /\ w.asked # "ctx"
      BY <2>3 DEF Left, Begun, NoRun
    <3>2. QED BY <1>3, <2>1, <3>1 DEF Contract!Next
  <2>4. CASE w # NoRun
    <3>1. Left(w) = Left(v)
      BY <1>5, <2>1, <2>2, <2>4 DEF Left, Begun
    <3>2. QED BY <1>2, <2>1, <2>2, <2>4, <3>1
  <2>5. QED BY <2>3, <2>4
<1>17. CASE StartStatement(r) \/ StartScript(r)
  <2>1. /\ v.pc = "idle" /\ w.pc \in {"reset", "lookup"} /\ w.asked = "no"
        /\ w.left \in 1..MaxStatements /\ w.out = "none" /\ w.ran = 0
    BY <1>0, <1>w, <1>17, StartFields DEF XInv
  <2>2. Left(v) = 0 /\ Left(w) = w.left
    BY <1>0, <1>5, <2>1 DEF Left, Begun, Shape, NoRun
  <2>3. /\ CLeft[r] = 0 /\ ~CBusy[r]
        /\ CLeft' \in {[CLeft EXCEPT ![r] = n] : n \in 1..MaxStatements}
        /\ CStopped' = [CStopped EXCEPT ![r] = FALSE]
        /\ UNCHANGED CBusy
    BY <1>m, <2>1, <2>2
  <2>4. Contract!Submit(r)
    BY <2>3 DEF Contract!Submit, CLeft, CBusy, CStopped, Left
  <2>5. QED BY <2>4 DEF Contract!Next
<1>18. QED
  BY <1>6, <1>7, <1>8, <1>9, <1>10, <1>11, <1>12, <1>13, <1>14, <1>15, <1>16,
     <1>17
     DEF RunnerStep

(* A cancel stops the call whose cancel function it finds                  *)
(* (manager.go:328-341).                                                   *)
LEMMA CancelContract ==
  ASSUME Base, XInv, GInv, CancelExecution
  PROVE  Contract!Next \/ UNCHANGED Contract!vars
<1>1. /\ run' \in [Runners -> Run]
      /\ \A r \in Runners : CancelEffect(run[r], run'[r], Reach(r))
  BY CancelRuns DEF XInv
<1>2. \A r \in Runners : /\ Left(run'[r]) = Left(run[r])
                         /\ run'[r].pc = "driver" <=> run[r].pc = "driver"
  BY <1>1 DEF CancelEffect, SoftCancel, SameCall, Left, Begun
<1>3. CLeft' = CLeft /\ CBusy' = CBusy
  BY <1>2 DEF CLeft, CBusy
<1>4. \A r \in Runners : exe[Active].cancel # r =>
         (run'[r].asked = "ctx" <=> run[r].asked = "ctx")
  BY <1>1 DEF CancelEffect, Reach, SameAsk
<1>5. CASE \A r \in Runners : exe[Active].cancel # r
  <2>1. CStopped' = CStopped
    BY <1>4, <1>5 DEF CStopped
  <2>2. QED BY <1>3, <2>1 DEF Contract!vars, CLeft, CBusy, CStopped, Left
<1>6. ASSUME NEW r \in Runners, exe[Active].cancel = r
      PROVE  Contract!Next
  <2>1. run'[r].asked = "ctx"
    BY <1>1, <1>6 DEF CancelEffect, Reach
  <2>2. CStopped' = [CStopped EXCEPT ![r] = TRUE]
    BY <1>4, <1>6, <2>1 DEF CStopped
  <2>3. Contract!Stop(r)
    BY <1>3, <2>2 DEF Contract!Stop, CLeft, CBusy, CStopped, Left
  <2>4. QED BY <2>3 DEF Contract!Next
<1>7. QED BY <1>5, <1>6

(* A cancel by Disconnect is a stutter (manager.go:211-213).               *)
LEMMA SharedContract ==
  ASSUME XInv, \A r \in Runners :
                 SoftCancel(run[r], run'[r]) /\ SameAsk(run[r], run'[r])
  PROVE  UNCHANGED Contract!vars
<1>1. \A r \in Runners : /\ Left(run'[r]) = Left(run[r])
                         /\ run'[r].pc = "driver" <=> run[r].pc = "driver"
                         /\ run'[r].asked = "ctx" <=> run[r].asked = "ctx"
  BY DEF SoftCancel, SameCall, SameAsk, Left, Begun
<1>2. QED BY <1>1, SameContract

(* The executor starts where the contract does,                            *)
LEMMA InitContract ==
  ASSUME ExecInit
  PROVE  Contract!Init
<1>1. \A r \in Runners : /\ Left(run[r]) = 0 /\ run[r].pc # "driver"
                         /\ run[r].asked # "ctx"
  BY DEF ExecInit, NoRun, Left, Begun
<1>2. QED BY <1>1 DEF Contract!Init, Left

(* and every step of it is one of the contract's.                          *)
LEMMA NextContract ==
  ASSUME Base, XInv, GInv, [ExecNext]_evars
  PROVE  [Contract!Next]_(Contract!vars)
<1>1. CASE SessionStep /\ UNCHANGED xvars
  <2>1. \A s \in Runners :
           SoftCancel(run[s], run'[s]) /\ SameAsk(run[s], run'[s])
    BY <1>1 DEF xvars, SoftCancel, SameCall, SameAsk, XInv, XType
  <2>2. QED BY <2>1, SharedContract
<1>2. ASSUME NEW t \in Threads, DisconnectCapture(t)
      PROVE  UNCHANGED Contract!vars
  <2>1. \A s \in Runners :
           SoftCancel(run[s], run'[s]) /\ SameAsk(run[s], run'[s])
    BY <1>2 DEF DisconnectCapture, SoftCancel, SameCall, SameAsk, XInv, XType
  <2>2. QED BY <2>1, SharedContract
<1>3. ASSUME NEW t \in Threads, DisconnectCancel(t)
      PROVE  UNCHANGED Contract!vars
  BY <1>3, DisconnectRuns, SharedContract DEF XInv
<1>4. ASSUME NEW r \in Runners,
             \/ RunnerStep(r) \/ DriverEnd(r) \/ Timeout(r)
             \/ StartStatement(r) \/ StartScript(r)
      PROVE  Contract!Next \/ UNCHANGED Contract!vars
  BY <1>4, RunnerContract
<1>5. CASE CancelExecution
  BY <1>5, CancelContract
<1>6. CASE UNCHANGED evars
  BY <1>6 DEF evars, vars, Contract!vars, Begun
<1>7. CASE ExecExited
  BY <1>6, <1>7 DEF ExecExited, Exited, xvars, vars, evars
<1>8. QED BY <1>1, <1>2, <1>3, <1>4, <1>5, <1>6, <1>7 DEF ExecNext

(* The executor implements ScriptContract: each statement of a submission  *)
(* reaches the driver at most once, in order, one at a time, and none      *)
(* after a cancel that was reported as accepted (executor.go:78-111,       *)
(* 203-227).                                                               *)
THEOREM ExecutorKeepsContract ==
  ASSUME Gated
  PROVE  ExecSpec => ImplementsContract
<1>1. ExecInit => Contract!Init
  BY InitContract
<1>2. Base /\ XInv /\ GInv /\ [ExecNext]_evars =>
         [Contract!Next]_(Contract!vars)
  BY NextContract
<1>3. QED
  BY <1>1, <1>2, InvariantsHold, PTL
     DEF ExecSpec, ImplementsContract, Contract!Spec

=============================================================================
