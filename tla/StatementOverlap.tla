-------------------------- MODULE StatementOverlap --------------------------
(***************************************************************************)
(* Statements that overlap on one session.  The executor itself allows it: *)
(* EnterExecuting and the deferred reset (internal/odbc/executor.go:45-59) *)
(* look at no other statement, and ReadTx (executor.go:61-66) at no BEGIN, *)
(* COMMIT or ROLLBACK on the way.  Only the UI's gate keeps them apart, and *)
(* the gate opens early (NothingEnabledWhileExecuting of ApplicationUI).    *)
(*                                                                         *)
(* Two history variables over the steps of Executor record what a          *)
(* statement met; no action reads them.  Nothing here assumes Gated.       *)
(***************************************************************************)
EXTENDS Executor

VARIABLES
    crossed,  \* per runner: another statement was in flight on its session
    txSince   \* per runner: the transactions of its session since Lookup

ovars == <<evars, crossed, txSince>>

InFlight(r) == run[r].pc \in InFlightPCs

Overlaps(r) ==
    InFlight(r) /\ \E q \in Runners \ {r} : InFlight(q) /\ run[q].obj = run[r].obj

(* Between the session's lookup and the driver.                            *)
Approaching(r) == run[r].pc \in {"enter", "readTx", "start"}

OverlapTypeOK ==
    /\ crossed \in [Runners -> BOOLEAN]
    /\ txSince \in [Runners -> SUBSET (Txs \union {NoTx})]

OverlapInit ==
    /\ ExecInit
    /\ crossed = [r \in Runners |-> FALSE]
    /\ txSince = [r \in Runners |-> {}]

RecordCrossed ==
    crossed' = [r \in Runners |-> InFlight(r)' /\ (Overlaps(r)' \/ crossed[r])]

RecordTx ==
    txSince' = [r \in Runners |->
                  IF Approaching(r)' THEN txSince[r] \union {ses'[run'[r].obj].tx} ELSE {}]

OverlapNext == ExecNext /\ RecordCrossed /\ RecordTx

OverlapSpec == OverlapInit /\ [][OverlapNext]_ovars

-----------------------------------------------------------------------------
(* Properties                                                              *)

(* What Esc reaches.  A statement loses its cancel function only to another *)
(* one that is in flight on the session with it: the deferred reset clears *)
(* ExecCancel whoever put it there.  And Esc never reaches a statement that *)
(* is over: what ExecCancel holds is in flight on that session, through    *)
(* Disconnects and COMMITs in between (executor.go:45-59,                  *)
(* manager.go:191-222, 328-341).                                           *)
CancelReachesStatement ==
    /\ \A r \in Runners : InFlight(r) /\ ~crossed[r] => exe[run[r].obj].cancel = r
    /\ \A o \in Objs : LET r == exe[o].cancel IN
         r # NoRunner => InFlight(r) /\ run[r].obj = o

(* A statement is handed to the driver in a transaction (or outside of one) *)
(* that the session has had since the statement found it, and never in one *)
(* that is over: a COMMIT or ROLLBACK in the gap makes it fail, and while   *)
(* the transaction stays the same it runs in that one (executor.go:61-69   *)
(* against manager.go:248-297).                                            *)
HandedOver(r) == run[r].pc = "start" /\ run'[r].pc = "driver"

RunsInTransaction ==
    [][\A r \in Runners : HandedOver(r) =>
          /\ run[r].tx \in txSince[r]
          /\ run[r].tx # NoTx => run[r].tx \in txOpen]_ovars

=============================================================================
