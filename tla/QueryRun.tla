------------------------------ MODULE QueryRun ------------------------------
(***************************************************************************)
(* The way of a statement: it is cut out of the editor's text (SqlText),   *)
(* executed on a session (Executor), and its result is shown, sorted and   *)
(* exported (ResultGrid).  A statement is a value to the executor and so   *)
(* is a result, so the three share no state; that one run explores all of  *)
(* them from their own beginnings, one is used while the others rest.      *)
(***************************************************************************)
EXTENDS Executor, SqlText, ResultGrid

runVars == <<evars, textVars, gridVars>>

QueryRunInit == ExecInit /\ TextInit /\ GridInit

InEditor ==
    /\ columns = <<>> /\ ExecInit
    /\ TextNext /\ UNCHANGED <<evars, gridVars>>

InExecutor ==
    /\ alphabet = {} /\ columns = <<>>
    /\ ExecNext /\ UNCHANGED <<textVars, gridVars>>

InGrid ==
    /\ alphabet = {} /\ ExecInit
    /\ GridNext /\ UNCHANGED <<evars, textVars>>

QueryRunSpec == QueryRunInit /\ [][InEditor \/ InExecutor \/ InGrid]_runVars

=============================================================================
