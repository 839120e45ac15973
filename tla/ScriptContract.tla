--------------------------- MODULE ScriptContract ---------------------------
(***************************************************************************)
(* What the executor promises the user of F5 and F6, whatever it takes to  *)
(* keep it: the statements of a submission reach the database in order,    *)
(* one at a time, each at most once ("Every statement runs exactly once",  *)
(* docs/USER_GUIDE.md section 3), and none does once a cancel has been     *)
(* accepted.                                                               *)
(***************************************************************************)
EXTENDS Naturals

CONSTANTS Runners, MaxStatements

VARIABLES
    left,    \* statements of the submission not yet begun
    busy,    \* one of them is at the database
    stopped  \* the user's cancel was accepted

vars == <<left, busy, stopped>>

Init ==
    /\ left = [r \in Runners |-> 0]
    /\ busy = [r \in Runners |-> FALSE]
    /\ stopped = [r \in Runners |-> FALSE]

Submit(r) ==
    /\ left[r] = 0 /\ ~busy[r]
    /\ left' \in {[left EXCEPT ![r] = n] : n \in 1..MaxStatements}
    /\ stopped' = [stopped EXCEPT ![r] = FALSE]
    /\ UNCHANGED busy

Execute(r) ==
    /\ left[r] > 0 /\ ~busy[r] /\ ~stopped[r]
    /\ left' = [left EXCEPT ![r] = @ - 1]
    /\ busy' = [busy EXCEPT ![r] = TRUE]
    /\ UNCHANGED stopped

Complete(r) ==
    /\ busy[r]
    /\ busy' = [busy EXCEPT ![r] = FALSE]
    /\ UNCHANGED <<left, stopped>>

(* A statement fails before it reaches the database.                       *)
Skip(r) ==
    /\ left[r] > 0 /\ ~busy[r]
    /\ left' = [left EXCEPT ![r] = @ - 1]
    /\ UNCHANGED <<busy, stopped>>

Stop(r) ==
    /\ stopped' = [stopped EXCEPT ![r] = TRUE]
    /\ UNCHANGED <<left, busy>>

(* The submission ends; what is left of it is given up.                    *)
End(r) ==
    /\ ~busy[r]
    /\ left' = [left EXCEPT ![r] = 0]
    /\ stopped' = [stopped EXCEPT ![r] = FALSE]
    /\ UNCHANGED busy

Next ==
    \E r \in Runners :
        Submit(r) \/ Execute(r) \/ Complete(r) \/ Skip(r) \/ Stop(r) \/ End(r)

Spec == Init /\ [][Next]_vars

=============================================================================
