------------------------------ MODULE Sessions ------------------------------
(***************************************************************************)
(* The sessions of the Manager from both sides: the calls that open and    *)
(* close them and read their metadata (SessionManager), and the statements *)
(* that run on them (Executor, StatementOverlap).  Connect, Disconnect,    *)
(* the transactions and the exit belong to both; a behaviour keeps to one  *)
(* side, because a metadata call and a statement meet only through those.  *)
(***************************************************************************)
EXTENDS StatementOverlap

CONSTANTS
    MaxOpenTxs,  \* bound on the transactions open beside metadata calls
    Profiles,    \* the profiles that are connected beside statements
    MaxConnects  \* bound on the Connects beside statements

VARIABLE part

sessionsVars == <<ovars, part>>

Connected == {o \in Objs : ses[o].state # "UNUSED"}

SessionsInit == OverlapInit /\ part \in {"calls", "statements"}

InCalls ==
    /\ part = "calls"
    /\ Next /\ UNCHANGED <<xvars, crossed, txSince>>
    /\ Cardinality(txOpen') <= MaxOpenTxs

InStatements ==
    /\ part = "statements"
    /\ OverlapNext
    /\ RegisteredIds' \subseteq Profiles
    /\ Cardinality(Connected') <= MaxConnects

SessionsNext == (InCalls \/ InStatements) /\ UNCHANGED part

SessionsSpec == SessionsInit /\ [][SessionsNext]_sessionsVars

(* The bounds forbid Connects and Begins only, of which no fairness is     *)
(* assumed; the Disconnect of the executor is one of SessionManager's.     *)
FairSessionsSpec == SessionsSpec /\ Fairness /\ ExecFairness

=============================================================================
