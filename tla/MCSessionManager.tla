-------------------------- MODULE MCSessionManager --------------------------
(* Model-checking instance of SessionManager: two profiles, so that a      *)
(* Disconnect has another session to activate; three Session objects, so   *)
(* that a profile can be connected again while its old object is in use.   *)
EXTENDS SessionManager, TLC

CONSTANTS a, b, o1, o2, o3, w1, w2, x1

MCIds == {a, b}
MCObjs == {o1, o2, o3}
MCWorkers == {w1, w2}
MCTxs == {x1}

(* Profiles, objects and goroutines are interchangeable: no definition     *)
(* names one of them.  Used by the safety runs only.                       *)
Interchangeable ==
    Permutations(MCIds) \union Permutations(MCObjs) \union Permutations(MCWorkers)

(* Smaller sets for the liveness run, which cannot use symmetry, and for   *)
(* the runs that look for a counterexample.                                *)
TwoObjs == {o1, o2}
OneWorker == {w1}
OneId == {a}

=============================================================================
