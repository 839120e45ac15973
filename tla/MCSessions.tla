----------------------------- MODULE MCSessions -----------------------------
(* Model-checking instances of Sessions.                                   *)
EXTENDS Sessions, TLC

CONSTANTS a, b, o1, o2, o3, w1, w2, r1, r2, x1, x2

(* Two profiles, so that a Disconnect has another session to activate;     *)
(* three Session objects, so that a profile can be connected again while   *)
(* its old object is in use; two goroutines that run statements, without   *)
(* the gate, so that they meet on a session; two transactions, so that one *)
(* can end and the next begin while a statement is on its way.             *)
MCIds == {a, b}
MCObjs == {o1, o2, o3}
MCWorkers == {w1, w2}
MCTxs == {x1, x2}
MCRunners == {r1, r2}

(* Used by the safety run only.                                            *)
Interchangeable ==
    Permutations(MCIds) \union Permutations(MCObjs) \union Permutations(MCWorkers)
      \union Permutations(MCRunners) \union Permutations(MCTxs)

(* Beside statements there is no script, of which a statement adds its    *)
(* reset and check, and no exit, which to a statement is the Disconnect of *)
(* its session.                                                            *)
StatementsOnly ==
    part = "statements" => ~exiting /\ \A r \in Runners : ~run[r].script

(* Smaller sets for the liveness run, which cannot use symmetry.           *)
TwoObjs == {o1, o2}
OneWorker == {w1}
OneRunner == {r1}
OneTx == {x1}
OneProfile == {a}

=============================================================================
