-------------------------- MODULE MCApplicationUI --------------------------
(* ApplicationUI alone, for the runs that look for the hazards it has: two *)
(* queries and a command, so that Load more can pick the wrong one, and    *)
(* two tables, so that the answer for one can come when the other is       *)
(* selected.                                                               *)
EXTENDS ApplicationUI

CONSTANTS j1, j2, q1, q2, c1, t1, t2

MCSlots == {j1, j2}
MCQueries == {q1, q2}
MCCommands == {c1}
MCTables == {t1, t2}

=============================================================================
