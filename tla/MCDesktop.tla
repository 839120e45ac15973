----------------------------- MODULE MCDesktop -----------------------------
(* Model-checking instance of Desktop.  The window: one query and one      *)
(* command, two tables and two selections, so that the details of the      *)
(* first can come back last.  The history: six records with a limit of two *)
(* and a queue of two let the file be compacted after a crash and a        *)
(* restart.  The profiles: two ids, one of them that of a migrated file,   *)
(* one failed call, and two runs, so that the second meets what the first  *)
(* left behind.                                                            *)
EXTENDS Desktop

CONSTANTS j1, j2, q1, c1, t1, t2, p1, p2

MCSlots == {j1, j2}
MCQueries == {q1}
MCCommands == {c1}
MCTables == {t1, t2}
MCIds == {p1, p2}

(* Finding the records of a file by their places, as Valid does, is the    *)
(* same as selecting the lines that parse, for every file of up to five.   *)
ASSUME ValidSelects ==
    \A n \in 0..5 : \A f \in [1..n -> Corrupt..3] :
        Valid(f) = SelectSeq(f, LAMBDA line : line # Corrupt)

=============================================================================
