---------------------------- MODULE MCMainWindow ---------------------------
(* Model-checking instance of MainWindow.                                  *)
(* The editor: every short text over a few alphabets, each with the        *)
(* characters of one of the things that can go wrong together.             *)
(* The executor: two profiles, so that the active session can change under *)
(* a running script; two Session objects, so that a profile can be         *)
(* connected again after a Disconnect; one goroutine for the Connects, one *)
(* for the statements, scripts of up to two statements.                    *)
(* The grid: results that mix the cells the sort and the export formats    *)
(* tell apart.                                                             *)
(* The tree: two sessions whose databases have a table of the same name,   *)
(* so that one's columns can end up with the other's; a goroutine that     *)
(* reads or refreshes while the UI thread loads for the search box; a      *)
(* schema change or a switch of the session.                               *)
(* The tabs: three, and two files, two of which are reopened: the same     *)
(* file in two tabs, a tab without a file, and an exit over all three.     *)
EXTENDS MainWindow

CONSTANTS a, b, o1, o2, w1, r1, x1, s1, s2, t1, g1, f1, f2, tab1, tab2, tab3

MCIds == {a, b}
MCObjs == {o1, o2}
MCWorkers == {w1}
MCTxs == {x1}
MCRunners == {r1}

MCSessions == {s1, s2}
OneTable == {t1}
NoHits == {}
OneJob == {g1}
MCPages == {tab1, tab2, tab3}
MCPaths == {f1, f2}

(* The profiles, the objects and the files at once: no two of them meet.   *)
Flip == [v \in MCIds \union MCObjs \union MCPaths |->
    CASE v = a -> b [] v = b -> a [] v = o1 -> o2 [] v = o2 -> o1
      [] v = f1 -> f2 [] v = f2 -> f1]

Interchangeable == {Flip} \union Permutations(MCPages)

MCAlphabets == {{"'", "-", "\n", ";"}, {"/", "*", ";", "'"},
                {"S", "(", "/", "*"}, {"W", ";", " "}, {"'", "\"", ";", "?"},
                {"[", ";", "'"}}

MCCharCode == [ch \in {"\t", "\n", "\r", " ", "\"", "(", ",", "0", "1", "2",
                       "A", "B", "NaN", "a", "b", "|"} |->
    CASE ch = "\t" -> 9 [] ch = "\n" -> 10 [] ch = "\r" -> 13 [] ch = " " -> 32
      [] ch = "\"" -> 34 [] ch = "(" -> 40 [] ch = "," -> 44
      [] ch = "0" -> 48 [] ch = "1" -> 49 [] ch = "2" -> 50
      [] ch = "A" -> 65 [] ch = "B" -> 66 [] ch = "NaN" -> 78
      [] ch = "a" -> 97 [] ch = "b" -> 98 [] ch = "|" -> 124]

Null == "NULL"
Numbers == {Null, <<" ", "2">>, <<"1", "0">>, <<"2">>, <<"NaN">>}
Texts == {Null, <<"1", "0">>, <<"a">>, <<"B">>, <<"A">>}
TextCells == {Null, <<>>, <<",">>, <<"\"">>, <<"a", "\"", ",">>, <<"\r", "\n">>,
              <<"\t", "a">>, <<" ">>, <<"|">>, <<"1", "2", "2", "2">>}
Names == {<<>>, <<"column">>, <<"column", "2">>, <<"column", "2", "2">>}

(* A table of the cells of seqs, a NULL being an empty text with its flag. *)
Table(names, cells) ==
    [columns |-> names,
     rows |-> [r \in DOMAIN cells |-> [c \in DOMAIN cells[r] |->
                 IF cells[r][c] = Null THEN <<>> ELSE cells[r][c]]],
     nulls |-> [r \in DOMAIN cells |-> [c \in DOMAIN cells[r] |-> cells[r][c] = Null]]]

MCResults ==
    {Table(<<<<"a">>, <<"b">>>>, <<<<x, <<"2">>>>, <<y, <<"1">>>>, <<z, <<"2">>>>>>) :
        <<x, y, z>> \in (Numbers \X Numbers \X Numbers) \union (Texts \X Texts \X Texts)}
      \union {Table(<<<<"a", ",">>, <<"|">>>>, <<<<x, y>>>>) : x, y \in TextCells}
      \union {Table(<<<<"a">>>>, <<<<x>>, <<y>>>>) : x, y \in TextCells}
      \union {Table(n, <<[c \in 1..3 |-> Null]>>) : n \in [1..3 -> Names]}
      \union {Table(<<<<"a">>>>, <<>>)}
=============================================================================
