----------------------------- MODULE MainWindow -----------------------------
(***************************************************************************)
(* The main window: the way of a statement (QueryRun) and what stands      *)
(* around it, the tabs and the schema tree (QueryWindow).  The way of a    *)
(* statement begins with a text, and the tabs hold texts as values; the    *)
(* tree has a lock and a connection of its own.  So the two share no       *)
(* state, and that one run explores both from their own beginnings, one is *)
(* used while the other rests.                                             *)
(***************************************************************************)
EXTENDS QueryRun, QueryWindow

MainWindowInit == QueryRunInit /\ WindowInit

OnStatement ==
    /\ WindowInit
    /\ InEditor \/ InExecutor \/ InGrid
    /\ UNCHANGED windowParts

OnWindow ==
    /\ QueryRunInit
    /\ InTree \/ InTabs
    /\ UNCHANGED runVars

MainWindowSpec ==
    MainWindowInit /\ [][OnStatement \/ OnWindow]_<<runVars, windowParts>>

=============================================================================
