---------------------------- MODULE QueryWindow ----------------------------
(***************************************************************************)
(* What stands around the statement that runs: the tabs (EditorTabs) and   *)
(* the schema tree (SchemaCache) of the main window.  They share no state; *)
(* so that one run explores both from their own beginnings, one is used    *)
(* while the other is at rest.                                             *)
(***************************************************************************)
EXTENDS SchemaCache, EditorTabs

windowParts == <<schemaVars, tabVars>>

(* The tree starts with one of the sessions active: they are all alike.    *)
TreeInit == SchemaInit /\ active = CHOOSE s \in Sessions : TRUE

WindowInit == TreeInit /\ TabInit

InTree == TabInit /\ SchemaNext /\ UNCHANGED tabVars

InTabs == TreeInit /\ TabNext /\ UNCHANGED schemaVars

WindowSpec == WindowInit /\ [][InTree \/ InTabs]_windowParts

=============================================================================
