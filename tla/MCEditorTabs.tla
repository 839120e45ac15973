---------------------------- MODULE MCEditorTabs ----------------------------
(* EditorTabs alone, for the run that looks for a file that is reopened    *)
(* although the user closed its tab: two tabs, no call fails.              *)
EXTENDS EditorTabs
CONSTANTS f1, f2, tab1, tab2
MCPages == {tab1, tab2}
MCPaths == {f1, f2}
=============================================================================
