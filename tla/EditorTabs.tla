----------------------------- MODULE EditorTabs -----------------------------
(***************************************************************************)
(* The SQL tabs (internal/ui/walk_windows.go, recent_windows.go,           *)
(* internal/app/tabs.go): the text that is typed in them, the files they   *)
(* are saved to and opened from, the question before one is closed or the  *)
(* program ends, and the tabs that the next start brings back.             *)
(*                                                                         *)
(* Of a text it matters whether it is "empty", was read from or written to *)
(* a "file", or was "typed" since.  Paths that differ in case alone are    *)
(* one path.  Titles and fonts are left out, and so is the list of recent  *)
(* files: any path may be in it.                                           *)
(***************************************************************************)
EXTENDS Naturals, Sequences, SequencesExt, FiniteSets, Places

CONSTANTS
    Pages, NoPage, \* bound: tabs at a time
    Paths, NoPath,
    MaxTabFaults,  \* bound: calls that fail, and stops of the program
    MaxRestored    \* MaxRestoredFiles

ASSUME TabAssumption ==
    /\ IsFiniteSet(Pages) /\ NoPage \notin Pages
    /\ NoPath \notin Paths
    /\ MaxRestored \in Nat

VARIABLES
    tabs,        \* editorTabIndex: page -> [text, file, dirty, stray]
    order,       \* editorTabs.Pages()
    current,     \* editorTabs.CurrentIndex(), as a page
    files,       \* the paths where a file is
    remembered,  \* OpenFiles in config.json
    doing,       \* "off", "up", or what needs confirmDiscard: "close", "exit"
    asked,       \* the page confirmDiscard is called for
    confirmed,   \* it has returned true
    tabFaults,
    declined     \* ghost: pages whose changes the user gave up

tabVars == <<tabs, order, current, files, remembered, doing, asked, confirmed,
             tabFaults, declined>>
pages == <<tabs, order, current>>
asking == <<doing, asked, confirmed>>

TabFault == tabFaults < MaxTabFaults /\ tabFaults' = tabFaults + 1

Tab(text, file) == [text |-> text, file |-> file, dirty |-> FALSE, stray |-> FALSE]

TabInit ==
    /\ tabs = << >> /\ order = << >> /\ current = NoPage
    /\ files = Paths
    /\ remembered = << >>
    /\ doing = "off" /\ asked = NoPage /\ confirmed = FALSE
    /\ tabFaults = 0 /\ declined = {}

-----------------------------------------------------------------------------
(* Opening                                                                 *)

(* addEditorTab: the new tab is the last one and becomes the current one.  *)
AddEditorTab(t) ==
    /\ DOMAIN tabs # Pages
    /\ current' = CHOOSE p \in Pages \ DOMAIN tabs : TRUE
    /\ tabs' = [p \in DOMAIN tabs \union {current'} |->
                   IF p = current' THEN t ELSE tabs[p]]
    /\ order' = Append(order, current')

NewTab ==
    /\ doing = "up"
    /\ AddEditorTab(Tab("empty", NoPath))
    /\ UNCHANGED <<files, remembered, asking, tabFaults, declined>>

(* openSQLPath.  When the tab cannot be made the current one is taken for  *)
(* it: it gets the path and counts as unchanged ("stray").                 *)
OpenSQLPath(f) ==
    \/ AddEditorTab(Tab("file", f)) /\ UNCHANGED tabFaults
    \/ /\ TabFault
       /\ tabs' = [tabs EXCEPT ![current] =
                      [text |-> @.text, file |-> f, dirty |-> FALSE, stray |-> TRUE]]
       /\ UNCHANGED <<order, current>>

(* openSQLFile: a file of the open dialog.                                 *)
OpenSQLFile(f) ==
    /\ doing = "up" /\ f \in files
    /\ OpenSQLPath(f)
    /\ UNCHANGED <<files, remembered, asking, declined>>

Shows(f) == {p \in DOMAIN tabs : tabs[p].file = f}

(* openRecentFile, for a file that a tab shows.                            *)
SwitchToRecent(f) ==
    /\ doing = "up"
    /\ \E i \in DOMAIN order :
          /\ tabs[order[i]].file = f /\ \A k \in 1..i - 1 : tabs[order[k]].file # f
          /\ current' = order[i]
    /\ UNCHANGED <<tabs, order, files, remembered, asking, tabFaults, declined>>

(* openRecentFile, for another; one that is gone changes no tab.           *)
OpenRecentFile(f) ==
    /\ doing = "up" /\ Shows(f) = {} /\ f \in files
    /\ OpenSQLPath(f)
    /\ UNCHANGED <<files, remembered, asking, declined>>

-----------------------------------------------------------------------------
(* Editing: by keys, by a double click in the schema tree or as an         *)
(* appended quick query.                                                   *)

Edit ==
    /\ doing = "up"
    /\ tabs' = [tabs EXCEPT ![current] =
                   [text |-> "typed", file |-> @.file, dirty |-> TRUE, stray |-> @.stray]]
    /\ UNCHANGED <<order, current, files, remembered, asking, tabFaults, declined>>

SelectTab(p) ==
    /\ doing = "up" /\ p \in DOMAIN tabs \ {current}
    /\ current' = p
    /\ UNCHANGED <<tabs, order, files, remembered, asking, tabFaults, declined>>

-----------------------------------------------------------------------------
(* saveTab writes the file in place; a path is asked for when the tab has  *)
(* none, or for Save as.                                                   *)

Writable(p, asNew) == IF asNew \/ tabs[p].file = NoPath THEN Paths ELSE {tabs[p].file}

Written(p, f) ==
    /\ files' = files \union {f}
    /\ tabs' = [tabs EXCEPT ![p] = Tab("file", f)]
    /\ UNCHANGED tabFaults

WriteFails(f) ==
    /\ TabFault
    /\ files' \in {files, files \union {f}}   \* as it was, or cut short
    /\ UNCHANGED tabs

SaveTab(asNew) ==
    /\ doing = "up"
    /\ \E f \in Writable(current, asNew) : Written(current, f) \/ WriteFails(f)
    /\ UNCHANGED <<order, current, remembered, asking, declined>>

-----------------------------------------------------------------------------
(* confirmDiscard: a question for the tab, if it is dirty.                 *)

CloseCurrentTab ==
    /\ doing = "up" /\ doing' = "close" /\ asked' = current
    /\ UNCHANGED <<pages, files, remembered, confirmed, tabFaults, declined>>

(* confirmDiscardAll begins with the first tab.                            *)
ExitClicked ==
    /\ doing = "up" /\ doing' = "exit" /\ asked' = order[1]
    /\ UNCHANGED <<pages, files, remembered, confirmed, tabFaults, declined>>

Asking == doing \in {"close", "exit"} /\ ~confirmed

NotAsked ==
    /\ Asking /\ ~tabs[asked].dirty /\ confirmed' = TRUE
    /\ UNCHANGED <<pages, files, remembered, doing, asked, tabFaults, declined>>

BackToWindow == doing' = "up" /\ asked' = NoPage /\ confirmed' = FALSE /\ declined' = {}

Saves == \E f \in Writable(asked, FALSE) : Written(asked, f)

(* The write fails, or its dialog is cancelled.                            *)
SavesNot ==
    \/ \E f \in Writable(asked, FALSE) : WriteFails(f)
    \/ tabs[asked].file = NoPath /\ UNCHANGED <<tabs, files, tabFaults>>

(* Mutant: whether saveTab succeeded is not looked at.                     *)
AnswerYesRegardless ==
    /\ Asking /\ tabs[asked].dirty
    /\ Saves \/ SavesNot
    /\ confirmed' = TRUE /\ current' = asked
    /\ UNCHANGED <<order, remembered, doing, asked, declined>>

AnswerYes ==
    /\ Asking /\ tabs[asked].dirty
    /\ \/ Saves /\ confirmed' = TRUE /\ UNCHANGED <<doing, asked, declined>>
       \/ SavesNot /\ BackToWindow
    /\ current' = asked
    /\ UNCHANGED <<order, remembered>>

AnswerNo ==
    /\ Asking /\ tabs[asked].dirty
    /\ confirmed' = TRUE /\ declined' = declined \union {asked} /\ current' = asked
    /\ UNCHANGED <<tabs, order, files, remembered, doing, asked, tabFaults>>

AnswerCancel ==
    /\ Asking /\ tabs[asked].dirty
    /\ BackToWindow /\ current' = asked
    /\ UNCHANGED <<tabs, order, files, remembered, tabFaults>>

-----------------------------------------------------------------------------
(* What was confirmed is done.                                             *)

Place(p) == CHOOSE i \in DOMAIN order : order[i] = p

(* The one tab there is stays, without its text but with its path.         *)
ClearsOnlyTab ==
    /\ doing = "close" /\ confirmed /\ Len(order) = 1
    /\ tabs' = [tabs EXCEPT ![asked] = Tab("empty", tabs[asked].file)]
    /\ BackToWindow
    /\ UNCHANGED <<order, current, files, remembered, tabFaults>>

RemovesTab ==
    /\ doing = "close" /\ confirmed /\ Len(order) > 1
    /\ current' = order[IF Place(asked) > 1 THEN Place(asked) - 1 ELSE 2]
    /\ tabs' = [p \in DOMAIN tabs \ {asked} |-> tabs[p]]
    /\ order' = RemoveAt(order, Place(asked))
    /\ BackToWindow
    /\ UNCHANGED <<files, remembered, tabFaults>>

ConfirmNext ==
    /\ doing = "exit" /\ confirmed /\ asked # Last(order)
    /\ asked' = order[Place(asked) + 1] /\ confirmed' = FALSE
    /\ UNCHANGED <<pages, files, remembered, doing, tabFaults, declined>>

OpenFilePaths ==
    LET paths == [i \in DOMAIN order |-> tabs[order[i]].file]
    IN ElementsAt(paths, {i \in DOMAIN paths : paths[i] # NoPath})

RunIsOver ==
    /\ tabs' = << >> /\ order' = << >> /\ current' = NoPage
    /\ doing' = "off" /\ asked' = NoPage /\ confirmed' = FALSE /\ declined' = {}

(* The window closes; OpenFiles is saved, or not.                          *)
Exits ==
    /\ doing = "exit" /\ confirmed /\ asked = Last(order)
    /\ \/ remembered' = OpenFilePaths /\ UNCHANGED tabFaults
       \/ TabFault /\ UNCHANGED remembered
    /\ RunIsOver
    /\ UNCHANGED <<files>>

ProgramStops ==
    /\ doing # "off" /\ TabFault
    /\ RunIsOver
    /\ UNCHANGED <<files, remembered>>

-----------------------------------------------------------------------------
(* The next start                                                          *)

FirstOf(s, n) == SubSeq(s, 1, IF Len(s) < n THEN Len(s) ELSE n)

Exists(f) == f \in files

(* The files that are there, each where it is named first.                 *)
Restorable(list) ==
    {i \in DOMAIN list : Exists(list[i]) /\ \A k \in 1..i - 1 : list[k] # list[i]}

(* Mutant: the cap is applied before the list is cleaned up.               *)
FilesToRestoreCapFirst(list) ==
    LET first == FirstOf(list, MaxRestored) IN ElementsAt(first, Restorable(first))

FilesToRestore(list) == FirstOf(ElementsAt(list, Restorable(list)), MaxRestored)

(* Those of them that can be read.                                         *)
Opened(list, unreadable) ==
    ElementsAt(list, {i \in DOMAIN list : list[i] \notin unreadable})

(* The tab widget's pages in some order.                                   *)
Rows == {ps \in BoundedSeq(Pages, Cardinality(Pages)) : IsInjective(ps)}

(* A page of its own, then one for each file that can be read.             *)
NextStart(unreadable) ==
    /\ doing = "off" /\ doing' = "up"
    /\ IF unreadable = {} THEN UNCHANGED tabFaults ELSE TabFault
    /\ LET opened == Opened(FilesToRestore(remembered), unreadable)
           rows == {ps \in Rows : Len(ps) = 1 + Len(opened)}
           at(p) == CHOOSE i \in DOMAIN order' : order'[i] = p
       IN /\ rows # {} /\ order' = CHOOSE ps \in rows : TRUE
          /\ tabs' = [p \in ToSet(order') |->
                        IF at(p) = 1 THEN Tab("empty", NoPath)
                        ELSE Tab("file", opened[at(p) - 1])]
          /\ current' = Last(order')
    /\ UNCHANGED <<files, remembered, asked, confirmed, declined>>

(* Somebody removes a file.                                                *)
FileRemoved(f) ==
    /\ Exists(f) /\ TabFault
    /\ files' = files \ {f}
    /\ UNCHANGED <<pages, remembered, asking, declined>>

TabNext ==
    \/ NewTab \/ Edit \/ \E p \in Pages : SelectTab(p)
    \/ \E f \in Paths : OpenSQLFile(f) \/ OpenRecentFile(f)
                          \/ SwitchToRecent(f) \/ FileRemoved(f)
    \/ \E asNew \in BOOLEAN : SaveTab(asNew)
    \/ CloseCurrentTab \/ ExitClicked
    \/ NotAsked \/ AnswerYes \/ AnswerNo \/ AnswerCancel
    \/ ClearsOnlyTab \/ RemovesTab \/ ConfirmNext \/ Exits
    \/ ProgramStops
    \/ \E unreadable \in SUBSET Paths : NextStart(unreadable)

TabSpec == TabInit /\ [][TabNext]_tabVars

-----------------------------------------------------------------------------
(* Properties                                                              *)

(* A tab that was taken for one that could not be made is left out: it was *)
(* marked unchanged with the user's text in it.                            *)
Unsaved(p) == tabs[p].text = "typed" /\ ~tabs[p].stray

(* "Closing a modified tab or exiting asks whether to save" (docs/         *)
(* USER_GUIDE.md:93): as long as the program is not stopped from outside,  *)
(* unsaved text leaves the window only after the user gave up the changes  *)
(* of that very tab in this very attempt - over several tabs with          *)
(* different answers, saves that fail, dialogs that are cancelled and two  *)
(* tabs of one file (walk_windows.go:522-561, 1088-1160, 334-350).         *)
AskedBeforeLoss ==
    [][ Edit \/ ProgramStops \/
        \A p \in DOMAIN tabs : Unsaved(p) =>
            \/ p \in DOMAIN tabs' /\ tabs'[p].text \in {"typed", "file"}
            \/ p \in declined ]_tabVars

(* "the SQL files open in tabs (reopened at startup)" (docs/USER_GUIDE.md: *)
(* 148): every remembered file that can be read is open after the start,   *)
(* none in two tabs, in the remembered order - unless as many files as are *)
(* ever reopened are open without it (app/tabs.go:15-34).                  *)
RestoredAsLeft ==
    [][ doing = "off" /\ doing' = "up" =>
        LET shown == [i \in DOMAIN order' |-> tabs'[order'[i]].file]
            Before(f, g) == \A j \in DOMAIN remembered : remembered[j] = g =>
                                \E i \in 1..j : remembered[i] = f
        IN /\ \A i, j \in 2..Len(shown) : i < j =>
                  shown[i] # shown[j] /\ Before(shown[i], shown[j])
           /\ tabFaults' = tabFaults =>
                  \A f \in ToSet(remembered) : Exists(f) =>
                      f \in ToSet(shown) \/ Len(shown) = 1 + MaxRestored ]_tabVars

(* "the SQL files open in tabs (reopened at startup)" (docs/USER_GUIDE.md: *)
(* 148): a file whose only tab the user closed is none of them any more.   *)
ClosedIsNotReopened ==
    [][ doing = "close" /\ confirmed /\ Shows(tabs[asked].file) = {asked} =>
            doing' = "close" \/ tabs[asked].file \notin ToSet(OpenFilePaths') ]_tabVars

=============================================================================
