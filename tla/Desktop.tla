------------------------------ MODULE Desktop ------------------------------
(***************************************************************************)
(* The process around the sessions: the main window (ApplicationUI), the   *)
(* history that its statements feed (QueryHistory) and the profiles that   *)
(* its connection dialog edits (ProfileStore).  They share no state: the   *)
(* history has a file, a lock and a goroutine of its own, and the dialog   *)
(* is modal.  So that one run explores all three, one moves while the      *)
(* others are where they begin.                                            *)
(***************************************************************************)
EXTENDS ApplicationUI, QueryHistory, ProfileStore

desktopVars == <<uvars, hvars, profileVars>>

DesktopInit == UIInit /\ HistInit /\ ProfileInit

(* ProfileInit, with one of the files it begins with.                      *)
ProfilesRest == ProfileInit /\ configFile = Missing

InWindow == HistInit /\ ProfilesRest /\ UINext /\ UNCHANGED <<hvars, profileVars>>

InHistory == UIInit /\ ProfilesRest /\ HistNext /\ UNCHANGED <<uvars, profileVars>>

InProfiles == UIInit /\ HistInit /\ ProfileNext /\ UNCHANGED <<uvars, hvars>>

(* The last run of the program that the bound allows is over.              *)
ProfilesEnd == pc = "off" /\ runs = MaxRuns /\ UNCHANGED desktopVars

DesktopNext == InWindow \/ InHistory \/ InProfiles \/ ProfilesEnd

(* The fairness of FairUISpec and of FairHistSpec.                         *)
DesktopSpec ==
    /\ DesktopInit /\ [][DesktopNext]_desktopVars
    /\ \A s \in Slots : WF_uvars(Goroutine(s)) /\ WF_uvars(Callback(s))
    /\ WF_hvars(WriterStep) /\ WF_hvars(Closing)

=============================================================================
