---------------------------- MODULE ProfileStore ----------------------------
(***************************************************************************)
(* The saved connection profiles and their passwords: config.json          *)
(* (internal/config), credentials.json (internal/securestore), the start   *)
(* of the program that reads both, and the handlers of the connection      *)
(* dialog that write them.  Any call of the file system may fail, and the  *)
(* program may stop between any two of them.                               *)
(*                                                                         *)
(* A profile is known by its id; of its fields only the tick of "Save      *)
(* password" and whether it has a CredentialRef matter here.  Profiles are *)
(* a function of ids, the credential store the set of the ids whose        *)
(* password it holds (a ref is made from the id).  Names and labels are    *)
(* left out: the user may have selected any profile of the list.           *)
(***************************************************************************)
EXTENDS Integers, FiniteSets

CONSTANTS
    Ids, Legacy, NoId,    \* profile ids; that of a migrated configuration
    MaxMishaps, MaxRuns  \* bounds on failed calls and on program runs

ASSUME ProfileAssumption == Legacy \in Ids /\ NoId \notin Ids

VARIABLES
    configFile,   \* config.json: [kind, profiles]
    aside,        \* profiles in the .legacy.bak and .broken-* files
    temp,         \* the temporary file of writeFileAtomic, if there is one
    credFile,     \* credentials.json: a set of ids, or Unreadable
    pc,           \* what the UI thread does next
    job,          \* the profiles being saved and where to go from there
    cfg,          \* u.cfg.Connections
    entries,      \* Store.entries, or NoStore: u.secrets is nil
    pending,         \* the profile of the Connect in flight
    used, mishaps, runs,
    kept,         \* ghost: the profiles saved last
    warned,       \* ghost: "saving may overwrite it" was shown
    hurt,         \* ghost: "file", the store's file is damaged but its
                  \* entries are in memory; "lost", they are gone
    deleted       \* ghost: ids that the user deleted

disk == <<configFile, aside, temp, credFile>>
flow == <<pc, job, pending>>
memory == <<cfg, entries>>
bounds == <<used, mishaps, runs>>
witness == <<kept, warned, hurt, deleted>>
profileVars == <<disk, flow, memory, bounds, witness>>

Unreadable == {NoId}
NoStore == {NoId, Legacy}
NoProfiles == [i \in {} |-> 0]
Missing == [kind |-> "missing", profiles |-> NoProfiles]
NoSave == [new |-> NoProfiles, then |-> "idle", failed |-> "idle", storeFailed |-> "idle"]
NoConn == [id |-> NoId, tick |-> FALSE, ref |-> FALSE, typed |-> FALSE]

Mishap == mishaps < MaxMishaps /\ mishaps' = mishaps + 1
NoMishap == UNCHANGED mishaps

(* A file as an earlier version left it: none, of this version, of an      *)
(* older schema, without a schema, or not readable.                        *)
ProfileInit ==
    /\ \E kind \in {"missing", "current", "old", "legacy", "broken"} :
         configFile = IF kind = "missing" THEN Missing
                      ELSE [kind |-> kind,
                            profiles |-> [i \in {Legacy} |-> [tick |-> FALSE, ref |-> FALSE]]]
    /\ aside = {} /\ temp = {} /\ credFile = {}
    /\ pc = "off" /\ job = NoSave /\ cfg = NoProfiles /\ entries = NoStore
    /\ pending = NoConn
    /\ used = DOMAIN configFile.profiles /\ mishaps = 0 /\ runs = 0
    /\ kept = configFile.profiles /\ warned = FALSE /\ hurt = "no" /\ deleted = {}

-----------------------------------------------------------------------------
(* SaveConfig and writeFileAtomic: job.new goes to a temporary file, which *)
(* is renamed.  A temporary file that a stop leaves behind is never read.  *)

SaveJob(new, then, failed) ==
    [new |-> new, then |-> then, failed |-> failed, storeFailed |-> "idle"]

(* Mutant: the file itself is written.                                     *)
WriteInPlace ==
    /\ pc = "writeTemp"
    /\ \/ NoMishap /\ temp' = {job.new} /\ pc' = "rename"
       \/ Mishap /\ pc' = job.failed /\ UNCHANGED temp
    /\ configFile' = [kind |-> "broken", profiles |-> NoProfiles]
    /\ UNCHANGED <<aside, credFile, job, pending, memory, used, runs, witness>>

WriteTemp ==
    /\ pc = "writeTemp"
    /\ \/ NoMishap /\ temp' = {job.new} /\ pc' = "rename"
       \/ Mishap /\ pc' = job.failed /\ UNCHANGED temp
    /\ UNCHANGED <<configFile, aside, credFile, job, pending, memory, used, runs, witness>>

Rename ==
    /\ pc = "rename"
    /\ temp' = {}
    /\ \/ /\ NoMishap
          /\ \E p \in temp : configFile' = [kind |-> "current", profiles |-> p] /\ kept' = p
          /\ pc' = job.then
       \/ Mishap /\ pc' = job.failed /\ UNCHANGED <<configFile, kept>>
    /\ UNCHANGED <<aside, credFile, job, pending, memory, used, runs, warned, hurt, deleted>>

-----------------------------------------------------------------------------
(* main: LoadOrRecover, then securestore.New in RunWithConfig.             *)

(* The store's memory is gone with the process that had it.                *)
RunProgram ==
    /\ pc = "off" /\ runs < MaxRuns /\ runs' = runs + 1
    /\ pc' = "load"
    /\ cfg' = NoProfiles /\ entries' = NoStore
    /\ hurt' = IF hurt = "file" THEN "lost" ELSE hurt
    /\ UNCHANGED <<disk, job, pending, used, mishaps, kept, warned, deleted>>

(* LoadConfig.  A file of an older schema is saved again before it is      *)
(* used; of a new default file it does not matter whether it was saved.    *)
LoadConfig ==
    /\ pc = "load"
    /\ \/ /\ configFile.kind = "missing"
          /\ job' = SaveJob(NoProfiles, "store", "store")
          /\ pc' = "writeTemp" /\ NoMishap /\ UNCHANGED cfg
       \/ /\ configFile.kind = "current" /\ cfg' = configFile.profiles
          /\ pc' = "store" /\ NoMishap /\ UNCHANGED job
       \/ /\ configFile.kind = "old" /\ cfg' = configFile.profiles
          /\ job' = SaveJob(configFile.profiles, "store", "recover")
          /\ pc' = "writeTemp" /\ NoMishap
       \/ /\ configFile.kind = "legacy"
          /\ pc' = "migrate" /\ NoMishap /\ UNCHANGED <<cfg, job>>
       \/ /\ configFile.kind = "broken"
          /\ pc' = "recover" /\ NoMishap /\ UNCHANGED <<cfg, job>>
       \/ /\ configFile.kind # "missing" /\ Mishap   \* os.ReadFile
          /\ pc' = "recover" /\ UNCHANGED <<cfg, job>>
    /\ UNCHANGED <<disk, pending, entries, used, runs, witness>>

(* migrateLegacy: a copy of the file is left beside it.                    *)
MigrateLegacy ==
    /\ pc = "migrate"
    /\ \/ /\ NoMishap
          /\ aside' = aside \union {configFile.profiles}
          /\ cfg' = configFile.profiles
          /\ job' = SaveJob(configFile.profiles, "store", "recover")
          /\ pc' = "writeTemp"
       \/ Mishap /\ pc' = "recover" /\ UNCHANGED <<aside, cfg, job>>
    /\ UNCHANGED <<configFile, temp, credFile, pending, entries, used, runs, witness>>

Recover ==
    /\ pc = "recover"
    /\ cfg' = NoProfiles /\ pc' = "store"
    /\ \/ /\ NoMishap
          /\ aside' = aside \union {configFile.profiles} /\ configFile' = Missing
          /\ UNCHANGED warned
       \/ Mishap /\ warned' = TRUE /\ UNCHANGED <<aside, configFile>>
    /\ UNCHANGED <<temp, credFile, job, pending, entries, used, runs, kept, hurt, deleted>>

OpenStore ==
    /\ pc = "store" /\ pc' = "idle"
    /\ \/ NoMishap /\ entries' = IF credFile = Unreadable THEN NoStore ELSE credFile
       \/ Mishap /\ entries' = NoStore
    /\ UNCHANGED <<disk, job, pending, cfg, used, runs, witness>>

-----------------------------------------------------------------------------
(* Store.persist is os.WriteFile: the file is emptied, then written.       *)

(* The handler goes on to SaveConfig with its change made to u.cfg.        *)
Proceed(next) == pc' = next /\ cfg' = IF next = "writeTemp" THEN job.new ELSE cfg

TruncateStore ==
    /\ pc = "truncate"
    /\ \/ /\ NoMishap
          /\ credFile' = {} /\ hurt' = IF hurt = "no" THEN "file" ELSE hurt
          /\ pc' = "writeStore" /\ UNCHANGED cfg
       \/ Mishap /\ Proceed(job.storeFailed) /\ UNCHANGED <<credFile, hurt>>
    /\ UNCHANGED <<configFile, aside, temp, job, pending, entries, used, runs,
                   kept, warned, deleted>>

WriteStore ==
    /\ pc = "writeStore"
    /\ \/ /\ NoMishap
          /\ credFile' = entries /\ hurt' = IF hurt = "file" THEN "no" ELSE hurt
          /\ Proceed("writeTemp")
       \/ Mishap /\ credFile' \in {Unreadable, {}} /\ Proceed(job.storeFailed) /\ UNCHANGED hurt
    /\ UNCHANGED <<configFile, aside, temp, job, pending, entries, used, runs,
                   kept, warned, deleted>>

-----------------------------------------------------------------------------
(* The connection dialog                                                   *)

Upsert(id, tick, ref) ==
    [i \in DOMAIN cfg \union {id} |-> IF i = id THEN [tick |-> tick, ref |-> ref] ELSE cfg[i]]

(* buildProfile: an empty password field stands for the saved password.    *)
Built(id, tick, typed) ==
    LET reuse == /\ tick /\ ~typed /\ id \in DOMAIN cfg /\ entries # NoStore
                 /\ cfg[id].ref
    IN [id |-> id, tick |-> tick, ref |-> reuse, typed |-> typed \/ (reuse /\ id \in entries)]

Untick(p) ==
    /\ ~p.tick
    /\ job' = SaveJob(Upsert(p.id, FALSE, FALSE), "idle", "idle")
    /\ cfg' = job'.new
    /\ pc' = "writeTemp" /\ UNCHANGED entries

(* Mutant: the configuration is saved before the password.                 *)
SaveProfileFirst(p) ==
    \/ /\ p.tick /\ p.typed /\ entries # NoStore
       /\ entries' = entries \union {p.id}
       /\ job' = SaveJob(Upsert(p.id, TRUE, TRUE), "truncate", "idle")
       /\ pc' = "writeTemp" /\ cfg' = job'.new
    \/ Untick(p)

(* saveProfile; it does nothing but report when the password is empty or   *)
(* the store is missing.  Its branch that deletes a password whose tick    *)
(* was taken away is never taken: Built sets ref with the tick alone.      *)
SaveProfile(p) ==
    \/ /\ p.tick /\ p.typed /\ entries # NoStore
       /\ entries' = entries \union {p.id}
       /\ job' = SaveJob(Upsert(p.id, TRUE, TRUE), "idle", "idle")
       /\ pc' = "truncate" /\ UNCHANGED cfg
    \/ Untick(p)

Editing == DOMAIN cfg \union (Ids \ used)   \* a new profile gets an unused id

SaveClicked(id, tick, typed) ==
    /\ pc = "idle"
    /\ SaveProfile(Built(id, tick, typed))
    /\ used' = used \union {id}
    /\ UNCHANGED <<disk, pending, mishaps, runs, witness>>

(* The profile is that of the click; the dialog stays usable until the     *)
(* goroutine is back.                                                      *)
ConnectClicked(id, tick, typed) ==
    /\ pc = "idle" /\ pending = NoConn
    /\ pending' = Built(id, tick, typed)
    /\ used' = used \union {id}
    /\ UNCHANGED <<disk, pc, job, memory, mishaps, runs, witness>>

ConnectDone ==
    /\ pc = "idle" /\ pending # NoConn
    /\ pending' = NoConn
    /\ \/ SaveProfile(pending)
       \/ UNCHANGED <<pc, job, memory>>   \* not connected, not saved
    /\ UNCHANGED <<disk, bounds, witness>>

(* DuplicateProfile: the copy has no credential.                           *)
Duplicate(id) ==
    /\ pc = "idle" /\ id \notin used
    /\ DOMAIN cfg # {}
    /\ job' = SaveJob(Upsert(id, FALSE, FALSE), "idle", "idle")
    /\ cfg' = job'.new /\ pc' = "writeTemp"
    /\ used' = used \union {id}
    /\ UNCHANGED <<disk, pending, entries, mishaps, runs, witness>>

(* An error of Store.Delete is ignored.                                    *)
Delete(id) ==
    /\ pc = "idle" /\ id \in DOMAIN cfg
    /\ job' = [SaveJob([i \in DOMAIN cfg \ {id} |-> cfg[i]], "idle", "idle")
                 EXCEPT !.storeFailed = "writeTemp"]
    /\ deleted' = deleted \union {id}
    /\ \/ /\ cfg[id].ref /\ entries # NoStore
          /\ entries' = entries \ {id}
          /\ pc' = "truncate" /\ UNCHANGED cfg
       \/ /\ ~(cfg[id].ref /\ entries # NoStore)
          /\ cfg' = job'.new /\ pc' = "writeTemp" /\ UNCHANGED entries
    /\ UNCHANGED <<disk, pending, bounds, kept, warned, hurt>>

(* The settings dialog and the window that closes save what is there.      *)
SaveAgain(then) ==
    /\ pc = "idle" /\ pending = NoConn
    /\ job' = SaveJob(cfg, then, then) /\ pc' = "writeTemp"
    /\ UNCHANGED <<disk, pending, memory, bounds, witness>>

(* The program is killed or the machine stops.                             *)
Killed ==
    /\ pc # "off"
    /\ pc' = "off" /\ temp' = {} /\ pending' = NoConn
    /\ UNCHANGED <<configFile, aside, credFile, job, memory, bounds, witness>>

ProfileNext ==
    \/ RunProgram \/ LoadConfig \/ MigrateLegacy \/ Recover \/ OpenStore
    \/ WriteTemp \/ Rename \/ TruncateStore \/ WriteStore
    \/ \E id \in Editing, tick, typed \in BOOLEAN :
         SaveClicked(id, tick, typed) \/ ConnectClicked(id, tick, typed)
    \/ ConnectDone
    \/ \E id \in Ids : Duplicate(id) \/ Delete(id)
    \/ \E then \in {"idle", "off"} : SaveAgain(then)
    \/ Killed

ProfileSpec == ProfileInit /\ [][ProfileNext]_profileVars

-----------------------------------------------------------------------------
(* Properties                                                              *)

(* "A crash or full disk never leaves a truncated config behind", and a    *)
(* file that cannot be read is kept: at every moment, whatever failed and  *)
(* wherever the program stopped, the profiles saved last are in the        *)
(* configuration file or in one that was put aside - unless the user was   *)
(* told that saving may overwrite them (recover.go:11-60).                 *)
ProfilesSurvive ==
    \/ configFile.profiles = kept
    \/ kept \in aside
    \/ warned

(* A profile that is saved with a reference to its password has the        *)
(* password in the store, whichever of the two files a stop or a failed    *)
(* call left behind - unless a write of the store itself was cut off: that *)
(* file is written in place.  While the program runs on, the next write    *)
(* makes it whole again (store.go:73-110, walk_windows.go:2058-2080).      *)
RefsResolve ==
    hurt = "no" =>
        \A id \in DOMAIN configFile.profiles \ deleted :
            configFile.profiles[id].ref => credFile # Unreadable /\ id \in credFile

(* "deleting a profile also removes its saved password"                    *)
(* (docs/USER_GUIDE.md:132, walk_windows.go:1954).                         *)
DeletedTakesPassword ==
    pc = "idle" /\ entries # NoStore =>
        \A id \in deleted \ DOMAIN cfg : id \notin entries

=============================================================================
