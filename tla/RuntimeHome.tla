----------------------------- MODULE RuntimeHome -----------------------------
(***************************************************************************)
(* A runtime home, the directory that holds state.sqlite, and the          *)
(* processes that open it (store.ts), migrate it (state-migrations.ts),    *)
(* back it up and restore a backup into it (backup.ts).                    *)
(*                                                                         *)
(* Only the migration is a transaction.  open is a series of statements    *)
(* after an inspection, a backup and a restore are series of file          *)
(* operations; other processes run between any two, and a call ends        *)
(* anywhere, by a crash or by an error.                                    *)
(*                                                                         *)
(* Files are numbered as inodes are: a process keeps the file it opened    *)
(* when the directory goes.  A digest is the content it was computed from. *)
(***************************************************************************)
EXTENDS Naturals, FiniteSets

CONSTANTS
  Users,           \* processes
  CURRENT_STATE_SCHEMA_VERSION,
  Registry,        \* migration steps, [source, target]
  NoMarker,        \* no state_schema_version; the source "legacy-unversioned"
  Mixed,         \* a layout no version has
  MaxFiles,        \* bound on the files ever made, for model checking
  MaxWrites        \* likewise on the commits to a file

Versions == {NoMarker} \cup 0..(CURRENT_STATE_SCHEMA_VERSION + 1)

ASSUME HomeAssumption ==
  /\ CURRENT_STATE_SCHEMA_VERSION \in Nat \ {0}
  /\ NoMarker \notin Nat /\ Mixed \notin Nat \cup {NoMarker}
  /\ Registry \subseteq [source : Versions, target : Versions] /\ IsFiniteSet(Registry)
  /\ MaxFiles \in Nat \ {0} /\ MaxWrites \in Nat

Files == 1..MaxFiles

VARIABLES
  files,           \* files[i]: a database
  home,            \* 0 when the directory is absent or empty, else its state.sqlite
  directory,       \* whether the directory exists
  backup,          \* one backup directory: its file and its manifest, and whether it
                   \* changed between a check of it and the use of it (history)
  user             \* user[p]: what a process is doing

homeVars == <<files, home, directory, backup, user>>

(* layout is what the tables of the file hold, marker what it says.        *)
NoFile == [tables |-> {"none"}, marker |-> NoMarker, layout |-> NoMarker,
           data |-> "none", writes |-> 0]

Blank == [NoFile EXCEPT !.tables = {}, !.data = "whole"]

Born(marker) == [Blank EXCEPT !.tables = {"documents"} \cup (IF marker = NoMarker THEN {}
                                                             ELSE {"metadata"}),
                              !.marker = marker, !.layout = marker]

NoBackup == [file |-> 0, manifest |-> NoFile, late |-> FALSE]

Away == [step |-> "away", file |-> 0, saw |-> "none", found |-> 0,
         cursor |-> NoMarker, work |-> NoFile]

(* A home of any version, or none yet beside a backup of another home.     *)
HomeInit ==
  /\ \/ /\ \E version \in Versions :
            files = [i \in Files |-> IF i = 1 THEN Born(version) ELSE NoFile]
        /\ home = 1 /\ directory = TRUE
        /\ backup = NoBackup
     \/ LET saved == Born(CURRENT_STATE_SCHEMA_VERSION) IN
        /\ files = [i \in Files |-> IF i = 1 THEN saved ELSE NoFile]
        /\ home = 0 /\ directory \in BOOLEAN
        /\ backup = [file |-> 1, manifest |-> saved, late |-> FALSE]
  /\ user = [p \in Users |-> Away]

Does(p, step) == user[p].step = step

Turn(p, step) == user' = [user EXCEPT ![p].step = step]

Leave(p) == user' = [user EXCEPT ![p] = Away]

FreshFile(i) == files[i] = NoFile /\ \A j \in 1..(i - 1) : files[j] # NoFile

(* A writer waits while another process holds the write lock of its file.  *)
Unlocked(i) == \A q \in Users : user[q].file = i => ~Does(q, "migrating")

-----------------------------------------------------------------------------
(* Mutant: every file without a marker is taken for a new one.             *)
InspectMarker(f) ==
  IF f.marker \in {NoMarker, CURRENT_STATE_SCHEMA_VERSION} THEN "current" ELSE "invalid"

(* pathFrom: following the first step of each source leads to the current  *)
(* version, without coming by a source twice.                              *)
StepFrom(source) == CHOOSE s \in Registry : s.source = source

PathExists(source) ==
  \E path \in [1..Cardinality(Registry) -> Registry] : \E n \in 1..Cardinality(Registry) :
    /\ path[1].source = source /\ path[n].target = CURRENT_STATE_SCHEMA_VERSION
    /\ \A k \in 1..(n - 1) : path[k].target = path[k + 1].source
    /\ \A k \in 1..n : path[k] = StepFrom(path[k].source) /\ path[k].target \in Nat \ {0}

(* tableNames and marker: without its table there is no marker.            *)
Marker(f) == IF "metadata" \in f.tables THEN f.marker ELSE NoMarker

(* inspectWithRegistry.                                                    *)
Inspect(f) ==
  LET required(source) == IF PathExists(source) THEN "migration-required" ELSE "invalid"
      marked == "metadata" \in f.tables IN
  CASE f.tables = {} -> "fresh"
    [] f.tables # {} /\ ~marked -> required(NoMarker)
    [] marked /\ Marker(f) = NoMarker -> "invalid"
    [] marked /\ Marker(f) = CURRENT_STATE_SCHEMA_VERSION -> "current"
    [] marked /\ Marker(f) \in Nat /\ Marker(f) > CURRENT_STATE_SCHEMA_VERSION -> "future"
    [] marked /\ Marker(f) \in Nat /\ Marker(f) < CURRENT_STATE_SCHEMA_VERSION -> required(Marker(f))

(* open: mkdir, and the inspection when there is a database.               *)
OpenInspect(p) ==
  /\ Does(p, "away")
  /\ home # 0 => Inspect(files[home]) \in {"fresh", "current"}
  /\ directory' = TRUE
  /\ Turn(p, "connect")
  /\ UNCHANGED <<files, home, backup>>

(* Mutant: the directory that open made is taken for granted.              *)
ConnectAnywhere(p) ==
  /\ Does(p, "connect")
  /\ IF home # 0 THEN UNCHANGED <<files, home>>
     ELSE \E i \in Files : FreshFile(i) /\ home' = i /\ files' = [files EXCEPT ![i] = Blank]
  /\ user' = [user EXCEPT ![p] = [@ EXCEPT !.step = "metadata", !.file = home']]
  /\ UNCHANGED <<directory, backup>>

(* new DatabaseSync makes the file when there is none.                     *)
Connect(p) ==
  /\ Does(p, "connect")
  /\ IF ~directory
     THEN Leave(p) /\ UNCHANGED <<files, home>>
     ELSE /\ IF home # 0 THEN UNCHANGED <<files, home>>
             ELSE \E i \in Files : FreshFile(i) /\ home' = i /\ files' = [files EXCEPT ![i] = Blank]
          /\ user' = [user EXCEPT ![p] = [@ EXCEPT !.step = "metadata", !.file = home']]
  /\ UNCHANGED <<directory, backup>>

CreateMetadata(p) ==
  LET i == user[p].file IN
  /\ Does(p, "metadata") /\ Unlocked(i)
  /\ files' = [files EXCEPT ![i].tables = @ \cup {"metadata"}]
  /\ Turn(p, "marker")
  /\ UNCHANGED <<home, directory, backup>>

(* SELECT the marker: absent, wrong or current.                            *)
SelectMarker(p) ==
  LET marker == files[user[p].file].marker IN
  /\ Does(p, "marker")
  /\ CASE marker = NoMarker -> Turn(p, "insert")
       [] marker = CURRENT_STATE_SCHEMA_VERSION -> Turn(p, "tables")
       [] OTHER -> Leave(p)
  /\ UNCHANGED <<files, home, directory, backup>>

(* The plain INSERT fails when another open has been faster.               *)
InsertMarker(p) ==
  LET i == user[p].file IN
  /\ Does(p, "insert") /\ Unlocked(i)
  /\ IF files[i].marker # NoMarker
     THEN Leave(p) /\ UNCHANGED files
     ELSE /\ files' = [files EXCEPT ![i].marker = CURRENT_STATE_SCHEMA_VERSION,
                                    ![i].layout = IF files[i].tables = {"metadata"}
                                                  THEN CURRENT_STATE_SCHEMA_VERSION ELSE @]
          /\ Turn(p, "tables")
  /\ UNCHANGED <<home, directory, backup>>

CreateTables(p) ==
  LET i == user[p].file IN
  /\ Does(p, "tables") /\ Unlocked(i)
  /\ files' = [files EXCEPT ![i].tables = @ \cup {"documents"}]
  /\ Turn(p, "open")
  /\ UNCHANGED <<home, directory, backup>>

Write(p) ==
  LET i == user[p].file IN
  /\ Does(p, "open") /\ Unlocked(i)
  /\ files[i].writes < MaxWrites
  /\ files' = [files EXCEPT ![i].writes = @ + 1]
  /\ UNCHANGED <<home, directory, backup, user>>

-----------------------------------------------------------------------------
(* applyStateMigrations: the plan, made before the transaction.            *)
PlanMigration(p) ==
  /\ Does(p, "away")
  /\ home # 0 /\ Inspect(files[home]) = "migration-required"
  /\ user' = [user EXCEPT ![p] = [@ EXCEPT !.step = "planned", !.file = home,
                                           !.cursor = files[home].marker]]
  /\ UNCHANGED <<files, home, directory, backup>>

(* BEGIN IMMEDIATE.                                                        *)
BeginMigration(p) ==
  LET i == user[p].file IN
  /\ Does(p, "planned") /\ Unlocked(i)
  /\ user' = [user EXCEPT ![p] = [@ EXCEPT !.step = "migrating", !.work = files[i]]]
  /\ UNCHANGED <<files, home, directory, backup>>

(* Mutant: the plan is not held against the database again.                *)
NoPrecondition(p) == TRUE

(* legacyPrecondition; a step of a version looks for that version.         *)
Precondition(p) ==
  IF user[p].cursor = NoMarker
  THEN "metadata" \notin user[p].work.tables /\ "documents" \in user[p].work.tables
  ELSE user[p].work.marker = user[p].cursor

(* precondition, apply, writeMarker, verify of one planned step.           *)
MigrateStep(p) ==
  LET step == StepFrom(user[p].cursor)
      work == user[p].work IN
  /\ Does(p, "migrating") /\ user[p].cursor # CURRENT_STATE_SCHEMA_VERSION
  /\ Precondition(p)
  /\ user' = [user EXCEPT ![p] = [@ EXCEPT !.cursor = step.target,
       !.work = [work EXCEPT !.tables = @ \cup {"metadata"}, !.marker = step.target,
                   !.layout = IF @ = step.source THEN step.target ELSE Mixed]]]
  /\ UNCHANGED <<files, home, directory, backup>>

AllStepsDone(p) == user[p].cursor = CURRENT_STATE_SCHEMA_VERSION

Commit(p) ==
  /\ Does(p, "migrating") /\ AllStepsDone(p)
  /\ files' = [files EXCEPT ![user[p].file] = user[p].work]
  /\ Leave(p)
  /\ UNCHANGED <<home, directory, backup>>

-----------------------------------------------------------------------------
(* stateSchemaVersion: a query of a table that is not there is no error.   *)
StateSchemaVersion(f) == IF "metadata" \in f.tables THEN f.marker ELSE NoMarker

(* createRuntimeBackup: a fresh directory, then the checks of the source.  *)
BeginBackup(p) ==
  /\ Does(p, "away")
  /\ backup = NoBackup
  /\ home # 0 /\ StateSchemaVersion(files[home]) = CURRENT_STATE_SCHEMA_VERSION
  /\ user' = [user EXCEPT ![p] = [@ EXCEPT !.step = "vacuum", !.file = home]]
  /\ UNCHANGED <<files, home, directory, backup>>

(* VACUUM INTO reads one snapshot and writes it out.                       *)
Vacuum(p) ==
  /\ Does(p, "vacuum")
  /\ backup = NoBackup
  /\ \E i \in Files :
       /\ FreshFile(i)
       /\ files' = [files EXCEPT ![i] = [files[user[p].file] EXCEPT !.data = "partial"]]
       /\ backup' = [backup EXCEPT !.file = i]
  /\ Turn(p, "vacuuming")
  /\ UNCHANGED <<home, directory>>

VacuumEnds(p) ==
  /\ Does(p, "vacuuming")
  /\ files' = [files EXCEPT ![backup.file].data = "whole"]
  /\ Turn(p, "manifest")
  /\ UNCHANGED <<home, directory, backup>>

(* The manifest comes last and is all or nothing: a part of one is no JSON. *)
WriteManifest(p) ==
  /\ Does(p, "manifest")
  /\ backup' = [backup EXCEPT !.manifest = files[backup.file]]
  /\ Leave(p)
  /\ UNCHANGED <<files, home, directory>>

(* The catch block removes the directory.                                  *)
BackupFails(p) ==
  /\ Does(p, "vacuuming") \/ Does(p, "manifest")
  /\ backup' = NoBackup
  /\ Leave(p)
  /\ UNCHANGED <<files, home, directory>>

(* A file of a backup changes behind the program's back.                   *)
DamageBackup ==
  /\ backup.file # 0 /\ files[backup.file].data = "whole"
  /\ files' = [files EXCEPT ![backup.file].data = "damaged"]
  /\ backup' = [backup EXCEPT !.late = @ \/ \E p \in Users :
                        \E step \in {"manifest", "verified", "stage", "staging"} : Does(p, step)]
  /\ UNCHANGED <<home, directory, user>>

(* Mutant: only what can be read off the file's size is compared.          *)
VerifySize ==
  /\ backup.manifest # NoFile
  /\ [files[backup.file] EXCEPT !.data = "whole"] = [backup.manifest EXCEPT !.data = "whole"]

(* verifyRuntimeBackup: the digest and the marker.                         *)
Verify ==
  /\ backup.manifest # NoFile
  /\ files[backup.file] = backup.manifest
  /\ backup.manifest.marker \in 0..CURRENT_STATE_SCHEMA_VERSION

-----------------------------------------------------------------------------
(* Mutant: a home with a database in it is as good as an empty one.        *)
TargetExists == IF directory THEN "empty" ELSE "absent"

TargetState == IF home # 0 THEN "non-empty" ELSE IF directory THEN "empty" ELSE "absent"

(* restoreRuntimeBackup: verify, then look at the target.                  *)
VerifyBackup(p) ==
  /\ Does(p, "away")
  /\ Verify
  /\ Turn(p, "verified")
  /\ UNCHANGED <<files, home, directory, backup>>

LookAtTarget(p) ==
  /\ Does(p, "verified")
  /\ IF TargetState = "non-empty" THEN Leave(p)
     ELSE user' = [user EXCEPT ![p] = [@ EXCEPT !.step = "stage", !.saw = TargetState,
                                                   !.found = home]]
  /\ UNCHANGED <<files, home, directory, backup>>

(* copyFile into a temporary directory beside the target.                  *)
Stage(p) ==
  /\ Does(p, "stage")
  /\ \E i \in Files :
       /\ FreshFile(i)
       /\ files' = [files EXCEPT ![i] = [files[backup.file] EXCEPT !.data = "partial"]]
       /\ user' = [user EXCEPT ![p] = [@ EXCEPT !.step = "staging", !.file = i]]
  /\ UNCHANGED <<home, directory, backup>>

AfterStaging(p) == IF user[p].saw = "empty" THEN "remove" ELSE "rename"

StageEnds(p) ==
  /\ Does(p, "staging")
  /\ files' = [files EXCEPT ![user[p].file].data = files[backup.file].data]
  /\ Turn(p, AfterStaging(p))
  /\ UNCHANGED <<home, directory, backup>>

(* rm(target, recursive): whatever it holds by now.                        *)
RemoveTarget(p) ==
  /\ Does(p, "remove")
  /\ IF directory
     THEN directory' = FALSE /\ home' = 0 /\ Turn(p, "rename")
     ELSE Leave(p) /\ UNCHANGED <<directory, home>>
  /\ UNCHANGED <<files, backup>>

(* rename refuses a directory that is not empty.                           *)
RenameStaged(p) ==
  /\ Does(p, "rename")
  /\ IF home # 0 THEN UNCHANGED <<directory, home>>
     ELSE directory' = TRUE /\ home' = user[p].file
  /\ Leave(p)
  /\ UNCHANGED <<files, backup>>

-----------------------------------------------------------------------------
(* A call ends, by an error, a close or a crash; a transaction is rolled   *)
(* back, a half made backup stays.                                         *)
Ends(p) ==
  /\ ~Does(p, "away")
  /\ Leave(p)
  /\ UNCHANGED <<files, home, directory, backup>>

(* The home is lost while nobody works in it: what backups are for.        *)
LoseHome ==
  /\ home # 0 /\ \A p \in Users : Does(p, "away")
  /\ home' = 0 /\ directory' = FALSE
  /\ UNCHANGED <<files, backup, user>>

HomeNext ==
  \/ \E p \in Users :
       \/ OpenInspect(p) \/ Connect(p) \/ CreateMetadata(p) \/ SelectMarker(p)
       \/ InsertMarker(p) \/ CreateTables(p) \/ Write(p)
       \/ PlanMigration(p) \/ BeginMigration(p) \/ MigrateStep(p) \/ Commit(p)
       \/ BeginBackup(p) \/ Vacuum(p) \/ VacuumEnds(p) \/ WriteManifest(p) \/ BackupFails(p)
       \/ VerifyBackup(p) \/ LookAtTarget(p) \/ Stage(p) \/ StageEnds(p)
       \/ RemoveTarget(p) \/ RenameStaged(p) \/ Ends(p)
  \/ DamageBackup \/ LoseHome

HomeSpec == HomeInit /\ [][HomeNext]_homeVars

-----------------------------------------------------------------------------
(* Properties                                                              *)

HomeTypeOK ==
  /\ \A i \in Files : files[i].tables \subseteq {"none", "metadata", "documents"}
                     /\ files[i].marker \in Versions
  /\ home \in 0..MaxFiles /\ (home # 0 => directory /\ files[home] # NoFile)
  /\ backup.file \in 0..MaxFiles
  /\ \A p \in Users : user[p].file \in 0..MaxFiles

(* Whoever has the store open works on a database that is laid out as its  *)
(* marker says, and the marker is this release's: no race of opens,        *)
(* migrations and restores lets an older or newer layout through.          *)
OpenedIsCurrent ==
  \A p \in Users : Does(p, "open") =>
    /\ files[user[p].file].tables = {"metadata", "documents"}
    /\ files[user[p].file].marker = CURRENT_STATE_SCHEMA_VERSION
    /\ files[user[p].file].layout = CURRENT_STATE_SCHEMA_VERSION

(* Where marker or tables move they have moved all the way, together,      *)
(* although plans are made outside the transaction and race.               *)
MigrationIsWhole ==
  [][\A i \in Files :
       files[i] # NoFile
       /\ <<files'[i].marker, files'[i].layout>> # <<files[i].marker, files[i].layout>> =>
         files'[i].marker = CURRENT_STATE_SCHEMA_VERSION
         /\ files'[i].layout = files'[i].marker]_homeVars

(* What stands in a home is a whole database: a backup that was cut short  *)
(* or changed is refused, a restore cut short is not seen.  A change       *)
(* between the verification and the copy gets through, and one between the *)
(* end of the snapshot and its digest.                                     *)
HomeIsSound == home # 0 => files[home].data = "whole" \/ backup.late

(* But for a loss, a home is only ever removed by a restore that had found *)
(* none: one that exists when the restore looks is safe                    *)
(* (docs/cli-reference.md:96), one that appears in an empty target         *)
(* afterwards is not.                                                      *)
HomeIsKept ==
  [][home # 0 /\ home' # home =>
       LoseHome \/ \E p \in Users : Does(p, "remove") /\ user[p].found # home]_homeVars
=============================================================================
