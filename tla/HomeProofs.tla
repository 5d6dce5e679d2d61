----------------------------- MODULE HomeProofs -----------------------------
(***************************************************************************)
(* Proofs about RuntimeHome, for any number of processes, files and        *)
(* writes, any release and any registry of migrations, and about Service,  *)
(* for any number of connections.                                          *)
(*                                                                         *)
(* Three invariants carry the properties of a home.                        *)
(*                                                                         *)
(* HomeIInv gives the state its types and says what a process may count    *)
(* on at each step: that the file it works on exists, that a migration     *)
(* has a path to the current version, that the backup it restores has a    *)
(* manifest, and that a restore came this far because it had found no      *)
(* home.                                                                   *)
(*                                                                         *)
(* SoundIInv keeps the files apart.  A home is whole when it is made and   *)
(* nothing but a migration replaces its content; what writes parts of a    *)
(* database (VACUUM INTO, the copy of a restore) works on a file that      *)
(* nobody else has, and a restore copies from what the manifest vouches    *)
(* for.                                                                    *)
(*                                                                         *)
(* LayoutIInv is about markers.  An open goes on only with a database      *)
(* that is Tidy: laid out as its marker says, current, or so new that it   *)
(* has no table but metadata.  A migration that gets beyond its first      *)
(* precondition holds the lock of a file that is not Tidy, so no open      *)
(* works on it, and a plan made before another process migrated the file   *)
(* finds its precondition broken.                                          *)
(***************************************************************************)
EXTENDS RuntimeHome, Service, FiniteSetTheorems, TLAPS

Tables == {"metadata", "documents"}

Database == [tables : SUBSET Tables, marker : Versions, layout : Versions \cup {Mixed},
             data : {"partial", "whole", "damaged"}, writes : Nat]

HomeSteps == {"away", "connect", "metadata", "marker", "insert", "tables", "open",
          "planned", "migrating", "vacuum", "vacuuming", "manifest",
          "verified", "stage", "staging", "remove", "rename"}

UserRecords == [step : HomeSteps, file : 0..MaxFiles, saw : {"none", "absent", "empty"},
                found : 0..MaxFiles, cursor : Versions, work : Database \cup {NoFile}]

(* Steps of an open and of an opened store, of whoever works on a home, of *)
(* a backup in the making and of a restore.                                *)
Opening == {"metadata", "marker", "insert", "tables", "open"}
AtHome == Opening \cup {"planned", "migrating", "vacuum"}
Saving == {"vacuuming", "manifest"}
Copying == {"staging", "remove", "rename"}
Restoring == {"verified", "stage"} \cup Copying

FilesTyped == files \in [Files -> Database \cup {NoFile}]

BackupTyped ==
  backup \in [file : 0..MaxFiles, manifest : Database \cup {NoFile}, late : BOOLEAN]

UsersTyped == user \in [Users -> UserRecords]

HomeTyped ==
  /\ FilesTyped /\ BackupTyped /\ UsersTyped
  /\ home \in 0..MaxFiles /\ directory \in BOOLEAN

Exists(i) == i \in Files /\ files[i] \in Database

FilesExist ==
  /\ home # 0 => directory /\ Exists(home)
  /\ backup.file # 0 => Exists(backup.file)
  /\ backup.manifest # NoFile => backup.file # 0

(* What a process may count on at each step.                               *)
StepHolds(p) ==
  /\ user[p].step \in AtHome \cup Copying => Exists(user[p].file)
  /\ user[p].step \in Saving => backup.file # 0 /\ backup.manifest = NoFile
  /\ user[p].step \in Restoring => backup.manifest # NoFile
  /\ user[p].step \in Restoring \ {"verified"} => user[p].found = 0
  /\ user[p].step = "migrating" => user[p].work \in Database
  /\ user[p].step \in {"planned", "migrating"} =>
       PathExists(user[p].cursor) \/ user[p].cursor = CURRENT_STATE_SCHEMA_VERSION

StepsHold == \A p \in Users : StepHolds(p)

(* One backup is made at a time, since there is one backup directory.      *)
OneSaver == \A p, q \in Users : user[p].step \in Saving /\ user[q].step \in Saving => p = q

HomeIInv == HomeTyped /\ FilesExist /\ StepsHold /\ OneSaver

-----------------------------------------------------------------------------
(* A content that is whole, or was changed behind a check's back.          *)
SoundData(data) == data = "whole" \/ (backup.late /\ backup.manifest # NoFile)

Apart ==
  /\ home # 0 => home # backup.file
  /\ \A p \in Users : user[p].step \in AtHome \cup Copying => user[p].file # backup.file
  /\ \A p \in Users : user[p].step \in Copying =>
       /\ user[p].file # home
       /\ \A q \in Users \ {p} : user[q].step \in AtHome \cup Copying =>
            user[q].file # user[p].file

(* The snapshot a manifest is written for, and a backup being restored.    *)
Vouched == files[backup.file].data = "whole" \/ backup.late

UserSound(p) ==
  /\ user[p].step \in AtHome \cup {"remove", "rename"} => SoundData(files[user[p].file].data)
  /\ user[p].step = "migrating" => SoundData(user[p].work.data)
  /\ user[p].step \in {"manifest", "verified", "stage", "staging"} => Vouched

ContentSound ==
  /\ home # 0 => SoundData(files[home].data)
  /\ backup.manifest # NoFile => SoundData(backup.manifest.data)
  /\ \A p \in Users : UserSound(p)

SoundIInv == Apart /\ ContentSound

-----------------------------------------------------------------------------
Coherent(f) == f.marker = f.layout /\ (f.marker # NoMarker => "metadata" \in f.tables)

Tidy(f) ==
  /\ Coherent(f)
  /\ \/ f.marker = CURRENT_STATE_SCHEMA_VERSION
     \/ f.marker = NoMarker /\ "documents" \notin f.tables

UpToDate(f) == Tidy(f) /\ f.marker = CURRENT_STATE_SCHEMA_VERSION

AllCoherent == \A i \in Files : files[i] # NoFile => Coherent(files[i])

BackupCurrent == backup.file # 0 => UpToDate(files[backup.file])

SameLayout(f, g) == f.tables = g.tables /\ f.marker = g.marker /\ f.layout = g.layout

(* A migration that has not moved yet, and one that has.                   *)
NotMoved(p) ==
  /\ user[p].cursor # CURRENT_STATE_SCHEMA_VERSION
  /\ SameLayout(user[p].work, files[user[p].file])

Moved(p) ==
  /\ user[p].cursor \in Nat
  /\ user[p].work.marker = user[p].cursor /\ user[p].work.layout = user[p].cursor
  /\ "metadata" \in user[p].work.tables
  /\ ~Tidy(files[user[p].file])

UserTidy(p) ==
  /\ user[p].step = "connect" /\ home # 0 => Tidy(files[home])
  /\ user[p].step \in Opening => Tidy(files[user[p].file])
  /\ user[p].step \in Opening \ {"metadata"} => "metadata" \in files[user[p].file].tables
  /\ user[p].step \in {"tables", "open", "vacuum"} \cup Copying => UpToDate(files[user[p].file])
  /\ user[p].step = "open" => "documents" \in files[user[p].file].tables
  /\ user[p].step = "planned" => user[p].cursor # CURRENT_STATE_SCHEMA_VERSION
  /\ user[p].step = "migrating" => NotMoved(p) \/ Moved(p)

UsersTidy == \A p \in Users : UserTidy(p)

(* One migration at a time holds the lock of a file.                       *)
OneMigration ==
  \A p, q \in Users :
    user[p].step = "migrating" /\ user[q].step = "migrating" /\ user[p].file = user[q].file
      => p = q

LayoutIInv == AllCoherent /\ UsersTidy /\ BackupCurrent /\ OneMigration

-----------------------------------------------------------------------------
(* Records                                                                 *)

LEMMA RecordsAreTyped ==
  /\ NoFile \notin Database /\ Blank \in Database
  /\ Away \in UserRecords /\ Away.step = "away"
  /\ NoBackup \in [file : 0..MaxFiles, manifest : Database \cup {NoFile}, late : BOOLEAN]
  /\ NoBackup.file = 0 /\ NoBackup.manifest = NoFile /\ NoBackup.late = FALSE
<1>1. 0 \in 0..MaxFiles
  BY HomeAssumption
<1>2. QED
  BY <1>1 DEF NoFile, Blank, Database, Tables, Away, UserRecords, HomeSteps, NoBackup, Versions

LEMMA BornInDatabase == ASSUME NEW version \in Versions PROVE Born(version) \in Database
BY DEF Born, Blank, NoFile, Database, Tables, Versions

LEMMA FreshIsNoFile == ASSUME NEW i \in Files, FreshFile(i) PROVE files[i] = NoFile
BY DEF FreshFile

LEMMA DatabaseFields ==
  ASSUME NEW f \in Database
  PROVE  /\ \A t \in SUBSET Tables : [f EXCEPT !.tables = t] \in Database
         /\ \A d \in {"partial", "whole", "damaged"} : [f EXCEPT !.data = d] \in Database
         /\ [f EXCEPT !.writes = f.writes + 1] \in Database
         /\ \A m \in Versions, l \in Versions \cup {Mixed} :
              /\ [f EXCEPT !.marker = m, !.layout = l] \in Database
              /\ \A t \in SUBSET Tables :
                   [f EXCEPT !.tables = t, !.marker = m, !.layout = l] \in Database
         /\ f.tables \subseteq Tables /\ f.data \in {"partial", "whole", "damaged"}
         /\ f.marker \in Versions /\ f.layout \in Versions \cup {Mixed}
<1>1. \A t \in SUBSET Tables : [f EXCEPT !.tables = t] \in Database
  BY DEF Database
<1>2. \A d \in {"partial", "whole", "damaged"} : [f EXCEPT !.data = d] \in Database
  BY DEF Database
<1>3. [f EXCEPT !.writes = f.writes + 1] \in Database
  BY DEF Database
<1>4. \A m \in Versions, l \in Versions \cup {Mixed} :
        [f EXCEPT !.marker = m, !.layout = l] \in Database
  BY DEF Database
<1>5. ASSUME NEW m \in Versions, NEW l \in Versions \cup {Mixed}, NEW t \in SUBSET Tables
      PROVE  [f EXCEPT !.tables = t, !.marker = m, !.layout = l] \in Database
  BY DEF Database
<1>6. /\ f.tables \subseteq Tables /\ f.data \in {"partial", "whole", "damaged"}
      /\ f.marker \in Versions /\ f.layout \in Versions \cup {Mixed}
  BY DEF Database
<1>7. QED
  BY <1>1, <1>2, <1>3, <1>4, <1>5, <1>6

(* What the helpers of the actions do to the processes and to the files.   *)
Others(p) == \A q \in Users \ {p} : user'[q] = user[q]

Kept(p) ==
  /\ user'[p].file = user[p].file /\ user'[p].saw = user[p].saw
  /\ user'[p].found = user[p].found /\ user'[p].cursor = user[p].cursor
  /\ user'[p].work = user[p].work

Goes(p, step) == UsersTyped' /\ Others(p) /\ user'[p].step = step

LEMMA TurnGoes ==
  ASSUME UsersTyped, NEW p \in Users, NEW step \in HomeSteps, Turn(p, step)
  PROVE  Goes(p, step) /\ Kept(p)
<1>1. user[p] \in UserRecords
  BY DEF UsersTyped
<1>2. [user[p] EXCEPT !.step = step] \in UserRecords
  BY <1>1 DEF UserRecords
<1>3. /\ user' = [user EXCEPT ![p] = [user[p] EXCEPT !.step = step]]
      /\ user'[p] = [user[p] EXCEPT !.step = step]
  BY DEF Turn, UsersTyped
<1>4. Kept(p) /\ user'[p].step = step
  BY <1>1, <1>3 DEF Kept, UserRecords
<1>5. QED
  BY <1>2, <1>3, <1>4 DEF UsersTyped, Goes, Others

LEMMA LeaveGoes ==
  ASSUME UsersTyped, NEW p \in Users, Leave(p)
  PROVE  Goes(p, "away")
BY RecordsAreTyped DEF Leave, UsersTyped, Goes, Others

LEMMA RecordGoes ==
  ASSUME UsersTyped, NEW p \in Users, NEW r \in UserRecords, user' = [user EXCEPT ![p] = r]
  PROVE  UsersTyped' /\ Others(p) /\ user'[p] = r
BY DEF UsersTyped, Others

(* files' differs from files in one database at most.                      *)
Sets(i, f) ==
  /\ FilesTyped' /\ i \in Files /\ files'[i] = f /\ f \in Database
  /\ \A j \in Files \ {i} : files'[j] = files[j]

LEMMA FileSets ==
  ASSUME FilesTyped, NEW i \in Files, NEW f \in Database, files' = [files EXCEPT ![i] = f]
  PROVE  Sets(i, f)
BY DEF FilesTyped, Sets

LEMMA InspectSays ==
  ASSUME NEW f \in Database
  PROVE  /\ Inspect(f) = "fresh" => f.tables = {}
         /\ Inspect(f) = "current" =>
              "metadata" \in f.tables /\ f.marker = CURRENT_STATE_SCHEMA_VERSION
         /\ Inspect(f) = "migration-required" =>
              \/ "metadata" \notin f.tables /\ "documents" \in f.tables /\ PathExists(NoMarker)
              \/ /\ "metadata" \in f.tables /\ PathExists(f.marker)
                 /\ f.marker \in Nat /\ f.marker < CURRENT_STATE_SCHEMA_VERSION
<1>1. f.tables \in SUBSET Tables /\ f.marker \in {NoMarker} \cup Nat
  BY HomeAssumption DEF Database, Versions
<1>2. CASE f.tables = {}
  BY <1>2 DEF Inspect
<1>3. CASE f.tables # {} /\ "metadata" \notin f.tables
  <2>1. Inspect(f) = IF PathExists(NoMarker) THEN "migration-required" ELSE "invalid"
    BY <1>3 DEF Inspect
  <2>2. QED
    BY <1>1, <1>3, <2>1 DEF Tables
<1>4. CASE "metadata" \in f.tables /\ f.marker = NoMarker
  <2>1. Inspect(f) = "invalid"
    BY <1>4, HomeAssumption DEF Inspect, Marker
  <2>2. QED
    BY <2>1
<1>5. CASE "metadata" \in f.tables /\ f.marker = CURRENT_STATE_SCHEMA_VERSION
  <2>1. Inspect(f) = "current"
    BY <1>5, HomeAssumption DEF Inspect, Marker
  <2>2. QED
    BY <1>5, <2>1
<1>6. CASE /\ "metadata" \in f.tables /\ f.marker \in Nat
           /\ f.marker > CURRENT_STATE_SCHEMA_VERSION
  <2>1. Inspect(f) = "future"
    BY <1>6, HomeAssumption DEF Inspect, Marker
  <2>2. QED
    BY <2>1
<1>7. CASE /\ "metadata" \in f.tables /\ f.marker \in Nat
           /\ f.marker < CURRENT_STATE_SCHEMA_VERSION
  <2>1. Inspect(f) = IF PathExists(f.marker) THEN "migration-required" ELSE "invalid"
    BY <1>7, HomeAssumption DEF Inspect, Marker
  <2>2. QED
    BY <1>7, <2>1
<1>8. QED
  BY <1>1, <1>2, <1>3, <1>4, <1>5, <1>6, <1>7, HomeAssumption

(* The first step of a path, and the path that is left after it.           *)
LEMMA PathStep ==
  ASSUME NEW source, PathExists(source)
  PROVE  /\ StepFrom(source) \in Registry /\ StepFrom(source).source = source
         /\ StepFrom(source).target \in Versions \cap (Nat \ {0})
         /\ \/ StepFrom(source).target = CURRENT_STATE_SCHEMA_VERSION
            \/ PathExists(StepFrom(source).target)
<1> DEFINE C == Cardinality(Registry)
<1>1. C \in Nat
  BY HomeAssumption, FS_CardinalityType
<1>2. PICK path \in [1..C -> Registry], n \in 1..C :
        /\ path[1].source = source /\ path[n].target = CURRENT_STATE_SCHEMA_VERSION
        /\ \A k \in 1..(n - 1) : path[k].target = path[k + 1].source
        /\ \A k \in 1..n : path[k] = StepFrom(path[k].source) /\ path[k].target \in Nat \ {0}
  BY DEF PathExists
<1>3. path[1] \in Registry /\ path[1] = StepFrom(source) /\ path[1].target \in Nat \ {0}
  BY <1>1, <1>2
<1>4. path[1].target \in Versions
  BY <1>3, HomeAssumption
<1>5. CASE n = 1
  BY <1>2, <1>3, <1>4, <1>5
<1>6. CASE n # 1
  <2> DEFINE rest == [k \in 1..C |-> IF k < C THEN path[k + 1] ELSE path[k]]
  <2>1. rest \in [1..C -> Registry] /\ n - 1 \in 1..C
    BY <1>1, <1>2, <1>6
  <2>2. \A k \in 1..(n - 1) : rest[k] = path[k + 1]
    BY <1>1, <1>2, <1>6
  <2>3. rest[1].source = path[1].target /\ rest[n - 1].target = CURRENT_STATE_SCHEMA_VERSION
    BY <1>1, <1>2, <1>6, <2>2
  <2>4. \A k \in 1..((n - 1) - 1) : rest[k].target = rest[k + 1].source
    BY <1>1, <1>2, <2>2
  <2>5. \A k \in 1..(n - 1) :
          rest[k] = StepFrom(rest[k].source) /\ rest[k].target \in Nat \ {0}
    BY <1>1, <1>2, <2>2
  <2>6. PathExists(path[1].target)
    <3> HIDE DEF rest
    <3>1. QED
      BY <2>1, <2>3, <2>4, <2>5 DEF PathExists
  <2>7. QED
    BY <1>2, <1>3, <1>4, <2>6
<1>7. QED
  BY <1>5, <1>6

-----------------------------------------------------------------------------
(* What each action does, in these terms.                                  *)

LEMMA OpenInspectDoes ==
  ASSUME HomeIInv, NEW p \in Users, OpenInspect(p)
  PROVE  Goes(p, "connect") /\ Kept(p)
BY TurnGoes DEF OpenInspect, HomeIInv, HomeTyped, HomeSteps

LEMMA ConnectDoes ==
  ASSUME HomeIInv, NEW p \in Users, Connect(p)
  PROVE  \/ Goes(p, "away") /\ UNCHANGED <<files, home>>
         \/ /\ directory /\ Goes(p, "metadata") /\ user'[p].file = home' /\ home' \in Files
            /\ \/ home # 0 /\ UNCHANGED <<files, home>>
               \/ home = 0 /\ FreshFile(home') /\ Sets(home', Blank)
<1> USE DEF HomeIInv, HomeTyped
<1>1. CASE ~directory
  BY <1>1, LeaveGoes DEF Connect
<1>2. CASE directory
  <2>1. /\ home' \in Files
        /\ \/ home # 0 /\ UNCHANGED <<files, home>>
           \/ home = 0 /\ FreshFile(home') /\ Sets(home', Blank)
    <3>1. CASE home # 0
      BY <1>2, <3>1 DEF Connect, FilesExist, Exists
    <3>2. CASE home = 0
      <4>1. PICK i \in Files : FreshFile(i) /\ home' = i /\ files' = [files EXCEPT ![i] = Blank]
        BY <1>2, <3>2 DEF Connect
      <4>2. QED
        BY <3>2, <4>1, FileSets, RecordsAreTyped
    <3>3. QED
      BY <3>1, <3>2
  <2> DEFINE r == [user[p] EXCEPT !.step = "metadata", !.file = home']
  <2>2. user' = [user EXCEPT ![p] = r]
    BY <1>2 DEF Connect
  <2>3. user[p] \in UserRecords
    BY DEF UsersTyped
  <2>4. r \in UserRecords /\ r.step = "metadata" /\ r.file = home'
    <3>1. home' \in 0..MaxFiles /\ "metadata" \in HomeSteps
      BY <2>1, HomeAssumption DEF Files, HomeSteps
    <3> HIDE DEF HomeIInv, HomeTyped
    <3>2. QED
      BY <2>3, <3>1 DEF UserRecords
  <2>5. QED
    BY <1>2, <2>1, <2>2, <2>4, RecordGoes DEF Goes
<1>3. QED
  BY <1>1, <1>2

LEMMA CreateMetadataDoes ==
  ASSUME HomeIInv, NEW p \in Users, CreateMetadata(p)
  PROVE  /\ Goes(p, "marker") /\ Kept(p) /\ files[user[p].file] \in Database
         /\ Sets(user[p].file, [files[user[p].file] EXCEPT !.tables = @ \cup {"metadata"}])
<1> DEFINE i == user[p].file
<1>1. i \in Files /\ files[i] \in Database
  BY DEF CreateMetadata, HomeIInv, StepsHold, StepHolds, Exists, Does, AtHome, Opening
<1>2. files[i].tables \cup {"metadata"} \in SUBSET Tables
  BY <1>1, DatabaseFields DEF Tables
<1>3. [files[i] EXCEPT !.tables = @ \cup {"metadata"}] \in Database
  BY <1>1, <1>2, DatabaseFields
<1>4. files' = [files EXCEPT ![i] = [files[i] EXCEPT !.tables = @ \cup {"metadata"}]]
  BY <1>1 DEF CreateMetadata, HomeIInv, HomeTyped, FilesTyped
<1>5. Sets(i, [files[i] EXCEPT !.tables = @ \cup {"metadata"}])
  BY <1>1, <1>3, <1>4, FileSets DEF HomeIInv, HomeTyped
<1>6. QED
  BY <1>1, <1>5, TurnGoes DEF CreateMetadata, HomeIInv, HomeTyped, HomeSteps

LEMMA SelectMarkerDoes ==
  ASSUME HomeIInv, NEW p \in Users, SelectMarker(p)
  PROVE  \/ Goes(p, "insert") /\ Kept(p)
         \/ /\ files[user[p].file].marker = CURRENT_STATE_SCHEMA_VERSION
            /\ Goes(p, "tables") /\ Kept(p)
         \/ Goes(p, "away")
BY TurnGoes, LeaveGoes DEF SelectMarker, HomeIInv, HomeTyped, HomeSteps

LEMMA InsertMarkerDoes ==
  ASSUME HomeIInv, NEW p \in Users, InsertMarker(p)
  PROVE  \/ Goes(p, "away") /\ UNCHANGED files
         \/ /\ Goes(p, "tables") /\ Kept(p) /\ files[user[p].file] \in Database
            /\ files[user[p].file].marker = NoMarker
            /\ Sets(user[p].file,
                    [files[user[p].file] EXCEPT
                       !.marker = CURRENT_STATE_SCHEMA_VERSION,
                       !.layout = IF files[user[p].file].tables = {"metadata"}
                                  THEN CURRENT_STATE_SCHEMA_VERSION ELSE @])
<1> DEFINE i == user[p].file
<1>1. i \in Files /\ files[i] \in Database
  BY DEF InsertMarker, HomeIInv, StepsHold, StepHolds, Exists, Does, AtHome, Opening
<1>2. CASE files[i].marker # NoMarker
  BY <1>2, LeaveGoes DEF InsertMarker, HomeIInv, HomeTyped
<1>3. CASE files[i].marker = NoMarker
  <2> DEFINE f == [files[i] EXCEPT !.marker = CURRENT_STATE_SCHEMA_VERSION,
                                   !.layout = IF files[i].tables = {"metadata"}
                                              THEN CURRENT_STATE_SCHEMA_VERSION ELSE @]
             l == IF files[i].tables = {"metadata"} THEN CURRENT_STATE_SCHEMA_VERSION
                  ELSE files[i].layout
  <2>1. CURRENT_STATE_SCHEMA_VERSION \in Versions /\ l \in Versions \cup {Mixed}
    <3>1. CURRENT_STATE_SCHEMA_VERSION \in Versions
      BY HomeAssumption DEF Versions
    <3>2. files[i].layout \in Versions \cup {Mixed}
      BY <1>1 DEF Database
    <3>3. QED
      BY <3>1, <3>2
  <2>2. f = [files[i] EXCEPT !.marker = CURRENT_STATE_SCHEMA_VERSION, !.layout = l]
    BY <1>1 DEF Database
  <2>3. f \in Database
    BY <1>1, <2>1, <2>2, DatabaseFields
  <2>4. files' = [files EXCEPT ![i] = f] /\ Turn(p, "tables")
    BY <1>1, <1>3 DEF InsertMarker, HomeIInv, HomeTyped, FilesTyped, Database
  <2>5. Sets(i, f)
    BY <1>1, <2>3, <2>4, FileSets DEF HomeIInv, HomeTyped
  <2>6. QED
    BY <1>1, <1>3, <2>4, <2>5, TurnGoes DEF HomeIInv, HomeTyped, HomeSteps
<1>4. QED
  BY <1>2, <1>3

LEMMA CreateTablesDoes ==
  ASSUME HomeIInv, NEW p \in Users, CreateTables(p)
  PROVE  /\ Goes(p, "open") /\ Kept(p) /\ files[user[p].file] \in Database
         /\ Sets(user[p].file, [files[user[p].file] EXCEPT !.tables = @ \cup {"documents"}])
<1> DEFINE i == user[p].file
<1>1. i \in Files /\ files[i] \in Database
  BY DEF CreateTables, HomeIInv, StepsHold, StepHolds, Exists, Does, AtHome, Opening
<1>2. files[i].tables \cup {"documents"} \in SUBSET Tables
  BY <1>1, DatabaseFields DEF Tables
<1>3. [files[i] EXCEPT !.tables = @ \cup {"documents"}] \in Database
  BY <1>1, <1>2, DatabaseFields
<1>4. files' = [files EXCEPT ![i] = [files[i] EXCEPT !.tables = @ \cup {"documents"}]]
  BY <1>1 DEF CreateTables, HomeIInv, HomeTyped, FilesTyped
<1>5. Sets(i, [files[i] EXCEPT !.tables = @ \cup {"documents"}])
  BY <1>1, <1>3, <1>4, FileSets DEF HomeIInv, HomeTyped
<1>6. QED
  BY <1>1, <1>5, TurnGoes DEF CreateTables, HomeIInv, HomeTyped, HomeSteps

LEMMA WriteDoes ==
  ASSUME HomeIInv, NEW p \in Users, Write(p)
  PROVE  /\ user[p].step = "open" /\ files[user[p].file] \in Database
         /\ Sets(user[p].file, [files[user[p].file] EXCEPT !.writes = @ + 1])
<1> DEFINE i == user[p].file
<1>1. i \in Files /\ files[i] \in Database
  BY DEF Write, HomeIInv, StepsHold, StepHolds, Exists, Does, AtHome, Opening
<1>2. [files[i] EXCEPT !.writes = @ + 1] \in Database
  BY <1>1, DatabaseFields
<1>3. files' = [files EXCEPT ![i] = [files[i] EXCEPT !.writes = @ + 1]]
  BY <1>1 DEF Write, HomeIInv, HomeTyped, FilesTyped
<1>4. QED
  BY <1>1, <1>2, <1>3, FileSets DEF Write, Does, HomeIInv, HomeTyped

LEMMA PlanMigrationDoes ==
  ASSUME HomeIInv, NEW p \in Users, PlanMigration(p)
  PROVE  /\ Goes(p, "planned") /\ user'[p].file = home
         /\ user'[p].cursor = files[home].marker /\ user'[p].cursor \in Versions
<1>1. user[p] \in UserRecords /\ files[home].marker \in Versions
  BY DatabaseFields DEF HomeIInv, HomeTyped, UsersTyped, PlanMigration, FilesExist, Exists
<1> DEFINE r == [user[p] EXCEPT !.step = "planned", !.file = home, !.cursor = files[home].marker]
<1>2. r \in UserRecords /\ r.step = "planned" /\ r.file = home /\ r.cursor = files[home].marker
  BY <1>1 DEF UserRecords, HomeSteps, HomeIInv, HomeTyped
<1>3. user' = [user EXCEPT ![p] = r]
  BY DEF PlanMigration
<1>4. QED
  BY <1>1, <1>2, <1>3, RecordGoes DEF Goes, HomeIInv, HomeTyped

LEMMA BeginMigrationDoes ==
  ASSUME HomeIInv, NEW p \in Users, BeginMigration(p)
  PROVE  /\ Goes(p, "migrating") /\ files[user[p].file] \in Database
         /\ user'[p].work = files[user[p].file]
         /\ user'[p].file = user[p].file /\ user'[p].cursor = user[p].cursor
<1>1. user[p] \in UserRecords /\ files[user[p].file] \in Database
  BY DEF HomeIInv, HomeTyped, UsersTyped, BeginMigration, StepsHold, StepHolds, Exists, Does, AtHome
<1> DEFINE r == [user[p] EXCEPT !.step = "migrating", !.work = files[user[p].file]]
<1>2. /\ r \in UserRecords /\ r.step = "migrating" /\ r.work = files[user[p].file]
      /\ r.file = user[p].file /\ r.cursor = user[p].cursor
  BY <1>1 DEF UserRecords, HomeSteps
<1>3. user' = [user EXCEPT ![p] = r]
  BY DEF BeginMigration
<1>4. QED
  BY <1>1, <1>2, <1>3, RecordGoes DEF Goes, HomeIInv, HomeTyped

LEMMA MigrateStepDoes ==
  ASSUME HomeIInv, NEW p \in Users, MigrateStep(p)
  PROVE  LET step == StepFrom(user[p].cursor)
             work == user[p].work
         IN /\ Goes(p, "migrating") /\ user'[p].file = user[p].file /\ work \in Database
            /\ step.source = user[p].cursor /\ step.target \in Nat \ {0}
            /\ \/ step.target = CURRENT_STATE_SCHEMA_VERSION
               \/ PathExists(step.target)
            /\ user'[p].cursor = step.target /\ user'[p].work \in Database
            /\ user'[p].work.tables = work.tables \cup {"metadata"}
            /\ user'[p].work.marker = step.target
            /\ user'[p].work.layout = (IF work.layout = step.source THEN step.target ELSE Mixed)
            /\ user'[p].work.data = work.data
<1> DEFINE step == StepFrom(user[p].cursor)
           work == user[p].work
           layout == IF work.layout = step.source THEN step.target ELSE Mixed
           tables == work.tables \cup {"metadata"}
           w == [work EXCEPT !.tables = tables, !.marker = step.target, !.layout = layout]
           r == [user[p] EXCEPT !.cursor = step.target, !.work = w]
<1>1. /\ user[p] \in UserRecords /\ work \in Database /\ PathExists(user[p].cursor)
      /\ user[p].step = "migrating"
  BY DEF HomeIInv, HomeTyped, UsersTyped, MigrateStep, StepsHold, StepHolds, Does
<1>2. /\ step \in Registry /\ step.source = user[p].cursor
      /\ step.target \in Versions \cap (Nat \ {0})
      /\ step.target = CURRENT_STATE_SCHEMA_VERSION \/ PathExists(step.target)
  BY <1>1, PathStep
<1>3. tables \in SUBSET Tables /\ layout \in Versions \cup {Mixed}
  BY <1>1, <1>2, DatabaseFields DEF Tables
<1>4. w \in Database
  <2>1. step.target \in Versions
    BY <1>2
  <2> HIDE DEF tables, layout, step, work
  <2>2. QED
    BY <1>1, <1>3, <2>1, DatabaseFields
<1>5. w.tables = tables /\ w.marker = step.target /\ w.layout = layout /\ w.data = work.data
  BY <1>1 DEF Database
<1>6. user' = [user EXCEPT ![p] = r]
  <2>1. w = [work EXCEPT !.tables = @ \cup {"metadata"}, !.marker = step.target,
                         !.layout = IF @ = step.source THEN step.target ELSE Mixed]
    BY <1>1 DEF Database
  <2>2. QED
    BY <2>1 DEF MigrateStep
<1>7. r \in UserRecords /\ r.step = "migrating" /\ r.file = user[p].file /\ r.work = w
      /\ r.cursor = step.target
  <2>1. step.target \in Versions
    BY <1>2
  <2> HIDE DEF w, step, work
  <2>2. QED
    BY <1>1, <1>4, <2>1 DEF UserRecords
<1>8. Goes(p, "migrating") /\ user'[p] = r
  <2> HIDE DEF r, step, work
  <2>1. QED
    BY <1>6, <1>7, RecordGoes DEF Goes, HomeIInv, HomeTyped
<1>9. QED
  <2> HIDE DEF w, r, tables, layout, step
  <2>1. QED
    BY <1>1, <1>2, <1>4, <1>5, <1>7, <1>8 DEF layout, tables, step

LEMMA CommitDoes ==
  ASSUME HomeIInv, NEW p \in Users, Commit(p)
  PROVE  /\ Goes(p, "away") /\ user[p].step = "migrating"
         /\ files[user[p].file] \in Database /\ Sets(user[p].file, user[p].work)
<1>1. /\ user[p].file \in Files /\ files[user[p].file] \in Database
      /\ user[p].work \in Database /\ user[p].step = "migrating"
  BY DEF HomeIInv, Commit, FilesExist, StepsHold, StepHolds, Exists, Does, AtHome
<1>2. QED
  BY <1>1, FileSets, LeaveGoes DEF Commit, HomeIInv, HomeTyped

LEMMA BeginBackupDoes ==
  ASSUME HomeIInv, NEW p \in Users, BeginBackup(p)
  PROVE  /\ Goes(p, "vacuum") /\ user'[p].file = home /\ home # 0
         /\ files[home].marker = CURRENT_STATE_SCHEMA_VERSION
<1>1. user[p] \in UserRecords
  BY DEF HomeIInv, HomeTyped, UsersTyped
<1> DEFINE r == [user[p] EXCEPT !.step = "vacuum", !.file = home]
<1>2. r \in UserRecords /\ r.step = "vacuum" /\ r.file = home
  BY <1>1 DEF UserRecords, HomeSteps, HomeIInv, HomeTyped
<1>3. user' = [user EXCEPT ![p] = r]
  BY DEF BeginBackup
<1>4. files[home].marker = CURRENT_STATE_SCHEMA_VERSION
  BY HomeAssumption DEF BeginBackup, StateSchemaVersion
<1>5. QED
  BY <1>2, <1>3, <1>4, RecordGoes DEF Goes, HomeIInv, HomeTyped, BeginBackup

LEMMA VacuumDoes ==
  ASSUME HomeIInv, NEW p \in Users, Vacuum(p)
  PROVE  /\ Goes(p, "vacuuming") /\ Kept(p) /\ files[user[p].file] \in Database
         /\ backup.file = 0 /\ backup.manifest = NoFile
         /\ FreshFile(backup'.file)
         /\ Sets(backup'.file, [files[user[p].file] EXCEPT !.data = "partial"])
         /\ backup'.manifest = NoFile /\ BackupTyped'
<1>1. files[user[p].file] \in Database
  BY DEF HomeIInv, Vacuum, StepsHold, StepHolds, Exists, Does, AtHome
<1>2. PICK i \in Files :
        /\ FreshFile(i)
        /\ files' = [files EXCEPT ![i] = [files[user[p].file] EXCEPT !.data = "partial"]]
        /\ backup' = [backup EXCEPT !.file = i]
  BY DEF Vacuum
<1>3. [files[user[p].file] EXCEPT !.data = "partial"] \in Database
  BY <1>1, DatabaseFields
<1>4. Sets(i, [files[user[p].file] EXCEPT !.data = "partial"])
  BY <1>2, <1>3, FileSets DEF HomeIInv, HomeTyped
<1>5. i \in 0..MaxFiles
  BY HomeAssumption DEF Files
<1>6. backup'.file = i /\ backup'.manifest = NoFile /\ BackupTyped'
  BY <1>2, <1>5, RecordsAreTyped DEF Vacuum, HomeIInv, HomeTyped, BackupTyped
<1>7. backup = NoBackup /\ Turn(p, "vacuuming")
  BY DEF Vacuum
<1>8. Goes(p, "vacuuming") /\ Kept(p)
  BY <1>7, TurnGoes DEF HomeIInv, HomeTyped, HomeSteps
<1>9. QED
  BY <1>1, <1>2, <1>4, <1>6, <1>7, <1>8, RecordsAreTyped

LEMMA VacuumEndsDoes ==
  ASSUME HomeIInv, NEW p \in Users, VacuumEnds(p)
  PROVE  /\ Goes(p, "manifest") /\ Kept(p) /\ backup.file # 0
         /\ files[backup.file] \in Database
         /\ Sets(backup.file, [files[backup.file] EXCEPT !.data = "whole"])
<1>1. backup.file # 0 /\ backup.file \in Files /\ files[backup.file] \in Database
  BY DEF HomeIInv, VacuumEnds, FilesExist, StepsHold, StepHolds, Exists, Does, Saving
<1>2. files' = [files EXCEPT ![backup.file] = [files[backup.file] EXCEPT !.data = "whole"]]
  BY <1>1 DEF VacuumEnds, HomeIInv, HomeTyped, FilesTyped
<1>3. Sets(backup.file, [files[backup.file] EXCEPT !.data = "whole"])
  BY <1>1, <1>2, FileSets, DatabaseFields DEF HomeIInv, HomeTyped
<1>4. QED
  BY <1>1, <1>3, TurnGoes DEF VacuumEnds, HomeIInv, HomeTyped, HomeSteps

LEMMA WriteManifestDoes ==
  ASSUME HomeIInv, NEW p \in Users, WriteManifest(p)
  PROVE  /\ Goes(p, "away") /\ BackupTyped' /\ backup.file # 0 /\ Exists(backup.file)
         /\ backup'.file = backup.file /\ backup'.late = backup.late
         /\ backup'.manifest = files[backup.file]
<1>1. backup.file # 0 /\ Exists(backup.file)
  BY DEF HomeIInv, WriteManifest, FilesExist, StepsHold, StepHolds, Does, Saving
<1>2. /\ backup'.file = backup.file /\ backup'.late = backup.late
      /\ backup'.manifest = files[backup.file] /\ BackupTyped'
  BY <1>1 DEF WriteManifest, HomeIInv, HomeTyped, BackupTyped, Exists
<1>3. QED
  BY <1>1, <1>2, LeaveGoes DEF WriteManifest, HomeIInv, HomeTyped

LEMMA BackupFailsDoes ==
  ASSUME HomeIInv, NEW p \in Users, BackupFails(p)
  PROVE  /\ Goes(p, "away") /\ user[p].step \in Saving /\ BackupTyped'
         /\ backup'.file = 0 /\ backup'.manifest = NoFile /\ backup.manifest = NoFile
<1>1. backup' = NoBackup /\ user[p].step \in Saving
  BY DEF BackupFails, Does, Saving
<1>2. QED
  BY <1>1, LeaveGoes, RecordsAreTyped
     DEF BackupFails, HomeIInv, HomeTyped, BackupTyped, StepsHold, StepHolds

LEMMA DamageBackupDoes ==
  ASSUME HomeIInv, DamageBackup
  PROVE  /\ BackupTyped' /\ UsersTyped' /\ backup.file # 0 /\ files[backup.file] \in Database
         /\ Sets(backup.file, [files[backup.file] EXCEPT !.data = "damaged"])
         /\ backup'.file = backup.file /\ backup'.manifest = backup.manifest
         /\ backup'.late \in BOOLEAN /\ (backup.late => backup'.late)
         /\ \A p \in Users : user[p].step \in {"manifest", "verified", "stage", "staging"}
                               => backup'.late
<1>1. backup.file \in Files /\ files[backup.file] \in Database
  BY DEF HomeIInv, DamageBackup, FilesExist, Exists
<1>2. files' = [files EXCEPT ![backup.file] = [files[backup.file] EXCEPT !.data = "damaged"]]
  BY <1>1 DEF DamageBackup, HomeIInv, HomeTyped, FilesTyped
<1>3. Sets(backup.file, [files[backup.file] EXCEPT !.data = "damaged"])
  BY <1>1, <1>2, FileSets, DatabaseFields DEF HomeIInv, HomeTyped
<1> DEFINE seen == \E p \in Users :
                     \E step \in {"manifest", "verified", "stage", "staging"} : Does(p, step)
<1>4. backup' = [backup EXCEPT !.late = backup.late \/ seen] /\ backup.late \in BOOLEAN
  BY DEF DamageBackup, HomeIInv, HomeTyped, BackupTyped
<1>5. seen \in BOOLEAN /\ (backup.late \/ seen) \in BOOLEAN
  BY <1>4
<1>6. /\ backup'.file = backup.file /\ backup'.manifest = backup.manifest
      /\ backup'.late = (backup.late \/ seen) /\ BackupTyped'
  <2> HIDE DEF seen
  <2>1. QED
    BY <1>4, <1>5 DEF HomeIInv, HomeTyped, BackupTyped
<1>7. \A p \in Users : user[p].step \in {"manifest", "verified", "stage", "staging"} => seen
  BY DEF Does
<1>8. UsersTyped'
  BY DEF DamageBackup, HomeIInv, HomeTyped, UsersTyped
<1>9. QED
  <2> HIDE DEF seen
  <2>1. QED
    BY <1>1, <1>3, <1>4, <1>5, <1>6, <1>7, <1>8 DEF DamageBackup

LEMMA VerifyBackupDoes ==
  ASSUME HomeIInv, NEW p \in Users, VerifyBackup(p)
  PROVE  /\ Goes(p, "verified") /\ Kept(p) /\ backup.manifest # NoFile
         /\ files[backup.file] = backup.manifest
BY TurnGoes DEF VerifyBackup, Verify, HomeIInv, HomeTyped, HomeSteps

LEMMA LookAtTargetDoes ==
  ASSUME HomeIInv, NEW p \in Users, LookAtTarget(p)
  PROVE  \/ Goes(p, "away")
         \/ home = 0 /\ user[p].step = "verified" /\ Goes(p, "stage") /\ user'[p].found = 0
<1>1. CASE TargetState = "non-empty"
  BY <1>1, LeaveGoes DEF LookAtTarget, HomeIInv, HomeTyped
<1>2. CASE TargetState # "non-empty"
  <2>1. home = 0 /\ TargetState \in {"absent", "empty"}
    BY <1>2 DEF TargetState
  <2>2. user[p] \in UserRecords
    BY DEF HomeIInv, HomeTyped, UsersTyped
  <2> DEFINE r == [user[p] EXCEPT !.step = "stage", !.saw = TargetState, !.found = home]
  <2>3. r \in UserRecords /\ r.step = "stage" /\ r.found = home
    BY <2>1, <2>2 DEF UserRecords, HomeSteps, HomeIInv, HomeTyped
  <2>4. user' = [user EXCEPT ![p] = r] /\ user[p].step = "verified"
    BY <1>2 DEF LookAtTarget, Does
  <2>5. QED
    BY <2>1, <2>3, <2>4, RecordGoes DEF Goes, HomeIInv, HomeTyped
<1>3. QED
  BY <1>1, <1>2

LEMMA StageDoes ==
  ASSUME HomeIInv, NEW p \in Users, Stage(p)
  PROVE  /\ Goes(p, "staging") /\ user[p].step = "stage" /\ user'[p].found = user[p].found
         /\ backup.file # 0 /\ files[backup.file] \in Database
         /\ FreshFile(user'[p].file)
         /\ Sets(user'[p].file, [files[backup.file] EXCEPT !.data = "partial"])
<1>1. backup.file # 0 /\ files[backup.file] \in Database /\ user[p].step = "stage"
  BY DEF HomeIInv, Stage, FilesExist, StepsHold, StepHolds, Exists, Does, Restoring
<1>2. PICK i \in Files :
        /\ FreshFile(i)
        /\ files' = [files EXCEPT ![i] = [files[backup.file] EXCEPT !.data = "partial"]]
        /\ user' = [user EXCEPT ![p] = [@ EXCEPT !.step = "staging", !.file = i]]
  BY DEF Stage
<1>3. Sets(i, [files[backup.file] EXCEPT !.data = "partial"])
  BY <1>1, <1>2, FileSets, DatabaseFields DEF HomeIInv, HomeTyped
<1> DEFINE r == [user[p] EXCEPT !.step = "staging", !.file = i]
<1>4. i \in 0..MaxFiles /\ user[p] \in UserRecords
  BY HomeAssumption DEF Files, HomeIInv, HomeTyped, UsersTyped
<1>5. r \in UserRecords /\ r.step = "staging" /\ r.file = i /\ r.found = user[p].found
  BY <1>4 DEF UserRecords, HomeSteps
<1>6. user' = [user EXCEPT ![p] = r]
  BY <1>2
<1>7. Goes(p, "staging") /\ user'[p] = r
  BY <1>5, <1>6, RecordGoes DEF Goes, HomeIInv, HomeTyped
<1>8. QED
  BY <1>1, <1>2, <1>3, <1>5, <1>7

LEMMA StageEndsDoes ==
  ASSUME HomeIInv, NEW p \in Users, StageEnds(p)
  PROVE  /\ \/ Goes(p, "remove") /\ Kept(p)
            \/ Goes(p, "rename") /\ Kept(p)
         /\ files[user[p].file] \in Database /\ user[p].step = "staging"
         /\ Sets(user[p].file, [files[user[p].file] EXCEPT !.data = files[backup.file].data])
<1>1. /\ user[p].file \in Files /\ files[user[p].file] \in Database /\ user[p].step = "staging"
      /\ files[backup.file] \in Database
  BY DEF HomeIInv, StageEnds, FilesExist, StepsHold, StepHolds, Exists, Does, Copying, Restoring
<1> DEFINE f == [files[user[p].file] EXCEPT !.data = files[backup.file].data]
<1>2. files' = [files EXCEPT ![user[p].file] = f]
  BY <1>1 DEF StageEnds, HomeIInv, HomeTyped, FilesTyped
<1>3. f \in Database
  BY <1>1, DatabaseFields
<1>4. Sets(user[p].file, f)
  BY <1>1, <1>2, <1>3, FileSets DEF HomeIInv, HomeTyped
<1>5. QED
  BY <1>1, <1>4, TurnGoes DEF StageEnds, AfterStaging, HomeIInv, HomeTyped, HomeSteps

LEMMA RemoveTargetDoes ==
  ASSUME HomeIInv, NEW p \in Users, RemoveTarget(p)
  PROVE  /\ user[p].step = "remove"
         /\ \/ Goes(p, "away") /\ UNCHANGED <<directory, home>>
            \/ Goes(p, "rename") /\ Kept(p) /\ directory' = FALSE /\ home' = 0
BY TurnGoes, LeaveGoes DEF RemoveTarget, Does, HomeIInv, HomeTyped, HomeSteps

LEMMA RenameStagedDoes ==
  ASSUME HomeIInv, NEW p \in Users, RenameStaged(p)
  PROVE  /\ user[p].step = "rename" /\ Goes(p, "away")
         /\ \/ UNCHANGED <<directory, home>>
            \/ home = 0 /\ directory' = TRUE /\ home' = user[p].file
BY LeaveGoes DEF RenameStaged, Does, HomeIInv, HomeTyped

LEMMA EndsDoes ==
  ASSUME HomeIInv, NEW p \in Users, Ends(p)
  PROVE  Goes(p, "away")
BY LeaveGoes DEF Ends, HomeIInv, HomeTyped

-----------------------------------------------------------------------------
(* The types and what each step may count on.                              *)

LEMMA HomeInitIInv == HomeInit => HomeIInv
<1> SUFFICES ASSUME HomeInit PROVE HomeIInv
  OBVIOUS
<1>1. user \in [Users -> UserRecords] /\ \A p \in Users : user[p].step = "away"
  BY RecordsAreTyped DEF HomeInit
<1>2. StepsHold /\ OneSaver
  BY <1>1 DEF StepsHold, StepHolds, OneSaver, AtHome, Opening, Copying, Saving, Restoring
<1>3. ASSUME NEW f \in Database, files = [i \in Files |-> IF i = 1 THEN f ELSE NoFile]
      PROVE  FilesTyped /\ (1 \in Files => Exists(1))
  BY <1>3 DEF FilesTyped, Exists
<1>4. 0 \in 0..MaxFiles /\ 1 \in Files /\ 1 \in 0..MaxFiles
  BY HomeAssumption DEF Files
<1>5. CASE home = 1 /\ directory = TRUE /\ backup = NoBackup
           /\ \E version \in Versions : files = [i \in Files |-> IF i = 1 THEN Born(version) ELSE NoFile]
  <2>1. FilesTyped /\ Exists(1)
    BY <1>3, <1>4, <1>5, BornInDatabase
  <2>2. QED
    BY <1>1, <1>2, <1>4, <1>5, <2>1, RecordsAreTyped
       DEF HomeIInv, HomeTyped, UsersTyped, BackupTyped, FilesExist
<1> DEFINE saved == Born(CURRENT_STATE_SCHEMA_VERSION)
<1>6. CASE /\ files = [i \in Files |-> IF i = 1 THEN saved ELSE NoFile]
           /\ home = 0 /\ directory \in BOOLEAN
           /\ backup = [file |-> 1, manifest |-> saved, late |-> FALSE]
  <2>1. saved \in Database
    BY HomeAssumption, BornInDatabase DEF Versions
  <2> HIDE DEF saved
  <2>2. FilesTyped /\ Exists(1)
    BY <1>3, <1>4, <1>6, <2>1
  <2>3. BackupTyped /\ backup.file = 1
    BY <1>4, <1>6, <2>1 DEF BackupTyped
  <2>4. QED
    BY <1>1, <1>2, <1>4, <1>6, <2>2, <2>3 DEF HomeIInv, HomeTyped, UsersTyped, FilesExist
<1>7. QED
  BY <1>5, <1>6 DEF HomeInit

(* A step of p that leaves the databases and the backup there leaves to    *)
(* the others what they count on.                                          *)
FilesStay == \A j \in Files : files[j] \in Database => files'[j] \in Database

BackupStays == backup'.file = backup.file /\ backup'.manifest = backup.manifest

LEMMA SetsKeepsFiles == ASSUME NEW i, NEW f, Sets(i, f) PROVE FilesStay
BY DEF Sets, FilesStay

LEMMA SameKeepsFiles == ASSUME UNCHANGED files PROVE FilesStay
BY DEF FilesStay

LEMMA OthersHold ==
  ASSUME StepsHold, NEW p \in Users, Others(p), FilesStay, BackupStays, StepHolds(p)'
  PROVE  StepsHold'
<1>1. ASSUME NEW q \in Users \ {p} PROVE StepHolds(q)'
  <2>1. StepHolds(q) /\ user'[q] = user[q]
    BY DEF StepsHold, Others
  <2>2. QED
    BY <2>1 DEF StepHolds, Exists, FilesStay, BackupStays
<1>2. QED
  BY <1>1 DEF StepsHold

LEMMA OpenInspectHolds == ASSUME HomeIInv, NEW p \in Users, OpenInspect(p) PROVE HomeIInv'
<1>1. HomeTyped'
  BY OpenInspectDoes DEF OpenInspect, HomeIInv, HomeTyped, FilesTyped, BackupTyped, UsersTyped, Goes, Sets
<1>2. FilesStay
  BY OpenInspectDoes, SetsKeepsFiles, SameKeepsFiles DEF OpenInspect
<1>3. FilesExist'
  BY <1>2, OpenInspectDoes, RecordsAreTyped DEF OpenInspect, HomeIInv, HomeTyped, FilesExist, FilesStay, Exists, Sets
<1>4. StepHolds(p)'
  <2>1. StepHolds(p)
    BY DEF HomeIInv, StepsHold
  <2> HIDE DEF FilesExist, StepsHold, HomeTyped
  <2>2. QED
    BY <1>2, <2>1, OpenInspectDoes, RecordsAreTyped DEF OpenInspect, StepHolds, Does, Goes, Kept, FilesStay, Exists,
     AtHome, Opening, Saving, Copying, Restoring
<1>5. BackupStays /\ Others(p)
  BY OpenInspectDoes DEF OpenInspect, BackupStays, Goes, Sets
<1>6. OneSaver'
  BY OpenInspectDoes DEF HomeIInv, OneSaver, Goes, Others, Saving
<1>7. QED
  BY <1>1, <1>2, <1>3, <1>4, <1>5, OthersHold, <1>6 DEF HomeIInv

LEMMA ConnectHolds == ASSUME HomeIInv, NEW p \in Users, Connect(p) PROVE HomeIInv'
<1>1. HomeTyped'
  <2>1. UsersTyped' /\ FilesTyped' /\ home' \in 0..MaxFiles
    BY ConnectDoes, HomeAssumption DEF HomeIInv, HomeTyped, FilesTyped, Files, Goes, Sets
  <2>2. QED
    BY <2>1 DEF Connect, HomeIInv, HomeTyped, BackupTyped
<1>2. FilesStay
  BY ConnectDoes, SetsKeepsFiles, SameKeepsFiles DEF Connect
<1>3. FilesExist'
  BY <1>2, ConnectDoes, RecordsAreTyped DEF Connect, HomeIInv, HomeTyped, FilesExist, FilesStay, Exists, Sets
<1>4. StepHolds(p)'
  <2>1. StepHolds(p)
    BY DEF HomeIInv, StepsHold
  <2> HIDE DEF FilesExist, StepsHold, HomeTyped
  <2>2. CASE Goes(p, "away")
    BY <2>2 DEF StepHolds, Goes, AtHome, Opening, Saving, Copying, Restoring
  <2>3. CASE Goes(p, "metadata") /\ user'[p].file = home' /\ Exists(home)'
    BY <2>3 DEF StepHolds, Goes, Exists, AtHome, Opening, Saving, Copying, Restoring
  <2>4. QED
    BY <1>3, <2>2, <2>3, ConnectDoes DEF FilesExist, Files
<1>5. BackupStays /\ Others(p)
  BY ConnectDoes DEF Connect, BackupStays, Goes, Sets
<1>6. OneSaver'
  BY ConnectDoes DEF HomeIInv, OneSaver, Goes, Others, Saving
<1>7. QED
  BY <1>1, <1>2, <1>3, <1>4, <1>5, OthersHold, <1>6 DEF HomeIInv

LEMMA CreateMetadataHolds == ASSUME HomeIInv, NEW p \in Users, CreateMetadata(p) PROVE HomeIInv'
<1>1. HomeTyped'
  BY CreateMetadataDoes DEF CreateMetadata, HomeIInv, HomeTyped, FilesTyped, BackupTyped, UsersTyped, Goes, Sets
<1>2. FilesStay
  BY CreateMetadataDoes, SetsKeepsFiles, SameKeepsFiles DEF CreateMetadata
<1>3. FilesExist'
  BY <1>2, CreateMetadataDoes, RecordsAreTyped DEF CreateMetadata, HomeIInv, HomeTyped, FilesExist, FilesStay, Exists, Sets
<1>4. StepHolds(p)'
  <2>1. StepHolds(p)
    BY DEF HomeIInv, StepsHold
  <2> HIDE DEF FilesExist, StepsHold, HomeTyped
  <2>2. QED
    BY <1>2, <2>1, CreateMetadataDoes, RecordsAreTyped DEF CreateMetadata, StepHolds, Does, Goes, Kept, FilesStay, Exists,
     AtHome, Opening, Saving, Copying, Restoring
<1>5. BackupStays /\ Others(p)
  BY CreateMetadataDoes DEF CreateMetadata, BackupStays, Goes, Sets
<1>6. OneSaver'
  BY CreateMetadataDoes DEF HomeIInv, OneSaver, Goes, Others, Saving
<1>7. QED
  BY <1>1, <1>2, <1>3, <1>4, <1>5, OthersHold, <1>6 DEF HomeIInv

LEMMA SelectMarkerHolds == ASSUME HomeIInv, NEW p \in Users, SelectMarker(p) PROVE HomeIInv'
<1>1. HomeTyped'
  BY SelectMarkerDoes DEF SelectMarker, HomeIInv, HomeTyped, FilesTyped, BackupTyped, UsersTyped, Goes, Sets
<1>2. FilesStay
  BY SelectMarkerDoes, SetsKeepsFiles, SameKeepsFiles DEF SelectMarker
<1>3. FilesExist'
  BY <1>2, SelectMarkerDoes, RecordsAreTyped DEF SelectMarker, HomeIInv, HomeTyped, FilesExist, FilesStay, Exists, Sets
<1>4. StepHolds(p)'
  <2>1. StepHolds(p)
    BY DEF HomeIInv, StepsHold
  <2> HIDE DEF FilesExist, StepsHold, HomeTyped
  <2>2. QED
    BY <1>2, <2>1, SelectMarkerDoes, RecordsAreTyped DEF SelectMarker, StepHolds, Does, Goes, Kept, FilesStay, Exists,
     AtHome, Opening, Saving, Copying, Restoring
<1>5. BackupStays /\ Others(p)
  BY SelectMarkerDoes DEF SelectMarker, BackupStays, Goes, Sets
<1>6. OneSaver'
  BY SelectMarkerDoes DEF HomeIInv, OneSaver, Goes, Others, Saving
<1>7. QED
  BY <1>1, <1>2, <1>3, <1>4, <1>5, OthersHold, <1>6 DEF HomeIInv

LEMMA InsertMarkerHolds == ASSUME HomeIInv, NEW p \in Users, InsertMarker(p) PROVE HomeIInv'
<1>1. HomeTyped'
  BY InsertMarkerDoes DEF InsertMarker, HomeIInv, HomeTyped, FilesTyped, BackupTyped, UsersTyped, Goes, Sets
<1>2. FilesStay
  BY InsertMarkerDoes, SetsKeepsFiles, SameKeepsFiles DEF InsertMarker
<1>3. FilesExist'
  BY <1>2, InsertMarkerDoes, RecordsAreTyped DEF InsertMarker, HomeIInv, HomeTyped, FilesExist, FilesStay, Exists, Sets
<1>4. StepHolds(p)'
  <2>1. StepHolds(p)
    BY DEF HomeIInv, StepsHold
  <2> HIDE DEF FilesExist, StepsHold, HomeTyped
  <2>2. QED
    BY <1>2, <2>1, InsertMarkerDoes, RecordsAreTyped DEF InsertMarker, StepHolds, Does, Goes, Kept, FilesStay, Exists,
     AtHome, Opening, Saving, Copying, Restoring
<1>5. BackupStays /\ Others(p)
  BY InsertMarkerDoes DEF InsertMarker, BackupStays, Goes, Sets
<1>6. OneSaver'
  BY InsertMarkerDoes DEF HomeIInv, OneSaver, Goes, Others, Saving
<1>7. QED
  BY <1>1, <1>2, <1>3, <1>4, <1>5, OthersHold, <1>6 DEF HomeIInv

LEMMA CreateTablesHolds == ASSUME HomeIInv, NEW p \in Users, CreateTables(p) PROVE HomeIInv'
<1>1. HomeTyped'
  BY CreateTablesDoes DEF CreateTables, HomeIInv, HomeTyped, FilesTyped, BackupTyped, UsersTyped, Goes, Sets
<1>2. FilesStay
  BY CreateTablesDoes, SetsKeepsFiles, SameKeepsFiles DEF CreateTables
<1>3. FilesExist'
  BY <1>2, CreateTablesDoes, RecordsAreTyped DEF CreateTables, HomeIInv, HomeTyped, FilesExist, FilesStay, Exists, Sets
<1>4. StepHolds(p)'
  <2>1. StepHolds(p)
    BY DEF HomeIInv, StepsHold
  <2> HIDE DEF FilesExist, StepsHold, HomeTyped
  <2>2. QED
    BY <1>2, <2>1, CreateTablesDoes, RecordsAreTyped DEF CreateTables, StepHolds, Does, Goes, Kept, FilesStay, Exists,
     AtHome, Opening, Saving, Copying, Restoring
<1>5. BackupStays /\ Others(p)
  BY CreateTablesDoes DEF CreateTables, BackupStays, Goes, Sets
<1>6. OneSaver'
  BY CreateTablesDoes DEF HomeIInv, OneSaver, Goes, Others, Saving
<1>7. QED
  BY <1>1, <1>2, <1>3, <1>4, <1>5, OthersHold, <1>6 DEF HomeIInv

LEMMA WriteHolds == ASSUME HomeIInv, NEW p \in Users, Write(p) PROVE HomeIInv'
<1>1. HomeTyped'
  BY WriteDoes DEF Write, HomeIInv, HomeTyped, FilesTyped, BackupTyped, UsersTyped, Goes, Sets
<1>2. FilesStay
  BY WriteDoes, SetsKeepsFiles, SameKeepsFiles DEF Write
<1>3. FilesExist'
  BY <1>2, WriteDoes, RecordsAreTyped DEF Write, HomeIInv, HomeTyped, FilesExist, FilesStay, Exists, Sets
<1>4. StepHolds(p)'
  <2>1. StepHolds(p)
    BY DEF HomeIInv, StepsHold
  <2> HIDE DEF FilesExist, StepsHold, HomeTyped
  <2>2. QED
    BY <1>2, <2>1, WriteDoes, RecordsAreTyped DEF Write, StepHolds, Does, Goes, Kept, FilesStay, Exists,
     AtHome, Opening, Saving, Copying, Restoring
<1>5. BackupStays /\ Others(p)
  BY WriteDoes DEF Write, BackupStays, Others
<1>6. OneSaver'
  BY DEF Write, HomeIInv, OneSaver
<1>7. QED
  BY <1>1, <1>2, <1>3, <1>4, <1>5, OthersHold, <1>6 DEF HomeIInv

LEMMA PlanMigrationHolds == ASSUME HomeIInv, AllCoherent, NEW p \in Users, PlanMigration(p) PROVE HomeIInv'
<1>1. HomeTyped'
  BY PlanMigrationDoes DEF PlanMigration, HomeIInv, HomeTyped, FilesTyped, BackupTyped, UsersTyped, Goes, Sets
<1>2. FilesStay
  BY PlanMigrationDoes, SetsKeepsFiles, SameKeepsFiles DEF PlanMigration
<1>3. FilesExist'
  BY <1>2, PlanMigrationDoes, RecordsAreTyped DEF PlanMigration, HomeIInv, HomeTyped, FilesExist, FilesStay, Exists, Sets
<1>4. StepHolds(p)'
  <2>1. StepHolds(p)
    BY DEF HomeIInv, StepsHold
  <2> HIDE DEF FilesExist, StepsHold, HomeTyped
  <2>2. /\ user'[p].step = "planned" /\ user'[p].file = home /\ user'[p].cursor = files[home].marker
        /\ files' = files
    BY PlanMigrationDoes DEF PlanMigration, Goes
  <2>3. Exists(home) /\ Inspect(files[home]) = "migration-required"
    BY DEF PlanMigration, HomeIInv, FilesExist
  <2>4. PathExists(files[home].marker)
    <3>1. files[home] # NoFile
      BY <2>3, RecordsAreTyped DEF Exists
    <3>2. CASE "metadata" \notin files[home].tables
      BY <2>3, <3>1, <3>2, InspectSays DEF AllCoherent, Coherent, Exists
    <3>3. CASE "metadata" \in files[home].tables
      BY <2>3, <3>3, InspectSays DEF Exists
    <3>4. QED
      BY <3>2, <3>3
  <2>5. (PathExists(user[p].cursor) \/ user[p].cursor = CURRENT_STATE_SCHEMA_VERSION)'
    BY <2>2, <2>4
  <2>6. QED
    BY <2>2, <2>3, <2>5 DEF StepHolds, Exists, AtHome, Opening, Saving, Copying, Restoring
<1>5. BackupStays /\ Others(p)
  BY PlanMigrationDoes DEF PlanMigration, BackupStays, Goes, Sets
<1>6. OneSaver'
  BY PlanMigrationDoes DEF HomeIInv, OneSaver, Goes, Others, Saving
<1>7. QED
  BY <1>1, <1>2, <1>3, <1>4, <1>5, OthersHold, <1>6 DEF HomeIInv

LEMMA BeginMigrationHolds == ASSUME HomeIInv, NEW p \in Users, BeginMigration(p) PROVE HomeIInv'
<1>1. HomeTyped'
  BY BeginMigrationDoes DEF BeginMigration, HomeIInv, HomeTyped, FilesTyped, BackupTyped, UsersTyped, Goes, Sets
<1>2. FilesStay
  BY BeginMigrationDoes, SetsKeepsFiles, SameKeepsFiles DEF BeginMigration
<1>3. FilesExist'
  BY <1>2, BeginMigrationDoes, RecordsAreTyped DEF BeginMigration, HomeIInv, HomeTyped, FilesExist, FilesStay, Exists, Sets
<1>4. StepHolds(p)'
  <2>1. StepHolds(p)
    BY DEF HomeIInv, StepsHold
  <2> HIDE DEF FilesExist, StepsHold, HomeTyped
  <2>2. QED
    BY <1>2, <2>1, BeginMigrationDoes, RecordsAreTyped DEF BeginMigration, StepHolds, Does, Goes, Kept, FilesStay, Exists,
     AtHome, Opening, Saving, Copying, Restoring
<1>5. BackupStays /\ Others(p)
  BY BeginMigrationDoes DEF BeginMigration, BackupStays, Goes, Sets
<1>6. OneSaver'
  BY BeginMigrationDoes DEF HomeIInv, OneSaver, Goes, Others, Saving
<1>7. QED
  BY <1>1, <1>2, <1>3, <1>4, <1>5, OthersHold, <1>6 DEF HomeIInv

LEMMA MigrateStepHolds == ASSUME HomeIInv, NEW p \in Users, MigrateStep(p) PROVE HomeIInv'
<1>1. HomeTyped'
  BY MigrateStepDoes DEF MigrateStep, HomeIInv, HomeTyped, FilesTyped, BackupTyped, UsersTyped, Goes, Sets
<1>2. FilesStay
  BY MigrateStepDoes, SetsKeepsFiles, SameKeepsFiles DEF MigrateStep
<1>3. FilesExist'
  BY <1>2, MigrateStepDoes, RecordsAreTyped DEF MigrateStep, HomeIInv, HomeTyped, FilesExist, FilesStay, Exists, Sets
<1>4. StepHolds(p)'
  <2>1. StepHolds(p)
    BY DEF HomeIInv, StepsHold
  <2> HIDE DEF FilesExist, StepsHold, HomeTyped
  <2>2. /\ user'[p].step = "migrating" /\ user'[p].file = user[p].file /\ user'[p].work \in Database
        /\ user[p].step = "migrating" /\ files' = files
    BY MigrateStepDoes DEF MigrateStep, Goes, Does
  <2>3. (PathExists(user[p].cursor) \/ user[p].cursor = CURRENT_STATE_SCHEMA_VERSION)'
    BY MigrateStepDoes
  <2>4. QED
    BY <2>1, <2>2, <2>3 DEF StepHolds, Exists, AtHome, Opening, Saving, Copying, Restoring
<1>5. BackupStays /\ Others(p)
  BY MigrateStepDoes DEF MigrateStep, BackupStays, Goes, Sets
<1>6. OneSaver'
  BY MigrateStepDoes DEF HomeIInv, OneSaver, Goes, Others, Saving
<1>7. QED
  BY <1>1, <1>2, <1>3, <1>4, <1>5, OthersHold, <1>6 DEF HomeIInv

LEMMA CommitHolds == ASSUME HomeIInv, NEW p \in Users, Commit(p) PROVE HomeIInv'
<1>1. HomeTyped'
  BY CommitDoes DEF Commit, HomeIInv, HomeTyped, FilesTyped, BackupTyped, UsersTyped, Goes, Sets
<1>2. FilesStay
  BY CommitDoes, SetsKeepsFiles, SameKeepsFiles DEF Commit
<1>3. FilesExist'
  BY <1>2, CommitDoes, RecordsAreTyped DEF Commit, HomeIInv, HomeTyped, FilesExist, FilesStay, Exists, Sets
<1>4. StepHolds(p)'
  <2>1. StepHolds(p)
    BY DEF HomeIInv, StepsHold
  <2> HIDE DEF FilesExist, StepsHold, HomeTyped
  <2>2. QED
    BY <1>2, <2>1, CommitDoes, RecordsAreTyped DEF Commit, StepHolds, Does, Goes, Kept, FilesStay, Exists,
     AtHome, Opening, Saving, Copying, Restoring
<1>5. BackupStays /\ Others(p)
  BY CommitDoes DEF Commit, BackupStays, Goes, Sets
<1>6. OneSaver'
  BY CommitDoes DEF HomeIInv, OneSaver, Goes, Others, Saving
<1>7. QED
  BY <1>1, <1>2, <1>3, <1>4, <1>5, OthersHold, <1>6 DEF HomeIInv

LEMMA BeginBackupHolds == ASSUME HomeIInv, NEW p \in Users, BeginBackup(p) PROVE HomeIInv'
<1>1. HomeTyped'
  BY BeginBackupDoes DEF BeginBackup, HomeIInv, HomeTyped, FilesTyped, BackupTyped, UsersTyped, Goes, Sets
<1>2. FilesStay
  BY BeginBackupDoes, SetsKeepsFiles, SameKeepsFiles DEF BeginBackup
<1>3. FilesExist'
  BY <1>2, BeginBackupDoes, RecordsAreTyped DEF BeginBackup, HomeIInv, HomeTyped, FilesExist, FilesStay, Exists, Sets
<1>4. StepHolds(p)'
  <2>1. StepHolds(p)
    BY DEF HomeIInv, StepsHold
  <2> HIDE DEF FilesExist, StepsHold, HomeTyped
  <2>2. user'[p].step = "vacuum" /\ user'[p].file = home /\ Exists(home) /\ files' = files
    BY BeginBackupDoes DEF BeginBackup, Goes, HomeIInv, FilesExist
  <2>3. QED
    BY <2>2 DEF StepHolds, Exists, AtHome, Opening, Saving, Copying, Restoring
<1>5. BackupStays /\ Others(p)
  BY BeginBackupDoes DEF BeginBackup, BackupStays, Goes, Sets
<1>6. OneSaver'
  BY BeginBackupDoes DEF HomeIInv, OneSaver, Goes, Others, Saving
<1>7. QED
  BY <1>1, <1>2, <1>3, <1>4, <1>5, OthersHold, <1>6 DEF HomeIInv

LEMMA VacuumHolds == ASSUME HomeIInv, NEW p \in Users, Vacuum(p) PROVE HomeIInv'
<1>1. HomeTyped'
  BY VacuumDoes DEF Vacuum, HomeIInv, HomeTyped, FilesTyped, BackupTyped, UsersTyped, Goes, Sets
<1>2. FilesStay
  BY VacuumDoes, SetsKeepsFiles, SameKeepsFiles DEF Vacuum
<1>3. FilesExist'
  <2>1. Exists(backup.file)' /\ backup'.manifest = NoFile /\ UNCHANGED <<home, directory>>
    BY VacuumDoes DEF Vacuum, Sets, Exists
  <2>2. QED
    BY <1>2, <2>1 DEF HomeIInv, FilesExist, FilesStay, Exists
<1>4. StepHolds(p)'
  <2>1. StepHolds(p)
    BY DEF HomeIInv, StepsHold
  <2> HIDE DEF FilesExist, StepsHold, HomeTyped
  <2>2. user'[p].step = "vacuuming" /\ backup'.manifest = NoFile /\ backup'.file \in Files
    BY VacuumDoes DEF Goes, Sets
  <2>3. backup'.file # 0
    BY <2>2, HomeAssumption DEF Files
  <2>4. QED
    BY <2>2, <2>3 DEF StepHolds, AtHome, Opening, Saving, Copying, Restoring
<1>5. ASSUME NEW q \in Users \ {p} PROVE StepHolds(q)'
  <2>1. StepHolds(q) /\ user'[q] = user[q]
    BY VacuumDoes DEF HomeIInv, StepsHold, Others, Goes
  <2>2. QED
    BY <1>2, <2>1, VacuumDoes, RecordsAreTyped DEF Vacuum, HomeIInv, StepsHold, StepHolds, Does, Exists, FilesStay, Sets, Saving, Restoring, Copying, AtHome, Opening
<1>6. OneSaver'
  <2>1. \A q \in Users : user[q].step \notin Saving
    BY VacuumDoes DEF HomeIInv, StepsHold, StepHolds
  <2>2. QED
    BY <2>1, VacuumDoes DEF OneSaver, Goes, Others
<1>7. QED
  BY <1>1, <1>3, <1>4, <1>5, <1>6 DEF HomeIInv, StepsHold

LEMMA VacuumEndsHolds == ASSUME HomeIInv, NEW p \in Users, VacuumEnds(p) PROVE HomeIInv'
<1>1. HomeTyped'
  BY VacuumEndsDoes DEF VacuumEnds, HomeIInv, HomeTyped, FilesTyped, BackupTyped, UsersTyped, Goes, Sets
<1>2. FilesStay
  BY VacuumEndsDoes, SetsKeepsFiles, SameKeepsFiles DEF VacuumEnds
<1>3. FilesExist'
  BY <1>2, VacuumEndsDoes, RecordsAreTyped DEF VacuumEnds, HomeIInv, HomeTyped, FilesExist, FilesStay, Exists, Sets
<1>4. StepHolds(p)'
  <2>1. StepHolds(p)
    BY DEF HomeIInv, StepsHold
  <2> HIDE DEF FilesExist, StepsHold, HomeTyped
  <2>2. QED
    BY <1>2, <2>1, VacuumEndsDoes, RecordsAreTyped DEF VacuumEnds, StepHolds, Does, Goes, Kept, FilesStay, Exists,
     AtHome, Opening, Saving, Copying, Restoring
<1>5. BackupStays /\ Others(p)
  BY VacuumEndsDoes DEF VacuumEnds, BackupStays, Goes, Sets
<1>6. OneSaver'
  BY VacuumEndsDoes DEF VacuumEnds, Does, HomeIInv, OneSaver, Goes, Others, Saving
<1>7. QED
  BY <1>1, <1>2, <1>3, <1>4, <1>5, OthersHold, <1>6 DEF HomeIInv

LEMMA WriteManifestHolds == ASSUME HomeIInv, NEW p \in Users, WriteManifest(p) PROVE HomeIInv'
<1>1. HomeTyped'
  BY WriteManifestDoes DEF WriteManifest, HomeIInv, HomeTyped, FilesTyped, BackupTyped, UsersTyped, Goes, Sets
<1>2. FilesStay
  BY WriteManifestDoes, SetsKeepsFiles, SameKeepsFiles DEF WriteManifest
<1>3. FilesExist'
  BY <1>2, WriteManifestDoes, RecordsAreTyped DEF WriteManifest, HomeIInv, HomeTyped, FilesExist, FilesStay, Exists, Sets
<1>4. StepHolds(p)'
  BY WriteManifestDoes DEF StepHolds, Goes, AtHome, Opening, Saving, Copying, Restoring
<1>5. ASSUME NEW q \in Users \ {p} PROVE StepHolds(q)'
  <2>1. StepHolds(q) /\ user'[q] = user[q]
    BY WriteManifestDoes DEF HomeIInv, StepsHold, Others, Goes
  <2>2. user[q].step \notin Saving \cup Restoring
    <3>1. user[p].step \in Saving
      BY DEF WriteManifest, Does, Saving
    <3>2. backup.manifest = NoFile
      BY <3>1 DEF HomeIInv, StepsHold, StepHolds
    <3>3. QED
      BY <2>1, <3>1, <3>2 DEF HomeIInv, OneSaver, StepHolds
  <2>3. QED
    BY <1>2, <2>1, <2>2 DEF StepHolds, Exists, FilesStay
<1>6. OneSaver'
  BY WriteManifestDoes DEF HomeIInv, OneSaver, Goes, Others, Saving
<1>7. QED
  BY <1>1, <1>3, <1>4, <1>5, <1>6 DEF HomeIInv, StepsHold

LEMMA BackupFailsHolds == ASSUME HomeIInv, NEW p \in Users, BackupFails(p) PROVE HomeIInv'
<1>1. HomeTyped'
  BY BackupFailsDoes DEF BackupFails, HomeIInv, HomeTyped, FilesTyped, BackupTyped, UsersTyped, Goes, Sets
<1>2. FilesStay
  BY BackupFailsDoes, SetsKeepsFiles, SameKeepsFiles DEF BackupFails
<1>3. FilesExist'
  BY <1>2, BackupFailsDoes, RecordsAreTyped DEF BackupFails, HomeIInv, HomeTyped, FilesExist, FilesStay, Exists, Sets
<1>4. StepHolds(p)'
  BY BackupFailsDoes DEF StepHolds, Goes, AtHome, Opening, Saving, Copying, Restoring
<1>5. ASSUME NEW q \in Users \ {p} PROVE StepHolds(q)'
  <2>1. StepHolds(q) /\ user'[q] = user[q]
    BY BackupFailsDoes DEF HomeIInv, StepsHold, Others, Goes
  <2>2. user[q].step \notin Saving \cup Restoring
    <3>1. user[p].step \in Saving
      BY DEF BackupFails, Does, Saving
    <3>2. backup.manifest = NoFile
      BY <3>1 DEF HomeIInv, StepsHold, StepHolds
    <3>3. QED
      BY <2>1, <3>1, <3>2 DEF HomeIInv, OneSaver, StepHolds
  <2>3. QED
    BY <1>2, <2>1, <2>2 DEF StepHolds, Exists, FilesStay
<1>6. OneSaver'
  BY BackupFailsDoes DEF HomeIInv, OneSaver, Goes, Others, Saving
<1>7. QED
  BY <1>1, <1>3, <1>4, <1>5, <1>6 DEF HomeIInv, StepsHold

LEMMA VerifyBackupHolds == ASSUME HomeIInv, NEW p \in Users, VerifyBackup(p) PROVE HomeIInv'
<1>1. HomeTyped'
  BY VerifyBackupDoes DEF VerifyBackup, HomeIInv, HomeTyped, FilesTyped, BackupTyped, UsersTyped, Goes, Sets
<1>2. FilesStay
  BY VerifyBackupDoes, SetsKeepsFiles, SameKeepsFiles DEF VerifyBackup
<1>3. FilesExist'
  BY <1>2, VerifyBackupDoes, RecordsAreTyped DEF VerifyBackup, HomeIInv, HomeTyped, FilesExist, FilesStay, Exists, Sets
<1>4. StepHolds(p)'
  <2>1. StepHolds(p)
    BY DEF HomeIInv, StepsHold
  <2> HIDE DEF FilesExist, StepsHold, HomeTyped
  <2>2. QED
    BY <1>2, <2>1, VerifyBackupDoes, RecordsAreTyped DEF VerifyBackup, StepHolds, Does, Goes, Kept, FilesStay, Exists,
     AtHome, Opening, Saving, Copying, Restoring
<1>5. BackupStays /\ Others(p)
  BY VerifyBackupDoes DEF VerifyBackup, BackupStays, Goes, Sets
<1>6. OneSaver'
  BY VerifyBackupDoes DEF HomeIInv, OneSaver, Goes, Others, Saving
<1>7. QED
  BY <1>1, <1>2, <1>3, <1>4, <1>5, OthersHold, <1>6 DEF HomeIInv

LEMMA LookAtTargetHolds == ASSUME HomeIInv, NEW p \in Users, LookAtTarget(p) PROVE HomeIInv'
<1>1. HomeTyped'
  BY LookAtTargetDoes DEF LookAtTarget, HomeIInv, HomeTyped, FilesTyped, BackupTyped, UsersTyped, Goes, Sets
<1>2. FilesStay
  BY LookAtTargetDoes, SetsKeepsFiles, SameKeepsFiles DEF LookAtTarget
<1>3. FilesExist'
  BY <1>2, LookAtTargetDoes, RecordsAreTyped DEF LookAtTarget, HomeIInv, HomeTyped, FilesExist, FilesStay, Exists, Sets
<1>4. StepHolds(p)'
  <2>1. StepHolds(p)
    BY DEF HomeIInv, StepsHold
  <2> HIDE DEF FilesExist, StepsHold, HomeTyped
  <2>2. QED
    BY <1>2, <2>1, LookAtTargetDoes, RecordsAreTyped DEF LookAtTarget, StepHolds, Does, Goes, Kept, FilesStay, Exists,
     AtHome, Opening, Saving, Copying, Restoring
<1>5. BackupStays /\ Others(p)
  BY LookAtTargetDoes DEF LookAtTarget, BackupStays, Goes, Sets
<1>6. OneSaver'
  BY LookAtTargetDoes DEF HomeIInv, OneSaver, Goes, Others, Saving
<1>7. QED
  BY <1>1, <1>2, <1>3, <1>4, <1>5, OthersHold, <1>6 DEF HomeIInv

LEMMA StageHolds == ASSUME HomeIInv, NEW p \in Users, Stage(p) PROVE HomeIInv'
<1>1. HomeTyped'
  BY StageDoes DEF Stage, HomeIInv, HomeTyped, FilesTyped, BackupTyped, UsersTyped, Goes, Sets
<1>2. FilesStay
  BY StageDoes, SetsKeepsFiles, SameKeepsFiles DEF Stage
<1>3. FilesExist'
  BY <1>2, StageDoes, RecordsAreTyped DEF Stage, HomeIInv, HomeTyped, FilesExist, FilesStay, Exists, Sets
<1>4. StepHolds(p)'
  <2>1. StepHolds(p)
    BY DEF HomeIInv, StepsHold
  <2> HIDE DEF FilesExist, StepsHold, HomeTyped
  <2>2. QED
    BY <1>2, <2>1, StageDoes, RecordsAreTyped DEF Stage, StepHolds, Does, Goes, Kept, Sets, FilesStay, Exists,
     AtHome, Opening, Saving, Copying, Restoring
<1>5. BackupStays /\ Others(p)
  BY StageDoes DEF Stage, BackupStays, Goes, Sets
<1>6. OneSaver'
  BY StageDoes DEF HomeIInv, OneSaver, Goes, Others, Saving
<1>7. QED
  BY <1>1, <1>2, <1>3, <1>4, <1>5, OthersHold, <1>6 DEF HomeIInv

LEMMA StageEndsHolds == ASSUME HomeIInv, NEW p \in Users, StageEnds(p) PROVE HomeIInv'
<1>1. HomeTyped'
  BY StageEndsDoes DEF StageEnds, HomeIInv, HomeTyped, FilesTyped, BackupTyped, UsersTyped, Goes, Sets
<1>2. FilesStay
  BY StageEndsDoes, SetsKeepsFiles, SameKeepsFiles DEF StageEnds
<1>3. FilesExist'
  BY <1>2, StageEndsDoes, RecordsAreTyped DEF StageEnds, HomeIInv, HomeTyped, FilesExist, FilesStay, Exists, Sets
<1>4. StepHolds(p)'
  <2>1. StepHolds(p)
    BY DEF HomeIInv, StepsHold
  <2> HIDE DEF FilesExist, StepsHold, HomeTyped
  <2>2. QED
    BY <1>2, <2>1, StageEndsDoes, RecordsAreTyped DEF StageEnds, StepHolds, Does, Goes, Kept, FilesStay, Exists,
     AtHome, Opening, Saving, Copying, Restoring
<1>5. BackupStays /\ Others(p)
  BY StageEndsDoes DEF StageEnds, BackupStays, Goes, Sets
<1>6. OneSaver'
  BY StageEndsDoes DEF HomeIInv, OneSaver, Goes, Others, Saving
<1>7. QED
  BY <1>1, <1>2, <1>3, <1>4, <1>5, OthersHold, <1>6 DEF HomeIInv

LEMMA RemoveTargetHolds == ASSUME HomeIInv, NEW p \in Users, RemoveTarget(p) PROVE HomeIInv'
<1>1. HomeTyped'
  <2>1. UsersTyped'
    BY RemoveTargetDoes DEF Goes
  <2>2. \/ directory' = FALSE /\ home' = 0
        \/ directory' = directory /\ home' = home
    BY RemoveTargetDoes
  <2>3. FilesTyped' /\ BackupTyped'
    BY DEF RemoveTarget, HomeIInv, HomeTyped, FilesTyped, BackupTyped
  <2>4. directory' \in BOOLEAN
    BY <2>2 DEF HomeIInv, HomeTyped
  <2>5. home' \in 0..MaxFiles
    BY <2>2, HomeAssumption DEF HomeIInv, HomeTyped
  <2>6. QED
    BY <2>1, <2>3, <2>4, <2>5 DEF HomeTyped
<1>2. FilesStay
  BY RemoveTargetDoes, SetsKeepsFiles, SameKeepsFiles DEF RemoveTarget
<1>3. FilesExist'
  BY <1>2, RemoveTargetDoes, RecordsAreTyped DEF RemoveTarget, HomeIInv, HomeTyped, FilesExist, FilesStay, Exists, Sets
<1>4. StepHolds(p)'
  <2>1. StepHolds(p)
    BY DEF HomeIInv, StepsHold
  <2> HIDE DEF FilesExist, StepsHold, HomeTyped
  <2>2. QED
    BY <1>2, <2>1, RemoveTargetDoes, RecordsAreTyped DEF RemoveTarget, StepHolds, Does, Goes, Kept, FilesStay, Exists,
     AtHome, Opening, Saving, Copying, Restoring
<1>5. BackupStays /\ Others(p)
  BY RemoveTargetDoes DEF RemoveTarget, BackupStays, Goes, Sets
<1>6. OneSaver'
  BY RemoveTargetDoes DEF HomeIInv, OneSaver, Goes, Others, Saving
<1>7. QED
  BY <1>1, <1>2, <1>3, <1>4, <1>5, OthersHold, <1>6 DEF HomeIInv

LEMMA RenameStagedHolds == ASSUME HomeIInv, NEW p \in Users, RenameStaged(p) PROVE HomeIInv'
<1>1. HomeTyped'
  <2>1. Exists(user[p].file)
    BY RenameStagedDoes DEF HomeIInv, StepsHold, StepHolds, Copying
  <2>2. user[p].file \in 0..MaxFiles
    BY <2>1, HomeAssumption DEF Exists, Files
  <2>3. \/ directory' = TRUE /\ home' = user[p].file
        \/ directory' = directory /\ home' = home
    BY RenameStagedDoes
  <2>4. UsersTyped'
    BY RenameStagedDoes DEF Goes
  <2>5. FilesTyped' /\ BackupTyped'
    BY DEF RenameStaged, HomeIInv, HomeTyped, FilesTyped, BackupTyped
  <2>6. directory' \in BOOLEAN
    BY <2>3 DEF HomeIInv, HomeTyped
  <2>7. home' \in 0..MaxFiles
    BY <2>2, <2>3 DEF HomeIInv, HomeTyped
  <2>8. QED
    BY <2>4, <2>5, <2>6, <2>7 DEF HomeTyped
<1>2. FilesStay
  BY RenameStagedDoes, SetsKeepsFiles, SameKeepsFiles DEF RenameStaged
<1>3. FilesExist'
  <2>1. Exists(user[p].file) /\ UNCHANGED <<files, backup>>
    BY RenameStagedDoes DEF HomeIInv, StepsHold, StepHolds, Copying, RenameStaged
  <2>2. QED
    BY <2>1, RenameStagedDoes DEF HomeIInv, FilesExist, Exists
<1>4. StepHolds(p)'
  <2>1. StepHolds(p)
    BY DEF HomeIInv, StepsHold
  <2> HIDE DEF FilesExist, StepsHold, HomeTyped
  <2>2. QED
    BY <1>2, <2>1, RenameStagedDoes, RecordsAreTyped DEF RenameStaged, StepHolds, Does, Goes, Kept, FilesStay, Exists,
     AtHome, Opening, Saving, Copying, Restoring
<1>5. BackupStays /\ Others(p)
  BY RenameStagedDoes DEF RenameStaged, BackupStays, Goes, Sets
<1>6. OneSaver'
  BY RenameStagedDoes DEF HomeIInv, OneSaver, Goes, Others, Saving
<1>7. QED
  BY <1>1, <1>2, <1>3, <1>4, <1>5, OthersHold, <1>6 DEF HomeIInv

LEMMA EndsHolds == ASSUME HomeIInv, NEW p \in Users, Ends(p) PROVE HomeIInv'
<1>1. HomeTyped'
  BY EndsDoes DEF Ends, HomeIInv, HomeTyped, FilesTyped, BackupTyped, UsersTyped, Goes, Sets
<1>2. FilesStay
  BY EndsDoes, SetsKeepsFiles, SameKeepsFiles DEF Ends
<1>3. FilesExist'
  BY <1>2, EndsDoes, RecordsAreTyped DEF Ends, HomeIInv, HomeTyped, FilesExist, FilesStay, Exists, Sets
<1>4. StepHolds(p)'
  <2>1. StepHolds(p)
    BY DEF HomeIInv, StepsHold
  <2> HIDE DEF FilesExist, StepsHold, HomeTyped
  <2>2. QED
    BY <1>2, <2>1, EndsDoes, RecordsAreTyped DEF Ends, StepHolds, Does, Goes, Kept, FilesStay, Exists,
     AtHome, Opening, Saving, Copying, Restoring
<1>5. BackupStays /\ Others(p)
  BY EndsDoes DEF Ends, BackupStays, Goes, Sets
<1>6. OneSaver'
  BY EndsDoes DEF HomeIInv, OneSaver, Goes, Others, Saving
<1>7. QED
  BY <1>1, <1>2, <1>3, <1>4, <1>5, OthersHold, <1>6 DEF HomeIInv

LEMMA DamageBackupHolds == ASSUME HomeIInv, DamageBackup PROVE HomeIInv'
<1>1. FilesStay /\ BackupStays
  BY DamageBackupDoes, SetsKeepsFiles DEF BackupStays
<1>2. HomeTyped'
  BY DamageBackupDoes DEF DamageBackup, HomeIInv, HomeTyped, Sets
<1>3. FilesExist'
  BY <1>1 DEF DamageBackup, HomeIInv, FilesExist, FilesStay, BackupStays, Exists
<1>4. StepsHold'
  BY <1>1 DEF DamageBackup, HomeIInv, StepsHold, StepHolds, FilesStay, BackupStays, Exists
<1>5. OneSaver'
  BY DEF DamageBackup, HomeIInv, OneSaver
<1>6. QED
  BY <1>2, <1>3, <1>4, <1>5 DEF HomeIInv

LEMMA LoseHomeHolds == ASSUME HomeIInv, LoseHome PROVE HomeIInv'
<1>1. HomeTyped'
  <2>1. directory' = FALSE /\ home' \in 0..MaxFiles
    BY HomeAssumption DEF LoseHome
  <2>2. directory' \in BOOLEAN
    BY <2>1
  <2>3. QED
    BY <2>1, <2>2 DEF LoseHome, HomeIInv, HomeTyped, FilesTyped, BackupTyped, UsersTyped
<1>2. FilesExist' /\ StepsHold' /\ OneSaver'
  BY DEF LoseHome, HomeIInv, FilesExist, StepsHold, StepHolds, OneSaver, Exists
<1>3. QED
  BY <1>1, <1>2 DEF HomeIInv

LEMMA SameHolds == ASSUME HomeIInv, UNCHANGED homeVars PROVE HomeIInv'
BY DEF homeVars, HomeIInv, HomeTyped, FilesTyped, BackupTyped, UsersTyped, FilesExist, StepsHold,
       StepHolds, OneSaver, Exists

LEMMA HomeStepIInv == ASSUME HomeIInv, AllCoherent, [HomeNext]_homeVars PROVE HomeIInv'
BY OpenInspectHolds, ConnectHolds, CreateMetadataHolds, SelectMarkerHolds, InsertMarkerHolds,
   CreateTablesHolds, WriteHolds, PlanMigrationHolds, BeginMigrationHolds, MigrateStepHolds,
   CommitHolds, BeginBackupHolds, VacuumHolds, VacuumEndsHolds, WriteManifestHolds,
   BackupFailsHolds, VerifyBackupHolds, LookAtTargetHolds, StageHolds, StageEndsHolds,
   RemoveTargetHolds, RenameStagedHolds, EndsHolds, DamageBackupHolds, LoseHomeHolds, SameHolds
   DEF HomeNext

-----------------------------------------------------------------------------
(* The files of different purposes stay apart.                             *)

(* A step that takes up no new file.                                       *)
LEMMA TurnApart ==
  ASSUME Apart, NEW p \in Users, Others(p), UNCHANGED <<home, backup.file>>,
         user'[p].step \in AtHome \cup Copying =>
           user[p].step \in AtHome \cup Copying /\ user'[p].file = user[p].file,
         user'[p].step \in Copying => user[p].step \in Copying
  PROVE  Apart'
BY DEF Apart, Others

LEMMA OpenInspectApart == ASSUME HomeIInv, Apart, NEW p \in Users, OpenInspect(p) PROVE Apart'
<1>1. Others(p) /\ UNCHANGED <<home, backup.file>>
  BY OpenInspectDoes DEF OpenInspect, Goes
<1>2. user'[p].step \in AtHome \cup Copying =>
        user[p].step \in AtHome \cup Copying /\ user'[p].file = user[p].file
  BY OpenInspectDoes DEF OpenInspect, Does, Goes, Kept, AtHome, Opening, Saving, Copying, Restoring
<1>3. user'[p].step \in Copying => user[p].step \in Copying
  BY OpenInspectDoes DEF OpenInspect, Does, Goes, AtHome, Opening, Saving, Copying, Restoring
<1>4. QED
  BY <1>1, <1>2, <1>3, TurnApart

LEMMA CreateMetadataApart == ASSUME HomeIInv, Apart, NEW p \in Users, CreateMetadata(p) PROVE Apart'
<1>1. Others(p) /\ UNCHANGED <<home, backup.file>>
  BY CreateMetadataDoes DEF CreateMetadata, Goes
<1>2. user'[p].step \in AtHome \cup Copying =>
        user[p].step \in AtHome \cup Copying /\ user'[p].file = user[p].file
  BY CreateMetadataDoes DEF CreateMetadata, Does, Goes, Kept, AtHome, Opening, Saving, Copying, Restoring
<1>3. user'[p].step \in Copying => user[p].step \in Copying
  BY CreateMetadataDoes DEF CreateMetadata, Does, Goes, AtHome, Opening, Saving, Copying, Restoring
<1>4. QED
  BY <1>1, <1>2, <1>3, TurnApart

LEMMA SelectMarkerApart == ASSUME HomeIInv, Apart, NEW p \in Users, SelectMarker(p) PROVE Apart'
<1>1. Others(p) /\ UNCHANGED <<home, backup.file>>
  BY SelectMarkerDoes DEF SelectMarker, Goes
<1>2. user'[p].step \in AtHome \cup Copying =>
        user[p].step \in AtHome \cup Copying /\ user'[p].file = user[p].file
  BY SelectMarkerDoes DEF SelectMarker, Does, Goes, Kept, AtHome, Opening, Saving, Copying, Restoring
<1>3. user'[p].step \in Copying => user[p].step \in Copying
  BY SelectMarkerDoes DEF SelectMarker, Does, Goes, AtHome, Opening, Saving, Copying, Restoring
<1>4. QED
  BY <1>1, <1>2, <1>3, TurnApart

LEMMA InsertMarkerApart == ASSUME HomeIInv, Apart, NEW p \in Users, InsertMarker(p) PROVE Apart'
<1>1. Others(p) /\ UNCHANGED <<home, backup.file>>
  BY InsertMarkerDoes DEF InsertMarker, Goes
<1>2. user'[p].step \in AtHome \cup Copying =>
        user[p].step \in AtHome \cup Copying /\ user'[p].file = user[p].file
  BY InsertMarkerDoes DEF InsertMarker, Does, Goes, Kept, AtHome, Opening, Saving, Copying, Restoring
<1>3. user'[p].step \in Copying => user[p].step \in Copying
  BY InsertMarkerDoes DEF InsertMarker, Does, Goes, AtHome, Opening, Saving, Copying, Restoring
<1>4. QED
  BY <1>1, <1>2, <1>3, TurnApart

LEMMA CreateTablesApart == ASSUME HomeIInv, Apart, NEW p \in Users, CreateTables(p) PROVE Apart'
<1>1. Others(p) /\ UNCHANGED <<home, backup.file>>
  BY CreateTablesDoes DEF CreateTables, Goes
<1>2. user'[p].step \in AtHome \cup Copying =>
        user[p].step \in AtHome \cup Copying /\ user'[p].file = user[p].file
  BY CreateTablesDoes DEF CreateTables, Does, Goes, Kept, AtHome, Opening, Saving, Copying, Restoring
<1>3. user'[p].step \in Copying => user[p].step \in Copying
  BY CreateTablesDoes DEF CreateTables, Does, Goes, AtHome, Opening, Saving, Copying, Restoring
<1>4. QED
  BY <1>1, <1>2, <1>3, TurnApart

LEMMA BeginMigrationApart == ASSUME HomeIInv, Apart, NEW p \in Users, BeginMigration(p) PROVE Apart'
<1>1. Others(p) /\ UNCHANGED <<home, backup.file>>
  BY BeginMigrationDoes DEF BeginMigration, Goes
<1>2. user'[p].step \in AtHome \cup Copying =>
        user[p].step \in AtHome \cup Copying /\ user'[p].file = user[p].file
  BY BeginMigrationDoes DEF BeginMigration, Does, Goes, Kept, AtHome, Opening, Saving, Copying, Restoring
<1>3. user'[p].step \in Copying => user[p].step \in Copying
  BY BeginMigrationDoes DEF BeginMigration, Does, Goes, AtHome, Opening, Saving, Copying, Restoring
<1>4. QED
  BY <1>1, <1>2, <1>3, TurnApart

LEMMA MigrateStepApart == ASSUME HomeIInv, Apart, NEW p \in Users, MigrateStep(p) PROVE Apart'
<1>1. Others(p) /\ UNCHANGED <<home, backup.file>>
  BY MigrateStepDoes DEF MigrateStep, Goes
<1>2. user'[p].step \in AtHome \cup Copying =>
        user[p].step \in AtHome \cup Copying /\ user'[p].file = user[p].file
  BY MigrateStepDoes DEF MigrateStep, Does, Goes, Kept, AtHome, Opening, Saving, Copying, Restoring
<1>3. user'[p].step \in Copying => user[p].step \in Copying
  BY MigrateStepDoes DEF MigrateStep, Does, Goes, AtHome, Opening, Saving, Copying, Restoring
<1>4. QED
  BY <1>1, <1>2, <1>3, TurnApart

LEMMA CommitApart == ASSUME HomeIInv, Apart, NEW p \in Users, Commit(p) PROVE Apart'
<1>1. Others(p) /\ UNCHANGED <<home, backup.file>>
  BY CommitDoes DEF Commit, Goes
<1>2. user'[p].step \in AtHome \cup Copying =>
        user[p].step \in AtHome \cup Copying /\ user'[p].file = user[p].file
  BY CommitDoes DEF Commit, Does, Goes, Kept, AtHome, Opening, Saving, Copying, Restoring
<1>3. user'[p].step \in Copying => user[p].step \in Copying
  BY CommitDoes DEF Commit, Does, Goes, AtHome, Opening, Saving, Copying, Restoring
<1>4. QED
  BY <1>1, <1>2, <1>3, TurnApart

LEMMA VacuumEndsApart == ASSUME HomeIInv, Apart, NEW p \in Users, VacuumEnds(p) PROVE Apart'
<1>1. Others(p) /\ UNCHANGED <<home, backup.file>>
  BY VacuumEndsDoes DEF VacuumEnds, Goes
<1>2. user'[p].step \in AtHome \cup Copying =>
        user[p].step \in AtHome \cup Copying /\ user'[p].file = user[p].file
  BY VacuumEndsDoes DEF VacuumEnds, Does, Goes, Kept, AtHome, Opening, Saving, Copying, Restoring
<1>3. user'[p].step \in Copying => user[p].step \in Copying
  BY VacuumEndsDoes DEF VacuumEnds, Does, Goes, AtHome, Opening, Saving, Copying, Restoring
<1>4. QED
  BY <1>1, <1>2, <1>3, TurnApart

LEMMA WriteManifestApart == ASSUME HomeIInv, Apart, NEW p \in Users, WriteManifest(p) PROVE Apart'
<1>1. Others(p) /\ UNCHANGED <<home, backup.file>>
  BY WriteManifestDoes DEF WriteManifest, Goes
<1>2. user'[p].step \in AtHome \cup Copying =>
        user[p].step \in AtHome \cup Copying /\ user'[p].file = user[p].file
  BY WriteManifestDoes DEF WriteManifest, Does, Goes, Kept, AtHome, Opening, Saving, Copying, Restoring
<1>3. user'[p].step \in Copying => user[p].step \in Copying
  BY WriteManifestDoes DEF WriteManifest, Does, Goes, AtHome, Opening, Saving, Copying, Restoring
<1>4. QED
  BY <1>1, <1>2, <1>3, TurnApart

LEMMA VerifyBackupApart == ASSUME HomeIInv, Apart, NEW p \in Users, VerifyBackup(p) PROVE Apart'
<1>1. Others(p) /\ UNCHANGED <<home, backup.file>>
  BY VerifyBackupDoes DEF VerifyBackup, Goes
<1>2. user'[p].step \in AtHome \cup Copying =>
        user[p].step \in AtHome \cup Copying /\ user'[p].file = user[p].file
  BY VerifyBackupDoes DEF VerifyBackup, Does, Goes, Kept, AtHome, Opening, Saving, Copying, Restoring
<1>3. user'[p].step \in Copying => user[p].step \in Copying
  BY VerifyBackupDoes DEF VerifyBackup, Does, Goes, AtHome, Opening, Saving, Copying, Restoring
<1>4. QED
  BY <1>1, <1>2, <1>3, TurnApart

LEMMA LookAtTargetApart == ASSUME HomeIInv, Apart, NEW p \in Users, LookAtTarget(p) PROVE Apart'
<1>1. Others(p) /\ UNCHANGED <<home, backup.file>>
  BY LookAtTargetDoes DEF LookAtTarget, Goes
<1>2. user'[p].step \in AtHome \cup Copying =>
        user[p].step \in AtHome \cup Copying /\ user'[p].file = user[p].file
  BY LookAtTargetDoes DEF LookAtTarget, Does, Goes, Kept, AtHome, Opening, Saving, Copying, Restoring
<1>3. user'[p].step \in Copying => user[p].step \in Copying
  BY LookAtTargetDoes DEF LookAtTarget, Does, Goes, AtHome, Opening, Saving, Copying, Restoring
<1>4. QED
  BY <1>1, <1>2, <1>3, TurnApart

LEMMA StageEndsApart == ASSUME HomeIInv, Apart, NEW p \in Users, StageEnds(p) PROVE Apart'
<1>1. Others(p) /\ UNCHANGED <<home, backup.file>>
  BY StageEndsDoes DEF StageEnds, Goes
<1>2. user'[p].step \in AtHome \cup Copying =>
        user[p].step \in AtHome \cup Copying /\ user'[p].file = user[p].file
  BY StageEndsDoes DEF StageEnds, Does, Goes, Kept, AtHome, Opening, Saving, Copying, Restoring
<1>3. user'[p].step \in Copying => user[p].step \in Copying
  BY StageEndsDoes DEF StageEnds, Does, Goes, AtHome, Opening, Saving, Copying, Restoring
<1>4. QED
  BY <1>1, <1>2, <1>3, TurnApart

LEMMA EndsApart == ASSUME HomeIInv, Apart, NEW p \in Users, Ends(p) PROVE Apart'
<1>1. Others(p) /\ UNCHANGED <<home, backup.file>>
  BY EndsDoes DEF Ends, Goes
<1>2. user'[p].step \in AtHome \cup Copying =>
        user[p].step \in AtHome \cup Copying /\ user'[p].file = user[p].file
  BY EndsDoes DEF Ends, Does, Goes, Kept, AtHome, Opening, Saving, Copying, Restoring
<1>3. user'[p].step \in Copying => user[p].step \in Copying
  BY EndsDoes DEF Ends, Does, Goes, AtHome, Opening, Saving, Copying, Restoring
<1>4. QED
  BY <1>1, <1>2, <1>3, TurnApart

(* A step that takes up the home.                                          *)
LEMMA HomeApart ==
  ASSUME Apart, NEW p \in Users, Others(p), UNCHANGED <<home, backup.file>>,
         home # 0, user'[p].file = home, user'[p].step \notin Copying
  PROVE  Apart'
BY DEF Apart, Others

LEMMA FreshIsUnused ==
  ASSUME HomeIInv, NEW i \in Files, FreshFile(i)
  PROVE  /\ i # 0 /\ i # backup.file /\ i # home
         /\ \A q \in Users : user[q].step \in AtHome \cup Copying => user[q].file # i
<1>1. files[i] \notin Database /\ i # 0
  BY FreshIsNoFile, RecordsAreTyped, HomeAssumption DEF Files
<1>2. QED
  BY <1>1 DEF HomeIInv, FilesExist, StepsHold, StepHolds, Exists

LEMMA ConnectApart == ASSUME HomeIInv, Apart, NEW p \in Users, Connect(p) PROVE Apart'
<1>1. UNCHANGED backup.file
  BY DEF Connect
<1>2. CASE Goes(p, "away") /\ UNCHANGED <<files, home>>
  BY <1>1, <1>2, TurnApart DEF Goes, AtHome, Opening, Copying
<1>3. CASE Goes(p, "metadata") /\ user'[p].file = home' /\ home # 0 /\ UNCHANGED home
  BY <1>1, <1>3, HomeApart DEF Goes, Copying
<1>4. CASE /\ Goes(p, "metadata") /\ user'[p].file = home' /\ home = 0
           /\ home' \in Files /\ FreshFile(home')
  <2>1. /\ home' # 0 /\ home' # backup.file
        /\ \A q \in Users : user[q].step \in AtHome \cup Copying => user[q].file # home'
    BY <1>4, FreshIsUnused
  <2>2. user'[p].step \notin Copying
    BY <1>4 DEF Goes, Copying
  <2>3. QED
    BY <1>1, <1>4, <2>1, <2>2 DEF Apart, Goes, Others
<1>5. QED
  BY <1>2, <1>3, <1>4, ConnectDoes

LEMMA PlanMigrationApart == ASSUME HomeIInv, Apart, NEW p \in Users, PlanMigration(p) PROVE Apart'
<1>1. UNCHANGED <<home, backup.file>> /\ home # 0
  BY DEF PlanMigration
<1>2. Others(p) /\ user'[p].file = home /\ user'[p].step \notin Copying
  BY PlanMigrationDoes DEF Goes, Copying
<1>3. QED
  BY <1>1, <1>2, HomeApart

LEMMA BeginBackupApart == ASSUME HomeIInv, Apart, NEW p \in Users, BeginBackup(p) PROVE Apart'
<1>1. UNCHANGED <<home, backup.file>> /\ home # 0
  BY DEF BeginBackup
<1>2. Others(p) /\ user'[p].file = home /\ user'[p].step \notin Copying
  BY BeginBackupDoes DEF Goes, Copying
<1>3. QED
  BY <1>1, <1>2, HomeApart

LEMMA VacuumApart == ASSUME HomeIInv, Apart, NEW p \in Users, Vacuum(p) PROVE Apart'
<1>1. UNCHANGED home /\ Others(p) /\ user'[p].step \notin AtHome \cup Copying
  BY VacuumDoes DEF Vacuum, Goes, AtHome, Opening, Copying
<1>2. backup'.file \in Files /\ FreshFile(backup'.file)
  BY VacuumDoes DEF Sets
<1>3. /\ home # backup'.file
      /\ \A q \in Users : user[q].step \in AtHome \cup Copying => user[q].file # backup'.file
  BY <1>2, FreshIsUnused
<1>4. QED
  BY <1>1, <1>3 DEF Apart, Others

LEMMA BackupFailsApart == ASSUME HomeIInv, Apart, NEW p \in Users, BackupFails(p) PROVE Apart'
<1>1. /\ UNCHANGED home /\ Others(p) /\ user'[p].step \notin AtHome \cup Copying
      /\ backup'.file = 0
  BY BackupFailsDoes DEF BackupFails, Goes, AtHome, Opening, Copying
<1>2. \A q \in Users : user[q].step \in AtHome \cup Copying => user[q].file # 0
  BY HomeAssumption DEF HomeIInv, StepsHold, StepHolds, Exists, Files
<1>3. QED
  BY <1>1, <1>2 DEF Apart, Others

LEMMA StageApart == ASSUME HomeIInv, Apart, NEW p \in Users, Stage(p) PROVE Apart'
<1>1. UNCHANGED <<home, backup.file>> /\ Others(p) /\ user'[p].step \in Copying
  BY StageDoes DEF Stage, Goes, Copying
<1>2. user'[p].file \in Files /\ FreshFile(user'[p].file)
  BY StageDoes DEF Sets
<1>3. /\ user'[p].file # home /\ user'[p].file # backup.file
      /\ \A q \in Users : user[q].step \in AtHome \cup Copying => user[q].file # user'[p].file
  BY <1>2, FreshIsUnused
<1>4. QED
  BY <1>1, <1>3 DEF Apart, Others

LEMMA RemoveTargetApart == ASSUME HomeIInv, Apart, NEW p \in Users, RemoveTarget(p) PROVE Apart'
<1>1. UNCHANGED backup.file /\ Others(p) /\ (home' = home \/ home' = 0) /\ user[p].step \in Copying
  BY RemoveTargetDoes DEF RemoveTarget, Goes, Copying
<1>2. user'[p].step \in AtHome \cup Copying => user'[p].file = user[p].file
  BY RemoveTargetDoes DEF Goes, Kept, AtHome, Opening, Copying
<1>3. \A q \in Users : user[q].step \in Copying => user[q].file # 0
  BY HomeAssumption DEF HomeIInv, StepsHold, StepHolds, Exists, Files
<1>4. QED
  BY <1>1, <1>2, <1>3 DEF Apart, Others

LEMMA RenameStagedApart == ASSUME HomeIInv, Apart, NEW p \in Users, RenameStaged(p) PROVE Apart'
<1>1. /\ UNCHANGED backup.file /\ Others(p) /\ (home' = home \/ home' = user[p].file)
      /\ user[p].step \in Copying /\ user'[p].step \notin AtHome \cup Copying
  BY RenameStagedDoes DEF RenameStaged, Goes, AtHome, Opening, Copying
<1>2. QED
  BY <1>1 DEF Apart, Others

LEMMA DamageBackupApart == ASSUME HomeIInv, Apart, DamageBackup PROVE Apart'
BY DamageBackupDoes DEF DamageBackup, Apart

LEMMA LoseHomeApart == ASSUME HomeIInv, Apart, LoseHome PROVE Apart'
<1>1. \A q \in Users : user[q].step \notin Copying
  BY DEF LoseHome, Does, Copying
<1>2. QED
  BY <1>1 DEF LoseHome, Apart

LEMMA SameApart == ASSUME Apart, UNCHANGED homeVars PROVE Apart'
BY DEF homeVars, Apart

LEMMA ApartStep == ASSUME HomeIInv, Apart, [HomeNext]_homeVars PROVE Apart'
<1>1. CASE \E p \in Users : Write(p)
  BY <1>1 DEF Write, Apart
<1>2. QED
  BY <1>1, OpenInspectApart, ConnectApart, CreateMetadataApart, SelectMarkerApart,
     InsertMarkerApart, CreateTablesApart, PlanMigrationApart, BeginMigrationApart,
     MigrateStepApart, CommitApart, BeginBackupApart, VacuumApart, VacuumEndsApart,
     WriteManifestApart, BackupFailsApart, VerifyBackupApart, LookAtTargetApart, StageApart,
     StageEndsApart, RemoveTargetApart, RenameStagedApart, EndsApart, DamageBackupApart,
     LoseHomeApart, SameApart DEF HomeNext

-----------------------------------------------------------------------------
(* Homes, manifests and what is copied stay sound.                         *)

(* Away from the backup no content gets worse, and a backup that was       *)
(* vouched for stays so.                                                   *)
ContentStays ==
  /\ backup.late /\ backup.manifest # NoFile => (backup.late /\ backup.manifest # NoFile)'
  /\ \A j \in Files \ {backup.file} :
       files[j] \in Database /\ SoundData(files[j].data) => SoundData(files[j].data)'

VouchedStays == backup.file # 0 /\ Vouched => Vouched'

LEMMA SameStays == ASSUME UNCHANGED <<files, backup>> PROVE ContentStays /\ VouchedStays
BY DEF ContentStays, VouchedStays, Vouched, SoundData

LEMMA SetsStays ==
  ASSUME HomeIInv, NEW i, NEW f, Sets(i, f), UNCHANGED backup, i # backup.file,
         files[i] \in Database /\ SoundData(files[i].data) => SoundData(f.data)
  PROVE  ContentStays /\ VouchedStays
<1>1. ASSUME NEW j \in Files \ {backup.file}, files[j] \in Database, SoundData(files[j].data)
      PROVE  SoundData(files[j].data)'
  <2>1. CASE j = i
    BY <1>1, <2>1 DEF Sets, SoundData
  <2>2. CASE j # i
    BY <1>1, <2>2 DEF Sets, SoundData
  <2>3. QED
    BY <2>1, <2>2
<1>2. VouchedStays
  BY DEF VouchedStays, Vouched, Sets, HomeIInv, FilesExist, Exists
<1>3. QED
  BY <1>1, <1>2 DEF ContentStays

(* What every step has to show for its own process, the home and the       *)
(* manifest.                                                               *)
LEMMA OthersSound ==
  ASSUME HomeIInv, Apart, ContentSound, NEW p \in Users, Others(p), ContentStays, VouchedStays,
         UserSound(p)', home' # 0 => SoundData(files[home].data)',
         backup'.manifest # NoFile => SoundData(backup.manifest.data)'
  PROVE  ContentSound'
<1>1. ASSUME NEW q \in Users \ {p} PROVE UserSound(q)'
  <2>1. UserSound(q) /\ StepHolds(q) /\ user'[q] = user[q]
    BY DEF ContentSound, HomeIInv, StepsHold, Others
  <2>2. user[q].step \in AtHome \cup Copying =>
          Exists(user[q].file) /\ user[q].file # backup.file
    BY <2>1 DEF StepHolds, Apart
  <2>3. user[q].step \in AtHome \cup {"remove", "rename"} => SoundData(files[user[q].file].data)'
    BY <2>1, <2>2 DEF UserSound, ContentStays, Exists, Copying
  <2>4. user[q].step = "migrating" => SoundData(user[q].work.data)'
    BY <2>1 DEF UserSound, SoundData, ContentStays
  <2>5. user[q].step \in {"manifest", "verified", "stage", "staging"} => backup.file # 0
    BY <2>1 DEF StepHolds, HomeIInv, FilesExist, Saving, Restoring, Copying
  <2>6. QED
    BY <2>1, <2>3, <2>4, <2>5 DEF UserSound, VouchedStays
<1>2. QED
  BY <1>1 DEF ContentSound

(* A home that stays where it is, and a backup that is left alone.         *)
LEMMA HomeStays ==
  ASSUME HomeIInv, Apart, ContentSound, ContentStays, home' = home \/ home' = 0
  PROVE  home' # 0 => SoundData(files[home].data)'
BY DEF HomeIInv, FilesExist, Exists, Apart, ContentSound, ContentStays

LEMMA ManifestStays ==
  ASSUME ContentSound, UNCHANGED backup
  PROVE  backup'.manifest # NoFile => SoundData(backup.manifest.data)'
BY DEF ContentSound, SoundData

(* A process that keeps its file, and does no more with it than before.    *)
LEMMA KeptSound ==
  ASSUME HomeIInv, Apart, ContentSound, ContentStays, VouchedStays, NEW p \in Users,
         user'[p].file = user[p].file,
         user'[p].step \in AtHome \cup {"remove", "rename"} =>
           user[p].step \in AtHome \cup {"remove", "rename"},
         user'[p].step = "migrating" => SoundData(user[p].work.data)',
         user'[p].step \in {"manifest", "verified", "stage", "staging"} => Vouched'
  PROVE  UserSound(p)'
<1>1. UserSound(p) /\ StepHolds(p)
  BY DEF ContentSound, HomeIInv, StepsHold
<1>2. user[p].step \in AtHome \cup Copying =>
        Exists(user[p].file) /\ user[p].file # backup.file
  BY <1>1 DEF StepHolds, Apart
<1>3. user'[p].step \in AtHome \cup {"remove", "rename"} => SoundData(files[user[p].file].data)'
  BY <1>1, <1>2 DEF UserSound, ContentStays, Exists, Copying
<1>4. QED
  BY <1>3 DEF UserSound

LEMMA AwaySound == ASSUME NEW p, user'[p].step \in {"away", "connect", "vacuuming"} PROVE UserSound(p)'
BY DEF UserSound, AtHome, Opening

LEMMA OpenInspectSound ==
  ASSUME HomeIInv, Apart, ContentSound, NEW p \in Users, OpenInspect(p) PROVE ContentSound'
<1>1. ContentStays /\ VouchedStays
  BY SameStays DEF OpenInspect
<1>2. UserSound(p)'
  BY OpenInspectDoes, AwaySound DEF Goes
<1>3. Others(p)
  BY OpenInspectDoes DEF Goes, Others
<1>4. (home' = home \/ home' = 0) /\ UNCHANGED backup
  BY OpenInspectDoes DEF OpenInspect
<1>5. QED
  BY <1>1, <1>2, <1>3, <1>4, OthersSound, HomeStays, ManifestStays

LEMMA CreateMetadataSound ==
  ASSUME HomeIInv, Apart, ContentSound, NEW p \in Users, CreateMetadata(p) PROVE ContentSound'
<1>1. ContentStays /\ VouchedStays
  <2>1. user[p].file # backup.file
    BY DEF CreateMetadata, Does, Apart, AtHome, Opening, Copying
  <2> DEFINE f == [files[user[p].file] EXCEPT !.tables = @ \cup {"metadata"}]
  <2>2. Sets(user[p].file, f) /\ f.data = files[user[p].file].data
    BY CreateMetadataDoes DEF Database
  <2> HIDE DEF f
  <2>3. QED
    BY <2>1, <2>2, SetsStays DEF CreateMetadata
<1>2. UserSound(p)'
  <2>1. user[p].step \in AtHome /\ user'[p].file = user[p].file /\ user'[p].step \in Opening
    BY CreateMetadataDoes DEF CreateMetadata, Does, Goes, Kept, AtHome, Opening
  <2>2. QED
    BY <1>1, <2>1, KeptSound DEF AtHome, Opening
<1>3. Others(p)
  BY CreateMetadataDoes DEF Goes, Others
<1>4. (home' = home \/ home' = 0) /\ UNCHANGED backup
  BY CreateMetadataDoes DEF CreateMetadata
<1>5. QED
  BY <1>1, <1>2, <1>3, <1>4, OthersSound, HomeStays, ManifestStays

LEMMA SelectMarkerSound ==
  ASSUME HomeIInv, Apart, ContentSound, NEW p \in Users, SelectMarker(p) PROVE ContentSound'
<1>1. ContentStays /\ VouchedStays
  BY SameStays DEF SelectMarker
<1>2. UserSound(p)'
  <2>1. CASE Goes(p, "away")
    BY <2>1, AwaySound DEF Goes
  <2>2. CASE user'[p].file = user[p].file /\ user'[p].step \in Opening
    <3>1. user[p].step \in AtHome
      BY DEF SelectMarker, Does, AtHome, Opening
    <3>2. QED
      BY <1>1, <2>2, <3>1, KeptSound DEF AtHome, Opening
  <2>3. QED
    BY <2>1, <2>2, SelectMarkerDoes DEF Goes, Kept, Opening
<1>3. Others(p)
  BY SelectMarkerDoes DEF Goes, Others
<1>4. (home' = home \/ home' = 0) /\ UNCHANGED backup
  BY SelectMarkerDoes DEF SelectMarker
<1>5. QED
  BY <1>1, <1>2, <1>3, <1>4, OthersSound, HomeStays, ManifestStays

LEMMA CreateTablesSound ==
  ASSUME HomeIInv, Apart, ContentSound, NEW p \in Users, CreateTables(p) PROVE ContentSound'
<1>1. ContentStays /\ VouchedStays
  <2>1. user[p].file # backup.file
    BY DEF CreateTables, Does, Apart, AtHome, Opening, Copying
  <2> DEFINE f == [files[user[p].file] EXCEPT !.tables = @ \cup {"documents"}]
  <2>2. Sets(user[p].file, f) /\ f.data = files[user[p].file].data
    BY CreateTablesDoes DEF Database
  <2> HIDE DEF f
  <2>3. QED
    BY <2>1, <2>2, SetsStays DEF CreateTables
<1>2. UserSound(p)'
  <2>1. user[p].step \in AtHome /\ user'[p].file = user[p].file /\ user'[p].step \in Opening
    BY CreateTablesDoes DEF CreateTables, Does, Goes, Kept, AtHome, Opening
  <2>2. QED
    BY <1>1, <2>1, KeptSound DEF AtHome, Opening
<1>3. Others(p)
  BY CreateTablesDoes DEF Goes, Others
<1>4. (home' = home \/ home' = 0) /\ UNCHANGED backup
  BY CreateTablesDoes DEF CreateTables
<1>5. QED
  BY <1>1, <1>2, <1>3, <1>4, OthersSound, HomeStays, ManifestStays

LEMMA BeginMigrationSound ==
  ASSUME HomeIInv, Apart, ContentSound, NEW p \in Users, BeginMigration(p) PROVE ContentSound'
<1>1. ContentStays /\ VouchedStays
  BY SameStays DEF BeginMigration
<1>2. UserSound(p)'
  <2>1. user[p].step = "planned" /\ user'[p].step = "migrating" /\ user'[p].file = user[p].file
    BY BeginMigrationDoes DEF BeginMigration, Does, Goes
  <2>2. SoundData(files[user[p].file].data)
    BY <2>1 DEF ContentSound, UserSound, AtHome
  <2>3. SoundData(user[p].work.data)'
    BY <2>2, BeginMigrationDoes DEF BeginMigration, SoundData
  <2>4. QED
    BY <1>1, <2>1, <2>3, KeptSound DEF AtHome
<1>3. Others(p)
  BY BeginMigrationDoes DEF Goes, Others
<1>4. (home' = home \/ home' = 0) /\ UNCHANGED backup
  BY BeginMigrationDoes DEF BeginMigration
<1>5. QED
  BY <1>1, <1>2, <1>3, <1>4, OthersSound, HomeStays, ManifestStays

LEMMA MigrateStepSound ==
  ASSUME HomeIInv, Apart, ContentSound, NEW p \in Users, MigrateStep(p) PROVE ContentSound'
<1>1. ContentStays /\ VouchedStays
  BY SameStays DEF MigrateStep
<1>2. UserSound(p)'
  <2>1. user[p].step = "migrating" /\ user'[p].step = "migrating" /\ user'[p].file = user[p].file
    BY MigrateStepDoes DEF MigrateStep, Does, Goes
  <2>2. SoundData(user[p].work.data)
    BY <2>1 DEF ContentSound, UserSound
  <2>3. SoundData(user[p].work.data)'
    BY <2>2, MigrateStepDoes DEF MigrateStep, SoundData
  <2>4. QED
    BY <1>1, <2>1, <2>3, KeptSound DEF AtHome
<1>3. Others(p)
  BY MigrateStepDoes DEF Goes, Others
<1>4. (home' = home \/ home' = 0) /\ UNCHANGED backup
  BY MigrateStepDoes DEF MigrateStep
<1>5. QED
  BY <1>1, <1>2, <1>3, <1>4, OthersSound, HomeStays, ManifestStays

LEMMA CommitSound ==
  ASSUME HomeIInv, Apart, ContentSound, NEW p \in Users, Commit(p) PROVE ContentSound'
<1>1. ContentStays /\ VouchedStays
  <2>1. user[p].step = "migrating" /\ user[p].file # backup.file
    BY CommitDoes DEF Apart, AtHome
  <2>2. SoundData(user[p].work.data)
    BY <2>1 DEF ContentSound, UserSound
  <2>3. QED
    BY <2>1, <2>2, CommitDoes, SetsStays DEF Commit
<1>2. UserSound(p)'
  BY CommitDoes, AwaySound DEF Goes
<1>3. Others(p)
  BY CommitDoes DEF Goes, Others
<1>4. (home' = home \/ home' = 0) /\ UNCHANGED backup
  BY CommitDoes DEF Commit
<1>5. QED
  BY <1>1, <1>2, <1>3, <1>4, OthersSound, HomeStays, ManifestStays

LEMMA PlanMigrationSound ==
  ASSUME HomeIInv, Apart, ContentSound, NEW p \in Users, PlanMigration(p) PROVE ContentSound'
<1>1. ContentStays /\ VouchedStays
  BY SameStays DEF PlanMigration
<1>2. UserSound(p)'
  <2>1. user'[p].step = "planned" /\ user'[p].file = home /\ home # 0
    BY PlanMigrationDoes DEF PlanMigration, Goes
  <2>2. SoundData(files[home].data)
    BY <2>1 DEF ContentSound
  <2>3. QED
    BY <2>1, <2>2 DEF PlanMigration, UserSound, SoundData, AtHome
<1>3. Others(p)
  BY PlanMigrationDoes DEF Goes, Others
<1>4. (home' = home \/ home' = 0) /\ UNCHANGED backup
  BY PlanMigrationDoes DEF PlanMigration
<1>5. QED
  BY <1>1, <1>2, <1>3, <1>4, OthersSound, HomeStays, ManifestStays

LEMMA BeginBackupSound ==
  ASSUME HomeIInv, Apart, ContentSound, NEW p \in Users, BeginBackup(p) PROVE ContentSound'
<1>1. ContentStays /\ VouchedStays
  BY SameStays DEF BeginBackup
<1>2. UserSound(p)'
  <2>1. user'[p].step = "vacuum" /\ user'[p].file = home /\ home # 0
    BY BeginBackupDoes DEF BeginBackup, Goes
  <2>2. SoundData(files[home].data)
    BY <2>1 DEF ContentSound
  <2>3. QED
    BY <2>1, <2>2 DEF BeginBackup, UserSound, SoundData, AtHome
<1>3. Others(p)
  BY BeginBackupDoes DEF Goes, Others
<1>4. (home' = home \/ home' = 0) /\ UNCHANGED backup
  BY BeginBackupDoes DEF BeginBackup
<1>5. QED
  BY <1>1, <1>2, <1>3, <1>4, OthersSound, HomeStays, ManifestStays

LEMMA LookAtTargetSound ==
  ASSUME HomeIInv, Apart, ContentSound, NEW p \in Users, LookAtTarget(p) PROVE ContentSound'
<1>1. ContentStays /\ VouchedStays
  BY SameStays DEF LookAtTarget
<1>2. UserSound(p)'
  <2>1. CASE Goes(p, "away")
    BY <2>1, AwaySound DEF Goes
  <2>2. CASE user[p].step = "verified" /\ Goes(p, "stage")
    <3>1. Vouched
      BY <2>2 DEF ContentSound, UserSound
    <3>2. QED
      BY <2>2, <3>1 DEF LookAtTarget, UserSound, Vouched, Goes, AtHome, Opening
  <2>3. QED
    BY <2>1, <2>2, LookAtTargetDoes
<1>3. Others(p)
  BY LookAtTargetDoes DEF Goes, Others
<1>4. (home' = home \/ home' = 0) /\ UNCHANGED backup
  BY LookAtTargetDoes DEF LookAtTarget
<1>5. QED
  BY <1>1, <1>2, <1>3, <1>4, OthersSound, HomeStays, ManifestStays

LEMMA VerifyBackupSound ==
  ASSUME HomeIInv, Apart, ContentSound, NEW p \in Users, VerifyBackup(p) PROVE ContentSound'
<1>1. ContentStays /\ VouchedStays
  BY SameStays DEF VerifyBackup
<1>2. UserSound(p)'
  <2>1. user'[p].step = "verified" /\ files[backup.file] = backup.manifest /\ backup.manifest # NoFile
    BY VerifyBackupDoes DEF Goes
  <2>2. Vouched
    BY <2>1 DEF ContentSound, SoundData, Vouched
  <2>3. QED
    BY <2>1, <2>2 DEF VerifyBackup, UserSound, Vouched, AtHome, Opening
<1>3. Others(p)
  BY VerifyBackupDoes DEF Goes, Others
<1>4. (home' = home \/ home' = 0) /\ UNCHANGED backup
  BY VerifyBackupDoes DEF VerifyBackup
<1>5. QED
  BY <1>1, <1>2, <1>3, <1>4, OthersSound, HomeStays, ManifestStays

LEMMA RemoveTargetSound ==
  ASSUME HomeIInv, Apart, ContentSound, NEW p \in Users, RemoveTarget(p) PROVE ContentSound'
<1>1. ContentStays /\ VouchedStays
  BY SameStays DEF RemoveTarget
<1>2. UserSound(p)'
  <2>1. CASE Goes(p, "away")
    BY <2>1, AwaySound DEF Goes
  <2>2. CASE user[p].step = "remove" /\ user'[p].step = "rename" /\ user'[p].file = user[p].file
    BY <1>1, <2>2, KeptSound
  <2>3. QED
    BY <2>1, <2>2, RemoveTargetDoes DEF Goes, Kept
<1>3. Others(p)
  BY RemoveTargetDoes DEF Goes, Others
<1>4. (home' = home \/ home' = 0) /\ UNCHANGED backup
  BY RemoveTargetDoes DEF RemoveTarget
<1>5. QED
  BY <1>1, <1>2, <1>3, <1>4, OthersSound, HomeStays, ManifestStays

LEMMA EndsSound ==
  ASSUME HomeIInv, Apart, ContentSound, NEW p \in Users, Ends(p) PROVE ContentSound'
<1>1. ContentStays /\ VouchedStays
  BY SameStays DEF Ends
<1>2. UserSound(p)'
  BY EndsDoes, AwaySound DEF Goes
<1>3. Others(p)
  BY EndsDoes DEF Goes, Others
<1>4. (home' = home \/ home' = 0) /\ UNCHANGED backup
  BY EndsDoes DEF Ends
<1>5. QED
  BY <1>1, <1>2, <1>3, <1>4, OthersSound, HomeStays, ManifestStays

LEMMA StageSound ==
  ASSUME HomeIInv, Apart, ContentSound, NEW p \in Users, Stage(p) PROVE ContentSound'
<1>1. ContentStays /\ VouchedStays
  <2> DEFINE f == [files[backup.file] EXCEPT !.data = "partial"]
  <2>1. Sets(user'[p].file, f) /\ FreshFile(user'[p].file)
    BY StageDoes
  <2>2. files[user'[p].file] \notin Database /\ user'[p].file # backup.file
    BY <2>1, FreshIsNoFile, FreshIsUnused, RecordsAreTyped DEF Sets
  <2> HIDE DEF f
  <2>3. QED
    BY <2>1, <2>2, SetsStays DEF Stage
<1>2. UserSound(p)'
  <2>1. user[p].step = "stage" /\ user'[p].step = "staging" /\ backup.file # 0
    BY StageDoes DEF Goes
  <2>2. Vouched
    BY <2>1 DEF ContentSound, UserSound
  <2>3. QED
    BY <1>1, <2>1, <2>2 DEF UserSound, VouchedStays, AtHome, Opening
<1>3. Others(p)
  BY StageDoes DEF Goes, Others
<1>4. (home' = home \/ home' = 0) /\ UNCHANGED backup
  BY StageDoes DEF Stage
<1>5. QED
  BY <1>1, <1>2, <1>3, <1>4, OthersSound, HomeStays, ManifestStays

LEMMA StageEndsSound ==
  ASSUME HomeIInv, Apart, ContentSound, NEW p \in Users, StageEnds(p) PROVE ContentSound'
<1> DEFINE f == [files[user[p].file] EXCEPT !.data = files[backup.file].data]
<1>0. Sets(user[p].file, f) /\ f.data = files[backup.file].data /\ SoundData(f.data)
  <2>1. user[p].step = "staging" /\ Sets(user[p].file, f) /\ f.data = files[backup.file].data
    BY StageEndsDoes DEF Database
  <2>2. Vouched /\ backup.manifest # NoFile
    BY <2>1 DEF ContentSound, UserSound, HomeIInv, StepsHold, StepHolds, Restoring, Copying
  <2> HIDE DEF f
  <2>3. QED
    BY <2>1, <2>2 DEF Vouched, SoundData
<1> HIDE DEF f
<1>1. ContentStays /\ VouchedStays
  <2>1. user[p].file # backup.file
    BY StageEndsDoes DEF Apart, Copying
  <2>2. QED
    BY <1>0, <2>1, SetsStays DEF StageEnds
<1>2. UserSound(p)'
  <2>1. user'[p].step \in {"remove", "rename"} /\ user'[p].file = user[p].file
    BY StageEndsDoes DEF Goes, Kept
  <2>2. SoundData(files[user[p].file].data)'
    BY <1>0, <2>1 DEF Sets, StageEnds, SoundData
  <2>3. QED
    BY <2>1, <2>2 DEF UserSound
<1>3. Others(p)
  BY StageEndsDoes DEF Goes, Others
<1>4. (home' = home \/ home' = 0) /\ UNCHANGED backup
  BY StageEndsDoes DEF StageEnds
<1>5. QED
  BY <1>1, <1>2, <1>3, <1>4, OthersSound, HomeStays, ManifestStays

LEMMA InsertMarkerSound ==
  ASSUME HomeIInv, Apart, ContentSound, NEW p \in Users, InsertMarker(p) PROVE ContentSound'
<1>1. ContentStays /\ VouchedStays
  <2>1. user[p].file # backup.file
    BY DEF InsertMarker, Does, Apart, AtHome, Opening
  <2> DEFINE f == [files[user[p].file] EXCEPT
                     !.marker = CURRENT_STATE_SCHEMA_VERSION,
                     !.layout = IF files[user[p].file].tables = {"metadata"}
                                THEN CURRENT_STATE_SCHEMA_VERSION ELSE @]
  <2>2. CASE UNCHANGED files
    BY <2>2, SameStays DEF InsertMarker
  <2>3. CASE files[user[p].file] \in Database /\ Sets(user[p].file, f)
    <3>1. f.data = files[user[p].file].data
      BY <2>3 DEF Database
    <3> HIDE DEF f
    <3>2. QED
      BY <2>1, <2>3, <3>1, SetsStays DEF InsertMarker
  <2>4. QED
    BY <2>2, <2>3, InsertMarkerDoes
<1>2. UserSound(p)'
  <2>1. CASE Goes(p, "away")
    BY <2>1, AwaySound DEF Goes
  <2>2. CASE user'[p].step = "tables" /\ user'[p].file = user[p].file
    <3>1. user[p].step = "insert"
      BY DEF InsertMarker, Does
    <3>2. QED
      BY <1>1, <2>2, <3>1, KeptSound DEF AtHome, Opening
  <2>3. QED
    BY <2>1, <2>2, InsertMarkerDoes DEF Goes, Kept
<1>3. Others(p)
  BY InsertMarkerDoes DEF Goes, Others
<1>4. (home' = home \/ home' = 0) /\ UNCHANGED backup
  BY InsertMarkerDoes DEF InsertMarker
<1>5. QED
  BY <1>1, <1>2, <1>3, <1>4, OthersSound, HomeStays, ManifestStays

LEMMA WriteSound ==
  ASSUME HomeIInv, Apart, ContentSound, NEW p \in Users, Write(p) PROVE ContentSound'
<1>1. ContentStays /\ VouchedStays
  <2>1. user[p].file # backup.file
    BY DEF Write, Does, Apart, AtHome, Opening
  <2> DEFINE f == [files[user[p].file] EXCEPT !.writes = @ + 1]
  <2>2. Sets(user[p].file, f) /\ f.data = files[user[p].file].data
    BY WriteDoes DEF Database
  <2> HIDE DEF f
  <2>3. QED
    BY <2>1, <2>2, SetsStays DEF Write
<1>2. UNCHANGED <<home, backup, user>> /\ Others(p)
  BY DEF Write, Others
<1>3. UserSound(p)'
  <2>1. user[p].step = "open"
    BY DEF Write, Does
  <2>2. QED
    BY <1>1, <1>2, <2>1, KeptSound DEF AtHome, Opening
<1>4. QED
  BY <1>1, <1>2, <1>3, OthersSound, HomeStays, ManifestStays

LEMMA ConnectSound ==
  ASSUME HomeIInv, Apart, ContentSound, NEW p \in Users, Connect(p) PROVE ContentSound'
<1>1. UNCHANGED backup /\ Others(p)
  BY ConnectDoes DEF Connect, Goes
<1>2. CASE UNCHANGED <<files, home>>
  <2>1. ContentStays /\ VouchedStays /\ (home' # 0 => SoundData(files[home].data)')
    BY <1>1, <1>2, SameStays, HomeStays
  <2>2. CASE Goes(p, "away")
    BY <1>1, <2>1, <2>2, AwaySound, OthersSound, ManifestStays DEF Goes
  <2>3. CASE Goes(p, "metadata") /\ user'[p].file = home' /\ home' \in Files
    <3>1. home' # 0
      BY <2>3, HomeAssumption DEF Files
    <3>2. UserSound(p)'
      BY <2>1, <2>3, <3>1 DEF UserSound, Goes
    <3>3. QED
      BY <1>1, <2>1, <3>2, OthersSound, ManifestStays
  <2>4. QED
    BY <2>2, <2>3, ConnectDoes
<1>3. CASE /\ Goes(p, "metadata") /\ user'[p].file = home' /\ home' \in Files
           /\ FreshFile(home') /\ Sets(home', Blank)
  <2>1. files[home'] \notin Database /\ home' # backup.file
    BY <1>3, FreshIsNoFile, FreshIsUnused, RecordsAreTyped
  <2>2. ContentStays /\ VouchedStays
    BY <1>1, <1>3, <2>1, SetsStays
  <2>3. SoundData(files[home].data)'
    BY <1>3 DEF Sets, Blank, NoFile, SoundData
  <2>4. UserSound(p)'
    BY <1>3, <2>3 DEF UserSound, Goes
  <2>5. QED
    BY <1>1, <2>2, <2>3, <2>4, OthersSound, ManifestStays
<1>4. QED
  BY <1>2, <1>3, ConnectDoes

LEMMA RenameStagedSound ==
  ASSUME HomeIInv, Apart, ContentSound, NEW p \in Users, RenameStaged(p) PROVE ContentSound'
<1>1. ContentStays /\ VouchedStays /\ UNCHANGED <<files, backup>>
  BY SameStays DEF RenameStaged
<1>2. UserSound(p)' /\ Others(p)
  <2>1. user'[p].step = "away" /\ Others(p)
    BY RenameStagedDoes DEF Goes
  <2>2. QED
    BY <2>1, AwaySound
<1>3. home' # 0 => SoundData(files[home].data)'
  <2>1. CASE home' = home
    BY <1>1, <2>1, HomeStays
  <2>2. CASE home' = user[p].file /\ user[p].step = "rename"
    <3>1. SoundData(files[user[p].file].data)
      BY <2>2 DEF ContentSound, UserSound
    <3>2. QED
      BY <1>1, <2>2, <3>1 DEF SoundData
  <2>3. QED
    BY <2>1, <2>2, RenameStagedDoes
<1>4. QED
  BY <1>1, <1>2, <1>3, OthersSound, ManifestStays

LEMMA WriteManifestSound ==
  ASSUME HomeIInv, Apart, ContentSound, NEW p \in Users, WriteManifest(p) PROVE ContentSound'
<1>1. /\ backup'.file = backup.file /\ backup'.late = backup.late /\ UNCHANGED <<files, home>>
      /\ backup'.manifest = files[backup.file] /\ backup'.manifest # NoFile
  BY WriteManifestDoes, RecordsAreTyped DEF WriteManifest, Exists
<1>2. ContentStays /\ VouchedStays
  BY <1>1 DEF ContentStays, VouchedStays, Vouched, SoundData
<1>3. UserSound(p)' /\ Others(p)
  BY WriteManifestDoes, AwaySound DEF Goes
<1>4. Vouched
  BY DEF ContentSound, UserSound, WriteManifest, Does
<1>5. SoundData(backup.manifest.data)'
  BY <1>1, <1>4 DEF Vouched, SoundData
<1>6. QED
  BY <1>1, <1>2, <1>3, <1>5, OthersSound, HomeStays

(* Nobody else is about to use the backup that is begun or removed.        *)
LEMMA BackupUnused ==
  ASSUME HomeIInv, backup.manifest = NoFile, NEW p \in Users,
         backup.file = 0 \/ user[p].step \in Saving
  PROVE  \A q \in Users \ {p} : user[q].step \notin Saving \cup Restoring
BY DEF HomeIInv, StepsHold, StepHolds, OneSaver

(* SoundData means whole as long as there is no manifest.                  *)
LEMMA NewBackupSound ==
  ASSUME HomeIInv, Apart, ContentSound, NEW p \in Users, Others(p), UNCHANGED home,
         backup.manifest = NoFile, backup'.manifest = NoFile,
         backup.file = 0 \/ user[p].step \in Saving, UserSound(p)',
         \A j \in Files : files[j] \in Database => files'[j].data = files[j].data
  PROVE  ContentSound'
<1>1. ASSUME NEW q \in Users \ {p} PROVE UserSound(q)'
  <2>1. UserSound(q) /\ StepHolds(q) /\ user'[q] = user[q]
    BY DEF ContentSound, HomeIInv, StepsHold, Others
  <2>2. user[q].step \notin Saving \cup Restoring
    BY BackupUnused
  <2>3. user[q].step \in AtHome => SoundData(files[user[q].file].data)'
    BY <2>1 DEF UserSound, StepHolds, Exists, SoundData
  <2>4. user[q].step = "migrating" => SoundData(user[q].work.data)'
    BY <2>1 DEF UserSound, SoundData
  <2>5. QED
    BY <2>1, <2>2, <2>3, <2>4 DEF UserSound, Saving, Restoring, Copying
<1>2. home' # 0 => SoundData(files[home].data)'
  BY DEF HomeIInv, FilesExist, Exists, ContentSound, SoundData
<1>3. QED
  BY <1>1, <1>2 DEF ContentSound

LEMMA VacuumSound ==
  ASSUME HomeIInv, Apart, ContentSound, NEW p \in Users, Vacuum(p) PROVE ContentSound'
<1>1. /\ UNCHANGED home /\ Others(p) /\ backup.file = 0 /\ backup.manifest = NoFile
      /\ backup'.manifest = NoFile
  BY VacuumDoes DEF Vacuum, Goes
<1>2. UserSound(p)'
  <2>1. user'[p].step = "vacuuming"
    BY VacuumDoes DEF Goes
  <2>2. QED
    BY <2>1, AwaySound
<1>3. files[backup'.file] \notin Database
  BY VacuumDoes, FreshIsNoFile, RecordsAreTyped DEF Sets
<1>4. \A j \in Files : files[j] \in Database => files'[j].data = files[j].data
  BY <1>3, VacuumDoes DEF Sets
<1>5. QED
  BY <1>1, <1>2, <1>4, NewBackupSound

LEMMA BackupFailsSound ==
  ASSUME HomeIInv, Apart, ContentSound, NEW p \in Users, BackupFails(p) PROVE ContentSound'
<1>1. /\ UNCHANGED <<files, home>> /\ Others(p) /\ user[p].step \in Saving
      /\ backup.manifest = NoFile /\ backup'.manifest = NoFile
  BY BackupFailsDoes DEF BackupFails, Goes
<1>2. UserSound(p)'
  <2>1. user'[p].step = "away"
    BY BackupFailsDoes DEF Goes
  <2>2. QED
    BY <2>1, AwaySound
<1>3. QED
  BY <1>1, <1>2, NewBackupSound

LEMMA VacuumEndsSound ==
  ASSUME HomeIInv, Apart, ContentSound, NEW p \in Users, VacuumEnds(p) PROVE ContentSound'
<1> DEFINE f == [files[backup.file] EXCEPT !.data = "whole"]
<1>1. Sets(backup.file, f) /\ f.data = "whole" /\ UNCHANGED <<home, backup>> /\ Others(p)
  BY VacuumEndsDoes DEF VacuumEnds, Goes, Database
<1> HIDE DEF f
<1>2. ContentStays /\ Vouched'
  BY <1>1 DEF ContentStays, Sets, SoundData, Vouched
<1>3. UserSound(p)'
  <2>1. user'[p].step = "manifest"
    BY VacuumEndsDoes DEF Goes
  <2>2. QED
    BY <1>2, <2>1 DEF UserSound, AtHome, Opening
<1>4. QED
  BY <1>1, <1>2, <1>3, OthersSound, HomeStays, ManifestStays DEF VouchedStays

LEMMA DamageBackupSound ==
  ASSUME HomeIInv, Apart, ContentSound, DamageBackup PROVE ContentSound'
<1>1. /\ UNCHANGED <<home, user>> /\ backup'.manifest = backup.manifest
      /\ backup'.file = backup.file /\ (backup.late => backup'.late)
      /\ \A j \in Files \ {backup.file} : files'[j] = files[j]
  BY DamageBackupDoes DEF DamageBackup, Sets
<1>2. \A data : SoundData(data) => SoundData(data)'
  BY <1>1 DEF SoundData
<1>3. ASSUME NEW q \in Users PROVE UserSound(q)'
  <2>1. UserSound(q) /\ StepHolds(q) /\ user'[q] = user[q]
    BY <1>1 DEF ContentSound, HomeIInv, StepsHold
  <2>2. user[q].step \in AtHome \cup {"remove", "rename"} => SoundData(files[user[q].file].data)'
    <3>1. user[q].step \in AtHome \cup {"remove", "rename"} =>
            user[q].file \in Files /\ user[q].file # backup.file
      BY <2>1 DEF StepHolds, Exists, Apart, Copying
    <3>2. QED
      BY <1>1, <2>1, <3>1 DEF UserSound, SoundData
  <2>3. user[q].step \in {"manifest", "verified", "stage", "staging"} => Vouched'
    BY DamageBackupDoes DEF Vouched
  <2>4. user[q].step = "migrating" => SoundData(user[q].work.data)'
    BY <1>1, <2>1 DEF UserSound, SoundData
  <2>5. QED
    BY <2>1, <2>2, <2>3, <2>4 DEF UserSound
<1>4. home' # 0 => SoundData(files[home].data)'
  BY <1>1 DEF HomeIInv, FilesExist, Exists, Apart, ContentSound, SoundData
<1>5. backup'.manifest # NoFile => SoundData(backup.manifest.data)'
  BY <1>1 DEF ContentSound, SoundData
<1>6. QED
  BY <1>3, <1>4, <1>5 DEF ContentSound

LEMMA LoseHomeSound == ASSUME ContentSound, LoseHome PROVE ContentSound'
BY DEF LoseHome, ContentSound, UserSound, SoundData, Vouched

LEMMA SameSound == ASSUME ContentSound, UNCHANGED homeVars PROVE ContentSound'
BY DEF homeVars, ContentSound, UserSound, SoundData, Vouched

LEMMA ContentStep == ASSUME HomeIInv, Apart, ContentSound, [HomeNext]_homeVars PROVE ContentSound'
BY OpenInspectSound, ConnectSound, CreateMetadataSound, SelectMarkerSound, InsertMarkerSound,
   CreateTablesSound, WriteSound, PlanMigrationSound, BeginMigrationSound, MigrateStepSound,
   CommitSound, BeginBackupSound, VacuumSound, VacuumEndsSound, WriteManifestSound,
   BackupFailsSound, VerifyBackupSound, LookAtTargetSound, StageSound, StageEndsSound,
   RemoveTargetSound, RenameStagedSound, EndsSound, DamageBackupSound, LoseHomeSound, SameSound
   DEF HomeNext

-----------------------------------------------------------------------------
(* Layouts and markers.                                                    *)

TidyStays ==
  \A j \in Files : files[j] \in Database /\ Tidy(files[j]) =>
    /\ Tidy(files'[j]) /\ files[j].tables \subseteq files'[j].tables
    /\ UpToDate(files[j]) => UpToDate(files'[j])

(* What the migrations of the others were read from stays.                 *)
Undisturbed(p) ==
  \A q \in Users \ {p} : user[q].step = "migrating" =>
    SameLayout(files[user[q].file], files'[user[q].file])

LEMMA SameTidy ==
  ASSUME AllCoherent, UNCHANGED files, NEW p
  PROVE  TidyStays /\ Undisturbed(p) /\ AllCoherent'
BY DEF TidyStays, Undisturbed, SameLayout, AllCoherent

LEMMA SetsTidy ==
  ASSUME HomeIInv, AllCoherent, NEW p, NEW i, NEW f, Sets(i, f), Coherent(f),
         files[i] \in Database /\ Tidy(files[i]) =>
           /\ Tidy(f) /\ files[i].tables \subseteq f.tables
           /\ UpToDate(files[i]) => UpToDate(f),
         \A q \in Users \ {p} : user[q].step = "migrating" =>
           user[q].file # i \/ SameLayout(files[i], f)
  PROVE  TidyStays /\ Undisturbed(p) /\ AllCoherent'
<1>1. TidyStays
  BY DEF TidyStays, Sets
<1>2. Undisturbed(p)
  BY DEF Undisturbed, SameLayout, Sets, HomeIInv, StepsHold, StepHolds, Exists, AtHome
<1>3. AllCoherent'
  BY DEF AllCoherent, Sets
<1>4. QED
  BY <1>1, <1>2, <1>3

(* A step that keeps tables, marker and layout of a file, or makes a file. *)
LEMMA SameLayoutTidy ==
  ASSUME NEW f, NEW g, SameLayout(f, g)
  PROVE  /\ Coherent(f) => Coherent(g)
         /\ Tidy(f) => Tidy(g) /\ f.tables \subseteq g.tables
         /\ UpToDate(f) => UpToDate(g)
BY DEF SameLayout, Coherent, Tidy, UpToDate

LEMMA SetsSameTidy ==
  ASSUME HomeIInv, AllCoherent, NEW p, NEW i, NEW f, Sets(i, f), files[i] \in Database,
         SameLayout(files[i], f)
  PROVE  TidyStays /\ Undisturbed(p) /\ AllCoherent'
<1>1. Coherent(files[i])
  BY RecordsAreTyped DEF AllCoherent, Sets
<1>2. QED
  BY <1>1, SameLayoutTidy, SetsTidy

LEMMA SetsFreshTidy ==
  ASSUME HomeIInv, AllCoherent, NEW p, NEW i, NEW f, Sets(i, f), FreshFile(i), Coherent(f)
  PROVE  TidyStays /\ Undisturbed(p) /\ AllCoherent'
<1>1. /\ i \in Files /\ files[i] \notin Database
      /\ \A q \in Users : user[q].step \in AtHome => user[q].file # i
  BY FreshIsNoFile, FreshIsUnused, RecordsAreTyped DEF Sets
<1>2. QED
  BY <1>1, SetsTidy DEF AtHome

LEMMA UnlockedApart ==
  ASSUME NEW p \in Users, NEW i, Unlocked(i)
  PROVE  \A q \in Users : user[q].step = "migrating" => user[q].file # i
BY DEF Unlocked, Does

(* What every step has to show for its own process, the home and the       *)
(* backup.                                                                 *)
LEMMA OthersTidy ==
  ASSUME HomeIInv, LayoutIInv, NEW p \in Users, Others(p), TidyStays, Undisturbed(p), AllCoherent',
         UserTidy(p)', BackupCurrent', home' = home \/ home' = 0 \/ Tidy(files[home])',
         user'[p].step = "migrating" =>
           user'[p].file = user[p].file /\ (user[p].step = "migrating" \/ Unlocked(user[p].file))
  PROVE  LayoutIInv'
<1>1. ASSUME NEW q \in Users \ {p} PROVE UserTidy(q)'
  <2>1. UserTidy(q) /\ StepHolds(q) /\ user'[q] = user[q]
    BY DEF LayoutIInv, UsersTidy, HomeIInv, StepsHold, Others
  <2>2. (user[q].step = "connect" /\ home # 0 => Tidy(files[home]))'
    BY <2>1 DEF UserTidy, TidyStays, HomeIInv, FilesExist, Exists
  <2>3. user[q].step \in AtHome \cup Copying => Exists(user[q].file)
    BY <2>1 DEF StepHolds
  <2>4. /\ user[q].step \in Opening => Tidy(files[user[q].file])'
        /\ user[q].step \in Opening \ {"metadata"} => ("metadata" \in files[user[q].file].tables)'
        /\ user[q].step = "open" => ("documents" \in files[user[q].file].tables)'
    BY <2>1, <2>3 DEF UserTidy, TidyStays, Exists, AtHome, Opening
  <2>5. user[q].step \in {"tables", "open", "vacuum"} \cup Copying => UpToDate(files[user[q].file])'
    BY <2>1, <2>3 DEF UserTidy, TidyStays, Exists, AtHome, Opening, UpToDate
  <2>6. user[q].step = "migrating" => (NotMoved(q) \/ Moved(q))'
    BY <2>1 DEF UserTidy, NotMoved, Moved, Undisturbed, SameLayout, Tidy, Coherent
  <2>7. QED
    BY <2>1, <2>2, <2>4, <2>5, <2>6 DEF UserTidy
<1>2. OneMigration'
  BY DEF LayoutIInv, OneMigration, Others, Unlocked, Does
<1>3. QED
  BY <1>1, <1>2 DEF LayoutIInv, UsersTidy

LEMMA BackupStaysCurrent ==
  ASSUME HomeIInv, BackupCurrent, TidyStays, backup'.file = backup.file
  PROVE  BackupCurrent'
BY DEF HomeIInv, FilesExist, Exists, BackupCurrent, TidyStays, UpToDate

LEMMA UnusedTidy ==
  ASSUME NEW p, user'[p].step \in {"away", "vacuuming", "manifest", "verified", "stage"}
  PROVE  UserTidy(p)'
BY DEF UserTidy, Opening, Copying

LEMMA OpenInspectTidy ==
  ASSUME HomeIInv, Apart, LayoutIInv, NEW p \in Users, OpenInspect(p) PROVE LayoutIInv'
<1>1. TidyStays /\ Undisturbed(p) /\ AllCoherent'
  BY SameTidy DEF OpenInspect, LayoutIInv
<1>2. UserTidy(p)'
  <2>1. user'[p].step = "connect" /\ UNCHANGED <<files, home>>
    BY OpenInspectDoes DEF OpenInspect, Goes
  <2>2. ASSUME home # 0 PROVE Tidy(files[home])
    <3>1. files[home] \in Database /\ home \in Files /\ Inspect(files[home]) \in {"fresh", "current"}
      BY <2>2 DEF OpenInspect, HomeIInv, FilesExist, Exists
    <3>2. Coherent(files[home])
      BY <3>1, RecordsAreTyped DEF LayoutIInv, AllCoherent
    <3>3. QED
      BY <3>1, <3>2, InspectSays DEF Tidy, Coherent
  <2>3. QED
    BY <2>1, <2>2 DEF UserTidy, Opening, Copying
<1>3. Others(p)
  BY OpenInspectDoes DEF Goes
<1>4. (home' = home \/ home' = 0) /\ backup'.file = backup.file
  BY OpenInspectDoes DEF OpenInspect
<1>5. BackupCurrent'
  BY <1>1, <1>4, BackupStaysCurrent DEF LayoutIInv
<1>6. user'[p].step # "migrating"
  BY OpenInspectDoes DEF Goes
<1>7. QED
  BY <1>1, <1>2, <1>3, <1>4, <1>5, <1>6, OthersTidy

LEMMA CreateMetadataTidy ==
  ASSUME HomeIInv, Apart, LayoutIInv, NEW p \in Users, CreateMetadata(p) PROVE LayoutIInv'
<1> DEFINE i == user[p].file
           f == [files[user[p].file] EXCEPT !.tables = @ \cup {"metadata"}]
<1>0. UserTidy(p) /\ Exists(i) /\ Sets(i, f) /\ Coherent(files[i])
  <2>1. user[p].step \in AtHome
    BY DEF CreateMetadata, Does, AtHome, Opening
  <2>2. Exists(i)
    BY <2>1 DEF HomeIInv, StepsHold, StepHolds
  <2>3. QED
    BY <2>2, CreateMetadataDoes, RecordsAreTyped DEF LayoutIInv, UsersTidy, AllCoherent, Exists
<1>1. TidyStays /\ Undisturbed(p) /\ AllCoherent'
  <2>1. \A q \in Users : user[q].step = "migrating" => user[q].file # i
    BY UnlockedApart DEF CreateMetadata
  <2>2. f.tables = files[i].tables \cup {"metadata"} /\ f.marker = files[i].marker
        /\ f.layout = files[i].layout
    BY <1>0 DEF Exists, Database
  <2>3. /\ Coherent(f) /\ files[i].tables \subseteq f.tables
        /\ Tidy(files[i]) => Tidy(f)
        /\ UpToDate(files[i]) => UpToDate(f)
    BY <1>0, <2>2 DEF Coherent, Tidy, UpToDate
  <2> HIDE DEF i, f
  <2>4. QED
    BY <1>0, <2>1, <2>3, SetsTidy DEF LayoutIInv
<1>2. UserTidy(p)'
  <2>1. user[p].step = "metadata" /\ user'[p].step = "marker" /\ user'[p].file = i
    BY CreateMetadataDoes DEF CreateMetadata, Does, Goes, Kept
  <2>2. Tidy(files[i]) /\ files'[i] = f
    BY <1>0, <2>1 DEF UserTidy, Sets, Opening
  <2>3. Tidy(files'[i]) /\ "metadata" \in files'[i].tables
    BY <1>0, <1>1, <2>2 DEF TidyStays, Exists, Database
  <2>4. QED
    BY <2>1, <2>3 DEF UserTidy, Opening, Copying
<1>3. Others(p)
  BY CreateMetadataDoes DEF Goes
<1>4. (home' = home \/ home' = 0) /\ backup'.file = backup.file
  BY CreateMetadataDoes DEF CreateMetadata
<1>5. BackupCurrent'
  BY <1>1, <1>4, BackupStaysCurrent DEF LayoutIInv
<1>6. user'[p].step # "migrating"
  BY CreateMetadataDoes DEF Goes
<1>7. QED
  BY <1>1, <1>2, <1>3, <1>4, <1>5, <1>6, OthersTidy

LEMMA SelectMarkerTidy ==
  ASSUME HomeIInv, Apart, LayoutIInv, NEW p \in Users, SelectMarker(p) PROVE LayoutIInv'
<1>1. TidyStays /\ Undisturbed(p) /\ AllCoherent'
  BY SameTidy DEF SelectMarker, LayoutIInv
<1>2. UserTidy(p)'
  <2>1. CASE Goes(p, "away")
    BY <2>1, UnusedTidy DEF Goes
  <2>2. user[p].step = "marker" /\ UserTidy(p) /\ UNCHANGED files
    BY DEF SelectMarker, Does, LayoutIInv, UsersTidy
  <2>3. Tidy(files[user[p].file]) /\ "metadata" \in files[user[p].file].tables
    BY <2>2 DEF UserTidy, Opening
  <2>4. CASE user'[p].step = "insert" /\ user'[p].file = user[p].file
    BY <2>2, <2>3, <2>4 DEF UserTidy, Opening, Copying
  <2>5. CASE /\ user'[p].step = "tables" /\ user'[p].file = user[p].file
             /\ files[user[p].file].marker = CURRENT_STATE_SCHEMA_VERSION
    BY <2>2, <2>3, <2>5 DEF UserTidy, Opening, Copying, UpToDate
  <2>6. QED
    BY <2>1, <2>4, <2>5, SelectMarkerDoes DEF Goes, Kept
<1>3. Others(p)
  BY SelectMarkerDoes DEF Goes
<1>4. (home' = home \/ home' = 0) /\ backup'.file = backup.file
  BY SelectMarkerDoes DEF SelectMarker
<1>5. BackupCurrent'
  BY <1>1, <1>4, BackupStaysCurrent DEF LayoutIInv
<1>6. user'[p].step # "migrating"
  BY SelectMarkerDoes DEF Goes
<1>7. QED
  BY <1>1, <1>2, <1>3, <1>4, <1>5, <1>6, OthersTidy

LEMMA CreateTablesTidy ==
  ASSUME HomeIInv, Apart, LayoutIInv, NEW p \in Users, CreateTables(p) PROVE LayoutIInv'
<1> DEFINE i == user[p].file
           f == [files[user[p].file] EXCEPT !.tables = @ \cup {"documents"}]
<1>0. UserTidy(p) /\ Exists(i) /\ Sets(i, f) /\ Coherent(files[i])
  <2>1. user[p].step \in AtHome
    BY DEF CreateTables, Does, AtHome, Opening
  <2>2. Exists(i)
    BY <2>1 DEF HomeIInv, StepsHold, StepHolds
  <2>3. QED
    BY <2>2, CreateTablesDoes, RecordsAreTyped DEF LayoutIInv, UsersTidy, AllCoherent, Exists
<1>1. TidyStays /\ Undisturbed(p) /\ AllCoherent'
  <2>1. \A q \in Users : user[q].step = "migrating" => user[q].file # i
    BY UnlockedApart DEF CreateTables
  <2>2. f.tables = files[i].tables \cup {"documents"} /\ f.marker = files[i].marker
        /\ f.layout = files[i].layout
    BY <1>0 DEF Exists, Database
  <2>3. UpToDate(files[i])
    BY <1>0 DEF UserTidy, CreateTables, Does
  <2>4. Coherent(f) /\ files[i].tables \subseteq f.tables /\ Tidy(f) /\ UpToDate(f)
    BY <1>0, <2>2, <2>3 DEF Coherent, Tidy, UpToDate
  <2> HIDE DEF i, f
  <2>5. QED
    BY <1>0, <2>1, <2>4, SetsTidy DEF LayoutIInv
<1>2. UserTidy(p)'
  <2>1. user[p].step = "tables" /\ user'[p].step = "open" /\ user'[p].file = i
    BY CreateTablesDoes DEF CreateTables, Does, Goes, Kept
  <2>2. UpToDate(files[i]) /\ "metadata" \in files[i].tables /\ files'[i] = f
    BY <1>0, <2>1 DEF UserTidy, Sets, Opening
  <2>3. /\ UpToDate(files'[i]) /\ Tidy(files'[i])
        /\ "metadata" \in files'[i].tables /\ "documents" \in files'[i].tables
    BY <1>0, <1>1, <2>2 DEF TidyStays, Exists, Database, UpToDate
  <2>4. QED
    BY <2>1, <2>3 DEF UserTidy, Opening, Copying
<1>3. Others(p)
  BY CreateTablesDoes DEF Goes
<1>4. (home' = home \/ home' = 0) /\ backup'.file = backup.file
  BY CreateTablesDoes DEF CreateTables
<1>5. BackupCurrent'
  BY <1>1, <1>4, BackupStaysCurrent DEF LayoutIInv
<1>6. user'[p].step # "migrating"
  BY CreateTablesDoes DEF Goes
<1>7. QED
  BY <1>1, <1>2, <1>3, <1>4, <1>5, <1>6, OthersTidy

LEMMA PlanMigrationTidy ==
  ASSUME HomeIInv, Apart, LayoutIInv, NEW p \in Users, PlanMigration(p) PROVE LayoutIInv'
<1>1. TidyStays /\ Undisturbed(p) /\ AllCoherent'
  BY SameTidy DEF PlanMigration, LayoutIInv
<1>2. UserTidy(p)'
  <2>1. /\ user'[p].step = "planned" /\ user'[p].cursor = files[home].marker
        /\ files[home] \in Database /\ home \in Files /\ Inspect(files[home]) = "migration-required"
    BY PlanMigrationDoes DEF PlanMigration, Goes, HomeIInv, FilesExist, Exists
  <2>2. Coherent(files[home])
    BY <2>1, RecordsAreTyped DEF LayoutIInv, AllCoherent
  <2>3. files[home].marker # CURRENT_STATE_SCHEMA_VERSION
    BY <2>1, <2>2, InspectSays, HomeAssumption DEF Coherent
  <2>4. QED
    BY <2>1, <2>3 DEF UserTidy, Opening, Copying
<1>3. Others(p)
  BY PlanMigrationDoes DEF Goes
<1>4. (home' = home \/ home' = 0) /\ backup'.file = backup.file
  BY PlanMigrationDoes DEF PlanMigration
<1>5. BackupCurrent'
  BY <1>1, <1>4, BackupStaysCurrent DEF LayoutIInv
<1>6. user'[p].step # "migrating"
  BY PlanMigrationDoes DEF Goes
<1>7. QED
  BY <1>1, <1>2, <1>3, <1>4, <1>5, <1>6, OthersTidy

LEMMA BeginMigrationTidy ==
  ASSUME HomeIInv, Apart, LayoutIInv, NEW p \in Users, BeginMigration(p) PROVE LayoutIInv'
<1>1. TidyStays /\ Undisturbed(p) /\ AllCoherent'
  BY SameTidy DEF BeginMigration, LayoutIInv
<1>2. UserTidy(p)'
  <2>1. /\ user[p].step = "planned" /\ user'[p].step = "migrating" /\ UNCHANGED files
        /\ user'[p].work = files[user'[p].file] /\ user'[p].cursor = user[p].cursor
    BY BeginMigrationDoes DEF BeginMigration, Does, Goes
  <2>2. user[p].cursor # CURRENT_STATE_SCHEMA_VERSION
    BY <2>1 DEF LayoutIInv, UsersTidy, UserTidy
  <2>3. NotMoved(p)'
    BY <2>1, <2>2 DEF NotMoved, SameLayout
  <2>4. QED
    BY <2>1, <2>3 DEF UserTidy, Opening, Copying
<1>3. Others(p)
  BY BeginMigrationDoes DEF Goes
<1>4. (home' = home \/ home' = 0) /\ backup'.file = backup.file
  BY BeginMigrationDoes DEF BeginMigration
<1>5. BackupCurrent'
  BY <1>1, <1>4, BackupStaysCurrent DEF LayoutIInv
<1>6. user'[p].file = user[p].file /\ Unlocked(user[p].file)
  BY BeginMigrationDoes DEF BeginMigration
<1>7. QED
  BY <1>1, <1>2, <1>3, <1>4, <1>5, <1>6, OthersTidy

LEMMA MigrateStepTidy ==
  ASSUME HomeIInv, Apart, LayoutIInv, NEW p \in Users, MigrateStep(p) PROVE LayoutIInv'
<1>1. TidyStays /\ Undisturbed(p) /\ AllCoherent'
  BY SameTidy DEF MigrateStep, LayoutIInv
<1>2. UserTidy(p)'
  <2> DEFINE step == StepFrom(user[p].cursor)
             work == user[p].work
             g == files[user[p].file]
  <2>1. /\ user[p].step = "migrating" /\ user'[p].step = "migrating" /\ UNCHANGED files
        /\ user'[p].file = user[p].file /\ work \in Database
        /\ step.source = user[p].cursor /\ step.target \in Nat /\ user'[p].cursor = step.target
        /\ user'[p].work.tables = work.tables \cup {"metadata"}
        /\ user'[p].work.marker = step.target
        /\ user'[p].work.layout = (IF work.layout = step.source THEN step.target ELSE Mixed)
    BY MigrateStepDoes DEF MigrateStep, Does, Goes
  <2> HIDE DEF step
  <2>2. Coherent(g) /\ (NotMoved(p) \/ Moved(p))
    BY <2>1, RecordsAreTyped
       DEF LayoutIInv, UsersTidy, UserTidy, AllCoherent, HomeIInv, StepsHold, StepHolds, Exists, AtHome
  <2>3. Precondition(p) /\ user[p].cursor # CURRENT_STATE_SCHEMA_VERSION
    BY DEF MigrateStep
  <2>4. work.layout = user[p].cursor /\ ~Tidy(g)
    <3>1. CASE Moved(p)
      BY <3>1 DEF Moved
    <3>2. CASE NotMoved(p) /\ user[p].cursor = NoMarker
      <4>1. "metadata" \notin g.tables /\ "documents" \in g.tables /\ work.layout = g.layout
        BY <2>3, <3>2 DEF Precondition, NotMoved, SameLayout
      <4>2. QED
        BY <2>2, <3>2, <4>1, HomeAssumption DEF Coherent, Tidy
    <3>3. CASE NotMoved(p) /\ user[p].cursor # NoMarker
      <4>1. work.marker = user[p].cursor /\ work.marker = g.marker /\ work.layout = g.layout
        BY <2>3, <3>3 DEF Precondition, NotMoved, SameLayout
      <4>2. QED
        BY <2>2, <2>3, <3>3, <4>1 DEF Coherent, Tidy
    <3>4. QED
      BY <2>2, <3>1, <3>2, <3>3
  <2>5. Moved(p)'
    BY <2>1, <2>4 DEF Moved, Tidy, Coherent
  <2>6. QED
    BY <2>1, <2>5 DEF UserTidy, Opening, Copying
<1>3. Others(p)
  BY MigrateStepDoes DEF Goes
<1>4. (home' = home \/ home' = 0) /\ backup'.file = backup.file
  BY MigrateStepDoes DEF MigrateStep
<1>5. BackupCurrent'
  BY <1>1, <1>4, BackupStaysCurrent DEF LayoutIInv
<1>6. user'[p].file = user[p].file /\ user[p].step = "migrating"
  BY MigrateStepDoes DEF MigrateStep, Does
<1>7. QED
  BY <1>1, <1>2, <1>3, <1>4, <1>5, <1>6, OthersTidy

LEMMA CommitTidy ==
  ASSUME HomeIInv, Apart, LayoutIInv, NEW p \in Users, Commit(p) PROVE LayoutIInv'
<1> DEFINE i == user[p].file
           f == user[p].work
<1>0. Sets(i, f) /\ Moved(p) /\ user[p].step = "migrating"
  BY CommitDoes
     DEF Commit, AllStepsDone, LayoutIInv, UsersTidy, UserTidy, NotMoved
<1>1. TidyStays /\ Undisturbed(p) /\ AllCoherent'
  <2>1. Coherent(f) /\ ~Tidy(files[i])
    BY <1>0 DEF Moved, Coherent
  <2>2. \A q \in Users \ {p} : user[q].step = "migrating" => user[q].file # i
    BY <1>0 DEF LayoutIInv, OneMigration
  <2> HIDE DEF i, f
  <2>3. QED
    BY <1>0, <2>1, <2>2, SetsTidy DEF LayoutIInv
<1>2. UserTidy(p)'
  <2>1. user'[p].step \in {"away", "vacuuming", "manifest", "verified", "stage"}
    BY CommitDoes DEF Goes
  <2>2. QED
    BY <2>1, UnusedTidy
<1>3. Others(p)
  BY CommitDoes DEF Goes
<1>4. (home' = home \/ home' = 0) /\ backup'.file = backup.file
  BY CommitDoes DEF Commit
<1>5. BackupCurrent'
  BY <1>1, <1>4, BackupStaysCurrent DEF LayoutIInv
<1>6. user'[p].step # "migrating"
  BY CommitDoes DEF Goes
<1>7. QED
  BY <1>1, <1>2, <1>3, <1>4, <1>5, <1>6, OthersTidy

LEMMA BeginBackupTidy ==
  ASSUME HomeIInv, Apart, LayoutIInv, NEW p \in Users, BeginBackup(p) PROVE LayoutIInv'
<1>1. TidyStays /\ Undisturbed(p) /\ AllCoherent'
  BY SameTidy DEF BeginBackup, LayoutIInv
<1>2. UserTidy(p)'
  <2>1. /\ user'[p].step = "vacuum" /\ user'[p].file = home /\ UNCHANGED files
        /\ files[home] \in Database /\ home \in Files
        /\ files[home].marker = CURRENT_STATE_SCHEMA_VERSION
    BY BeginBackupDoes DEF BeginBackup, Goes, HomeIInv, FilesExist, Exists
  <2>2. UpToDate(files[home])
    BY <2>1, RecordsAreTyped DEF LayoutIInv, AllCoherent, Tidy, UpToDate
  <2>3. QED
    BY <2>1, <2>2 DEF UserTidy, Opening, Copying
<1>3. Others(p)
  BY BeginBackupDoes DEF Goes
<1>4. (home' = home \/ home' = 0) /\ backup'.file = backup.file
  BY BeginBackupDoes DEF BeginBackup
<1>5. BackupCurrent'
  BY <1>1, <1>4, BackupStaysCurrent DEF LayoutIInv
<1>6. user'[p].step # "migrating"
  BY BeginBackupDoes DEF Goes
<1>7. QED
  BY <1>1, <1>2, <1>3, <1>4, <1>5, <1>6, OthersTidy

LEMMA VacuumEndsTidy ==
  ASSUME HomeIInv, Apart, LayoutIInv, NEW p \in Users, VacuumEnds(p) PROVE LayoutIInv'
<1>1. TidyStays /\ Undisturbed(p) /\ AllCoherent'
  <2> DEFINE f == [files[backup.file] EXCEPT !.data = "whole"]
  <2>1. Sets(backup.file, f) /\ files[backup.file] \in Database /\ SameLayout(files[backup.file], f)
    BY VacuumEndsDoes DEF SameLayout, Database
  <2> HIDE DEF f
  <2>2. QED
    BY <2>1, SetsSameTidy DEF LayoutIInv
<1>2. UserTidy(p)'
  <2>1. user'[p].step \in {"away", "vacuuming", "manifest", "verified", "stage"}
    BY VacuumEndsDoes DEF Goes
  <2>2. QED
    BY <2>1, UnusedTidy
<1>3. Others(p)
  BY VacuumEndsDoes DEF Goes
<1>4. (home' = home \/ home' = 0) /\ backup'.file = backup.file
  BY VacuumEndsDoes DEF VacuumEnds
<1>5. BackupCurrent'
  BY <1>1, <1>4, BackupStaysCurrent DEF LayoutIInv
<1>6. user'[p].step # "migrating"
  BY VacuumEndsDoes DEF Goes
<1>7. QED
  BY <1>1, <1>2, <1>3, <1>4, <1>5, <1>6, OthersTidy

LEMMA WriteManifestTidy ==
  ASSUME HomeIInv, Apart, LayoutIInv, NEW p \in Users, WriteManifest(p) PROVE LayoutIInv'
<1>1. TidyStays /\ Undisturbed(p) /\ AllCoherent'
  BY SameTidy DEF WriteManifest, LayoutIInv
<1>2. UserTidy(p)'
  <2>1. user'[p].step \in {"away", "vacuuming", "manifest", "verified", "stage"}
    BY WriteManifestDoes DEF Goes
  <2>2. QED
    BY <2>1, UnusedTidy
<1>3. Others(p)
  BY WriteManifestDoes DEF Goes
<1>4. (home' = home \/ home' = 0) /\ backup'.file = backup.file
  BY WriteManifestDoes DEF WriteManifest
<1>5. BackupCurrent'
  BY <1>1, <1>4, BackupStaysCurrent DEF LayoutIInv
<1>6. user'[p].step # "migrating"
  BY WriteManifestDoes DEF Goes
<1>7. QED
  BY <1>1, <1>2, <1>3, <1>4, <1>5, <1>6, OthersTidy

LEMMA VerifyBackupTidy ==
  ASSUME HomeIInv, Apart, LayoutIInv, NEW p \in Users, VerifyBackup(p) PROVE LayoutIInv'
<1>1. TidyStays /\ Undisturbed(p) /\ AllCoherent'
  BY SameTidy DEF VerifyBackup, LayoutIInv
<1>2. UserTidy(p)'
  <2>1. user'[p].step \in {"away", "vacuuming", "manifest", "verified", "stage"}
    BY VerifyBackupDoes DEF Goes
  <2>2. QED
    BY <2>1, UnusedTidy
<1>3. Others(p)
  BY VerifyBackupDoes DEF Goes
<1>4. (home' = home \/ home' = 0) /\ backup'.file = backup.file
  BY VerifyBackupDoes DEF VerifyBackup
<1>5. BackupCurrent'
  BY <1>1, <1>4, BackupStaysCurrent DEF LayoutIInv
<1>6. user'[p].step # "migrating"
  BY VerifyBackupDoes DEF Goes
<1>7. QED
  BY <1>1, <1>2, <1>3, <1>4, <1>5, <1>6, OthersTidy

LEMMA LookAtTargetTidy ==
  ASSUME HomeIInv, Apart, LayoutIInv, NEW p \in Users, LookAtTarget(p) PROVE LayoutIInv'
<1>1. TidyStays /\ Undisturbed(p) /\ AllCoherent'
  BY SameTidy DEF LookAtTarget, LayoutIInv
<1>2. UserTidy(p)'
  <2>1. user'[p].step \in {"away", "vacuuming", "manifest", "verified", "stage"}
    BY LookAtTargetDoes DEF Goes
  <2>2. QED
    BY <2>1, UnusedTidy
<1>3. Others(p)
  BY LookAtTargetDoes DEF Goes
<1>4. (home' = home \/ home' = 0) /\ backup'.file = backup.file
  BY LookAtTargetDoes DEF LookAtTarget
<1>5. BackupCurrent'
  BY <1>1, <1>4, BackupStaysCurrent DEF LayoutIInv
<1>6. user'[p].step # "migrating"
  BY LookAtTargetDoes DEF Goes
<1>7. QED
  BY <1>1, <1>2, <1>3, <1>4, <1>5, <1>6, OthersTidy

LEMMA EndsTidy ==
  ASSUME HomeIInv, Apart, LayoutIInv, NEW p \in Users, Ends(p) PROVE LayoutIInv'
<1>1. TidyStays /\ Undisturbed(p) /\ AllCoherent'
  BY SameTidy DEF Ends, LayoutIInv
<1>2. UserTidy(p)'
  <2>1. user'[p].step \in {"away", "vacuuming", "manifest", "verified", "stage"}
    BY EndsDoes DEF Goes
  <2>2. QED
    BY <2>1, UnusedTidy
<1>3. Others(p)
  BY EndsDoes DEF Goes
<1>4. (home' = home \/ home' = 0) /\ backup'.file = backup.file
  BY EndsDoes DEF Ends
<1>5. BackupCurrent'
  BY <1>1, <1>4, BackupStaysCurrent DEF LayoutIInv
<1>6. user'[p].step # "migrating"
  BY EndsDoes DEF Goes
<1>7. QED
  BY <1>1, <1>2, <1>3, <1>4, <1>5, <1>6, OthersTidy

LEMMA RemoveTargetTidy ==
  ASSUME HomeIInv, Apart, LayoutIInv, NEW p \in Users, RemoveTarget(p) PROVE LayoutIInv'
<1>1. TidyStays /\ Undisturbed(p) /\ AllCoherent'
  BY SameTidy DEF RemoveTarget, LayoutIInv
<1>2. UserTidy(p)'
  <2>1. CASE Goes(p, "away")
    BY <2>1, UnusedTidy DEF Goes
  <2>2. CASE user[p].step = "remove" /\ user'[p].step = "rename" /\ user'[p].file = user[p].file
    BY <2>2 DEF RemoveTarget, LayoutIInv, UsersTidy, UserTidy, Opening, Copying
  <2>3. QED
    BY <2>1, <2>2, RemoveTargetDoes DEF Goes, Kept
<1>3. Others(p)
  BY RemoveTargetDoes DEF Goes
<1>4. (home' = home \/ home' = 0) /\ backup'.file = backup.file
  BY RemoveTargetDoes DEF RemoveTarget
<1>5. BackupCurrent'
  BY <1>1, <1>4, BackupStaysCurrent DEF LayoutIInv
<1>6. user'[p].step # "migrating"
  BY RemoveTargetDoes DEF Goes
<1>7. QED
  BY <1>1, <1>2, <1>3, <1>4, <1>5, <1>6, OthersTidy

LEMMA StageEndsTidy ==
  ASSUME HomeIInv, Apart, LayoutIInv, NEW p \in Users, StageEnds(p) PROVE LayoutIInv'
<1>1. TidyStays /\ Undisturbed(p) /\ AllCoherent'
  <2> DEFINE f == [files[user[p].file] EXCEPT !.data = files[backup.file].data]
  <2>1. /\ Sets(user[p].file, f) /\ files[user[p].file] \in Database
        /\ SameLayout(files[user[p].file], f)
    BY StageEndsDoes DEF SameLayout, Database
  <2> HIDE DEF f
  <2>2. QED
    BY <2>1, SetsSameTidy DEF LayoutIInv
<1>2. UserTidy(p)'
  <2>1. user'[p].step \in {"remove", "rename"} /\ user'[p].file = user[p].file
    BY StageEndsDoes DEF Goes, Kept
  <2>2. UpToDate(files[user[p].file]) /\ Exists(user[p].file)
    BY StageEndsDoes DEF LayoutIInv, UsersTidy, UserTidy, Copying, HomeIInv, StepsHold, StepHolds, Exists
  <2>3. UpToDate(files'[user[p].file])
    BY <1>1, <2>2 DEF TidyStays, Exists, UpToDate
  <2>4. QED
    BY <2>1, <2>3 DEF UserTidy, Opening, Copying
<1>3. Others(p)
  BY StageEndsDoes DEF Goes
<1>4. (home' = home \/ home' = 0) /\ backup'.file = backup.file
  BY StageEndsDoes DEF StageEnds
<1>5. BackupCurrent'
  BY <1>1, <1>4, BackupStaysCurrent DEF LayoutIInv
<1>6. user'[p].step # "migrating"
  BY StageEndsDoes DEF Goes
<1>7. QED
  BY <1>1, <1>2, <1>3, <1>4, <1>5, <1>6, OthersTidy

LEMMA StageTidy ==
  ASSUME HomeIInv, Apart, LayoutIInv, NEW p \in Users, Stage(p) PROVE LayoutIInv'
<1> DEFINE f == [files[backup.file] EXCEPT !.data = "partial"]
<1>0. Sets(user'[p].file, f) /\ FreshFile(user'[p].file) /\ UpToDate(f)
  <2>1. Sets(user'[p].file, f) /\ FreshFile(user'[p].file) /\ SameLayout(files[backup.file], f)
    BY StageDoes DEF SameLayout, Database
  <2>2. UpToDate(files[backup.file])
    BY StageDoes DEF LayoutIInv, BackupCurrent
  <2> HIDE DEF f
  <2>3. QED
    BY <2>1, <2>2, SameLayoutTidy
<1> HIDE DEF f
<1>1. TidyStays /\ Undisturbed(p) /\ AllCoherent'
  BY <1>0, SetsFreshTidy DEF LayoutIInv, UpToDate, Tidy
<1>2. UserTidy(p)'
  <2>1. user'[p].step = "staging"
    BY StageDoes DEF Goes
  <2>2. UpToDate(files'[user'[p].file])
    BY <1>0 DEF Sets
  <2>3. QED
    BY <2>1, <2>2 DEF UserTidy, Opening, Copying
<1>3. Others(p)
  BY StageDoes DEF Goes
<1>4. (home' = home \/ home' = 0) /\ backup'.file = backup.file
  BY StageDoes DEF Stage
<1>5. BackupCurrent'
  BY <1>1, <1>4, BackupStaysCurrent DEF LayoutIInv
<1>6. user'[p].step # "migrating"
  BY StageDoes DEF Goes
<1>7. QED
  BY <1>1, <1>2, <1>3, <1>4, <1>5, <1>6, OthersTidy

LEMMA InsertMarkerTidy ==
  ASSUME HomeIInv, Apart, LayoutIInv, NEW p \in Users, InsertMarker(p) PROVE LayoutIInv'
<1> DEFINE i == user[p].file
           f == [files[i] EXCEPT !.marker = CURRENT_STATE_SCHEMA_VERSION,
                                 !.layout = IF files[i].tables = {"metadata"}
                                            THEN CURRENT_STATE_SCHEMA_VERSION ELSE @]
<1>0. files[i].marker = NoMarker =>
        UpToDate(f) /\ "metadata" \in f.tables /\ f.tables = files[i].tables /\ ~UpToDate(files[i])
  <2>1. UserTidy(p) /\ user[p].step = "insert" /\ files[i] \in Database
    BY DEF InsertMarker, Does, LayoutIInv, UsersTidy, HomeIInv, StepsHold, StepHolds, Exists, AtHome, Opening
  <2>2. Tidy(files[i]) /\ "metadata" \in files[i].tables /\ files[i].tables \subseteq Tables
    BY <2>1, DatabaseFields DEF UserTidy, Opening
  <2>3. ASSUME files[i].marker = NoMarker
        PROVE  UpToDate(f) /\ "metadata" \in f.tables /\ f.tables = files[i].tables /\ ~UpToDate(files[i])
    <3>1. files[i].tables = {"metadata"} /\ NoMarker # CURRENT_STATE_SCHEMA_VERSION
      BY <2>2, <2>3, HomeAssumption DEF Tidy, Tables
    <3>2. /\ f.tables = files[i].tables /\ f.marker = CURRENT_STATE_SCHEMA_VERSION
          /\ f.layout = CURRENT_STATE_SCHEMA_VERSION
      BY <2>1, <3>1 DEF Database
    <3> HIDE DEF f
    <3>3. QED
      BY <2>2, <2>3, <3>1, <3>2 DEF UpToDate, Tidy, Coherent
  <2>4. QED
    BY <2>3
<1>00. \/ Goes(p, "away") /\ UNCHANGED files
       \/ Goes(p, "tables") /\ Kept(p) /\ files[i].marker = NoMarker /\ Sets(i, f)
  BY InsertMarkerDoes
<1> HIDE DEF f
<1>1. TidyStays /\ Undisturbed(p) /\ AllCoherent'
  <2>1. CASE UNCHANGED files
    BY <2>1, SameTidy DEF LayoutIInv
  <2>2. CASE Sets(i, f) /\ files[i].marker = NoMarker
    <3>1. \A q \in Users : user[q].step = "migrating" => user[q].file # i
      BY UnlockedApart DEF InsertMarker
    <3>2. Coherent(f) /\ Tidy(f) /\ files[i].tables \subseteq f.tables /\ UpToDate(f)
      BY <1>0, <2>2 DEF UpToDate, Tidy
    <3> HIDE DEF i
    <3>3. QED
      BY <2>2, <3>1, <3>2, SetsTidy DEF LayoutIInv
  <2>3. QED
    BY <1>00, <2>1, <2>2
<1>2. UserTidy(p)'
  <2>1. CASE Goes(p, "away")
    BY <2>1, UnusedTidy DEF Goes
  <2>2. CASE user'[p].step = "tables" /\ user'[p].file = i /\ Sets(i, f) /\ UpToDate(f) /\ "metadata" \in f.tables
    BY <2>2 DEF Sets, UserTidy, Opening, Copying, UpToDate
  <2>3. QED
    BY <1>0, <1>00, <2>1, <2>2 DEF Goes, Kept
<1>3. Others(p)
  BY InsertMarkerDoes DEF Goes
<1>4. (home' = home \/ home' = 0) /\ backup'.file = backup.file
  BY InsertMarkerDoes DEF InsertMarker
<1>5. BackupCurrent'
  BY <1>1, <1>4, BackupStaysCurrent DEF LayoutIInv
<1>6. user'[p].step # "migrating"
  BY InsertMarkerDoes DEF Goes
<1>7. QED
  BY <1>1, <1>2, <1>3, <1>4, <1>5, <1>6, OthersTidy

LEMMA WriteTidy ==
  ASSUME HomeIInv, Apart, LayoutIInv, NEW p \in Users, Write(p) PROVE LayoutIInv'
<1> DEFINE f == [files[user[p].file] EXCEPT !.writes = @ + 1]
<1>1. TidyStays /\ Undisturbed(p) /\ AllCoherent'
  <2>1. Sets(user[p].file, f) /\ files[user[p].file] \in Database /\ SameLayout(files[user[p].file], f)
    BY WriteDoes DEF SameLayout, Database
  <2> HIDE DEF f
  <2>2. QED
    BY <2>1, SetsSameTidy DEF LayoutIInv
<1>2. UNCHANGED <<home, backup, user>> /\ Others(p) /\ user[p].step = "open"
  BY DEF Write, Does, Others
<1>3. Exists(user[p].file) /\ UserTidy(p)
  BY <1>2 DEF HomeIInv, StepsHold, StepHolds, AtHome, Opening, LayoutIInv, UsersTidy
<1>4. UserTidy(p)'
  <2>1. /\ Tidy(files'[user[p].file]) /\ UpToDate(files'[user[p].file])
        /\ files[user[p].file].tables \subseteq files'[user[p].file].tables
    BY <1>1, <1>2, <1>3 DEF TidyStays, Exists, UserTidy, Opening
  <2>2. QED
    BY <1>2, <1>3, <2>1 DEF UserTidy, Opening, Copying
<1>5. BackupCurrent'
  BY <1>1, <1>2, BackupStaysCurrent DEF LayoutIInv
<1>6. QED
  BY <1>1, <1>2, <1>4, <1>5, OthersTidy

LEMMA ConnectTidy ==
  ASSUME HomeIInv, Apart, LayoutIInv, NEW p \in Users, Connect(p) PROVE LayoutIInv'
<1>1. UNCHANGED backup /\ Others(p) /\ user[p].step = "connect" /\ user'[p].step # "migrating"
  BY ConnectDoes DEF Connect, Does, Goes
<1>2. CASE UNCHANGED <<files, home>>
  <2>1. TidyStays /\ Undisturbed(p) /\ AllCoherent'
    BY <1>2, SameTidy DEF LayoutIInv
  <2>2. BackupCurrent'
    BY <1>1, <2>1, BackupStaysCurrent DEF LayoutIInv
  <2>3. CASE Goes(p, "away")
    <3>1. UserTidy(p)'
      BY <2>3, UnusedTidy DEF Goes
    <3>2. QED
      BY <1>1, <1>2, <2>1, <2>2, <3>1, OthersTidy
  <2>4. CASE Goes(p, "metadata") /\ user'[p].file = home' /\ home' \in Files
    <3>1. home # 0
      BY <1>2, <2>4, HomeAssumption DEF Files
    <3>2. Tidy(files[home])
      BY <1>1, <3>1 DEF LayoutIInv, UsersTidy, UserTidy
    <3>3. UserTidy(p)'
      BY <1>2, <2>4, <3>2 DEF UserTidy, Goes, Opening, Copying
    <3>4. QED
      BY <1>1, <1>2, <2>1, <2>2, <3>3, OthersTidy
  <2>5. QED
    BY <2>3, <2>4, ConnectDoes
<1>3. CASE /\ Goes(p, "metadata") /\ user'[p].file = home' /\ home' \in Files
           /\ FreshFile(home') /\ Sets(home', Blank)
  <2>1. Tidy(Blank) /\ files'[home'] = Blank
    BY <1>3 DEF Sets, Blank, NoFile, Tidy, Coherent
  <2>2. TidyStays /\ Undisturbed(p) /\ AllCoherent'
    BY <1>3, <2>1, SetsFreshTidy DEF LayoutIInv, Tidy
  <2>3. BackupCurrent'
    BY <1>1, <2>2, BackupStaysCurrent DEF LayoutIInv
  <2>4. UserTidy(p)'
    BY <1>3, <2>1 DEF UserTidy, Goes, Opening, Copying
  <2>5. QED
    BY <1>1, <2>1, <2>2, <2>3, <2>4, OthersTidy
<1>4. QED
  BY <1>2, <1>3, ConnectDoes

LEMMA VacuumTidy ==
  ASSUME HomeIInv, Apart, LayoutIInv, NEW p \in Users, Vacuum(p) PROVE LayoutIInv'
<1> DEFINE f == [files[user[p].file] EXCEPT !.data = "partial"]
<1>1. Sets(backup'.file, f) /\ FreshFile(backup'.file) /\ UpToDate(f)
  <2>1. SameLayout(files[user[p].file], f) /\ Sets(backup'.file, f) /\ FreshFile(backup'.file)
    BY VacuumDoes DEF SameLayout, Database
  <2>2. UpToDate(files[user[p].file])
    BY DEF Vacuum, Does, LayoutIInv, UsersTidy, UserTidy
  <2> HIDE DEF f
  <2>3. QED
    BY <2>1, <2>2, SameLayoutTidy
<1> HIDE DEF f
<1>2. TidyStays /\ Undisturbed(p) /\ AllCoherent'
  BY <1>1, SetsFreshTidy DEF LayoutIInv, UpToDate, Tidy
<1>3. BackupCurrent'
  BY <1>1 DEF Sets, BackupCurrent
<1>4. user'[p].step = "vacuuming" /\ Others(p) /\ UNCHANGED home
  BY VacuumDoes DEF Vacuum, Goes
<1>5. UserTidy(p)'
  BY <1>4, UnusedTidy
<1>6. QED
  BY <1>2, <1>3, <1>4, <1>5, OthersTidy

LEMMA BackupFailsTidy ==
  ASSUME HomeIInv, Apart, LayoutIInv, NEW p \in Users, BackupFails(p) PROVE LayoutIInv'
<1>1. /\ UNCHANGED <<files, home>> /\ Others(p) /\ user'[p].step = "away" /\ backup'.file = 0
  BY BackupFailsDoes DEF BackupFails, Goes
<1>2. TidyStays /\ Undisturbed(p) /\ AllCoherent'
  BY <1>1, SameTidy DEF LayoutIInv
<1>3. BackupCurrent' /\ UserTidy(p)'
  BY <1>1, UnusedTidy DEF BackupCurrent
<1>4. QED
  BY <1>1, <1>2, <1>3, OthersTidy

LEMMA RenameStagedTidy ==
  ASSUME HomeIInv, Apart, LayoutIInv, NEW p \in Users, RenameStaged(p) PROVE LayoutIInv'
<1>1. UNCHANGED <<files, backup>> /\ Others(p) /\ user'[p].step = "away" /\ user[p].step = "rename"
  BY RenameStagedDoes DEF RenameStaged, Goes
<1>2. TidyStays /\ Undisturbed(p) /\ AllCoherent'
  BY <1>1, SameTidy DEF LayoutIInv
<1>3. BackupCurrent' /\ UserTidy(p)'
  BY <1>1, UnusedTidy DEF BackupCurrent, LayoutIInv
<1>4. Tidy(files[user[p].file])
  BY <1>1 DEF LayoutIInv, UsersTidy, UserTidy, Copying, UpToDate
<1>5. home' = home \/ home' = 0 \/ Tidy(files[home])'
  <2>1. home' = home \/ home' = user[p].file
    BY RenameStagedDoes
  <2>2. QED
    BY <1>1, <1>4, <2>1
<1>6. QED
  BY <1>1, <1>2, <1>3, <1>5, OthersTidy

LEMMA DamageBackupTidy == ASSUME HomeIInv, LayoutIInv, DamageBackup PROVE LayoutIInv'
<1> DEFINE f == [files[backup.file] EXCEPT !.data = "damaged"]
<1>1. /\ Sets(backup.file, f) /\ SameLayout(files[backup.file], f) /\ UNCHANGED <<home, user>>
      /\ backup'.file = backup.file
  BY DamageBackupDoes DEF DamageBackup, SameLayout, Database
<1> HIDE DEF f
<1>2. \A j \in Files : SameLayout(files[j], files'[j])
  BY <1>1 DEF Sets, SameLayout
<1>3. AllCoherent'
  BY <1>2, SameLayoutTidy, RecordsAreTyped, DamageBackupDoes DEF LayoutIInv, AllCoherent, Sets
<1>4. BackupCurrent'
  BY <1>1, <1>2, SameLayoutTidy, DamageBackupDoes DEF LayoutIInv, BackupCurrent, Sets
<1>5. ASSUME NEW q \in Users PROVE UserTidy(q)'
  <2>1. UserTidy(q) /\ StepHolds(q) /\ user'[q] = user[q]
    BY <1>1 DEF LayoutIInv, UsersTidy, HomeIInv, StepsHold
  <2>2. user[q].step \in AtHome \cup Copying => SameLayout(files[user[q].file], files'[user[q].file])
    BY <1>2, <2>1 DEF StepHolds, Exists
  <2>3. home # 0 => SameLayout(files[home], files'[home])
    BY <1>2 DEF HomeIInv, FilesExist, Exists
  <2>4. QED
    BY <1>1, <2>1, <2>2, <2>3
       DEF UserTidy, NotMoved, Moved, SameLayout, UpToDate, Tidy, Coherent, AtHome, Opening
<1>6. OneMigration'
  BY <1>1 DEF LayoutIInv, OneMigration
<1>7. QED
  BY <1>3, <1>4, <1>5, <1>6 DEF LayoutIInv, UsersTidy

LEMMA LoseHomeTidy == ASSUME LayoutIInv, LoseHome PROVE LayoutIInv'
BY DEF LoseHome, LayoutIInv, AllCoherent, BackupCurrent, UsersTidy, UserTidy, NotMoved, Moved, OneMigration

LEMMA SameLayoutHolds == ASSUME LayoutIInv, UNCHANGED homeVars PROVE LayoutIInv'
BY DEF homeVars, LayoutIInv, AllCoherent, BackupCurrent, UsersTidy, UserTidy, NotMoved, Moved, OneMigration

LEMMA LayoutStep ==
  ASSUME HomeIInv, Apart, LayoutIInv, [HomeNext]_homeVars PROVE LayoutIInv'
BY OpenInspectTidy, ConnectTidy, CreateMetadataTidy, SelectMarkerTidy, InsertMarkerTidy,
   CreateTablesTidy, WriteTidy, PlanMigrationTidy, BeginMigrationTidy, MigrateStepTidy,
   CommitTidy, BeginBackupTidy, VacuumTidy, VacuumEndsTidy, WriteManifestTidy,
   BackupFailsTidy, VerifyBackupTidy, LookAtTargetTidy, StageTidy, StageEndsTidy,
   RemoveTargetTidy, RenameStagedTidy, EndsTidy, DamageBackupTidy, LoseHomeTidy, SameLayoutHolds
   DEF HomeNext

LEMMA LayoutInit == HomeInit => LayoutIInv
<1> SUFFICES ASSUME HomeInit PROVE LayoutIInv
  OBVIOUS
<1>1. \A p \in Users : user[p].step = "away"
  BY RecordsAreTyped DEF HomeInit
<1>2. UsersTidy /\ OneMigration
  BY <1>1 DEF UsersTidy, UserTidy, OneMigration, Opening, Copying
<1>3. ASSUME NEW version \in Versions PROVE Coherent(Born(version))
  BY DEF Coherent, Born, Blank, NoFile
<1>4. CASE backup = NoBackup /\ \E version \in Versions :
             files = [i \in Files |-> IF i = 1 THEN Born(version) ELSE NoFile]
  BY <1>2, <1>3, <1>4, RecordsAreTyped DEF LayoutIInv, AllCoherent, BackupCurrent
<1> DEFINE saved == Born(CURRENT_STATE_SCHEMA_VERSION)
<1>5. CASE /\ files = [i \in Files |-> IF i = 1 THEN saved ELSE NoFile]
           /\ backup = [file |-> 1, manifest |-> saved, late |-> FALSE]
  <2>1. Coherent(saved)
    BY <1>3, HomeAssumption DEF Versions
  <2>2. UpToDate(saved)
    BY <2>1 DEF UpToDate, Tidy, Born, Blank, NoFile
  <2> HIDE DEF saved
  <2>3. files[1] = saved /\ backup.file = 1
    BY <1>5, HomeAssumption DEF Files
  <2>4. QED
    BY <1>2, <1>5, <2>1, <2>2, <2>3 DEF LayoutIInv, AllCoherent, BackupCurrent
<1>6. QED
  BY <1>4, <1>5 DEF HomeInit

LEMMA SoundInit == HomeInit => SoundIInv
<1> SUFFICES ASSUME HomeInit PROVE SoundIInv
  OBVIOUS
<1>1. \A p \in Users : user[p].step = "away"
  BY RecordsAreTyped DEF HomeInit
<1>2. ASSUME NEW version PROVE Born(version).data = "whole"
  BY DEF Born, Blank, NoFile
<1>3. \A p \in Users : UserSound(p)
  BY <1>1 DEF UserSound, AtHome, Opening
<1>4. CASE home = 1 /\ backup = NoBackup /\ \E version \in Versions :
             files = [i \in Files |-> IF i = 1 THEN Born(version) ELSE NoFile]
  <2>1. files[1].data = "whole"
    BY <1>2, <1>4, HomeAssumption DEF Files
  <2>2. QED
    BY <1>1, <1>3, <1>4, <2>1, RecordsAreTyped
       DEF SoundIInv, Apart, ContentSound, SoundData, AtHome, Opening, Copying
<1>5. CASE /\ home = 0
           /\ backup = [file |-> 1, manifest |-> Born(CURRENT_STATE_SCHEMA_VERSION), late |-> FALSE]
  BY <1>1, <1>2, <1>3, <1>5 DEF SoundIInv, Apart, ContentSound, SoundData, AtHome, Opening, Copying
<1>6. QED
  BY <1>4, <1>5 DEF HomeInit

-----------------------------------------------------------------------------
(* What they carry.                                                        *)

HomeInv == HomeIInv /\ SoundIInv /\ LayoutIInv

LEMMA HomeInvInit == HomeInit => HomeInv
BY HomeInitIInv, SoundInit, LayoutInit DEF HomeInv

LEMMA HomeInvStep == HomeInv /\ [HomeNext]_homeVars => HomeInv'
BY HomeStepIInv, ApartStep, ContentStep, LayoutStep DEF HomeInv, SoundIInv, LayoutIInv

LEMMA HomeInvHolds == HomeSpec => []HomeInv
BY HomeInvInit, HomeInvStep, PTL DEF HomeSpec

(* The variables of a home keep their types (store.ts, backup.ts).         *)
THEOREM HomeIsTyped == HomeSpec => []HomeTypeOK
<1>1. HomeInv => HomeTypeOK
  <2> SUFFICES ASSUME HomeInv PROVE HomeTypeOK
    OBVIOUS
  <2>1. ASSUME NEW i \in Files
        PROVE  files[i].tables \subseteq {"none", "metadata", "documents"} /\ files[i].marker \in Versions
    <3>1. CASE files[i] \in Database
      BY <3>1, DatabaseFields DEF Tables
    <3>2. CASE files[i] = NoFile
      BY <3>2 DEF NoFile, Versions
    <3>3. QED
      BY <3>1, <3>2 DEF HomeInv, HomeIInv, HomeTyped, FilesTyped
  <2>2. home # 0 => directory /\ files[home] # NoFile
    BY RecordsAreTyped DEF HomeInv, HomeIInv, FilesExist, Exists
  <2>3. \A p \in Users : user[p].file \in 0..MaxFiles
    BY DEF HomeInv, HomeIInv, HomeTyped, UsersTyped, UserRecords
  <2>4. backup.file \in 0..MaxFiles /\ home \in 0..MaxFiles
    BY DEF HomeInv, HomeIInv, HomeTyped, BackupTyped
  <2>5. QED
    BY <2>1, <2>2, <2>3, <2>4 DEF HomeTypeOK
<1>2. QED
  BY <1>1, HomeInvHolds, PTL

(* What stands in a home is a whole database, unless a backup was changed  *)
(* between a check of it and the use of it: no backup or restore that is   *)
(* cut short, refused or raced shows (backup.ts).                          *)
THEOREM HomesAreSound == HomeSpec => []HomeIsSound
<1>1. HomeInv => HomeIsSound
  BY DEF HomeInv, SoundIInv, ContentSound, SoundData, HomeIsSound
<1>2. QED
  BY <1>1, HomeInvHolds, PTL

(* Whoever has the store open works on the current layout, however opens, *)
(* migrations and restores race (store.ts, state-migrations.ts).           *)
THEOREM OpenedStoresAreCurrent == HomeSpec => []OpenedIsCurrent
<1>1. HomeInv => OpenedIsCurrent
  <2> SUFFICES ASSUME HomeInv, NEW p \in Users, user[p].step = "open"
               PROVE  /\ files[user[p].file].tables = {"metadata", "documents"}
                      /\ files[user[p].file].marker = CURRENT_STATE_SCHEMA_VERSION
                      /\ files[user[p].file].layout = CURRENT_STATE_SCHEMA_VERSION
    BY DEF OpenedIsCurrent, Does
  <2>1. UserTidy(p) /\ Exists(user[p].file)
    BY DEF HomeInv, LayoutIInv, UsersTidy, HomeIInv, StepsHold, StepHolds, AtHome, Opening
  <2>2. /\ UpToDate(files[user[p].file]) /\ "documents" \in files[user[p].file].tables
        /\ "metadata" \in files[user[p].file].tables
    BY <2>1 DEF UserTidy, Opening
  <2>3. files[user[p].file].tables \subseteq Tables
    BY <2>1, DatabaseFields DEF Exists
  <2>4. QED
    BY <2>2, <2>3 DEF UpToDate, Tidy, Coherent, Tables
<1>2. QED
  BY <1>1, HomeInvHolds, PTL

(* A home that is there is removed by nothing but a restore that had found *)
(* none when it looked (backup.ts).                                        *)
THEOREM HomesAreKept == HomeSpec => HomeIsKept
<1> DEFINE Kept_ == home # 0 /\ home' # home =>
                      LoseHome \/ \E p \in Users : Does(p, "remove") /\ user[p].found # home
<1>1. HomeInv /\ [HomeNext]_homeVars => [Kept_]_homeVars
  <2> SUFFICES ASSUME HomeInv, HomeNext, home # 0, home' # home, ~LoseHome
               PROVE  \E p \in Users : Does(p, "remove") /\ user[p].found # home
    BY DEF homeVars
  <2>1. PICK p \in Users : Connect(p) \/ RemoveTarget(p) \/ RenameStaged(p)
    BY DEF HomeNext, OpenInspect, CreateMetadata, SelectMarker, InsertMarker, CreateTables, Write,
           PlanMigration, BeginMigration, MigrateStep, Commit, BeginBackup, Vacuum, VacuumEnds,
           WriteManifest, BackupFails, VerifyBackup, LookAtTarget, Stage, StageEnds, Ends,
           DamageBackup
  <2>2. ~Connect(p) /\ ~RenameStaged(p)
    BY DEF Connect, RenameStaged
  <2>3. Does(p, "remove")
    BY <2>1, <2>2 DEF RemoveTarget
  <2>4. user[p].found = 0
    BY <2>3 DEF Does, HomeInv, HomeIInv, StepsHold, StepHolds, Restoring, Copying
  <2>5. QED
    BY <2>3, <2>4
<1>2. QED
  BY <1>1, HomeInvHolds, PTL DEF HomeSpec, HomeIsKept

(* Where marker or tables of a database move they have moved all the way,  *)
(* together: an open marks a new database, a migration commits its last    *)
(* step (state-migrations.ts).                                             *)
THEOREM MigrationsAreWhole == HomeSpec => MigrationIsWhole
<1> DEFINE Whole(i) ==
      files[i] # NoFile
      /\ <<files'[i].marker, files'[i].layout>> # <<files[i].marker, files[i].layout>> =>
        files'[i].marker = CURRENT_STATE_SCHEMA_VERSION /\ files'[i].layout = files'[i].marker
<1>1. ASSUME HomeInv, HomeNext, NEW i \in Files PROVE Whole(i)
  <2>1. CASE files'[i].marker = files[i].marker /\ files'[i].layout = files[i].layout
    BY <2>1
  <2>2. CASE files[i] = NoFile
    BY <2>2
  <2>3. CASE files'[i] = files[i]
    BY <2>3
  <2> USE <1>1
  <2>4. HomeIInv /\ files[i] \in Database \cup {NoFile}
    BY DEF HomeInv, HomeIInv, HomeTyped, FilesTyped
  <2>5. CASE UNCHANGED files
    BY <2>3, <2>5
  <2>6. ASSUME NEW j, NEW f, Sets(j, f), FreshFile(j) PROVE Whole(i)
    BY <2>2, <2>3, <2>6, FreshIsNoFile DEF Sets
  <2>7. ASSUME NEW j, NEW f, Sets(j, f), f.marker = files[j].marker, f.layout = files[j].layout
        PROVE  Whole(i)
    BY <2>1, <2>3, <2>7 DEF Sets
  <2>8. CASE DamageBackup
    BY <2>4, <2>7, <2>8, DamageBackupDoes DEF Database
  <2>9. ASSUME NEW p \in Users, Connect(p) PROVE Whole(i)
    BY <2>4, <2>5, <2>6, <2>9, ConnectDoes
  <2>10. ASSUME NEW p \in Users, CreateMetadata(p) PROVE Whole(i)
    BY <2>4, <2>7, <2>10, CreateMetadataDoes DEF Database
  <2>11. ASSUME NEW p \in Users, CreateTables(p) PROVE Whole(i)
    BY <2>4, <2>7, <2>11, CreateTablesDoes DEF Database
  <2>12. ASSUME NEW p \in Users, Write(p) PROVE Whole(i)
    BY <2>4, <2>7, <2>12, WriteDoes DEF Database
  <2>13. ASSUME NEW p \in Users, Vacuum(p) PROVE Whole(i)
    BY <2>4, <2>6, <2>13, VacuumDoes
  <2>14. ASSUME NEW p \in Users, VacuumEnds(p) PROVE Whole(i)
    BY <2>4, <2>7, <2>14, VacuumEndsDoes DEF Database
  <2>15. ASSUME NEW p \in Users, Stage(p) PROVE Whole(i)
    BY <2>4, <2>6, <2>15, StageDoes
  <2>16. ASSUME NEW p \in Users, StageEnds(p) PROVE Whole(i)
    BY <2>4, <2>7, <2>16, StageEndsDoes DEF Database
  <2>17. ASSUME NEW p \in Users, Commit(p) PROVE Whole(i)
    <3>1. Moved(p) /\ user[p].cursor = CURRENT_STATE_SCHEMA_VERSION
      BY <2>17 DEF Commit, AllStepsDone, Does, HomeInv, LayoutIInv, UsersTidy, UserTidy, NotMoved
    <3>2. Sets(user[p].file, user[p].work)
      BY <2>4, <2>17, CommitDoes
    <3>3. CASE i = user[p].file
      BY <3>1, <3>2, <3>3 DEF Sets, Moved
    <3>4. QED
      BY <2>3, <3>2, <3>3 DEF Sets
  <2>18. ASSUME NEW p \in Users, InsertMarker(p) PROVE Whole(i)
    <3>1. LayoutIInv' /\ UserTidy(p)'
      BY <1>1, <2>4, <2>18, InsertMarkerTidy DEF HomeInv, SoundIInv, LayoutIInv, UsersTidy
    <3>2. CASE UNCHANGED files
      BY <2>5, <3>2
    <3>3. CASE /\ user'[p].step = "tables" /\ user'[p].file = user[p].file
               /\ \A j \in Files \ {user[p].file} : files'[j] = files[j]
      <4>1. UpToDate(files'[user[p].file])
        BY <3>1, <3>3 DEF UserTidy
      <4>2. CASE i = user[p].file
        BY <4>1, <4>2 DEF UpToDate, Tidy, Coherent
      <4>3. QED
        BY <2>3, <3>3, <4>2
    <3>4. QED
      BY <2>4, <2>18, <3>2, <3>3, InsertMarkerDoes DEF Goes, Kept, Sets
  <2>19. ASSUME NEW p \in Users,
                \/ OpenInspect(p) \/ SelectMarker(p) \/ PlanMigration(p) \/ BeginMigration(p)
                \/ MigrateStep(p) \/ BeginBackup(p) \/ WriteManifest(p) \/ BackupFails(p)
                \/ VerifyBackup(p) \/ LookAtTarget(p) \/ RemoveTarget(p) \/ RenameStaged(p) \/ Ends(p)
         PROVE  Whole(i)
    BY <2>5, <2>19 DEF OpenInspect, SelectMarker, PlanMigration, BeginMigration, MigrateStep,
       BeginBackup, WriteManifest, BackupFails, VerifyBackup, LookAtTarget, RemoveTarget,
       RenameStaged, Ends
  <2>20. CASE LoseHome
    BY <2>5, <2>20 DEF LoseHome
  <2> HIDE DEF Whole
  <2>21. QED
    BY <2>8, <2>9, <2>10, <2>11, <2>12, <2>13, <2>14, <2>15, <2>16, <2>17, <2>18, <2>19, <2>20
       DEF HomeNext
<1> DEFINE Wholes == \A i \in Files : Whole(i)
<1>2. HomeInv /\ [HomeNext]_homeVars => [Wholes]_homeVars
  BY <1>1
<1>3. QED
  BY <1>2, HomeInvHolds, PTL DEF HomeSpec, MigrationIsWhole

-----------------------------------------------------------------------------
(* The service process.  ReadyIsTrue is about a service that answers; what *)
(* makes it hold was established before the socket existed.  Started       *)
(* carries that through the phases, and HandlersStand says that a signal   *)
(* takes its handler away together with readiness.                         *)

(* What each phase has established.                                        *)
Started ==
  /\ phase \in {"verified", "reconciled"} => chain = "valid"
  /\ phase \in {"opened", "verified"} => store = "open"
  /\ phase \in {"start", "opened", "verified"} => socket = "none"
  /\ phase = "reconciled" /\ socket # "gone" /\ ~erred => store = "open"

HandlersStand == phase = "reconciled" /\ ~closing => handlers = Signals

(* Nothing of the socket has happened before it is bound.                  *)
NotBoundYet == phase \in {"start", "opened", "verified"} => ~erred /\ ~closing

ServiceIInv == ServiceTypeOK /\ Started /\ HandlersStand /\ NotBoundYet

LEMMA ServiceInitIInv == ServiceInit => ServiceIInv
<1> SUFFICES ASSUME ServiceInit PROVE ServiceIInv
  OBVIOUS
<1>1. ready = FALSE /\ closing = FALSE /\ erred = FALSE
  BY DEF ServiceInit
<1>2. {ready, closing, erred} \subseteq BOOLEAN
  BY <1>1
<1>3. chain \in {"valid", "invalid"} /\ handlers \subseteq Signals /\ connections \in 0..MaxConnections
  BY ServiceAssumption DEF ServiceInit, ServiceAssumption
<1>4. ServiceTypeOK
  BY <1>2, <1>3 DEF ServiceInit, ServiceTypeOK
<1>5. Started /\ HandlersStand /\ NotBoundYet
  BY <1>1 DEF ServiceInit, Started, HandlersStand, NotBoundYet
<1>6. QED
  BY <1>4, <1>5 DEF ServiceIInv

LEMMA ServiceStepIInv == ServiceIInv /\ [ServiceNext]_serviceVars => ServiceIInv'
<1> SUFFICES ASSUME ServiceIInv, [ServiceNext]_serviceVars PROVE ServiceIInv'
  OBVIOUS
<1> USE ServiceAssumption DEF ServiceAssumption, ServiceIInv, ServiceTypeOK, Started, HandlersStand, NotBoundYet, flagVars, Signals
<1>1. CASE OpenRuntime
  BY <1>1 DEF OpenRuntime
<1>2. CASE VerifyAuditChain
  BY <1>2 DEF VerifyAuditChain, Verified
<1>3. CASE Reconcile
  BY <1>3 DEF Reconcile
<1>4. CASE Listening
  BY <1>4 DEF Listening
<1>5. CASE SocketError
  BY <1>5 DEF SocketError
<1>6. CASE Connection
  BY <1>6 DEF Connection
<1>7. CASE ConnectionEnds
  BY <1>7 DEF ConnectionEnds
<1>8. CASE Drained
  BY <1>8 DEF Drained
<1>9. CASE ProcessEnds
  BY <1>9 DEF ProcessEnds
<1>10. ASSUME NEW signal \in Signals, Shutdown(signal) PROVE ServiceIInv'
  BY <1>10 DEF Shutdown
<1>11. CASE UNCHANGED serviceVars
  BY <1>11 DEF serviceVars
<1>12. QED
  BY <1>1, <1>2, <1>3, <1>4, <1>5, <1>6, <1>7, <1>8, <1>9, <1>10, <1>11 DEF ServiceNext

(* Whatever signals, connections and socket errors come, the service is in *)
(* one phase of its start and its socket in one state, and no connection   *)
(* is closed that was not open (service.ts).                               *)
THEOREM ServiceIsTyped == ServiceSpec => []ServiceTypeOK
<1>1. ServiceIInv => ServiceTypeOK
  BY DEF ServiceIInv
<1>2. QED
  BY <1>1, ServiceInitIInv, ServiceStepIInv, PTL DEF ServiceSpec

(* A service that answers 200 on /readyz has a valid chain, an open        *)
(* runtime and no stop to obey, and a draining one keeps its runtime,      *)
(* however signals, socket errors and the end of the close come            *)
(* (service.ts).                                                           *)
THEOREM ReadinessIsTrue == ServiceSpec => []ReadyIsTrue
<1>1. ServiceIInv => ReadyIsTrue
  BY DEF ServiceIInv, ServiceTypeOK, Started, HandlersStand, ReadyIsTrue, Answering, Readyz, Healthz
<1>2. QED
  BY <1>1, ServiceInitIInv, ServiceStepIInv, PTL DEF ServiceSpec
=============================================================================
