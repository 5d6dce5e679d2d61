------------------------ MODULE DocumentStoreProofs ------------------------
(***************************************************************************)
(* Theorems about DocumentStore for every set of documents, writers and    *)
(* checkpoints.                                                            *)
(*                                                                         *)
(* The inductive invariant is the conjunction of the type invariant,       *)
(* PointersResolve and GuardedSeesPredecessor.  PointersResolve carries    *)
(* the refinement: a new version can only change what an old pointer leads *)
(* to if the pointer already led to the row being inserted, and an         *)
(* existing row is never inserted again.                                   *)
(***************************************************************************)
EXTENDS DocumentStore, TLAPS

IInv == TypeOK /\ PointersResolve /\ GuardedSeesPredecessor

(* Facts of one putDocument: one key gains the row after its head, and     *)
(* every row that existed keeps its value.                                 *)
LEMMA PutFacts ==
  ASSUME TypeOK, NEW k \in Keys, NEW version \in Version, PutDocument(k, version)
  PROVE  /\ heads' \in [Keys -> Nat]
         /\ heads' = [heads EXCEPT ![k] = heads[k] + 1]
         /\ versions' = [j \in Keys |-> [r \in DOMAIN versions'[j] |-> versions'[j][r]]]
         /\ DOMAIN versions'[k] = DOMAIN versions[k] \cup {heads[k] + 1}
         /\ versions'[k][heads[k] + 1] = version
         /\ \A r \in DOMAIN versions[k] : versions'[k][r] = versions[k][r]
         /\ \A j \in Keys \ {k} : versions'[j] = versions[j]
         /\ heads[k] + 1 \notin DOMAIN versions[k]
         /\ heads[k] + 1 \in Nat \ {0}
<1> DEFINE r0 == heads[k] + 1
<1>1. heads[k] \in Nat /\ r0 \in Nat \ {0} /\ r0 \notin DOMAIN versions[k]
  BY DEF TypeOK, PutDocument
<1>2. heads' = [heads EXCEPT ![k] = heads[k] + 1] /\ heads' \in [Keys -> Nat]
  BY <1>1 DEF TypeOK, PutDocument
<1>3. versions' = [versions EXCEPT ![k] = Extended(versions[k], r0, version)]
  BY DEF PutDocument
<1>4. /\ versions'[k] = Extended(versions[k], r0, version)
      /\ \A j \in Keys \ {k} : versions'[j] = versions[j]
      /\ DOMAIN versions' = Keys
  BY <1>3 DEF TypeOK
<1>5. /\ DOMAIN versions'[k] = DOMAIN versions[k] \cup {r0}
      /\ versions'[k][r0] = version
      /\ \A r \in DOMAIN versions[k] : versions'[k][r] = versions[k][r]
  <2> HIDE DEF r0
  <2> QED BY <1>1, <1>4 DEF Extended
<1>6. versions'[k] = [r \in DOMAIN versions'[k] |-> versions'[k][r]]
  <2> HIDE DEF r0
  <2> QED BY <1>4 DEF Extended
<1>7. \A j \in Keys \ {k} : versions'[j] = [r \in DOMAIN versions'[j] |-> versions'[j][r]]
  BY <1>4 DEF TypeOK
<1>8. versions' = [j \in Keys |-> versions'[j]]
  BY <1>3 DEF TypeOK
<1>9. versions' = [j \in Keys |-> [r \in DOMAIN versions'[j] |-> versions'[j][r]]]
  <2>1. \A j \in Keys : versions'[j] = [r \in DOMAIN versions'[j] |-> versions'[j][r]]
    BY <1>6, <1>7
  <2> QED BY <1>8, <2>1
<1> QED BY <1>1, <1>2, <1>4, <1>5, <1>9

(* The initial states satisfy the inductive invariant: there are no        *)
(* versions, no heads and no checkpoints.                                  *)
LEMMA InitIInv == Init => IInv
<1> SUFFICES ASSUME Init PROVE IInv
  OBVIOUS
<1>1. TypeOK
  <2>1. versions = [k \in Keys |-> [r \in DOMAIN versions[k] |-> versions[k][r]]]
    BY DEF Init
  <2>2. \A k \in Keys : DOMAIN versions[k] = {}
    BY DEF Init
  <2>3. heads \in [Keys -> Nat] /\ checkpoints \in [Checkpoints -> Snapshot \cup {NoCheckpoint}]
    BY DEF Init
  <2>4. writer \in [Writers -> Local]
    BY DEF Init, Local, Mode
  <2> QED BY <2>1, <2>2, <2>3, <2>4 DEF TypeOK
<1>2. PointersResolve
  BY DEF Init, PointersResolve
<1>3. GuardedSeesPredecessor
  BY DEF Init, GuardedSeesPredecessor, Keys
<1> QED BY <1>1, <1>2, <1>3 DEF IInv

(* A step that adds no version keeps the invariant if its pointers resolve. *)
LEMMA NoNewVersion ==
  ASSUME IInv, UNCHANGED versions, heads' \in [Keys -> Nat],
         checkpoints' \in [Checkpoints -> Snapshot \cup {NoCheckpoint}],
         writer' \in [Writers -> Local], PointersResolve'
  PROVE  IInv'
<1>1. versions' = versions
  OBVIOUS
<1>2. TypeOK'
  <2>1. versions = [k \in Keys |-> [r \in DOMAIN versions[k] |-> versions[k][r]]]
    BY DEF IInv, TypeOK
  <2>2. versions' = [k \in Keys |-> [r \in DOMAIN versions'[k] |-> versions'[k][r]]]
    BY <1>1, <2>1
  <2>3. \A k \in Keys : /\ DOMAIN versions'[k] \subseteq Nat \ {0}
                        /\ \A r \in DOMAIN versions'[k] : versions'[k][r] \in Version
    BY <1>1 DEF IInv, TypeOK
  <2> QED BY <2>2, <2>3 DEF TypeOK
<1>3. GuardedSeesPredecessor'
  BY <1>1 DEF IInv, GuardedSeesPredecessor
<1> QED BY <1>2, <1>3 DEF IInv

(* So does a step that changes nothing but a caller's local state.         *)
LEMMA LocalStep ==
  ASSUME IInv, UNCHANGED <<versions, heads, checkpoints>>, writer' \in [Writers -> Local]
  PROVE  IInv'
<1>1. PointersResolve'
  BY DEF IInv, PointersResolve
<1>2. heads' \in [Keys -> Nat] /\ checkpoints' \in [Checkpoints -> Snapshot \cup {NoCheckpoint}]
  BY DEF IInv, TypeOK
<1> QED BY <1>1, <1>2, NoNewVersion

(* One putDocument keeps the invariant, whichever caller makes it, if the  *)
(* version it adds is a guarded one only when its base is the head.        *)
LEMMA PutKeepsIInv ==
  ASSUME IInv, NEW k \in Keys, NEW version \in Version, PutDocument(k, version),
         version.mode = "guarded" => heads[k] = version.base,
         UNCHANGED checkpoints, writer' \in [Writers -> Local]
  PROVE  IInv'
<1> USE DEF IInv
<1> DEFINE r0 == heads[k] + 1
<1>1. /\ heads' \in [Keys -> Nat]
      /\ heads' = [heads EXCEPT ![k] = r0]
      /\ versions' = [j \in Keys |-> [r \in DOMAIN versions'[j] |-> versions'[j][r]]]
      /\ DOMAIN versions'[k] = DOMAIN versions[k] \cup {r0}
      /\ versions'[k][r0] = version
      /\ \A r \in DOMAIN versions[k] : versions'[k][r] = versions[k][r]
      /\ \A j \in Keys \ {k} : versions'[j] = versions[j]
      /\ r0 \in Nat \ {0}
  BY PutFacts
<1>2. TypeOK'
  <2>1. \A j \in Keys : DOMAIN versions'[j] \subseteq Nat \ {0}
    <3> HIDE DEF r0
    <3> QED BY <1>1 DEF TypeOK
  <2>2. \A j \in Keys : \A r \in DOMAIN versions'[j] : versions'[j][r] \in Version
    <3> HIDE DEF r0
    <3> QED BY <1>1 DEF TypeOK
  <2> QED BY <1>1, <2>1, <2>2 DEF TypeOK
<1>3. PointersResolve'
  <2>1. \A j \in Keys : DOMAIN versions[j] \subseteq DOMAIN versions'[j]
    <3> HIDE DEF r0
    <3> QED BY <1>1
  <2>2. \A j \in Keys : heads'[j] \in DOMAIN versions'[j] \cup {0}
    <3> HIDE DEF r0
    <3> QED BY <1>1, <2>1 DEF PointersResolve, TypeOK
  <2> QED BY <2>1, <2>2 DEF PointersResolve
<1>4. GuardedSeesPredecessor'
  <2> SUFFICES ASSUME NEW j \in Documents, NEW r \in DOMAIN versions'[j],
                      versions'[j][r].mode = "guarded"
               PROVE  versions'[j][r].base = r - 1
    BY DEF GuardedSeesPredecessor
  <2>1. j \in Keys
    BY DEF Keys
  <2>2. CASE j # k \/ r \in DOMAIN versions[j]
    <3> HIDE DEF r0
    <3> QED BY <1>1, <2>1, <2>2 DEF GuardedSeesPredecessor
  <2>3. CASE j = k /\ r = r0
    <3>1. versions'[j][r].base = heads[k] /\ heads[k] \in Nat
      BY <1>1, <2>3 DEF TypeOK
    <3> QED BY <3>1, <2>3
  <2> QED
    <3> HIDE DEF r0
    <3> QED BY <1>1, <2>1, <2>2, <2>3
<1> QED BY <1>2, <1>3, <1>4

(* Every step keeps the inductive invariant.                               *)
LEMMA StepIInv == IInv /\ [Next]_vars => IInv'
<1> SUFFICES ASSUME IInv, [Next]_vars PROVE IInv'
  OBVIOUS
<1> USE DEF IInv
<1>1. ASSUME NEW w \in Writers, NEW k \in Documents, NEW mode \in Modes, Load(w, k, mode)
      PROVE  IInv'
  <2>1. mode \in Mode /\ k \in Keys
    BY StoreAssumption DEF Keys
  <2>2. heads[k] \in Nat /\ ContractOf(k) \in Nat
    BY <2>1 DEF TypeOK, PointersResolve, ContractOf, Version
  <2>3. [step |-> "loaded", key |-> k, base |-> heads[k],
         contract |-> ContractOf(k), mode |-> mode] \in Local
    BY <2>1, <2>2 DEF Local
  <2>4. writer' \in [Writers -> Local] /\ UNCHANGED <<versions, heads, checkpoints>>
    BY <1>1, <2>3 DEF TypeOK, Load
  <2> QED BY <2>4, LocalStep
<1>2. ASSUME NEW w \in Writers, AssertNextRevision(w)
      PROVE  IInv'
  <2>1. writer' \in [Writers -> Local] /\ UNCHANGED <<versions, heads, checkpoints>>
    BY <1>2 DEF TypeOK, AssertNextRevision, Finish, Local
  <2> QED BY <2>1, LocalStep
<1>3. ASSUME NEW w \in Writers, PutRevision(w)
      PROVE  IInv'
  <2> DEFINE k == writer[w].key
  <2>1. k \in Keys /\ writer[w] \in Local
    BY DEF TypeOK, Local
  <2>2. writer' \in [Writers -> Local] /\ UNCHANGED checkpoints
    BY <1>3 DEF TypeOK, PutRevision, Finish, Local
  <2>3. CASE UNCHANGED <<versions, heads>>
    BY <2>2, <2>3, LocalStep
  <2>4. ASSUME NEW content \in Contents, Expected(w, k),
               PutDocument(k, [content |-> content, contract |-> writer[w].contract + 1,
                               base |-> writer[w].base, mode |-> writer[w].mode])
        PROVE  IInv'
    <3> DEFINE version == [content |-> content, contract |-> writer[w].contract + 1,
                           base |-> writer[w].base, mode |-> writer[w].mode]
    <3>1. version \in Version
      BY <2>1 DEF Local, Version
    <3>2. version.mode = "guarded" => heads[k] = version.base
      BY <2>4 DEF Expected
    <3> QED BY <2>1, <2>2, <2>4, <3>1, <3>2, PutKeepsIInv
  <2> QED BY <1>3, <2>3, <2>4 DEF PutRevision
<1>4. ASSUME NEW w \in Writers, NEW k \in Records, CheckUnrecorded(w, k)
      PROVE  IInv'
  <2>1. [step |-> "recording", key |-> k, base |-> 0, contract |-> 0,
         mode |-> "plain"] \in Local
    BY DEF Local, Mode, Keys
  <2>2. writer' \in [Writers -> Local] /\ UNCHANGED <<versions, heads, checkpoints>>
    BY <1>4, <2>1 DEF TypeOK, CheckUnrecorded
  <2> QED BY <2>2, LocalStep
<1>5. ASSUME NEW w \in Writers, PutRecord(w)
      PROVE  IInv'
  <2> DEFINE k == writer[w].key
  <2>1. k \in Keys
    BY DEF TypeOK, Local
  <2>2. writer' \in [Writers -> Local] /\ UNCHANGED checkpoints
    BY <1>5 DEF TypeOK, PutRecord, Finish, Local
  <2>3. CASE UNCHANGED <<versions, heads>>
    BY <2>2, <2>3, LocalStep
  <2>4. ASSUME NEW content \in Contents,
               PutDocument(k, [content |-> content, contract |-> 1,
                               base |-> 0, mode |-> "plain"])
        PROVE  IInv'
    <3>1. [content |-> content, contract |-> 1, base |-> 0, mode |-> "plain"] \in Version
      BY DEF Version, Mode
    <3> QED BY <2>1, <2>2, <2>4, <3>1, PutKeepsIInv
  <2> QED BY <1>5, <2>3, <2>4 DEF PutRecord
<1>6. ASSUME NEW w \in Writers, Crash(w)
      PROVE  IInv'
  <2>1. writer' \in [Writers -> Local] /\ UNCHANGED <<versions, heads, checkpoints>>
    BY <1>6 DEF TypeOK, Crash, Finish, Local
  <2> QED BY <2>1, LocalStep
<1>7. ASSUME NEW c \in Checkpoints, CreateCheckpoint(c)
      PROVE  IInv'
  <2>1. heads \in Snapshot
    BY DEF TypeOK, Snapshot
  <2>2. /\ checkpoints' \in [Checkpoints -> Snapshot \cup {NoCheckpoint}]
        /\ UNCHANGED <<versions, heads, writer>>
    BY <1>7, <2>1 DEF CreateCheckpoint, TypeOK
  <2>3. PointersResolve'
    BY <1>7, <2>2 DEF CreateCheckpoint, TypeOK, PointersResolve
  <2>4. heads' \in [Keys -> Nat] /\ writer' \in [Writers -> Local]
    BY <2>2 DEF TypeOK
  <2> QED BY <2>2, <2>3, <2>4, NoNewVersion
<1>8. ASSUME NEW c \in Checkpoints, RestoreCheckpoint(c)
      PROVE  IInv'
  <2>1. heads' \in [Keys -> Nat] /\ UNCHANGED <<versions, checkpoints, writer>>
    BY <1>8 DEF RestoreCheckpoint, TypeOK, Snapshot
  <2>2. PointersResolve'
    BY <1>8 DEF RestoreCheckpoint, PointersResolve
  <2>3. /\ checkpoints' \in [Checkpoints -> Snapshot \cup {NoCheckpoint}]
        /\ writer' \in [Writers -> Local]
    BY <2>1 DEF TypeOK
  <2> QED BY <2>1, <2>2, <2>3, NoNewVersion
<1>9. CASE UNCHANGED vars
  <2>1. writer' \in [Writers -> Local] /\ UNCHANGED <<versions, heads, checkpoints>>
    BY <1>9 DEF vars, TypeOK
  <2> QED BY <2>1, LocalStep
<1> QED BY <1>1, <1>2, <1>3, <1>4, <1>5, <1>6, <1>7, <1>8, <1>9 DEF Next, WriterNext

(* The inductive invariant holds throughout.                               *)
LEMMA Inductive == Spec => []IInv
<1> QED BY InitIInv, StepIInv, PTL DEF Spec

(* The store's tables and every caller's local state are well formed in    *)
(* every reachable state.                                                  *)
THEOREM TypeCorrect == Spec => []TypeOK
<1> QED BY Inductive, PTL DEF IInv

(* No head and no pointer kept by a checkpoint ever dangles, for any       *)
(* number of writers, checkpoints and restores (putDocument and            *)
(* restoreScopeHeads).                                                     *)
THEOREM PointersAlwaysResolve == Spec => []PointersResolve
<1> QED BY Inductive, PTL DEF IInv

(* A write that passed expectedHeadRevision follows the very version its   *)
(* caller read, whatever other processes wrote or restored in between.     *)
THEOREM GuardedWritesAreNotLost == Spec => []GuardedSeesPredecessor
<1> QED BY Inductive, PTL DEF IInv

-----------------------------------------------------------------------------
(* The refinement of SnapshotView.                                         *)

(* What pointers lead to is a view of the store.                           *)
LEMMA ResolvedIsView ==
  ASSUME TypeOK, NEW pointers,
         \A j \in Keys : pointers[j] \in DOMAIN versions[j] \cup {0}
  PROVE  Resolve(pointers) \in [Keys -> Version \cup {NoDocument}]
<1>1. \A j \in Keys : pointers[j] # 0 => versions[j][pointers[j]] \in Version
  BY DEF TypeOK
<1> QED BY <1>1 DEF Resolve

(* The initial view is empty and nothing is saved.                         *)
LEMMA InitViews == Init => Views!Init
<1> QED BY DEF Init, Views!Init, viewBar, savedBar, Resolve

(* A putDocument is a write of one key of the view, and every saved view   *)
(* stays as it was.                                                        *)
LEMMA PutIsWrite ==
  ASSUME IInv, NEW k \in Keys, NEW version \in Version, PutDocument(k, version),
         UNCHANGED checkpoints
  PROVE  Views!Write(k)
<1> USE DEF IInv
<1>1. /\ heads' = [heads EXCEPT ![k] = heads[k] + 1]
      /\ versions'[k][heads[k] + 1] = version
      /\ \A r \in DOMAIN versions[k] : versions'[k][r] = versions[k][r]
      /\ \A j \in Keys \ {k} : versions'[j] = versions[j]
      /\ heads[k] + 1 # 0
  BY PutFacts
<1>2. viewBar'[k] = version
  BY <1>1 DEF viewBar, Resolve, TypeOK
<1>3. \A j \in Keys \ {k} : viewBar'[j] = viewBar[j]
  BY <1>1 DEF viewBar, Resolve, TypeOK
<1>4. viewBar' = [viewBar EXCEPT ![k] = viewBar'[k]]
  BY <1>3 DEF viewBar, Resolve
<1>5. viewBar'[k] # NoDocument
  BY <1>2, StoreAssumption
<1>6. savedBar' = savedBar
  <2>1. ASSUME NEW c \in Checkpoints, checkpoints[c] # NoCheckpoint
        PROVE  savedBar'[c] = savedBar[c]
    <3>1. \A j \in Keys : checkpoints[c][j] \in DOMAIN versions[j] \cup {0}
      BY <2>1 DEF PointersResolve
    <3>2. \A j \in Keys : checkpoints[c][j] # 0
             => versions'[j][checkpoints[c][j]] = versions[j][checkpoints[c][j]]
      BY <1>1, <3>1
    <3>3. checkpoints' = checkpoints
      OBVIOUS
    <3>4. savedBar[c] = [j \in Keys |-> IF checkpoints[c][j] = 0 THEN NoDocument
                                       ELSE versions[j][checkpoints[c][j]]]
      BY <2>1 DEF savedBar, Resolve
    <3>5. savedBar'[c] = [j \in Keys |-> IF checkpoints[c][j] = 0 THEN NoDocument
                                        ELSE versions'[j][checkpoints[c][j]]]
      BY <2>1, <3>3 DEF savedBar, Resolve
    <3> QED BY <3>2, <3>4, <3>5
  <2>2. ASSUME NEW c \in Checkpoints, checkpoints[c] = NoCheckpoint
        PROVE  savedBar'[c] = savedBar[c]
    BY <2>2 DEF savedBar
  <2> QED BY <2>1, <2>2 DEF savedBar
<1> QED BY <1>4, <1>5, <1>6 DEF Views!Write

(* A caller's own step, and a refused put, leave the view and the saved    *)
(* views as they are.                                                      *)
LEMMA SameTables ==
  ASSUME UNCHANGED <<versions, heads, checkpoints>>
  PROVE  UNCHANGED <<viewBar, savedBar>>
<1> QED BY DEF viewBar, savedBar, Resolve

(* Taking a checkpoint saves the current view.                             *)
LEMMA CheckpointIsSave ==
  ASSUME IInv, NEW c \in Checkpoints, CreateCheckpoint(c)
  PROVE  Views!Save(c)
<1> USE DEF IInv
<1>1. /\ checkpoints' = [checkpoints EXCEPT ![c] = heads]
      /\ checkpoints[c] = NoCheckpoint
      /\ versions' = versions /\ heads' = heads
  BY DEF CreateCheckpoint
<1>2. heads \in Snapshot /\ heads # NoCheckpoint /\ DOMAIN checkpoints = Checkpoints
  BY StoreAssumption DEF TypeOK, Snapshot
<1>3. viewBar' = viewBar
  BY <1>1 DEF viewBar, Resolve
<1>4. savedBar'[c] = viewBar
  BY <1>1, <1>2 DEF savedBar, viewBar, Resolve
<1>5. \A d \in Checkpoints \ {c} : savedBar'[d] = savedBar[d]
  BY <1>1, <1>2 DEF savedBar, Resolve
<1>6. savedBar' = [savedBar EXCEPT ![c] = viewBar]
  BY <1>4, <1>5 DEF savedBar
<1>7. savedBar[c] = NoCheckpoint
  BY <1>1 DEF savedBar
<1> QED BY <1>3, <1>6, <1>7 DEF Views!Save

(* Restoring a checkpoint brings its saved view back.                      *)
LEMMA RestoreIsRestore ==
  ASSUME IInv, NEW c \in Checkpoints, RestoreCheckpoint(c)
  PROVE  Views!Restore(c)
<1> USE DEF IInv
<1>1. /\ checkpoints[c] # NoCheckpoint /\ heads' = checkpoints[c]
      /\ versions' = versions /\ checkpoints' = checkpoints
  BY DEF RestoreCheckpoint
<1>2. savedBar[c] = Resolve(checkpoints[c])
  BY <1>1 DEF savedBar
<1>3. \A j \in Keys : checkpoints[c][j] \in DOMAIN versions[j] \cup {0}
  BY <1>1 DEF PointersResolve
<1>4. savedBar[c] \in [Keys -> Version \cup {NoDocument}]
  BY <1>2, <1>3, ResolvedIsView
<1>5. savedBar[c] # NoCheckpoint
  BY <1>4, StoreAssumption
<1>6. viewBar' = savedBar[c]
  BY <1>1, <1>2 DEF viewBar, Resolve
<1>7. savedBar' = savedBar
  BY <1>1 DEF savedBar, Resolve
<1> QED BY <1>5, <1>6, <1>7 DEF Views!Restore

(* Every step of the store is a step of SnapshotView or leaves it alone.   *)
LEMMA StepKeepsViews == IInv /\ [Next]_vars => [Views!Next]_<<viewBar, savedBar>>
<1> SUFFICES ASSUME IInv, [Next]_vars PROVE [Views!Next]_<<viewBar, savedBar>>
  OBVIOUS
<1>1. ASSUME UNCHANGED <<versions, heads, checkpoints>>
      PROVE  [Views!Next]_<<viewBar, savedBar>>
  BY <1>1, SameTables
<1>2. ASSUME NEW w \in Writers, PutRevision(w)
      PROVE  [Views!Next]_<<viewBar, savedBar>>
  <2>1. writer[w].key \in Keys /\ writer[w] \in Local /\ UNCHANGED checkpoints
    BY <1>2 DEF IInv, TypeOK, Local, PutRevision
  <2>2. CASE UNCHANGED <<versions, heads>>
    BY <2>1, <2>2, <1>1
  <2>3. ASSUME NEW content \in Contents,
               PutDocument(writer[w].key,
                 [content |-> content, contract |-> writer[w].contract + 1,
                  base |-> writer[w].base, mode |-> writer[w].mode])
        PROVE  [Views!Next]_<<viewBar, savedBar>>
    <3>1. [content |-> content, contract |-> writer[w].contract + 1,
           base |-> writer[w].base, mode |-> writer[w].mode] \in Version
      BY <2>1 DEF Local, Version
    <3>2. Views!Write(writer[w].key)
      BY <2>1, <2>3, <3>1, PutIsWrite
    <3> QED BY <2>1, <3>2 DEF Views!Next
  <2> QED BY <1>2, <2>2, <2>3 DEF PutRevision
<1>3. ASSUME NEW w \in Writers, PutRecord(w)
      PROVE  [Views!Next]_<<viewBar, savedBar>>
  <2>1. writer[w].key \in Keys /\ UNCHANGED checkpoints
    BY <1>3 DEF IInv, TypeOK, Local, PutRecord
  <2>2. CASE UNCHANGED <<versions, heads>>
    BY <2>1, <2>2, <1>1
  <2>3. ASSUME NEW content \in Contents,
               PutDocument(writer[w].key,
                 [content |-> content, contract |-> 1, base |-> 0, mode |-> "plain"])
        PROVE  [Views!Next]_<<viewBar, savedBar>>
    <3>1. [content |-> content, contract |-> 1, base |-> 0, mode |-> "plain"] \in Version
      BY DEF Version, Mode
    <3>2. Views!Write(writer[w].key)
      BY <2>1, <2>3, <3>1, PutIsWrite
    <3> QED BY <2>1, <3>2 DEF Views!Next
  <2> QED BY <1>3, <2>2, <2>3 DEF PutRecord
<1>4. ASSUME NEW c \in Checkpoints, CreateCheckpoint(c) \/ RestoreCheckpoint(c)
      PROVE  [Views!Next]_<<viewBar, savedBar>>
  BY <1>4, CheckpointIsSave, RestoreIsRestore DEF Views!Next
<1>5. ASSUME NEW w \in Writers,
             \/ \E k \in Documents, mode \in Modes : Load(w, k, mode)
             \/ \E k \in Records : CheckUnrecorded(w, k)
             \/ AssertNextRevision(w) \/ Crash(w)
      PROVE  UNCHANGED <<versions, heads, checkpoints>>
  BY <1>5 DEF Load, CheckUnrecorded, AssertNextRevision, Crash
<1>6. CASE UNCHANGED vars
  BY <1>6, <1>1 DEF vars
<1> QED BY <1>1, <1>2, <1>3, <1>4, <1>5, <1>6 DEF Next, WriterNext

(* Checkpoints made of head pointers behave like full copies of the        *)
(* programme's documents (captureScopeHeads and restoreScopeHeads): what a *)
(* restore brings back is exactly what was current when the checkpoint was *)
(* taken.                                                                  *)
THEOREM StoreKeepsViews == Spec => KeepsViews
<1> QED BY InitViews, StepKeepsViews, Inductive, PTL DEF Spec, KeepsViews, Views!Spec
=============================================================================
