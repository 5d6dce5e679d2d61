--------------------------- MODULE DocumentStore ---------------------------
(***************************************************************************)
(* The versioned document store (packages/runtime/src/store.ts) for one    *)
(* programme scope, with the read-check-write sequences runtime.ts and     *)
(* security-extension.ts run over it.                                      *)
(*                                                                         *)
(* Every write adds an immutable version and moves the head of its         *)
(* document; a checkpoint is a table of head pointers and restoring one    *)
(* moves all heads of the scope back.  putDocument is one immediate        *)
(* transaction, but what decides the write (the previous document, its     *)
(* contract revision, whether a record exists) was read before it, and     *)
(* other processes with the same home may write in between.                *)
(*                                                                         *)
(* A definition whose comment starts with "Mutant" is a plausible bug of   *)
(* the definition after it.  No behaviour of the specification uses one.   *)
(***************************************************************************)
EXTENDS Naturals

CONSTANTS
  Documents,     \* revised documents: programme, work graph
  Records,       \* single-write records: evidence, execution requests, results
  Contents,      \* what a record can say
  Writers,       \* calls into the store, possibly of different processes
  Modes,         \* "plain" and/or "guarded": whether a writer passes expectedHeadRevision
  Checkpoints,
  NoDocument, NoCheckpoint,
  MaxVersions    \* bound on the versions of a document, for model checking

Keys == Documents \cup Records

Mode == {"plain", "guarded"}

Version == [content : Contents, contract : Nat, base : Nat, mode : Mode]

Snapshot == [Keys -> Nat]

ASSUME StoreAssumption ==
  /\ Documents \cap Records = {}
  /\ Modes \subseteq Mode
  /\ NoDocument \notin Version
  /\ NoCheckpoint \notin Snapshot
  /\ NoCheckpoint \notin [Keys -> Version \cup {NoDocument}]
  /\ MaxVersions \in Nat

VARIABLES
  versions,      \* versions[k]: revision -> version, the rows of document_versions
  heads,         \* heads[k]: the head's storage revision, 0 when there is none
  checkpoints,   \* checkpoints[c]: the saved head pointers, or NoCheckpoint
  writer         \* writer[w]: what the call has read so far

vars == <<versions, heads, checkpoints, writer>>

Local == [step : {"idle", "loaded", "checked", "recording"}, key : Keys,
          base : Nat, contract : Nat, mode : Mode]

(* getDocument through the head; a missing document has revision 0.        *)
ContractOf(k) == IF heads[k] = 0 THEN 0 ELSE versions[k][heads[k]].contract

Extended(history, r, version) ==
  [s \in DOMAIN history \cup {r} |-> IF s = r THEN version ELSE history[s]]

(* Mutant: a head that exists is good enough.                              *)
ExpectedPresent(w, k) == writer[w].mode = "guarded" => heads[k] # 0

(* Mutant: the revision of the head is used again.                         *)
PutDocumentAtHead(k, version) ==
  /\ versions' = [versions EXCEPT ![k] = Extended(@, heads[k], version)]
  /\ heads' = heads

(* Mutant: the history of a document is trimmed as it grows.               *)
PutDocumentTrimming(k, version) ==
  /\ versions' = [versions EXCEPT ![k] = [r \in {heads[k] + 1} |-> version]]
  /\ heads' = [heads EXCEPT ![k] = @ + 1]

(* Mutant: a document that exists is updated in place.                     *)
PutDocumentInPlace(k, version) ==
  LET r == IF heads[k] = 0 THEN 1 ELSE heads[k] IN
  /\ versions' = [versions EXCEPT ![k] = Extended(@, r, version)]
  /\ heads' = [heads EXCEPT ![k] = r]

(* putDocument: the next revision follows the head, an expected head that  *)
(* moved is refused, and so is a revision whose row exists already (the    *)
(* primary key of document_versions).                                      *)
Expected(w, k) == writer[w].mode = "guarded" => heads[k] = writer[w].base

PutDocument(k, version) ==
  /\ heads[k] + 1 \notin DOMAIN versions[k]
  /\ versions' = [versions EXCEPT ![k] = Extended(@, heads[k] + 1, version)]
  /\ heads' = [heads EXCEPT ![k] = @ + 1]

Finish(w) == writer' = [writer EXCEPT ![w].step = "idle"]

Init ==
  /\ versions = [k \in Keys |-> [r \in {} |-> NoDocument]]
  /\ heads = [k \in Keys |-> 0]
  /\ checkpoints = [c \in Checkpoints |-> NoCheckpoint]
  /\ writer \in [Writers -> [step : {"idle"}, key : Keys, base : {0},
                             contract : {0}, mode : {"plain"}]]

-----------------------------------------------------------------------------
(* A caller reads the document it is going to revise.  An absent head      *)
(* cannot be expected: undefined switches the comparison off.              *)
Load(w, k, mode) ==
  /\ writer[w].step = "idle"
  /\ heads[k] < MaxVersions
  /\ mode = "guarded" => heads[k] # 0
  /\ writer' = [writer EXCEPT ![w] = [step |-> "loaded", key |-> k,
                  base |-> heads[k], contract |-> ContractOf(k), mode |-> mode]]
  /\ UNCHANGED <<versions, heads, checkpoints>>

(* putProgramme, putWorkGraph: read the previous document again; the new   *)
(* one must carry the next contract revision.                              *)
AssertNextRevision(w) ==
  /\ writer[w].step = "loaded"
  /\ IF ContractOf(writer[w].key) = writer[w].contract
     THEN writer' = [writer EXCEPT ![w].step = "checked"]
     ELSE Finish(w)
  /\ UNCHANGED <<versions, heads, checkpoints>>

PutRevision(w) ==
  LET k == writer[w].key IN
  /\ writer[w].step = "checked"
  /\ \/ /\ Expected(w, k)
        /\ \E content \in Contents :
             PutDocument(k, [content |-> content, contract |-> writer[w].contract + 1,
                             base |-> writer[w].base, mode |-> writer[w].mode])
     \/ /\ ~Expected(w, k) \/ heads[k] + 1 \in DOMAIN versions[k]
        /\ UNCHANGED <<versions, heads>>
  /\ Finish(w)
  /\ UNCHANGED checkpoints

(* recordEvidence, putImmutableDocument: an id with a head is returned or  *)
(* refused, which changes nothing; an id without one goes on to a plain    *)
(* putDocument.                                                            *)
CheckUnrecorded(w, k) ==
  /\ writer[w].step = "idle"
  /\ heads[k] = 0
  /\ writer' = [writer EXCEPT ![w] = [step |-> "recording", key |-> k,
                  base |-> 0, contract |-> 0, mode |-> "plain"]]
  /\ UNCHANGED <<versions, heads, checkpoints>>

PutRecord(w) ==
  LET k == writer[w].key IN
  /\ writer[w].step = "recording"
  /\ \/ \E content \in Contents :
          PutDocument(k, [content |-> content, contract |-> 1,
                          base |-> 0, mode |-> "plain"])
     \/ /\ heads[k] + 1 \in DOMAIN versions[k]
        /\ UNCHANGED <<versions, heads>>
  /\ Finish(w)
  /\ UNCHANGED checkpoints

Crash(w) ==
  /\ writer[w].step # "idle"
  /\ Finish(w)
  /\ UNCHANGED <<versions, heads, checkpoints>>

-----------------------------------------------------------------------------
(* createCheckpoint: a fresh id, the heads of the scope in one statement.  *)
CreateCheckpoint(c) ==
  /\ checkpoints[c] = NoCheckpoint
  /\ checkpoints' = [checkpoints EXCEPT ![c] = heads]
  /\ UNCHANGED <<versions, heads, writer>>

(* restoreScopeHeads: delete every head of the scope, insert the snapshot's *)
(* heads, in one transaction; no version is touched.                       *)
RestoreCheckpoint(c) ==
  /\ checkpoints[c] # NoCheckpoint
  /\ heads' = checkpoints[c]
  /\ UNCHANGED <<versions, checkpoints, writer>>

-----------------------------------------------------------------------------
WriterNext(w) ==
  \/ \E k \in Documents, mode \in Modes : Load(w, k, mode)
  \/ \E k \in Records : CheckUnrecorded(w, k)
  \/ AssertNextRevision(w) \/ PutRevision(w) \/ PutRecord(w) \/ Crash(w)

Next ==
  \/ \E w \in Writers : WriterNext(w)
  \/ \E c \in Checkpoints : CreateCheckpoint(c) \/ RestoreCheckpoint(c)

Spec == Init /\ [][Next]_vars

-----------------------------------------------------------------------------
(* Properties                                                              *)

TypeOK ==
  /\ versions = [k \in Keys |-> [r \in DOMAIN versions[k] |-> versions[k][r]]]
  /\ \A k \in Keys : /\ DOMAIN versions[k] \subseteq Nat \ {0}
                     /\ \A r \in DOMAIN versions[k] : versions[k][r] \in Version
  /\ heads \in [Keys -> Nat]
  /\ checkpoints \in [Checkpoints -> Snapshot \cup {NoCheckpoint}]
  /\ writer \in [Writers -> Local]

(* No pointer dangles: a head, and every pointer a checkpoint kept, leads  *)
(* to a version that exists, whatever was restored and rewritten since.    *)
PointersResolve ==
  \A k \in Keys :
    /\ heads[k] \in DOMAIN versions[k] \cup {0}
    /\ \A c \in Checkpoints :
         checkpoints[c] # NoCheckpoint
           => checkpoints[c][k] \in DOMAIN versions[k] \cup {0}

(* A writer that passes the head it read never overwrites a write it did   *)
(* not see, although a restore may have moved the head back and forth      *)
(* between its read and its write.                                         *)
GuardedSeesPredecessor ==
  \A k \in Documents : \A r \in DOMAIN versions[k] :
    versions[k][r].mode = "guarded" => versions[k][r].base = r - 1

(* Contract revisions increase by one along the versions of a document.    *)
RevisionsIncreaseByOne ==
  \A k \in Documents : \A r \in DOMAIN versions[k] : versions[k][r].contract = r

(* An evidence record or an execution result is written once.              *)
RecordsAreSingleWrite ==
  \A k \in Records : \A r, s \in DOMAIN versions[k] :
    versions[k][r].content = versions[k][s].content

(* The programme can go on from where a checkpoint put it: the head of     *)
(* every document accepts a next version.                                  *)
RestoredStateIsWritable ==
  \A k \in Keys : heads[k] + 1 \notin DOMAIN versions[k]

(* The abstraction: pointers replaced by what they point to.               *)
Resolve(pointers) ==
  [k \in Keys |-> IF pointers[k] = 0 THEN NoDocument ELSE versions[k][pointers[k]]]

viewBar == Resolve(heads)

savedBar == [c \in Checkpoints |-> IF checkpoints[c] = NoCheckpoint
                                   THEN NoCheckpoint
                                   ELSE Resolve(checkpoints[c])]

Views == INSTANCE SnapshotView WITH view <- viewBar, saved <- savedBar

(* Checkpoints made of pointers behave like checkpoints made of copies.    *)
KeepsViews == Views!Spec
=============================================================================
