----------------------------- MODULE AuditChain -----------------------------
(***************************************************************************)
(* The audit receipts (packages/runtime/src/security-audit.ts): a table of *)
(* numbered rows, each with the digest of its own body and of the row      *)
(* before it, and verify, which recomputes the chain from sequence 1.      *)
(*                                                                         *)
(* append reads the last row and inserts the next one in two statements    *)
(* without a transaction; only the primary key stands between two          *)
(* processes that read the same last row.                                  *)
(*                                                                         *)
(* A digest is modelled as the sequence of bodies it covers: two digests   *)
(* are equal exactly when everything below them is.  Times are left out,   *)
(* and an event stands for its type, its subject and its scope.            *)
(*                                                                         *)
(* A definition whose comment starts with "Mutant" is a plausible bug of   *)
(* the definition after it.  No behaviour of the specification uses one.   *)
(***************************************************************************)
EXTENDS Naturals, Sequences

CONSTANTS
  Processes,
  Events, Garbled,               \* what recorders say; what none ever said
  MetadataKeys, SensitiveKeys,   \* keys of the metadata, and those redacted
  Metadata,                      \* what callers pass: functions from keys to
                                 \* "given" or, left out, "undefined"
  MaxReceipts                    \* bound on the rows, for model checking

ASSUME AuditAssumption ==
  /\ Garbled \notin Events
  /\ Metadata \subseteq [MetadataKeys -> {"given", "undefined"}]
  /\ MaxReceipts \in Nat

VARIABLES
  receipts,      \* receipts[s]: the row with primary key s
  appending,     \* appending[p]: what append has read and is about to insert
  damaged        \* rows whose content changed behind the program's back (history)

auditVars == <<receipts, appending, damaged>>

Idle == [step |-> "idle"]

(* redactAuditMetadata: the value of a sensitive key is replaced.          *)
Redacted(metadata) ==
  [k \in DOMAIN metadata |-> IF k \in SensitiveKeys THEN "redacted" ELSE metadata[k]]

(* JSON.stringify drops a key whose value is undefined; stable, which the  *)
(* digest is made from, does not.                                          *)
Stored(metadata) ==
  [k \in {j \in DOMAIN metadata : metadata[j] # "undefined"} |-> metadata[k]]

Body(sequence, event, metadata) ==
  [sequence |-> sequence, event |-> event, metadata |-> metadata]

LastSequence ==
  IF DOMAIN receipts = {} THEN 0
  ELSE CHOOSE s \in DOMAIN receipts : \A t \in DOMAIN receipts : t <= s

(* The row verify compares row s with.                                     *)
Previous(s) ==
  LET below == {t \in DOMAIN receipts : t < s} IN
  IF below = {} THEN <<>>
  ELSE receipts[CHOOSE t \in below : \A u \in below : u <= t].digest

AuditInit ==
  /\ receipts = [s \in {} |-> Idle]
  /\ appending = [p \in Processes |-> Idle]
  /\ damaged = {}

-----------------------------------------------------------------------------
(* SELECT the last row.                                                    *)
SelectLast(p, event, metadata) ==
  /\ appending[p] = Idle
  /\ LastSequence < MaxReceipts
  /\ appending' = [appending EXCEPT ![p] =
       [step |-> "selected", sequence |-> LastSequence + 1, event |-> event,
        metadata |-> Redacted(metadata), previous |-> Previous(LastSequence + 1)]]
  /\ UNCHANGED <<receipts, damaged>>

(* The row gets the sequence computed from the read, although the column   *)
(* is AUTOINCREMENT.                                                       *)
RowNumber(p) == appending[p].sequence

Insertable(p) == RowNumber(p) \notin DOMAIN receipts

Insert(p) ==
  LET a == appending[p]
      row == [event |-> a.event, metadata |-> Stored(a.metadata), previous |-> a.previous,
              digest |-> Append(a.previous, Body(a.sequence, a.event, a.metadata))] IN
  /\ a.step = "selected"
  /\ Insertable(p)
  /\ receipts' = [s \in DOMAIN receipts \cup {RowNumber(p)} |->
                    IF s = RowNumber(p) THEN row ELSE receipts[s]]
  /\ appending' = [appending EXCEPT ![p] = Idle]
  /\ UNCHANGED damaged

(* The primary key is taken: append throws.                                *)
InsertFails(p) ==
  /\ appending[p].step = "selected"
  /\ ~Insertable(p)
  /\ appending' = [appending EXCEPT ![p] = Idle]
  /\ UNCHANGED <<receipts, damaged>>

(* A stored receipt changes: what it says happened reads differently.      *)
Damage(s) ==
  /\ s \in DOMAIN receipts \ damaged
  /\ receipts' = [receipts EXCEPT ![s].event = Garbled]
  /\ damaged' = damaged \cup {s}
  /\ UNCHANGED appending

(* The process dies between the two statements.                            *)
AppendDies(p) ==
  /\ appending[p] # Idle
  /\ appending' = [appending EXCEPT ![p] = Idle]
  /\ UNCHANGED <<receipts, damaged>>

(* appendAuditReceipt, which every recording operation of the runtime      *)
(* calls last.                                                             *)
AuditNext ==
  \/ \E p \in Processes :
       \/ \E event \in Events, metadata \in Metadata : SelectLast(p, event, metadata)
       \/ Insert(p) \/ InsertFails(p) \/ AppendDies(p)
  \/ \E s \in DOMAIN receipts : Damage(s)

AuditSpec == AuditInit /\ [][AuditNext]_auditVars

-----------------------------------------------------------------------------
(* Mutant: the links are compared, the bodies are not recomputed.          *)
MatchesLink(s) == receipts[s].previous = Previous(s)

(* One round of verify's loop: the link and the recomputed digest.         *)
Matches(s) ==
  /\ receipts[s].previous = Previous(s)
  /\ receipts[s].digest =
       Append(Previous(s), Body(s, receipts[s].event, receipts[s].metadata))

(* verify: 0 when the chain is valid, else the first invalid sequence.     *)
FirstInvalid ==
  LET invalid == {s \in DOMAIN receipts : ~Matches(s)} IN
  IF invalid = {} THEN 0 ELSE CHOOSE s \in invalid : \A t \in invalid : s <= t

-----------------------------------------------------------------------------
(* Properties                                                              *)

(* Whoever appends, races and crashes, the receipts are one chain: they    *)
(* are numbered without a gap and each covers everything before it.        *)
ChainIsLinear ==
  /\ DOMAIN receipts = 1..LastSequence
  /\ \A s \in DOMAIN receipts :
       /\ Len(receipts[s].digest) = s
       /\ receipts[s].previous = Previous(s)
       /\ receipts[s].previous = SubSeq(receipts[s].digest, 1, s - 1)

(* A chain nobody touched verifies: what was digested is what is stored    *)
(* (docs/security-hardening.md:65).  service.ts does not start otherwise.  *)
UntouchedChainVerifies == damaged = {} => FirstInvalid = 0

(* verify names the first receipt that changed since it was written, and   *)
(* finds the chain valid when none did.                                    *)
VerifyReports ==
  FirstInvalid = IF damaged = {} THEN 0
                 ELSE CHOOSE s \in damaged : \A t \in damaged : s <= t
=============================================================================
