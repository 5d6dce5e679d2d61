----------------------------- MODULE Approvals ------------------------------
(***************************************************************************)
(* Approvals and their gates (packages/runtime/src/security-extension.ts)  *)
(* over the document store and the audit chain: requestApproval,           *)
(* decideApproval, applyApproval, and the graph edits and restores that    *)
(* happen beside them.                                                     *)
(*                                                                         *)
(* Each call is a series of statements of its own connection; calls of     *)
(* other processes run in between, and a crash ends a call anywhere.  A    *)
(* document is its versions and a head; putDocument, one immediate         *)
(* transaction, refuses a revision whose row exists.  The write of a       *)
(* receipt comes after the commit of what it reports.                      *)
(*                                                                         *)
(* recordEvidence has the shape of requestApproval, check, plain put,      *)
(* receipt, without what follows a request.  Approval subjects are nodes   *)
(* of one graph; a subject of another kind has no gate to open.            *)
(***************************************************************************)
EXTENDS AuditChain

CONSTANTS
  Requests,        \* approval ids
  Items,           \* gated nodes of the graph
  Subject,         \* [Requests -> Items]
  ActorKinds,           \* kinds of deciding actors
  Required,        \* [Requests -> SUBSET ActorKinds], {} for anybody
  MaxVersions,     \* bound on the versions of a document, for model checking
  MaxRestores      \* likewise on the checkpoints restored by hand

Documents == Requests \cup {"graph"}

ASSUME ApprovalsAssumption ==
  /\ "graph" \notin Requests
  /\ Subject \in [Requests -> Items]
  /\ Required \in [Requests -> SUBSET ActorKinds]

VARIABLES
  versions,        \* versions[d]: the versions of a document, oldest first
  heads,           \* heads[d]: the revision of its head, 0 when there is none
  checkpoints,     \* the saved heads; the id of a checkpoint holds the approval's
  call,            \* call[p]: the operation a process is in
  opened,          \* opened[a]: how often applying a has cleared its gate (history)
  restores         \* how often restoreCheckpoint was called for itself

approvalVars == <<receipts, appending, damaged, versions, heads, checkpoints, call, opened, restores>>

documentVars == <<versions, heads, checkpoints, opened, restores>>

Current(d) == versions[d][heads[d]]

Present(d) == heads[d] # 0

Resting == [op |-> "none", step |-> "idle"]

At(p, step) == call[p].step = step

Goto(p, step) == call' = [call EXCEPT ![p].step = step]

EndCall(p) == call' = [call EXCEPT ![p] = Resting]

(* putDocument's transaction, and its refusal.                             *)
Writable(d) == heads[d] = Len(versions[d])

Put(d, document) ==
  /\ versions' = [versions EXCEPT ![d] = Append(@, document)]
  /\ heads' = [heads EXCEPT ![d] = @ + 1]

ApprovalsInit ==
  /\ AuditInit
  /\ versions = [d \in Documents |->
       IF d = "graph" THEN <<[revision |-> 1, gated |-> Items]>> ELSE <<>>]
  /\ heads = [d \in Documents |-> IF d = "graph" THEN 1 ELSE 0]
  /\ checkpoints = [c \in {} |-> heads]
  /\ call = [p \in Processes |-> Resting]
  /\ opened = [a \in Requests |-> 0]
  /\ restores = 0

-----------------------------------------------------------------------------
(* requestApproval: the id must be unused when it is looked up.            *)
RequestApproval(p, a) ==
  /\ At(p, "idle")
  /\ ~Present(a)
  /\ call' = [call EXCEPT ![p] = [op |-> "requested", step |-> "put", id |-> a,
                                  document |-> [state |-> "pending"]]]
  /\ UNCHANGED <<auditVars, documentVars>>

(* Mutant: the kind of the actor is not looked at.                         *)
AnyKind(a, kind) == kind \in ActorKinds

MayDecide(a, kind) == Required[a] # {} => kind \in Required[a]

(* decideApproval: pending when it is read.                                *)
DecideApproval(p, a, verdict, kind) ==
  /\ At(p, "idle")
  /\ Present(a) /\ Current(a).state = "pending"
  /\ MayDecide(a, kind)
  /\ call' = [call EXCEPT ![p] = [op |-> "decided", step |-> "put", id |-> a,
                                  document |-> [state |-> verdict, kind |-> kind]]]
  /\ UNCHANGED <<auditVars, documentVars>>

(* applyApproval: getApproval, then the graph with the protected node.     *)
ApplyApproval(p, a) ==
  /\ At(p, "idle")
  /\ Present(a) /\ Current(a).state = "approved"
  /\ call' = [call EXCEPT ![p] = [op |-> "consumed", step |-> "subject", id |-> a,
                document |-> [state |-> "consumed", kind |-> Current(a).kind]]]
  /\ UNCHANGED <<auditVars, documentVars>>

ProtectedWorkSubject(p) ==
  /\ At(p, "subject")
  /\ IF Subject[call[p].id] \in Current("graph").gated
     THEN call' = [call EXCEPT ![p] = [op |-> @.op, step |-> "checkpoint", id |-> @.id,
                                      document |-> @.document, graph |-> Current("graph")]]
     ELSE EndCall(p)
  /\ UNCHANGED <<auditVars, documentVars>>

(* Mutant: the checkpoint id is made from the time, as in other callers.   *)
FreshId(c) == TRUE

(* createCheckpoint looks the id up and saves under a primary key; either  *)
(* way a taken id ends the call, outside the try block.                    *)
UnusedId(c) == c \notin DOMAIN checkpoints

Save(c) == checkpoints' = [d \in DOMAIN checkpoints \cup {c} |->
                             IF d = c THEN heads ELSE checkpoints[d]]

CreateCheckpoint(p) ==
  /\ At(p, "checkpoint")
  /\ IF UnusedId(call[p].id)
     THEN Save(call[p].id) /\ Goto(p, "revision")
     ELSE UNCHANGED checkpoints /\ EndCall(p)
  /\ UNCHANGED <<auditVars, versions, heads, opened, restores>>

(* What a failed statement leads to: applyApproval restores its checkpoint. *)
Fail(p) == IF call[p].op = "consumed" THEN Goto(p, "restore") ELSE EndCall(p)

(* putWorkGraph: the contract revision must follow the head's ...          *)
AssertNextRevision(p) ==
  /\ At(p, "revision")
  /\ IF Current("graph").revision = call[p].graph.revision THEN Goto(p, "graph") ELSE Fail(p)
  /\ UNCHANGED <<auditVars, documentVars>>

(* ... and the document is written without looking again.                  *)
PutWorkGraph(p) ==
  LET a == call[p].id
      seen == call[p].graph IN
  /\ At(p, "graph")
  /\ heads["graph"] < MaxVersions
  /\ IF Writable("graph")
     THEN /\ Put("graph", [revision |-> seen.revision + 1, gated |-> seen.gated \ {Subject[a]}])
          /\ opened' = [opened EXCEPT ![a] = @ + 1]
          /\ Goto(p, "put")
     ELSE Fail(p) /\ UNCHANGED <<versions, heads, opened>>
  /\ UNCHANGED <<auditVars, checkpoints, restores>>

(* Mutant: the receipt is written although the document was refused.       *)
FailReports(p) == Goto(p, "receipt")

Refused(p) == Fail(p)

(* The approval document, with no expected head.                           *)
PutApproval(p) ==
  LET a == call[p].id IN
  /\ At(p, "put")
  /\ heads[a] < MaxVersions
  /\ IF Writable(a)
     THEN Put(a, call[p].document) /\ Goto(p, "receipt")
     ELSE Refused(p) /\ UNCHANGED <<versions, heads>>
  /\ UNCHANGED <<auditVars, checkpoints, opened, restores>>

StartReceipt(p, metadata) ==
  /\ At(p, "receipt")
  /\ SelectLast(p, <<call[p].op, call[p].id>>, metadata)
  /\ Goto(p, "appending")
  /\ UNCHANGED documentVars

FinishReceipt(p) ==
  /\ At(p, "appending")
  /\ \/ Insert(p) /\ EndCall(p)
     \/ InsertFails(p) /\ Fail(p)
  /\ UNCHANGED documentVars

Restore(c) == heads' = checkpoints[c] /\ UNCHANGED <<versions, checkpoints, opened>>

(* The catch block of applyApproval.                                       *)
UndoApply(p) ==
  /\ At(p, "restore")
  /\ Restore(call[p].id)
  /\ EndCall(p)
  /\ UNCHANGED <<auditVars, restores>>

CallDies(p) ==
  /\ ~At(p, "idle")
  /\ EndCall(p)
  /\ AppendDies(p) \/ (appending[p] = Idle /\ UNCHANGED auditVars)
  /\ UNCHANGED documentVars

-----------------------------------------------------------------------------
(* Another caller's putWorkGraph that keeps the gates, as supervision and  *)
(* planning make them; its own check and write are DocumentStore's subject. *)
EditGraph ==
  /\ heads["graph"] < MaxVersions
  /\ Writable("graph")
  /\ Put("graph", [Current("graph") EXCEPT !.revision = @ + 1])
  /\ UNCHANGED <<auditVars, checkpoints, call, opened, restores>>

(* restoreCheckpoint, called for itself, on what applyApproval saved.      *)
RestoreCheckpoint(c) ==
  /\ c \in DOMAIN checkpoints
  /\ restores < MaxRestores
  /\ restores' = restores + 1
  /\ Restore(c)
  /\ UNCHANGED <<auditVars, call>>

CallStep(p) ==
  \/ \E a \in Requests : RequestApproval(p, a) \/ ApplyApproval(p, a)
  \/ \E a \in Requests, verdict \in {"approved", "rejected"}, kind \in ActorKinds :
       DecideApproval(p, a, verdict, kind)
  \/ ProtectedWorkSubject(p) \/ CreateCheckpoint(p)
  \/ AssertNextRevision(p) \/ PutWorkGraph(p) \/ PutApproval(p)
  \/ \E metadata \in Metadata : StartReceipt(p, metadata)
  \/ FinishReceipt(p) \/ UndoApply(p) \/ CallDies(p)

ApprovalsNext ==
  \/ \E p \in Processes : CallStep(p)
  \/ EditGraph \/ \E c \in Requests : RestoreCheckpoint(c)

ApprovalsSpec == ApprovalsInit /\ [][ApprovalsNext]_approvalVars

-----------------------------------------------------------------------------
(* Properties                                                              *)

Document == [state : {"pending"}]
            \cup [state : {"approved", "rejected", "consumed"}, kind : ActorKinds]

ApprovalsTypeOK ==
  /\ versions \in [Documents -> Seq(Document \cup [revision : Nat, gated : SUBSET Items])]
  /\ heads \in [Documents -> Nat]
  /\ \A d \in Documents : heads[d] <= Len(versions[d])
  /\ \A c \in DOMAIN checkpoints : \A d \in Documents : checkpoints[c][d] <= Len(versions[d])

Granted(a) ==
  \E r \in DOMAIN versions[a] :
    /\ versions[a][r].state = "approved"
    /\ Required[a] # {} => versions[a][r].kind \in Required[a]

(* No version of the graph, current or restorable, has lost a gate that    *)
(* nobody entitled has approved to open.                                   *)
GateFallsByPermit ==
  \A r \in DOMAIN versions["graph"] : \A i \in Items \ versions["graph"][r].gated :
    \E a \in Requests : Subject[a] = i /\ Granted(a)

(* A receipt reports what was committed: what it says happened to an       *)
(* approval is a version of it, and an approval is reported consumed once. *)
ApprovalEvents == {"requested", "decided", "consumed"} \X Requests

ReceiptsTellTheTruth ==
  \A s \in {t \in DOMAIN receipts : receipts[t].event \in ApprovalEvents} :
    LET type == receipts[s].event[1]
        a == receipts[s].event[2]
        states == CASE type = "requested" -> {"pending"}
                    [] type = "decided" -> {"approved", "rejected"}
                    [] type = "consumed" -> {"consumed"} IN
    /\ \E r \in DOMAIN versions[a] : versions[a][r].state \in states
    /\ type = "consumed" =>
         \A t \in DOMAIN receipts \ {s} : receipts[t].event # receipts[s].event

(* An approval opens its gate once, after it was granted, through races,   *)
(* crashes and restores (docs/security-hardening.md:18).                   *)
OneShot == INSTANCE Permit WITH Permits <- Requests, uses <- opened,
                                granted <- {a \in Requests : Granted(a)}

OneUsePermit == OneShot!Spec
=============================================================================
