--------------------------- MODULE ApprovalsProofs ---------------------------
(***************************************************************************)
(* Proofs about Approvals and AuditChain, for any number of processes,     *)
(* approvals and gated nodes, and without the bounds mattering.            *)
(*                                                                         *)
(* A gate is opened by a write that is prepared over several statements;   *)
(* CallOK says what an unfinished call may rely on.  The id of the         *)
(* checkpoint, taken before the write and for good, is what makes a second *)
(* use impossible: OneOpens and Spent relate it to the counted openings.   *)
(* The same id makes a second report of a consumption impossible           *)
(* (ConsumedOnce).                                                         *)
(***************************************************************************)
EXTENDS Approvals, SequenceTheorems, TLAPS

GraphVersion == [revision : Nat, gated : SUBSET Items]

Operations == {"requested", "decided", "consumed"}

CallSteps ==
  {"put", "subject", "checkpoint", "revision", "graph", "receipt", "appending", "restore"}

PlainCall == [op : Operations, step : CallSteps, id : Requests, document : Document]

GraphCall ==
  [op : Operations, step : CallSteps, id : Requests, document : Document, graph : GraphVersion]

Calls == {Resting} \cup PlainCall \cup GraphCall

VersionsTyped ==
  /\ versions \in [Documents -> Seq(Document \cup GraphVersion)]
  /\ versions["graph"] \in Seq(GraphVersion)
  /\ \A a \in Requests : versions[a] \in Seq(Document)
  /\ call \in [Processes -> Calls]
  /\ opened \in [Requests -> Nat]
  /\ DOMAIN checkpoints \subseteq Requests

(* A vector of heads that can be the current one.                          *)
Headed(h) ==
  /\ h \in [Documents -> Nat]
  /\ \A d \in Documents : h[d] <= Len(versions[d])
  /\ h["graph"] # 0

Restorable == Headed(heads) /\ \A c \in DOMAIN checkpoints : Headed(checkpoints[c])

(* Nobody unentitled has approved.                                         *)
Entitled ==
  \A a \in Requests : \A r \in DOMAIN versions[a] :
    versions[a][r].state = "approved" => MayDecide(a, versions[a][r].kind)

Permitted(g) == \A i \in Items \ g.gated : \E a \in Requests : Subject[a] = i /\ Granted(a)

Applying(c) == c.step \in {"revision", "graph"}

(* What a call in progress has seen or made sure of.                       *)
CallOK(c) ==
  /\ c.step \in {"subject", "checkpoint", "revision", "graph", "restore"} => c.op = "consumed"
  /\ c.step \in {"checkpoint", "revision", "graph"} => c \in GraphCall /\ Permitted(c.graph)
  /\ c.op = "consumed" => Granted(c.id) /\ c.document.state = "consumed"
  /\ c.op = "requested" => c.document.state = "pending"
  /\ c.op = "decided" /\ c.document.state = "approved" => MayDecide(c.id, c.document.kind)
  /\ c.op = "consumed" /\ c.step \notin {"subject", "checkpoint"} => c.id \in DOMAIN checkpoints
  /\ Applying(c) => opened[c.id] = 0

CallsOK == \A p \in Processes : CallOK(call[p])

OneOpens ==
  \A p, q \in Processes :
    p # q /\ Applying(call[p]) /\ Applying(call[q]) => call[p].id # call[q].id

(* An approval that has opened its gate has used up its checkpoint id.     *)
Spent == \A a \in Requests : opened[a] # 0 => a \in DOMAIN checkpoints

ApprovalsIInv ==
  /\ VersionsTyped /\ Restorable /\ Entitled /\ CallsOK /\ OneOpens /\ Spent
  /\ GateFallsByPermit

USE ApprovalsAssumption DEF ApprovalsAssumption

-----------------------------------------------------------------------------
LEMMA ApprovalsInitIInv == ApprovalsInit => ApprovalsIInv
<1> SUFFICES ASSUME ApprovalsInit PROVE ApprovalsIInv
  OBVIOUS
<1>1. Resting.step = "idle" /\ Resting.op = "none"
  BY DEF Resting
<1>2. [revision |-> 1, gated |-> Items] \in GraphVersion
  BY DEF GraphVersion
<1>3. /\ versions["graph"] = <<[revision |-> 1, gated |-> Items]>> /\ heads["graph"] = 1
      /\ \A a \in Requests : versions[a] = <<>> /\ heads[a] = 0
  BY DEF ApprovalsInit, Documents
<1>v. DOMAIN versions = Documents /\ versions = [d \in DOMAIN versions |-> versions[d]]
  BY DEF ApprovalsInit
<1>4. VersionsTyped
  <2>0. ASSUME NEW S, NEW x \in S PROVE <<x>> \in Seq(S) /\ <<>> \in Seq(S)
    OBVIOUS
  <2>1. versions["graph"] \in Seq(GraphVersion) /\ \A a \in Requests : versions[a] \in Seq(Document)
    <3>1. versions["graph"] \in Seq(GraphVersion)
      BY <1>2, <1>3, <2>0
    <3>2. <<>> \in Seq(Document)
      OBVIOUS
    <3>3. QED
      BY <1>3, <3>1, <3>2
  <2>2. ASSUME NEW d \in Documents PROVE versions[d] \in Seq(Document \cup GraphVersion)
    <3>1. CASE d = "graph"
      <4>1. [revision |-> 1, gated |-> Items] \in Document \cup GraphVersion
        BY <1>2
      <4>2. <<[revision |-> 1, gated |-> Items]>> \in Seq(Document \cup GraphVersion)
        BY ONLY <4>1, <2>0
      <4>3. QED
        BY <1>3, <3>1, <4>2
    <3>2. CASE d \in Requests
      <4>1. <<>> \in Seq(Document \cup GraphVersion)
        OBVIOUS
      <4>2. QED
        BY <1>3, <3>2, <4>1
    <3>3. QED
      BY <3>1, <3>2 DEF Documents
  <2>3. versions \in [Documents -> Seq(Document \cup GraphVersion)]
    BY <1>v, <2>2
  <2>4. call \in [Processes -> Calls] /\ opened \in [Requests -> Nat] /\ DOMAIN checkpoints = {}
    BY DEF ApprovalsInit, Calls
  <2>5. QED
    BY <2>1, <2>3, <2>4 DEF VersionsTyped
<1>5. Restorable
  <2>1. Headed(heads)
    <3>1. heads \in [Documents -> Nat]
      BY DEF ApprovalsInit
    <3>2. \A d \in Documents : heads[d] <= Len(versions[d])
      BY <1>3 DEF Documents
    <3>3. QED
      BY <1>3, <3>1, <3>2 DEF Headed
  <2>2. DOMAIN checkpoints = {}
    BY DEF ApprovalsInit
  <2>3. QED
    BY <2>1, <2>2 DEF Restorable
<1>a. \A p \in Processes : call[p] = Resting
  BY DEF ApprovalsInit
<1>b. CallsOK
  BY <1>1, <1>a DEF CallsOK, CallOK, Applying
<1>c. Entitled
  BY <1>3 DEF Entitled
<1>6. Entitled /\ Spent /\ CallsOK /\ OneOpens
  BY <1>1, <1>a, <1>b, <1>c DEF ApprovalsInit, Spent, OneOpens, Applying
<1>7. GateFallsByPermit
  BY <1>3 DEF GateFallsByPermit
<1>8. QED
  BY <1>4, <1>5, <1>6, <1>7 DEF ApprovalsIInv

LEMMA AppendFacts ==
  ASSUME NEW S, NEW s \in Seq(S), NEW x \in S
  PROVE  /\ Append(s, x) \in Seq(S) /\ Len(Append(s, x)) = Len(s) + 1 /\ Len(s) \in Nat
         /\ DOMAIN s = 1..Len(s) /\ DOMAIN Append(s, x) = 1..Len(s) + 1
         /\ \A r \in 1..Len(s) : Append(s, x)[r] = s[r]
         /\ Append(s, x)[Len(s) + 1] = x
  OBVIOUS

(* The gates depend on the versions alone.                                 *)
LEMMA GatesStay ==
  ASSUME UNCHANGED versions, GateFallsByPermit
  PROVE  GateFallsByPermit'
<1>1. \A a \in Requests : Granted(a)' <=> Granted(a)
  BY DEF Granted
<1>2. QED
  BY <1>1 DEF GateFallsByPermit

(* A version is added and none goes: what was granted stays granted.       *)
LEMMA GrantsLast ==
  ASSUME VersionsTyped, NEW d \in Documents, NEW document,
         d = "graph" => document \in GraphVersion, d # "graph" => document \in Document,
         versions' = [versions EXCEPT ![d] = Append(@, document)]
  PROVE  /\ \A a \in Requests : Granted(a) => Granted(a)'
         /\ \A a \in Requests \ {d} : Granted(a)' => Granted(a)
         /\ \A g : Permitted(g) => Permitted(g)'
<1>1. ASSUME NEW e \in Documents PROVE /\ Len(versions[e]) <= Len(versions'[e])
                                       /\ \A r \in DOMAIN versions[e] :
                                            /\ r \in DOMAIN versions'[e]
                                            /\ versions'[e][r] = versions[e][r]
                                       /\ e # d => versions'[e] = versions[e]
  <2>1. versions[e] \in Seq(Document \cup GraphVersion) /\ document \in Document \cup GraphVersion
    BY DEF VersionsTyped
  <2>2. QED
    BY <2>1 DEF VersionsTyped
<1>2. \A a \in Requests : Granted(a) => Granted(a)'
  BY <1>1 DEF Granted, Documents
<1>3. \A a \in Requests \ {d} : Granted(a)' => Granted(a)
  BY <1>1 DEF Granted, Documents
<1>4. QED
  BY <1>2, <1>3 DEF Permitted

LEMMA GrantsStay ==
  ASSUME UNCHANGED versions
  PROVE  /\ \A a \in Requests : Granted(a)' <=> Granted(a)
         /\ \A g : Permitted(g) => Permitted(g)'
  BY DEF Granted, Permitted

-----------------------------------------------------------------------------
(* What a call in progress holds on to survives the steps of others.       *)
LEMMA CallStays ==
  ASSUME \A a \in Requests : Granted(a) => Granted(a)', \A g : Permitted(g) => Permitted(g)',
         DOMAIN checkpoints \subseteq DOMAIN checkpoints',
         NEW c \in Calls, CallOK(c), Applying(c) => opened'[c.id] = 0
  PROVE  CallOK(c)'
<1>1. c.op = "consumed" => c.id \in Requests
  BY DEF Calls, Resting, PlainCall, GraphCall
<1>2. QED
  BY <1>1 DEF CallOK, Applying

LEMMA CallShape ==
  ASSUME NEW c \in Calls, c.step # "idle"
  PROVE  /\ c.id \in Requests /\ c.document \in Document
         /\ c \in PlainCall \/ c \in GraphCall
  BY DEF Calls, Resting, PlainCall, GraphCall

(* A call goes on, and keeps what it is about.                             *)
LEMMA OnCall ==
  ASSUME NEW c \in Calls, c.step # "idle", NEW step \in CallSteps
  PROVE  /\ [c EXCEPT !.step = step] \in Calls /\ [c EXCEPT !.step = step].step = step
         /\ c \in GraphCall => /\ [c EXCEPT !.step = step] \in GraphCall
                               /\ [c EXCEPT !.step = step].graph = c.graph
         /\ [c EXCEPT !.step = step].op = c.op /\ [c EXCEPT !.step = step].id = c.id
         /\ [c EXCEPT !.step = step].document = c.document
<1>1. CASE c \in PlainCall
  BY <1>1 DEF Calls, PlainCall, GraphCall
<1>2. CASE c \in GraphCall
  BY <1>2 DEF Calls, PlainCall, GraphCall
<1>3. QED
  BY <1>1, <1>2, CallShape

(* Steps of one call that leave the documents alone.                       *)
LEMMA QuietCall ==
  ASSUME ApprovalsIInv, NEW p \in Processes, NEW next \in Calls,
         call' = [call EXCEPT ![p] = next], CallOK(next),
         Applying(next) => Applying(call[p]) /\ next.id = call[p].id,
         UNCHANGED <<versions, checkpoints, opened>>, Headed(heads')
  PROVE  ApprovalsIInv'
<1>t. VersionsTyped /\ Restorable /\ Entitled /\ CallsOK /\ OneOpens /\ Spent /\ GateFallsByPermit
  BY DEF ApprovalsIInv
<1>1. call'[p] = next /\ \A q \in Processes \ {p} : call'[q] = call[q]
  BY <1>t DEF VersionsTyped
<1>2. VersionsTyped'
  BY <1>t DEF VersionsTyped
<1>3. \A h : Headed(h) => Headed(h)'
  BY DEF Headed
<1>4. Restorable'
  BY <1>3, <1>t DEF Restorable
<1>5. Entitled' /\ Spent' /\ GateFallsByPermit'
  <2>1. Entitled' /\ Spent'
    BY <1>t DEF Entitled, Spent
  <2>2. GateFallsByPermit'
    BY <1>t, GatesStay
  <2>3. QED
    BY <2>1, <2>2
<1>6. ASSUME NEW q \in Processes PROVE CallOK(call[q])'
  <2>1. CallOK(call'[q]) /\ call'[q] \in Calls
    BY <1>1, <1>2, <1>t DEF CallsOK, VersionsTyped
  <2>2. QED
    BY <2>1 DEF CallOK, Applying, Permitted, Granted
<1>7. CallsOK'
  BY <1>6 DEF CallsOK
<1>8. OneOpens'
  BY <1>1, <1>t DEF OneOpens
<1>9. QED
  BY <1>2, <1>4, <1>5, <1>7, <1>8 DEF ApprovalsIInv

LEMMA RestingIsOK == Resting \in Calls /\ CallOK(Resting) /\ ~Applying(Resting)
  BY DEF Calls, Resting, CallOK, Applying

(* A call that ends leaves nothing to rely on.                             *)
LEMMA CallEnds ==
  ASSUME ApprovalsIInv, NEW p \in Processes, EndCall(p),
         UNCHANGED <<versions, checkpoints, opened>>, Headed(heads')
  PROVE  ApprovalsIInv'
  BY QuietCall, RestingIsOK DEF EndCall

(* A document is written by a call that goes on, or by nobody's call.      *)
LEMMA DocumentWritten ==
  ASSUME ApprovalsIInv, NEW d \in Documents, NEW document, Put(d, document),
         d = "graph" => document \in GraphVersion /\ Permitted(document),
         d # "graph" => /\ document \in Document
                        /\ document.state = "approved" => MayDecide(d, document.kind),
         UNCHANGED checkpoints,
         call' \in [Processes -> Calls], opened' \in [Requests -> Nat],
         \A a \in Requests : opened'[a] # 0 => a \in DOMAIN checkpoints,
         \A q \in Processes : CallOK(call[q])',
         \A q \in Processes :
            Applying(call'[q]) => Applying(call[q]) /\ call'[q].id = call[q].id,
         Writable(d)
  PROVE  ApprovalsIInv'
<1>t. VersionsTyped /\ Restorable /\ Entitled /\ CallsOK /\ OneOpens /\ Spent /\ GateFallsByPermit
  BY DEF ApprovalsIInv
<1>1. /\ versions' = [versions EXCEPT ![d] = Append(@, document)]
      /\ heads' = [heads EXCEPT ![d] = @ + 1] /\ heads[d] = Len(versions[d])
  BY DEF Put, Writable
<1>d. document \in Document \cup GraphVersion
  BY DEF Documents
<1>2. /\ versions[d] \in Seq(Document \cup GraphVersion)
      /\ versions'[d] = Append(versions[d], document)
      /\ \A e \in Documents \ {d} : versions'[e] = versions[e]
  BY <1>1, <1>t DEF VersionsTyped
<1>l. /\ Len(versions[d]) \in Nat /\ DOMAIN versions[d] = 1..Len(versions[d])
      /\ Len(versions'[d]) = Len(versions[d]) + 1
      /\ DOMAIN versions'[d] = 1..Len(versions[d]) + 1
      /\ \A r \in 1..Len(versions[d]) : versions'[d][r] = versions[d][r]
      /\ versions'[d][Len(versions[d]) + 1] = document
      /\ versions'[d] \in Seq(Document \cup GraphVersion)
  BY <1>2, <1>d, AppendFacts
<1>3. VersionsTyped'
  <2>2. versions' \in [Documents -> Seq(Document \cup GraphVersion)]
    BY <1>1, <1>l, <1>t DEF VersionsTyped
  <2>3. versions'["graph"] \in Seq(GraphVersion)
    <3>1. CASE d = "graph"
      BY <3>1, <1>2, <1>t, AppendFacts DEF VersionsTyped
    <3>2. CASE d # "graph"
      BY <3>2, <1>2, <1>t DEF VersionsTyped, Documents
    <3>3. QED
      BY <3>1, <3>2
  <2>4. ASSUME NEW a \in Requests PROVE versions'[a] \in Seq(Document)
    <3>1. CASE d = a
      BY <3>1, <1>2, <1>t, AppendFacts DEF VersionsTyped
    <3>2. CASE d # a
      BY <3>2, <1>2, <1>t DEF VersionsTyped, Documents
    <3>3. QED
      BY <3>1, <3>2
  <2>5. QED
    BY <2>2, <2>3, <2>4, <1>t DEF VersionsTyped
<1>4. Restorable'
  <2>1. ASSUME NEW e \in Documents
        PROVE  /\ Len(versions[e]) \in Nat /\ Len(versions'[e]) \in Nat
               /\ Len(versions[e]) <= Len(versions'[e])
    <3>1. versions[e] \in Seq(Document \cup GraphVersion)
      BY <1>t DEF VersionsTyped
    <3>2. Len(versions[e]) \in Nat
      BY <3>1
    <3>3. CASE e = d
      BY <3>2, <3>3, <1>l
    <3>4. CASE e # d
      BY <3>2, <3>4, <1>2
    <3>5. QED
      BY <3>3, <3>4
  <2>2. ASSUME NEW h, Headed(h) PROVE Headed(h)'
    <3>1. h \in [Documents -> Nat] /\ h["graph"] # 0
      BY <2>2 DEF Headed
    <3>2. ASSUME NEW e \in Documents PROVE h[e] <= Len(versions'[e])
      <4>1. h[e] <= Len(versions[e]) /\ h[e] \in Nat
        BY <2>2 DEF Headed
      <4>2. QED
        BY <4>1, <2>1
    <3>3. QED
      BY <3>1, <3>2 DEF Headed
  <2>3. Headed(heads)'
    BY <1>1, <1>l, <2>1, <1>t DEF Headed, Restorable
  <2>4. ASSUME NEW c \in DOMAIN checkpoints' PROVE Headed(checkpoints[c])'
    BY <2>2, <1>t DEF Restorable
  <2>5. QED
    BY <2>3, <2>4 DEF Restorable
<1>5. Entitled'
  <2> SUFFICES ASSUME NEW a \in Requests, NEW r \in DOMAIN versions'[a],
                      versions'[a][r].state = "approved"
               PROVE  MayDecide(a, versions'[a][r].kind)
    BY DEF Entitled, MayDecide
  <2>1. CASE a # d
    BY <2>1, <1>2, <1>t DEF Entitled, Documents
  <2>2. CASE a = d /\ r \in 1..Len(versions[d])
    BY <2>2, <1>l, <1>t DEF Entitled
  <2>3. CASE a = d /\ r = Len(versions[d]) + 1
    BY <2>3, <1>l
  <2>4. QED
    BY <2>1, <2>2, <2>3, <1>l
<1>6. GateFallsByPermit'
  <2>1. \A r \in DOMAIN versions["graph"] : Permitted(versions["graph"][r])
    BY <1>t DEF GateFallsByPermit, Permitted
  <2>2. ASSUME NEW r \in DOMAIN versions'["graph"]
        PROVE  Permitted(versions'["graph"][r])
    <3>1. CASE d # "graph"
      BY <3>1, <2>1, <1>2 DEF Documents
    <3>2. CASE d = "graph" /\ r \in 1..Len(versions[d])
      BY <3>2, <2>1, <1>l
    <3>3. CASE d = "graph" /\ r = Len(versions[d]) + 1
      BY <3>3, <1>l
    <3>4. QED
      BY <3>1, <3>2, <3>3, <1>l
  <2>3. \A g : Permitted(g) => Permitted(g)'
    BY <1>1, <1>t, GrantsLast
  <2>4. \A r \in DOMAIN versions'["graph"] : Permitted(versions["graph"][r])'
    BY <2>2, <2>3
  <2>5. QED
    BY <2>4 DEF GateFallsByPermit, Permitted
<1>7. OneOpens' /\ Spent' /\ CallsOK'
  BY <1>t DEF OneOpens, Spent, CallsOK
<1>8. QED
  BY <1>3, <1>4, <1>5, <1>6, <1>7 DEF ApprovalsIInv

LEMMA HeadsAreVersions ==
  ASSUME ApprovalsIInv, NEW d \in Documents, heads[d] # 0
  PROVE  /\ heads[d] \in DOMAIN versions[d] /\ Current(d) = versions[d][heads[d]]
         /\ versions[d] \in Seq(Document \cup GraphVersion)
<1>1. versions[d] \in Seq(Document \cup GraphVersion) /\ heads[d] \in Nat
      /\ heads[d] <= Len(versions[d])
  BY DEF ApprovalsIInv, VersionsTyped, Restorable, Headed
<1>2. QED
  BY <1>1 DEF Current

(* The current graph has lost gates by permission only.                    *)
LEMMA CurrentGraph ==
  ASSUME ApprovalsIInv
  PROVE  Current("graph") \in GraphVersion /\ Permitted(Current("graph"))
<1>1. heads["graph"] \in DOMAIN versions["graph"] /\ Current("graph") = versions["graph"][heads["graph"]]
  BY HeadsAreVersions DEF ApprovalsIInv, Restorable, Headed, Documents
<1>2. versions["graph"] \in Seq(GraphVersion)
  BY DEF ApprovalsIInv, VersionsTyped
<1>3. QED
  BY <1>1, <1>2 DEF ApprovalsIInv, GateFallsByPermit, Permitted

(* A refused statement: back to the checkpoint, or out of the call.        *)
LEMMA FailKeeps ==
  ASSUME ApprovalsIInv, NEW p \in Processes, call[p].step \notin {"idle", "subject", "checkpoint"},
         Fail(p), UNCHANGED <<versions, heads, checkpoints, opened>>
  PROVE  ApprovalsIInv'
<1>t. call \in [Processes -> Calls] /\ CallOK(call[p]) /\ Headed(heads) /\ Headed(heads')
  BY DEF ApprovalsIInv, VersionsTyped, CallsOK, Restorable
<1>1. CASE call[p].op = "consumed"
  <2> DEFINE next == [call[p] EXCEPT !.step = "restore"]
  <2>1. call' = [call EXCEPT ![p] = next]
    BY <1>1, <1>t DEF Fail, Goto
  <2>2. /\ next \in Calls /\ next.step = "restore" /\ next.op = call[p].op
        /\ next.id = call[p].id /\ next.document = call[p].document
    BY <1>t, OnCall DEF CallSteps
  <2> HIDE DEF next
  <2>3. CallOK(next) /\ ~Applying(next)
    BY <1>1, <1>t, <2>2 DEF CallOK, Applying
  <2>4. QED
    BY <1>t, <2>1, <2>2, <2>3, QuietCall
<1>2. CASE call[p].op # "consumed"
  BY <1>2, <1>t, CallEnds DEF Fail
<1>3. QED
  BY <1>1, <1>2

LEMMA RequestKeeps ==
  ASSUME ApprovalsIInv, NEW p \in Processes, NEW a \in Requests, RequestApproval(p, a)
  PROVE  ApprovalsIInv'
<1> DEFINE next == [op |-> "requested", step |-> "put", id |-> a,
                    document |-> [state |-> "pending"]]
<1>1. call' = [call EXCEPT ![p] = next] /\ UNCHANGED <<versions, heads, checkpoints, opened>>
  BY DEF RequestApproval, documentVars
<1>2. next \in Calls /\ next.op = "requested" /\ next.step = "put" /\ next.document.state = "pending"
  BY DEF Calls, PlainCall, Operations, CallSteps, Document
<1> HIDE DEF next
<1>3. CallOK(next) /\ ~Applying(next) /\ Headed(heads')
  BY <1>1, <1>2 DEF CallOK, Applying, ApprovalsIInv, Restorable
<1>4. QED
  BY <1>1, <1>2, <1>3, QuietCall

LEMMA DecideKeeps ==
  ASSUME ApprovalsIInv, NEW p \in Processes, NEW a \in Requests,
         NEW verdict \in {"approved", "rejected"}, NEW kind \in ActorKinds,
         DecideApproval(p, a, verdict, kind)
  PROVE  ApprovalsIInv'
<1> DEFINE next == [op |-> "decided", step |-> "put", id |-> a,
                    document |-> [state |-> verdict, kind |-> kind]]
<1>1. /\ call' = [call EXCEPT ![p] = next] /\ MayDecide(a, kind)
      /\ UNCHANGED <<versions, heads, checkpoints, opened>>
  BY DEF DecideApproval, documentVars
<1>2. /\ next \in Calls /\ next.op = "decided" /\ next.step = "put" /\ next.id = a
      /\ next.document.kind = kind
  BY DEF Calls, PlainCall, Operations, CallSteps, Document
<1> HIDE DEF next
<1>3. CallOK(next) /\ ~Applying(next) /\ Headed(heads')
  BY <1>1, <1>2 DEF CallOK, Applying, ApprovalsIInv, Restorable
<1>4. QED
  BY <1>1, <1>2, <1>3, QuietCall

LEMMA ApplyKeeps ==
  ASSUME ApprovalsIInv, NEW p \in Processes, NEW a \in Requests, ApplyApproval(p, a)
  PROVE  ApprovalsIInv'
<1> DEFINE next == [op |-> "consumed", step |-> "subject", id |-> a,
                    document |-> [state |-> "consumed", kind |-> Current(a).kind]]
<1>1. /\ call' = [call EXCEPT ![p] = next] /\ heads[a] # 0 /\ Current(a).state = "approved"
      /\ UNCHANGED <<versions, heads, checkpoints, opened>>
  BY DEF ApplyApproval, documentVars, Present
<1>2. heads[a] \in DOMAIN versions[a] /\ Current(a) = versions[a][heads[a]]
      /\ versions[a] \in Seq(Document)
  BY <1>1, HeadsAreVersions DEF Documents, ApprovalsIInv, VersionsTyped
<1>3. MayDecide(a, Current(a).kind)
  BY <1>1, <1>2 DEF ApprovalsIInv, Entitled
<1>4. Granted(a)
  BY <1>1, <1>2, <1>3 DEF Granted, MayDecide
<1>5. Current(a) \in Document
  BY <1>2
<1>6. Current(a).kind \in ActorKinds
  BY <1>1, <1>5 DEF Document
<1>7. /\ next \in Calls /\ next.op = "consumed" /\ next.step = "subject" /\ next.id = a
      /\ next.document.state = "consumed"
  BY <1>6 DEF Calls, PlainCall, Operations, CallSteps, Document
<1> HIDE DEF next
<1>8. CallOK(next) /\ ~Applying(next) /\ Headed(heads')
  BY <1>1, <1>4, <1>7 DEF CallOK, Applying, ApprovalsIInv, Restorable
<1>9. QED
  BY <1>1, <1>7, <1>8, QuietCall

LEMMA SubjectKeeps ==
  ASSUME ApprovalsIInv, NEW p \in Processes, ProtectedWorkSubject(p)
  PROVE  ApprovalsIInv'
<1>1. /\ call[p].step = "subject" /\ UNCHANGED <<versions, heads, checkpoints, opened>>
      /\ Headed(heads')
  BY DEF ProtectedWorkSubject, At, documentVars, ApprovalsIInv, Restorable
<1>t. call \in [Processes -> Calls] /\ CallOK(call[p])
  BY DEF ApprovalsIInv, VersionsTyped, CallsOK
<1>2. CASE Subject[call[p].id] \in Current("graph").gated
  <2> DEFINE next == [op |-> call[p].op, step |-> "checkpoint", id |-> call[p].id,
                      document |-> call[p].document, graph |-> Current("graph")]
  <2>1. call' = [call EXCEPT ![p] = next]
    BY <1>2, <1>t DEF ProtectedWorkSubject
  <2>2. call[p].op = "consumed" /\ call[p].id \in Requests /\ call[p].document \in Document
    BY <1>1, <1>t, CallShape DEF CallOK
  <2>3. /\ next \in GraphCall /\ next.op = call[p].op /\ next.step = "checkpoint"
        /\ next.id = call[p].id /\ next.document = call[p].document
        /\ next.graph = Current("graph")
    BY <2>2, CurrentGraph DEF GraphCall, Operations, CallSteps
  <2> HIDE DEF next
  <2>4. next \in Calls /\ CallOK(next) /\ ~Applying(next)
    BY <2>2, <2>3, <1>t, CurrentGraph DEF CallOK, Applying, Calls
  <2>5. QED
    BY <1>1, <2>1, <2>4, QuietCall
<1>3. CASE ~(Subject[call[p].id] \in Current("graph").gated)
  BY <1>1, <1>3, CallEnds DEF ProtectedWorkSubject
<1>4. QED
  BY <1>2, <1>3

(* The id of the checkpoint is free: nobody has opened this gate, and      *)
(* nobody is about to.                                                     *)
LEMMA CheckpointKeeps ==
  ASSUME ApprovalsIInv, NEW p \in Processes, CreateCheckpoint(p)
  PROVE  ApprovalsIInv'
<1>t. VersionsTyped /\ Restorable /\ Entitled /\ CallsOK /\ OneOpens /\ Spent /\ GateFallsByPermit
  BY DEF ApprovalsIInv
<1>1. call[p].step = "checkpoint" /\ UNCHANGED <<versions, heads, opened>>
  BY DEF CreateCheckpoint, At
<1>2. call[p] \in Calls /\ CallOK(call[p]) /\ call[p].id \in Requests
  BY <1>1, <1>t, CallShape DEF VersionsTyped, CallsOK
<1>3. CASE UnusedId(call[p].id)
  <2>1. PICK a \in Requests, next \in Calls :
          /\ a = call[p].id /\ call' = [call EXCEPT ![p] = next]
          /\ next.step = "revision" /\ next.op = call[p].op /\ next.id = a
          /\ next.document = call[p].document
          /\ call[p] \in GraphCall => next \in GraphCall /\ next.graph = call[p].graph
    <3>1. call' = [call EXCEPT ![p] = [call[p] EXCEPT !.step = "revision"]]
      BY <1>3, <1>t DEF CreateCheckpoint, Goto, VersionsTyped
    <3> DEFINE on == [call[p] EXCEPT !.step = "revision"]
    <3>2. /\ on \in Calls /\ on.step = "revision" /\ on.op = call[p].op /\ on.id = call[p].id
          /\ on.document = call[p].document
          /\ call[p] \in GraphCall => on \in GraphCall /\ on.graph = call[p].graph
      BY <1>1, <1>2, OnCall DEF CallSteps
    <3> HIDE DEF on
    <3>3. call' = [call EXCEPT ![p] = on]
      BY <3>1 DEF on
    <3>4. QED
      BY <3>2, <3>3, <1>2
  <2>2. next.id = a /\ next.step = "revision" /\ next \in Calls
    BY <2>1
  <2>3. /\ a \notin DOMAIN checkpoints
        /\ checkpoints' = [d \in DOMAIN checkpoints \cup {a} |->
                             IF d = a THEN heads ELSE checkpoints[d]]
    BY <2>1, <1>3 DEF CreateCheckpoint, UnusedId, Save
  <2>4. call'[p] = next /\ \A q \in Processes \ {p} : call'[q] = call[q]
    BY <2>1, <1>t DEF VersionsTyped
  <2>5. VersionsTyped'
    BY <2>1, <2>3, <1>1, <1>t DEF VersionsTyped
  <2>6. \A h : Headed(h) => Headed(h)'
    BY <1>1 DEF Headed
  <2>7. Restorable'
    BY <2>3, <2>6, <1>1, <1>t DEF Restorable
  <2>8. opened[a] = 0
    BY <2>3, <1>2, <1>t DEF Spent
  <2>9. CallOK(call[p])'
    <3>1. next.op = "consumed" /\ next \in GraphCall /\ Permitted(next.graph) /\ Granted(a)
          /\ next.document.state = "consumed"
      BY <1>1, <1>2, <2>1 DEF CallOK
    <3>2. Permitted(next.graph)' /\ Granted(a)'
      BY <3>1, <1>1, GrantsStay
    <3>3. CallOK(next)'
      BY <3>1, <3>2, <2>1, <2>3, <2>8, <1>1 DEF CallOK, Applying
    <3>4. QED
      BY <3>3, <2>4 DEF CallOK, Applying
  <2>10. ASSUME NEW q \in Processes, q # p
         PROVE  CallOK(call[q])' /\ (Applying(call[q]) => call[q].id # a)
    <3>1. CallOK(call[q]) /\ call'[q] = call[q]
      BY <2>4, <2>10, <1>t DEF CallsOK
    <3>2. Applying(call[q]) => call[q].id # a
      BY <3>1, <2>3 DEF CallOK, Applying
    <3>3. CallOK(call[q])'
      <4>1. PICK c \in Calls : c = call[q]
        BY <1>t DEF VersionsTyped
      <4>2. CallOK(c)'
        BY <4>1, <3>1, <2>3, <1>1, CallStays, GrantsStay DEF CallOK
      <4>3. QED
        BY <4>1, <4>2, <3>1 DEF CallOK, Applying
    <3>4. QED
      BY <3>2, <3>3
  <2>11. CallsOK'
    BY <2>9, <2>10 DEF CallsOK
  <2>12. OneOpens'
    BY <2>2, <2>4, <2>10, <1>t DEF OneOpens
  <2>13. Entitled' /\ GateFallsByPermit'
    <3>1. UNCHANGED versions
      BY <1>1
    <3>2. Entitled'
      BY <3>1, <1>t DEF Entitled
    <3>3. GateFallsByPermit'
      BY <3>1, <1>t, GatesStay
    <3>4. QED
      BY <3>2, <3>3
  <2>14. Spent'
    BY <2>3, <1>1, <1>t DEF Spent
  <2>15. QED
    BY <2>5, <2>7, <2>11, <2>12, <2>13, <2>14 DEF ApprovalsIInv
<1>4. CASE ~UnusedId(call[p].id)
  BY <1>1, <1>4, <1>t, CallEnds DEF CreateCheckpoint, Restorable
<1>5. QED
  BY <1>3, <1>4

(* What a step of one call does to what the other calls hold on to.        *)
LEMMA OtherCallStays ==
  ASSUME VersionsTyped, CallsOK, NEW q \in Processes, call'[q] = call[q],
         \A a \in Requests : Granted(a) => Granted(a)', \A g : Permitted(g) => Permitted(g)',
         DOMAIN checkpoints \subseteq DOMAIN checkpoints',
         Applying(call[q]) => opened'[call[q].id] = 0
  PROVE  CallOK(call[q])'
<1>1. PICK c \in Calls : c = call[q] /\ CallOK(c)
  BY DEF VersionsTyped, CallsOK
<1>2. CallOK(c)'
  BY <1>1, CallStays
<1>3. QED
  BY <1>1, <1>2 DEF CallOK, Applying

LEMMA RevisionKeeps ==
  ASSUME ApprovalsIInv, NEW p \in Processes, AssertNextRevision(p)
  PROVE  ApprovalsIInv'
<1>1. call[p].step = "revision" /\ UNCHANGED <<versions, heads, checkpoints, opened>>
  BY DEF AssertNextRevision, At, documentVars
<1>t. call \in [Processes -> Calls] /\ CallOK(call[p]) /\ Headed(heads')
  BY <1>1 DEF ApprovalsIInv, VersionsTyped, CallsOK, Restorable
<1>2. CASE Goto(p, "graph")
  <2> DEFINE next == [call[p] EXCEPT !.step = "graph"]
  <2>1. call' = [call EXCEPT ![p] = next]
    BY <1>2, <1>t DEF Goto
  <2>2. /\ next \in Calls /\ next.step = "graph" /\ next.op = call[p].op
        /\ next.id = call[p].id /\ next.document = call[p].document
        /\ call[p] \in GraphCall => next \in GraphCall /\ next.graph = call[p].graph
    <3>1. call[p] \in Calls /\ call[p].step # "idle" /\ "graph" \in CallSteps
      BY <1>1, <1>t DEF CallSteps
    <3>2. QED
      BY <3>1, OnCall
  <2> HIDE DEF next
  <2>3. CallOK(next)
    BY <1>1, <1>t, <2>2 DEF CallOK, Applying
  <2>4. QED
    BY <1>1, <1>t, <2>1, <2>2, <2>3, QuietCall DEF Applying
<1>3. CASE Fail(p)
  BY <1>1, <1>3, FailKeeps
<1>4. QED
  BY <1>2, <1>3 DEF AssertNextRevision

(* The write that opens the gate.                                          *)
LEMMA GraphKeeps ==
  ASSUME ApprovalsIInv, NEW p \in Processes, PutWorkGraph(p)
  PROVE  ApprovalsIInv'
<1>t. VersionsTyped /\ Restorable /\ Entitled /\ CallsOK /\ OneOpens /\ Spent /\ GateFallsByPermit
  BY DEF ApprovalsIInv
<1>1. call[p].step = "graph" /\ UNCHANGED checkpoints
  BY DEF PutWorkGraph, At
<1>2. /\ call[p] \in Calls /\ CallOK(call[p]) /\ call[p].id \in Requests
      /\ call[p].op = "consumed" /\ call[p] \in GraphCall /\ Permitted(call[p].graph)
      /\ Granted(call[p].id) /\ opened[call[p].id] = 0 /\ call[p].id \in DOMAIN checkpoints
      /\ call[p].document.state = "consumed"
  BY <1>1, <1>t, CallShape DEF VersionsTyped, CallsOK, CallOK, Applying
<1>3. CASE Writable("graph")
  <2>1. PICK a \in Requests, next \in Calls, document \in GraphVersion :
          /\ a = call[p].id /\ call' = [call EXCEPT ![p] = next]
          /\ next.step = "put" /\ next.op = "consumed" /\ next.id = a
          /\ next.document.state = "consumed"
          /\ document = [revision |-> call[p].graph.revision + 1,
                         gated |-> call[p].graph.gated \ {Subject[a]}]
          /\ Put("graph", document) /\ opened' = [opened EXCEPT ![a] = @ + 1]
    <3> DEFINE on == [call[p] EXCEPT !.step = "put"]
    <3>1. call' = [call EXCEPT ![p] = on]
      BY <1>3, <1>t DEF PutWorkGraph, Goto, VersionsTyped
    <3>2. /\ on \in Calls /\ on.step = "put" /\ on.op = call[p].op /\ on.id = call[p].id
          /\ on.document = call[p].document
      BY <1>1, <1>2, OnCall DEF CallSteps
    <3> HIDE DEF on
    <3>3. [revision |-> call[p].graph.revision + 1,
           gated |-> call[p].graph.gated \ {Subject[call[p].id]}] \in GraphVersion
      BY <1>2 DEF GraphCall, GraphVersion
    <3>4. QED
      BY <1>2, <1>3, <3>1, <3>2, <3>3 DEF PutWorkGraph
  <2>2. document \in GraphVersion /\ Permitted(document)
    <3>1. call[p].graph \in GraphVersion
      BY <1>2 DEF GraphCall
    <3>2. document \in GraphVersion /\ document.gated = call[p].graph.gated \ {Subject[a]}
      BY <2>1, <3>1 DEF GraphVersion
    <3>3. QED
      BY <3>2, <1>2, <2>1 DEF Permitted
  <2>3. call'[p] = next /\ \A q \in Processes \ {p} : call'[q] = call[q]
    BY <2>1, <1>t DEF VersionsTyped
  <2>4. call' \in [Processes -> Calls] /\ opened' \in [Requests -> Nat]
    BY <2>1, <1>t DEF VersionsTyped
  <2>5. \A b \in Requests : opened'[b] # 0 => b \in DOMAIN checkpoints
    BY <2>1, <1>2, <1>t DEF VersionsTyped, Spent
  <2>6. versions' = [versions EXCEPT !["graph"] = Append(@, document)]
    BY <2>1 DEF Put
  <2>7. /\ \A b \in Requests : Granted(b) => Granted(b)'
        /\ \A g : Permitted(g) => Permitted(g)'
    BY <2>2, <2>6, <1>t, GrantsLast DEF Documents
  <2>8. ASSUME NEW q \in Processes PROVE CallOK(call[q])'
    <3>1. CASE q = p
      <4>1. Granted(a)'
        BY <2>7, <2>1, <1>2
      <4>2. CallOK(next)'
        BY <2>1, <4>1, <1>1, <1>2 DEF CallOK, Applying
      <4>3. QED
        BY <3>1, <2>3, <4>2 DEF CallOK, Applying
    <3>2. CASE q # p
      <4>1. Applying(call[q]) => call[q].id # a /\ opened[call[q].id] = 0 /\ call[q].id \in Requests
        <5>1. call[q] \in Calls /\ CallOK(call[q])
          BY <1>t DEF VersionsTyped, CallsOK
        <5>2. Applying(call[q]) => call[q].id \in Requests
          BY <5>1, CallShape DEF Applying
        <5>3. Applying(call[p])
          BY <1>1 DEF Applying
        <5>4. QED
          BY <3>2, <5>1, <5>2, <5>3, <2>1, <1>t DEF OneOpens, CallOK
      <4>2. Applying(call[q]) => opened'[call[q].id] = 0
        BY <4>1, <2>1, <1>t DEF VersionsTyped
      <4>3. QED
        BY <3>2, <4>2, <2>3, <2>7, <1>1, <1>t, OtherCallStays
    <3>3. QED
      BY <3>1, <3>2
  <2>9. \A q \in Processes :
          Applying(call'[q]) => Applying(call[q]) /\ call'[q].id = call[q].id
    BY <2>1, <2>3 DEF Applying
  <2>10. QED
    BY <1>1, <1>3, <2>1, <2>2, <2>4, <2>5, <2>8, <2>9, DocumentWritten DEF Documents
<1>4. CASE ~Writable("graph")
  <2>1. Fail(p) /\ UNCHANGED <<versions, heads, opened>>
    BY <1>4 DEF PutWorkGraph
  <2>2. QED
    BY <1>1, <2>1, FailKeeps
<1>5. QED
  BY <1>3, <1>4

LEMMA ApprovalKeeps ==
  ASSUME ApprovalsIInv, NEW p \in Processes, PutApproval(p)
  PROVE  ApprovalsIInv'
<1>t. VersionsTyped /\ Restorable /\ Entitled /\ CallsOK /\ OneOpens /\ Spent /\ GateFallsByPermit
  BY DEF ApprovalsIInv
<1>1. call[p].step = "put" /\ UNCHANGED <<checkpoints, opened>>
  BY DEF PutApproval, At
<1>2. /\ call[p] \in Calls /\ CallOK(call[p]) /\ call[p].id \in Requests
      /\ call[p].document \in Document /\ call[p].op \in Operations
  BY <1>1, <1>t, CallShape DEF VersionsTyped, CallsOK, PlainCall, GraphCall
<1>3. CASE Writable(call[p].id)
  <2>1. PICK a \in Requests, next \in Calls, document \in Document :
          /\ a = call[p].id /\ call' = [call EXCEPT ![p] = next]
          /\ next.step = "receipt" /\ next.op = call[p].op /\ next.id = a
          /\ next.document = document /\ document = call[p].document
          /\ Put(a, document)
    <3> DEFINE on == [call[p] EXCEPT !.step = "receipt"]
    <3>1. call' = [call EXCEPT ![p] = on]
      BY <1>3, <1>t DEF PutApproval, Goto, VersionsTyped
    <3>2. /\ on \in Calls /\ on.step = "receipt" /\ on.op = call[p].op /\ on.id = call[p].id
          /\ on.document = call[p].document
      BY <1>1, <1>2, OnCall DEF CallSteps
    <3> HIDE DEF on
    <3>3. QED
      BY <1>2, <1>3, <3>1, <3>2 DEF PutApproval
  <2>2. document.state = "approved" => MayDecide(a, document.kind)
    BY <2>1, <1>2 DEF CallOK, Operations
  <2>3. call'[p] = next /\ \A q \in Processes \ {p} : call'[q] = call[q]
    BY <2>1, <1>t DEF VersionsTyped
  <2>4. call' \in [Processes -> Calls] /\ opened' \in [Requests -> Nat]
    BY <2>1, <1>1, <1>t DEF VersionsTyped
  <2>6. versions' = [versions EXCEPT ![a] = Append(@, document)]
    BY <2>1 DEF Put
  <2>a. a \in Documents /\ a # "graph"
    BY DEF Documents
  <2>7. /\ \A b \in Requests : Granted(b) => Granted(b)'
        /\ \A g : Permitted(g) => Permitted(g)'
    BY <2>1, <2>a, <2>6, <1>t, GrantsLast
  <2>8. ASSUME NEW q \in Processes PROVE CallOK(call[q])'
    <3>1. CASE q = p
      <4>1. next.op = "consumed" => Granted(a)'
        BY <2>7, <2>1, <1>2 DEF CallOK
      <4>2. CallOK(next)'
        BY <2>1, <4>1, <1>1, <1>2 DEF CallOK, Applying, MayDecide
      <4>3. QED
        BY <3>1, <2>3, <4>2 DEF CallOK, Applying, MayDecide
    <3>2. CASE q # p
      BY <3>2, <2>3, <2>7, <1>1, <1>t, OtherCallStays DEF CallsOK, CallOK
    <3>3. QED
      BY <3>1, <3>2
  <2>9. \A q \in Processes :
          Applying(call'[q]) => Applying(call[q]) /\ call'[q].id = call[q].id
    BY <2>1, <2>3 DEF Applying
  <2>10. \A b \in Requests : opened'[b] # 0 => b \in DOMAIN checkpoints
    BY <1>1, <1>t DEF Spent
  <2>11. QED
    BY <1>1, <1>3, <2>1, <2>a, <2>2, <2>4, <2>8, <2>9, <2>10, DocumentWritten
<1>4. CASE ~Writable(call[p].id)
  <2>1. Fail(p) /\ UNCHANGED <<versions, heads>>
    BY <1>4 DEF PutApproval, Refused
  <2>2. QED
    BY <1>1, <2>1, FailKeeps
<1>5. QED
  BY <1>3, <1>4

LEMMA EditKeeps == ASSUME ApprovalsIInv, EditGraph PROVE ApprovalsIInv'
<1>t. VersionsTyped /\ Restorable /\ Entitled /\ CallsOK /\ OneOpens /\ Spent /\ GateFallsByPermit
  BY DEF ApprovalsIInv
<1>1. PICK document :
        /\ document = [Current("graph") EXCEPT !.revision = @ + 1]
        /\ Put("graph", document) /\ Writable("graph") /\ UNCHANGED <<checkpoints, call, opened>>
  BY DEF EditGraph
<1>2. document \in GraphVersion /\ document.gated = Current("graph").gated
  BY <1>1, CurrentGraph DEF GraphVersion
<1>3. Permitted(document)
  BY <1>2, CurrentGraph DEF Permitted
<1>4. versions' = [versions EXCEPT !["graph"] = Append(@, document)]
  BY <1>1 DEF Put
<1>5. /\ \A b \in Requests : Granted(b) => Granted(b)'
      /\ \A g : Permitted(g) => Permitted(g)'
  BY <1>2, <1>4, <1>t, GrantsLast DEF Documents
<1>6. \A q \in Processes : CallOK(call[q])'
  BY <1>1, <1>5, <1>t, OtherCallStays DEF CallsOK, CallOK
<1>7. \A b \in Requests : opened'[b] # 0 => b \in DOMAIN checkpoints
  BY <1>1, <1>t DEF Spent
<1>8. call' \in [Processes -> Calls] /\ opened' \in [Requests -> Nat]
  BY <1>1, <1>t DEF VersionsTyped
<1>9. QED
  BY <1>1, <1>2, <1>3, <1>6, <1>7, <1>8, DocumentWritten DEF Documents

LEMMA ReceiptKeeps ==
  ASSUME ApprovalsIInv, NEW p \in Processes, NEW metadata \in Metadata,
         StartReceipt(p, metadata)
  PROVE  ApprovalsIInv'
<1>1. call[p].step = "receipt" /\ UNCHANGED <<versions, heads, checkpoints, opened>>
  BY DEF StartReceipt, At, documentVars
<1>t. call \in [Processes -> Calls] /\ CallOK(call[p]) /\ Headed(heads')
  BY <1>1 DEF ApprovalsIInv, VersionsTyped, CallsOK, Restorable
<1> DEFINE next == [call[p] EXCEPT !.step = "appending"]
<1>2. call' = [call EXCEPT ![p] = next]
  BY <1>t DEF StartReceipt, Goto
<1>3. /\ next \in Calls /\ next.step = "appending" /\ next.op = call[p].op
      /\ next.id = call[p].id /\ next.document = call[p].document
  BY <1>1, <1>t, OnCall DEF CallSteps
<1> HIDE DEF next
<1>4. CallOK(next) /\ ~Applying(next)
  BY <1>1, <1>t, <1>3 DEF CallOK, Applying
<1>5. QED
  BY <1>1, <1>t, <1>2, <1>3, <1>4, QuietCall

LEMMA UndoKeeps ==
  ASSUME ApprovalsIInv, NEW p \in Processes, UndoApply(p)
  PROVE  ApprovalsIInv'
<1>1. /\ call[p].step = "restore" /\ EndCall(p) /\ heads' = checkpoints[call[p].id]
      /\ UNCHANGED <<versions, checkpoints, opened>>
  BY DEF UndoApply, At, Restore
<1>2. call[p].id \in DOMAIN checkpoints
  BY <1>1 DEF ApprovalsIInv, CallsOK, CallOK
<1>3. Headed(heads')
  BY <1>1, <1>2 DEF ApprovalsIInv, Restorable
<1>4. QED
  BY <1>1, <1>3, CallEnds

(* The heads move to versions a checkpoint has saved, or not at all.       *)
LEMMA HeadsMove ==
  ASSUME ApprovalsIInv, UNCHANGED <<versions, checkpoints, call, opened>>, Headed(heads')
  PROVE  ApprovalsIInv'
<1>t. VersionsTyped /\ Restorable /\ Entitled /\ CallsOK /\ OneOpens /\ Spent /\ GateFallsByPermit
  BY DEF ApprovalsIInv
<1>1. Restorable'
  BY <1>t DEF Restorable, Headed
<1>2. VersionsTyped' /\ Entitled' /\ OneOpens' /\ Spent' /\ GateFallsByPermit'
  <2>1. VersionsTyped' /\ Entitled' /\ Spent'
    BY <1>t DEF VersionsTyped, Entitled, Spent
  <2>2. OneOpens'
    BY <1>t DEF OneOpens, Applying
  <2>3. GateFallsByPermit'
    BY <1>t, GatesStay
  <2>4. QED
    BY <2>1, <2>2, <2>3
<1>3. ASSUME NEW q \in Processes PROVE CallOK(call[q])'
  <2>1. CallOK(call[q]) /\ call'[q] = call[q]
    BY <1>t DEF CallsOK
  <2>2. Applying(call[q]) => opened'[call[q].id] = 0
    BY <2>1 DEF CallOK
  <2>3. QED
    BY <2>1, <2>2, <1>t, OtherCallStays, GrantsStay
<1>4. CallsOK'
  BY <1>3 DEF CallsOK
<1>5. QED
  BY <1>1, <1>2, <1>4 DEF ApprovalsIInv

LEMMA RestoreKeeps ==
  ASSUME ApprovalsIInv, NEW c \in Requests, RestoreCheckpoint(c)
  PROVE  ApprovalsIInv'
<1>1. /\ c \in DOMAIN checkpoints /\ heads' = checkpoints[c]
      /\ UNCHANGED <<versions, checkpoints, opened, call>>
  BY DEF RestoreCheckpoint, Restore
<1>2. Headed(heads')
  BY <1>1 DEF ApprovalsIInv, Restorable
<1>3. QED
  BY <1>1, <1>2, HeadsMove

LEMMA ApprovalsStepIInv == ApprovalsIInv /\ [ApprovalsNext]_approvalVars => ApprovalsIInv'
<1> SUFFICES ASSUME ApprovalsIInv, [ApprovalsNext]_approvalVars PROVE ApprovalsIInv'
  OBVIOUS
<1>t. Headed(heads)
  BY DEF ApprovalsIInv, Restorable
<1>1. ASSUME NEW p \in Processes, CallStep(p) PROVE ApprovalsIInv'
  <2>1. ASSUME FinishReceipt(p) PROVE ApprovalsIInv'
    <3>1. call[p].step = "appending" /\ UNCHANGED <<versions, heads, checkpoints, opened>>
      BY <2>1 DEF FinishReceipt, At, documentVars
    <3>2. EndCall(p) \/ Fail(p)
      BY <2>1 DEF FinishReceipt
    <3>3. QED
      BY <3>1, <3>2, <1>t, CallEnds, FailKeeps
  <2>2. ASSUME CallDies(p) PROVE ApprovalsIInv'
    BY <2>2, <1>t, CallEnds DEF CallDies, documentVars
  <2>3. QED
    BY <1>1, <2>1, <2>2, RequestKeeps, ApplyKeeps, DecideKeeps, SubjectKeeps, CheckpointKeeps,
       RevisionKeeps, GraphKeeps, ApprovalKeeps, ReceiptKeeps, UndoKeeps DEF CallStep
<1>2. CASE UNCHANGED approvalVars
  <2>1. UNCHANGED <<versions, heads, checkpoints, call, opened>>
    BY <1>2 DEF approvalVars
  <2>2. QED
    BY <2>1, <1>t, HeadsMove
<1>3. QED
  BY <1>1, <1>2, EditKeeps, RestoreKeeps DEF ApprovalsNext

(* Every version is a decision on its approval or a graph, and no head,    *)
(* current or saved by a checkpoint, is ahead of the versions of its       *)
(* document (security-extension.ts requestApproval to applyApproval).      *)
THEOREM ApprovalsAreTyped == ApprovalsSpec => []ApprovalsTypeOK
<1>1. ApprovalsIInv => ApprovalsTypeOK
  BY DEF ApprovalsIInv, VersionsTyped, Restorable, Headed, GraphVersion, ApprovalsTypeOK
<1>2. QED
  BY <1>1, ApprovalsInitIInv, ApprovalsStepIInv, PTL DEF ApprovalsSpec

(* A gate is gone from a version of the graph, the current one or one a    *)
(* checkpoint may bring back, only when somebody entitled has approved it  *)
(* (security-extension.ts applyApproval).                                  *)
THEOREM GatesFallByPermit == ApprovalsSpec => []GateFallsByPermit
<1>1. ApprovalsIInv => GateFallsByPermit
  BY DEF ApprovalsIInv
<1>2. QED
  BY <1>1, ApprovalsInitIInv, ApprovalsStepIInv, PTL DEF ApprovalsSpec

-----------------------------------------------------------------------------
(* Approvals implement Permit: the write of an approval grants at most one *)
(* permit, the write of a graph uses one that was granted and never used,  *)
(* and the rest is invisible.                                              *)
GrantedSet == {a \in Requests : Granted(a)}

LEMMA NothingGrantedYet == ApprovalsInit => OneShot!Init
<1> SUFFICES ASSUME ApprovalsInit PROVE OneShot!Init
  OBVIOUS
<1>1. \A a \in Requests : versions[a] = <<>>
  BY DEF ApprovalsInit, Documents
<1>2. GrantedSet = {}
  BY <1>1 DEF GrantedSet, Granted
<1>3. QED
  BY <1>2 DEF ApprovalsInit, OneShot!Init, GrantedSet

LEMMA NoVersionNoGrant ==
  ASSUME UNCHANGED <<versions, opened>>
  PROVE  UNCHANGED <<GrantedSet, opened>>
  BY GrantsStay DEF GrantedSet

LEMMA ApprovalStepIsPermitStep ==
  ApprovalsIInv /\ [ApprovalsNext]_approvalVars => [OneShot!Next]_<<GrantedSet, opened>>
<1> SUFFICES ASSUME ApprovalsIInv, [ApprovalsNext]_approvalVars
             PROVE  OneShot!Next \/ UNCHANGED <<GrantedSet, opened>>
  OBVIOUS
<1>t. VersionsTyped /\ CallsOK
  BY DEF ApprovalsIInv
<1>1. ASSUME NEW p \in Processes, PutApproval(p)
      PROVE  OneShot!Next \/ UNCHANGED <<GrantedSet, opened>>
  <2>1. PICK a \in Requests : a = call[p].id /\ call[p].document \in Document
    BY <1>1, <1>t, CallShape DEF VersionsTyped, PutApproval, At
  <2>2. CASE Writable(a)
    <3>1. versions' = [versions EXCEPT ![a] = Append(@, call[p].document)] /\ UNCHANGED opened
      BY <1>1, <2>1, <2>2 DEF PutApproval, Put
    <3>2. a \in Documents /\ a # "graph"
      BY DEF Documents
    <3>3. /\ \A b \in Requests : Granted(b) => Granted(b)'
          /\ \A b \in Requests \ {a} : Granted(b)' => Granted(b)
      BY <2>1, <3>1, <3>2, <1>t, GrantsLast
    <3>4. GrantedSet' = GrantedSet \cup {a} \/ GrantedSet' = GrantedSet
      BY <3>3 DEF GrantedSet
    <3>5. QED
      BY <3>1, <3>4 DEF OneShot!Next, OneShot!Grant, GrantedSet
  <2>3. CASE ~Writable(a)
    BY <1>1, <2>1, <2>3, NoVersionNoGrant DEF PutApproval
  <2>4. QED
    BY <2>2, <2>3
<1>2. ASSUME NEW p \in Processes, PutWorkGraph(p)
      PROVE  OneShot!Next \/ UNCHANGED <<GrantedSet, opened>>
  <2>1. CASE Writable("graph")
    <3>1. /\ call[p] \in GraphCall /\ Granted(call[p].id) /\ opened[call[p].id] = 0
      BY <1>2, <1>t DEF PutWorkGraph, At, CallsOK, CallOK, Applying
    <3>2. PICK a \in Requests, document \in GraphVersion :
            /\ a = call[p].id
            /\ versions' = [versions EXCEPT !["graph"] = Append(@, document)]
            /\ opened' = [opened EXCEPT ![a] = @ + 1]
      <4>1. call[p].id \in Requests /\ call[p].graph \in GraphVersion
        BY <3>1 DEF GraphCall
      <4>2. [revision |-> call[p].graph.revision + 1,
             gated |-> call[p].graph.gated \ {Subject[call[p].id]}] \in GraphVersion
        BY <4>1 DEF GraphVersion
      <4>3. QED
        BY <1>2, <2>1, <4>1, <4>2 DEF PutWorkGraph, Put
    <3>3. GrantedSet' = GrantedSet
      <4>1. /\ \A b \in Requests : Granted(b) => Granted(b)'
            /\ \A b \in Requests \ {"graph"} : Granted(b)' => Granted(b)
        BY <3>2, <1>t, GrantsLast DEF Documents
      <4>2. QED
        BY <4>1 DEF GrantedSet
    <3>4. opened' = [opened EXCEPT ![a] = 1]
      BY <3>1, <3>2, <1>t DEF VersionsTyped
    <3>5. OneShot!Use(a)
      BY <3>1, <3>2, <3>3, <3>4 DEF OneShot!Use, GrantedSet
    <3>6. QED
      BY <3>5 DEF OneShot!Next
  <2>2. CASE ~Writable("graph")
    BY <1>2, <2>2, NoVersionNoGrant DEF PutWorkGraph
  <2>3. QED
    BY <2>1, <2>2
<1>3. ASSUME EditGraph PROVE UNCHANGED <<GrantedSet, opened>>
  <2>1. PICK document \in GraphVersion :
          /\ versions' = [versions EXCEPT !["graph"] = Append(@, document)]
          /\ UNCHANGED opened
    <3>1. [Current("graph") EXCEPT !.revision = @ + 1] \in GraphVersion
      BY CurrentGraph DEF GraphVersion
    <3>2. QED
      BY <1>3, <3>1 DEF EditGraph, Put
  <2>2. /\ \A b \in Requests : Granted(b) => Granted(b)'
        /\ \A b \in Requests \ {"graph"} : Granted(b)' => Granted(b)
    BY <2>1, <1>t, GrantsLast DEF Documents
  <2>3. QED
    BY <2>1, <2>2 DEF GrantedSet
<1>4. ASSUME NEW p \in Processes, CallStep(p), ~PutApproval(p), ~PutWorkGraph(p)
      PROVE  UNCHANGED <<versions, opened>>
  BY <1>4 DEF CallStep, RequestApproval, ApplyApproval, DecideApproval, ProtectedWorkSubject,
     CreateCheckpoint, AssertNextRevision, StartReceipt, FinishReceipt, UndoApply, Restore,
     CallDies, documentVars
<1>5. ASSUME NEW c \in Requests, RestoreCheckpoint(c) PROVE UNCHANGED <<versions, opened>>
  BY <1>5 DEF RestoreCheckpoint, Restore
<1>6. CASE UNCHANGED approvalVars
  BY <1>6, NoVersionNoGrant DEF approvalVars
<1>7. QED
  BY <1>1, <1>2, <1>3, <1>4, <1>5, <1>6, NoVersionNoGrant DEF ApprovalsNext

(* An approval opens its gate at most once, and only after it was granted, *)
(* through races, crashes and restores: Approvals implements Permit        *)
(* (security-extension.ts applyApproval).                                  *)
THEOREM ApprovalsAreOneShot == ApprovalsSpec => OneUsePermit
<1>1. ApprovalsInit => ApprovalsIInv /\ OneShot!Init
  BY ApprovalsInitIInv, NothingGrantedYet
<1>2. ApprovalsIInv /\ [ApprovalsNext]_approvalVars
        => ApprovalsIInv' /\ [OneShot!Next]_<<GrantedSet, opened>>
  BY ApprovalsStepIInv, ApprovalStepIsPermitStep
<1>3. QED
  BY <1>1, <1>2, PTL DEF ApprovalsSpec, OneUsePermit, OneShot!Spec, GrantedSet

-----------------------------------------------------------------------------
(* A receipt is written after the commit of what it reports, by the call   *)
(* that made it.  A consumption can be reported once because only one call *)
(* ever goes past the checkpoint of an approval, and a call reports once.  *)
OutcomeOf(type) ==
  CASE type = "requested" -> {"pending"}
    [] type = "decided" -> {"approved", "rejected"}
    [] type = "consumed" -> {"consumed"}
    [] OTHER -> {}

Backed(vs, type, a) == \E r \in DOMAIN vs[a] : vs[a][r].state \in OutcomeOf(type)

CallTells(p) ==
  /\ call[p].step # "idle" => call[p].document.state \in OutcomeOf(call[p].op)
  /\ call[p].step \in {"receipt", "appending"} => Backed(versions, call[p].op, call[p].id)
  /\ call[p].step = "appending" => appending[p].event = <<call[p].op, call[p].id>>

(* A call that has the checkpoint of its approval and may yet report.      *)
Holding(c) ==
  c.op = "consumed" /\ c.step \in {"revision", "graph", "put", "receipt", "appending"}

OneHolds ==
  \A p, q \in Processes :
    p # q /\ Holding(call[p]) /\ Holding(call[q]) => call[p].id # call[q].id

ReceiptsBacked ==
  \A s \in DOMAIN receipts : \A type \in Operations, a \in Requests :
    receipts[s].event = <<type, a>> => Backed(versions, type, a)

ConsumedOnce ==
  \A a \in Requests : \A s \in DOMAIN receipts : receipts[s].event = <<"consumed", a>> =>
    /\ a \in DOMAIN checkpoints
    /\ \A p \in Processes : Holding(call[p]) => call[p].id # a
    /\ \A t \in DOMAIN receipts \ {s} : receipts[t].event # <<"consumed", a>>

ReportsIInv ==
  /\ DOMAIN appending = Processes
  /\ \A p \in Processes : CallTells(p)
  /\ OneHolds /\ ReceiptsBacked /\ ConsumedOnce

LEMMA ReportsInit == ApprovalsInit => ReportsIInv
<1> SUFFICES ASSUME ApprovalsInit PROVE ReportsIInv
  OBVIOUS
<1>1. \A p \in Processes : call[p] = Resting
  BY DEF ApprovalsInit
<1>2. Resting.step = "idle" /\ Resting.op = "none"
  BY DEF Resting
<1>3. DOMAIN receipts = {} /\ DOMAIN appending = Processes
  BY DEF ApprovalsInit, AuditInit
<1>4. QED
  BY <1>1, <1>2, <1>3
     DEF ReportsIInv, CallTells, OneHolds, Holding, ReceiptsBacked, ConsumedOnce

(* Versions are added and none goes.                                       *)
VersionsLast ==
  \A a \in Requests : \A r \in DOMAIN versions[a] :
    r \in DOMAIN versions'[a] /\ versions'[a][r] = versions[a][r]

LEMMA BackedLasts ==
  ASSUME VersionsLast, NEW type, NEW a \in Requests, Backed(versions, type, a)
  PROVE  Backed(versions', type, a)
  BY DEF VersionsLast, Backed

LEMMA BackedStays ==
  ASSUME UNCHANGED versions
  PROVE  VersionsLast
  BY DEF VersionsLast

(* What a call in progress has to tell is not disturbed by other calls.    *)
LEMMA TellsStill ==
  ASSUME VersionsTyped, NEW q \in Processes, CallTells(q), VersionsLast,
         call'[q] = call[q], appending'[q] = appending[q]
  PROVE  CallTells(q)'
<1>1. call[q].step # "idle" => call[q].id \in Requests
  BY CallShape DEF VersionsTyped
<1>2. call[q].step \in {"receipt", "appending"} => Backed(versions', call[q].op, call[q].id)
  BY <1>1, BackedLasts DEF CallTells
<1>3. QED
  BY <1>2 DEF CallTells

(* A step that inserts no receipt: a call that comes to hold an approval   *)
(* held it before, or takes a checkpoint id that was free.                 *)
LEMMA NoReceipt ==
  ASSUME ApprovalsIInv, ReportsIInv, VersionsLast,
         receipts' = receipts, DOMAIN appending' = Processes,
         DOMAIN checkpoints \subseteq DOMAIN checkpoints',
         \A q \in Processes : CallTells(q)',
         \A q \in Processes : Holding(call'[q]) =>
           \/ Holding(call[q]) /\ call'[q].id = call[q].id
           \/ /\ call'[q].id \notin DOMAIN checkpoints
              /\ \A r \in Processes \ {q} : call'[r] = call[r]
  PROVE  ReportsIInv'
<1>t. OneHolds /\ ReceiptsBacked /\ ConsumedOnce
  BY DEF ReportsIInv
<1>1. \A q \in Processes : Holding(call[q]) => call[q].id \in DOMAIN checkpoints
  BY DEF ApprovalsIInv, CallsOK, CallOK, Holding
<1>2. OneHolds'
  BY <1>1, <1>t DEF OneHolds
<1>3. ReceiptsBacked'
  <2> SUFFICES ASSUME NEW s \in DOMAIN receipts, NEW type \in Operations, NEW a \in Requests,
                      receipts[s].event = <<type, a>>
               PROVE  Backed(versions', type, a)
    BY DEF ReceiptsBacked
  <2>1. QED
    BY <1>t, BackedLasts DEF ReceiptsBacked
<1>4. ConsumedOnce'
  BY <1>t DEF ConsumedOnce
<1>5. QED
  BY <1>2, <1>3, <1>4 DEF ReportsIInv

(* A call that changes over to something else it has to tell.              *)
LEMMA CallTurns ==
  ASSUME ApprovalsIInv, ReportsIInv, VersionsLast, NEW p \in Processes, NEW next,
         call' = [call EXCEPT ![p] = next],
         receipts' = receipts, DOMAIN appending' = Processes,
         \A q \in Processes \ {p} : appending'[q] = appending[q],
         DOMAIN checkpoints \subseteq DOMAIN checkpoints',
         next.step # "idle" => next.document.state \in OutcomeOf(next.op),
         next.step \in {"receipt", "appending"} => Backed(versions', next.op, next.id),
         next.step = "appending" => appending'[p].event = <<next.op, next.id>>,
         Holding(next) => \/ Holding(call[p]) /\ next.id = call[p].id
                          \/ next.id \notin DOMAIN checkpoints
  PROVE  ReportsIInv'
<1>t. VersionsTyped
  BY DEF ApprovalsIInv
<1>1. call'[p] = next /\ \A q \in Processes \ {p} : call'[q] = call[q]
  BY <1>t DEF VersionsTyped
<1>2. CallTells(p)'
  BY <1>1 DEF CallTells
<1>3. ASSUME NEW q \in Processes \ {p} PROVE CallTells(q)'
  BY <1>1, <1>t, TellsStill DEF ReportsIInv
<1>4. QED
  BY <1>1, <1>2, <1>3, NoReceipt

LEMMA CallDone ==
  ASSUME ApprovalsIInv, ReportsIInv, NEW p \in Processes, EndCall(p), UNCHANGED versions,
         receipts' = receipts, DOMAIN appending' = Processes,
         \A q \in Processes \ {p} : appending'[q] = appending[q],
         DOMAIN checkpoints \subseteq DOMAIN checkpoints'
  PROVE  ReportsIInv'
<1>1. Resting.step = "idle" /\ ~Holding(Resting)
  BY DEF Resting, Holding
<1>2. VersionsLast
  BY BackedStays
<1>3. QED
  BY <1>1, <1>2, CallTurns DEF EndCall

(* A refused statement leaves nothing to tell.                             *)
LEMMA FailTells ==
  ASSUME ApprovalsIInv, ReportsIInv, NEW p \in Processes, call[p].step # "idle", Fail(p),
         UNCHANGED <<versions, checkpoints>>, receipts' = receipts,
         DOMAIN appending' = Processes, \A q \in Processes \ {p} : appending'[q] = appending[q]
  PROVE  ReportsIInv'
<1>t. call \in [Processes -> Calls] /\ CallTells(p)
  BY DEF ApprovalsIInv, VersionsTyped, ReportsIInv
<1>1. CASE call[p].op = "consumed"
  <2> DEFINE next == [call[p] EXCEPT !.step = "restore"]
  <2>1. call' = [call EXCEPT ![p] = next]
    BY <1>1, <1>t DEF Fail, Goto
  <2>2. next.step = "restore" /\ next.op = call[p].op /\ next.document = call[p].document
    BY <1>t, OnCall DEF CallSteps
  <2> HIDE DEF next
  <2>3. ~Holding(next) /\ next.document.state \in OutcomeOf(next.op) /\ VersionsLast
    BY <1>t, <2>2, BackedStays DEF Holding, CallTells
  <2>4. QED
    BY <2>1, <2>2, <2>3, CallTurns
<1>2. CASE call[p].op # "consumed"
  BY <1>2, CallDone DEF Fail
<1>3. QED
  BY <1>1, <1>2

(* A call goes to its next step with what it had.                          *)
LEMMA GoesOn ==
  ASSUME ApprovalsIInv, ReportsIInv, NEW p \in Processes, call[p].step # "idle",
         NEW step \in CallSteps, step \notin {"receipt", "appending"}, Goto(p, step),
         UNCHANGED <<receipts, appending>>, VersionsLast,
         DOMAIN checkpoints \subseteq DOMAIN checkpoints',
         call[p].op = "consumed" /\ step \in {"revision", "graph", "put"} =>
           Holding(call[p]) \/ call[p].id \notin DOMAIN checkpoints
  PROVE  ReportsIInv'
<1>t. call \in [Processes -> Calls] /\ CallTells(p) /\ DOMAIN appending = Processes
  BY DEF ApprovalsIInv, VersionsTyped, ReportsIInv
<1> DEFINE next == [call[p] EXCEPT !.step = step]
<1>1. call' = [call EXCEPT ![p] = next]
  BY <1>t DEF Goto
<1>2. /\ next.step = step /\ next.op = call[p].op /\ next.document = call[p].document
      /\ next.id = call[p].id
  BY <1>t, OnCall
<1> HIDE DEF next
<1>3. step # "idle"
  BY DEF CallSteps
<1>4. next.document.state \in OutcomeOf(next.op)
  BY <1>t, <1>2 DEF CallTells
<1>5. Holding(next) => Holding(call[p]) \/ next.id \notin DOMAIN checkpoints
  BY <1>2 DEF Holding
<1>6. QED
  BY <1>1, <1>2, <1>4, <1>5, <1>t, CallTurns

LEMMA StartTells ==
  ASSUME ApprovalsIInv, ReportsIInv, NEW p \in Processes, NEW a \in Requests,
         \/ RequestApproval(p, a) \/ ApplyApproval(p, a)
         \/ \E verdict \in {"approved", "rejected"}, kind \in ActorKinds :
              DecideApproval(p, a, verdict, kind)
  PROVE  ReportsIInv'
<1>1. UNCHANGED <<receipts, appending, versions, checkpoints>> /\ DOMAIN appending = Processes
  BY DEF RequestApproval, ApplyApproval, DecideApproval, auditVars, documentVars, ReportsIInv
<1>2. PICK next :
        /\ call' = [call EXCEPT ![p] = next] /\ next.step \in {"put", "subject"}
        /\ next.document.state \in OutcomeOf(next.op) /\ ~Holding(next)
  <2>1. CASE RequestApproval(p, a)
    <3> WITNESS [op |-> "requested", step |-> "put", id |-> a, document |-> [state |-> "pending"]]
    <3>1. QED
      BY <2>1 DEF RequestApproval, OutcomeOf, Holding
  <2>2. CASE ApplyApproval(p, a)
    <3> WITNESS [op |-> "consumed", step |-> "subject", id |-> a,
                 document |-> [state |-> "consumed", kind |-> Current(a).kind]]
    <3>1. QED
      BY <2>2 DEF ApplyApproval, OutcomeOf, Holding
  <2>3. ASSUME NEW verdict \in {"approved", "rejected"}, NEW kind \in ActorKinds,
               DecideApproval(p, a, verdict, kind)
        PROVE  \E next :
                 /\ call' = [call EXCEPT ![p] = next] /\ next.step \in {"put", "subject"}
                 /\ next.document.state \in OutcomeOf(next.op) /\ ~Holding(next)
    <3> WITNESS [op |-> "decided", step |-> "put", id |-> a,
                 document |-> [state |-> verdict, kind |-> kind]]
    <3>1. QED
      BY <2>3 DEF DecideApproval, OutcomeOf, Holding
  <2>4. QED
    BY <2>1, <2>2, <2>3
<1>3. VersionsLast
  BY <1>1, BackedStays
<1>4. QED
  BY <1>1, <1>2, <1>3, CallTurns

LEMMA SubjectTells ==
  ASSUME ApprovalsIInv, ReportsIInv, NEW p \in Processes, ProtectedWorkSubject(p)
  PROVE  ReportsIInv'
<1>1. /\ call[p].step = "subject" /\ UNCHANGED <<receipts, appending, versions, checkpoints>>
      /\ DOMAIN appending = Processes /\ CallTells(p)
  BY DEF ProtectedWorkSubject, At, auditVars, documentVars, ReportsIInv
<1>2. CASE Subject[call[p].id] \in Current("graph").gated
  <2> DEFINE next == [op |-> call[p].op, step |-> "checkpoint", id |-> call[p].id,
                      document |-> call[p].document, graph |-> Current("graph")]
  <2>1. call' = [call EXCEPT ![p] = next]
    BY <1>2 DEF ProtectedWorkSubject, ApprovalsIInv, VersionsTyped
  <2>2. /\ next.step = "checkpoint" /\ next.op = call[p].op
        /\ next.document = call[p].document
    OBVIOUS
  <2> HIDE DEF next
  <2>3. ~Holding(next) /\ next.document.state \in OutcomeOf(next.op) /\ VersionsLast
    BY <1>1, <2>2, BackedStays DEF Holding, CallTells
  <2>4. QED
    BY <1>1, <2>1, <2>2, <2>3, CallTurns
<1>3. CASE Subject[call[p].id] \notin Current("graph").gated
  BY <1>1, <1>3, CallDone DEF ProtectedWorkSubject
<1>4. QED
  BY <1>2, <1>3

LEMMA CheckpointTells ==
  ASSUME ApprovalsIInv, ReportsIInv, NEW p \in Processes, CreateCheckpoint(p)
  PROVE  ReportsIInv'
<1>1. /\ call[p].step = "checkpoint" /\ UNCHANGED <<receipts, appending, versions>>
      /\ DOMAIN appending = Processes
  BY DEF CreateCheckpoint, At, auditVars, ReportsIInv
<1>2. VersionsLast
  BY <1>1, BackedStays
<1>3. CASE UnusedId(call[p].id)
  <2>1. /\ DOMAIN checkpoints \subseteq DOMAIN checkpoints' /\ Goto(p, "revision")
        /\ call[p].id \notin DOMAIN checkpoints
    BY <1>3 DEF CreateCheckpoint, Save, UnusedId
  <2>2. QED
    BY <1>1, <1>2, <2>1, GoesOn DEF CallSteps
<1>4. CASE ~UnusedId(call[p].id)
  BY <1>1, <1>4, CallDone DEF CreateCheckpoint
<1>5. QED
  BY <1>3, <1>4

LEMMA RevisionTells ==
  ASSUME ApprovalsIInv, ReportsIInv, NEW p \in Processes, AssertNextRevision(p)
  PROVE  ReportsIInv'
<1>1. /\ call[p].step = "revision" /\ UNCHANGED <<receipts, appending, versions, checkpoints>>
      /\ DOMAIN appending = Processes /\ VersionsLast
  BY BackedStays DEF AssertNextRevision, At, auditVars, documentVars, ReportsIInv
<1>2. CASE Goto(p, "graph")
  BY <1>1, <1>2, GoesOn DEF CallSteps, Holding
<1>3. CASE Fail(p)
  BY <1>1, <1>3, FailTells
<1>4. QED
  BY <1>2, <1>3 DEF AssertNextRevision

(* What PutWorkGraph and PutApproval add to a document.                    *)
LEMMA PutLasts ==
  ASSUME VersionsTyped, NEW d \in Documents, NEW document, Put(d, document)
  PROVE  /\ VersionsLast
         /\ \E r \in DOMAIN versions'[d] : versions'[d][r] = document
<1>1. PICK V : versions \in [Documents -> Seq(V)]
  BY DEF VersionsTyped
<1>2. versions'[d] = Append(versions[d], document)
      /\ \A a \in Documents \ {d} : versions'[a] = versions[a]
  BY <1>1 DEF Put
<1>3. /\ versions[d] \in Seq(V \cup {document}) /\ document \in V \cup {document}
  BY <1>1
<1>4. /\ DOMAIN versions[d] = 1..Len(versions[d]) /\ Len(versions[d]) \in Nat
      /\ DOMAIN versions'[d] = 1..Len(versions[d]) + 1
      /\ \A r \in 1..Len(versions[d]) : versions'[d][r] = versions[d][r]
      /\ versions'[d][Len(versions[d]) + 1] = document
  BY <1>2, <1>3, AppendFacts
<1>5. VersionsLast
  BY <1>2, <1>4 DEF VersionsLast, Documents
<1>6. QED
  BY <1>4, <1>5

LEMMA GraphTells ==
  ASSUME ApprovalsIInv, ReportsIInv, NEW p \in Processes, PutWorkGraph(p)
  PROVE  ReportsIInv'
<1>1. /\ call[p].step = "graph" /\ UNCHANGED <<receipts, appending, checkpoints>>
      /\ DOMAIN appending = Processes /\ VersionsTyped
  BY DEF PutWorkGraph, At, auditVars, ReportsIInv, ApprovalsIInv
<1>2. CASE Writable("graph")
  <2>1. VersionsLast /\ Goto(p, "put")
    BY <1>1, <1>2, PutLasts DEF PutWorkGraph, Documents
  <2>2. QED
    BY <1>1, <2>1, GoesOn DEF CallSteps, Holding
<1>3. CASE ~Writable("graph")
  BY <1>1, <1>3, FailTells DEF PutWorkGraph
<1>4. QED
  BY <1>2, <1>3

(* The document a call has committed is what its receipt will report.      *)
LEMMA ApprovalTells ==
  ASSUME ApprovalsIInv, ReportsIInv, NEW p \in Processes, PutApproval(p)
  PROVE  ReportsIInv'
<1>1. /\ call[p].step = "put" /\ UNCHANGED <<receipts, appending, checkpoints>>
      /\ DOMAIN appending = Processes /\ VersionsTyped /\ CallTells(p)
  BY DEF PutApproval, At, auditVars, ReportsIInv, ApprovalsIInv
<1>2. call \in [Processes -> Calls] /\ call[p].id \in Requests
  BY <1>1, CallShape DEF VersionsTyped
<1>3. CASE Writable(call[p].id)
  <2> DEFINE next == [call[p] EXCEPT !.step = "receipt"]
  <2>1. call' = [call EXCEPT ![p] = next] /\ Put(call[p].id, call[p].document)
    BY <1>2, <1>3 DEF PutApproval, Goto
  <2>2. /\ next.step = "receipt" /\ next.op = call[p].op /\ next.document = call[p].document
        /\ next.id = call[p].id
    BY <1>1, <1>2, OnCall DEF CallSteps
  <2> HIDE DEF next
  <2>3. /\ VersionsLast
        /\ \E r \in DOMAIN versions'[call[p].id] : versions'[call[p].id][r] = call[p].document
    BY <1>1, <1>2, <2>1, PutLasts DEF Documents
  <2>4. call[p].document.state \in OutcomeOf(call[p].op)
    BY <1>1 DEF CallTells
  <2>5. Backed(versions', next.op, next.id)
    BY <2>2, <2>3, <2>4 DEF Backed, OutcomeOf
  <2>6. Holding(next) => Holding(call[p])
    BY <1>1, <2>2 DEF Holding
  <2>7. QED
    BY <1>1, <2>1, <2>2, <2>3, <2>4, <2>5, <2>6, CallTurns
<1>4. CASE ~Writable(call[p].id)
  BY <1>1, <1>4, FailTells DEF PutApproval, Refused
<1>5. QED
  BY <1>3, <1>4

LEMMA SelectTells ==
  ASSUME ApprovalsIInv, ReportsIInv, NEW p \in Processes, NEW metadata \in Metadata,
         StartReceipt(p, metadata)
  PROVE  ReportsIInv'
<1>1. /\ call[p].step = "receipt" /\ UNCHANGED <<receipts, versions, checkpoints>>
      /\ DOMAIN appending = Processes /\ CallTells(p) /\ VersionsLast
  BY BackedStays DEF StartReceipt, SelectLast, At, documentVars, ReportsIInv
<1>2. /\ DOMAIN appending' = Processes
      /\ \A q \in Processes \ {p} : appending'[q] = appending[q]
      /\ appending'[p].event = <<call[p].op, call[p].id>>
  BY <1>1 DEF StartReceipt, SelectLast
<1>3. call \in [Processes -> Calls] /\ call[p].id \in Requests
  BY <1>1, CallShape DEF VersionsTyped, ApprovalsIInv
<1> DEFINE next == [call[p] EXCEPT !.step = "appending"]
<1>4. call' = [call EXCEPT ![p] = next]
  BY <1>3 DEF StartReceipt, Goto
<1>5. /\ next.step = "appending" /\ next.op = call[p].op /\ next.document = call[p].document
      /\ next.id = call[p].id
  BY <1>1, <1>3, OnCall DEF CallSteps
<1> HIDE DEF next
<1>6. /\ next.document.state \in OutcomeOf(next.op)
      /\ Holding(next) => Holding(call[p])
  BY <1>1, <1>5 DEF CallTells, Holding
<1>7. Backed(versions', next.op, next.id)
  BY <1>1, <1>3, <1>5, BackedLasts DEF CallTells, Backed
<1>8. QED
  BY <1>1, <1>2, <1>4, <1>5, <1>6, <1>7, CallTurns

(* The receipt itself: no other reports the same consumption, and the call *)
(* that inserts it is over.                                                *)
LEMMA InsertTells ==
  ASSUME ApprovalsIInv, ReportsIInv, NEW p \in Processes, FinishReceipt(p), Insert(p)
  PROVE  ReportsIInv'
<1>t. /\ VersionsTyped /\ CallsOK /\ OneHolds /\ ReceiptsBacked /\ ConsumedOnce /\ CallTells(p)
      /\ DOMAIN appending = Processes
  BY DEF ApprovalsIInv, ReportsIInv
<1>1. /\ call[p].step = "appending" /\ UNCHANGED <<versions, checkpoints>> /\ VersionsLast
      /\ DOMAIN appending' = Processes
      /\ \A q \in Processes \ {p} : appending'[q] = appending[q]
  BY <1>t, BackedStays DEF FinishReceipt, Insert, At, documentVars
<1>2. call \in [Processes -> Calls] /\ call[p].id \in Requests
  BY <1>1, <1>t, CallShape DEF VersionsTyped
<1>3. EndCall(p)
  BY DEF FinishReceipt, Insert, InsertFails
<1>4. call'[p] = Resting /\ \A q \in Processes \ {p} : call'[q] = call[q]
  BY <1>2, <1>3 DEF EndCall
<1>5. Resting.step = "idle" /\ Resting.op = "none" /\ ~Holding(Resting)
  BY DEF Resting, Holding
<1> DEFINE n == RowNumber(p)
           type == call[p].op
           a == call[p].id
<1>6. /\ n \notin DOMAIN receipts /\ DOMAIN receipts' = DOMAIN receipts \cup {n}
      /\ receipts'[n].event = <<type, a>>
      /\ \A s \in DOMAIN receipts : receipts'[s] = receipts[s]
  BY <1>1, <1>t DEF Insert, Insertable, CallTells
<1>7. Backed(versions, type, a)
  BY <1>1, <1>t DEF CallTells
<1> HIDE DEF n, type, a
<1>8. ReceiptsBacked'
  <2> SUFFICES ASSUME NEW s \in DOMAIN receipts', NEW u \in Operations, NEW b \in Requests,
                      receipts'[s].event = <<u, b>>
               PROVE  Backed(versions', u, b)
    BY DEF ReceiptsBacked
  <2>1. CASE s = n
    <3>1. u = type /\ b = a
      BY <1>6, <2>1
    <3>2. QED
      BY <1>1, <1>7, <3>1 DEF Backed
  <2>2. CASE s # n
    <3>1. Backed(versions, u, b)
      BY <1>6, <1>t, <2>2 DEF ReceiptsBacked
    <3>2. QED
      BY <1>1, <3>1, BackedLasts
  <2>3. QED
    BY <2>1, <2>2
<1>9. OneHolds'
  BY <1>4, <1>5, <1>t DEF OneHolds
<1>10. type = "consumed" => Holding(call[p]) /\ a \in DOMAIN checkpoints
  BY <1>1, <1>t DEF Holding, CallsOK, CallOK, type, a
<1>11. ConsumedOnce'
  <2> SUFFICES ASSUME NEW b \in Requests, NEW s \in DOMAIN receipts',
                      receipts'[s].event = <<"consumed", b>>
               PROVE  /\ b \in DOMAIN checkpoints'
                      /\ \A q \in Processes : Holding(call'[q]) => call'[q].id # b
                      /\ \A t \in DOMAIN receipts' \ {s} : receipts'[t].event # <<"consumed", b>>
    BY DEF ConsumedOnce
  <2>1. CASE s = n
    <3>1. type = "consumed" /\ b = a
      BY <1>6, <2>1
    <3>2. \A q \in Processes : Holding(call'[q]) => call'[q].id # b
      BY <1>4, <1>5, <1>10, <1>t, <3>1 DEF OneHolds, a
    <3>3. \A t \in DOMAIN receipts : receipts[t].event # <<"consumed", b>>
      BY <1>10, <1>t, <3>1 DEF ConsumedOnce, a
    <3>4. QED
      BY <1>1, <1>6, <1>10, <2>1, <3>1, <3>2, <3>3
  <2>2. CASE s # n
    <3>1. /\ b \in DOMAIN checkpoints
          /\ \A q \in Processes : Holding(call[q]) => call[q].id # b
          /\ \A t \in DOMAIN receipts \ {s} : receipts[t].event # <<"consumed", b>>
      BY <1>6, <1>t, <2>2 DEF ConsumedOnce
    <3>2. receipts'[n].event # <<"consumed", b>>
      BY <1>6, <1>10, <3>1 DEF a
    <3>3. QED
      BY <1>1, <1>4, <1>5, <1>6, <3>1, <3>2
  <2>3. QED
    BY <2>1, <2>2
<1>12. ASSUME NEW q \in Processes PROVE CallTells(q)'
  <2>1. CASE q = p
    BY <1>4, <1>5, <2>1 DEF CallTells
  <2>2. CASE q # p
    BY <1>1, <1>4, <1>t, <2>2, TellsStill DEF ReportsIInv
  <2>3. QED
    BY <2>1, <2>2
<1>13. QED
  BY <1>1, <1>8, <1>9, <1>11, <1>12 DEF ReportsIInv

(* Nobody's call takes the step, or none is disturbed.                     *)
LEMMA NobodyTells ==
  ASSUME ApprovalsIInv, ReportsIInv, VersionsLast,
         UNCHANGED <<receipts, appending, call, checkpoints>>
  PROVE  ReportsIInv'
<1>1. ASSUME NEW q \in Processes PROVE CallTells(q)'
  BY TellsStill DEF ReportsIInv, ApprovalsIInv
<1>2. DOMAIN appending' = Processes
  BY DEF ReportsIInv
<1>3. QED
  BY <1>1, <1>2, NoReceipt

LEMMA ReportsStep == ApprovalsIInv /\ ReportsIInv /\ [ApprovalsNext]_approvalVars => ReportsIInv'
<1> SUFFICES ASSUME ApprovalsIInv, ReportsIInv, [ApprovalsNext]_approvalVars PROVE ReportsIInv'
  OBVIOUS
<1>t. VersionsTyped /\ DOMAIN appending = Processes
  BY DEF ApprovalsIInv, ReportsIInv
<1>1. ASSUME NEW p \in Processes, CallStep(p) PROVE ReportsIInv'
  <2>1. ASSUME FinishReceipt(p), InsertFails(p) PROVE ReportsIInv'
    <3>1. /\ call[p].step = "appending" /\ UNCHANGED <<receipts, versions, checkpoints>>
          /\ DOMAIN appending' = Processes
          /\ \A q \in Processes \ {p} : appending'[q] = appending[q]
      BY <2>1, <1>t DEF FinishReceipt, InsertFails, At, documentVars
    <3>2. Fail(p)
      BY <2>1 DEF FinishReceipt, Insert, InsertFails
    <3>3. QED
      BY <3>1, <3>2, FailTells
  <2>2. ASSUME UndoApply(p) PROVE ReportsIInv'
    BY <2>2, <1>t, CallDone DEF UndoApply, Restore, auditVars
  <2>3. ASSUME CallDies(p) PROVE ReportsIInv'
    <3>1. /\ EndCall(p) /\ UNCHANGED <<receipts, versions, checkpoints>>
          /\ DOMAIN appending' = Processes
          /\ \A q \in Processes \ {p} : appending'[q] = appending[q]
      BY <2>3, <1>t DEF CallDies, AppendDies, documentVars, auditVars
    <3>2. QED
      BY <3>1, CallDone
  <2>4. ASSUME FinishReceipt(p) PROVE ReportsIInv'
    BY <2>1, <2>4, InsertTells DEF FinishReceipt
  <2>5. QED
    BY <1>1, <2>2, <2>3, <2>4, StartTells, SubjectTells, CheckpointTells, RevisionTells,
       GraphTells, ApprovalTells, SelectTells DEF CallStep
<1>2. ASSUME EditGraph PROVE ReportsIInv'
  <2>1. VersionsLast /\ UNCHANGED <<receipts, appending, call, checkpoints>>
    BY <1>2, <1>t, PutLasts DEF EditGraph, auditVars, Documents
  <2>2. QED
    BY <2>1, NobodyTells
<1>3. ASSUME NEW c \in Requests, RestoreCheckpoint(c) PROVE ReportsIInv'
  <2>1. UNCHANGED <<receipts, appending, call, checkpoints, versions>>
    BY <1>3 DEF RestoreCheckpoint, Restore, auditVars
  <2>2. QED
    BY <2>1, NobodyTells, BackedStays
<1>4. CASE UNCHANGED approvalVars
  <2>1. UNCHANGED <<receipts, appending, call, checkpoints, versions>>
    BY <1>4 DEF approvalVars
  <2>2. QED
    BY <2>1, NobodyTells, BackedStays
<1>5. QED
  BY <1>1, <1>2, <1>3, <1>4 DEF ApprovalsNext

(* A receipt says of an approval what has been committed, whatever crashes *)
(* and restores come between, and reports the consumption of an approval   *)
(* once (security-extension.ts requestApproval, decideApproval,            *)
(* applyApproval).                                                         *)
THEOREM ReceiptsAreTrue == ApprovalsSpec => []ReceiptsTellTheTruth
<1>1. ReportsIInv => ReceiptsTellTheTruth
  <2> SUFFICES ASSUME ReportsIInv, NEW s \in DOMAIN receipts,
                      NEW type \in Operations, NEW a \in Requests,
                      receipts[s].event = <<type, a>>
               PROVE  /\ \E r \in DOMAIN versions[a] : versions[a][r].state \in OutcomeOf(type)
                      /\ type = "consumed" =>
                           \A t \in DOMAIN receipts \ {s} : receipts[t].event # <<type, a>>
    <3>1. ASSUME NEW e \in ApprovalEvents
          PROVE  \E type \in Operations, a \in Requests : e = <<type, a>>
      BY DEF ApprovalEvents, Operations
    <3>2. QED
      BY <3>1 DEF ReceiptsTellTheTruth, OutcomeOf
  <2>1. Backed(versions, type, a)
    BY DEF ReportsIInv, ReceiptsBacked
  <2>2. QED
    BY <2>1 DEF ReportsIInv, ConsumedOnce, Backed
<1>2. QED
  BY <1>1, ApprovalsInitIInv, ApprovalsStepIInv, ReportsInit, ReportsStep, PTL DEF ApprovalsSpec

-----------------------------------------------------------------------------
(* The chain of the receipts, as AuditChain leaves it to its own races and *)
(* to damage.                                                              *)
Told == {Redacted(metadata) : metadata \in Metadata}

Bodies == [sequence : Nat, event : Events, metadata : Told]

Row ==
  [event : Events \cup {Garbled}, metadata : {Stored(metadata) : metadata \in Told},
   previous : Seq(Bodies), digest : Seq(Bodies)]

Selected(n) ==
  [step : {"selected"}, sequence : 1..n + 1, event : Events, metadata : Told,
   previous : Seq(Bodies)]

Before(s) == IF s = 1 THEN <<>> ELSE receipts[s - 1].digest

(* A row covers what is before it and what somebody said, and still reads  *)
(* that way unless it was damaged.                                         *)
Digested(s) ==
  \E event \in Events, metadata \in Told :
    /\ receipts[s].digest = Append(Before(s), Body(s, event, metadata))
    /\ receipts[s].metadata = Stored(metadata)
    /\ receipts[s].event = IF s \in damaged THEN Garbled ELSE event

ChainLinked(n) ==
  /\ receipts \in [1..n -> Row]
  /\ \A s \in 1..n : receipts[s].previous = Before(s) /\ Len(receipts[s].digest) = s /\ Digested(s)
  /\ damaged \subseteq 1..n
  /\ appending \in [Processes -> {Idle} \cup Selected(n)]
  /\ \A p \in Processes :
       appending[p].step = "selected" /\ appending[p].sequence = n + 1 =>
         appending[p].previous = Before(n + 1)

AuditIInv == \E n \in Nat : ChainLinked(n)

LEMMA AuditInitIInv == AuditInit => AuditIInv
<1> SUFFICES ASSUME AuditInit PROVE ChainLinked(0)
  BY DEF AuditIInv
<1>1. 1..0 = {} /\ Idle.step = "idle"
  BY DEF Idle
<1>2. receipts \in [1..0 -> Row]
  BY <1>1 DEF AuditInit
<1>3. QED
  BY <1>1, <1>2 DEF AuditInit, ChainLinked

LEMMA LastAndPrevious ==
  ASSUME NEW n \in Nat, ChainLinked(n)
  PROVE  /\ DOMAIN receipts = 1..n /\ LastSequence = n
         /\ \A s \in 1..n + 1 : Previous(s) = Before(s) /\ Before(s) \in Seq(Bodies)
                                /\ Len(Before(s)) = s - 1
<1>1. DOMAIN receipts = 1..n
  BY DEF ChainLinked
<1>2. LastSequence = n
  <2>1. CASE n = 0
    BY <1>1, <2>1 DEF LastSequence
  <2>2. CASE n # 0
    <3>1. n \in 1..n /\ \A t \in 1..n : t <= n
      BY <2>2
    <3>2. \A s \in 1..n : (\A t \in 1..n : t <= s) => s = n
      BY <3>1
    <3>3. (CHOOSE s \in 1..n : \A t \in 1..n : t <= s) = n
      BY <3>1, <3>2
    <3>4. QED
      BY <1>1, <3>1, <3>3 DEF LastSequence
  <2>3. QED
    BY <2>1, <2>2
<1>3. ASSUME NEW s \in 1..n + 1
      PROVE  Previous(s) = Before(s) /\ Before(s) \in Seq(Bodies) /\ Len(Before(s)) = s - 1
  <2>1. CASE s = 1
    BY <1>1, <2>1 DEF Previous, Before
  <2>2. CASE s # 1
    <3>1. s - 1 \in 1..n /\ {t \in 1..n : t < s} = 1..s - 1 /\ s - 1 \in 1..s - 1
      BY <2>2
    <3>2. \A t \in 1..s - 1 : (\A u \in 1..s - 1 : u <= t) => t = s - 1
      BY <3>1
    <3>3. \A u \in 1..s - 1 : u <= s - 1
      OBVIOUS
    <3>4. (CHOOSE t \in 1..s - 1 : \A u \in 1..s - 1 : u <= t) = s - 1
      BY <3>1, <3>2, <3>3
    <3>5. receipts[s - 1].digest \in Seq(Bodies) /\ Len(receipts[s - 1].digest) = s - 1
      BY <3>1 DEF ChainLinked, Row
    <3>6. {t \in DOMAIN receipts : t < s} = 1..s - 1 /\ 1..s - 1 # {}
      BY <1>1, <3>1
    <3>7. Previous(s) = receipts[s - 1].digest
      BY <3>4, <3>6 DEF Previous
    <3>8. QED
      BY <2>2, <3>5, <3>7 DEF Before
  <2>3. QED
    BY <2>1, <2>2
<1>4. QED
  BY <1>1, <1>2, <1>3

LEMMA RowsStay ==
  ASSUME UNCHANGED <<receipts, damaged>>
  PROVE  \A s : Before(s)' = Before(s) /\ (Digested(s)' <=> Digested(s))
<1>1. \A s : Before(s)' = Before(s)
  BY DEF Before
<1>2. QED
  BY <1>1 DEF Digested

(* A process lets go of what it was about to append.                       *)
LEMMA AppendLeft ==
  ASSUME NEW n \in Nat, ChainLinked(n), NEW p \in Processes,
         appending' = [appending EXCEPT ![p] = Idle], UNCHANGED <<receipts, damaged>>
  PROVE  ChainLinked(n)'
<1>1. /\ appending' \in [Processes -> {Idle} \cup Selected(n)] /\ Idle.step = "idle"
      /\ appending'[p] = Idle /\ \A q \in Processes \ {p} : appending'[q] = appending[q]
  BY DEF ChainLinked, Idle
<1>2. QED
  BY <1>1, RowsStay DEF ChainLinked

LEMMA SelectKeeps ==
  ASSUME NEW n \in Nat, ChainLinked(n), NEW p \in Processes, NEW event \in Events,
         NEW metadata \in Metadata, SelectLast(p, event, metadata)
  PROVE  ChainLinked(n)'
<1> DEFINE next == [step |-> "selected", sequence |-> n + 1, event |-> event,
                    metadata |-> Redacted(metadata), previous |-> Before(n + 1)]
<1>1. appending' = [appending EXCEPT ![p] = next] /\ UNCHANGED <<receipts, damaged>>
  <2>1. LastSequence = n /\ Previous(n + 1) = Before(n + 1)
    BY LastAndPrevious
  <2>2. QED
    BY <2>1 DEF SelectLast
<1>2. next \in Selected(n) /\ next.previous = Before(n + 1)
  BY LastAndPrevious DEF Selected, Told
<1> HIDE DEF next
<1>3. appending' \in [Processes -> {Idle} \cup Selected(n)]
  BY <1>1, <1>2 DEF ChainLinked
<1>4. UNCHANGED receipts
  BY <1>1
<1>5. \A q \in Processes :
        appending'[q].step = "selected" /\ appending'[q].sequence = n + 1 =>
          appending'[q].previous = Before(n + 1)
  BY <1>1, <1>2 DEF ChainLinked
<1>6. QED
  BY <1>1, <1>3, <1>5, RowsStay DEF ChainLinked

(* The row that is inserted is the next one, and was read against the last. *)
LEMMA InsertKeeps ==
  ASSUME NEW n \in Nat, ChainLinked(n), NEW p \in Processes, Insert(p)
  PROVE  ChainLinked(n + 1)'
<1> DEFINE chosen == appending[p]
           row == [event |-> chosen.event, metadata |-> Stored(chosen.metadata),
                   previous |-> Before(n + 1),
                   digest |-> Append(Before(n + 1), Body(n + 1, chosen.event, chosen.metadata))]
<1>1. chosen.step = "selected" /\ chosen \in Selected(n)
  BY DEF Insert, ChainLinked, Idle
<1>2. chosen.sequence = n + 1
  <2>1. chosen.sequence \in 1..n + 1
    BY <1>1 DEF Selected
  <2>2. chosen.sequence \notin 1..n
    BY LastAndPrevious DEF Insert, Insertable, RowNumber
  <2>3. QED
    BY <2>1, <2>2
<1>3. /\ chosen.previous = Before(n + 1) /\ chosen.event \in Events /\ chosen.metadata \in Told
  BY <1>1, <1>2 DEF ChainLinked, Selected
<1>4. DOMAIN receipts \cup {n + 1} = 1..n + 1 /\ DOMAIN receipts = 1..n
  <2>1. DOMAIN receipts = 1..n
    BY DEF ChainLinked
  <2>2. (1..n) \cup {n + 1} = 1..n + 1
    OBVIOUS
  <2>3. QED
    BY <2>1, <2>2
<1>5. /\ receipts' = [s \in 1..n + 1 |-> IF s = n + 1 THEN row ELSE receipts[s]]
      /\ appending' = [appending EXCEPT ![p] = Idle] /\ UNCHANGED damaged
  BY <1>2, <1>3, <1>4 DEF Insert, RowNumber
<1>6. Body(n + 1, chosen.event, chosen.metadata) \in Bodies
  BY <1>3 DEF Body, Bodies
<1>7. /\ Before(n + 1) \in Seq(Bodies) /\ Len(Before(n + 1)) = n
      /\ row.digest \in Seq(Bodies) /\ Len(row.digest) = n + 1
  BY <1>6, LastAndPrevious, AppendFacts
<1>8. row \in Row
  BY <1>3, <1>7 DEF Row
<1>9. /\ row.previous = Before(n + 1) /\ row.event = chosen.event
      /\ row.metadata = Stored(chosen.metadata)
      /\ row.digest = Append(Before(n + 1), Body(n + 1, chosen.event, chosen.metadata))
  OBVIOUS
<1>10. \A s \in 1..n + 1 : Before(s)' = Before(s)
  BY <1>5 DEF Before
<1> HIDE DEF row, chosen
<1>11. receipts' \in [1..n + 1 -> Row]
  BY <1>5, <1>8 DEF ChainLinked
<1>12. damaged' \subseteq 1..n + 1 /\ n + 1 \notin damaged
  BY <1>5 DEF ChainLinked
<1>13. ASSUME NEW s \in 1..n + 1
       PROVE  receipts'[s].previous = Before(s)' /\ Len(receipts'[s].digest) = s /\ Digested(s)'
  <2>1. CASE s = n + 1
    <3>1. receipts'[s] = row /\ Before(s)' = Before(n + 1) /\ s \notin damaged'
      BY <2>1, <1>5, <1>10, <1>12
    <3>2. Digested(s)'
      BY <2>1, <3>1, <1>3, <1>9 DEF Digested
    <3>3. QED
      BY <2>1, <3>1, <3>2, <1>7, <1>9
  <2>2. CASE s \in 1..n
    <3>1. receipts'[s] = receipts[s] /\ Before(s)' = Before(s) /\ damaged' = damaged
      BY <2>2, <1>5, <1>10
    <3>2. receipts[s].previous = Before(s) /\ Len(receipts[s].digest) = s /\ Digested(s)
      BY <2>2 DEF ChainLinked
    <3>3. Digested(s)'
      BY <3>1, <3>2 DEF Digested
    <3>4. QED
      BY <3>1, <3>2, <3>3
  <2>3. QED
    BY <2>1, <2>2
<1>14. appending' \in [Processes -> {Idle} \cup Selected(n + 1)]
  BY <1>5 DEF ChainLinked, Selected
<1>15. ASSUME NEW q \in Processes, appending'[q].step = "selected"
       PROVE  appending'[q].sequence # n + 1 + 1
  BY <1>5, <1>15 DEF ChainLinked, Selected, Idle
<1>16. QED
  BY <1>11, <1>12, <1>13, <1>14, <1>15, <1>5 DEF ChainLinked

LEMMA DamageKeeps ==
  ASSUME NEW n \in Nat, ChainLinked(n), NEW s \in DOMAIN receipts, Damage(s)
  PROVE  ChainLinked(n)'
<1>1. /\ s \in 1..n /\ receipts \in [1..n -> Row] /\ damaged' = damaged \cup {s}
      /\ receipts' = [receipts EXCEPT ![s].event = Garbled] /\ UNCHANGED appending
  BY DEF Damage, ChainLinked
<1>2. ASSUME NEW t \in 1..n
      PROVE  /\ receipts'[t] \in Row /\ receipts'[t].digest = receipts[t].digest
             /\ receipts'[t].previous = receipts[t].previous
             /\ receipts'[t].metadata = receipts[t].metadata
             /\ receipts'[t].event = IF t = s THEN Garbled ELSE receipts[t].event
  BY <1>1 DEF Row
<1>3. receipts' \in [1..n -> Row]
  BY <1>1, <1>2
<1>4. \A t \in 1..n + 1 : Before(t)' = Before(t)
  BY <1>2 DEF Before
<1>5. ASSUME NEW t \in 1..n
      PROVE  receipts'[t].previous = Before(t)' /\ Len(receipts'[t].digest) = t /\ Digested(t)'
  <2>1. receipts[t].previous = Before(t) /\ Len(receipts[t].digest) = t /\ Digested(t)
    BY DEF ChainLinked
  <2>2. Before(t)' = Before(t)
    BY <1>4
  <2>3. Digested(t)'
    BY <2>1, <2>2, <1>1, <1>2 DEF Digested
  <2>4. QED
    BY <2>1, <2>2, <2>3, <1>2
<1>6. Before(n + 1)' = Before(n + 1)
  BY <1>4
<1>7. damaged' \subseteq 1..n
  BY <1>1 DEF ChainLinked
<1>8. \A p \in Processes :
        appending'[p].step = "selected" /\ appending'[p].sequence = n + 1 =>
          appending'[p].previous = Before(n + 1)'
  BY <1>1, <1>6 DEF ChainLinked
<1>9. appending' \in [Processes -> {Idle} \cup Selected(n)]
  BY <1>1 DEF ChainLinked
<1>10. QED
  BY <1>3, <1>5, <1>7, <1>8, <1>9 DEF ChainLinked

LEMMA AuditStepIInv == AuditIInv /\ [AuditNext]_auditVars => AuditIInv'
<1> SUFFICES ASSUME NEW n \in Nat, ChainLinked(n), [AuditNext]_auditVars PROVE AuditIInv'
  BY DEF AuditIInv
<1>1. ASSUME NEW p \in Processes, InsertFails(p) \/ AppendDies(p) PROVE ChainLinked(n)'
  BY <1>1, AppendLeft DEF InsertFails, AppendDies
<1>2. ASSUME NEW p \in Processes, Insert(p) PROVE ChainLinked(n + 1)' /\ n + 1 \in Nat
  BY <1>2, InsertKeeps
<1>3. CASE UNCHANGED auditVars
  <2>1. UNCHANGED <<receipts, appending, damaged>>
    BY <1>3 DEF auditVars
  <2>2. ChainLinked(n)'
    BY <2>1 DEF ChainLinked, Digested, Before
  <2>3. QED
    BY <2>2 DEF AuditIInv
<1>4. QED
  BY <1>1, <1>2, <1>3, SelectKeeps, DamageKeeps DEF AuditNext, AuditIInv

(* The receipts are one chain without a gap or a fork, whoever appends,    *)
(* races and dies (security-audit.ts append).                              *)
THEOREM ReceiptsAreOneChain == AuditSpec => []ChainIsLinear
<1>1. AuditIInv => ChainIsLinear
  <2> SUFFICES ASSUME NEW n \in Nat, ChainLinked(n) PROVE ChainIsLinear
    BY DEF AuditIInv
  <2>1. DOMAIN receipts = 1..n /\ LastSequence = n
    BY LastAndPrevious
  <2>2. ASSUME NEW s \in 1..n
        PROVE  /\ Len(receipts[s].digest) = s /\ receipts[s].previous = Previous(s)
               /\ receipts[s].previous = SubSeq(receipts[s].digest, 1, s - 1)
    <3>1. Previous(s) = Before(s) /\ Before(s) \in Seq(Bodies) /\ Len(Before(s)) = s - 1
      BY LastAndPrevious
    <3>2. PICK event \in Events, metadata \in Told :
            receipts[s].digest = Append(Before(s), Body(s, event, metadata))
      BY DEF ChainLinked, Digested
    <3>3. SubSeq(receipts[s].digest, 1, s - 1) = Before(s)
      BY <3>1, <3>2
    <3>4. QED
      BY <3>1, <3>3 DEF ChainLinked
  <2>3. QED
    BY <2>1, <2>2 DEF ChainIsLinear
<1>2. QED
  BY <1>1, AuditInitIInv, AuditStepIInv, PTL DEF AuditSpec

(* Callers leave no value of the metadata undefined.                       *)
NoneUndefined == \A metadata \in Metadata : \A k \in MetadataKeys : metadata[k] = "given"

Least(S) == CHOOSE s \in S : \A t \in S : s <= t

LEMMA NothingDropped ==
  ASSUME NoneUndefined, NEW metadata \in Told
  PROVE  Stored(metadata) = metadata
<1>1. PICK given \in Metadata : metadata = Redacted(given)
  BY DEF Told
<1>2. DOMAIN given = MetadataKeys /\ \A k \in MetadataKeys : given[k] = "given"
  BY AuditAssumption DEF AuditAssumption, NoneUndefined
<1>3. /\ metadata = [k \in MetadataKeys |-> metadata[k]]
      /\ \A k \in MetadataKeys : metadata[k] # "undefined"
  BY <1>1, <1>2 DEF Redacted
<1>4. QED
  BY <1>3 DEF Stored

(* verify names the first damaged row and no other, as long as no value is *)
(* undefined (security-audit.ts verify; with an undefined value a chain    *)
(* nobody has touched does not verify).                                    *)
THEOREM VerifyFindsTheDamage == NoneUndefined => (AuditSpec => []VerifyReports)
<1> SUFFICES ASSUME NoneUndefined PROVE AuditSpec => []VerifyReports
  OBVIOUS
<1>1. AuditIInv => VerifyReports
  <2> SUFFICES ASSUME NEW n \in Nat, ChainLinked(n) PROVE VerifyReports
    BY DEF AuditIInv
  <2>2. DOMAIN receipts = 1..n /\ damaged \subseteq 1..n
    BY LastAndPrevious DEF ChainLinked
  <2>3. ASSUME NEW s \in 1..n PROVE Matches(s) <=> s \notin damaged
    <3>1. /\ Previous(s) = Before(s) /\ Before(s) \in Seq(Bodies) /\ Len(Before(s)) = s - 1
          /\ receipts[s].previous = Before(s)
      <4>1. s \in 1..n + 1
        OBVIOUS
      <4>2. QED
        BY <4>1, LastAndPrevious DEF ChainLinked
    <3>2. PICK event \in Events, metadata \in Told :
            /\ receipts[s].digest = Append(Before(s), Body(s, event, metadata))
            /\ receipts[s].metadata = metadata
            /\ receipts[s].event = IF s \in damaged THEN Garbled ELSE event
      <4>1. Digested(s)
        BY DEF ChainLinked
      <4>2. QED
        BY <4>1, NothingDropped DEF Digested
    <3>3. CASE s \notin damaged
      BY <3>1, <3>2, <3>3 DEF Matches
    <3>4. CASE s \in damaged
      <4>1. Append(Before(s), Body(s, event, metadata))[s] = Body(s, event, metadata)
        BY <3>1
      <4>2. Append(Before(s), Body(s, Garbled, metadata))[s] = Body(s, Garbled, metadata)
        BY <3>1
      <4>3. Body(s, event, metadata) # Body(s, Garbled, metadata)
        <5>1. Body(s, event, metadata).event = event /\ Body(s, Garbled, metadata).event = Garbled
          BY DEF Body
        <5>2. QED
          BY <5>1, AuditAssumption DEF AuditAssumption
      <4>4. QED
        BY <3>1, <3>2, <3>4, <4>1, <4>2, <4>3 DEF Matches
    <3>5. QED
      BY <3>3, <3>4
  <2>4. {s \in DOMAIN receipts : ~Matches(s)} = damaged
    BY <2>2, <2>3
  <2> DEFINE invalid == {s \in DOMAIN receipts : ~Matches(s)}
  <2>5. FirstInvalid =
          IF invalid = {} THEN 0 ELSE Least(invalid)
    BY DEF FirstInvalid, Least
  <2>6. invalid = damaged
    BY <2>4
  <2>7. FirstInvalid = IF damaged = {} THEN 0 ELSE Least(damaged)
    BY <2>5, <2>6
  <2>8. QED
    BY <2>7 DEF VerifyReports, Least
<1>2. QED
  BY <1>1, AuditInitIInv, AuditStepIInv, PTL DEF AuditSpec
=============================================================================
