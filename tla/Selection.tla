------------------------------ MODULE Selection ------------------------------
(***************************************************************************)
(* Capabilities: how discovery sets their availability (discovery.ts and   *)
(* the discover operations of runtime.ts), and how a bound capability is   *)
(* matched and ranked (supervision-allocator.ts).                          *)
(*                                                                         *)
(* A capability is a document; discovery awaits its probes and writes the  *)
(* whole document again, so what the last writer found stays.  The ranking *)
(* is handed to Array.prototype.sort as a comparator: it means something   *)
(* only when the comparator orders any three candidates consistently.      *)
(***************************************************************************)
EXTENDS Integers, Sequences

CONSTANTS
  Capabilities,    \* ids, natural numbers ordered as localeCompare orders them
  Findings,        \* what a host may show to each probe of a manifest
  UnitCosts,       \* prices
  NoPrice,         \* no unitCost
  Declarations     \* what the manifests of a capability declare: cost and locality

ASSUME SelectionAssumption ==
  /\ Capabilities \subseteq Nat /\ UnitCosts \subseteq Nat /\ NoPrice \notin Nat
  /\ Declarations \in [Capabilities -> SUBSET [class : {"no-usage-fee", "metered", "unknown"},
                                             price : UnitCosts \cup {NoPrice}, local : BOOLEAN]]
  /\ \A f \in Findings : f \in Seq(
       [probe : {"inapplicable"}]
       \cup [probe : {"command"}, seen : Seq({"absent", "runs", "fails"})]
       \cup [probe : {"path"}, seen : Seq({"absent", "exists"})]
       \cup [probe : {"environment"}, seen : Seq({"given", "empty"}), match : {"any", "all"}]
       \cup [probe : {"http"}, url : {"plain", "malformed", "credentials"},
            status : Nat, accepted : SUBSET (100..599)])

Levels == <<"unverified", "discovered", "configured", "validated", "trusted">>

Documented(declared, level, state) ==
  [class |-> declared.class, price |-> declared.price, local |-> declared.local,
   level |-> level, state |-> state]

VARIABLE capability      \* capability[c]: the document, or Unregistered

Unregistered == [class |-> "unknown", price |-> NoPrice, local |-> FALSE,
                 level |-> "unverified", state |-> "none"]

SelectionInit == capability = [c \in Capabilities |-> Unregistered]

-----------------------------------------------------------------------------
(* commandProbe: the first name that resolves decides, runs or not.        *)
CommandProbe(names) ==
  \E i \in DOMAIN names : names[i] = "runs" /\ \A j \in 1..(i - 1) : names[j] = "absent"

PathProbe(paths) == \E i \in DOMAIN paths : paths[i] = "exists"

(* environmentProbe: an empty variable is as good as none.                 *)
EnvironmentProbe(keys, match) ==
  IF match = "any" THEN \E i \in DOMAIN keys : keys[i] = "given"
                   ELSE \A i \in DOMAIN keys : keys[i] = "given"

(* httpProbe: the accepted statuses, else those of success; 0 stands for   *)
(* no answer.                                                              *)
HttpProbe(url, status, accepted) ==
  /\ url = "plain" /\ status # 0
  /\ IF accepted # {} THEN status \in accepted ELSE status \in 200..299

RunProbe(o) ==
  CASE o.probe = "command" -> CommandProbe(o.seen)
    [] o.probe = "path" -> PathProbe(o.seen)
    [] o.probe = "environment" -> EnvironmentProbe(o.seen, o.match)
    [] o.probe = "http" -> HttpProbe(o.url, o.status, o.accepted)

(* discoverManifest: the probes that apply to the host decide.             *)
Applicable(findings) == {i \in DOMAIN findings : findings[i].probe # "inapplicable"}

Activated(findings, activation) ==
  /\ Applicable(findings) # {}
  /\ IF activation = "any" THEN \E i \in Applicable(findings) : RunProbe(findings[i])
                           ELSE \A i \in Applicable(findings) : RunProbe(findings[i])

Discovered(declared, findings, activation) ==
  [declared EXCEPT
     !.state = IF Applicable(findings) = {} THEN "unknown"
               ELSE IF Activated(findings, activation) THEN "available" ELSE "offline",
     !.level = IF Activated(findings, activation) /\ @ = "unverified" THEN "discovered" ELSE @]

PutCapability(c, document) == capability' = [capability EXCEPT ![c] = document]

(* discover: what the manifest declares, with what the probes found.       *)
Discover(c) ==
  \E d \in Declarations[c], findings \in Findings, activation \in {"any", "all"} :
    PutCapability(c, Discovered(Documented(d, "unverified", "unknown"), findings, activation))

(* discoverBrowserCapability: its backend is registered; nobody has opened *)
(* a session.  A browser attached over CDP does not count as local.        *)
DiscoverBrowser(c) ==
  \E managed, backend \in BOOLEAN :
    PutCapability(c, [class |-> "no-usage-fee", price |-> NoPrice, local |-> managed,
      level |-> "configured", state |-> IF backend THEN "available" ELSE "offline"])

(* discoverDesktopCapability: the backend, and the platform of a local one. *)
DiscoverDesktop(c) ==
  \E local, backend, compatible \in BOOLEAN :
    PutCapability(c, [class |-> "no-usage-fee", price |-> NoPrice, local |-> local,
      level |-> "configured",
      state |-> IF backend /\ (local => compatible) THEN "available" ELSE "offline"])

(* What the transport of an MCP server tells: it has listed its tools; ... *)
McpTool(local) ==
  [class |-> IF local THEN "no-usage-fee" ELSE "unknown", price |-> NoPrice,
   local |-> local, level |-> "discovered", state |-> "available"]

(* ... and that of an A2A agent: its card has been fetched.                *)
A2ASkill(local) ==
  [class |-> "unknown", price |-> NoPrice, local |-> local,
   level |-> "discovered", state |-> "available"]

(* discoverAdapterCapabilities puts what the transport tells, one by one;  *)
(* nothing is put when the transport throws.                               *)
DiscoverAdapter(c) ==
  \E local \in BOOLEAN, told \in {"tool", "skill"} :
    PutCapability(c, IF told = "tool" THEN McpTool(local) ELSE A2ASkill(local))

(* putCapability by hand: nothing else writes a degraded one.              *)
Register(c) ==
  \E d \in Declarations[c], level \in {"unverified", "discovered"} :
    PutCapability(c, Documented(d, level, "degraded"))

SelectionNext ==
  \E c \in Capabilities :
    \/ Discover(c) \/ DiscoverBrowser(c) \/ DiscoverDesktop(c) \/ DiscoverAdapter(c)
    \/ Register(c)

SelectionSpec == SelectionInit /\ [][SelectionNext]_capability

-----------------------------------------------------------------------------
(* bindingMatches, without the kinds, operations and modalities, which are *)
(* sets compared with sets.                                                *)
TrustRank(c) == CHOOSE i \in DOMAIN Levels : Levels[i] = capability[c].level

Policies == [preferNoUsageFee : BOOLEAN, preferLocal : BOOLEAN]

BindingMatches(c, localOnly, minimumTrust, allowUnknownCost) ==
  /\ capability[c].state \in {"available", "degraded"}
  /\ localOnly => capability[c].local
  /\ TrustRank(c) >= minimumTrust
  /\ ~allowUnknownCost => capability[c].class # "unknown"

(* JavaScript's Infinity - Infinity is no number, and a comparator that    *)
(* returns it says that two candidates are equal: the keys after the cost  *)
(* are never looked at.                                                    *)
NoUsageFee(c) == capability[c].class = "no-usage-fee"

Infinite(c) == ~NoUsageFee(c) /\ capability[c].price = NoPrice

UnitCost(c) == IF NoUsageFee(c) THEN 0 ELSE capability[c].price

(* Mutant: the cost counts when both are known.                            *)
KnownCosts(l, r) ==
  IF Infinite(l) \/ Infinite(r) THEN 0 ELSE UnitCost(l) - UnitCost(r)

CompareCost(l, r) ==
  CASE Infinite(l) /\ Infinite(r) -> 0
    [] Infinite(l) /\ ~Infinite(r) -> 1
    [] ~Infinite(l) /\ Infinite(r) -> -1
    [] ~Infinite(l) /\ ~Infinite(r) -> UnitCost(l) - UnitCost(r)

Indicator(b) == IF b THEN 1 ELSE 0

(* What the cost leaves undecided.                                         *)
CompareRest(l, r) ==
  LET availability == Indicator(capability[r].state = "available")
                      - Indicator(capability[l].state = "available") IN
  IF availability # 0 THEN availability ELSE l - r

FirstDecisive(keys) ==
  IF \E i \in DOMAIN keys : keys[i] # 0
  THEN keys[CHOOSE i \in DOMAIN keys : keys[i] # 0 /\ \A j \in 1..(i - 1) : keys[j] = 0]
  ELSE 0

(* The comparator of rankBoundCapabilities, for bindings of one priority.  *)
Compare(l, r, policy) ==
  LET noFee == IF policy.preferNoUsageFee
               THEN Indicator(NoUsageFee(r)) - Indicator(NoUsageFee(l)) ELSE 0
      local == IF policy.preferLocal
               THEN Indicator(capability[r].local) - Indicator(capability[l].local) ELSE 0
      trust == TrustRank(r) - TrustRank(l)
      decided == FirstDecisive(<<noFee, local, trust, CompareCost(l, r)>>) IN
  IF decided # 0 THEN decided
  ELSE IF Infinite(l) /\ Infinite(r) /\ l # r THEN 0 ELSE CompareRest(l, r)

-----------------------------------------------------------------------------
(* Properties                                                              *)

SelectionTypeOK ==
  capability \in [Capabilities -> [class : {"no-usage-fee", "metered", "unknown"},
    price : UnitCosts \cup {NoPrice}, local : BOOLEAN, level : {Levels[i] : i \in DOMAIN Levels},
    state : {"none", "unknown", "available", "offline", "degraded"}]]

(* Whatever discovery has found, the ranking is an order: the comparator   *)
(* is antisymmetric, "before" and "as good as" are transitive, and only    *)
(* candidates whose price nobody knows are as good as one another.         *)
RankingIsConsistent ==
  LET usable == {c \in Capabilities : BindingMatches(c, FALSE, 1, TRUE)} IN
  \A policy \in Policies : \A a, b \in usable :
    /\ Compare(a, b, policy) < 0 <=> Compare(b, a, policy) > 0
    /\ a # b /\ Compare(a, b, policy) = 0 => Infinite(a) /\ Infinite(b)
    /\ \A c \in usable :
         /\ Compare(a, b, policy) < 0 /\ Compare(b, c, policy) <= 0 => Compare(a, c, policy) < 0
         /\ Compare(a, b, policy) = 0 /\ Compare(b, c, policy) = 0 => Compare(a, c, policy) = 0
=============================================================================
