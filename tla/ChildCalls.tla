----------------------------- MODULE ChildCalls -----------------------------
(***************************************************************************)
(* One call that runs a child process: a desktop batch through a bridge    *)
(* (stdio-desktop.ts, the bridge executables and their workers) or a       *)
(* command-line adapter (cli-adapter.ts).                                  *)
(*                                                                         *)
(* A bridge reads one envelope, starts the worker that acts on the         *)
(* desktop, waits for it and prints its answer; a command-line adapter     *)
(* acts itself.  The runtime waits for the child to close while a timer,   *)
(* an abort, too much output or a broken pipe may end it early.  On POSIX  *)
(* a bridge leads a process group and signals reach its worker; on Windows *)
(* they reach the bridge alone.  An adapter gets SIGTERM and nothing more. *)
(***************************************************************************)
EXTENDS Naturals, Sequences

CONSTANTS
  BatchLength,     \* actions of the batch
  Stubborn         \* kinds of calls whose child may ignore SIGTERM

FirstParty == {"linux", "macos", "windows"}

Grouped == {"linux", "macos", "foreign"}  \* kinds whose bridge leads a process group

Bridged == FirstParty \cup {"foreign"}    \* somebody else's bridge, on POSIX

CallKinds == Bridged \cup {"cli"}

ASSUME ChildAssumption == BatchLength \in Nat \ {0} /\ Stubborn \subseteq CallKinds

VARIABLES
  request,         \* kind of call, and the batch's stopOnError
  stage,            \* of the call: "idle", "running" or "returned"
  flags,           \* why the runtime asked the child to go
  forced,          \* whether SIGKILL was sent
  child, worker,   \* "none", "reading", "waiting", "alive", "answered", "failed", "killed"
  results,         \* status of each action the worker has tried
  acted,           \* actions that were completed, in order (history)
  outcome          \* what the caller got

childVars == <<request, stage, flags, forced, child, worker, results, acted, outcome>>

Exited == {"none", "answered", "failed", "killed"}

Bridge == request.kind \in Bridged

ChildInit ==
  /\ request = [kind |-> "cli", stop |-> TRUE]
  /\ stage = "idle"
  /\ flags = {} /\ forced = FALSE
  /\ child = "none" /\ worker = "none"
  /\ results = <<>> /\ acted = <<>>
  /\ outcome = "none"

-----------------------------------------------------------------------------
(* assertApplicationAllowed: what the endpoint blocks, and what a list of  *)
(* allowed applications does not name.                                     *)
ApplicationAllowed(policy, application) ==
  /\ application # "blocked"
  /\ policy.lists => application = "listed"

(* assertSafeDesktopBatch, of one action: supported, for an application    *)
(* the policy knows, its screenshot beneath the output directory.          *)
SafeAction(policy, action) ==
  /\ action.supported
  /\ policy.lists \/ policy.blocks => action.application # "none"
  /\ action.application # "none" => ApplicationAllowed(policy, action.application)
  /\ action.screenshot # "no" => policy.directory /\ action.screenshot = "beneath"

ApplicationPolicies == [lists : BOOLEAN, blocks : BOOLEAN, directory : BOOLEAN]

BatchActions(policy) ==
  [supported : BOOLEAN, screenshot : {"no", "beneath", "elsewhere"},
   application : {"none", "other"} \cup (IF policy.lists THEN {"listed"} ELSE {})
                                  \cup (IF policy.blocks THEN {"blocked"} ELSE {})]

(* resolveDesktopEnvironment takes an empty variable for a value, ...      *)
DesktopEnvironment(value) == value # "unset"

(* ... resolveAdapterEnvironment does not.                                 *)
AdapterEnvironment(value) == value = "given"

(* isDesktopEndpointPlatformCompatible.                                    *)
PlatformCompatible(kind, host) ==
  host # "other" /\ (kind \in FirstParty => kind = host)

(* What refuses a call before there is a child: the policy of the endpoint, *)
(* the platform, a variable that is not set, an abort before the call.     *)
Reject(kind, stop) ==
  /\ stage = "idle"
  /\ \E value \in {"given", "empty", "unset"}, host \in FirstParty \cup {"other"}, early \in BOOLEAN :
       IF kind \in Bridged
       THEN \/ \E policy \in ApplicationPolicies :
                 \E action \in BatchActions(policy) : ~SafeAction(policy, action)
            \/ ~PlatformCompatible(kind, host) \/ ~DesktopEnvironment(value) \/ early
       ELSE ~AdapterEnvironment(value)
  /\ request' = [kind |-> kind, stop |-> stop]
  /\ stage' = "returned" /\ outcome' = "thrown"
  /\ UNCHANGED <<flags, forced, child, worker, results, acted>>

(* spawn, or its failure, which is reported as an error of the child.      *)
Spawn(kind, stop) ==
  /\ stage = "idle"
  /\ request' = [kind |-> kind, stop |-> stop]
  /\ stage' = "running"
  /\ \/ child' = "reading" /\ UNCHANGED flags
     \/ child' = "failed" /\ flags' = {"spawn"}
  /\ UNCHANGED <<forced, worker, results, acted, outcome>>

(* readBridgeEnvelope: an envelope that does not fit is answered with a    *)
(* failure; otherwise the worker starts.  A macOS bridge starts one worker *)
(* after the other.                                                        *)
ReadEnvelope ==
  /\ child = "reading" /\ Bridge
  /\ \/ child' = "failed" /\ UNCHANGED worker
     \/ child' = "waiting" /\ worker' = "alive"
  /\ UNCHANGED <<request, stage, flags, forced, results, acted, outcome>>

AllTried == Len(results) = BatchLength

SomeActionFailed == \E i \in 1..Len(results) : results[i] = "failed"

Stopped == SomeActionFailed /\ request.stop

(* The batch is gone through in order; an action is completed or fails:    *)
(* its target is not found, its kind is not supported, a parameter lacks.  *)
Attempt ==
  /\ ~AllTried /\ ~Stopped
  /\ \/ results' = Append(results, "succeeded") /\ acted' = Append(acted, Len(results) + 1)
     \/ results' = Append(results, "failed") /\ UNCHANGED acted
  /\ UNCHANGED <<request, stage, flags, forced, child, worker, outcome>>

(* The workers of the bridges, each by its own means, ...                  *)
AtspiAction == worker = "alive" /\ request.kind = "linux" /\ Attempt

UiaAction == worker = "alive" /\ request.kind = "windows" /\ Attempt

JxaAction == worker = "alive" /\ request.kind = "macos" /\ Attempt

(* ... and programs of others: a bridge of theirs, an adapter.             *)
ForeignAction ==
  /\ \/ worker = "alive" /\ request.kind = "foreign"
     \/ child = "reading" /\ request.kind = "cli"
  /\ Attempt

(* The worker prints its answer and exits, or dies.                        *)
WorkerEnds ==
  /\ worker = "alive"
  /\ \/ worker' = "answered" /\ (AllTried \/ Stopped)
     \/ worker' = "failed"
  /\ UNCHANGED <<request, stage, flags, forced, child, results, acted, outcome>>

(* The bridge's own timer kills the worker.                                *)
BridgeTimer ==
  /\ worker = "alive" /\ child = "waiting"
  /\ worker' = "killed"
  /\ UNCHANGED <<request, stage, flags, forced, child, results, acted, outcome>>

(* The bridge passes the answer on, or reports a failure and exits with a  *)
(* code; ...                                                               *)
BridgeEnds ==
  /\ child = "waiting" /\ worker \in {"answered", "failed", "killed"}
  /\ child' = IF worker = "answered" THEN "answered" ELSE "failed"
  /\ UNCHANGED <<request, stage, flags, forced, worker, results, acted, outcome>>

(* ... an adapter ends by itself.                                          *)
AdapterEnds ==
  /\ child = "reading" /\ ~Bridge
  /\ child' \in {"answered", "failed"}
  /\ UNCHANGED <<request, stage, flags, forced, worker, results, acted, outcome>>

(* The child dies without a signal of the runtime.                         *)
ChildDies ==
  /\ child \notin Exited
  /\ child' = "failed"
  /\ UNCHANGED <<request, stage, flags, forced, worker, results, acted, outcome>>

-----------------------------------------------------------------------------
(* Mutant: signals go to the child alone on every host.                    *)
ReachesNobody == FALSE

(* process.kill(-pid) where the bridge leads a group, else the child.      *)
ReachesWorker == request.kind \in Grouped

Kill ==
  /\ child' = IF child \in Exited THEN child ELSE "killed"
  /\ worker' = IF ReachesWorker /\ worker \notin Exited THEN "killed" ELSE worker

(* SIGTERM; what ignores it is the child, the workers do not.              *)
Terminated ==
  \/ Kill
  \/ /\ request.kind \in Stubborn
     /\ worker' = IF ReachesWorker /\ worker \notin Exited THEN "killed" ELSE worker
     /\ UNCHANGED child

(* What ends a call early: a bridge call sets a flag first in every case,  *)
(* an adapter's abort sets none, and a broken pipe is not listened for.    *)
BridgeCauses == {"timeout", "abort", "output", "stdin"}

AdapterCauses == {"timeout", "abort", "output"}

Causes == IF Bridge THEN BridgeCauses ELSE AdapterCauses

(* terminate of a bridge call runs once, an adapter is killed every time.  *)
Disturb(cause) ==
  /\ stage = "running"
  /\ cause \in Causes \ flags
  /\ flags' = flags \cup {cause}
  /\ IF flags \cap Causes = {} \/ ~Bridge THEN Terminated ELSE UNCHANGED <<child, worker>>
  /\ UNCHANGED <<request, stage, forced, results, acted, outcome>>

(* Mutant: nothing follows SIGTERM.                                        *)
NeverForced == FALSE

(* The timer of terminate, 150 ms later, unless the child closed before.   *)
MayForce == Bridge /\ ~forced

ForceKill ==
  /\ stage = "running"
  /\ flags \cap Causes # {} /\ MayForce
  /\ forced' = TRUE
  /\ Kill
  /\ UNCHANGED <<request, stage, flags, results, acted, outcome>>

(* Mutant: success as soon as something succeeded.                         *)
SomeStatus == IF acted # <<>> THEN "succeeded" ELSE "failed"

(* The status the workers compute from their results.                      *)
WorkerStatus ==
  IF ~SomeActionFailed THEN "succeeded" ELSE IF acted = <<>> THEN "failed" ELSE "partial"

(* normalizeResult and assertActionCorrelation: the results come in the    *)
(* order of the batch, and success needs one for every action.  Somebody   *)
(* else's bridge may report any status.                                    *)
Reported(status) ==
  IF request.kind = "foreign" THEN {"succeeded", "failed", "partial", "thrown"}
  ELSE IF status = "succeeded" /\ ~AllTried THEN {"thrown"} ELSE {status}

(* execute: any flag, a failed start and an exit code other than zero come *)
(* first.                                                                  *)
BridgeAnswer ==
  IF flags # {} \/ child # "answered" THEN {"thrown"} ELSE Reported(WorkerStatus)

(* executeCli: an abort is seen by the exit code only; a failed result     *)
(* stands for all that is thrown elsewhere, text or JSON for the rest.     *)
AdapterAnswer ==
  IF flags \ {"abort"} # {} \/ child # "answered" THEN {"thrown"} ELSE {"output", "thrown"}

(* 'close' of the child settles the call.                                  *)
Close ==
  /\ stage = "running"
  /\ child \in Exited
  /\ stage' = "returned"
  /\ outcome' \in IF Bridge THEN BridgeAnswer ELSE AdapterAnswer
  /\ UNCHANGED <<request, flags, forced, child, worker, results, acted>>

ChildNext ==
  \/ \E kind \in CallKinds, stop \in BOOLEAN : Reject(kind, stop) \/ Spawn(kind, stop)
  \/ ReadEnvelope \/ WorkerEnds \/ BridgeTimer \/ BridgeEnds \/ AdapterEnds \/ ChildDies
  \/ \E cause \in {"timeout", "abort", "output", "stdin"} : Disturb(cause)
  \/ AtspiAction \/ UiaAction \/ JxaAction \/ ForeignAction
  \/ ForceKill \/ Close

ChildSpec == ChildInit /\ [][ChildNext]_childVars

-----------------------------------------------------------------------------
(* Properties                                                              *)

ChildTypeOK ==
  /\ request \in [kind : CallKinds, stop : BOOLEAN]
  /\ stage \in {"idle", "running", "returned"}
  /\ flags \subseteq {"spawn", "timeout", "abort", "output", "stdin"} /\ forced \in BOOLEAN
  /\ {child, worker} \subseteq Exited \cup {"reading", "waiting", "alive"}
  /\ results \in Seq({"succeeded", "failed"}) /\ acted \in Seq(1..BatchLength)
  /\ outcome \in {"none", "succeeded", "failed", "partial", "output", "thrown"}

(* A batch a first-party bridge reports as succeeded completed every       *)
(* action once, in order, and nothing cut it short; one reported failed    *)
(* completed none.                                                         *)
OutcomeIsTrue ==
  request.kind \in FirstParty =>
    /\ outcome = "succeeded" => acted = [i \in 1..BatchLength |-> i] /\ flags = {}
    /\ outcome = "failed" => acted = <<>>
    /\ outcome = "partial" => acted # <<>> /\ Len(acted) < BatchLength

(* Where process groups exist, a bridge call that was ended early has      *)
(* ended its worker as well: nothing acts after the caller was answered    *)
(* (docs/desktop-control.md:122).  A bridge that ignores SIGTERM may still *)
(* start a worker after it and exit before SIGKILL is due.                 *)
EndedCallIsQuiet ==
  stage = "returned" /\ request.kind \in Grouped \ Stubborn /\ flags \cap Causes # {}
    => worker \in Exited

(* Every call is answered, whatever its child does, except an adapter that *)
(* ignores SIGTERM.                                                        *)
CallReturns ==
  stage = "running" ~> stage = "returned" \/ request.kind \in Stubborn \cap {"cli"}
=============================================================================
