------------------------------ MODULE Service --------------------------------
(***************************************************************************)
(* The service process (packages/runtime/src/service.ts): it opens the     *)
(* runtime, verifies the audit chain, reconciles interrupted assignments,  *)
(* listens, answers /healthz and /readyz, and stops on a signal.           *)
(*                                                                         *)
(* What comes before server.listen is one run of the event loop; the       *)
(* handlers installed there are called by node:http, which is external:    *)
(* it reports 'listening', an error of the socket before or after that,    *)
(* connections, and the end of a close.                                    *)
(***************************************************************************)
EXTENDS Naturals

CONSTANT MaxConnections      \* bound on open connections, for model checking

ASSUME ServiceAssumption == MaxConnections \in Nat

Signals == {"SIGINT", "SIGTERM"}

VARIABLES
  chain,         \* what the audit chain would verify as
  phase,         \* "start", "opened", "verified", "reconciled" or "over"
  socket,        \* "none", "binding", "listening", "draining" or "gone"
  store,         \* "closed" or "open"
  ready, closing,
  handlers,      \* signals with a handler; process.once removes it
  connections,   \* connections that are open
  exitCode,
  erred          \* the listening socket has reported an error (history)

serviceVars == <<chain, phase, socket, store, ready, closing, handlers, connections,
                 exitCode, erred>>

flagVars == <<ready, closing, handlers, connections, erred>>

ServiceInit ==
  /\ chain \in {"valid", "invalid"}
  /\ phase = "start" /\ socket = "none" /\ store = "closed"
  /\ ready = FALSE /\ closing = FALSE /\ handlers = {}
  /\ connections = 0 /\ exitCode = 0 /\ erred = FALSE

-----------------------------------------------------------------------------
(* OpenControlRuntime.open, or an exception that ends the process.         *)
OpenRuntime ==
  /\ phase = "start"
  /\ \/ phase' = "opened" /\ store' = "open" /\ UNCHANGED exitCode
     \/ phase' = "over" /\ exitCode' = 1 /\ UNCHANGED store
  /\ UNCHANGED <<chain, socket, flagVars>>

(* Mutant: what verify returns is not looked at.                           *)
AnyChain == TRUE

Verified == chain = "valid"

(* An invalid chain closes the runtime and ends the process.               *)
VerifyAuditChain ==
  /\ phase = "opened"
  /\ IF Verified
     THEN phase' = "verified" /\ UNCHANGED <<store, exitCode>>
     ELSE phase' = "over" /\ store' = "closed" /\ exitCode' = 1
  /\ UNCHANGED <<chain, socket, flagVars>>

(* reconcileInterruptedAssignments, the handlers, and listen; or its       *)
(* exception.                                                              *)
Reconcile ==
  /\ phase = "verified"
  /\ \/ phase' = "reconciled" /\ socket' = "binding" /\ handlers' = Signals /\ UNCHANGED exitCode
     \/ phase' = "over" /\ exitCode' = 1 /\ UNCHANGED <<socket, handlers>>
  /\ UNCHANGED <<chain, store, ready, closing, connections, erred>>

(* 'listening': ready, also when a signal has come before it.              *)
Listening ==
  /\ phase = "reconciled" /\ socket = "binding"
  /\ socket' = "listening"
  /\ ready' = TRUE
  /\ UNCHANGED <<chain, phase, store, closing, handlers, connections, exitCode, erred>>

(* 'error' of the socket: the address is taken, or, later, an accept that  *)
(* failed.  The runtime is closed; the flags and the socket stay.  Closing *)
(* it once more throws, and nobody catches that.                           *)
SocketError ==
  /\ phase = "reconciled" /\ socket \in {"binding", "listening"}
  /\ exitCode' = 1 /\ erred' = TRUE
  /\ IF store = "open"
     THEN /\ store' = "closed"
          /\ socket' = IF socket = "binding" THEN "gone" ELSE socket
          /\ UNCHANGED <<phase, connections>>
     ELSE phase' = "over" /\ socket' = "gone" /\ connections' = 0 /\ UNCHANGED store
  /\ UNCHANGED <<chain, ready, closing, handlers>>

Connection ==
  /\ socket = "listening" /\ connections < MaxConnections
  /\ connections' = connections + 1
  /\ UNCHANGED <<chain, phase, socket, store, ready, closing, handlers, exitCode, erred>>

ConnectionEnds ==
  /\ connections > 0
  /\ connections' = connections - 1
  /\ UNCHANGED <<chain, phase, socket, store, ready, closing, handlers, exitCode, erred>>

(* The handler of a signal, then shutdown: nothing when it has run before; *)
(* server.close rejects when the server does not listen, and the bind goes *)
(* on; else it waits for the connections.                                  *)
Shutdown(signal) ==
  /\ phase = "reconciled" /\ signal \in handlers
  /\ handlers' = handlers \ {signal}
  /\ closing' = TRUE
  /\ ready' = IF closing THEN ready ELSE FALSE
  /\ socket' = IF ~closing /\ socket = "listening" THEN "draining" ELSE socket
  /\ exitCode' = IF closing THEN 0 ELSE IF socket = "listening" THEN exitCode ELSE 1
  /\ UNCHANGED <<chain, phase, store, connections, erred>>

(* The close is through: the runtime is closed, which throws when an error *)
(* of the socket has closed it before.                                     *)
Drained ==
  /\ socket = "draining" /\ connections = 0
  /\ socket' = "gone"
  /\ store' = "closed"
  /\ exitCode' = IF store = "open" THEN 0 ELSE 1
  /\ UNCHANGED <<chain, phase, flagVars>>

(* A signal without a handler, or nothing left to wait for.                *)
ProcessEnds ==
  /\ phase # "over"
  /\ socket = "gone" \/ handlers # Signals
  /\ phase' = "over" /\ socket' = "gone" /\ store' = "closed" /\ connections' = 0
  /\ UNCHANGED <<chain, ready, closing, handlers, exitCode, erred>>

ServiceNext ==
  \/ OpenRuntime \/ VerifyAuditChain \/ Reconcile \/ Listening \/ SocketError
  \/ Connection \/ ConnectionEnds \/ Drained \/ ProcessEnds
  \/ \E signal \in Signals : Shutdown(signal)

ServiceSpec == ServiceInit /\ [][ServiceNext]_serviceVars

-----------------------------------------------------------------------------
(* The request handler: what the two paths answer.                         *)
Healthz == IF closing THEN 503 ELSE 200

Readyz == IF ready /\ ~closing THEN 200 ELSE 503

(* A service that answers is open for it.                                  *)
Answering == phase = "reconciled" /\ socket \in {"listening", "draining"}

(* Properties                                                              *)

ServiceTypeOK ==
  /\ chain \in {"valid", "invalid"}
  /\ phase \in {"start", "opened", "verified", "reconciled", "over"}
  /\ socket \in {"none", "binding", "listening", "draining", "gone"}
  /\ store \in {"closed", "open"}
  /\ {ready, closing, erred} \subseteq BOOLEAN /\ handlers \subseteq Signals
  /\ connections \in 0..MaxConnections /\ exitCode \in {0, 1}

(* While /readyz answers 200 the chain has verified, assignments are       *)
(* reconciled, the runtime is open and nobody has asked for a stop         *)
(* (docs/public-alpha.md:144); a draining service keeps its runtime for    *)
(* the connections it has.  Both end with an error of the listening        *)
(* socket, which closes the runtime and leaves the service ready.          *)
ReadyIsTrue ==
  Answering /\ ~erred =>
    /\ chain = "valid" /\ store = "open"
    /\ Readyz = 200 => Healthz = 200 /\ handlers = Signals
=============================================================================
