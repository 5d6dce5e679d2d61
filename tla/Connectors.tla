----------------------------- MODULE Connectors ------------------------------
(***************************************************************************)
(* A built-in connector (packages/runtime/src/connectors): its             *)
(* configuration, a document that connectors add, configure, enable and    *)
(* disable write; its preflight; and apply, which makes an endpoint of it. *)
(*                                                                         *)
(* Every read and every write of the configuration is a store opened and   *)
(* closed again, so writes of other processes come between any two; a      *)
(* preflight awaits commands, services and the desktop's doctor.  apply    *)
(* reads the configuration, and the preflight it starts reads it again.    *)
(*                                                                         *)
(* An address stands for the url, command, path or cdpUrl of a kind with   *)
(* its other parameters; "malformed" for parameters no endpoint is made of. *)
(***************************************************************************)
EXTENDS Naturals

CONSTANTS
  Shells,          \* processes that run a connectors command
  MaxRevisions     \* bound on the versions of the configuration, for model checking

ASSUME ConnectorsAssumption == MaxRevisions \in Nat

ConnectorKinds == {"model-local", "model-hosted", "mcp-stdio", "mcp-http", "a2a",
          "cli", "browser-managed", "browser-cdp", "desktop"}

Addresses == {"missing", "loopback", "https", "http", "malformed"}

States == {"blocked", "unsupported", "warning", "not-configured", "ok"}

VARIABLES
  kind,            \* of the connector
  configuration,   \* the configured-connector document
  revision,        \* its revision, 0 when there is none
  endpoint,        \* what the endpoint document apply has put rests on
  calling          \* calling[p]: the command a process is in

connectorVars == <<kind, configuration, revision, endpoint, calling>>

Settings == [enabled : BOOLEAN, address : Addresses, key : BOOLEAN]

NoSettings == [enabled |-> FALSE, address |-> "missing", key |-> FALSE]

NoEndpoint == [enabled |-> FALSE, against |-> {}, live |-> "none", overtaken |-> FALSE]

Waiting == [op |-> "none", settings |-> NoSettings, made |-> NoEndpoint]

ConnectorsInit ==
  /\ kind \in ConnectorKinds
  /\ configuration = NoSettings /\ revision = 0
  /\ endpoint = NoEndpoint
  /\ calling = [p \in Shells |-> Waiting]

AnswersShell(p) == calling' = [calling EXCEPT ![p] = Waiting]

-----------------------------------------------------------------------------
(* Mutant: the order of the list is the order of the type.                 *)
AggregateByType(checks) ==
  CASE "ok" \in checks -> "ok" [] "warning" \in checks -> "warning"
    [] "blocked" \in checks -> "blocked" [] "unsupported" \in checks -> "unsupported"
    [] OTHER -> "not-configured"

(* aggregateDiagnosticState and the bridges' aggregateDoctorState.         *)
Aggregate(checks) ==
  CASE "blocked" \in checks -> "blocked"
    [] "blocked" \notin checks /\ "unsupported" \in checks -> "unsupported"
    [] checks \cap {"blocked", "unsupported"} = {} /\ "warning" \in checks -> "warning"
    [] checks \cap {"blocked", "unsupported", "warning"} = {} /\ "not-configured" \in checks
         -> "not-configured"
    [] checks \subseteq {"ok"} -> "ok"

(* assertSafeEndpointUrl, assertSafeAdapterEndpoint, assertSafeBrowserEndpoint: *)
(* HTTPS, or HTTP to this host, with websockets for a browser, whose paths  *)
(* are absolute; a relative one is "malformed".                            *)
SafeModelUrl(address) == address \in {"loopback", "https"}

SafeAdapterUrl(address) == address \in {"loopback", "https"}

SafeBrowser(address) ==
  IF kind = "browser-cdp" THEN address \in {"loopback", "https"} ELSE address # "malformed"

(* The materialize functions: which settings make an endpoint.             *)
ModelEndpoint(settings) ==
  /\ SafeModelUrl(settings.address)
  /\ kind = "model-local" => settings.address = "loopback"

McpEndpoint(settings) ==
  IF kind = "mcp-stdio" THEN settings.address \notin {"missing", "malformed"}
                        ELSE SafeAdapterUrl(settings.address)

A2AEndpoint(settings) == SafeAdapterUrl(settings.address)

CliEndpoint(settings) == settings.address \notin {"missing", "malformed"}

(* A managed browser without an executablePath takes the Chromium that     *)
(* detectChromiumExecutable finds, which may be none.                      *)
BrowserEndpoint(settings, chromium) ==
  /\ SafeBrowser(settings.address)
  /\ kind = "browser-managed" /\ settings.address = "missing" => chromium

(* requiredOutputDir: the parameter of a desktop is a directory.           *)
DesktopEndpoint(settings) == settings.address # "malformed"

(* createFirstPartyDesktopEndpoint, with the environment apply adds: one   *)
(* variable for each name of the settings, and no policy.                  *)
FirstPartyDesktop(settings) ==
  [command |-> TRUE, environment |-> IF settings.key THEN <<"key">> ELSE <<>>,
   allowed |-> {}, blocked |-> {}]

(* assertSafeDesktopEndpoint.                                              *)
SafeDesktop(desktop) ==
  /\ desktop.command
  /\ \A i, j \in DOMAIN desktop.environment :
       desktop.environment[i] = desktop.environment[j] => i = j
  /\ desktop.allowed \cap desktop.blocked = {}

Materializes(settings, chromium) ==
  CASE kind \in {"model-local", "model-hosted"} -> ModelEndpoint(settings)
    [] kind \in {"mcp-stdio", "mcp-http"} -> McpEndpoint(settings)
    [] kind = "a2a" -> A2AEndpoint(settings)
    [] kind = "cli" -> CliEndpoint(settings)
    [] kind \in {"browser-managed", "browser-cdp"} -> BrowserEndpoint(settings, chromium)
    [] kind = "desktop" -> DesktopEndpoint(settings)

Blocked(b) == IF b THEN {} ELSE {"blocked"}

(* The doctors of the three desktops: a display stands for a session of a  *)
(* known type on Linux; without an interpreter for the worker nobody asks  *)
(* for the accessibility service, which on Linux counts as missing.        *)
LinuxDoctor(host) ==
  {"ok"} \cup Blocked(host.worker) \cup Blocked(host.session # "none")
         \cup (IF host.session = "wayland" THEN {"warning"} ELSE {})
         \cup Blocked(host.worker /\ host.access)

MacosDoctor(host) ==
  {"ok"} \cup Blocked(host.worker) \cup (IF host.worker THEN Blocked(host.access) ELSE {})

WindowsDoctor(host) ==
  {"ok"} \cup Blocked(host.worker) \cup (IF host.worker THEN Blocked(host.access) ELSE {})

DoctorChecks(host) ==
  CASE host.os = "linux" -> LinuxDoctor(host)
    [] host.os = "macos" -> MacosDoctor(host)
    [] host.os = "windows" -> WindowsDoctor(host)

(* A host in its usual state, but for one thing.                           *)
Usual(os) == [os |-> os, platform |-> TRUE, commands |-> TRUE, variable |-> TRUE, answers |-> TRUE,
              chromium |-> TRUE, worker |-> TRUE, session |-> "x11", access |-> TRUE]

UnusualHosts ==
  UNION {{Usual(os), [Usual(os) EXCEPT !.session = "wayland"], [Usual(os) EXCEPT !.session = "none"]}
         \cup {[Usual(os) EXCEPT ![f] = FALSE] : f \in DOMAIN Usual(os) \ {"os", "session"}} :
           os \in {"linux", "macos", "windows"}}

(* modelReachabilityCheck and mcpDiscoveryCheck, for an enabled connector. *)
Live(settings, host) ==
  IF kind \notin {"model-local", "model-hosted", "mcp-stdio", "mcp-http"}
     \/ ~settings.enabled THEN "none"
  ELSE IF Materializes(settings, host.chromium) /\ host.answers THEN "ok" ELSE "blocked"

(* Every built-in connector is experimental.                               *)
Compatibility == "warning"

(* runConnectorPreflight on a configuration and a host.                    *)
Checks(settings, host) ==
  {"ok"} \cup (IF settings.enabled THEN {} ELSE {"warning"})
  \cup IF ~host.platform THEN {"unsupported"}
       ELSE (IF kind = "desktop" /\ ~host.commands THEN {"blocked"} ELSE {})
            \cup (IF settings.key /\ ~host.variable THEN {"blocked"} ELSE {})
            \cup ({Live(settings, host)} \ {"none"})
            \cup (IF kind = "desktop" THEN DoctorChecks(host) ELSE {})
            \cup {Compatibility}

-----------------------------------------------------------------------------
(* connectors add, configure, enable and disable read ...                  *)
ReadConfiguration(p, op) ==
  /\ calling[p] = Waiting
  /\ op = "add" <=> revision = 0
  /\ calling' = [calling EXCEPT ![p] = [@ EXCEPT !.op = op, !.settings = configuration]]
  /\ UNCHANGED <<kind, configuration, revision, endpoint>>

(* ... and write what they read with their own change.                     *)
Changed(op, settings) ==
  CASE op = "add" -> {settings}
    [] op = "enable" -> {[settings EXCEPT !.enabled = TRUE]}
    [] op = "disable" -> {[settings EXCEPT !.enabled = FALSE]}
    [] op = "configure" -> {[settings EXCEPT !.address = a] : a \in Addresses \ {"missing"}}
                           \cup {[settings EXCEPT !.key = TRUE]}

WriteConfiguration(p) ==
  /\ calling[p].op \in {"add", "configure", "enable", "disable"}
  /\ revision < MaxRevisions
  /\ configuration' \in Changed(calling[p].op, calling[p].settings)
  /\ revision' = revision + 1
  /\ AnswersShell(p)
  /\ UNCHANGED <<kind, endpoint>>

(* applyConfiguredConnector: present and enabled.                          *)
ReadApplied(p) ==
  /\ calling[p] = Waiting
  /\ revision # 0 /\ configuration.enabled
  /\ calling' = [calling EXCEPT ![p] = [@ EXCEPT !.op = "apply", !.settings = configuration]]
  /\ UNCHANGED <<kind, configuration, revision, endpoint>>

(* runConnectorPreflight reads the configuration once more, then awaits its *)
(* checks, which depend on nothing the store may still change; apply       *)
(* refuses most verdicts.                                                  *)
Preflight(p) ==
  LET settings == calling[p].settings IN
  /\ calling[p].op = "apply"
  /\ \E host \in UnusualHosts :
       IF Aggregate(Checks(configuration, host)) \in {"unsupported", "blocked", "not-configured"}
       THEN AnswersShell(p)
       ELSE calling' = [calling EXCEPT ![p] = [@ EXCEPT !.op = "materialize",
              !.made = [enabled |-> settings.enabled, live |-> Live(configuration, host),
                        against |-> Checks(configuration, host) \cap {"blocked", "unsupported"},
                        overtaken |-> configuration # settings]]]
  /\ UNCHANGED <<kind, configuration, revision, endpoint>>

(* Each put of the runtime looks at its endpoint again.                    *)
PutModelEndpoint(settings) == SafeModelUrl(settings.address)

PutAdapterEndpoint(settings) ==
  kind \in {"mcp-http", "a2a"} => SafeAdapterUrl(settings.address)

PutBrowserEndpoint(settings) == SafeBrowser(settings.address)

PutDesktopEndpoint(settings) == SafeDesktop(FirstPartyDesktop(settings))

AcceptedByPut(settings) ==
  CASE kind \in {"model-local", "model-hosted"} -> PutModelEndpoint(settings)
    [] kind \in {"mcp-stdio", "mcp-http", "a2a", "cli"} -> PutAdapterEndpoint(settings)
    [] kind \in {"browser-managed", "browser-cdp"} -> PutBrowserEndpoint(settings)
    [] kind = "desktop" -> PutDesktopEndpoint(settings)

(* The endpoint is made of the version apply read, and put.                *)
PutEndpoint(p) ==
  /\ calling[p].op = "materialize"
  /\ \E chromium \in BOOLEAN :
       endpoint' = IF Materializes(calling[p].settings, chromium) /\ AcceptedByPut(calling[p].settings)
                   THEN calling[p].made ELSE endpoint
  /\ AnswersShell(p)
  /\ UNCHANGED <<kind, configuration, revision>>

ShellDies(p) ==
  /\ calling[p] # Waiting
  /\ AnswersShell(p)
  /\ UNCHANGED <<kind, configuration, revision, endpoint>>

ConnectorsNext ==
  \E p \in Shells :
    \/ \E op \in {"add", "configure", "enable", "disable"} : ReadConfiguration(p, op)
    \/ WriteConfiguration(p)
    \/ ReadApplied(p) \/ Preflight(p) \/ PutEndpoint(p) \/ ShellDies(p)

ConnectorsSpec == ConnectorsInit /\ [][ConnectorsNext]_connectorVars

-----------------------------------------------------------------------------
(* Properties                                                              *)

ConnectorsTypeOK ==
  /\ configuration \in Settings /\ revision \in 0..MaxRevisions
  /\ endpoint.against \subseteq States /\ endpoint.enabled \in BOOLEAN
  /\ \A p \in Shells : calling[p].settings \in Settings

(* An endpoint comes from a version of the configuration that was enabled, *)
(* after a preflight without a finding against it; a model or MCP service  *)
(* has answered, unless another write came between apply's read and the    *)
(* preflight's.                                                            *)
AppliedWasChecked ==
  endpoint # NoEndpoint =>
    /\ endpoint.enabled
    /\ endpoint.against = {}
    /\ \/ endpoint.live = "ok" \/ endpoint.overtaken
       \/ kind \in {"a2a", "cli", "browser-managed", "browser-cdp", "desktop"}
=============================================================================
