------------------------------ MODULE NodeSetup ------------------------------
(***************************************************************************)
(* The scripts an administrator runs on a node (agent/deploy) and the      *)
(* wg-easy import, over AgentNode: quick-install with the setup scripts    *)
(* and install.sh, quick-reconnect, quick-uninstall.  One runs at a time,  *)
(* as root, command by command, with systemd, the agent and the control    *)
(* plane going on beside it.  Any command may fail and any script may be   *)
(* cut off (set -e, a lost connection, a reboot): what it did stays.       *)
(***************************************************************************)
EXTENDS AgentNode

CONSTANT HandMade  \* parameters of interfaces prepared by hand, sets of at most one element

\* "uninstall" is quick-uninstall.sh, "remove" is install.sh uninstall.
Scripts == {"install", "reconnect", "uninstall", "remove", "import"}

VARIABLES
    at,        \* next step of the script that runs, "idle" if none does
    script,    \* the script that runs, "none" if none does
    outcome,   \* "success" if the last script is an installation that reported it, or "none"
    target,    \* --interface of the installation
    network,   \* its --subnet, or the network of the imported peers: a set of at most one
    draft,     \* the environment file in the script's temporary directory
    awg3Env,   \* .peerblade-awg3.env, one for the node: a set of at most one element, without
               \* parameters while any of them is missing
    scripted,  \* history: interfaces a setup script has configured
    missed     \* history: systemctl has failed to stop the agent that is being, or was, removed

run     == <<script, outcome, target, network>>
history == <<scripted, missed>>
vars    == <<node, at, run, draft, awg3Env, history>>

Init ==
    /\ NodeInit
    /\ at = "idle" /\ script = "none" /\ outcome = "none"
    /\ target = NoInterface /\ network = {}
    /\ draft = {} /\ awg3Env = {} /\ scripted = {} /\ missed = FALSE

\* One step of the script that runs.
Step(from, to) == at = from /\ at' = to /\ UNCHANGED <<run, history>>

\* It ends: its temporary directory goes with it.
EndWith(result) ==
    /\ at' = "idle" /\ script' = "none" /\ outcome' = result
    /\ target' = NoInterface /\ network' = {} /\ draft' = {}
    /\ missed' = (missed /\ env' = {})
    /\ UNCHANGED <<awg3Env, scripted>>

End == EndWith("none")

IsAwg(i) == Transport[i] # "wireguard"

-----------------------------------------------------------------------------
(* Installation: the interface. *)

Begin(kind) ==
    /\ at = "idle" /\ at' = kind
    /\ script' = kind /\ outcome' = "none"
    /\ UNCHANGED <<node, draft, awg3Env, history>>

BeginInstall ==
    /\ Begin("install")
    /\ \/ target' = NoInterface /\ network' = {}
       \/ target' \in Interfaces /\ network' \in {{n} : n \in Networks}

Present(i) == i \in configured \cup links

\* --no-interface
SkipInterface ==
    /\ target = NoInterface
    /\ Step("install", "exchange")
    /\ UNCHANGED <<node, draft, awg3Env>>

\* An interface that is there is kept: awg must show it, and sed must find the file
\* it looks for ListenPort in.
AdoptInterface ==
    /\ target \in configured
    /\ IsAwg(target) => target \in links
    /\ Step("install", "exchange")
    /\ UNCHANGED <<node, draft, awg3Env>>

RefuseInterface ==
    /\ at = "install"
    /\ target \in Interfaces /\ Present(target)
    /\ ~(target \in configured /\ (IsAwg(target) => target \in links))
    /\ UNCHANGED node
    /\ End

\* Variant of NewInterface: setup-amneziawg.sh leaves its values in the same file.
NewInterfaceSharingValues ==
    /\ target \in Interfaces /\ ~Present(target)
    /\ Step("install", IF IsAwg(target) THEN "values" ELSE "file")
    /\ UNCHANGED <<node, draft, awg3Env>>

NewInterface ==
    /\ target \in Interfaces /\ ~Present(target)
    /\ Step("install", IF Transport[target] = "amneziawg3" THEN "values" ELSE "file")
    /\ UNCHANGED <<node, draft, awg3Env>>

\* setup-amneziawg3.sh leaves the parameters for the agent before it writes the
\* interface's configuration: the redirection empties the file of the interface
\* before, eight commands fill it.
OpenValues ==
    /\ Step("values", "fillValues")
    /\ awg3Env' = {[parameters |-> {}, of |-> target]}
    /\ UNCHANGED <<node, draft>>

FillValues ==
    /\ Step("fillValues", "file")
    /\ \E p \in Generated("amneziawg3") : awg3Env' = {[parameters |-> {p}, of |-> target]}
    /\ UNCHANGED <<node, draft>>

\* Variant of Written: AWG 3.x parameters are drawn once more for the file.
WrittenAnew == {{p} : p \in Generated(Transport[target])}

\* The parameters a setup script writes into a configuration file.
Written == CASE Transport[target] = "wireguard"  -> {{}}
             [] Transport[target] = "amneziawg"  -> {{p} : p \in Generated("amneziawg")}
             [] Transport[target] = "amneziawg3" -> {v.parameters : v \in awg3Env}

\* setup-wireguard.sh reads the octets of its address first, the others do not.
WriteFile ==
    /\ at = "file" /\ at' = "link"
    /\ IsAwg(target) \/ network \subseteq Subnets
    /\ configured' = configured \cup {target}
    /\ \E p \in Written : parameters' = [parameters EXCEPT ![target] = p]
    /\ scripted' = scripted \cup {target}
    /\ UNCHANGED <<links, process, installed, token, stateVars, run, draft, awg3Env, missed>>

\* systemctl enable --now wg-quick@, awg show
BringUp ==
    /\ network \subseteq Subnets
    /\ Step("link", "exchange")
    /\ links' = links \cup {target}
    /\ UNCHANGED <<configured, parameters, process, installed, token, stateVars, draft, awg3Env>>

\* An address that is none: setup-wireguard.sh writes nothing, awg-quick fails on
\* what the other two have written.
AddressRefused ==
    /\ ~(network \subseteq Subnets)
    /\ at = IF IsAwg(target) THEN "link" ELSE "file"
    /\ UNCHANGED node
    /\ End

-----------------------------------------------------------------------------
(* The exchange of the enrollment token: the control plane forgets the agent
   token it has issued before. *)

Issue(t) == t \notin {token} \cup {e.token : e \in env \cup loaded} /\ token' = t

Exchange ==
    /\ at = "exchange" /\ at' = IF script = "install" THEN "compose" ELSE "replace"
    /\ \E t \in Tokens :
          /\ Issue(t)
          /\ draft' = {[token |-> t, interface |-> target, network |-> network,
                        parameters |-> {}, of |-> target]}
    /\ missed' = FALSE
    /\ UNCHANGED <<interfaceVars, process, installed, stateVars, run, awg3Env, scripted>>

\* The answer is lost: the script reports that the token was used, which is true.
ExchangeUnanswered ==
    /\ at = "exchange"
    /\ \E t \in Tokens : Issue(t)
    /\ UNCHANGED <<interfaceVars, process, installed, stateVars>>
    /\ End

-----------------------------------------------------------------------------
(* Installation: the agent. *)

Kind(i) == IF i = NoInterface THEN "none" ELSE Transport[i]

\* Where the installer takes the AmneziaWG parameters from: each line of an AWG 1.x
\* configuration is looked for, the file with the AWG 3.x values is copied as it is.
Readable ==
    CASE Kind(target) = "amneziawg"  -> {[parameters |-> p, of |-> target] :
                                             p \in {parameters[target]} \ {{}}}
      [] Kind(target) = "amneziawg3" -> awg3Env
      [] OTHER -> {[parameters |-> {}, of |-> target]}

Compose ==
    /\ Step("compose", "check")
    /\ \E v \in Readable :
          draft' = {[e EXCEPT !.parameters = v.parameters, !.of = v.of] : e \in draft}
    /\ UNCHANGED <<node, awg3Env>>

\* "cannot read ... from ..."
ComposeRefused ==
    /\ at = "compose"
    /\ Readable = {}
    /\ UNCHANGED node
    /\ End

\* install.sh: the environment names every parameter of its transport.
Checked(e) == Kind(e.interface) \in {"amneziawg", "amneziawg3"} => e.parameters # {}

CheckEnvironment ==
    /\ \A e \in draft : Checked(e)
    /\ Step("check", "stop")
    /\ UNCHANGED <<node, draft, awg3Env>>

\* "must contain one ... for AmneziaWG"
EnvironmentRefused ==
    /\ at = "check"
    /\ \E e \in draft : ~Checked(e)
    /\ UNCHANGED node
    /\ End

\* Variant of StopAgent: the files are replaced under a running agent.
LeaveRunning == Step("stop", "binary") /\ UNCHANGED <<node, draft, awg3Env>>

\* install.sh stops a service that is active; one that waits to be restarted is not.
StopAgent ==
    /\ Step("stop", "binary")
    /\ IF service \in {"starting", "serving"} THEN Stopped("off") ELSE UNCHANGED process
    /\ UNCHANGED <<interfaceVars, installed, token, stateVars, draft, awg3Env>>

CopyBinary ==
    /\ Step("binary", "environment")
    /\ parts' = parts \cup {"binary"}
    /\ UNCHANGED <<interfaceVars, process, env, token, stateVars, draft, awg3Env>>

\* Variant of CopyEnvironment: an environment file that is there is kept.
KeepEnvironment ==
    /\ Step("environment", "unit")
    /\ env' = IF env = {} THEN draft ELSE env
    /\ UNCHANGED <<interfaceVars, process, parts, token, stateVars, draft, awg3Env>>

CopyEnvironment ==
    /\ Step("environment", "unit")
    /\ env' = draft
    /\ UNCHANGED <<interfaceVars, process, parts, token, stateVars, draft, awg3Env>>

CopyUnit ==
    /\ Step("unit", "enable")
    /\ parts' = parts \cup {"unit"}
    /\ UNCHANGED <<interfaceVars, process, env, token, stateVars, draft, awg3Env>>

\* systemctl enable --now: a service that is active already is left as it is.
Enable ==
    /\ Step("enable", "report")
    /\ IF service \in {"off", "waiting"} THEN Started ELSE UNCHANGED <<process, stateVars>>
    /\ UNCHANGED <<interfaceVars, installed, token, draft, awg3Env>>

\* systemctl is-active, of a service of Type=simple.
Report ==
    /\ at = "report"
    /\ UNCHANGED node
    /\ EndWith(IF script = "install" /\ service \in {"starting", "serving"} THEN "success" ELSE "none")

-----------------------------------------------------------------------------
(* Reconnection and removal. *)

BeginReconnect == Begin("reconnect") /\ UNCHANGED <<target, network>>

CheckReconnect ==
    /\ Runnable
    /\ Step("reconnect", "exchange")
    /\ UNCHANGED <<node, draft, awg3Env>>

RefuseReconnect ==
    /\ at = "reconnect"
    /\ ~Runnable
    /\ UNCHANGED node
    /\ End

\* Variant of ReplaceCredentials: the token is unset before it is written.
ReplaceCredentialsUnset ==
    /\ Step("replace", "restart")
    /\ env' = {[e EXCEPT !.token = NoToken] : e \in env}
    /\ UNCHANGED <<interfaceVars, process, parts, token, stateVars, draft, awg3Env>>

ReplaceCredentials ==
    /\ Step("replace", "restart")
    /\ env' = {[e EXCEPT !.token = d.token] : e \in env, d \in draft}
    /\ UNCHANGED <<interfaceVars, process, parts, token, stateVars, draft, awg3Env>>

RestartAgent ==
    /\ Step("restart", "report")
    /\ Started
    /\ UNCHANGED <<interfaceVars, installed, token, draft, awg3Env>>

BeginUninstall == Begin("uninstall") /\ UNCHANGED <<target, network>>

\* The agent is identified by its environment file.
CheckUninstall ==
    /\ env # {}
    /\ Step("uninstall", "disable")
    /\ UNCHANGED <<node, draft, awg3Env>>

RefuseUninstall ==
    /\ at = "uninstall"
    /\ env = {}
    /\ UNCHANGED node
    /\ End

BeginRemove == Begin("remove") /\ UNCHANGED <<target, network>>

\* install.sh identifies nothing; it disables a unit that is there.
CheckRemove ==
    /\ Step("remove", IF "unit" \in parts THEN "disable" ELSE "removeUnit")
    /\ UNCHANGED <<node, draft, awg3Env>>

\* Variant of DisableAgent: systemctl disable without --now.
DisableOnly == Step("disable", "removeUnit") /\ UNCHANGED <<node, draft, awg3Env>>

DisableAgent ==
    /\ Step("disable", "removeUnit")
    /\ Stopped("off")
    /\ UNCHANGED <<interfaceVars, installed, token, stateVars, draft, awg3Env>>

\* "|| true": the removal goes on if systemctl fails.
DisableFails ==
    /\ at = "disable" /\ at' = "removeUnit"
    /\ missed' = (missed \/ (script = "uninstall" /\ service # "off"))
    /\ UNCHANGED <<node, run, draft, awg3Env, scripted>>

\* Variant of RemoveUnit: the credentials go first.
RemoveEnvironmentFirst ==
    /\ Step("removeUnit", "removeBinary")
    /\ env' \in {env, {}}
    /\ UNCHANGED <<interfaceVars, process, parts, token, stateVars, draft, awg3Env>>

\* rm -f goes on past a file it cannot remove, and fails after the last.
RemoveUnit ==
    /\ Step("removeUnit", "removeBinary")
    /\ parts' \in {parts, parts \ {"unit"}}
    /\ UNCHANGED <<interfaceVars, process, env, token, stateVars, draft, awg3Env>>

RemoveBinary ==
    /\ script = "uninstall"
    /\ Step("removeBinary", "removeEnvironment")
    /\ parts' \in {parts, parts \ {"binary"}}
    /\ UNCHANGED <<interfaceVars, process, env, token, stateVars, draft, awg3Env>>

\* install.sh leaves the environment where it is.
RemoveBinaryOnly ==
    /\ at = "removeBinary"
    /\ script = "remove"
    /\ parts' \in {parts, parts \ {"binary"}}
    /\ UNCHANGED <<interfaceVars, process, env, token, stateVars>>
    /\ End

RemoveEnvironment ==
    /\ at = "removeEnvironment"
    /\ env' \in {env, {}}
    /\ UNCHANGED <<interfaceVars, process, parts, token, stateVars>>
    /\ End

-----------------------------------------------------------------------------
(* import-wg-easy --write, run as root while the agent is stopped. *)

\* The peers LoadWGEasyState returns are valid and of one network, the server's.
Importable == {{n} : n \in Subnets}

BeginImport ==
    /\ service = "off"
    /\ Begin("import")
    /\ network' \in Importable
    /\ UNCHANGED target

\* Peers that are there are replaced with --force only.
CheckImport ==
    /\ Step("import", "save")
    /\ UNCHANGED <<node, draft, awg3Env>>

RefuseImport ==
    /\ at = "import"
    /\ stored # {}
    /\ UNCHANGED node
    /\ End

SaveImport ==
    /\ at = "save"
    /\ stored' = network /\ fileOwner' = "root"
    /\ dirOwner' = IF dirOwner = "nobody" THEN "root" ELSE dirOwner
    /\ UNCHANGED <<interfaceVars, process, installed, token>>
    /\ End

-----------------------------------------------------------------------------
Cut ==
    /\ at # "idle"
    /\ UNCHANGED node
    /\ End

-----------------------------------------------------------------------------
InstallStep ==
    \/ SkipInterface \/ AdoptInterface \/ RefuseInterface \/ NewInterface
    \/ OpenValues \/ FillValues \/ WriteFile \/ BringUp \/ AddressRefused
    \/ Compose \/ ComposeRefused \/ CheckEnvironment \/ EnvironmentRefused
    \/ StopAgent \/ CopyBinary \/ CopyEnvironment \/ CopyUnit \/ Enable
ReconnectStep == CheckReconnect \/ RefuseReconnect \/ ReplaceCredentials \/ RestartAgent
UninstallStep ==
    \/ CheckUninstall \/ RefuseUninstall \/ CheckRemove
    \/ DisableAgent \/ DisableFails
    \/ RemoveUnit \/ RemoveBinary \/ RemoveBinaryOnly \/ RemoveEnvironment
ImportStep == CheckImport \/ RefuseImport \/ SaveImport
ScriptStep == InstallStep \/ Exchange \/ ReconnectStep \/ UninstallStep \/ ImportStep \/ Report

\* What the agent, systemd and the control plane do beside a script.
Beside(action) == action /\ UNCHANGED <<at, run, draft, awg3Env, history>>

\* The administrator does one thing at a time.
ByHand == StopByHand \/ StartByHand \/ TakeDown \/ TakeUp \/ PrepareByHand(HandMade)

\* The agent comes up without help, within the RestartSec=5s of its unit.
Pending == service \in {"waiting", "starting"} /\ Runnable /\ \A e \in env : ComesUp(e)

\* An administrator who runs the installer again until it reports success, and when
\* the agent is stopped or its server is gone from the panel, and who does not get
\* another token from the panel before a pending start is over.
Needed    == (outcome # "success" \/ service = "off" \/ token = NoToken) /\ ~Pending
Reinstall == at = "idle" /\ Needed /\ BeginInstall

Disturbance ==
    \/ Cut \/ ExchangeUnanswered
    \/ Beside(Die \/ Revoke)
    \/ at = "idle" /\ Beside(ByHand)
    \/ BeginReconnect \/ BeginUninstall \/ BeginRemove \/ BeginImport
    \/ at = "idle" /\ ~Needed /\ BeginInstall

Next ==
    \/ Reinstall \/ ScriptStep
    \/ Beside(AgentStep \/ SavePeers)
    \/ Disturbance

Spec == Init /\ [][Next]_vars

FairSpec == Spec /\ WF_vars(ScriptStep \/ Reinstall) /\ WF_vars(Beside(AgentStep))

-----------------------------------------------------------------------------
Parameters  == {{}} \cup {{p} : p \in UNION {Generated(t) : t \in Transports}} \cup HandMade
Environment == [token : Tokens, interface : Interfaces \cup {NoInterface}, network : SUBSET Networks,
                parameters : Parameters, of : Interfaces \cup {NoInterface}]

TypeOK ==
    /\ configured \subseteq Interfaces /\ links \subseteq configured
    /\ parameters \in [Interfaces -> Parameters]
    /\ parts \subseteq Parts
    /\ \A e \in env \cup loaded \cup draft : e \in Environment
    /\ service \in {"off", "waiting", "starting", "serving"}
    /\ token \in Tokens \cup {NoToken}
    /\ dirOwner \in {"nobody", "root", "agent"} /\ fileOwner \in {"nobody", "root", "agent"}
    /\ stored \subseteq Networks
    /\ script \in Scripts \cup {"none"} /\ outcome \in {"none", "success"}
    /\ target \in Interfaces \cup {NoInterface} /\ network \in SUBSET Networks
    /\ \A v \in awg3Env : v.parameters \in Parameters /\ v.of \in Interfaces
    /\ scripted \subseteq configured /\ missed \in BOOLEAN

\* No agent that the control plane still accepts works with an environment other
\* than the one installed, whatever script was cut off at whatever step and
\* whenever systemd restarted the process; only one that systemctl failed to stop
\* outlives its own removal, until another environment is installed (quick-install,
\* install.sh, quick-reconnect, quick-uninstall).
NoStaleAgent ==
    service = "serving" /\ (\E e \in loaded : e.token = token)
        => loaded = env \/ (missed /\ env = {})

\* The node has one AmneziaWG 3.x interface at most: two share the values file.
OneAwg3Interface ==
    \A i, j \in Interfaces : Transport[i] = "amneziawg3" /\ Transport[j] = "amneziawg3" => i = j

\* On an interface of a setup script's making the agent renders client
\* configurations with the parameters in the configuration file of that interface,
\* whatever was cut off and prepared again: for AWG 3.x they pass through a second
\* file (setup-amneziawg.sh, setup-amneziawg3.sh, quick-install).  With two AWG 3.x
\* interfaces on the node it is false of the one whose script ran first.
ParametersFit ==
    \A e \in env \cup loaded : e.interface \in scripted => Rendered(e) = parameters[e.interface]

\* Nothing refuses an installation after it has spent its token on an interface of
\* a setup script's making: "Everything that could stop us runs before the one-time
\* token is spent", by quick-install.  It is to hold although the setup was cut off
\* and completed by hand and other setups were cut off between two writes (the setup
\* scripts, validate_environment_file).  With two AWG 3.x interfaces it is false.
OwnInterfacesPass ==
    target \in scripted =>
        /\ at = "compose" => Readable # {}
        /\ at = "check" => \A e \in draft : Checked(e)

\* The parameters a setup script has drawn never keep the agent from starting
\* (setup-amneziawg.sh, validateAmneziaParameters).
DrawsAreAccepted ==
    \A e \in env : \A p \in e.parameters : e.of \in scripted => Accepted(Transport[e.interface], p)

\* A removal that is cut off can be repeated: while one runs and a part of the agent
\* is left, so is the file the removal identifies it by.  (One that rm could not
\* finish is not cut off: it may leave a part without that file; quick-uninstall.)
RemovalCanBeRepeated ==
    script = "uninstall" /\ parts # {}
        /\ at \in {"disable", "removeUnit", "removeBinary", "removeEnvironment"} => env # {}

\* What no re-run of the installer repairs: an interface that is configured but
\* down, AmneziaWG interfaces prepared by hand without parameters the agent
\* accepts, a network that is none, peers of another, a state the agent may not read.
Sound ==
    /\ configured \subseteq links
    /\ \A i \in configured : IsAwg(i) =>
          /\ parameters[i] # {}
          /\ \A p \in parameters[i] : Accepted(Transport[i], p)
    /\ fileOwner # "root"
    /\ \A e \in env : e.interface # NoInterface => e.network \subseteq Subnets /\ StateLoads(e)
    /\ target # NoInterface => network \subseteq Subnets /\ stored \subseteq network

\* An installation that reported success has left a node on which the agent comes
\* up, at its next start if not at this one: is-active says nothing of that, the
\* steps before it have to.  It stays so while the node is sound and the server is
\* not removed from the panel (quick-install, install.sh).
SuccessComesUp ==
    outcome = "success" /\ token # NoToken /\ Sound => Runnable /\ \A e \in env : ComesUp(e)

\* Whatever was cut off, refused or revoked before: on a node that is sound, an
\* administrator who repeats the installation gets an agent that serves.
Recovers ==
    <>[][~Disturbance]_vars /\ <>[]Sound
        => <>[](service = "serving" /\ \E e \in loaded : Registers(e))

\* deploy/README: import-wg-easy "can safely convert" wg-easy's peers "into
\* PeerBlade's own local state": the agent that is started on it can read it.
ImportedStateIsReadable == service = "starting" => fileOwner # "root"
-----------------------------------------------------------------------------
(* The inductive invariants behind the safety invariants. *)

\* What a script has established when it takes its next step.
ScriptShape ==
    /\ at \in {"idle", "reconnect"} => target = NoInterface
    /\ at \in {"values", "fillValues", "file"} => target \in Interfaces \ configured
    /\ at \in {"values", "fillValues"} => Transport[target] = "amneziawg3"
    /\ at = "link" => target \in configured
    /\ at \in {"exchange", "compose", "check"} => target \in configured \cup {NoInterface}
    /\ at \in {"compose", "check"} => \A e \in draft : e.interface = target
    /\ service \in {"off", "waiting"} => loaded = {}
    /\ at \in {"uninstall", "remove"} => script = at
    /\ at = "removeEnvironment" => script = "uninstall"
    /\ script = "uninstall" =>
          /\ at \in {"disable", "removeUnit", "removeBinary", "removeEnvironment"} => env # {}
          /\ at \in {"removeUnit", "removeBinary", "removeEnvironment"} =>
                 (service = "off" /\ loaded = {}) \/ missed

\* A process with the token the control plane accepts has read the environment that
\* is installed; until a new token is installed, nobody else has it.
TokenShape ==
    /\ \A e \in loaded : e.token = token => loaded = env \/ (missed /\ env = {})
    /\ at \in {"compose", "check", "stop", "binary", "environment", "replace"} =>
           \A e \in env \cup loaded : e.token # token

\* The values left for the agent are those of the interface they were drawn for, if
\* they are complete, and what is in the configuration of a script's making was
\* drawn for it.
InterfaceShape ==
    /\ \A v, w \in awg3Env : v = w
    /\ \A v \in awg3Env :
          /\ v.parameters \subseteq Generated("amneziawg3")
          /\ Transport[v.of] = "amneziawg3"
          /\ v.of \in scripted => v.parameters = parameters[v.of]
    /\ at = "file" /\ Transport[target] = "amneziawg3" =>
          \E v \in awg3Env : v.of = target /\ v.parameters # {}
    /\ \A i \in scripted :
          /\ parameters[i] \subseteq Generated(Transport[i])
          /\ IsAwg(i) => parameters[i] # {}
          /\ Transport[i] = "amneziawg3" => awg3Env # {}

\* Environment files that install.sh has checked, and the one it is to check.
Installable  == env \cup loaded \cup (IF at \in {"stop", "binary", "environment"} THEN draft ELSE {})
Environments == Installable \cup (IF at = "check" THEN draft ELSE {})

\* The parameters in an environment file come from a configuration that is there; for
\* AWG 3.x from the values file, of whatever interface.
Faithful(e) ==
    /\ e.interface \in configured \cup {NoInterface}
    /\ IF Kind(e.interface) = "amneziawg3"
         THEN e.parameters \subseteq Generated("amneziawg3")
              /\ e.of \in Interfaces /\ Transport[e.of] = "amneziawg3"
         ELSE e.of = e.interface
    /\ e.interface \in scripted /\ e.of = e.interface => e.parameters = parameters[e.interface]
    /\ Kind(e.interface) = "amneziawg" => e.parameters = parameters[e.interface]

EnvironmentShape ==
    /\ \A e \in Environments : Faithful(e)
    /\ \A e \in Installable : Checked(e)

\* Environment files with the token the control plane accepts, if it accepts one.
Current(files) == files # {} /\ \A e \in files : token \in {e.token, NoToken}

\* What an installation has installed when it takes its next step, and what is there
\* when it has reported success.
InstallShape ==
    /\ script = "install" =>
          /\ at \notin {"replace", "restart"}
          /\ at \in {"compose", "check", "stop", "binary", "environment"} => Current(draft)
          /\ at \in {"unit", "enable", "report"} => Current(env)
          /\ at \in {"environment", "unit", "enable", "report"} => "binary" \in parts
          /\ at \in {"enable", "report"} => "unit" \in parts
    /\ outcome = "success" => at = "idle" /\ Current(env) /\ parts = Parts

SetupInv == TypeOK /\ ScriptShape /\ TokenShape /\ InterfaceShape /\ EnvironmentShape /\ InstallShape
=============================================================================
