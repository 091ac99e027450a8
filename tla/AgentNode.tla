------------------------------ MODULE AgentNode ------------------------------
(***************************************************************************)
(* A node with its agent as systemd runs it: the interfaces and their      *)
(* configuration files, the files of the agent, its process, and what the  *)
(* start of the agent makes of them (agent/main.go, NewManager, the unit). *)
(*                                                                         *)
(* A start reads agent.env once; everything it needs is checked then and   *)
(* an agent that does not come up exits and is started again, for ever.    *)
(***************************************************************************)
EXTENDS AmneziaParameters

CONSTANTS
    Interfaces,   \* names of interfaces
    Transport,    \* transport of each
    Networks,     \* values of --subnet that pass quick-install's pattern
    Subnets,      \* those of them that are addresses: no octet above 255
    Tokens,       \* agent tokens in circulation
    NoInterface,  \* stands for the interface of an agent without one
    NoToken       \* stands for the token of a server the control plane does not know

ASSUME NodeAssumption == /\ Transport \in [Interfaces -> Transports]
                         /\ Subnets \subseteq Networks
                         /\ NoInterface \notin Interfaces
                         /\ NoToken \notin Tokens

\* Files and programs of an installation, agent.env apart.
Parts == {"unit", "binary"}

VARIABLES
    configured,  \* interfaces with a configuration file
    parameters,  \* the AmneziaWG parameters in it, a set of at most one element
    links,       \* interfaces that are up
    parts,       \* the parts of the agent that are installed
    env,         \* agent.env, a set of at most one element
    service,     \* "off", "waiting" (to be started by systemd), "starting", "serving"
    loaded,      \* what the process has read from agent.env
    token,       \* the agent token the control plane accepts
    dirOwner,    \* owner of the state directory, "nobody" if there is none
    fileOwner,   \* owner of peers.json, "nobody" if it holds no peers
    stored       \* network of the peers in peers.json, a set of at most one element

interfaceVars == <<configured, parameters, links>>
process       == <<service, loaded>>
installed     == <<parts, env>>
stateVars     == <<dirOwner, fileOwner, stored>>
node          == <<interfaceVars, process, installed, token, stateVars>>

NodeInit ==
    /\ configured = {} /\ parameters = [i \in Interfaces |-> {}] /\ links = {}
    /\ parts = {} /\ env = {}
    /\ service = "off" /\ loaded = {}
    /\ token = NoToken
    /\ dirOwner = "nobody" /\ fileOwner = "nobody" /\ stored = {}

-----------------------------------------------------------------------------
(* What a start of the agent checks.  Which check is the first to fail makes no
   difference: the process exits. *)

\* loadAmneziaParameters, loadAmnezia3Parameters: every parameter is there, a number
\* where one is due.
ParametersLoad(e) == e.parameters # {}

\* loadAgentConfig
ConfigurationLoads(e) ==
    e.interface # NoInterface /\ Transport[e.interface] # "wireguard" => ParametersLoad(e)

\* NewManager: the network is one, the interface can be read, the parameters are valid.
ManagerAccepts(e) ==
    /\ e.network \subseteq Subnets
    /\ e.interface \in links
    /\ \A p \in e.parameters : Accepted(Transport[e.interface], p)

\* Manager.Reconcile loads the state: the process may read the file, and the peers
\* belong to the managed network.
StateLoads(e) == fileOwner # "root" /\ stored \subseteq e.network

\* Client.Register
Registers(e) == e.token = token

ComesUp(e) ==
    /\ Registers(e)
    /\ ConfigurationLoads(e)
    /\ e.interface # NoInterface => StateLoads(e) /\ ManagerAccepts(e)

\* The AmneziaWG parameters in a client configuration the agent renders.
Rendered(e) == e.parameters

-----------------------------------------------------------------------------
(* The process. *)

Runnable == env # {} /\ parts = Parts

\* systemd starts the process: as the owner of its state directory, which systemd
\* hands over with all that is in it unless the directory has the right owner.
Started ==
    /\ service' = "starting" /\ loaded' = env
    /\ dirOwner' = "agent"
    /\ fileOwner' = IF dirOwner = "agent" \/ fileOwner = "nobody" THEN fileOwner ELSE "agent"
    /\ UNCHANGED stored

Stopped(next) == service' = next /\ loaded' = {}

\* Restart=always: without its environment file or its binary it goes on waiting.
Restart ==
    /\ service = "waiting"
    /\ Runnable
    /\ Started
    /\ UNCHANGED <<interfaceVars, installed, token>>

Serve ==
    /\ service = "starting"
    /\ \A e \in loaded : ComesUp(e)
    /\ service' = "serving"
    /\ UNCHANGED <<interfaceVars, installed, loaded, token, stateVars>>

GiveUp ==
    /\ service = "starting"
    /\ \E e \in loaded : ~ComesUp(e)
    /\ Stopped("waiting")
    /\ UNCHANGED <<interfaceVars, installed, token, stateVars>>

\* The process is killed, or cannot reach the control plane when it starts.  (One
\* that would not come up gives up: the same step.)
Die ==
    /\ service \in {"starting", "serving"}
    /\ service = "starting" => \A e \in loaded : ComesUp(e)
    /\ Stopped("waiting")
    /\ UNCHANGED <<interfaceVars, installed, token, stateVars>>

\* A serving agent executes a command of the control plane: it creates the first
\* peer, or deletes the last one.
SavePeers ==
    /\ service = "serving"
    /\ \E e \in loaded :
          /\ e.interface # NoInterface /\ e.token = token /\ StateLoads(e)
          /\ stored' \in {{}, e.network}
    /\ fileOwner' = IF stored' = {} THEN "nobody" ELSE "agent"
    /\ UNCHANGED <<interfaceVars, installed, process, token, dirOwner>>

AgentStep == Restart \/ Serve \/ GiveUp

-----------------------------------------------------------------------------
(* What else happens on a node and at the control plane. *)

\* systemctl stop, systemctl start
StopByHand ==
    /\ service # "off"
    /\ Stopped("off")
    /\ UNCHANGED <<interfaceVars, installed, token, stateVars>>

StartByHand ==
    /\ service = "off" /\ parts = Parts
    /\ service' = "waiting"
    /\ UNCHANGED <<interfaceVars, installed, loaded, token, stateVars>>

\* The server is removed from the panel.
Revoke ==
    /\ token # NoToken
    /\ token' = NoToken
    /\ UNCHANGED <<interfaceVars, installed, process, stateVars>>

\* An interface goes down, and up again from its configuration file; an administrator
\* who finds a file that wg-quick refuses corrects it first.
TakeDown ==
    /\ \E i \in links : links' = links \ {i}
    /\ UNCHANGED <<configured, parameters, installed, process, token, stateVars>>

TakeUp ==
    /\ \E i \in configured \ links : links' = links \cup {i}
    /\ UNCHANGED <<configured, parameters, installed, process, token, stateVars>>

\* An administrator prepares an interface, with parameters of his own or none.
PrepareByHand(choices) ==
    /\ \E i \in Interfaces \ configured :
          /\ configured' = configured \cup {i}
          /\ \E p \in choices : parameters' = [parameters EXCEPT ![i] = p]
    /\ UNCHANGED <<links, installed, process, token, stateVars>>
=============================================================================
