--------------------------- MODULE NodeSetupProofs ---------------------------
(***************************************************************************)
(* Proofs about NodeSetup, for every set of interfaces, networks, tokens,  *)
(* readings of the random source and parameters prepared by hand.  The     *)
(* inductive invariant is SetupInv: what the type says, what a script      *)
(* relies on between its steps, who may know the token the control plane   *)
(* accepts, where the parameters in an environment file come from, and     *)
(* what an installation has installed when it reports success.             *)
(***************************************************************************)
EXTENDS NodeSetup, AmneziaParametersProofs

\* The steps of a script, and those of what goes on beside it.
LEMMA StepKinds ==
    ASSUME Next
    PROVE  ScriptStep \/ Beside(AgentStep \/ SavePeers \/ Die \/ Revoke) \/ (at = "idle" /\ Beside(ByHand))
           \/ BeginInstall \/ BeginReconnect \/ BeginUninstall \/ BeginRemove \/ BeginImport
           \/ Cut \/ ExchangeUnanswered
BY DEF Next, Reinstall, Disturbance, Beside

-----------------------------------------------------------------------------
(* Types. *)

LEMMA WrittenType == TypeOK /\ target \in Interfaces => Written \subseteq Parameters
<1> SUFFICES ASSUME TypeOK, target \in Interfaces PROVE Written \subseteq Parameters
    OBVIOUS
<1>1. Transport[target] \in Transports
    BY NodeAssumption
<1>2. {} \in Parameters /\ \A p \in Generated("amneziawg") : {p} \in Parameters
    BY DEF Parameters, Transports
<1>3. \A v \in awg3Env : v.parameters \in Parameters
    BY DEF TypeOK
<1>4. QED
    BY <1>1, <1>2, <1>3 DEF Written, Transports

LEMMA ReadableType ==
    ASSUME TypeOK, NEW v \in Readable
    PROVE  v.parameters \in Parameters /\ v.of \in Interfaces \cup {NoInterface}
<1>1. {} \in Parameters
    BY DEF Parameters
<1>2. target \in Interfaces \cup {NoInterface} /\ (target \in Interfaces => parameters[target] \in Parameters)
    BY DEF TypeOK
<1>3. \A w \in awg3Env : w.parameters \in Parameters /\ w.of \in Interfaces
    BY DEF TypeOK
<1>4. CASE Kind(target) = "amneziawg"
    <2>1. target \in Interfaces
        BY <1>2, <1>4 DEF Kind
    <2>2. QED
        BY <1>2, <1>4, <2>1 DEF Readable
<1>5. CASE Kind(target) = "amneziawg3"
    BY <1>3, <1>5 DEF Readable
<1>6. CASE Kind(target) \notin {"amneziawg", "amneziawg3"}
    BY <1>1, <1>2, <1>6 DEF Readable
<1>7. QED
    BY <1>4, <1>5, <1>6

LEMMA TypeInit == Init => TypeOK
BY DEF Init, NodeInit, TypeOK, Parameters, Scripts

LEMMA TypeStep == TypeOK /\ ScriptShape /\ [Next]_vars => TypeOK'
<1> SUFFICES ASSUME TypeOK, ScriptShape, [Next]_vars PROVE TypeOK'
    OBVIOUS
<1> USE DEF node, interfaceVars, process, installed, stateVars, run, history, Step, EndWith, End
<1>1. CASE UNCHANGED vars
    BY <1>1 DEF vars, TypeOK
<1>2. CASE ScriptStep
    <2>1. CASE SkipInterface \/ AdoptInterface \/ NewInterface \/ CheckEnvironment \/ CheckReconnect
               \/ CheckUninstall \/ CheckRemove \/ CheckImport
        BY <2>1 DEF SkipInterface, AdoptInterface, NewInterface, CheckEnvironment, CheckReconnect,
               CheckUninstall, CheckRemove, CheckImport, TypeOK
    <2>2. CASE RefuseInterface \/ AddressRefused \/ ComposeRefused \/ EnvironmentRefused \/ RefuseReconnect
               \/ RefuseUninstall \/ RefuseImport \/ Report
        BY <2>2 DEF RefuseInterface, AddressRefused, ComposeRefused, EnvironmentRefused, RefuseReconnect,
               RefuseUninstall, RefuseImport, Report, TypeOK
    <2>3. CASE OpenValues \/ FillValues
        <3>1. target \in Interfaces
            BY <2>3 DEF OpenValues, FillValues, ScriptShape
        <3>2. \A v \in awg3Env' : v.parameters \in Parameters /\ v.of \in Interfaces
            BY <2>3, <3>1 DEF OpenValues, FillValues, Parameters, Transports
        <3>3. QED
            BY <2>3, <3>2 DEF OpenValues, FillValues, TypeOK
    <2>4. CASE WriteFile
        <3>1. target \in Interfaces
            BY <2>4 DEF WriteFile, ScriptShape
        <3>2. QED
            BY <2>4, <3>1, WrittenType DEF WriteFile, TypeOK
    <2>5. CASE BringUp
        BY <2>5 DEF BringUp, ScriptShape, TypeOK
    <2>6. CASE Compose
        <3>1. PICK v \in Readable :
                  draft' = {[e EXCEPT !.parameters = v.parameters, !.of = v.of] : e \in draft}
            BY <2>6 DEF Compose
        <3>2. v.parameters \in Parameters /\ v.of \in Interfaces \cup {NoInterface}
            BY ReadableType
        <3>3. \A e \in Environment :
                  [e EXCEPT !.parameters = v.parameters, !.of = v.of] \in Environment
            BY <3>2 DEF Environment
        <3>4. QED
            BY <2>6, <3>1, <3>3 DEF Compose, TypeOK
    <2>7. CASE StopAgent \/ CopyBinary \/ CopyEnvironment \/ CopyUnit
        BY <2>7 DEF StopAgent, CopyBinary, CopyEnvironment, CopyUnit, Stopped, Parts, TypeOK
    <2>8. CASE Enable \/ RestartAgent
        BY <2>8 DEF Enable, RestartAgent, Started, TypeOK
    <2>9. CASE Exchange
        <3>1. PICK t \in Tokens :
                  /\ token' = t
                  /\ draft' = {[token |-> t, interface |-> target, network |-> network,
                                parameters |-> {}, of |-> target]}
            BY <2>9 DEF Exchange, Issue
        <3>2. draft' \subseteq Environment
            BY <3>1 DEF TypeOK, Environment, Parameters
        <3>3. QED
            BY <2>9, <3>1, <3>2 DEF Exchange, TypeOK
    <2>10. CASE ReplaceCredentials
        BY <2>10 DEF ReplaceCredentials, TypeOK, Environment
    <2>11. CASE DisableAgent \/ DisableFails \/ RemoveUnit \/ RemoveBinary \/ RemoveBinaryOnly \/ RemoveEnvironment
        BY <2>11 DEF DisableAgent, DisableFails, RemoveUnit, RemoveBinary, RemoveBinaryOnly,
               RemoveEnvironment, Stopped, TypeOK
    <2>12. CASE SaveImport
        BY <2>12 DEF SaveImport, TypeOK
    <2>13. QED
        BY <1>2, <2>1, <2>2, <2>3, <2>4, <2>5, <2>6, <2>7, <2>8, <2>9, <2>10, <2>11, <2>12
           DEF ScriptStep, InstallStep, ReconnectStep, UninstallStep, ImportStep
<1>3. CASE Beside(AgentStep \/ SavePeers \/ Die \/ Revoke)
    <2>1. CASE Restart
        BY <1>3, <2>1 DEF Restart, Started, Beside, TypeOK
    <2>2. CASE Serve \/ GiveUp \/ Die \/ Revoke
        BY <1>3, <2>2 DEF Serve, GiveUp, Die, Revoke, Stopped, Beside, TypeOK
    <2>3. CASE SavePeers
        BY <1>3, <2>3 DEF SavePeers, Beside, TypeOK, Environment
    <2>4. QED
        BY <1>3, <2>1, <2>2, <2>3 DEF Beside, AgentStep
<1>4. CASE at = "idle" /\ Beside(ByHand)
    <2>1. CASE StopByHand \/ StartByHand \/ TakeDown \/ TakeUp
        BY <1>4, <2>1 DEF StopByHand, StartByHand, TakeDown, TakeUp, Stopped, Beside, TypeOK
    <2>2. CASE PrepareByHand(HandMade)
        BY <1>4, <2>2 DEF PrepareByHand, Beside, TypeOK, Parameters
    <2>3. QED
        BY <1>4, <2>1, <2>2 DEF Beside, ByHand
<1>5. CASE BeginInstall \/ BeginReconnect \/ BeginUninstall \/ BeginRemove \/ BeginImport
    BY <1>5, NodeAssumption DEF BeginInstall, BeginReconnect, BeginUninstall, BeginRemove, BeginImport,
           Importable, Begin, Scripts, TypeOK
<1>6. CASE Cut \/ ExchangeUnanswered
    BY <1>6 DEF Cut, ExchangeUnanswered, Issue, TypeOK
<1>7. QED
    BY <1>1, <1>2, <1>3, <1>4, <1>5, <1>6, StepKinds

-----------------------------------------------------------------------------
(* Scripts. *)

\* What goes on beside a script takes nothing from it: interfaces stay configured,
\* agent.env stays what it is, and nobody starts an agent that is off.
LEMMA BesideKeeps ==
    ASSUME Beside(AgentStep \/ SavePeers \/ Die \/ Revoke)
    PROVE  /\ UNCHANGED <<interfaceVars, installed, at, run, draft, awg3Env, history>>
           /\ token' \in {token, NoToken}
           /\ service = "off" => UNCHANGED process
           /\ (service \in {"off", "waiting"} => loaded = {}) =>
                  (service' \in {"off", "waiting"} => loaded' = {})
BY DEF Beside, AgentStep, Restart, Serve, GiveUp, Die, SavePeers, Revoke, Started, Stopped,
       interfaceVars, installed, process, run, history

LEMMA ScriptStepKeepsShape ==
    ASSUME TypeOK, ScriptShape, ScriptStep
    PROVE  ScriptShape'
<1> USE DEF node, interfaceVars, process, installed, stateVars, run, history, Step, EndWith, End, ScriptShape
<1>1. CASE SkipInterface \/ AdoptInterface \/ NewInterface
    BY <1>1 DEF SkipInterface, AdoptInterface, NewInterface, Present, TypeOK
<1>2. CASE OpenValues \/ FillValues \/ WriteFile \/ BringUp
    BY <1>2 DEF OpenValues, FillValues, WriteFile, BringUp
<1>3. CASE Exchange
    BY <1>3 DEF Exchange
<1>4. CASE Compose \/ CheckEnvironment \/ StopAgent \/ CopyBinary \/ CopyEnvironment \/ CopyUnit \/ Enable
    <2>1. CASE Compose
        <3>1. PICK v \in Readable :
                  draft' = {[e EXCEPT !.parameters = v.parameters, !.of = v.of] : e \in draft}
            BY <2>1 DEF Compose
        <3>2. \A e \in draft : e \in Environment /\ e.interface = target
            BY <2>1 DEF Compose, TypeOK
        <3>3. \A e \in draft' : e.interface = target
            BY <3>1, <3>2 DEF Environment
        <3>4. QED
            BY <2>1, <3>3 DEF Compose
    <2>2. CASE CheckEnvironment
        BY <2>2 DEF CheckEnvironment
    <2>3. CASE StopAgent \/ CopyBinary \/ CopyEnvironment \/ CopyUnit \/ Enable
        BY <2>3 DEF StopAgent, CopyBinary, CopyEnvironment, CopyUnit, Enable, Started, Stopped
    <2>4. QED
        BY <1>4, <2>1, <2>2, <2>3
<1>5. CASE CheckReconnect \/ ReplaceCredentials \/ RestartAgent
    BY <1>5 DEF CheckReconnect, ReplaceCredentials, RestartAgent, Started
<1>6. CASE CheckUninstall \/ CheckRemove \/ DisableAgent \/ DisableFails \/ RemoveUnit \/ RemoveBinary \/ RemoveBinaryOnly
           \/ RemoveEnvironment
    BY <1>6 DEF CheckUninstall, CheckRemove, DisableAgent, DisableFails, RemoveUnit, RemoveBinary, RemoveBinaryOnly,
           RemoveEnvironment, Stopped
<1>7. CASE CheckImport \/ SaveImport
    BY <1>7 DEF CheckImport, SaveImport
<1>8. CASE RefuseInterface \/ AddressRefused \/ ComposeRefused \/ EnvironmentRefused \/ RefuseReconnect
               \/ RefuseUninstall \/ RefuseImport \/ Report
    BY <1>8 DEF RefuseInterface, AddressRefused, ComposeRefused, EnvironmentRefused, RefuseReconnect,
               RefuseUninstall, RefuseImport, Report
<1>9. QED
    BY <1>1, <1>2, <1>3, <1>4, <1>5, <1>6, <1>7, <1>8
       DEF ScriptStep, InstallStep, ReconnectStep, UninstallStep, ImportStep

LEMMA ScriptShapeStep == TypeOK /\ ScriptShape /\ [Next]_vars => ScriptShape'
<1> SUFFICES ASSUME TypeOK, ScriptShape, [Next]_vars PROVE ScriptShape'
    OBVIOUS
<1> USE DEF node, interfaceVars, process, installed, run, history, EndWith, ScriptShape
<1>1. CASE UNCHANGED vars
    BY <1>1 DEF vars
<1>2. CASE ScriptStep
    BY <1>2, ScriptStepKeepsShape
<1>3. CASE Beside(AgentStep \/ SavePeers \/ Die \/ Revoke)
    BY <1>3, BesideKeeps
<1>4. CASE at = "idle" /\ Beside(ByHand)
    BY <1>4 DEF Beside, ByHand, StopByHand, StartByHand, TakeDown, TakeUp, PrepareByHand, Stopped
<1>5. CASE BeginInstall \/ BeginReconnect \/ BeginUninstall \/ BeginRemove \/ BeginImport
    BY <1>5 DEF BeginInstall, BeginReconnect, BeginUninstall, BeginRemove, BeginImport, Begin
<1>6. CASE Cut \/ ExchangeUnanswered
    BY <1>6 DEF Cut, ExchangeUnanswered, End
<1>7. QED
    BY <1>1, <1>2, <1>3, <1>4, <1>5, <1>6, StepKinds

-----------------------------------------------------------------------------
(* Tokens. *)

\* A token that is issued is on the node nowhere yet.
LEMMA IssuedIsFresh ==
    ASSUME NEW t, Issue(t)
    PROVE  \A e \in env \cup loaded : e.token # token'
BY DEF Issue

LEMMA TokenStep == TypeOK /\ ScriptShape /\ TokenShape /\ [Next]_vars => TokenShape'
<1> SUFFICES ASSUME TypeOK, ScriptShape, TokenShape, [Next]_vars PROVE TokenShape'
    OBVIOUS
<1> USE DEF node, interfaceVars, process, installed, run, history, Step, EndWith, End, TokenShape
<1>0. missed \in BOOLEAN
    BY DEF TypeOK
<1>1. CASE UNCHANGED vars
    BY <1>1 DEF vars
<1>2. CASE ScriptStep
    <2>1. CASE SkipInterface \/ AdoptInterface \/ NewInterface \/ OpenValues \/ FillValues \/ WriteFile \/ BringUp
        BY <2>1 DEF SkipInterface, AdoptInterface, NewInterface, OpenValues, FillValues, WriteFile, BringUp
    <2>2. CASE CheckReconnect \/ CheckUninstall \/ CheckRemove \/ CheckImport \/ SaveImport
        <3>1. CASE CheckReconnect \/ CheckUninstall \/ CheckImport
            BY <3>1 DEF CheckReconnect, CheckUninstall, CheckImport
        <3>2. CASE CheckRemove
            BY <3>2 DEF CheckRemove
        <3>3. CASE SaveImport
            BY <1>0, <3>3 DEF SaveImport
        <3>4. QED
            BY <2>2, <3>1, <3>2, <3>3
    <2>3. CASE RefuseInterface \/ AddressRefused \/ ComposeRefused \/ EnvironmentRefused \/ RefuseReconnect
               \/ RefuseUninstall \/ RefuseImport \/ Report
        BY <2>3 DEF RefuseInterface, AddressRefused, ComposeRefused, EnvironmentRefused, RefuseReconnect,
               RefuseUninstall, RefuseImport, Report
    <2>4. CASE Exchange
        BY <2>4, IssuedIsFresh DEF Exchange
    <2>5. CASE Compose \/ CheckEnvironment \/ StopAgent \/ CopyBinary \/ CopyUnit
        <3>1. CASE Compose \/ CheckEnvironment
            BY <3>1 DEF Compose, CheckEnvironment
        <3>2. CASE StopAgent
            BY <3>2 DEF StopAgent, Stopped
        <3>3. CASE CopyBinary \/ CopyUnit
            BY <3>3 DEF CopyBinary, CopyUnit
        <3>4. QED
            BY <2>5, <3>1, <3>2, <3>3
    <2>6. CASE CopyEnvironment
        BY <2>6 DEF CopyEnvironment
    <2>7. CASE ReplaceCredentials
        BY <2>7 DEF ReplaceCredentials
    <2>8. CASE Enable \/ RestartAgent
        BY <2>8 DEF Enable, RestartAgent, Started
    <2>9. CASE DisableAgent \/ DisableFails \/ RemoveUnit \/ RemoveBinary \/ RemoveBinaryOnly
        <3>1. CASE DisableAgent
            BY <3>1 DEF DisableAgent, Stopped
        <3>2. CASE DisableFails
            BY <1>0, <3>2 DEF DisableFails
        <3>3. CASE RemoveUnit \/ RemoveBinary
            BY <3>3 DEF RemoveUnit, RemoveBinary
        <3>4. CASE RemoveBinaryOnly
            BY <1>0, <3>4 DEF RemoveBinaryOnly
        <3>5. QED
            BY <2>9, <3>1, <3>2, <3>3, <3>4
    <2>10. CASE RemoveEnvironment
        BY <2>10 DEF RemoveEnvironment, ScriptShape
    <2>11. QED
        BY <1>2, <2>1, <2>2, <2>3, <2>4, <2>5, <2>6, <2>7, <2>8, <2>9, <2>10
           DEF ScriptStep, InstallStep, ReconnectStep, UninstallStep, ImportStep
<1>3. CASE Beside(AgentStep \/ SavePeers \/ Die \/ Revoke)
    <2>1. CASE Restart
        BY <1>3, <2>1 DEF Restart, Started, Beside
    <2>2. CASE Serve \/ SavePeers
        BY <1>3, <2>2 DEF Serve, SavePeers, Beside
    <2>3. CASE GiveUp \/ Die
        BY <1>3, <2>3 DEF GiveUp, Die, Stopped, Beside
    <2>4. CASE Revoke
        <3>1. \A e \in env \cup loaded : e.token # token'
            BY <2>4, NodeAssumption DEF Revoke, TypeOK, Environment
        <3>2. QED
            BY <1>3, <2>4, <3>1 DEF Revoke, Beside
    <2>5. QED
        BY <1>3, <2>1, <2>2, <2>3, <2>4 DEF Beside, AgentStep
<1>4. CASE at = "idle" /\ Beside(ByHand)
    BY <1>4 DEF Beside, ByHand, StopByHand, StartByHand, TakeDown, TakeUp, PrepareByHand, Stopped
<1>5. CASE BeginInstall \/ BeginReconnect \/ BeginUninstall \/ BeginRemove \/ BeginImport
    BY <1>5 DEF BeginInstall, BeginReconnect, BeginUninstall, BeginRemove, BeginImport, Begin
<1>6. CASE Cut \/ ExchangeUnanswered
    BY <1>6, IssuedIsFresh DEF Cut, ExchangeUnanswered
<1>7. QED
    BY <1>1, <1>2, <1>3, <1>4, <1>5, <1>6, StepKinds

-----------------------------------------------------------------------------
(* Interfaces. *)

\* What most steps leave alone.
Interface == <<configured, parameters, awg3Env, scripted>>

LEMMA InterfaceFrame ==
    ASSUME [Next]_vars, ~OpenValues, ~FillValues, ~WriteFile, ~(at = "idle" /\ Beside(PrepareByHand(HandMade)))
    PROVE  /\ UNCHANGED Interface
           /\ at' = "file" /\ Transport[target'] = "amneziawg3" => at = "file" /\ target' = target
<1> USE DEF node, interfaceVars, run, history, Step, EndWith, End, Interface
<1>1. CASE UNCHANGED vars
    BY <1>1 DEF vars
<1>2. CASE ScriptStep
    <2>1. CASE InstallStep
        BY <2>1 DEF InstallStep, SkipInterface, AdoptInterface, RefuseInterface, NewInterface, BringUp,
            AddressRefused, Compose, ComposeRefused, CheckEnvironment, EnvironmentRefused, StopAgent,
            CopyBinary, CopyEnvironment, CopyUnit, Enable
    <2>2. CASE ReconnectStep \/ UninstallStep \/ ImportStep
        BY <2>2 DEF ReconnectStep, UninstallStep, ImportStep, CheckReconnect, RefuseReconnect,
            ReplaceCredentials, RestartAgent, CheckUninstall, RefuseUninstall, CheckRemove,
            DisableAgent, DisableFails, RemoveUnit, RemoveBinary, RemoveBinaryOnly, RemoveEnvironment,
            CheckImport, RefuseImport, SaveImport
    <2>3. CASE Exchange \/ Report
        BY <2>3 DEF Exchange, Report
    <2>4. QED
        BY <1>2, <2>1, <2>2, <2>3 DEF ScriptStep
<1>3. CASE Beside(AgentStep \/ SavePeers \/ Die \/ Revoke)
    BY <1>3, BesideKeeps
<1>4. CASE at = "idle" /\ Beside(ByHand)
    BY <1>4 DEF Beside, ByHand, StopByHand, StartByHand, TakeDown, TakeUp
<1>5. CASE BeginInstall \/ BeginReconnect \/ BeginUninstall \/ BeginRemove \/ BeginImport
    BY <1>5 DEF BeginInstall, BeginReconnect, BeginUninstall, BeginRemove, BeginImport, Begin
<1>6. CASE Cut \/ ExchangeUnanswered
    BY <1>6 DEF Cut, ExchangeUnanswered
<1>7. QED
    BY <1>1, <1>2, <1>3, <1>4, <1>5, <1>6, StepKinds

\* What the setup script of the installation's interface writes.
LEMMA WrittenIsGenerated ==
    ASSUME TypeOK, InterfaceShape, at = "file", target \in Interfaces, NEW p \in Written
    PROVE  /\ p \subseteq Generated(Transport[target])
           /\ IsAwg(target) => p # {}
           /\ Transport[target] = "amneziawg3" => \A v \in awg3Env : v.parameters = p
           /\ Transport[target] = "amneziawg3" => awg3Env # {}
<1>1. Transport[target] \in Transports
    BY NodeAssumption
<1>2. CASE Transport[target] = "wireguard"
    BY <1>2 DEF Written, IsAwg
<1>3. CASE Transport[target] = "amneziawg"
    BY <1>3 DEF Written
<1>4. CASE Transport[target] = "amneziawg3"
    BY <1>4 DEF Written, InterfaceShape
<1>5. QED
    BY <1>1, <1>2, <1>3, <1>4 DEF Transports

LEMMA InterfaceStep ==
    TypeOK /\ ScriptShape /\ InterfaceShape /\ [Next]_vars => InterfaceShape'
<1> SUFFICES ASSUME TypeOK, ScriptShape, InterfaceShape, [Next]_vars PROVE InterfaceShape'
    OBVIOUS
<1> USE DEF InterfaceShape
<1>1. CASE OpenValues \/ FillValues
    <2>1. target \notin scripted /\ Transport[target] = "amneziawg3"
        BY <1>1 DEF OpenValues, FillValues, Step, ScriptShape, TypeOK
    <2>2. UNCHANGED <<parameters, scripted, target>>
        BY <1>1 DEF OpenValues, FillValues, Step, node, interfaceVars, run, history
    <2>3. CASE OpenValues
        BY <2>1, <2>2, <2>3 DEF OpenValues, Step
    <2>4. CASE FillValues
        <3>1. PICK p \in Generated("amneziawg3") : awg3Env' = {[parameters |-> {p}, of |-> target]}
            BY <2>4 DEF FillValues
        <3>2. QED
            BY <2>1, <2>2, <3>1
    <2>5. QED
        BY <1>1, <2>3, <2>4
<1>2. CASE WriteFile
    <2>1. target \in Interfaces \ configured
        BY <1>2 DEF WriteFile, ScriptShape
    <2>2. PICK p \in Written : parameters' = [parameters EXCEPT ![target] = p]
        BY <1>2 DEF WriteFile
    <2>3. /\ parameters'[target] = p
          /\ \A i \in scripted : i # target /\ parameters'[i] = parameters[i]
        BY <2>1, <2>2 DEF TypeOK
    <2>4. scripted' = scripted \cup {target} /\ awg3Env' = awg3Env /\ at = "file" /\ at' = "link"
        BY <1>2 DEF WriteFile
    <2>5. /\ p \subseteq Generated(Transport[target]) /\ (IsAwg(target) => p # {})
          /\ Transport[target] = "amneziawg3" => awg3Env # {} /\ \A v \in awg3Env : v.parameters = p
        BY <2>1, <2>4, WrittenIsGenerated
    <2>6. QED
        BY <2>3, <2>4, <2>5 DEF IsAwg
<1>3. CASE at = "idle" /\ Beside(PrepareByHand(HandMade))
    <2>1. \A i \in scripted : parameters'[i] = parameters[i]
        BY <1>3 DEF Beside, history, PrepareByHand, TypeOK
    <2>2. UNCHANGED <<awg3Env, scripted>> /\ at' = "idle"
        BY <1>3 DEF Beside, history
    <2>3. QED
        BY <2>1, <2>2 DEF IsAwg
<1>4. CASE /\ UNCHANGED Interface
           /\ at' = "file" /\ Transport[target'] = "amneziawg3" => at = "file" /\ target' = target
    BY <1>4 DEF Interface, IsAwg
<1>5. QED
    BY <1>1, <1>2, <1>3, <1>4, InterfaceFrame

-----------------------------------------------------------------------------
(* Environment files. *)

\* What the installer reads of the interface it installs the agent for.
LEMMA ReadableIsFaithful ==
    ASSUME TypeOK, ScriptShape, InterfaceShape, at = "compose", NEW v \in Readable
    PROVE  /\ IF Kind(target) = "amneziawg3"
                THEN v.parameters \subseteq Generated("amneziawg3")
                     /\ v.of \in Interfaces /\ Transport[v.of] = "amneziawg3"
                ELSE v.of = target
           /\ target \in scripted /\ v.of = target => v.parameters = parameters[target]
           /\ Kind(target) = "amneziawg" => v.parameters = parameters[target]
<1> USE DEF InterfaceShape
<1>1. CASE Kind(target) = "amneziawg"
    BY <1>1 DEF Readable
<1>2. CASE Kind(target) = "amneziawg3"
    BY <1>2 DEF Readable, TypeOK
<1>3. CASE Kind(target) \notin {"amneziawg", "amneziawg3"}
    <2>1. v = [parameters |-> {}, of |-> target]
        BY <1>3 DEF Readable
    <2>2. target \in scripted => Transport[target] = "wireguard"
        BY <1>3, NodeAssumption DEF Kind, Transports, TypeOK
    <2>3. target \in scripted => parameters[target] = {}
        BY <2>2 DEF Generated
    <2>4. QED
        BY <1>3, <2>1, <2>3
<1>4. QED
    BY <1>1, <1>2, <1>3

\* Only three steps make an environment file, or one that is checked, that was not there.
LEMMA EnvironmentsFrame ==
    ASSUME [Next]_vars, ~Compose, ~CheckEnvironment, ~ReplaceCredentials
    PROVE  Environments' \subseteq Environments /\ Installable' \subseteq Installable
<1> USE DEF node, interfaceVars, process, installed, run, history, Step, EndWith, End, Environments, Installable
<1>1. CASE UNCHANGED vars
    BY <1>1 DEF vars
<1>2. CASE ScriptStep
    <2>1. CASE SkipInterface \/ AdoptInterface \/ NewInterface \/ OpenValues \/ FillValues \/ WriteFile \/ BringUp
        BY <2>1 DEF SkipInterface, AdoptInterface, NewInterface, OpenValues, FillValues, WriteFile, BringUp
    <2>2. CASE CheckReconnect \/ CheckUninstall \/ CheckRemove \/ CheckImport \/ SaveImport
        BY <2>2 DEF CheckReconnect, CheckUninstall, CheckRemove, CheckImport, SaveImport
    <2>3. CASE RefuseInterface \/ AddressRefused \/ ComposeRefused \/ EnvironmentRefused \/ RefuseReconnect
               \/ RefuseUninstall \/ RefuseImport \/ Report
        BY <2>3 DEF RefuseInterface, AddressRefused, ComposeRefused, EnvironmentRefused, RefuseReconnect,
               RefuseUninstall, RefuseImport, Report
    <2>4. CASE Exchange
        BY <2>4 DEF Exchange
    <2>5. CASE StopAgent \/ CopyBinary \/ CopyEnvironment \/ CopyUnit
        BY <2>5 DEF StopAgent, CopyBinary, CopyEnvironment, CopyUnit, Stopped
    <2>6. CASE Enable \/ RestartAgent
        BY <2>6 DEF Enable, RestartAgent, Started
    <2>7. CASE DisableAgent \/ DisableFails \/ RemoveUnit \/ RemoveBinary \/ RemoveBinaryOnly \/ RemoveEnvironment
        BY <2>7 DEF DisableAgent, DisableFails, RemoveUnit, RemoveBinary, RemoveBinaryOnly,
               RemoveEnvironment, Stopped
    <2>8. QED
        BY <1>2, <2>1, <2>2, <2>3, <2>4, <2>5, <2>6, <2>7
           DEF ScriptStep, InstallStep, ReconnectStep, UninstallStep, ImportStep
<1>3. CASE Beside(AgentStep \/ SavePeers \/ Die \/ Revoke)
    BY <1>3 DEF Beside, AgentStep, Restart, Serve, GiveUp, SavePeers, Die, Revoke, Started, Stopped
<1>4. CASE at = "idle" /\ Beside(ByHand)
    BY <1>4 DEF Beside, ByHand, StopByHand, StartByHand, TakeDown, TakeUp, PrepareByHand, Stopped
<1>5. CASE BeginInstall \/ BeginReconnect \/ BeginUninstall \/ BeginRemove \/ BeginImport
    BY <1>5 DEF BeginInstall, BeginReconnect, BeginUninstall, BeginRemove, BeginImport, Begin
<1>6. CASE Cut \/ ExchangeUnanswered
    BY <1>6 DEF Cut, ExchangeUnanswered
<1>7. QED
    BY <1>1, <1>2, <1>3, <1>4, <1>5, <1>6, StepKinds

\* An environment file stays faithful while interfaces are configured.
LEMMA FaithfulStays ==
    ASSUME TypeOK, ScriptShape, [Next]_vars, NEW e, Faithful(e)
    PROVE  Faithful(e)'
<1> USE DEF Faithful, Kind
<1>1. CASE UNCHANGED Interface
    BY <1>1 DEF Interface
<1>2. CASE OpenValues \/ FillValues
    BY <1>2 DEF OpenValues, FillValues, Step, node, interfaceVars, history
<1>3. CASE WriteFile
    <2>1. target \in Interfaces \ configured
        BY <1>3 DEF WriteFile, ScriptShape
    <2>2. /\ configured' = configured \cup {target} /\ scripted' = scripted \cup {target}
          /\ \A i \in configured : parameters'[i] = parameters[i]
        BY <1>3, <2>1 DEF WriteFile, TypeOK
    <2>3. e.interface # target /\ (Kind(e.interface) = "amneziawg" => e.interface \in configured)
        BY <2>1, NodeAssumption
    <2>4. scripted \subseteq configured
        BY DEF TypeOK
    <2>5. QED
        BY <2>2, <2>3, <2>4
<1>4. CASE at = "idle" /\ Beside(PrepareByHand(HandMade))
    <2>1. /\ configured \subseteq configured' /\ scripted' = scripted
          /\ \A i \in configured : parameters'[i] = parameters[i]
        BY <1>4 DEF Beside, history, PrepareByHand, TypeOK
    <2>2. scripted \subseteq configured /\ (Kind(e.interface) = "amneziawg" => e.interface \in configured)
        BY DEF TypeOK
    <2>3. QED
        BY <2>1, <2>2
<1>5. QED
    BY <1>1, <1>2, <1>3, <1>4, InterfaceFrame

LEMMA EnvironmentStep ==
    TypeOK /\ ScriptShape /\ InterfaceShape /\ EnvironmentShape /\ [Next]_vars => EnvironmentShape'
<1> SUFFICES ASSUME TypeOK, ScriptShape, InterfaceShape, EnvironmentShape, [Next]_vars
             PROVE  EnvironmentShape'
    OBVIOUS
<1>1. CASE Compose
    <2>1. PICK v \in Readable :
              draft' = {[e EXCEPT !.parameters = v.parameters, !.of = v.of] : e \in draft}
        BY <1>1 DEF Compose
    <2>2. /\ at = "compose" /\ target \in configured \cup {NoInterface}
          /\ \A e \in draft : e \in Environment /\ e.interface = target
        BY <1>1 DEF Compose, Step, ScriptShape, TypeOK
    <2>3. \A e \in draft' : e.interface = target /\ e.parameters = v.parameters /\ e.of = v.of
        BY <2>1, <2>2 DEF Environment
    <2>4. \A e \in draft' : Faithful(e)
        BY <2>2, <2>3, ReadableIsFaithful DEF Faithful
    <2>5. \A e \in draft' : Faithful(e)'
        BY <2>4, FaithfulStays
    <2>6. \A e \in env \cup loaded : Faithful(e)' /\ Checked(e)
        BY FaithfulStays DEF EnvironmentShape, Environments, Installable
    <2>7. UNCHANGED <<env, loaded>> /\ at' = "check"
        BY <1>1 DEF Compose, Step, node, process, installed
    <2>8. QED
        BY <2>5, <2>6, <2>7 DEF EnvironmentShape, Environments, Installable, Checked
<1>2. CASE ReplaceCredentials
    <2>1. UNCHANGED Interface /\ UNCHANGED <<loaded>> /\ at' = "restart"
        BY <1>2 DEF ReplaceCredentials, Step, Interface, interfaceVars, history, process
    <2>2. \A f \in env' : \E e \in env :
              f.interface = e.interface /\ f.parameters = e.parameters /\ f.of = e.of
        BY <1>2 DEF ReplaceCredentials, TypeOK, Environment
    <2>3. \A e \in env \cup loaded : Faithful(e) /\ Checked(e)
        BY DEF EnvironmentShape, Environments, Installable
    <2>4. \A f \in env' \cup loaded' : Faithful(f) /\ Checked(f)
        BY <2>1, <2>2, <2>3 DEF Faithful, Checked
    <2>5. \A f \in env' \cup loaded' : Faithful(f)'
        BY <2>4, FaithfulStays
    <2>6. QED
        BY <2>1, <2>4, <2>5 DEF EnvironmentShape, Environments, Installable, Checked, Kind
<1>3. CASE CheckEnvironment
    <2>1. /\ at = "check" /\ at' = "stop" /\ UNCHANGED <<env, loaded, draft>>
          /\ \A e \in draft : Checked(e)
        BY <1>3 DEF CheckEnvironment, Step, node, process, installed
    <2>2. Environments' \subseteq Environments /\ Installable' \subseteq Installable \cup draft
        BY <2>1 DEF Environments, Installable
    <2>3. QED
        BY <2>1, <2>2, FaithfulStays DEF EnvironmentShape, Checked, Kind
<1>4. CASE Environments' \subseteq Environments /\ Installable' \subseteq Installable
    BY <1>4, FaithfulStays DEF EnvironmentShape, Checked, Kind
<1>5. QED
    BY <1>1, <1>2, <1>3, <1>4, EnvironmentsFrame

-----------------------------------------------------------------------------
(* What an installation installs. *)

\* Tokens that are current stay so when the server is removed from the panel.
LEMMA RevokedStaysCurrent ==
    ASSUME NEW files, Current(files), token' \in {token, NoToken}, files' = files
    PROVE  Current(files)'
BY DEF Current

LEMMA InstallScriptStep ==
    ASSUME TypeOK, InstallShape, ScriptStep
    PROVE  InstallShape'
<1> USE DEF node, installed, run, history, Step, EndWith, End, InstallShape
<1>1. CASE SkipInterface \/ AdoptInterface \/ NewInterface \/ OpenValues \/ FillValues \/ WriteFile \/ BringUp
    BY <1>1 DEF SkipInterface, AdoptInterface, NewInterface, OpenValues, FillValues, WriteFile, BringUp
<1>2. CASE RefuseInterface \/ AddressRefused \/ ComposeRefused \/ EnvironmentRefused \/ RefuseReconnect
           \/ RefuseUninstall \/ RefuseImport
    BY <1>2 DEF RefuseInterface, AddressRefused, ComposeRefused, EnvironmentRefused, RefuseReconnect,
           RefuseUninstall, RefuseImport
<1>3. CASE Exchange
    <2>1. Current(draft)'
        BY <1>3 DEF Exchange, Issue, Current
    <2>2. QED
        BY <1>3, <2>1 DEF Exchange
<1>4. CASE Compose
    <2>1. PICK v \in Readable :
              draft' = {[e EXCEPT !.parameters = v.parameters, !.of = v.of] : e \in draft}
        BY <1>4 DEF Compose
    <2>2. \A e \in draft : [e EXCEPT !.parameters = v.parameters, !.of = v.of].token = e.token
        BY DEF TypeOK, Environment
    <2>3. /\ \A f \in draft' : \E e \in draft : f.token = e.token
          /\ draft # {} => draft' # {}
        BY <2>1, <2>2
    <2>4. token' = token
        BY <1>4 DEF Compose
    <2>5. Current(draft) => Current(draft)'
        BY <2>3, <2>4 DEF Current
    <2>6. QED
        BY <1>4, <2>5 DEF Compose
<1>5. CASE CheckEnvironment \/ StopAgent \/ CopyBinary
    BY <1>5 DEF CheckEnvironment, StopAgent, CopyBinary, Current
<1>6. CASE CopyEnvironment
    BY <1>6 DEF CopyEnvironment, Current
<1>7. CASE CopyUnit \/ Enable
    BY <1>7 DEF CopyUnit, Enable, Current
<1>8. CASE Report
    <2>1. script = "install" => Current(env) /\ parts = Parts
        BY <1>8 DEF Report, Parts, TypeOK
    <2>2. Current(env) => Current(env)'
        BY <1>8 DEF Report, Current
    <2>3. QED
        BY <1>8, <2>1, <2>2 DEF Report
<1>9. CASE CheckReconnect \/ ReplaceCredentials \/ RestartAgent
    BY <1>9 DEF CheckReconnect, ReplaceCredentials, RestartAgent
<1>10. CASE CheckUninstall \/ CheckRemove \/ DisableAgent \/ DisableFails \/ RemoveUnit \/ RemoveBinary
            \/ RemoveBinaryOnly \/ RemoveEnvironment
    BY <1>10 DEF CheckUninstall, CheckRemove, DisableAgent, DisableFails, RemoveUnit, RemoveBinary,
           RemoveBinaryOnly, RemoveEnvironment
<1>11. CASE CheckImport \/ SaveImport
    BY <1>11 DEF CheckImport, SaveImport
<1>12. QED
    BY <1>1, <1>2, <1>3, <1>4, <1>5, <1>6, <1>7, <1>8, <1>9, <1>10, <1>11
       DEF ScriptStep, InstallStep, ReconnectStep, UninstallStep, ImportStep

LEMMA InstallShapeStep == TypeOK /\ InstallShape /\ [Next]_vars => InstallShape'
<1> SUFFICES ASSUME TypeOK, InstallShape, [Next]_vars PROVE InstallShape'
    OBVIOUS
<1>1. CASE UNCHANGED vars
    BY <1>1 DEF vars, node, installed, run, InstallShape, Current
<1>2. CASE ScriptStep
    BY <1>2, InstallScriptStep
<1>3. CASE Beside(AgentStep \/ SavePeers \/ Die \/ Revoke)
    <2>1. UNCHANGED <<installed, at, run, draft>> /\ token' \in {token, NoToken}
        BY <1>3, BesideKeeps
    <2>2. (Current(env) => Current(env)') /\ (Current(draft) => Current(draft)')
        BY <2>1 DEF installed, Current
    <2>3. QED
        BY <2>1, <2>2 DEF installed, run, InstallShape
<1>4. CASE at = "idle" /\ Beside(ByHand)
    <2>1. UNCHANGED <<installed, at, run, draft, token>>
        BY <1>4 DEF Beside, ByHand, StopByHand, StartByHand, TakeDown, TakeUp, PrepareByHand
    <2>2. QED
        BY <2>1 DEF installed, run, InstallShape, Current
<1>5. CASE BeginInstall \/ BeginReconnect \/ BeginUninstall \/ BeginRemove \/ BeginImport
    BY <1>5 DEF BeginInstall, BeginReconnect, BeginUninstall, BeginRemove, BeginImport, Begin, InstallShape
<1>6. CASE Cut \/ ExchangeUnanswered
    BY <1>6 DEF Cut, ExchangeUnanswered, End, EndWith, InstallShape
<1>7. QED
    BY <1>1, <1>2, <1>3, <1>4, <1>5, <1>6, StepKinds

-----------------------------------------------------------------------------
(* The theorems. *)

LEMMA SetupInit == Init => SetupInv
<1> SUFFICES ASSUME Init PROVE SetupInv
    OBVIOUS
<1>1. TypeOK
    BY TypeInit
<1>2. ScriptShape /\ TokenShape /\ InterfaceShape /\ EnvironmentShape /\ InstallShape
    BY DEF Init, NodeInit, ScriptShape, TokenShape, InterfaceShape, EnvironmentShape, Environments,
           Installable, InstallShape
<1>3. QED
    BY <1>1, <1>2 DEF SetupInv

\* The inductive invariant of the scripts and the agent they install.
THEOREM SetupInvariant == Spec => []SetupInv
<1>1. SetupInv /\ [Next]_vars => SetupInv'
    BY TypeStep, ScriptShapeStep, TokenStep, InterfaceStep, EnvironmentStep, InstallShapeStep DEF SetupInv
<1>2. QED
    BY <1>1, SetupInit, PTL DEF Spec

\* Every variable keeps its type, whatever is cut off.
THEOREM SetupTypeCorrect == Spec => []TypeOK
<1>1. SetupInv => TypeOK
    BY DEF SetupInv
<1>2. QED
    BY <1>1, SetupInvariant, PTL

\* No agent the control plane accepts works with an environment that was replaced.
THEOREM NoStaleAgentServes == Spec => []NoStaleAgent
<1>1. SetupInv => NoStaleAgent
    BY DEF SetupInv, TokenShape, NoStaleAgent
<1>2. QED
    BY <1>1, SetupInvariant, PTL

\* A removal that is cut off can be repeated.
THEOREM RemovalsCanBeRepeated == Spec => []RemovalCanBeRepeated
<1>1. SetupInv => RemovalCanBeRepeated
    BY DEF SetupInv, ScriptShape, RemovalCanBeRepeated
<1>2. QED
    BY <1>1, SetupInvariant, PTL

\* On a node with one AmneziaWG 3.x interface the values file is that of the
\* interface, and complete once the interface is of a script's making.
LEMMA OwnValues ==
    ASSUME SetupInv, OneAwg3Interface, NEW i \in scripted, Transport[i] = "amneziawg3"
    PROVE  awg3Env # {} /\ \A v \in awg3Env : v.parameters # {}
<1>1. i \in Interfaces
    BY DEF SetupInv, TypeOK
<1>2. \A v \in awg3Env : v.of = i
    BY <1>1 DEF SetupInv, TypeOK, InterfaceShape, OneAwg3Interface
<1>3. awg3Env # {} /\ parameters[i] # {}
    BY DEF SetupInv, InterfaceShape, IsAwg
<1>4. QED
    BY <1>2, <1>3 DEF SetupInv, InterfaceShape

\* There the parameters in an environment file are those of its interface.
LEMMA OwnParameters ==
    ASSUME SetupInv, OneAwg3Interface, NEW e \in Environments, e.interface \in scripted
    PROVE  e.parameters = parameters[e.interface]
<1>1. Faithful(e)
    BY DEF SetupInv, EnvironmentShape
<1>2. e.interface \in Interfaces /\ e.interface # NoInterface
    BY NodeAssumption DEF SetupInv, TypeOK
<1>3. e.of = e.interface
    BY <1>1, <1>2 DEF Faithful, Kind, OneAwg3Interface
<1>4. QED
    BY <1>1, <1>3 DEF Faithful

\* With one AmneziaWG 3.x interface no token is spent on an interface of a script's
\* making that is then refused, wherever the setup scripts were cut off; with two,
\* which share the values file, a cut of one setup refuses the other's interface.
THEOREM OwnInterfacesArePassed == OneAwg3Interface => (Spec => []OwnInterfacesPass)
<1> SUFFICES ASSUME OneAwg3Interface PROVE Spec => []OwnInterfacesPass
    OBVIOUS
<1>1. ASSUME SetupInv, target \in scripted PROVE target \in Interfaces /\ target # NoInterface
    BY <1>1, NodeAssumption DEF SetupInv, TypeOK
<1>2. ASSUME SetupInv, at = "compose", target \in scripted PROVE Readable # {}
    <2>1. CASE Transport[target] = "amneziawg"
        <3>1. parameters[target] \in {parameters[target]} \ {{}}
            BY <1>2, <2>1 DEF SetupInv, InterfaceShape, IsAwg
        <3>2. [parameters |-> parameters[target], of |-> target] \in Readable
            BY <1>1, <1>2, <2>1, <3>1 DEF Readable, Kind
        <3>3. QED
            BY <3>2
    <2>2. CASE Transport[target] = "amneziawg3"
        BY <1>1, <1>2, <2>2, OwnValues DEF Readable, Kind
    <2>3. CASE Transport[target] \notin {"amneziawg", "amneziawg3"}
        BY <1>1, <1>2, <2>3 DEF Readable, Kind
    <2>4. QED
        BY <2>1, <2>2, <2>3
<1>3. ASSUME SetupInv, at = "check", target \in scripted, NEW e \in draft PROVE Checked(e)
    <2>1. e.interface = target /\ e \in Environments
        BY <1>3 DEF SetupInv, ScriptShape, Environments
    <2>2. e.parameters = parameters[target]
        BY <1>3, <2>1, OwnParameters
    <2>3. IsAwg(target) => parameters[target] # {}
        BY <1>3 DEF SetupInv, InterfaceShape
    <2>4. QED
        BY <1>1, <1>3, <2>1, <2>2, <2>3 DEF Checked, Kind, IsAwg
<1>4. SetupInv => OwnInterfacesPass
    BY <1>2, <1>3 DEF OwnInterfacesPass
<1>5. QED
    BY <1>4, SetupInvariant, PTL

\* With one AmneziaWG 3.x interface the agent renders the parameters of its own
\* interface; of two, the one set up first gets the values drawn for the second.
THEOREM ParametersAlwaysFit == OneAwg3Interface => (Spec => []ParametersFit)
<1> SUFFICES ASSUME OneAwg3Interface PROVE Spec => []ParametersFit
    OBVIOUS
<1>1. SetupInv => ParametersFit
    BY OwnParameters DEF Environments, Installable, ParametersFit, Rendered
<1>2. QED
    BY <1>1, SetupInvariant, PTL

\* No parameters of a script's drawing keep the agent from starting, for anything
\* the random source delivers.
THEOREM DrawsAreAlwaysAccepted == Spec => []DrawsAreAccepted
<1>1. ASSUME SetupInv, NEW e \in env, NEW p \in e.parameters, e.of \in scripted
      PROVE  Accepted(Transport[e.interface], p)
    <2>1. Faithful(e) /\ e \in Environment
        BY <1>1 DEF SetupInv, EnvironmentShape, Environments, Installable, TypeOK
    <2>2. CASE Kind(e.interface) = "amneziawg3"
        <3>1. p \in Generated("amneziawg3") /\ e.interface \in Interfaces
            BY <2>1, <2>2 DEF Faithful, Kind, Environment
        <3>2. QED
            BY <2>2, <3>1, NodeAssumption, GeneratedIsAccepted DEF Kind, Transports
    <2>3. CASE Kind(e.interface) # "amneziawg3"
        <3>1. e.of = e.interface /\ e.interface \in scripted
            BY <1>1, <2>1, <2>3 DEF Faithful
        <3>2. p \in parameters[e.interface]
            BY <2>1, <3>1 DEF Faithful
        <3>3. p \in Generated(Transport[e.interface])
            BY <1>1, <3>1, <3>2 DEF SetupInv, InterfaceShape
        <3>4. Transport[e.interface] \in Transports
            BY <1>1, <3>1, NodeAssumption DEF SetupInv, TypeOK
        <3>5. QED
            BY <3>3, <3>4, GeneratedIsAccepted
    <2>4. QED
        BY <2>2, <2>3
<1>2. SetupInv => DrawsAreAccepted
    BY <1>1 DEF DrawsAreAccepted
<1>3. QED
    BY <1>2, SetupInvariant, PTL

\* An environment file of a sound node that names an interface is accepted by the
\* manager of the agent that is started with it.
LEMMA SoundIsAccepted ==
    ASSUME SetupInv, Sound, NEW e \in env
    PROVE  ConfigurationLoads(e) /\ (e.interface # NoInterface => ManagerAccepts(e) /\ StateLoads(e))
<1>1. Faithful(e) /\ Checked(e) /\ e \in Environment
    BY DEF SetupInv, EnvironmentShape, Environments, Installable, TypeOK
<1> SUFFICES ASSUME e.interface # NoInterface
             PROVE  /\ Transport[e.interface] # "wireguard" => e.parameters # {}
                    /\ ManagerAccepts(e) /\ StateLoads(e)
    BY DEF ConfigurationLoads, ParametersLoad
<1>2. e.interface \in configured /\ e.interface \in Interfaces /\ e.interface \in links
    BY <1>1 DEF Faithful, Sound, Environment
<1>3. Transport[e.interface] \in Transports /\ Kind(e.interface) = Transport[e.interface]
    BY <1>2, NodeAssumption DEF Kind
<1>4. StateLoads(e) /\ e.network \subseteq Subnets
    BY DEF Sound
<1>5. CASE Transport[e.interface] = "wireguard"
    BY <1>2, <1>4, <1>5 DEF ManagerAccepts, Accepted
<1>6. CASE Transport[e.interface] = "amneziawg"
    <2>1. e.parameters # {} /\ e.parameters = parameters[e.interface]
        BY <1>1, <1>3, <1>6 DEF Faithful, Checked
    <2>2. \A p \in e.parameters : Accepted(Transport[e.interface], p)
        BY <1>2, <1>6, <2>1 DEF Sound, IsAwg
    <2>3. QED
        BY <1>2, <1>4, <2>1, <2>2 DEF ManagerAccepts
<1>7. CASE Transport[e.interface] = "amneziawg3"
    <2>1. e.parameters # {} /\ e.parameters \subseteq Generated("amneziawg3")
        BY <1>1, <1>3, <1>7 DEF Faithful, Checked
    <2>2. \A p \in e.parameters : Accepted(Transport[e.interface], p)
        BY <1>3, <1>7, <2>1, GeneratedIsAccepted
    <2>3. QED
        BY <1>2, <1>4, <2>1, <2>2 DEF ManagerAccepts
<1>8. QED
    BY <1>3, <1>5, <1>6, <1>7 DEF Transports

\* What an installation has reported as a success comes up on a sound node, with
\* any interface, whatever was cut off, refused, revoked or prepared by hand before
\* (quick-install, install.sh, loadAgentConfig, NewManager, Client.Register).
THEOREM SuccessAlwaysComesUp == Spec => []SuccessComesUp
<1>1. ASSUME SetupInv, outcome = "success", token # NoToken, Sound
      PROVE  Runnable /\ \A e \in env : ComesUp(e)
    <2>1. Current(env) /\ parts = Parts
        BY <1>1 DEF SetupInv, InstallShape
    <2>2. \A e \in env : Registers(e)
        BY <1>1, <2>1 DEF Current, Registers
    <2>3. QED
        BY <1>1, <2>1, <2>2, SoundIsAccepted DEF Runnable, ComesUp, Current
<1>2. SetupInv => SuccessComesUp
    BY <1>1 DEF SuccessComesUp
<1>3. QED
    BY <1>2, SetupInvariant, PTL
=============================================================================
