# PeerBlade in TLA+

This directory holds a TLA+ model of the PeerBlade node agent and of the scripts
that install it, the TLC configurations that check it on small instances, and proofs, checked by TLAPS,
of what it guarantees for every instance. PeerBlade is a control panel for
WireGuard and AmneziaWG servers. The repository holds the agent that runs on
every node (`agent/`, Go), its installation scripts (`agent/deploy/`, bash) and
the deployment of the panel (compose file, reverse proxy, bootstrap scripts);
the source of the panel itself is not in it.

Line numbers below are those of the repository's files.

## 1. Inventory

### The components

| Component | Source | State it keeps | Operations | Modelled in |
| --- | --- | --- | --- | --- |
| Native peer manager | `agent/internal/nativewg/manager.go` | none but `manager.mu`; works on the two stores below | `CreatePeer`, `SetEnabled`, `DeletePeer`, `Configuration`, `Reconcile`, `Peers` | `NativeManager` |
| Peer state store | `agent/internal/nativewg/store.go` | `peers.json`, a temporary file during a save | `Load`, `Save` | `NativeManager` |
| Kernel interface (external) | through `wgctrl` or `amneziawg/client.go` | peers and AllowedIPs | `Device`, `ConfigureDevice` | `NativeManager` |
| Managed snapshot collector | `nativewg/snapshot.go`, `wireguard/collector.go`, `amneziawg/collector.go` | none | `Collect` | `ManagedSnapshot` |
| Command worker | `controlplane/commands.go`, `client.go`, `native_executor.go` | the command it works on | claim, execute, complete | `CommandChannel` |
| Worker supervision | `controlplane/snapshot.go` (`RunAgent`, `runWithRetry`), `heartbeat.go`, `traffic.go` | four goroutines, the collector's mutex, the context | start, retry, stop | `AgentWorkers` |
| Agent process | `agent/main.go`, the systemd unit | environment, the process itself | `run`, `register`, `snapshot`, `version` | its checks and restarts in `AgentNode`, the reconciliation in `NativeManager`, its end in `AgentWorkers` |
| Legacy executor | `controlplane/legacy_executor.go`, `wireguard/controller.go` | none | `SetPeerAllowedIPs` | `LegacyExecutor` |
| wg-easy import | `nativewg/wgeasy.go`, `main.go:192-239` | writes `peers.json` from a process of its own, as root | `import-wg-easy` | `NodeSetup` |
| AmneziaWG parameters | `manager.go:419-483`, `deploy/setup-amneziawg*.sh` | constants of an interface | draw, validate | `AmneziaParameters` |
| Enrollment and installation | `deploy/*.sh` | interface configurations, AWG 3.x values, `agent.env`, unit, binary; one-time and agent token | install, reconnect, uninstall | `NodeSetup` over `AgentNode` |
| awg output parser | `amneziawg/client.go:105-220` | none | `parseDump` | no: text parsing without state |
| Control plane (external) | not in the repository | commands, node status | claim, result, register | as an external part of `CommandChannel` |

### How they interact

systemd starts the agent and restarts it five seconds after any exit, without a
limit (`Restart=always`, `RestartSec=5s`, `StartLimitIntervalSec=0`).
`run` creates the manager, which refuses an interface it cannot read, calls
`Reconcile` to apply every stored peer to the interface, registers with the
control plane and starts four workers (`RunAgent`):

- **heartbeat** sends a request at every tick and takes no lock;
- **snapshot** and **live traffic** collect the device and the stored peers and
  upload them. They share the collector, whose mutex they hold for the whole
  collection, and take `manager.mu` in its middle;
- **command polling** claims a command, executes it under `manager.mu`, reports
  the result and only then claims the next.

An error ends a worker's `Run` function and `runWithRetry` calls it again after
five seconds. SIGTERM cancels the context that all requests and selects share;
`RunAgent` waits for its workers, and systemd kills what has not stopped after
fifteen seconds.

A peer operation reads `peers.json`, changes the device, writes the file
(temporary file, fsync, rename, fsync of the directory) and tries to undo the
device change when the save fails. Nothing makes the two changes atomic: the
file is the truth and `Reconcile` is the recovery.

An agent without a managed interface (`--no-interface`) has no file and no lock:
the legacy executor sets the AllowedIPs of whatever peer a command names.

The scripts run as root beside all this. `quick-install.sh` prepares an
interface or adopts one, exchanges the one-time token for an agent token (which
replaces the one issued before), composes `agent.env` and calls `install.sh`,
which stops the service, copies binary, environment and unit and enables it.
`quick-reconnect.sh` replaces the credentials of an installed agent,
`quick-uninstall.sh` removes it and leaves the interface and `peers.json`;
`install.sh uninstall` leaves `agent.env` as well. Both go on when systemctl
cannot stop the agent.
systemd, which knows nothing of a script, may start the agent between any two
commands.

### What is hard about it

- *Two stores, no transaction.* Each step of an operation can fail, the process
  can be killed and the machine can lose power between any two of them; the
  rollback can fail too, and its error is dropped.
- *A save that fails after its rename* has taken effect, but its caller undoes
  the device change.
- *The kernel's rule for AllowedIPs*: an address routed to one peer is taken
  away from any other, so a stray peer or a foreign peer and a new one interact.
- *Snapshots read twice*, the device before and the file after a wait for a
  lock.
- *Commands cross a network that loses requests*, and the claim is a GET with an
  effect, which `net/http` may send twice.
- *Two nested mutexes, calls without timeout, and a shutdown* that must neither
  hang nor cut an operation off.
- *Scripts that can stop after any command* (`set -e`, a lost connection, a
  reboot), with a token that works once, files that belong together and are
  written one after the other, one of them by several commands, and a service manager that restarts whatever it
  finds.
- *Two independent sets of bounds* for AmneziaWG parameters, those of the
  scripts that draw them and those of the agent that checks them.
- *Commands issued from an old view*: a snapshot is a moment's state of an
  interface that may have another owner.

`PROJECT.json` lists each of these at its line, with the properties that would
catch it going wrong.

### What makes each component correct

- Manager and store: `peers.json` is never left in a state the next load
  refuses; what an operation acknowledged is durable; a failure affects the
  peer it hit and no other; foreign peers stay; the agent always comes up again.
- Snapshots: a row's device half and file half belong together; what an
  operation acknowledged is what the next snapshot reports; a collection ends.
- Command worker: an execution uses up a hand-out of its own, a lost hand-out
  executes nothing, a recorded outcome is final and true; queued commands are
  handed out.
- Workers: no mutex leaks, no workers wait in a circle, nobody starves,
  heartbeats do not depend on the others, shutdown ends.
- Installation: no token is spent on an interface of the scripts' own making
  that is then refused; no agent that is still accepted works with a replaced
  environment; clients get the parameters of their interface (both on a node
  with one AmneziaWG 3.x interface); a removal that was cut off can be
  repeated; an installation that reports success leaves an agent that can come
  up; repeating the installation ends with an agent that serves.
- Parameters: what is drawn is accepted.
- Legacy executor: it enables and disables peers and creates none.

## 2. The modules

```
PeerRegistry            abstract: what the manager promises
     ^  (refinement, ImplementsRegistry)
NativeManager           manager + store + interface + process start
     ^                ^                ^
ManagedSnapshot       MCNativeManager  NativeManagerProofs
     ^           ^                         ^
MCManagedSnapshot    ManagedSnapshotProofs -

CommandDelivery         abstract: what the way of a command promises
     ^  (refinement, ImplementsDelivery)
CommandChannel          agent's command worker + network + control plane
     ^
CommandChannelProofs

AgentWorkers            the four goroutines, their mutexes and the shutdown
     ^
AgentWorkersProofs

AmneziaParameters       what is drawn, what is accepted (operators)
     ^                                 ^
AgentNode               a node,        AmneziaParametersProofs
     ^                  its agent      ^
NodeSetup               the scripts    |
     ^                        ^        |
MCNodeSetup             NodeSetupProofs

LegacyExecutor          agent without a managed interface

LeastElement            a lemma NativeManagerProofs and CommandChannelProofs share
```

Definitions whose comment begins with "Variant of" are not part of a
specification. Each is the definition that follows it with a plausible mistake;
putting one in its place makes TLC find the property it endangers violated,
which shows that the property depends on the code being the way it is
(`mutants` in `PROJECT.json`).

### NativeManager

One peer operation at a time (`manager.mu`), broken up where something can come
between:

| State | In the code |
| --- | --- |
| `status` | the process: down, in `Reconcile`, or serving |
| `step`, `old`, `new` | where the current operation is, its peer before and after (sets of at most one element: `{}` is "no such peer") |
| `todo` | the peers `Reconcile` has still to apply |
| `disk` | the peers of `peers.json` as a reader sees them |
| `recoverable` | the contents a power loss may leave: all since the last sync of the directory |
| `onDevice`, `allowed` | the interface: its peers and their AllowedIPs, as host numbers |
| `generated` | keys that exist; a key pair is never generated twice |
| `promise`, `unsure`, `drift` | history for the properties, read by no guard |

The three operations differ only in their peer before and after, and share their
continuation: `CreatePeer` (`{}` to a new enabled peer at `NextAddress`),
`SetEnabled` (a peer to itself with `enabled` set) and `DeletePeer` (a peer to
`{}`) begin; `Apply` is `applyPeer` or `removePeer`; `Rename` and
`SyncDirectory` are the two points at which `Save` takes effect; `SaveFails`
stands for its errors before the rename and `SyncFails` for those after it;
`Rollback` is `removePeer`/`applyPeer` of the error path and `RollbackFails` its
dropped error. `Configure` is the one place where the device changes; it holds
the kernel's rule that an AllowedIP moves to the peer it is given to.

`Start`, `ReconcilePeer`, `Serve`, `StartFails` are a start of the agent. The
environment can kill the process (`Crash`) and cut the power (`PowerLoss`) at
any step, and re-create the interface under the agent (`ResetInterface`).

Abstractions. A peer is a key, an address and a flag; names, private and
preshared keys are data that no step looks at once they are valid. A peer's
AllowedIPs are its address (`validateState` demands it). `Loads` is what
`loadState` accepts (unique keys and addresses, hosts of the pool, the size
`Load` reads); it guards every start (`Start`) and every operation (`Begin`), so
that a file it refuses keeps the agent down, which `ComesBack` would find. That
no such file is ever left is `LoadableStates`. `ConfigureDevice` either does all of what it is asked
or nothing: each call concerns one peer, in one netlink message or one `awg`
command. The file's content is synced before the rename, so a recovered file is
an old or a new one and never a torn one. `OperationsAreAllOrNothing` says what
a returned result means: nil that the operation took effect in both stores, an
error that it did in neither, except that an error after the rename leaves the
new entry in the file, and except what a failed rollback leaves on the device.
The order in which `Reconcile` applies
the peers does not matter and is left open.

### PeerRegistry

What a caller may rely on, without files, devices or steps: one entry per key;
an operation replaces an entry, and is then confirmed or not; a power loss may
undo what was not confirmed and nothing else. `NativeManager!ImplementsRegistry`
says that the manager does nothing else, with the entries of `disk` as the
registry.

### ManagedSnapshot

`ManagedCollector.Collect` next to all actions of `NativeManager`: `ReadDevice`
takes the device as it is, operation or not; `ReadPeers` takes the file when
`manager.mu` is free and joins (`Row`). `moved` remembers the keys that changed
between the two, for which no snapshot could be coherent. `promise` and `unsure`
of the manager say what the snapshot has to report of acknowledged operations:
the file half of a row is read under `manager.mu`, between operations, so it has
to be right for every key, moved or not. An error of either
read or of the upload discards the collection and is not a step of its own here;
the retries are in `AgentWorkers`. The module is also where the manager's
`PoolBound` and `ComesBack` are checked: its instance lets two keys compete for
one address.

### CommandChannel

The agent's half is `RunCommands`, `runWithRetry` and `Client.request`; the
control plane's half is what `PROTOCOL.md` says of the two endpoints: claim the
next pending command, acknowledge success or failure. Claims and results can be
lost, abandoned by an agent that stops waiting and handled later; the GET of a
claim can be sent twice; the control plane may or may not queue an unanswered
command again (`Redelivers`). The executor is any function that takes an effect
(`Execute`) and then returns an outcome (`Report`), so that a kill can come
between the two.

### CommandDelivery

The same without requests, answers and timeouts: a ledger, at most one command
in the node's hands (`licence`), at most one in execution (`running`). A
hand-out reaches an idle node or is lost; only a hand-out that arrived lets the
node execute, and once. `CommandChannel!ImplementsDelivery` maps the ledger to
`status`, the licence to the answer that is on its way or the command the worker
has not begun (`InHand`), and the execution to the time between the effect and
its report to the worker (`InExecution`). `Honest` is what follows from it for
the two sides.

### AgentWorkers

Each worker is a program counter (`at`), with the collector's mutex and
`manager.mu` taken and released as in `synchronizedCollector.Collect`, `Peers`
and the operations. `Return` is the error path of all of them, `doomed` the
requests begun with a cancelled context, which fail at once. `WaitForWorkers` is
the return of `RunAgent`; the clients that `run` closes after it are left out.
With `MayHang` a call of the `awg` tool may never return (`execRunner.Run` has no
timeout). `NewProcess` is systemd starting the agent again after it returned or
was killed. `Awaits` is the worker that holds the mutex another one wants.

### AmneziaParameters

Operators only. `RandomBetween` is the script's `random_between` on a reading of
the random source; `AwgParameters` and `Awg3Parameters` are what the two setup
scripts can write for a given set of readings, the loops that draw again
included (`Settled`); `AwgAccepted` and `Awg3Accepted` are
`validateAmneziaParameters` and `validateAmnezia3Parameters`. Parsing is
abstracted: parameters that are there are numbers, except that a set of
parameters may be missing (`{}`), which is what an interface prepared by hand
may come to.

### AgentNode

A node as systemd and the agent see it.

| State | In the code |
| --- | --- |
| `configured`, `parameters` | configuration files of interfaces and the parameters in them |
| `links` | interfaces that are up |
| `parts`, `env` | the unit and the binary; `agent.env` |
| `service`, `loaded` | the process and the environment it has read |
| `token` | the agent token the control plane accepts |
| `dirOwner`, `fileOwner`, `stored` | owner of the state directory and of `peers.json`, the network of its peers |

`ComesUp` is the conjunction of what a start checks, as `main.go` does: the
environment (`loadAgentConfig`), the parameters and the interface (`NewManager`),
the state (`Reconcile`), the registration. Its order is left open, since every
refusal ends the process. Of `NewManager`'s
checks of the network (`manager.go:98-140`) what is left is that it is one:
`Networks` are the values the pattern of `quick-install.sh:108` lets through and
`Subnets` those of them that are addresses, which 300.0.0.1/24 is not. Endpoint,
port and key are taken to be valid: the installer's own checks demand it.
`Started` holds what
systemd does for a start: `StateDirectory=` gives the directory to the agent's
user, with all in it, unless it has the right owner already. `Restart`, `Serve`,
`GiveUp` and `Die` are the life of the process; the remaining actions are the
administrator's, who stops and starts it, takes interfaces down and up, prepares
interfaces of his own or removes the server from the panel.

### NodeSetup

The scripts, one at a time, one step for each command that changes something
(`at`), over `AgentNode`, with everything of `AgentNode` between any two steps
(`Beside`). Every step can be the last one (`Cut`), and the answer to the token
exchange can be lost (`ExchangeUnanswered`).

- Installation: `BeginInstall`, one of `SkipInterface`, `AdoptInterface`,
  `RefuseInterface` and `NewInterface`, the setup script (`OpenValues`,
  `FillValues`, `WriteFile`, `BringUp` or `AddressRefused`), `Exchange`, `Compose`
  or `ComposeRefused`, then `install.sh` (`CheckEnvironment` or
  `EnvironmentRefused`, `StopAgent`, `CopyBinary`, `CopyEnvironment`, `CopyUnit`,
  `Enable`) and the final `is-active` (`Report`). `StopAgent` looks at
  `is-active`, which is false of a service that waits for its restart.
  `OpenValues` is the redirection that empties the AWG 3.x values file,
  `FillValues` its last `printf`; between them the file lacks parameters, and as
  any lack is refused alike, one incomplete content stands for all. `Readable`
  is what `quick-install.sh` finds: it tests an AWG 3.x values file with `-r`
  only, so an incomplete one goes into the environment and is refused by
  `validate_environment_file` (`Checked`), after the token is spent.
- Reconnection: `CheckReconnect`, `Exchange`, `ReplaceCredentials`,
  `RestartAgent`, `Report`.
- Removal by `quick-uninstall.sh` (`BeginUninstall`): `CheckUninstall` or
  `RefuseUninstall`, `DisableAgent`, `RemoveUnit`, `RemoveBinary`,
  `RemoveEnvironment`; by `install.sh uninstall` (`BeginRemove`): `CheckRemove`,
  `DisableAgent` for a unit that is there, `RemoveUnit`, `RemoveBinaryOnly`.
  `DisableFails` is the systemctl whose failure both pass over (`|| true`). The
  three removals are the operands of one `rm -f`, which goes on past one it
  cannot remove: each of them may leave its file where it is.
- wg-easy import: `BeginImport` (the document lists that the agent is stopped
  first), `CheckImport`/`RefuseImport` (with and without `--force`),
  `SaveImport`.

`draft` is the environment file in the script's temporary directory, which goes
with the script. `awg3Env` is `.peerblade-awg3.env`, of which a node has one.
`of` in an environment says whose parameters it holds, `scripted` which
interfaces a script has prepared, and `missed` that systemctl has failed to stop
the agent that was removed; all three are read by properties only.

### LegacyExecutor

An agent without a managed interface: the interfaces' owner adds and removes
peers, the control plane issues commands for peers it has seen in a snapshot,
the agent executes them in order. `Give` is `SetPeerAllowedIPs` with what the
kernel makes of it.

## 3. The runs

| Run | Module, configuration | Question | Distinct states |
| --- | --- | --- | --- |
| `manager_safety` | `MCNativeManager`, `NativeManager.cfg` | Do failures, kills and power losses spare the file, acknowledged operations and the other peers; is an operation all or nothing; is the manager a registry? | 516 114 |
| `snapshot` | `MCManagedSnapshot`, `ManagedSnapshot.cfg` | Are the rows of a snapshot coherent, do they report what was acknowledged, and does a collection end; does an exhausted pool stay within its bound and the agent always come up again? | 131 523 |
| `channel` | `CommandChannel`, `CommandChannel.cfg` | Can loss, delay, resending, retries and restarts replay a command, give it two outcomes or record a false one; is the channel a delivery; are commands handed out? | 233 960 |
| `workers` | `AgentWorkers`, `AgentWorkers.cfg` | Can workers leak a mutex or wait in a circle; do starvation, hanging tools and the shutdown come to an end? | 7 738 |
| `setup` | `MCNodeSetup`, `NodeSetup.cfg` | Do scripts that are cut off, repeated and mixed leave a stale agent, foreign parameters, a spent token or an agent that cannot be removed; are all draws accepted? | 1 418 616 |
| `setup_recovery` | `MCNodeSetup`, `NodeSetupRecovery.cfg` | Does what is reported a success come up, and does repeating the installation end with a serving agent? | 783 848 |
| `manager_strays` | `MCNativeManager`, `NativeManagerStrays.cfg` | Does a start reconcile the interface? (violated) | - |
| `manager_outsiders` | `MCNativeManager`, `NativeManagerOutsiders.cfg` | Do operations leave the peers outside the file alone? (violated) | - |
| `channel_results` | `CommandChannel`, `CommandChannelResults.cfg` | Does the outcome of every executed command get back? (violated) | - |
| `setup_values` | `MCNodeSetup`, `NodeSetupValues.cfg` | Is no token spent in vain on a node with two AmneziaWG 3.x interfaces? (violated) | - |
| `setup_import` | `MCNodeSetup`, `NodeSetupImport.cfg` | Can the agent read what the import has written? (violated) | - |
| `legacy` | `LegacyExecutor`, `LegacyExecutor.cfg` | Do enabling and disabling leave the peers who they are? (violated) | - |

### Bounds, and why they are enough

- *Two keys.* The properties relate one key to the peers of others; a second key
  is all of the others, and symmetric. A key is never reused, so two keys give
  two creations, with any number of enables, disables, failures and restarts,
  and the deletion of the first before the creation of the second.
- *A pool of two addresses* (`LastHost = 3`) lets both peers exist, and the
  second reuse the address of a deleted or failed first one. `snapshot` has one
  address (`LastHost = 2`) for the two, so that the pool is exhausted and an
  address given out twice makes a file no start can load.
- *One outsider* whose AllowedIP is the first address of the pool, the case in
  which the manager and a foreign peer meet.
- *Two commands, each handed out at most twice* (`MaxClaims`), *one abandoned
  claim in the network* (`MaxInFlight`): one redelivery and one late claim are
  enough to confuse two executions of a command; two commands are enough to
  confuse commands.
- `AgentWorkers` needs no bound.
- *Setup: an AmneziaWG 1.x and an AmneziaWG 3.x interface* (`setup`), the two
  transports whose parameters pass from a script to the agent, each by its own
  way; interfaces prepared by hand come without parameters (`BareByHand`).
  Parameters of somebody's own that the agent refuses are left to the proofs,
  which hold for any `HandMade`. *Two AmneziaWG 3.x interfaces*
  (`setup_values`), because they share the values file.
- *Recovery: one AmneziaWG 3.x interface*, the transport with one step more than
  the others, and *two networks, of which one is no address* (`setup_recovery`).
- *Four tokens*: at most three are in use at once (the control plane's, that of
  `agent.env` and that of a process started before), and a new one differs from
  all of them. A control plane never issues a token twice; reusing one nobody
  holds stands for that.
- *Three readings of the random source* (`Extremes`): one that gives the largest
  parameters, one the smallest with padding sizes that clash, one the smallest
  with headers that clash, so that the loops that draw again matter.
  `setup_recovery` needs no more than one (`Smallest`).
- *Two peers and one address* (`legacy`) with two commands waiting.

### Fairness

- An operation in progress goes on (`WF(OperationStep)`): it is a goroutine
  doing system calls. Which of success and failure comes is left open. This is
  an assumption where the interface is driven by the `awg` tool: `execRunner.Run`
  has no timeout (`amneziawg/client.go:22-28`), so an operation may hang in it for
  ever. `CollectionsEnd` and `ComesBack` hold as long as such calls return;
  `AgentWorkers` is the model without that assumption, and `WorkersComeAround`
  excepts the case.
- A start goes on and is repeated (`WF(StartStep)`): `Restart=always` with no
  start limit. `ComesBack` assumes that disturbances (failed starts, kills,
  power losses, resets) end at some point; nothing is assumed of operations.
- Mutexes are fair (`SF(ReadPeers)`, `SF(Locking(w))`): `sync.Mutex` hands the
  lock to a waiter that has waited for a millisecond.
- Requests end (`http.Client.Timeout` is ten seconds), timers fire, and the
  control plane handles what reaches it. The properties of `CommandChannel` that
  need it assume that faults end; those faults include every timeout.
- A script's next command is executed (`WF(ScriptStep \/ Reinstall)`: one is
  enabled while a script runs and the other between scripts, so this is fairness
  of each) and the agent's process goes on and is restarted
  (`WF(Beside(AgentStep))`), as above.
- Somebody runs the installer again until it reports success, and when the agent
  was stopped or its server removed (the same fairness), but not while a start of
  a complete installation is pending (`Pending`). The second half is an
  assumption about people that `Recovers` needs: `is-active` is false while the
  unit waits for its restart, the installer then reports a failure
  (`quick-install.sh:411`), and an administrator who answers every such report
  at once with a new token locks out, each time, the agent that was about to
  come up.
- Nobody is obliged to ask for an operation, to queue a command or to restart a
  host.

`Recovers` also says on which nodes it holds (`Sound`): no interface is
configured but down, no AmneziaWG interface was prepared by hand without
parameters the agent accepts, `--subnet` is an address, the stored peers belong
to its network, and `peers.json` is not root's. A re-run of the installer repairs
none of these; the scripts adopt what is there and keep the state on purpose.

### What does not hold

Six statements of the repository's documents and comments are violated by what
the code does (`findings` in `PROJECT.json`):

1. *Reconciliation only adds.* The README says that the agent "reconciles the
   interface against" `peers.json` on every start. `Reconcile` applies the
   stored peers and removes nothing. A peer that a kill between device change
   and save left on the interface keeps its access through every restart of the
   agent (not of the interface), although no file and no panel lists it as
   managed. `FailuresAreConfined` shows what does hold: the stray is the only
   peer affected, as long as nobody gets its address.
2. *An adopted interface.* The installer hands an existing interface to the
   agent, with the peers it has. `nextAddress` knows the peers of the file only,
   so a created peer can be given the address of a foreign one, which loses its
   route. `OutsidersStay` shows what does hold: it keeps its place on the
   interface and never gains a route.
3. *A lost result stays lost.* `PROTOCOL.md:50-51` says that the command worker
   retries after network failures. It retries by claiming the next command; the
   result it could not deliver is dropped. `NoReplay` and `OutcomeIsTrue` show
   the other side of that choice: nothing is ever executed twice on account of a
   lost result.
4. *An imported file the agent cannot read.* `deploy/README.md` says that the
   agent "can safely convert" the peers of wg-easy. The import runs as root and
   `Save` leaves `peers.json` with mode 0600 (`store.go:75`). On a node where the
   agent has never run, systemd hands over the whole directory at the first
   start; where it has run, the directory has the right owner, the file stays
   root's and every start fails in `Reconcile`.
5. *Enabling creates.* `deploy/README.md` says that an agent without a managed
   interface "only sends a snapshot" of what exists (line 74) and that creating
   and enabling are for peers of the local state (line 295), of which it has
   none. `SetPeerAllowedIPs` does not ask for `UpdateOnly` (`controller.go:41`),
   so an enable or disable command executed after the owner of the interface has
   removed the peer puts it back.
6. *A token spent in vain.* A comment of `quick-install.sh` (line 119) says that
   everything that could stop an installation runs before the token is spent. The
   setup of a second AmneziaWG 3.x interface empties the values file it shares
   with the first (`setup-amneziawg3.sh:77-86`). Cut off there, it makes the next
   installation for the first interface pass every check before the exchange and
   fail in `install.sh`. With one such interface the statement holds for
   interfaces of a script's making (`OwnInterfacesArePassed`).

Limits of what does hold. `ParametersFit` and `OwnInterfacesPass` hold on nodes
with one AmneziaWG 3.x interface (`OneAwg3Interface`), on which any number of
other interfaces may be. There is one values file for all AmneziaWG 3.x
interfaces of a node; with two, an agent installed for the one set up first is
given the parameters of the second. `RemovalCanBeRepeated` is about removals
that are cut off: when `rm` cannot remove the unit or the binary but can remove
`agent.env`, the next removal finds no agent. And nothing repairs an
installation with a `--subnet` that is no address but another one with an
address. `NoStaleAgent` speaks of agents the
control plane accepts: an installation that systemd overtakes does leave a
process with the old environment running for a while, and what makes it harmless
is that the exchange has replaced its token (`PROTOCOL.md:11`). And it excepts a
removal whose systemctl failed: the script goes on (`quick-uninstall.sh:159`),
reports that agent and credentials are removed, and the process serves with the
token it has read, `missed` being true, until another environment is installed
or somebody stops it. While it serves, a removal repeated finds no agent to
remove.

## 4. The proofs

`NativeManagerProofs` proves, for all sets of keys and outsiders and every pool
up to 254, with the assumptions `PoolAssumption` and `OutsiderAssumption` of
`NativeManager` and no others:

| Theorem | Property | |
| --- | --- | --- |
| `TypeCorrect` | `TypeOK` | types; addresses are hosts of the pool |
| `FileInvariant` | (`FileInv`) | the inductive invariant of the file |
| `LoadableStatesHold` | `LoadableStates` | no file is left that a load refuses |
| `Durability` | `AcknowledgedIsDurable` | acknowledged entries survive |
| `Confinement` | `FailuresAreConfined` | device and file agree on every key no failure hit |
| `OutsidersAreKept` | `OutsidersStay` | foreign peers stay and gain nothing |
| `OperationsAreAtomic` | `OperationsAreAllOrNothing` | an operation takes effect as a whole or not at all, on its key only |
| `Refinement` | `ImplementsRegistry` | the manager implements `PeerRegistry` |
| `RegistryKeepsPromises` | `ImplementsRegistry` | whoever does so keeps what it has confirmed |

The argument. None of the properties is inductive. `LoadableStates` says nothing
of the peer an operation is about to write, so `FileInv` adds `OperationShape`:
the peer before and the peer after both fit to the rest of the file, the file
holds the one before the rename and the other after it, and they share one key.
That the new peer of `CreatePeer` fits needs its address to be free
(`NextAddress`, by the choice of the least element of a set of numbers) and its
key to be new in every content of the file that a power loss can bring back,
which is `KeysAreFresh`. `AcknowledgedIsDurable` ranges over the same contents.
With `FileInv`, the device is easier: `DeviceInv` adds to `FailuresAreConfined`
what the device holds for the key being worked on between the steps
(`TouchedKey`), and uses that two peers of a valid file have different
addresses, so that the kernel's rule takes nothing from a peer that is not
drifting. The refinement maps `Rename` to `Replace`, `SyncDirectory` to
`Confirm`, `PowerLoss` to `Revert` and everything else to a stutter.

The same module proves `FileInvariant` and `DeviceInvariant` themselves,
`PoolBoundHolds` (no content of the file, also none that a power loss brings
back, has more peers than the pool has hosts: the addresses are different).
`LoadableStatesHold` needs the latter for the size of the file, which never
reaches what `Load` would cut off, assuming the bytes one entry takes
(`StateBytes`). `OperationsAreAtomic` takes from `FileInv` what the file holds of
the key before each step and from `DeviceInv` what the device does.

TLC checks `DeviceInv` in `manager_safety`. `FileInv` is an invariant of the
proofs only: what it says beyond the properties of that run is the shape of an
operation between its steps.

`ManagedSnapshotProofs` rests on these invariants (`SnapshotInvariant`):

| Theorem | Property | |
| --- | --- | --- |
| `SnapshotTypeCorrect` | `SnapshotTypeOK` | types |
| `RowsStayCoherent` | `RowsAreCoherent` | the halves of a row belong together |
| `SnapshotsReportTheAcknowledged` | `AcknowledgedIsReported` | a snapshot reports what acknowledged operations left |
| `CollectionsLeaveTheManagerAlone` | `ImplementsRegistry` | the manager with collections is still the manager |

A step of a collection is a stutter of the manager (`StepsOfTheManager`), so
`SnapshotSpec` implies the manager's `Spec` and with it everything proved above.
`SeenShape` adds that what a collection in progress has seen of a key that has
not moved is what the device still holds; when `Peers` gets `manager.mu` no
operation is under way, and `DeviceInv` says that the device then is what the
file says. That the file then says what was acknowledged is
`AcknowledgedIsDurable` (`CompletionMirrors`), and this half needs no key to
have stood still.

`CommandChannelProofs`, for any number of commands, claims and requests on their
way:

| Theorem | Property | |
| --- | --- | --- |
| `ChannelInvariant` | `ChannelInv` | the inductive invariant |
| `ChannelTypeCorrect` | `TypeOK` | types |
| `NothingIsReplayed` | `NoReplay` | no more executions than hand-outs |
| `OutcomesAreTrue` | `OutcomeIsTrue` | a recorded outcome was returned by an execution |
| `SingleHandOutsAreUnambiguous` | `OneHandOutOneOutcome` | one hand-out, one execution, one outcome |
| `ChannelDelivers` | `ImplementsDelivery` | the channel implements `CommandDelivery` |
| `DeliveryIsHonest` | `ImplementsDelivery` | whoever does so satisfies `Honest` |

`NoReplay` compares two counters and is not inductive: an answer in the network
and a command in the worker's hands are claims that are not yet executions
(`ClaimShape`), and a claim has one answer. `OutcomeIsTrue` needs that every
result still on its way, the abandoned ones included, was returned by an
execution (`ResultShape`). `SingleShape` adds, for a command handed out once,
that nothing was returned before its one execution and one outcome after it. The
refinement uses `ClaimShape` to show that the worker is idle when an answer
comes, and `ResultShape` to show that a recorded outcome is among those
returned. An answer that nobody waits for maps to a lost hand-out; requests and
results on their way, retries and timeouts map to stutters.

`AgentWorkersProofs` proves `TypeOK`, `MutexesAreHeld` and `NoCircularWait`,
whether or not calls may hang (`WorkersInvariant`).
What has to be added is that each worker is only where its own code can be
(`WorkerShape`): the heartbeat never waits for a mutex, only uploaders collect,
only the command worker operates. `NoCircularWait` follows from the order of the
mutexes: who holds `manager.mu` waits for nobody
(`ManagerHoldersWaitForNobody`), and who holds the collector's waits at most for
it. It is the half of `WorkersComeAround` that needs no fairness.

`AmneziaParametersProofs` proves `GeneratedIsAccepted`, for every set of
readings: `RandomBetween` stays between its bounds, the bounds of the scripts
lie within those of the agent, and the loops of the scripts end with what is
left to ask. Without the loops, TLC
finds `DrawsAreAccepted` violated.

`NodeSetupProofs` proves the invariants of `setup` and `setup_recovery` for
every set of interfaces, networks, tokens, readings and hand-made parameters:

| Theorem | Property | |
| --- | --- | --- |
| `SetupInvariant` | `SetupInv` | the inductive invariant |
| `SetupTypeCorrect` | `TypeOK` | types |
| `NoStaleAgentServes` | `NoStaleAgent` | no accepted agent has a replaced environment; one outlives its removal only if systemctl failed |
| `RemovalsCanBeRepeated` | `RemovalCanBeRepeated` | the environment file goes last |
| `OwnInterfacesArePassed` | `OwnInterfacesPass` | no token is spent in vain on an own interface, if one at most is AmneziaWG 3.x |
| `ParametersAlwaysFit` | `ParametersFit` | clients get their interface's parameters, if one at most is AmneziaWG 3.x |
| `DrawsAreAlwaysAccepted` | `DrawsAreAccepted` | from `GeneratedIsAccepted` |
| `SuccessAlwaysComesUp` | `SuccessComesUp` | what was reported a success comes up on a sound node |

`SetupInv` has five parts besides the types. `ScriptShape` is what a script has
established when it takes its next command. `TokenShape` is the heart of
`NoStaleAgent`: whoever knows the token the control plane accepts has read the
environment that is installed, unless systemctl has missed it, and between the exchange and the copy of the
environment nobody knows it. `InterfaceShape` says that what is in the
configuration of a script's making, and in a complete values file, was drawn and
belongs together, and `EnvironmentShape` that every environment file was
composed from a configuration that is there and, once `install.sh` has checked
it (`Installable`), names all parameters. From the two, `OwnValues` concludes
that on a node with one AmneziaWG 3.x interface the values file is complete once
the interface is scripted (an interface that is there is never set up again, so
nothing empties the file any more), and `OwnParameters` that every environment
for it holds its parameters. These two are the only facts that use
`OneAwg3Interface`; the other theorems need no such assumption. `InstallShape` is what an
installation has put in place by its next command: the draft and then the
environment hold the token the control plane accepts, unless somebody has
removed the server (`RevokedStaysCurrent`), and binary and unit are there before
`systemctl enable`. With `SoundIsAccepted` (on a sound node every configured
interface is up and has parameters the agent takes) it gives
`SuccessAlwaysComesUp`: the half of `Recovers` that needs no fairness and no
patience.

TLC has checked `SetupInv` on the instances of `setup` and `setup_values` too;
the configurations list what follows from it.

Only model-checked: the liveness properties `ComesBack`,
`CollectionsEnd`, `QueuedIsClaimed`, `HeartbeatsGoOn`, `WorkersComeAround`,
`ShutdownEnds` and `Recovers` (fairness and `ENABLED` are out of the prover's
reach), and the six violations. Every invariant and every action property of
the passing runs is a theorem.

## 5. What is not modelled

- The rendering of client configurations, JSON and the `awg` text format
  (`amneziawg/client.go:105-220`, `normalize*`): conversions without state.
- Temporary files of `Save` and of `ConfigureDevice`, which a kill can leave
  behind: nothing reads them.
- A manager whose `Load` fails because of the disk: the operation is refused
  without an effect, which is no step.
- Wall-clock times: intervals, the retry delay and the timeouts only order
  events.
- The `register` command run by hand beside an agent (`main.go:172`): it
  reconciles without the agent's lock and would need a second `Reconcile` beside
  the operations. No script uses it.
- Of the scripts: the Docker variants, package installation, firewall and
  forwarding, downloads and checksums, the questions they ask. A command that
  copies a file does all of it or nothing; `install` on a full disk can do less.
  (The AWG 3.x values are not copied but written where they stay, and that is
  modelled in two steps.) Of what `install.sh` checks in an environment file, the
  installer writes all but the AmneziaWG parameters itself and correctly.
- The control clients, which `run` closes after `RunAgent` has waited for its
  workers (`snapshot.go:129`), and whether the end of a process comes before
  `TimeoutStopSec` or by it: there is no clock.
- Of the import: the fields of the wg-easy document. It is abstracted to the
  network of its valid peers; an invalid one ends the import before it writes.
- The composition of `NodeSetup` with `NativeManager`. They share `peers.json`,
  of which `NodeSetup` keeps owner and network, and the start of the agent, of
  which `NativeManager` keeps the reconciliation.
- The panel, its database and its deployment.

## 6. Plan

What is left, in the order of what it would add:

1. The `register` command as a second process over `NativeManager`, for the
   interleaving of its `Reconcile` with a deletion.
2. The Docker variants of the scripts, where the state directory and the
   environment live in other places.
3. The `awg show dump` parser as operators over rows of fields, with "what is
   printed is parsed back" as a theorem.
