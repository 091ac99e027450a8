---------------------------- MODULE NativeManager ----------------------------
(***************************************************************************)
(* The native peer manager of the agent (internal/nativewg): it keeps the  *)
(* peers of the managed interface in peers.json and mirrors them to the    *)
(* kernel device.                                                          *)
(*                                                                         *)
(* A peer operation reads peers.json, configures the device, replaces the  *)
(* file (temporary file, fsync, rename, fsync of the directory) and, when  *)
(* the save fails, tries to undo the device change.  Every arrow between   *)
(* these steps is a point where the process may be killed, the machine may *)
(* lose power, or the interface may be re-created under the agent.         *)
(* manager.mu serialises the operations, so at most one is in progress.    *)
(***************************************************************************)
EXTENDS Naturals, FiniteSets

CONSTANTS
    Keys,            \* public keys CreatePeer can generate
    Outsiders,       \* keys of device peers that are not in peers.json
    LastHost,        \* last host number of the address pool (254 in the code)
    OutsiderRoutes   \* AllowedIPs of the outsiders in the interface's own configuration

Hosts == 2..LastHost
Peer  == [key : Keys, address : Hosts, enabled : BOOLEAN]

ASSUME PoolAssumption     == LastHost \in 2..254
ASSUME OutsiderAssumption == /\ Keys \cap Outsiders = {}
                             /\ OutsiderRoutes \in [Outsiders -> SUBSET Hosts]

VARIABLES
    status,      \* the agent process: "down", "starting" (in Reconcile) or "serving"
    step,        \* next step of the operation in progress, "idle" if there is none
    old, new,    \* its peer before and after, as sets of at most one element
    todo,        \* peers Reconcile has still to apply
    disk,        \* content of peers.json
    recoverable, \* contents of peers.json a power loss may leave
    onDevice,    \* keys that have a peer on the interface
    allowed,     \* AllowedIPs of each of them
    generated,   \* keys CreatePeer has generated
    promise,     \* history: entry of each key as the last successful operation on it left it
    unsure,      \* history: keys whose entry was replaced by an operation that did not succeed (yet)
    drift        \* history: keys a failure hit on the device since the agent last applied them

device  == <<onDevice, allowed>>
file    == <<disk, recoverable>>
request == <<step, old, new>>
history == <<promise, unsure>>
vars    == <<status, request, todo, file, device, generated, history, drift>>

-----------------------------------------------------------------------------
(* Peers, states and the device. *)

KeysOf(peers)     == {p.key : p \in peers}
Entry(state, k)   == {p \in state : p.key = k}
Routes(peers)     == {p.address : p \in {q \in peers : q.enabled}}
Touched           == KeysOf(old \cup new)

\* Public keys and addresses are unique.
Distinct(state) ==
    \A p, q \in state : p # q => p.key # q.key /\ p.address # q.address

\* validateState.
ValidState(state) == Distinct(state) /\ \A p \in state : p.address \in Hosts

\* What Load reads of a file, and what a state takes at most as indented JSON: a name
\* of 100 characters, six bytes each, three keys, two addresses and their labels.
LoadLimit == 1048576
StateBytes(state) == 64 + 1100 * Cardinality(state)

\* loadState, which Reconcile and every operation begin with, returns no error.
Loads(state) == ValidState(state) /\ StateBytes(state) =< LoadLimit

\* Variants of FreeHosts: the search starts at the server's own address; addresses
\* are looked up on the device, where a disabled peer has none.
FreeHostsFromOne  == (1..LastHost) \ {p.address : p \in disk}
FreeHostsOnDevice == Hosts \ UNION {allowed[k] : k \in Keys \cup Outsiders}

\* nextAddress looks for a host no peer of the state uses, lowest first.
FreeHosts   == Hosts \ {p.address : p \in disk}
NextAddress == CHOOSE h \in FreeHosts : \A g \in FreeHosts : h =< g

\* ConfigureDevice for one peer: the peers "from" are replaced by the peers "to".
\* An AllowedIP belongs to one peer of the interface: the kernel moves it to the
\* last peer it is given to.
Configure(from, to) ==
    /\ onDevice' = (onDevice \ KeysOf(from)) \cup KeysOf(to)
    /\ allowed'  = [k \in Keys \cup Outsiders |->
                       IF k \in KeysOf(from \cup to) THEN Routes(to)
                                                     ELSE allowed[k] \ Routes(to)]

\* The device as wg-quick brings it up: outsiders only.
FreshDevice ==
    /\ onDevice' = Outsiders
    /\ allowed'  = [k \in Keys \cup Outsiders |->
                       IF k \in Outsiders THEN OutsiderRoutes[k] ELSE {}]

Init ==
    /\ status = "down"
    /\ step = "idle" /\ old = {} /\ new = {}
    /\ todo = {}
    /\ disk = {} /\ recoverable = {{}}
    /\ onDevice = Outsiders
    /\ allowed = [k \in Keys \cup Outsiders |->
                     IF k \in Outsiders THEN OutsiderRoutes[k] ELSE {}]
    /\ generated = {}
    /\ promise = [k \in Keys |-> {}] /\ unsure = {}
    /\ drift = {}

-----------------------------------------------------------------------------
(* Start of the process: Reconcile applies every stored peer, then the agent
   registers with the control plane and starts its workers.  A process that cannot
   load peers.json exits at once: the agent stays down. *)

Start ==
    /\ status = "down" /\ Loads(disk)
    /\ status' = "starting"
    /\ todo' = disk
    /\ drift' = drift \ KeysOf(disk)
    /\ UNCHANGED <<request, file, device, generated, history>>

\* Variant of ReconcilePeer: the peers of the device are replaced, not extended.
ReconcileReplacing ==
    /\ status = "starting"
    /\ \E p \in todo :
          /\ onDevice' = {p.key}
          /\ allowed'  = [k \in Keys \cup Outsiders |-> IF k = p.key THEN Routes({p}) ELSE {}]
          /\ todo' = todo \ {p}
    /\ UNCHANGED <<status, request, file, generated, history, drift>>

ReconcilePeer ==
    /\ status = "starting"
    /\ \E p \in todo : Configure({}, {p}) /\ todo' = todo \ {p}
    /\ UNCHANGED <<status, request, file, generated, history, drift>>

Serve ==
    /\ status = "starting" /\ todo = {}
    /\ status' = "serving"
    /\ UNCHANGED <<request, todo, file, device, generated, history, drift>>

\* Reconcile stops at the first peer it cannot apply, or the registration fails:
\* run returns the error and the process exits.
StartFails ==
    /\ status = "starting"
    /\ status' = "down"
    /\ todo' = {}
    /\ drift' = drift \cup KeysOf(todo)
    /\ UNCHANGED <<request, file, device, generated, history>>

-----------------------------------------------------------------------------
(* Operations: each loads peers.json, refuses without an effect when that fails, its
   peer is not there or the pool is exhausted, and goes on to configure the device. *)

Begin(before, after) ==
    /\ status = "serving" /\ step = "idle"
    /\ Loads(disk)
    /\ step' = "apply" /\ old' = before /\ new' = after
    /\ UNCHANGED <<status, todo, file, device, history, drift>>

CreatePeer ==
    /\ FreeHosts # {}
    /\ \E k \in Keys \ generated :
          /\ Begin({}, {[key |-> k, address |-> NextAddress, enabled |-> TRUE]})
          /\ generated' = generated \cup {k}

SetEnabled ==
    /\ \E p \in disk, enabled \in BOOLEAN :
          Begin({p}, {[p EXCEPT !.enabled = enabled]})
    /\ UNCHANGED generated

DeletePeer ==
    /\ \E p \in disk : Begin({p}, {})
    /\ UNCHANGED generated

Finish == step' = "idle" /\ old' = {} /\ new' = {}

\* Variant of Apply: a deleted peer stays on the device without a route.
ApplyMutingOnly ==
    /\ step = "apply"
    /\ Configure({}, IF new = {} THEN {[p EXCEPT !.enabled = FALSE] : p \in old} ELSE new)
    /\ step' = "save"
    /\ drift' = drift \ Touched
    /\ UNCHANGED <<status, old, new, todo, file, generated, history>>

Apply ==
    /\ step = "apply"
    /\ Configure(old, new)
    /\ step' = "save"
    /\ drift' = drift \ Touched
    /\ UNCHANGED <<status, old, new, todo, file, generated, history>>

ApplyFails ==
    /\ step = "apply"
    /\ Finish
    /\ UNCHANGED <<status, todo, file, device, generated, history, drift>>

\* Variant of Rename: removing a peer from the list cuts off the others.
RenameTruncated ==
    /\ step = "save"
    /\ disk' = IF new = {} THEN {} ELSE (disk \ old) \cup new
    /\ recoverable' = recoverable \cup {disk'}
    /\ unsure' = unsure \cup Touched
    /\ step' = "sync"
    /\ UNCHANGED <<status, old, new, todo, device, generated, promise, drift>>

\* The rename of Store.Save: readers see the new state, a power loss may undo it.
Rename ==
    /\ step = "save"
    /\ disk' = (disk \ old) \cup new
    /\ recoverable' = recoverable \cup {disk'}
    /\ unsure' = unsure \cup Touched
    /\ step' = "sync"
    /\ UNCHANGED <<status, old, new, todo, device, generated, promise, drift>>

\* Variant of SaveFails: the error is returned and the device left as it is.
SaveFailsAtOnce ==
    /\ step = "save"
    /\ Finish
    /\ UNCHANGED <<status, todo, file, device, generated, history, drift>>

\* An error of Store.Save before the rename.
SaveFails ==
    /\ step = "save"
    /\ step' = "rollback"
    /\ UNCHANGED <<status, old, new, todo, file, device, generated, history, drift>>

\* Variant of SyncDirectory: the operation returns without syncing the directory.
SyncSkipped ==
    /\ step = "sync"
    /\ promise' = [k \in Keys |-> IF k \in Touched THEN new ELSE promise[k]]
    /\ unsure' = unsure \ Touched
    /\ Finish
    /\ UNCHANGED <<status, todo, file, device, generated, drift>>

\* The directory is synced and the operation returns nil.
SyncDirectory ==
    /\ step = "sync"
    /\ recoverable' = {disk}
    /\ promise' = [k \in Keys |-> IF k \in Touched THEN new ELSE promise[k]]
    /\ unsure' = unsure \ Touched
    /\ Finish
    /\ UNCHANGED <<status, todo, disk, device, generated, drift>>

\* Variant of SyncFails: the save is tried again.
SyncRetried ==
    /\ step = "sync"
    /\ step' = "save"
    /\ UNCHANGED <<status, old, new, todo, file, device, generated, history, drift>>

\* An error of Store.Save after the rename: the caller undoes the device change only.
SyncFails ==
    /\ step = "sync"
    /\ step' = "rollback"
    /\ drift' = drift \cup Touched
    /\ UNCHANGED <<status, old, new, todo, file, device, generated, history>>

\* Variant of Rollback: the new peer is applied again.
RollbackForward ==
    /\ step = "rollback"
    /\ Configure(old, new)
    /\ Finish
    /\ UNCHANGED <<status, todo, file, generated, history, drift>>

Rollback ==
    /\ step = "rollback"
    /\ Configure(new, old)
    /\ Finish
    /\ UNCHANGED <<status, todo, file, generated, history, drift>>

\* "_ = m.removePeer(...)": an error of the rollback is dropped.
RollbackFails ==
    /\ step = "rollback"
    /\ Finish
    /\ drift' = drift \cup Touched
    /\ UNCHANGED <<status, todo, file, device, generated, history>>

-----------------------------------------------------------------------------
(* The environment. *)

\* The process is stopped or killed.
Crash ==
    /\ status # "down"
    /\ status' = "down"
    /\ todo' = {}
    /\ Finish
    /\ drift' = drift \cup KeysOf(todo) \cup (IF step = "apply" THEN {} ELSE Touched)
    /\ UNCHANGED <<file, device, generated, history>>

\* The machine loses power: renames that were not synced may be undone.
PowerLoss ==
    /\ status' = "down"
    /\ todo' = {}
    /\ Finish
    /\ \E state \in recoverable : disk' = state /\ recoverable' = {state}
    /\ FreshDevice
    /\ drift' = KeysOf(disk')
    /\ UNCHANGED <<generated, history>>

\* The interface is re-created while the agent may be running.
ResetInterface ==
    /\ FreshDevice
    /\ drift' = KeysOf(disk) \cup Touched
    /\ UNCHANGED <<status, request, todo, file, generated, history>>

-----------------------------------------------------------------------------
Operation == CreatePeer \/ SetEnabled \/ DeletePeer
OperationStep ==
    \/ Apply \/ ApplyFails
    \/ Rename \/ SaveFails
    \/ SyncDirectory \/ SyncFails
    \/ Rollback \/ RollbackFails
StartStep   == Start \/ ReconcilePeer \/ Serve
Disturbance == StartFails \/ Crash \/ PowerLoss \/ ResetInterface

Next == StartStep \/ Operation \/ OperationStep \/ Disturbance

Spec == Init /\ [][Next]_vars

\* systemd restarts the agent whenever it is down (Restart=always), and its calls of
\* awg return, which AgentWorkers does not assume; nothing obliges anybody to ask for
\* an operation, and nothing obliges a failure to happen or not to happen.
FairSpec == Spec /\ WF_vars(StartStep) /\ WF_vars(OperationStep)

-----------------------------------------------------------------------------
TypeOK ==
    /\ status \in {"down", "starting", "serving"}
    /\ step \in {"idle", "apply", "save", "sync", "rollback"}
    /\ old \in SUBSET Peer /\ new \in SUBSET Peer
    /\ todo \in SUBSET Peer
    /\ disk \in SUBSET Peer
    /\ recoverable \in SUBSET SUBSET Peer
    /\ onDevice \in SUBSET (Keys \cup Outsiders)
    /\ allowed \in [Keys \cup Outsiders -> SUBSET Hosts]
    /\ generated \in SUBSET Keys
    /\ promise \in [Keys -> SUBSET Peer]
    /\ unsure \in SUBSET Keys
    /\ drift \in SUBSET Keys

\* Whatever content of peers.json a failure leaves behind, the next load accepts
\* it: no two peers share a key or an address, every address is a host of the pool,
\* and the file is read in full (Save, nextAddress, Load, validateState).
LoadableStates == \A state \in recoverable \cup {disk} : Loads(state)

\* The pool bounds the file, whatever addresses were freed and handed out again: no
\* content holds more peers than there are hosts (nextAddress, Save).
PoolBound == \A state \in recoverable \cup {disk} : Cardinality(state) =< Cardinality(Hosts)

\* Durability: once an operation on a key has returned nil, and until another
\* operation on the same key replaces the file, peers.json holds the entry that
\* operation left, and would still hold it after a power loss at this moment,
\* whatever failed operations on other keys did meanwhile (Store.Save).
AcknowledgedIsDurable ==
    \A k \in Keys \ unsure :
        \A state \in recoverable \cup {disk} : Entry(state, k) = promise[k]

\* The device carries k exactly as a state of peers.json says.
Mirrors(state, k) ==
    LET entry == Entry(state, k) IN
    /\ k \in onDevice <=> entry # {}
    /\ allowed[k] = Routes(entry)

\* A failure is confined to its peer: every key that no failure hit, that
\* Reconcile has not still to apply and that no operation is working on is on the
\* device exactly as peers.json says: absent, muted, or routing its own address
\* (applyPeer, removePeer, the rollbacks and Reconcile).
FailuresAreConfined ==
    \A k \in Keys \ (drift \cup Touched \cup KeysOf(todo)) : Mirrors(disk, k)

\* A peer that is not in peers.json stays on the interface, and can at most lose
\* a route, never gain one.
OutsidersStay ==
    /\ Outsiders \subseteq onDevice
    /\ \A o \in Outsiders : allowed[o] \subseteq OutsiderRoutes[o]

\* The operation on k had the effect "peers": the file holds them and the device
\* carries them, unless a failure hit k there.
TookEffect(k, peers) == Entry(disk, k) = peers /\ (k \in drift \/ Mirrors(peers, k))

\* An operation is all or nothing.  When it returns nil, its peer is in the file and
\* on the device as asked.  When it returns an error, its peer is in both as it was
\* before, but for an error after the rename, which leaves the new entry in the
\* file, unsynced.  No step of it touches the file or the presence on the device of
\* another key (CreatePeer, SetEnabled, DeletePeer and what they undo).
OperationsAreAllOrNothing ==
    [][OperationStep =>
          /\ \A k \in Keys \ Touched :
                /\ Entry(disk', k) = Entry(disk, k)
                /\ k \in onDevice' <=> k \in onDevice
          /\ step' = "idle" =>
                \A k \in Touched, before \in {old}, after \in {new} :
                   IF step = "sync"
                   THEN TookEffect(k, after)'
                   ELSE \/ TookEffect(k, before)'
                        \/ Entry(disk', k) = after /\ k \in unsure' \cap drift']_vars

\* When failures stop, the agent comes up and stays up: no reachable content of
\* peers.json, which a start must be able to load, and no state of the interface
\* keeps it from starting (run, Reconcile, loadState).
ComesBack == <>[][~Disturbance]_vars => <>[](status = "serving")

-----------------------------------------------------------------------------
(* The inductive invariant behind the safety invariants. *)

\* The entries an operation does not work on.
Others == {p \in disk : p.key \notin Touched}

\* An operation works on one key, for a serving agent; before the rename the file
\* holds the key's old entry and after it the new one; neither clashes with the
\* other peers of the file.
OperationShape ==
    /\ step = "idle" => old = {} /\ new = {}
    /\ step # "idle" =>
          /\ status = "serving"
          /\ \E k \in Keys : Touched = {k}
          /\ Distinct(Others \cup old)
          /\ Distinct(Others \cup new)
    /\ step \in {"apply", "save"} => \A k \in Touched : Entry(disk, k) = old
    /\ step = "sync" => \A k \in Touched : Entry(disk, k) = new /\ k \in unsure
    /\ step = "rollback" =>
          \A k \in Touched : Entry(disk, k) = old \/ (Entry(disk, k) = new /\ k \in unsure)

\* What Reconcile has to do comes from the file.
ReconcileShape ==
    /\ status # "starting" => todo = {}
    /\ todo \subseteq disk

\* CreatePeer never generates a key that some content of the file may hold.
KeysAreFresh ==
    \A state \in recoverable \cup {disk, new} : KeysOf(state) \subseteq generated

\* The key an operation works on, between its steps.
TouchedKey ==
    \A k \in Touched \ drift :
        /\ step = "apply" => Mirrors(disk, k)
        /\ step \in {"save", "sync"} => Mirrors(new, k)
        /\ step = "rollback" => Entry(disk, k) = old

DistinctStates == \A state \in recoverable \cup {disk} : Distinct(state)

FileInv ==
    /\ TypeOK /\ OperationShape /\ ReconcileShape /\ KeysAreFresh
    /\ disk \in recoverable
    /\ DistinctStates
    /\ AcknowledgedIsDurable

DeviceInv == FailuresAreConfined /\ TouchedKey

-----------------------------------------------------------------------------
\* README: the agent "reconciles the interface against [peers.json] on every
\* start": when it starts serving, the interface carries the peers of the file
\* and (but for the outsiders) no others.
ReconciledOnStart ==
    [][status = "starting" /\ status' = "serving" =>
          onDevice' \cap Keys \subseteq KeysOf(disk')]_vars

\* deploy/README: enabling and disabling "are available only for peers in
\* PeerBlade's local state": no operation changes the routes of an outsider.
OutsidersUndisturbed ==
    [][Operation \/ OperationStep => \A o \in Outsiders : allowed'[o] = allowed[o]]_vars

-----------------------------------------------------------------------------
(* What the manager promises, stated without files, devices and steps. *)

Registry == INSTANCE PeerRegistry WITH
                Entries  <- {{}} \cup {{p} : p \in Peer},
                NoEntry  <- {},
                registry <- [k \in Keys |-> Entry(disk, k)]

\* The manager implements the registry: the rename is where an operation takes
\* effect, the sync of the directory is where it is confirmed, and no failure has
\* an effect the registry does not allow.
ImplementsRegistry == Registry!Spec
=============================================================================
