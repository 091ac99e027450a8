------------------------- MODULE NativeManagerProofs -------------------------
(***************************************************************************)
(* Proofs about NativeManager, for every set of keys and outsiders and     *)
(* every pool size.  FileInv is inductive on its own; DeviceInv is         *)
(* inductive relative to it.                                               *)
(***************************************************************************)
EXTENDS NativeManager, FunctionTheorems, FiniteSetTheorems, LeastElement

-----------------------------------------------------------------------------
(* The operators. *)

\* nextAddress: the address it returns is a host of the pool no stored peer uses.
LEMMA NextAddressIsFree ==
    ASSUME FreeHosts # {}
    PROVE  /\ NextAddress \in Hosts
           /\ \A p \in disk : p.address # NextAddress
<1>1. FreeHosts \subseteq Nat
    BY PoolAssumption DEF FreeHosts, Hosts
<1>2. \E h \in FreeHosts : \A g \in FreeHosts : h =< g
    BY <1>1, Minimum
<1>3. NextAddress \in FreeHosts
    BY <1>2 DEF NextAddress
<1>4. QED
    BY <1>3 DEF FreeHosts

-----------------------------------------------------------------------------
(* Type correctness. *)

LEMMA ConfigureType ==
    ASSUME TypeOK, NEW from, NEW to, from \subseteq Peer, to \subseteq Peer,
           Configure(from, to)
    PROVE  /\ onDevice' \in SUBSET (Keys \cup Outsiders)
           /\ allowed' \in [Keys \cup Outsiders -> SUBSET Hosts]
<1>1. KeysOf(to) \subseteq Keys /\ Routes(to) \subseteq Hosts
    BY DEF KeysOf, Routes, Peer
<1>2. QED
    BY <1>1 DEF Configure, TypeOK

LEMMA FreshDeviceType ==
    ASSUME FreshDevice
    PROVE  /\ onDevice' \in SUBSET (Keys \cup Outsiders)
           /\ allowed' \in [Keys \cup Outsiders -> SUBSET Hosts]
BY OutsiderAssumption DEF FreshDevice

LEMMA TypeInit == Init => TypeOK
BY OutsiderAssumption DEF Init, TypeOK

LEMMA TypeStep == TypeOK /\ [Next]_vars => TypeOK'
<1> SUFFICES ASSUME TypeOK, [Next]_vars PROVE TypeOK'
    OBVIOUS
<1> USE DEF TypeOK, device, file, request, history
<1>a. KeysOf(disk) \subseteq Keys /\ KeysOf(todo) \subseteq Keys /\ Touched \subseteq Keys
    BY DEF KeysOf, Touched, Peer
<1>1. CASE Start
    BY <1>1, <1>a DEF Start
<1>2. CASE ReconcilePeer
    <2> PICK p \in todo : Configure({}, {p}) /\ todo' = todo \ {p}
        BY <1>2 DEF ReconcilePeer
    <2>1. /\ onDevice' \in SUBSET (Keys \cup Outsiders)
          /\ allowed' \in [Keys \cup Outsiders -> SUBSET Hosts]
        BY ConfigureType
    <2>2. QED
        BY <1>2, <2>1 DEF ReconcilePeer
<1>3. CASE Serve
    BY <1>3 DEF Serve
<1>4. CASE StartFails
    BY <1>4, <1>a DEF StartFails
<1>5. CASE CreatePeer
    <2> PICK k \in Keys \ generated :
            /\ Begin({}, {[key |-> k, address |-> NextAddress, enabled |-> TRUE]})
            /\ generated' = generated \cup {k}
        BY <1>5 DEF CreatePeer
    <2>1. [key |-> k, address |-> NextAddress, enabled |-> TRUE] \in Peer
        BY <1>5, NextAddressIsFree DEF CreatePeer, Peer
    <2>2. QED
        BY <2>1 DEF Begin
<1>6. CASE SetEnabled
    <2> PICK p \in disk, e \in BOOLEAN : Begin({p}, {[p EXCEPT !.enabled = e]})
        BY <1>6 DEF SetEnabled
    <2>1. [p EXCEPT !.enabled = e] \in Peer
        BY DEF Peer
    <2>2. QED
        BY <1>6, <2>1 DEF Begin, SetEnabled
<1>7. CASE DeletePeer
    BY <1>7 DEF DeletePeer, Begin
<1>8. CASE Apply
    <2>1. /\ onDevice' \in SUBSET (Keys \cup Outsiders)
          /\ allowed' \in [Keys \cup Outsiders -> SUBSET Hosts]
        BY <1>8, ConfigureType DEF Apply
    <2>2. QED
        BY <1>8, <2>1 DEF Apply
<1>9. CASE Rename
    BY <1>9, <1>a DEF Rename
<1>10. CASE SyncDirectory
    BY <1>10 DEF SyncDirectory, Finish
<1>11. CASE SyncFails
    BY <1>11, <1>a DEF SyncFails
<1>12. CASE Rollback
    <2>1. /\ onDevice' \in SUBSET (Keys \cup Outsiders)
          /\ allowed' \in [Keys \cup Outsiders -> SUBSET Hosts]
        BY <1>12, ConfigureType DEF Rollback
    <2>2. QED
        BY <1>12, <2>1 DEF Rollback, Finish
<1>13. CASE RollbackFails
    BY <1>13, <1>a DEF RollbackFails, Finish
<1>14. CASE ApplyFails \/ SaveFails
    BY <1>14 DEF ApplyFails, SaveFails, Finish
<1>15. CASE Crash
    BY <1>15, <1>a DEF Crash, Finish
<1>16. CASE PowerLoss
    <2>1. KeysOf(disk') \subseteq Keys
        BY <1>16 DEF PowerLoss, KeysOf, Peer
    <2>2. QED
        BY <1>16, <2>1, FreshDeviceType DEF PowerLoss, Finish
<1>17. CASE ResetInterface
    BY <1>17, <1>a, FreshDeviceType DEF ResetInterface
<1>18. CASE UNCHANGED vars
    BY <1>18 DEF vars
<1>19. QED
    BY <1>1, <1>2, <1>3, <1>4, <1>5, <1>6, <1>7, <1>8, <1>9, <1>10, <1>11, <1>12,
       <1>13, <1>14, <1>15, <1>16, <1>17, <1>18
       DEF Next, StartStep, Operation, OperationStep, Disturbance

\* Every variable keeps the type the code gives it, in every reachable state.
THEOREM TypeCorrect == Spec => []TypeOK
<1>1. QED
    BY TypeInit, TypeStep, PTL DEF Spec

-----------------------------------------------------------------------------
(* The file: FileInv is inductive. *)

\* Replacing the entry of the key an operation works on.
LEMMA ReplaceEntry ==
    ASSUME FileInv, step \in {"apply", "save"}
    PROVE  (disk \ old) \cup new = Others \cup new
BY DEF FileInv, OperationShape, Others, Entry, Touched, KeysOf

LEMMA FileInit == Init => FileInv
<1> SUFFICES ASSUME Init PROVE FileInv
    OBVIOUS
<1>1. TypeOK
    BY TypeInit
<1>2. KeysAreFresh /\ DistinctStates /\ AcknowledgedIsDurable
    BY DEF Init, KeysAreFresh, KeysOf, DistinctStates, Distinct,
           AcknowledgedIsDurable, Entry
<1>3. QED
    BY <1>1, <1>2 DEF Init, FileInv, OperationShape, ReconcileShape

\* Steps that leave the file, the operation in progress and the history alone.
LEMMA FileUntouched ==
    ASSUME FileInv, TypeOK', UNCHANGED <<request, file, history>>,
           ReconcileShape', generated' = generated,
           step # "idle" => status' = status
    PROVE  FileInv'
<1> USE DEF request, file, history
<1>1. Touched' = Touched /\ Others' = Others
    BY DEF Touched, Others, KeysOf
<1>2. OperationShape'
    BY <1>1 DEF FileInv, OperationShape, Distinct, Entry
<1>3. KeysAreFresh' /\ DistinctStates' /\ AcknowledgedIsDurable'
    BY DEF FileInv, KeysAreFresh, KeysOf, DistinctStates, Distinct,
           AcknowledgedIsDurable, Entry
<1>4. QED
    BY <1>2, <1>3 DEF FileInv

\* Steps that end the operation in progress without touching the file.
LEMMA FileAfterFinish ==
    ASSUME FileInv, TypeOK', Finish, UNCHANGED <<file, history>>,
           ReconcileShape', generated' = generated
    PROVE  FileInv'
BY DEF FileInv, OperationShape, Others, Touched, KeysOf, Entry, Distinct, KeysAreFresh,
       DistinctStates, AcknowledgedIsDurable, Finish, file, history

\* An operation that has begun: the key it works on and the shape of its peers.
LEMMA FileAfterBegin ==
    ASSUME FileInv, TypeOK', NEW before, NEW after, Begin(before, after),
           NEW k \in Keys, KeysOf(before \cup after) = {k},
           Entry(disk, k) = before,
           Distinct({p \in disk : p.key # k} \cup after),
           generated \subseteq generated', k \in generated'
    PROVE  FileInv'
<1>1. Touched' = {k} /\ Others' = {p \in disk : p.key # k}
    BY DEF Begin, Touched, Others, KeysOf, file
<1>2. OperationShape'
    <2>1. Others' \cup old' \subseteq disk
        BY <1>1 DEF Begin, Entry
    <2>2. Distinct(disk)
        BY DEF FileInv, DistinctStates
    <2>3. Distinct(Others' \cup old') /\ Distinct(Others' \cup new')
        BY <1>1, <2>1, <2>2 DEF Begin, Distinct
    <2>4. QED
        BY <1>1, <2>3 DEF Begin, OperationShape, file, Entry, Distinct
<1>3. KeysAreFresh'
    <2>1. KeysOf(new') \subseteq {k}
        BY DEF Begin, KeysOf
    <2>2. QED
        BY <2>1 DEF FileInv, KeysAreFresh, Begin, file, KeysOf
<1>4. QED
    BY <1>2, <1>3 DEF FileInv, Begin, ReconcileShape, DistinctStates, Distinct,
           AcknowledgedIsDurable, Entry, file, history

LEMMA FileCreatePeer ==
    ASSUME FileInv, TypeOK', CreatePeer
    PROVE  FileInv'
<1> DEFINE peer(k) == [key |-> k, address |-> NextAddress, enabled |-> TRUE]
<1>1. PICK k \in Keys \ generated : Begin({}, {peer(k)}) /\ generated' = generated \cup {k}
    BY DEF CreatePeer
<1>2. KeysOf({} \cup {peer(k)}) = {k}
    BY DEF KeysOf
<1>3. \A p \in disk : p.key # k
    BY DEF FileInv, KeysAreFresh, KeysOf
<1>4. Entry(disk, k) = {}
    BY <1>3 DEF Entry
<1>5. Distinct({p \in disk : p.key # k} \cup {peer(k)})
    <2>1. Distinct(disk)
        BY DEF FileInv, DistinctStates
    <2>2. \A p \in disk : p.address # NextAddress
        BY NextAddressIsFree DEF CreatePeer
    <2>3. peer(k).key = k /\ peer(k).address = NextAddress
        OBVIOUS
    <2> HIDE DEF peer
    <2>4. QED
        BY <1>3, <2>1, <2>2, <2>3 DEF Distinct
<1> HIDE DEF peer
<1>6. QED
    BY <1>1, <1>2, <1>4, <1>5, FileAfterBegin

\* The entry of a stored peer is that peer.
LEMMA StoredEntry ==
    ASSUME FileInv, NEW p \in disk
    PROVE  /\ p \in Peer /\ p.key \in Keys /\ p.key \in generated
           /\ KeysOf({p}) = {p.key}
           /\ Entry(disk, p.key) = {p}
BY DEF FileInv, TypeOK, Peer, DistinctStates, Distinct, Entry, KeysAreFresh, KeysOf

LEMMA FileSetEnabled ==
    ASSUME FileInv, TypeOK', SetEnabled
    PROVE  FileInv'
<1>1. PICK p \in disk, e \in BOOLEAN : Begin({p}, {[p EXCEPT !.enabled = e]})
    BY DEF SetEnabled
<1> DEFINE q == [p EXCEPT !.enabled = e]
<1>2. q.key = p.key /\ q.address = p.address
    BY StoredEntry DEF Peer
<1>3. KeysOf({p} \cup {q}) = {p.key}
    BY <1>2 DEF KeysOf
<1>4. Distinct({r \in disk : r.key # p.key} \cup {q})
    <2>1. Distinct(disk)
        BY DEF FileInv, DistinctStates
    <2>2. QED
        BY <1>2, <2>1 DEF Distinct
<1>5. generated' = generated
    BY DEF SetEnabled
<1>6. p.key \in Keys /\ p.key \in generated /\ Entry(disk, p.key) = {p}
    BY StoredEntry
<1> HIDE DEF q
<1>7. QED
    BY <1>1, <1>3, <1>4, <1>5, <1>6, FileAfterBegin DEF q

LEMMA FileDeletePeer ==
    ASSUME FileInv, TypeOK', DeletePeer
    PROVE  FileInv'
<1>1. PICK p \in disk : Begin({p}, {})
    BY DEF DeletePeer
<1>2. Distinct({r \in disk : r.key # p.key} \cup {})
    BY DEF FileInv, DistinctStates, Distinct
<1>3. KeysOf({p} \cup {}) = {p.key} /\ generated' = generated
    BY DEF KeysOf, DeletePeer
<1>4. p.key \in Keys /\ p.key \in generated /\ Entry(disk, p.key) = {p}
    BY StoredEntry
<1>5. QED
    BY <1>1, <1>2, <1>3, <1>4, FileAfterBegin

LEMMA FileRename ==
    ASSUME FileInv, TypeOK', Rename
    PROVE  FileInv'
<1>1. disk' = Others \cup new
    BY ReplaceEntry DEF Rename
<1>2. PICK k \in Keys : Touched = {k}
    BY DEF FileInv, OperationShape, Rename
<1>3. Touched' = {k} /\ Others' = Others
    BY <1>1, <1>2 DEF Rename, Touched, Others, KeysOf
<1>4. Distinct(disk')
    BY <1>1 DEF FileInv, OperationShape, Rename
<1>5. Entry(disk', k) = new
    BY <1>1, <1>2 DEF Others, Entry, Touched, KeysOf
<1>6. OperationShape'
    <2>1. Distinct(Others' \cup old') /\ Distinct(Others' \cup new')
        BY <1>3 DEF FileInv, OperationShape, Rename, Distinct
    <2>2. QED
        BY <1>2, <1>3, <1>5, <2>1 DEF FileInv, OperationShape, Rename, Entry
<1>7. KeysAreFresh'
    BY <1>1 DEF FileInv, KeysAreFresh, KeysOf, Others, Rename
<1>8. DistinctStates'
    BY <1>4 DEF FileInv, DistinctStates, Distinct, Rename
<1>9. AcknowledgedIsDurable'
    <2>1. \A j \in Keys \ {k} : Entry(disk', j) = Entry(disk, j)
        BY <1>1, <1>2 DEF Others, Entry, Touched, KeysOf
    <2>2. QED
        BY <1>2, <2>1 DEF FileInv, AcknowledgedIsDurable, Entry, Rename
<1>10. ReconcileShape'
    BY <1>1 DEF FileInv, ReconcileShape, OperationShape, Rename
<1>11. QED
    BY <1>6, <1>7, <1>8, <1>9, <1>10 DEF FileInv, Rename

LEMMA FileSyncDirectory ==
    ASSUME FileInv, TypeOK', SyncDirectory
    PROVE  FileInv'
<1>1. AcknowledgedIsDurable'
    <2>1. \A k \in Touched : Entry(disk, k) = new
        BY DEF FileInv, OperationShape, SyncDirectory
    <2>2. \A k \in Keys \ unsure' : Entry(disk, k) = promise'[k]
        BY <2>1 DEF FileInv, AcknowledgedIsDurable, SyncDirectory
    <2>3. QED
        BY <2>2 DEF SyncDirectory, AcknowledgedIsDurable, Entry
<1>2. OperationShape' /\ ReconcileShape'
    BY DEF FileInv, OperationShape, ReconcileShape, SyncDirectory, Finish, Touched, KeysOf
<1>3. KeysAreFresh' /\ DistinctStates'
    BY DEF FileInv, KeysAreFresh, DistinctStates, Distinct, KeysOf, SyncDirectory, Finish
<1>4. QED
    BY <1>1, <1>2, <1>3 DEF FileInv, SyncDirectory

LEMMA FilePowerLoss ==
    ASSUME FileInv, TypeOK', PowerLoss
    PROVE  FileInv'
<1>1. PICK state \in recoverable : disk' = state /\ recoverable' = {state}
    BY DEF PowerLoss
<1>2. AcknowledgedIsDurable'
    BY <1>1 DEF FileInv, AcknowledgedIsDurable, Entry, PowerLoss, history
<1>3. KeysAreFresh' /\ DistinctStates'
    BY <1>1 DEF FileInv, KeysAreFresh, DistinctStates, Distinct, KeysOf, PowerLoss, Finish
<1>4. OperationShape' /\ ReconcileShape'
    BY DEF OperationShape, ReconcileShape, PowerLoss, Finish, Touched, KeysOf
<1>5. QED
    BY <1>1, <1>2, <1>3, <1>4 DEF FileInv

LEMMA FileStep == FileInv /\ [Next]_vars => FileInv'
<1> SUFFICES ASSUME FileInv, [Next]_vars PROVE FileInv'
    OBVIOUS
<1>t. TypeOK'
    BY TypeStep DEF FileInv
<1>s. status = "down" \/ status = "starting" => step = "idle"
    BY DEF FileInv, OperationShape
<1>1. CASE Start
    <2>1. ReconcileShape'
        BY <1>1 DEF Start, ReconcileShape, file
    <2>2. QED
        BY <1>1, <1>t, <1>s, <2>1, FileUntouched DEF Start
<1>2. CASE ReconcilePeer
    <2>1. ReconcileShape'
        BY <1>2 DEF ReconcilePeer, FileInv, ReconcileShape, file
    <2>2. QED
        BY <1>2, <1>t, <1>s, <2>1, FileUntouched DEF ReconcilePeer
<1>3. CASE Serve
    <2>1. ReconcileShape'
        BY <1>3 DEF Serve, FileInv, ReconcileShape, file
    <2>2. QED
        BY <1>3, <1>t, <1>s, <2>1, FileUntouched DEF Serve
<1>4. CASE StartFails
    <2>1. ReconcileShape'
        BY <1>4 DEF StartFails, ReconcileShape, file
    <2>2. QED
        BY <1>4, <1>t, <1>s, <2>1, FileUntouched DEF StartFails
<1>5. CASE CreatePeer
    BY <1>5, <1>t, FileCreatePeer
<1>6. CASE SetEnabled
    BY <1>6, <1>t, FileSetEnabled
<1>7. CASE DeletePeer
    BY <1>7, <1>t, FileDeletePeer
<1>8. CASE Apply \/ SaveFails \/ SyncFails
    <2>1. ReconcileShape'
        BY <1>8 DEF Apply, SaveFails, SyncFails, FileInv, ReconcileShape, file
    <2>o. /\ Touched' = Touched /\ Others' = Others
          /\ \A k : Entry(disk, k)' = Entry(disk, k)
        BY <1>8 DEF Apply, SaveFails, SyncFails, Touched, KeysOf, Others, Entry, file
    <2>p. OperationShape'
        <3>1. CASE Apply
            BY <2>o, <3>1 DEF Apply, FileInv, OperationShape, Distinct, file, history
        <3>2. CASE SaveFails
            BY <2>o, <3>2 DEF SaveFails, FileInv, OperationShape, Distinct, file, history
        <3>3. CASE SyncFails
            BY <2>o, <3>3 DEF SyncFails, FileInv, OperationShape, Distinct, file, history
        <3>4. QED
            BY <1>8, <3>1, <3>2, <3>3
    <2>2. QED
        BY <1>8, <1>t, <2>1, <2>p
           DEF Apply, SaveFails, SyncFails, FileInv, KeysAreFresh, DistinctStates, Distinct,
               AcknowledgedIsDurable, Entry, KeysOf, file, history
<1>9. CASE Rename
    BY <1>9, <1>t, FileRename
<1>10. CASE SyncDirectory
    BY <1>10, <1>t, FileSyncDirectory
<1>11. CASE ApplyFails \/ Rollback \/ RollbackFails \/ Crash
    <2>1. ReconcileShape'
        BY <1>11 DEF ApplyFails, Rollback, RollbackFails, Crash, FileInv, ReconcileShape, file
    <2>2. QED
        BY <1>11, <1>t, <2>1, FileAfterFinish DEF ApplyFails, Rollback, RollbackFails, Crash
<1>12. CASE PowerLoss
    BY <1>12, <1>t, FilePowerLoss
<1>13. CASE ResetInterface
    <2>1. ReconcileShape'
        BY <1>13 DEF ResetInterface, FileInv, ReconcileShape, file
    <2>2. QED
        BY <1>13, <1>t, <2>1, FileUntouched DEF ResetInterface
<1>14. CASE UNCHANGED vars
    <2>1. ReconcileShape'
        BY <1>14 DEF vars, FileInv, ReconcileShape, file
    <2>2. QED
        BY <1>14, <1>t, <2>1, FileUntouched DEF vars
<1>15. QED
    BY <1>1, <1>2, <1>3, <1>4, <1>5, <1>6, <1>7, <1>8, <1>9, <1>10, <1>11, <1>12, <1>13, <1>14
       DEF Next, StartStep, Operation, OperationStep, Disturbance

THEOREM FileInvariant == Spec => []FileInv
<1>1. QED
    BY FileInit, FileStep, PTL DEF Spec

\* A state without duplicate addresses has at most as many peers as there are hosts.
LEMMA DistinctStatesFitThePool ==
    ASSUME NEW state \in SUBSET Peer, Distinct(state)
    PROVE  IsFiniteSet(state) /\ Cardinality(state) =< Cardinality(Hosts)
<1> DEFINE address == [p \in state |-> p.address]
<1>1. address \in [state -> Hosts]
    BY DEF Peer
<1>2. \A p, q \in state : address[p] = address[q] => p = q
    BY DEF Distinct
<1>3. address \in Injection(state, Hosts)
    BY <1>1, <1>2, Fun_IsInj
<1>4. IsFiniteSet(Hosts)
    BY FS_Interval, PoolAssumption DEF Hosts
<1> HIDE DEF address
<1>5. QED
    BY <1>3, <1>4, FS_Injection

\* The pool bounds every content of peers.json (nextAddress, validateState).
THEOREM PoolBoundHolds == Spec => []PoolBound
<1>1. FileInv => PoolBound
    BY DistinctStatesFitThePool DEF FileInv, TypeOK, DistinctStates, PoolBound
<1>2. QED
    BY <1>1, FileInvariant, PTL

\* The largest pool fits into what Load reads of the file.
LEMMA DistinctStatesLoad ==
    ASSUME NEW state \in SUBSET Peer, Distinct(state)
    PROVE  Loads(state)
<1>1. Cardinality(Hosts) \in Nat /\ Cardinality(Hosts) =< 253
    <2>1. 2 \in Int /\ LastHost \in Int /\ 2 =< LastHost /\ LastHost =< 254
        BY PoolAssumption
    <2>2. Cardinality(2..LastHost) = LastHost - 2 + 1
        BY <2>1, FS_Interval
    <2>3. QED
        BY <2>1, <2>2 DEF Hosts
<1>2. Cardinality(state) \in Nat /\ Cardinality(state) =< 253
    BY <1>1, DistinctStatesFitThePool, FS_CardinalityType
<1>3. StateBytes(state) =< LoadLimit
    BY <1>2 DEF StateBytes, LoadLimit
<1>4. ValidState(state)
    BY DEF ValidState, Peer
<1>5. QED
    BY <1>3, <1>4 DEF Loads

\* Whatever a failure leaves in peers.json, the next start and the next operation can
\* load it: loadState finds it valid and Load reads the whole of what Save has
\* written, a full pool included.
THEOREM LoadableStatesHold == Spec => []LoadableStates
<1>1. FileInv => LoadableStates
    BY DistinctStatesLoad DEF FileInv, TypeOK, DistinctStates, LoadableStates
<1>2. QED
    BY <1>1, FileInvariant, PTL

\* What a successful operation reported is in peers.json, and stays there through
\* kills, power losses and failed operations on other peers.
THEOREM Durability == Spec => []AcknowledgedIsDurable
<1>1. FileInv => AcknowledgedIsDurable
    BY DEF FileInv
<1>2. QED
    BY <1>1, FileInvariant, PTL

-----------------------------------------------------------------------------
(* The device: DeviceInv is inductive relative to FileInv. *)

\* ConfigureDevice leaves a peer it does not name alone unless it takes its route.
LEMMA ConfigureOthers ==
    ASSUME TypeOK, NEW from, NEW to, Configure(from, to),
           NEW j \in Keys, j \notin KeysOf(from \cup to),
           allowed[j] \cap Routes(to) = {}
    PROVE  (j \in onDevice' <=> j \in onDevice) /\ allowed'[j] = allowed[j]
<1>1. j \notin KeysOf(from) /\ j \notin KeysOf(to)
    BY DEF KeysOf
<1>2. QED
    BY <1>1 DEF Configure, TypeOK

\* The peer ConfigureDevice names ends up as it says.
LEMMA ConfigureOwn ==
    ASSUME NEW from, NEW to, Configure(from, to),
           NEW k \in Keys, KeysOf(from \cup to) = {k}
    PROVE  /\ k \in onDevice' <=> to # {}
           /\ allowed'[k] = Routes(to)
           /\ Entry(from, k) = from /\ Entry(to, k) = to
BY DEF Configure, KeysOf, Entry

\* Two different keys never route the same address, in a valid state.
LEMMA RoutesApart ==
    ASSUME NEW state, Distinct(state), NEW k, NEW j, j # k,
           NEW mine, mine \subseteq state, \A p \in mine : p.key = k
    PROVE  Routes(Entry(state, j)) \cap Routes(mine) = {}
BY DEF Distinct, Routes, Entry

\* The key an operation works on; the routes of its peers are nobody else's.
LEMMA OperationApart ==
    ASSUME FileInv, step # "idle"
    PROVE  \E k \in Keys :
              /\ Touched = {k} /\ KeysOf(old \cup new) = {k} /\ KeysOf(new \cup old) = {k}
              /\ \A j \in Keys \ {k} :
                    /\ Routes(Entry(disk, j)) \cap Routes(old) = {}
                    /\ Routes(Entry(disk, j)) \cap Routes(new) = {}
<1>1. PICK k \in Keys : Touched = {k}
    BY DEF FileInv, OperationShape
<1>2. Distinct(Others \cup old) /\ Distinct(Others \cup new)
    BY DEF FileInv, OperationShape
<1>3. /\ \A p \in old : p.key = k
      /\ \A p \in new : p.key = k
      /\ KeysOf(old \cup new) = {k} /\ KeysOf(new \cup old) = {k}
    BY <1>1 DEF Touched, KeysOf
<1>4. ASSUME NEW j \in Keys \ {k}
      PROVE  /\ Entry(disk, j) = Entry(Others \cup old, j)
             /\ Entry(disk, j) = Entry(Others \cup new, j)
    BY <1>1, <1>3 DEF Entry, Others
<1>5. ASSUME NEW j \in Keys \ {k}
      PROVE  /\ Routes(Entry(Others \cup old, j)) \cap Routes(old) = {}
             /\ Routes(Entry(Others \cup new, j)) \cap Routes(new) = {}
    <2>1. Routes(Entry(Others \cup old, j)) \cap Routes(old) = {}
        BY <1>2, <1>3, RoutesApart
    <2>2. Routes(Entry(Others \cup new, j)) \cap Routes(new) = {}
        BY <1>2, <1>3, RoutesApart
    <2>3. QED
        BY <2>1, <2>2
<1>6. QED
    BY <1>1, <1>3, <1>4, <1>5

LEMMA DeviceInit == Init => DeviceInv
BY OutsiderAssumption
   DEF Init, DeviceInv, FailuresAreConfined, TouchedKey, Mirrors, Entry, Routes, Touched, KeysOf

LEMMA DeviceStart ==
    ASSUME FileInv, DeviceInv, Start
    PROVE  DeviceInv'
<1>1. Touched = {} /\ Touched' = {} /\ todo = {} /\ KeysOf(todo) = {}
    BY DEF FileInv, OperationShape, ReconcileShape, Start, Touched, KeysOf, request
<1>2. \A k \in Keys : Mirrors(disk, k)' <=> Mirrors(disk, k)
    BY DEF Mirrors, Entry, Routes, Start, device, file
<1>3. QED
    BY <1>1, <1>2 DEF DeviceInv, FailuresAreConfined, TouchedKey, Start

LEMMA DeviceReconcilePeer ==
    ASSUME FileInv, DeviceInv, ReconcilePeer
    PROVE  DeviceInv'
<1>1. PICK p \in todo : Configure({}, {p}) /\ todo' = todo \ {p}
    BY DEF ReconcilePeer
<1>2. p \in disk /\ p.key \in Keys /\ KeysOf({} \cup {p}) = {p.key} /\ Entry(disk, p.key) = {p}
    BY StoredEntry DEF FileInv, ReconcileShape
<1>3. Touched = {} /\ Touched' = {}
    BY DEF FileInv, OperationShape, ReconcilePeer, Touched, KeysOf, request
<1>4. Distinct(disk) /\ TypeOK
    BY DEF FileInv, DistinctStates
<1>5. Mirrors(disk, p.key)'
    BY <1>1, <1>2, ConfigureOwn DEF Mirrors, Entry, Routes, ReconcilePeer, file
<1>6. ASSUME NEW j \in Keys \ (drift \cup KeysOf(todo'))
      PROVE  Mirrors(disk, j)'
    <2>1. CASE j = p.key
        BY <1>5, <2>1
    <2>2. CASE j # p.key
        <3>1. j \notin KeysOf(todo) /\ j \notin KeysOf({} \cup {p})
            BY <1>1, <1>2, <2>2 DEF KeysOf
        <3>2. Mirrors(disk, j)
            BY <1>3, <3>1 DEF DeviceInv, FailuresAreConfined
        <3>3. Routes(Entry(disk, j)) \cap Routes({p}) = {}
            <4>1. {p} \subseteq disk /\ \A q \in {p} : q.key = p.key
                BY <1>2
            <4>2. QED
                BY <1>4, <2>2, <4>1, RoutesApart
        <3>4. (j \in onDevice' <=> j \in onDevice) /\ allowed'[j] = allowed[j]
            BY <1>1, <1>4, <3>1, <3>2, <3>3, ConfigureOthers DEF Mirrors
        <3>5. QED
            BY <3>2, <3>4 DEF Mirrors, Entry, Routes, ReconcilePeer, file
    <2>3. QED
        BY <2>1, <2>2
<1>7. QED
    BY <1>3, <1>6 DEF DeviceInv, FailuresAreConfined, TouchedKey, ReconcilePeer

LEMMA DeviceStartFails ==
    ASSUME FileInv, DeviceInv, StartFails
    PROVE  DeviceInv'
<1>1. Touched = {} /\ Touched' = {} /\ KeysOf(todo') = {}
    BY DEF FileInv, OperationShape, StartFails, Touched, KeysOf, request
<1>2. \A k \in Keys : Mirrors(disk, k)' <=> Mirrors(disk, k)
    BY DEF Mirrors, Entry, Routes, StartFails, device, file
<1>3. QED
    BY <1>1, <1>2 DEF DeviceInv, FailuresAreConfined, TouchedKey, StartFails

\* An operation begins: nothing on the device changes, and one key is touched.
LEMMA DeviceBegin ==
    ASSUME FileInv, DeviceInv, TypeOK', NEW before, NEW after, Begin(before, after)
    PROVE  DeviceInv'
<1>1. Touched = {} /\ todo = {} /\ KeysOf(todo) = {}
    BY DEF FileInv, OperationShape, ReconcileShape, Begin, Touched, KeysOf
<1>2. \A k \in Keys : Mirrors(disk, k)' <=> Mirrors(disk, k)
    BY DEF Mirrors, Entry, Routes, Begin, device, file
<1>3. \A k \in Keys \ drift : Mirrors(disk, k)'
    BY <1>1, <1>2 DEF DeviceInv, FailuresAreConfined
<1>4. FailuresAreConfined'
    BY <1>3 DEF FailuresAreConfined, Begin
<1>5. TouchedKey'
    <2>1. Touched' \subseteq Keys
        BY DEF TypeOK, Touched, KeysOf, Peer
    <2>2. QED
        BY <1>3, <2>1 DEF TouchedKey, Begin
<1>6. QED
    BY <1>4, <1>5 DEF DeviceInv

\* Configure on behalf of the operation in progress leaves the other keys alone.
LEMMA OperationConfigures ==
    ASSUME FileInv, DeviceInv, step # "idle", UNCHANGED disk,
           Configure(old, new) \/ Configure(new, old),
           NEW j \in Keys \ (drift \cup Touched \cup KeysOf(todo))
    PROVE  Mirrors(disk, j)'
<1>1. PICK k \in Keys :
          /\ Touched = {k} /\ KeysOf(old \cup new) = {k} /\ KeysOf(new \cup old) = {k}
          /\ \A i \in Keys \ {k} :
                /\ Routes(Entry(disk, i)) \cap Routes(old) = {}
                /\ Routes(Entry(disk, i)) \cap Routes(new) = {}
    BY OperationApart
<1>2. Mirrors(disk, j)
    BY DEF DeviceInv, FailuresAreConfined
<1>3. allowed[j] \cap Routes(old) = {} /\ allowed[j] \cap Routes(new) = {}
    BY <1>1, <1>2 DEF Mirrors
<1>4. (j \in onDevice' <=> j \in onDevice) /\ allowed'[j] = allowed[j]
    <2>1. TypeOK /\ j \notin KeysOf(old \cup new) /\ j \notin KeysOf(new \cup old)
        BY <1>1 DEF FileInv
    <2>2. CASE Configure(old, new)
        BY <1>3, <2>1, <2>2, ConfigureOthers
    <2>3. CASE Configure(new, old)
        BY <1>3, <2>1, <2>3, ConfigureOthers
    <2>4. QED
        BY <2>2, <2>3
<1>5. QED
    BY <1>2, <1>4 DEF Mirrors, Entry, Routes

LEMMA DeviceApply ==
    ASSUME FileInv, DeviceInv, Apply
    PROVE  DeviceInv'
<1>1. PICK k \in Keys : Touched = {k} /\ KeysOf(old \cup new) = {k}
    BY OperationApart DEF Apply
<1>2. Touched' = Touched /\ todo = {} /\ KeysOf(todo) = {} /\ KeysOf(todo') = {}
    BY DEF FileInv, OperationShape, ReconcileShape, Apply, Touched, KeysOf
<1>3. FailuresAreConfined'
    BY <1>2, OperationConfigures DEF FailuresAreConfined, Apply, file
<1>4. Mirrors(new, k)'
    BY <1>1, ConfigureOwn DEF Apply, Mirrors, Entry, Routes
<1>5. QED
    BY <1>1, <1>2, <1>3, <1>4 DEF DeviceInv, TouchedKey, Apply

LEMMA DeviceRename ==
    ASSUME FileInv, DeviceInv, Rename
    PROVE  DeviceInv'
<1>1. PICK k \in Keys : Touched = {k}
    BY OperationApart DEF Rename
<1>2. Touched' = Touched /\ KeysOf(todo') = KeysOf(todo)
    BY DEF Rename, Touched, KeysOf
<1>3. \A j \in Keys \ {k} : Entry(disk', j) = Entry(disk, j)
    BY <1>1, ReplaceEntry DEF Rename, Others, Entry, Touched, KeysOf
<1>4. \A j \in Keys \ {k} : Mirrors(disk, j) => Mirrors(disk, j)'
    BY <1>3 DEF Mirrors, Routes, Entry, Rename, device
<1>5. Mirrors(new, k) => Mirrors(new, k)'
    BY DEF Mirrors, Routes, Entry, Rename, device
<1>6. QED
    BY <1>1, <1>2, <1>4, <1>5 DEF DeviceInv, FailuresAreConfined, TouchedKey, Rename

\* Errors of the save: the device is as the operation made it.
LEMMA DeviceSaveFails ==
    ASSUME FileInv, DeviceInv, SaveFails \/ SyncFails
    PROVE  DeviceInv'
<1>1. Touched' = Touched /\ KeysOf(todo') = KeysOf(todo)
    BY DEF SaveFails, SyncFails, Touched, KeysOf
<1>2. \A j \in Keys : Mirrors(disk, j)' <=> Mirrors(disk, j)
    BY DEF Mirrors, Entry, Routes, SaveFails, SyncFails, device, file
<1>3. FailuresAreConfined'
    BY <1>1, <1>2 DEF DeviceInv, FailuresAreConfined, SaveFails, SyncFails
<1>4. TouchedKey'
    BY <1>1 DEF FileInv, OperationShape, TouchedKey, Entry, SaveFails, SyncFails, file
<1>5. QED
    BY <1>3, <1>4 DEF DeviceInv

\* Ends of an operation that leave the device and the entries of the file alone.
LEMMA DeviceFinish ==
    ASSUME FileInv, DeviceInv, Finish, UNCHANGED <<disk, device, todo>>,
           drift \subseteq drift', status = "serving",
           \A k \in Touched \ drift' : Mirrors(disk, k)
    PROVE  DeviceInv'
<1>1. Touched' = {}
    BY DEF Finish, Touched, KeysOf
<1>2. \A j \in Keys : Mirrors(disk, j)' <=> Mirrors(disk, j)
    BY DEF Mirrors, Entry, Routes, device
<1>3. QED
    BY <1>1, <1>2 DEF DeviceInv, FailuresAreConfined, TouchedKey, KeysOf

LEMMA DeviceRollback ==
    ASSUME FileInv, DeviceInv, Rollback
    PROVE  DeviceInv'
<1>1. PICK k \in Keys : Touched = {k} /\ KeysOf(new \cup old) = {k}
    BY OperationApart DEF Rollback
<1>2. Touched' = {} /\ KeysOf(todo') = KeysOf(todo)
    BY DEF Rollback, Finish, Touched, KeysOf
<1>3. ASSUME k \notin drift
      PROVE  Mirrors(disk, k)'
    <2>1. Entry(disk, k) = old
        BY <1>1, <1>3 DEF DeviceInv, TouchedKey, Rollback
    <2>2. QED
        BY <1>1, <2>1, ConfigureOwn DEF Rollback, Mirrors, Entry, Routes, file
<1>4. \A j \in Keys \ (drift \cup Touched \cup KeysOf(todo)) : Mirrors(disk, j)'
    BY OperationConfigures DEF Rollback, file
<1>5. QED
    BY <1>1, <1>2, <1>3, <1>4 DEF DeviceInv, FailuresAreConfined, TouchedKey, Rollback

LEMMA DeviceCrash ==
    ASSUME FileInv, DeviceInv, Crash
    PROVE  DeviceInv'
<1>1. Touched' = {} /\ KeysOf(todo') = {}
    BY DEF Crash, Finish, Touched, KeysOf
<1>2. \A j \in Keys : Mirrors(disk, j)' <=> Mirrors(disk, j)
    BY DEF Mirrors, Entry, Routes, Crash, device, file
<1>3. QED
    BY <1>1, <1>2 DEF DeviceInv, FailuresAreConfined, TouchedKey, Crash

\* A fresh interface carries no key of the agent.
LEMMA DeviceFresh ==
    ASSUME FreshDevice, NEW state, NEW k \in Keys \ KeysOf(state)
    PROVE  Mirrors(state, k)'
BY OutsiderAssumption DEF FreshDevice, Mirrors, Entry, Routes, KeysOf

LEMMA DevicePowerLoss ==
    ASSUME DeviceInv, PowerLoss
    PROVE  DeviceInv'
<1>1. Touched' = {}
    BY DEF PowerLoss, Finish, Touched, KeysOf
<1>2. \A k \in Keys \ drift' : Mirrors(disk, k)'
    BY DeviceFresh DEF PowerLoss, Mirrors, Entry, Routes
<1>3. QED
    BY <1>1, <1>2 DEF DeviceInv, FailuresAreConfined, TouchedKey

LEMMA DeviceReset ==
    ASSUME FileInv, DeviceInv, ResetInterface
    PROVE  DeviceInv'
<1>1. Touched' = Touched
    BY DEF ResetInterface, Touched, KeysOf, request
<1>2. \A k \in Keys \ drift' : Mirrors(disk, k)'
    BY DeviceFresh DEF ResetInterface, Mirrors, Entry, Routes, file
<1>3. QED
    BY <1>1, <1>2 DEF DeviceInv, FailuresAreConfined, TouchedKey, ResetInterface

LEMMA DeviceStep == FileInv /\ DeviceInv /\ [Next]_vars => DeviceInv'
<1> SUFFICES ASSUME FileInv, DeviceInv, [Next]_vars PROVE DeviceInv'
    OBVIOUS
<1>t. TypeOK'
    BY TypeStep DEF FileInv
<1>1. CASE Start
    BY <1>1, DeviceStart
<1>2. CASE ReconcilePeer
    BY <1>2, DeviceReconcilePeer
<1>3. CASE Serve
    <2>1. Touched' = Touched /\ KeysOf(todo') = KeysOf(todo)
        BY <1>3 DEF Serve, Touched, KeysOf, request
    <2>2. \A j \in Keys : Mirrors(disk, j)' <=> Mirrors(disk, j)
        BY <1>3 DEF Mirrors, Entry, Routes, Serve, device, file
    <2>3. Touched = {}
        BY <1>3 DEF Serve, FileInv, OperationShape, Touched, KeysOf
    <2>4. QED
        BY <1>3, <2>1, <2>2, <2>3 DEF DeviceInv, FailuresAreConfined, TouchedKey, Serve
<1>4. CASE StartFails
    BY <1>4, DeviceStartFails
<1>5. CASE CreatePeer \/ SetEnabled \/ DeletePeer
    <2>1. \E before, after : Begin(before, after)
        BY <1>5 DEF CreatePeer, SetEnabled, DeletePeer
    <2>2. QED
        BY <1>t, <2>1, DeviceBegin
<1>6. CASE Apply
    BY <1>6, DeviceApply
<1>7. CASE Rename
    BY <1>7, DeviceRename
<1>8. CASE SaveFails \/ SyncFails
    BY <1>8, DeviceSaveFails
<1>9. CASE ApplyFails \/ SyncDirectory \/ RollbackFails
    <2>1. \A k \in Touched \ drift' : Mirrors(disk, k)
        <3>1. CASE ApplyFails \/ RollbackFails
            BY <3>1 DEF ApplyFails, RollbackFails, DeviceInv, TouchedKey
        <3>2. CASE SyncDirectory
            <4>1. PICK k \in Keys : Touched = {k}
                BY <3>2, OperationApart DEF SyncDirectory
            <4>2. Entry(disk, k) = new /\ Entry(new, k) = new
                BY <3>2, <4>1 DEF FileInv, OperationShape, SyncDirectory, Touched, KeysOf, Entry
            <4>3. k \in drift \/ Mirrors(new, k)
                BY <3>2, <4>1 DEF DeviceInv, TouchedKey, SyncDirectory
            <4>4. QED
                BY <3>2, <4>1, <4>2, <4>3 DEF Mirrors, SyncDirectory
        <3>3. QED
            BY <1>9, <3>1, <3>2
    <2>2. status = "serving"
        BY <1>9 DEF ApplyFails, SyncDirectory, RollbackFails, FileInv, OperationShape
    <2>3. QED
        BY <1>9, <2>1, <2>2, DeviceFinish
           DEF ApplyFails, SyncDirectory, RollbackFails, file, device
<1>10. CASE Rollback
    BY <1>10, DeviceRollback
<1>11. CASE Crash
    BY <1>11, DeviceCrash
<1>12. CASE PowerLoss
    BY <1>12, DevicePowerLoss
<1>13. CASE ResetInterface
    BY <1>13, DeviceReset
<1>14. CASE UNCHANGED vars
    <2>1. Touched' = Touched /\ KeysOf(todo') = KeysOf(todo)
        BY <1>14 DEF vars, Touched, KeysOf, request
    <2>2. \A j \in Keys : Mirrors(disk, j)' <=> Mirrors(disk, j)
        BY <1>14 DEF Mirrors, Entry, Routes, vars, device, file
    <2>3. \A j \in Keys : Mirrors(new, j)' <=> Mirrors(new, j)
        BY <1>14 DEF Mirrors, Entry, Routes, vars, device, request
    <2>t. Touched \subseteq Keys
        BY DEF FileInv, TypeOK, Touched, KeysOf, Peer
    <2>4. FailuresAreConfined'
        BY <1>14, <2>1, <2>2 DEF DeviceInv, FailuresAreConfined, vars
    <2>5. TouchedKey'
        BY <1>14, <2>1, <2>2, <2>3, <2>t DEF DeviceInv, TouchedKey, vars, request, file, Entry
    <2>6. QED
        BY <2>4, <2>5 DEF DeviceInv
<1>15. QED
    BY <1>1, <1>2, <1>3, <1>4, <1>5, <1>6, <1>7, <1>8, <1>9, <1>10, <1>11, <1>12, <1>13, <1>14
       DEF Next, StartStep, Operation, OperationStep, Disturbance

\* What ties the device to the file while operations run, fail and are undone.
THEOREM DeviceInvariant == Spec => []DeviceInv
<1>1. QED
    BY FileInit, FileStep, DeviceInit, DeviceStep, PTL DEF Spec

\* A failure is confined to the peer it hit: every other key is on the device as
\* peers.json says.
THEOREM Confinement == Spec => []FailuresAreConfined
<1>1. DeviceInv => FailuresAreConfined
    BY DEF DeviceInv
<1>2. QED
    BY <1>1, DeviceInvariant, PTL

-----------------------------------------------------------------------------
(* What operations and outsiders have to do with each other. *)

LEMMA OutsidersInit == Init => OutsidersStay
BY OutsiderAssumption DEF Init, OutsidersStay

\* ConfigureDevice names keys of the agent only, so outsiders can only lose routes.
LEMMA ConfigureKeepsOutsiders ==
    ASSUME TypeOK, OutsidersStay, NEW from, NEW to, from \subseteq Peer, to \subseteq Peer,
           Configure(from, to)
    PROVE  OutsidersStay'
<1>1. KeysOf(from) \subseteq Keys /\ KeysOf(from \cup to) \subseteq Keys
    BY DEF KeysOf, Peer
<1>2. QED
    BY <1>1, OutsiderAssumption DEF Configure, OutsidersStay, TypeOK

LEMMA OutsidersStep == TypeOK /\ OutsidersStay /\ [Next]_vars => OutsidersStay'
<1> SUFFICES ASSUME TypeOK, OutsidersStay, [Next]_vars PROVE OutsidersStay'
    OBVIOUS
<1>1. CASE ReconcilePeer
    <2>1. PICK p \in todo : Configure({}, {p})
        BY <1>1 DEF ReconcilePeer
    <2>2. {p} \subseteq Peer /\ {} \subseteq Peer
        BY <2>1 DEF TypeOK
    <2>3. QED
        BY <2>1, <2>2, ConfigureKeepsOutsiders
<1>2. CASE Apply \/ Rollback
    BY <1>2, ConfigureKeepsOutsiders DEF Apply, Rollback, TypeOK
<1>3. CASE PowerLoss \/ ResetInterface
    BY <1>3, OutsiderAssumption DEF PowerLoss, ResetInterface, FreshDevice, OutsidersStay
<1>4. CASE UNCHANGED device
    BY <1>4 DEF OutsidersStay, device
<1>5. ASSUME ~ReconcilePeer, ~Apply, ~Rollback, ~PowerLoss, ~ResetInterface
      PROVE  UNCHANGED device
    BY <1>5 DEF Next, vars, StartStep, Operation, OperationStep, Disturbance, Start, Serve,
        StartFails, CreatePeer, SetEnabled, DeletePeer, Begin, ApplyFails, Rename, SaveFails,
        SyncDirectory, SyncFails, RollbackFails, Crash
<1>6. QED
    BY <1>1, <1>2, <1>3, <1>4, <1>5

\* Peers of the interface that are not in peers.json stay on it and gain no route.
THEOREM OutsidersAreKept == Spec => []OutsidersStay
<1>1. QED
    BY OutsidersInit, OutsidersStep, TypeInit, TypeStep, PTL DEF Spec

\* No step of an operation reaches another key.
LEMMA StepsTouchOneKey ==
    ASSUME OperationStep, NEW k \in Keys \ Touched
    PROVE  /\ Entry(disk', k) = Entry(disk, k)
           /\ k \in onDevice' <=> k \in onDevice
<1>1. k \notin KeysOf(old) /\ k \notin KeysOf(new)
    BY DEF Touched, KeysOf
<1>2. CASE Apply \/ Rollback
    BY <1>1, <1>2 DEF Apply, Rollback, Configure, file
<1>3. CASE Rename
    BY <1>1, <1>3 DEF Rename, Entry, KeysOf, device
<1>4. CASE SyncDirectory
    BY <1>4 DEF SyncDirectory, device
<1>5. CASE ApplyFails \/ SaveFails \/ SyncFails \/ RollbackFails
    BY <1>5 DEF ApplyFails, SaveFails, SyncFails, RollbackFails, file, device
<1>6. QED
    BY <1>2, <1>3, <1>4, <1>5 DEF OperationStep

\* An operation ends with its whole effect or without one.
LEMMA OperationEnds ==
    ASSUME FileInv, DeviceInv, OperationStep, step' = "idle",
           NEW k \in Touched, NEW before \in {old}, NEW after \in {new}
    PROVE  IF step = "sync"
           THEN TookEffect(k, after)'
           ELSE \/ TookEffect(k, before)'
                \/ Entry(disk', k) = after /\ k \in unsure' \cap drift'
<1>k. k \in Keys
    BY DEF FileInv, TypeOK, Touched, KeysOf, Peer
<1>1. CASE SyncDirectory
    <2>1. Entry(disk', k) = after
        BY <1>1 DEF SyncDirectory, FileInv, OperationShape
    <2>2. k \in drift \/ Mirrors(new, k)
        BY <1>1 DEF SyncDirectory, DeviceInv, TouchedKey
    <2>3. Mirrors(new, k) => Mirrors(after, k)'
        BY <1>1 DEF SyncDirectory, Mirrors, Entry, Routes, device
    <2>4. QED
        BY <1>1, <2>1, <2>2, <2>3 DEF SyncDirectory, TookEffect
<1>2. CASE ApplyFails
    <2>1. Entry(disk, k) = old /\ Entry(old, k) = old
        BY <1>2 DEF ApplyFails, FileInv, OperationShape, Entry
    <2>2. k \in drift \/ Mirrors(disk, k)
        BY <1>2 DEF ApplyFails, DeviceInv, TouchedKey
    <2>3. Mirrors(disk, k) => Mirrors(before, k)'
        BY <1>2, <2>1 DEF ApplyFails, Mirrors, Entry, Routes, device
    <2>4. QED
        BY <1>2, <2>1, <2>2, <2>3 DEF ApplyFails, TookEffect, file
<1>3. CASE Rollback \/ RollbackFails
    <2>1. \/ Entry(disk, k) = old
          \/ Entry(disk, k) = new /\ k \in unsure
        BY <1>3 DEF Rollback, RollbackFails, FileInv, OperationShape
    <2>2. /\ step = "rollback" /\ disk' = disk /\ unsure' = unsure
          /\ drift \subseteq drift'
        BY <1>3 DEF Rollback, RollbackFails, file, history
    <2>3. CASE k \in drift'
        BY <2>1, <2>2, <2>3 DEF TookEffect, Entry
    <2>4. CASE k \notin drift'
        <3>1. Rollback /\ k \notin drift
            BY <1>3, <2>2, <2>4 DEF RollbackFails
        <3>2. Entry(disk, k) = old
            BY <3>1 DEF DeviceInv, TouchedKey, Rollback
        <3>3. PICK j \in Keys : Touched = {j} /\ KeysOf(new \cup old) = {j}
            BY <3>1, OperationApart DEF Rollback
        <3>4. k \in onDevice' <=> old # {}
            BY <1>k, <3>1, <3>3, ConfigureOwn DEF Rollback
        <3>5. allowed'[k] = Routes(old) /\ Entry(old, k) = old
            BY <1>k, <3>1, <3>3, ConfigureOwn DEF Rollback
        <3>6. Mirrors(before, k)'
            BY <3>4, <3>5 DEF Mirrors, Entry, Routes
        <3>7. QED
            BY <2>2, <3>2, <3>6 DEF TookEffect, Entry
    <2>5. QED
        BY <2>3, <2>4
<1>4. CASE Apply \/ Rename \/ SaveFails \/ SyncFails
    BY <1>4 DEF Apply, Rename, SaveFails, SyncFails
<1>5. QED
    BY <1>1, <1>2, <1>3, <1>4 DEF OperationStep

\* An operation that returns nil has its peer in the file and on the device; one that
\* returns an error has left both as they were, but for an error after the rename; no
\* step reaches another key.
THEOREM OperationsAreAtomic == Spec => OperationsAreAllOrNothing
<1> DEFINE AllOrNothing ==
        /\ \A k \in Keys \ Touched :
              /\ Entry(disk', k) = Entry(disk, k)
              /\ k \in onDevice' <=> k \in onDevice
        /\ step' = "idle" =>
              \A k \in Touched, before \in {old}, after \in {new} :
                 IF step = "sync"
                 THEN TookEffect(k, after)'
                 ELSE \/ TookEffect(k, before)'
                      \/ Entry(disk', k) = after /\ k \in unsure' \cap drift'
<1>1. FileInv /\ DeviceInv /\ OperationStep => AllOrNothing
    BY StepsTouchOneKey, OperationEnds
<1>2. FileInv /\ DeviceInv /\ [Next]_vars => [OperationStep => AllOrNothing]_vars
    BY <1>1
<1>3. QED
    BY <1>2, FileInvariant, DeviceInvariant, PTL DEF Spec, OperationsAreAllOrNothing

-----------------------------------------------------------------------------
(* The manager implements the registry. *)

LEMMA EntryIsOption ==
    ASSUME NEW state, state \subseteq Peer, Distinct(state), NEW k
    PROVE  Entry(state, k) \in {{}} \cup {{p} : p \in Peer}
<1>1. CASE Entry(state, k) = {}
    BY <1>1
<1>2. CASE Entry(state, k) # {}
    <2>1. PICK p \in Entry(state, k) : TRUE
        BY <1>2
    <2>2. Entry(state, k) = {p}
        BY <2>1 DEF Entry, Distinct
    <2>3. QED
        BY <2>1, <2>2 DEF Entry
<1>3. QED
    BY <1>1, <1>2

LEMMA RegistryInit == Init => Registry!Init
BY DEF Init, Registry!Init, Entry

LEMMA RenameReplaces ==
    ASSUME FileInv, TypeOK', Rename
    PROVE  \E k \in Keys : Registry!Replace(k)
<1>1. PICK k \in Keys : Touched = {k}
    BY OperationApart DEF Rename
<1>2. FileInv'
    BY FileRename
<1>3. Entry(disk', k) \in {{}} \cup {{p} : p \in Peer}
    BY <1>2, EntryIsOption DEF FileInv, TypeOK, DistinctStates
<1>4. \A j \in Keys \ {k} : Entry(disk', j) = Entry(disk, j)
    BY <1>1, ReplaceEntry DEF Rename, Others, Entry, Touched, KeysOf
<1>5. [j \in Keys |-> Entry(disk, j)]' = [[j \in Keys |-> Entry(disk, j)] EXCEPT ![k] = Entry(disk', k)]
    BY <1>4
<1>6. QED
    BY <1>1, <1>3, <1>5 DEF Registry!Replace, Rename

LEMMA SyncConfirms ==
    ASSUME FileInv, SyncDirectory
    PROVE  \E k \in Keys : Registry!Confirm(k)
<1>1. PICK k \in Keys : Touched = {k}
    BY OperationApart DEF SyncDirectory
<1>2. Entry(disk, k) = new
    BY <1>1 DEF FileInv, OperationShape, SyncDirectory
<1>3. promise' = [promise EXCEPT ![k] = [j \in Keys |-> Entry(disk, j)][k]]
    BY <1>1, <1>2 DEF SyncDirectory, FileInv, TypeOK
<1>4. QED
    BY <1>1, <1>3 DEF Registry!Confirm, SyncDirectory, Entry

LEMMA PowerLossReverts ==
    ASSUME FileInv, TypeOK', PowerLoss
    PROVE  Registry!Revert
<1>1. FileInv'
    BY FilePowerLoss
<1>2. \A k \in Keys : Entry(disk', k) \in {{}} \cup {{p} : p \in Peer}
    BY <1>1, EntryIsOption DEF FileInv, TypeOK, DistinctStates
<1>3. \A k \in Keys \ unsure : Entry(disk', k) = Entry(disk, k)
    BY DEF FileInv, AcknowledgedIsDurable, PowerLoss
<1>4. QED
    BY <1>2, <1>3 DEF Registry!Revert, PowerLoss, history

LEMMA RegistryStep == FileInv /\ [Next]_vars => [Registry!Next]_(Registry!vars)
<1> SUFFICES ASSUME FileInv, [Next]_vars PROVE [Registry!Next]_(Registry!vars)
    OBVIOUS
<1>t. TypeOK'
    BY TypeStep DEF FileInv
<1>1. CASE Rename
    BY <1>1, <1>t, RenameReplaces DEF Registry!Next
<1>2. CASE SyncDirectory
    BY <1>2, <1>t, SyncConfirms DEF Registry!Next
<1>3. CASE PowerLoss
    BY <1>3, <1>t, PowerLossReverts DEF Registry!Next
<1>4. CASE UNCHANGED <<disk, promise, unsure>>
    BY <1>4 DEF Registry!vars, Entry
<1>5. ASSUME ~Rename, ~SyncDirectory, ~PowerLoss
      PROVE  UNCHANGED <<disk, promise, unsure>>
    BY <1>5 DEF Next, vars, StartStep, Operation, OperationStep, Disturbance, file, history,
        Start, ReconcilePeer, Serve, StartFails, CreatePeer, SetEnabled, DeletePeer, Begin,
        Apply, ApplyFails, SaveFails, SyncFails, Rollback, RollbackFails, Crash, ResetInterface
<1>6. QED
    BY <1>1, <1>2, <1>3, <1>4, <1>5

\* The manager implements the registry it promises to the control plane.
THEOREM Refinement == Spec => ImplementsRegistry
<1>1. QED
    BY RegistryInit, RegistryStep, FileInvariant, PTL
       DEF Spec, ImplementsRegistry, Registry!Spec

-----------------------------------------------------------------------------
(* What the registry promises by itself. *)

\* The promises are one per key.
RegistryHolds == promise = [k \in Keys |-> promise[k]] /\ Registry!ConfirmedHolds

LEMMA RegistryHoldsInit == Registry!Init => RegistryHolds
BY DEF RegistryHolds, Registry!Init, Registry!ConfirmedHolds

LEMMA RegistryHoldsStep == RegistryHolds /\ [Registry!Next]_(Registry!vars) => RegistryHolds'
<1> SUFFICES ASSUME RegistryHolds, [Registry!Next]_(Registry!vars) PROVE RegistryHolds'
    OBVIOUS
<1> USE DEF RegistryHolds, Registry!ConfirmedHolds
<1>1. ASSUME NEW k \in Keys, Registry!Replace(k) PROVE RegistryHolds'
    BY <1>1 DEF Registry!Replace
<1>2. ASSUME NEW k \in Keys, Registry!Confirm(k) PROVE RegistryHolds'
    BY <1>2 DEF Registry!Confirm
<1>3. CASE Registry!Revert
    BY <1>3 DEF Registry!Revert
<1>4. CASE UNCHANGED Registry!vars
    BY <1>4 DEF Registry!vars
<1>5. QED
    BY <1>1, <1>2, <1>3, <1>4 DEF Registry!Next

\* Whoever implements the registry keeps its promises: what an operation was
\* acknowledged for stays until another operation on the same key takes effect,
\* whatever power losses revert (PeerRegistry, Store.Save).
THEOREM RegistryKeepsPromises == ImplementsRegistry => []Registry!ConfirmedHolds
<1>1. RegistryHolds => Registry!ConfirmedHolds
    BY DEF RegistryHolds
<1>2. QED
    BY <1>1, RegistryHoldsInit, RegistryHoldsStep, PTL DEF ImplementsRegistry, Registry!Spec
=============================================================================
