------------------------ MODULE ManagedSnapshotProofs ------------------------
(***************************************************************************)
(* Proofs about ManagedSnapshot, for every set of keys and outsiders and   *)
(* every pool.  They rest on the invariants of the manager: what a         *)
(* collection has seen of a key that did not move since is what the device *)
(* holds now, and that is what the file says; what the file says between   *)
(* operations is what they acknowledged.                                   *)
(***************************************************************************)
EXTENDS ManagedSnapshot, NativeManagerProofs

\* What a collection in progress knows of the device.
SeenShape ==
    collecting =>
        /\ status = "serving"
        /\ \A k \in AllKeys \ moved :
              /\ k \in seenPeers <=> k \in onDevice
              /\ seenAllowed[k] = allowed[k]

ManagerInv  == FileInv /\ DeviceInv
SnapshotInv == SnapshotTypeOK /\ ManagerInv /\ SeenShape

-----------------------------------------------------------------------------
\* To the manager, a step of a collection is a stutter.
LEMMA StepsOfTheManager == [SnapshotNext]_snapshotVars => [Next]_vars
BY DEF SnapshotNext, ManagerStep, ReadDevice, ReadPeers, snapshotVars

LEMMA ManagerInvStep == ManagerInv /\ [Next]_vars => ManagerInv'
BY FileStep, DeviceStep DEF ManagerInv, FileInv

LEMMA SnapshotInitially == SnapshotInit => SnapshotInv
<1> SUFFICES ASSUME SnapshotInit PROVE SnapshotInv
    OBVIOUS
<1>1. Init /\ ~collecting
    BY DEF SnapshotInit
<1>2. ManagerInv
    BY <1>1, FileInit, DeviceInit DEF ManagerInv
<1>3. SnapshotTypeOK
    BY <1>2 DEF SnapshotInit, SnapshotTypeOK, ManagerInv, FileInv
<1>4. QED
    BY <1>1, <1>2, <1>3 DEF SnapshotInv, SeenShape

LEMMA SnapshotStep == SnapshotInv /\ [SnapshotNext]_snapshotVars => SnapshotInv'
<1> SUFFICES ASSUME SnapshotInv, [SnapshotNext]_snapshotVars PROVE SnapshotInv'
    OBVIOUS
<1>1. ManagerInv'
    BY StepsOfTheManager, ManagerInvStep DEF SnapshotInv
<1>2. TypeOK /\ TypeOK'
    BY <1>1 DEF SnapshotInv, SnapshotTypeOK, ManagerInv, FileInv
<1>3. SnapshotTypeOK' /\ SeenShape'
    <2>1. CASE NotCollecting
        BY <1>2, <2>1 DEF NotCollecting, SnapshotTypeOK, SeenShape
    <2>2. CASE ReadDevice
        <3>1. collecting' /\ status' = "serving" /\ moved' = {}
            BY <2>2 DEF ReadDevice, vars
        <3>2. onDevice' = onDevice /\ allowed' = allowed
            BY <2>2 DEF ReadDevice, vars, device
        <3>3. seenPeers' = onDevice /\ seenAllowed' = allowed
            BY <2>2 DEF ReadDevice
        <3>4. SnapshotTypeOK'
            BY <1>2, <3>1, <3>3 DEF SnapshotTypeOK, TypeOK, AllKeys
        <3>5. QED
            BY <3>1, <3>2, <3>3, <3>4 DEF SeenShape
    <2>3. CASE UNCHANGED <<collecting, seenPeers, seenAllowed>> /\ status' = "serving" /\ Moves
        <3>1. collecting' = collecting /\ seenPeers' = seenPeers /\ seenAllowed' = seenAllowed
            BY <2>3
        <3>2. SnapshotTypeOK'
            BY <1>2, <2>3, <3>1 DEF Moves, SnapshotInv, SnapshotTypeOK, AllKeys
        <3>3. ASSUME collecting, NEW k \in AllKeys \ moved'
              PROVE  /\ k \notin moved
                     /\ k \in onDevice' <=> k \in onDevice
                     /\ allowed'[k] = allowed[k]
            BY <2>3, <3>3 DEF Moves
        <3>4. SeenShape'
            BY <2>3, <3>1, <3>3 DEF SnapshotInv, SeenShape
        <3>5. QED
            BY <3>2, <3>4
    <2>4. CASE UNCHANGED snapshotVars
        BY <1>2, <2>4 DEF snapshotVars, collection, vars, device, SnapshotInv, SnapshotTypeOK, SeenShape
    <2>5. QED
        BY <2>1, <2>2, <2>3, <2>4 DEF SnapshotNext, ManagerStep, Moves, ReadPeers
<1>4. QED
    BY <1>1, <1>3 DEF SnapshotInv

\* A snapshot that is completed is completed by ReadPeers.
LEMMA Completion ==
    ASSUME [SnapshotNext]_snapshotVars, collecting, ~collecting', status' = "serving"
    PROVE  step = "idle" /\ status = "serving"
<1>1. ~ Moves
    BY DEF Moves
<1>2. QED
    BY <1>1 DEF SnapshotNext, ManagerStep, ReadDevice, ReadPeers, snapshotVars, collection

\* When a snapshot is completed, no operation is in progress, and for a key that
\* neither moved nor was hit by a failure the device was seen as the file says.
LEMMA CompletionMirrors ==
    ASSUME SnapshotInv, [SnapshotNext]_snapshotVars, collecting, ~collecting', status' = "serving",
           NEW k \in Keys \ (moved \cup drift)
    PROVE  /\ k \in seenPeers <=> Entry(disk, k) # {}
           /\ seenAllowed[k] = Routes(Entry(disk, k))
<1>1. step = "idle" /\ status = "serving"
    BY Completion
<1>2. Touched = {} /\ KeysOf(todo) = {}
    BY <1>1 DEF SnapshotInv, ManagerInv, FileInv, OperationShape, ReconcileShape, Touched, KeysOf
<1>3. Mirrors(disk, k)
    BY <1>1, <1>2 DEF SnapshotInv, ManagerInv, DeviceInv, FailuresAreConfined
<1>4. QED
    BY <1>3 DEF SnapshotInv, SeenShape, AllKeys, Mirrors

-----------------------------------------------------------------------------
(* The theorems. *)

\* A collection leaves the manager alone: whatever is proved of the manager's
\* behaviours, its invariants, the durability of what it acknowledged and the
\* registry it implements, is true of them with collections in between
\* (ManagedCollector.Collect, Manager.Peers).
THEOREM CollectionsLeaveTheManagerAlone ==
    SnapshotSpec => Spec /\ []AcknowledgedIsDurable /\ ImplementsRegistry
<1>1. SnapshotInit => Init
    BY DEF SnapshotInit
<1>2. SnapshotSpec => Spec
    BY <1>1, StepsOfTheManager, PTL DEF SnapshotSpec, Spec
<1>3. QED
    BY <1>2, Durability, Refinement, PTL

\* The inductive invariant of a collection next to the manager's operations.
THEOREM SnapshotInvariant == SnapshotSpec => []SnapshotInv
BY SnapshotInitially, SnapshotStep, PTL DEF SnapshotSpec

\* Every variable of a collection keeps its type.
THEOREM SnapshotTypeCorrect == SnapshotSpec => []SnapshotTypeOK
<1>1. SnapshotInv => SnapshotTypeOK
    BY DEF SnapshotInv
<1>2. QED
    BY <1>1, SnapshotInvariant, PTL

\* The two halves of a row belong together, whatever ran between the two reads, for
\* every key that neither moved nor was hit by a failure (ManagedCollector.Collect).
THEOREM RowsStayCoherent == SnapshotSpec => RowsAreCoherent
<1>1. ASSUME SnapshotInv, [SnapshotNext]_snapshotVars,
             collecting, ~collecting', status' = "serving",
             NEW k \in Keys \ (moved \cup drift)
      PROVE  LET row == Row(k) IN
             /\ row.listed <=> row.managed
             /\ row.routes = IF TRUE \in row.enabled THEN row.configured ELSE {}
    <2>1. /\ k \in seenPeers <=> Entry(disk, k) # {}
          /\ seenAllowed[k] = Routes(Entry(disk, k))
        BY <1>1, CompletionMirrors
    <2>2. \A p, q \in Entry(disk, k) : p = q
        BY <1>1 DEF SnapshotInv, ManagerInv, FileInv, DistinctStates, Distinct, Entry
    <2>3. \A p \in Entry(disk, k) : p.enabled \in BOOLEAN
        BY <1>1 DEF SnapshotInv, ManagerInv, FileInv, TypeOK, Peer, Entry
    <2>4. Routes(Entry(disk, k)) = IF TRUE \in {p.enabled : p \in Entry(disk, k)}
                                   THEN {p.address : p \in Entry(disk, k)} ELSE {}
        BY <2>2, <2>3 DEF Routes
    <2>5. QED
        BY <2>1, <2>4 DEF Row
<1>2. SnapshotInv /\ [SnapshotNext]_snapshotVars =>
        [collecting /\ ~collecting' /\ status' = "serving" =>
          \A k \in Keys \ (moved \cup drift) :
              LET row == Row(k) IN
              /\ row.listed <=> row.managed
              /\ row.routes = IF TRUE \in row.enabled THEN row.configured ELSE {}]_snapshotVars
    BY <1>1
<1>3. QED
    BY <1>2, SnapshotInvariant, PTL DEF SnapshotSpec, RowsAreCoherent

\* A snapshot reports what the acknowledged operations left, whatever ran between its
\* two reads (ManagedCollector.Collect, Store.Save).
THEOREM SnapshotsReportTheAcknowledged == SnapshotSpec => AcknowledgedIsReported
<1>1. ASSUME SnapshotInv, [SnapshotNext]_snapshotVars,
             collecting, ~collecting', status' = "serving",
             NEW k \in Keys \ unsure
      PROVE  LET row == Row(k) IN
             /\ row.managed <=> promise[k] # {}
             /\ row.enabled = {p.enabled : p \in promise[k]}
             /\ k \notin moved \cup drift =>
                   /\ row.listed <=> promise[k] # {}
                   /\ row.routes = Routes(promise[k])
    <2>1. Entry(disk, k) = promise[k]
        BY <1>1 DEF SnapshotInv, ManagerInv, FileInv, AcknowledgedIsDurable
    <2>2. ASSUME k \notin moved \cup drift
          PROVE  (k \in seenPeers <=> promise[k] # {}) /\ seenAllowed[k] = Routes(promise[k])
        BY <1>1, <2>1, <2>2, CompletionMirrors
    <2>3. QED
        BY <2>1, <2>2 DEF Row
<1>2. SnapshotInv /\ [SnapshotNext]_snapshotVars =>
        [collecting /\ ~collecting' /\ status' = "serving" =>
          \A k \in Keys \ unsure :
              LET row == Row(k) IN
              /\ row.managed <=> promise[k] # {}
              /\ row.enabled = {p.enabled : p \in promise[k]}
              /\ k \notin moved \cup drift =>
                    /\ row.listed <=> promise[k] # {}
                    /\ row.routes = Routes(promise[k])]_snapshotVars
    BY <1>1
<1>3. QED
    BY <1>2, SnapshotInvariant, PTL DEF SnapshotSpec, AcknowledgedIsReported
=============================================================================
