---------------------------- MODULE ManagedSnapshot ----------------------------
(***************************************************************************)
(* The collection of a snapshot (ManagedCollector.Collect) next to the     *)
(* peer operations of NativeManager.  A collection reads the device, then  *)
(* takes manager.mu to read the peers of peers.json, and joins the two.    *)
(* The snapshot and the live traffic worker share the collector, whose     *)
(* mutex admits one collection at a time.                                  *)
(***************************************************************************)
EXTENDS NativeManager

VARIABLES
    collecting,    \* whether a collection has read the device and not yet the peers
    seenPeers,     \* the peers of the device it has read
    seenAllowed,   \* their AllowedIPs
    moved          \* history: keys whose device peer or file entry changed since

collection   == <<collecting, seenPeers, seenAllowed, moved>>
snapshotVars == <<vars, collection>>

AllKeys == Keys \cup Outsiders

SnapshotInit ==
    /\ Init
    /\ collecting = FALSE
    /\ seenPeers = {} /\ seenAllowed = [k \in AllKeys |-> {}] /\ moved = {}

NotCollecting ==
    /\ collecting' = FALSE
    /\ seenPeers' = {} /\ seenAllowed' = [k \in AllKeys |-> {}] /\ moved' = {}

\* source.Collect: the device as it is, whatever manager.mu protects meanwhile.
ReadDevice ==
    /\ status = "serving" /\ ~collecting
    /\ collecting' = TRUE
    /\ seenPeers' = onDevice /\ seenAllowed' = allowed /\ moved' = {}
    /\ UNCHANGED vars

\* A row of the snapshot: the peer as it was on the device, and what the file says
\* of it; a stored peer that was not on the device gets a row without AllowedIPs.
Row(k) ==
    [listed  |-> k \in seenPeers \/ Entry(disk, k) # {},
     routes  |-> seenAllowed[k],
     managed |-> Entry(disk, k) # {},
     enabled |-> {p.enabled : p \in Entry(disk, k)},
     configured |-> {p.address : p \in Entry(disk, k)}]

\* Variant of ReadPeers: the peers are read without manager.mu.
ReadPeersUnlocked ==
    /\ status = "serving" /\ collecting
    /\ NotCollecting
    /\ UNCHANGED vars

\* manager.Peers under manager.mu, the join and the end of the collection.
ReadPeers ==
    /\ status = "serving" /\ collecting
    /\ step = "idle"
    /\ NotCollecting
    /\ UNCHANGED vars

\* What a step of the manager changes under a collection; a dead process collects
\* nothing.
Moves ==
    IF status' = "serving"
    THEN /\ UNCHANGED <<collecting, seenPeers, seenAllowed>>
         /\ moved' = IF collecting
                     THEN moved \cup {k \in AllKeys :
                            \/ (k \in onDevice) # (k \in onDevice')
                            \/ allowed[k] # allowed'[k]
                            \/ Entry(disk, k) # Entry(disk', k)}
                     ELSE {}
    ELSE NotCollecting

ManagerStep == Next /\ Moves

SnapshotNext == ManagerStep \/ ReadDevice \/ ReadPeers

SnapshotSpec == SnapshotInit /\ [][SnapshotNext]_snapshotVars

\* The snapshot worker goes on; systemd restarts the agent whenever it is down; an
\* operation in progress goes on, for its calls of awg return, and a waiting
\* collection gets manager.mu even if operations keep coming (sync.Mutex hands the
\* lock to a waiter that has waited for a millisecond).
SnapshotFairSpec ==
    /\ SnapshotSpec
    /\ WF_snapshotVars(StartStep /\ Moves)
    /\ WF_snapshotVars(OperationStep /\ Moves)
    /\ SF_snapshotVars(ReadPeers)

SnapshotTypeOK ==
    /\ TypeOK
    /\ collecting \in BOOLEAN
    /\ seenPeers \in SUBSET AllKeys
    /\ seenAllowed \in [AllKeys -> SUBSET Hosts]
    /\ moved \in SUBSET AllKeys

\* The two halves of a row belong together: for a key that did not change during
\* the collection and that no failure hit, the row lists exactly the stored peers,
\* and an enabled peer with its own address, a disabled one with none.  The lock
\* in Peers is what makes this true of an operation between Apply and Rename.
RowsAreCoherent ==
    [][collecting /\ ~collecting' /\ status' = "serving" =>
          \A k \in Keys \ (moved \cup drift) :
              LET row == Row(k) IN
              /\ row.listed <=> row.managed
              /\ row.routes = IF TRUE \in row.enabled THEN row.configured ELSE {}]_snapshotVars

\* What the control plane was told of an operation is what a snapshot reports: for a
\* key whose last operation was acknowledged, a row is managed and enabled as that
\* operation left it, even if it ended while the collection ran; and unless the key
\* moved meanwhile or a failure hit it, the device side of the row says the same.
AcknowledgedIsReported ==
    [][collecting /\ ~collecting' /\ status' = "serving" =>
          \A k \in Keys \ unsure :
              LET row == Row(k) IN
              /\ row.managed <=> promise[k] # {}
              /\ row.enabled = {p.enabled : p \in promise[k]}
              /\ k \notin moved \cup drift =>
                    /\ row.listed <=> promise[k] # {}
                    /\ row.routes = Routes(promise[k])]_snapshotVars

\* A collection ends, whatever the operations do that compete for manager.mu.  It
\* rests on the operations ending: behind a call of awg that never returns, with
\* manager.mu held, it waits as well (AgentWorkers!WorkersComeAround).
CollectionsEnd == collecting ~> ~collecting
=============================================================================
