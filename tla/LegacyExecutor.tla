---------------------------- MODULE LegacyExecutor ----------------------------
(***************************************************************************)
(* An agent without a managed interface (quick-install --no-interface): it *)
(* reports the peers of every interface and executes enable_peer and       *)
(* disable_peer on whatever peer a command names.  There is no file and no *)
(* lock: what a command means is decided when the control plane issues it  *)
(* from a snapshot, what it does when the agent executes it, and the       *)
(* interfaces' owner works on them meanwhile.                              *)
(***************************************************************************)
EXTENDS Sequences, Naturals

CONSTANTS
    Peers,      \* peers an interface may have, each an interface and a public key
    Addresses,  \* AllowedIPs
    MaxQueue    \* bound on the commands issued and not yet executed

VARIABLES
    onDevice,   \* peers on their interface
    allowed,    \* AllowedIPs of each
    reported,   \* peers in the last snapshot
    remembered, \* AllowedIPs of each peer as the control plane last saw it enabled
    queue       \* commands issued and not yet executed

device == <<onDevice, allowed>>
vars   == <<device, reported, remembered, queue>>

Init ==
    /\ onDevice = {} /\ allowed = [p \in Peers |-> {}]
    /\ reported = {} /\ remembered = [p \in Peers |-> {}]
    /\ queue = <<>>

\* The kernel gives peer the routes, creates it if it is not there, and takes the
\* routes from whoever had them.
Give(peer, routes) ==
    /\ onDevice' = onDevice \cup {peer}
    /\ allowed' = [p \in Peers |-> IF p = peer THEN routes ELSE allowed[p] \ routes]

-----------------------------------------------------------------------------
(* The owner of the interfaces: wg set. *)

Add ==
    /\ \E p \in Peers \ onDevice, routes \in SUBSET Addresses : Give(p, routes)
    /\ UNCHANGED <<reported, remembered, queue>>

Remove ==
    /\ \E p \in onDevice :
          onDevice' = onDevice \ {p} /\ allowed' = [allowed EXCEPT ![p] = {}]
    /\ UNCHANGED <<reported, remembered, queue>>

-----------------------------------------------------------------------------
(* The control plane. *)

Issue ==
    /\ Len(queue) < MaxQueue
    /\ \E p \in reported, type \in {"enable_peer", "disable_peer"} :
          queue' = Append(queue, [peer |-> p, routes |-> IF type = "enable_peer"
                                                         THEN remembered[p] ELSE {}])
    /\ UNCHANGED <<device, reported, remembered>>

-----------------------------------------------------------------------------
(* The agent. *)

\* Collector.Collect, of all interfaces; the snapshot arrives.
Collect ==
    /\ reported' = onDevice
    /\ remembered' = [p \in Peers |->
          IF p \in onDevice /\ allowed[p] # {} THEN allowed[p] ELSE remembered[p]]
    /\ UNCHANGED <<device, queue>>

\* PeerCommandExecutor.Execute, Controller.SetPeerAllowedIPs
Execute ==
    /\ queue # <<>>
    /\ Give(Head(queue).peer, Head(queue).routes)
    /\ queue' = Tail(queue)
    /\ UNCHANGED <<reported, remembered>>

\* The command is of another type, or ConfigureDevice returns an error: the result
\* is a failure.
ExecuteFails ==
    /\ queue # <<>>
    /\ queue' = Tail(queue)
    /\ UNCHANGED <<device, reported, remembered>>

Next == Add \/ Remove \/ Issue \/ Collect \/ Execute \/ ExecuteFails

Spec == Init /\ [][Next]_vars

\* deploy/README: an agent without a managed interface "only sends a snapshot of the
\* interfaces that already exist", and creating and enabling "are available only for
\* peers in PeerBlade's local state", of which it has none: executing a command leaves
\* the peers of the interfaces who they are (SetPeerAllowedIPs).
CommandsCreateNoPeers == [][Execute => onDevice' = onDevice]_vars
=============================================================================
