----------------------------- MODULE PeerRegistry -----------------------------
(***************************************************************************)
(* What the peer manager promises the control plane: a registry with one   *)
(* entry per public key.  An operation replaces one entry; until it is     *)
(* confirmed the entry is unsure, and a power loss may undo it.  A         *)
(* confirmed entry is what the registry holds, whatever happens to others. *)
(***************************************************************************)

CONSTANTS
    Keys,     \* public keys
    Entries,  \* what the registry can hold for a key
    NoEntry   \* one of them: the entry of a key the registry does not know

VARIABLES
    registry,  \* entry of each key
    promise,   \* entry of each key when an operation on it was last confirmed
    unsure     \* keys whose entry was replaced since

vars == <<registry, promise, unsure>>

Init ==
    /\ registry = [k \in Keys |-> NoEntry]
    /\ promise  = [k \in Keys |-> NoEntry]
    /\ unsure = {}

\* An operation on k takes effect.
Replace(k) ==
    /\ \E entry \in Entries : registry' = [registry EXCEPT ![k] = entry]
    /\ unsure' = unsure \cup {k}
    /\ UNCHANGED promise

\* An operation on k returns success.
Confirm(k) ==
    /\ promise' = [promise EXCEPT ![k] = registry[k]]
    /\ unsure' = unsure \ {k}
    /\ UNCHANGED registry

\* A power loss undoes operations that were not confirmed.
Revert ==
    /\ registry' \in [Keys -> Entries]
    /\ \A k \in Keys \ unsure : registry'[k] = registry[k]
    /\ UNCHANGED <<promise, unsure>>

Next == (\E k \in Keys : Replace(k) \/ Confirm(k)) \/ Revert

Spec == Init /\ [][Next]_vars

\* A confirmed entry is what the registry holds.
ConfirmedHolds == \A k \in Keys \ unsure : registry[k] = promise[k]
=============================================================================
