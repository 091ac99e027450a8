-------------------------- MODULE MCManagedSnapshot --------------------------
(* Instances of ManagedSnapshot for TLC. *)
EXTENDS ManagedSnapshot

CONSTANTS k1, k2

\* Nothing but the agent's own peers on the interface.
NoRoutes == [o \in Outsiders |-> {}]
=============================================================================
