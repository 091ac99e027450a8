--------------------------- MODULE MCNativeManager ---------------------------
(* Instances of NativeManager for TLC. *)
EXTENDS NativeManager, TLC

CONSTANTS k1, k2, o1

\* The interface was there before the agent and its one peer uses the first host
\* of the pool.
CollidingRoutes == [o \in Outsiders |-> {2}]
NoRoutes        == [o \in Outsiders |-> {}]

KeySymmetry == Permutations(Keys)
=============================================================================
