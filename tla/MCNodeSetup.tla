----------------------------- MODULE MCNodeSetup -----------------------------
(* Instances of NodeSetup for TLC. *)
EXTENDS NodeSetup, TLC

CONSTANTS a1, b1, b2, w1, t1, t2, t3, t4

OneEach == a1 :> "amneziawg" @@ b1 :> "amneziawg3" @@ b2 :> "amneziawg3" @@ w1 :> "wireguard"
TransportOf == [i \in Interfaces |-> OneEach[i]]

\* Readings of the random source that give the largest and the smallest parameters;
\* of AWG 1.x, the second has S1 and S2 that clash, the third headers that do.
Reading(n, s2, h2) == [name \in Drawn |->
    CASE name = "s2" -> s2 [] name = "h1" -> n [] name = "h2" -> h2
      [] name = "h3" -> n + 3 [] name = "h4" -> n + 4 [] OTHER -> n]
Extremes == {Reading(23462039, 4, 2147383647), Reading(0, 56, 2), Reading(0, 0, 0)}
Smallest == {Reading(0, 56, 2)}

\* By hand: without parameters.
BareByHand == {{}}
NoneByHand == {}

TokenSymmetry == Permutations(Tokens)
=============================================================================
