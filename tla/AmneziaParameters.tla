-------------------------- MODULE AmneziaParameters --------------------------
(***************************************************************************)
(* The obfuscation parameters of an AmneziaWG interface: how the setup     *)
(* scripts draw them and what the agent accepts when it starts.  The two   *)
(* are written in different languages and nothing but their authors keeps  *)
(* them together: a set of parameters the agent refuses keeps it from ever *)
(* starting on an interface that is already in use.                        *)
(*                                                                         *)
(* A reading of the random source is a natural number; a range of AWG 3.x  *)
(* ("100-120", or "1" alone) is the sequence of its numbers.               *)
(***************************************************************************)
EXTENDS Integers, Sequences

CONSTANT Readings  \* what the random source may deliver: one number per drawn parameter

Drawn == {"jc", "jmin", "jmax", "s1", "s2", "h1", "h2", "h3", "h4"}

ASSUME ReadingsAssumption == Readings \subseteq [Drawn -> Nat]

Transports == {"wireguard", "amneziawg", "amneziawg3"}
Ranged     == {"H1", "H2", "H3", "H4", "ContentPaddingAddition", "RekeyAfterTime", "RekeyTimeout",
               "RejectAfterTime", "KeepaliveTimeout", "MaxHandshakeAttempts"}

\* Any two of the four packet headers differ.
Distinct(h) == \A i, j \in 1..4 : i # j => h[i] # h[j]

-----------------------------------------------------------------------------
(* The setup scripts. *)

RandomBetween(low, high, reading) == low + (reading % (high - low + 1))

\* The largest header of AWG 1.x, for the script and for the agent.
MaxHeader == 2147483647

Headers(r) == LET header(reading) == RandomBetween(100000, MaxHeader, reading) IN
              <<header(r["h1"]), header(r["h2"]), header(r["h3"]), header(r["h4"])>>

AwgOf(r) == [jc   |-> RandomBetween(4, 8, r["jc"]),
             jmin |-> RandomBetween(20, 40, r["jmin"]),
             jmax |-> RandomBetween(70, 100, r["jmax"]),
             s    |-> <<RandomBetween(15, 150, r["s1"]), RandomBetween(15, 150, r["s2"])>>,
             h    |-> Headers(r)]

\* The loops draw S2 and H2-H4 again until they are free of clashes.
Settled(p) == p.s[1] + 56 # p.s[2] /\ Distinct(p.h)

\* Variant of AwgParameters: nothing is drawn again.
AwgUnsettled == {AwgOf(r) : r \in Readings}

AwgParameters == {p \in {AwgOf(r) : r \in Readings} : Settled(p)}

\* AWG 3.x: one padding for all four kinds of packet, constant ranges, and the
\* key that "awg genkey" printed.
Awg3Ranges ==
    [H1 |-> <<1>>, H2 |-> <<2>>, H3 |-> <<3>>, H4 |-> <<4>>, ContentPaddingAddition |-> <<10, 100>>,
     RekeyAfterTime |-> <<100, 120>>, RekeyTimeout |-> <<3, 8>>, RejectAfterTime |-> <<150, 180>>,
     KeepaliveTimeout |-> <<7, 13>>, MaxHandshakeAttempts |-> <<15, 20>>]

Awg3Of(r) == LET s == RandomBetween(12, 64, r["s1"]) IN
             [jc     |-> RandomBetween(4, 8, r["jc"]),
              jmin   |-> RandomBetween(20, 40, r["jmin"]),
              jmax   |-> RandomBetween(70, 100, r["jmax"]),
              s      |-> <<s, s, s, s>>,
              ranges |-> Awg3Ranges,
              keyOk  |-> TRUE]

Awg3Parameters == {Awg3Of(r) : r \in Readings}

\* What the setup script of a transport may write into a new interface.
Generated(transport) == CASE transport = "amneziawg"  -> AwgParameters
                          [] transport = "amneziawg3" -> Awg3Parameters
                          [] OTHER                    -> {}

-----------------------------------------------------------------------------
(* The agent. *)

JunkAccepted(p) == p.jc \in 1..128 /\ p.jmin >= 1 /\ p.jmax =< 1280 /\ p.jmin =< p.jmax

\* validateAmneziaParameters
AwgAccepted(p) ==
    /\ JunkAccepted(p)
    /\ p.s[1] \in 0..1132 /\ p.s[2] \in 0..1188
    /\ p.s[1] + 56 # p.s[2]
    /\ Distinct(p.h)
    /\ \A i \in 1..4 : p.h[i] \in 5..MaxHeader

\* validAmnezia3Range
RangeAccepted(range) ==
    /\ Len(range) \in {1, 2}
    /\ range[1] >= 0
    /\ Len(range) = 2 => range[2] >= range[1]

\* validateAmnezia3Parameters; its two switches are "on" in whatever a script writes.
Awg3Accepted(p) ==
    /\ JunkAccepted(p)
    /\ \A i \in 1..4 : p.s[i] \in 12..1280
    /\ p.keyOk
    /\ \A name \in Ranged : RangeAccepted(p.ranges[name])

\* What NewManager makes of the parameters of its transport.
Accepted(transport, p) == CASE transport = "amneziawg"  -> AwgAccepted(p)
                            [] transport = "amneziawg3" -> Awg3Accepted(p)
                            [] OTHER                    -> TRUE
=============================================================================
