----------------------- MODULE AmneziaParametersProofs -----------------------
(* Whatever the random source delivers, the agent accepts what a setup script
   writes. *)
EXTENDS AmneziaParameters, TLAPS

\* random_between stays between its bounds, whatever it reads.
LEMMA DrawsStayInBounds ==
    ASSUME NEW low \in Nat, NEW high \in Nat, low =< high, NEW reading \in Nat
    PROVE  RandomBetween(low, high, reading) \in low..high
<1> DEFINE size == high - low + 1
<1>1. size \in Nat /\ size > 0
  OBVIOUS
<1>2. PICK rest \in 0..(size - 1) : reading % size = rest
  BY <1>1
<1>3. RandomBetween(low, high, reading) = low + rest
  BY <1>2 DEF RandomBetween
<1> QED
  BY <1>2, <1>3

LEMMA MaxHeaderIsLarge == MaxHeader \in Nat /\ MaxHeader >= 100000
BY SMTT(30) DEF MaxHeader

\* setup-amneziawg.sh and validateAmneziaParameters: their bounds fit, and the
\* loops end with what the agent asks of S1, S2 and the headers.
LEMMA AwgParametersAccepted ==
    ASSUME NEW p \in AwgParameters
    PROVE  AwgAccepted(p)
<1>1. PICK r \in Readings : p = AwgOf(r)
  BY DEF AwgParameters
<1>2. \A name \in Drawn : r[name] \in Nat
  BY ReadingsAssumption
<1>3. /\ r["jc"] \in Nat /\ r["jmin"] \in Nat /\ r["jmax"] \in Nat
      /\ r["s1"] \in Nat /\ r["s2"] \in Nat
      /\ r["h1"] \in Nat /\ r["h2"] \in Nat /\ r["h3"] \in Nat /\ r["h4"] \in Nat
  BY <1>2 DEF Drawn
<1>4. JunkAccepted(p)
  <2>1. /\ RandomBetween(4, 8, r["jc"]) \in 4..8
        /\ RandomBetween(20, 40, r["jmin"]) \in 20..40
        /\ RandomBetween(70, 100, r["jmax"]) \in 70..100
    BY <1>3 DEF RandomBetween
  <2>2. p.jc \in 4..8 /\ p.jmin \in 20..40 /\ p.jmax \in 70..100
    BY <1>1, <2>1 DEF AwgOf
  <2> QED
    BY <2>2 DEF JunkAccepted
<1>5. p.s[1] \in 15..150 /\ p.s[2] \in 15..150
  <2>1. /\ RandomBetween(15, 150, r["s1"]) \in 15..150
        /\ RandomBetween(15, 150, r["s2"]) \in 15..150
    BY <1>3 DEF RandomBetween
  <2> QED
    BY <1>1, <2>1 DEF AwgOf
<1>6. \A i \in 1..4 : p.h[i] \in 100000..MaxHeader
  <2>1. ASSUME NEW n \in Nat
        PROVE  RandomBetween(100000, MaxHeader, n) \in 100000..MaxHeader
    BY MaxHeaderIsLarge, DrawsStayInBounds
  <2>2. p.h = Headers(r)
    BY <1>1 DEF AwgOf
  <2> QED
    BY <1>3, <2>1, <2>2 DEF Headers
<1>7. p.s[1] + 56 # p.s[2] /\ Distinct(p.h)
  BY DEF AwgParameters, Settled
<1>8. p.s[1] \in 0..1132 /\ p.s[2] \in 0..1188
  <2>1. p.s[1] \in Nat /\ p.s[1] =< 150 /\ p.s[2] \in Nat /\ p.s[2] =< 150
    BY <1>5
  <2> QED
    BY <2>1, SMTT(60)
<1>9. ASSUME NEW i \in 1..4
      PROVE  p.h[i] \in 5..MaxHeader
  <2>1. p.h[i] \in 100000..MaxHeader
    BY <1>6
  <2> QED
    BY <2>1, MaxHeaderIsLarge
<1> QED
  BY <1>4, <1>7, <1>8, <1>9, SMT DEF AwgAccepted

\* setup-amneziawg3.sh and validateAmnezia3Parameters.
LEMMA Awg3ParametersAccepted ==
    ASSUME NEW p \in Awg3Parameters
    PROVE  Awg3Accepted(p)
<1>1. PICK r \in Readings : p = Awg3Of(r)
  BY DEF Awg3Parameters
<1>2. /\ r["jc"] \in Nat /\ r["jmin"] \in Nat /\ r["jmax"] \in Nat /\ r["s1"] \in Nat
  BY ReadingsAssumption DEF Drawn
<1>3. JunkAccepted(p)
  <2>1. /\ RandomBetween(4, 8, r["jc"]) \in 4..8
        /\ RandomBetween(20, 40, r["jmin"]) \in 20..40
        /\ RandomBetween(70, 100, r["jmax"]) \in 70..100
    BY <1>2 DEF RandomBetween
  <2>2. p.jc \in 4..8 /\ p.jmin \in 20..40 /\ p.jmax \in 70..100
    BY <1>1, <2>1 DEF Awg3Of
  <2> QED
    BY <2>2 DEF JunkAccepted
<1>4. \A i \in 1..4 : p.s[i] \in 12..1280
  <2>1. RandomBetween(12, 64, r["s1"]) \in 12..64
    BY <1>2 DEF RandomBetween
  <2> QED
    BY <1>1, <2>1 DEF Awg3Of
<1>5. \A name \in Ranged : RangeAccepted(p.ranges[name])
  <2>1. \A name \in Ranged : RangeAccepted(Awg3Ranges[name])
    BY DEF Ranged, Awg3Ranges, RangeAccepted
  <2> QED
    BY <1>1, <2>1 DEF Awg3Of
<1> QED
  BY <1>1, <1>3, <1>4, <1>5, Zenon DEF Awg3Accepted, Awg3Of

\* An interface a setup script prepared is one the agent can start on, as far as
\* its parameters go: no draw is outside what NewManager accepts.
THEOREM GeneratedIsAccepted ==
    \A transport \in Transports : \A p \in Generated(transport) : Accepted(transport, p)
BY AwgParametersAccepted, Awg3ParametersAccepted DEF Transports, Generated, Accepted
=============================================================================
