\* The wg-easy import on a node with a WireGuard interface.
CONSTANTS
    a1 = a1  b1 = b1  b2 = b2  w1 = w1
    t1 = t1  t2 = t2  t3 = t3  t4 = t4
    NoInterface = NoInterface  NoToken = NoToken
    Interfaces = {w1}
    Transport <- TransportOf
    Networks = {1}
    Subnets = {1}
    Tokens = {t1, t2, t3, t4}
    Readings <- Extremes
    HandMade <- NoneByHand
SPECIFICATION Spec
INVARIANT ImportedStateIsReadable
