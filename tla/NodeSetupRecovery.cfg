\* Recovery on a node with an AmneziaWG 3.x interface; network 2 is no address.
CONSTANTS
    a1 = a1  b1 = b1  b2 = b2  w1 = w1
    t1 = t1  t2 = t2  t3 = t3  t4 = t4
    NoInterface = NoInterface  NoToken = NoToken
    Interfaces = {b1}
    Transport <- TransportOf
    Networks = {1, 2}
    Subnets = {1}
    Tokens = {t1, t2, t3, t4}
    Readings <- Smallest
    HandMade <- NoneByHand
SPECIFICATION FairSpec
INVARIANTS SuccessComesUp
PROPERTIES Recovers
