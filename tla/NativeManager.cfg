\* Safety of the peer manager: two keys and a pool of two addresses, the first of
\* which an outsider of the adopted interface uses as well.
CONSTANTS
    k1 = k1  k2 = k2  o1 = o1
    Keys = {k1, k2}
    Outsiders = {o1}
    LastHost = 3
    OutsiderRoutes <- CollidingRoutes
SPECIFICATION Spec
SYMMETRY KeySymmetry
INVARIANTS TypeOK LoadableStates AcknowledgedIsDurable FailuresAreConfined OutsidersStay
    DeviceInv
PROPERTIES OperationsAreAllOrNothing ImplementsRegistry
