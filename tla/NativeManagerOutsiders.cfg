\* What operations do to peers of an adopted interface.
CONSTANTS
    k1 = k1  k2 = k2  o1 = o1
    Keys = {k1, k2}
    Outsiders = {o1}
    LastHost = 3
    OutsiderRoutes <- CollidingRoutes
SPECIFICATION Spec
PROPERTIES OutsidersUndisturbed
