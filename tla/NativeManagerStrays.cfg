\* What a reconciliation leaves on the interface.
CONSTANTS
    k1 = k1  k2 = k2  o1 = o1
    Keys = {k1, k2}
    Outsiders = {}
    LastHost = 3
    OutsiderRoutes <- NoRoutes
SPECIFICATION Spec
PROPERTIES ReconciledOnStart
