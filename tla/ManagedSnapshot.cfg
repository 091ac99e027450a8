\* Collections next to operations on two keys that compete for one address, and
\* whether the agent comes back from whatever failures leave behind.
CONSTANTS
    k1 = k1  k2 = k2
    Keys = {k1, k2}
    Outsiders = {}
    LastHost = 2
    OutsiderRoutes <- NoRoutes
SPECIFICATION SnapshotFairSpec
INVARIANTS SnapshotTypeOK PoolBound
PROPERTIES RowsAreCoherent AcknowledgedIsReported CollectionsEnd ComesBack
