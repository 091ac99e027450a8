\* The workers of an agent that drives its interface through awg.
CONSTANT MayHang = TRUE
SPECIFICATION FairSpec
INVARIANTS TypeOK MutexesAreHeld NoCircularWait
PROPERTIES HeartbeatsGoOn WorkersComeAround ShutdownEnds
