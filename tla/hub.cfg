SPECIFICATION FairSpec
CONSTANTS
    Conns = {c1, c2}
    CapRegister = 1
    CapUnregister = 1
    CapBroadcast = 1
CHECK_DEADLOCK FALSE
INVARIANTS Accounted CloseMeansClosed
PROPERTIES LeaversForgotten NobodyBlocks
