SPECIFICATION FairSpec
CONSTANTS
    Subs = {s1}
    Handlers = {h1, h2}
    NoSub = nosub
    MaxRestarts = 1
CHECK_DEADLOCK FALSE
INVARIANTS LoopsReachable NoOrphanLoop
PROPERTIES DeletedLoopEnds KeepsRefreshing
