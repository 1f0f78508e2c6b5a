SPECIFICATION Spec
CONSTANTS
    Tunnels = {t1}
    Handlers = {h1}
    Main = main
    NodeLists = {n1}
    Legacy = legacy
    NoNodes = nonodes
    Subnets = {s1}
    OtherLink = other
    Events = {"start", "stop", "put", "delete", "create", "nodes", "cancel", "sigterm"}
    KeepNetns = FALSE
    MaxRestarts = 0
CHECK_DEADLOCK FALSE
INVARIANTS NoBypass RunningIsUp StoppedIsDown
