SPECIFICATION Spec
CONSTANTS
    Tunnels = {t1}
    Handlers = {h1, h2}
    Main = main
    NodeLists = {n1}
    Legacy = legacy
    NoNodes = nonodes
    Subnets = {s1}
    OtherLink = other
    Events = {"start", "stop", "delete"}
    KeepNetns = FALSE
    MaxRestarts = 0
SYMMETRY HandlerSymmetry
CHECK_DEADLOCK FALSE
INVARIANTS TypeOK DeviceOwned StoppedIsDown
