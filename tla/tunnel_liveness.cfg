SPECIFICATION FairSpec
CONSTANTS
    Tunnels = {t1}
    Handlers = {h1}
    Main = main
    NodeLists = {n1}
    Legacy = legacy
    NoNodes = nonodes
    Subnets = {s1}
    OtherLink = other
    Events = {"start", "stop", "cancel", "sigterm"}
    KeepNetns = TRUE
    MaxRestarts = 1
CHECK_DEADLOCK FALSE
PROPERTIES RestartRestores RequestsReturn BootServes ShutdownEnds
