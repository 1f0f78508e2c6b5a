SPECIFICATION PeersOnly
CONSTANTS
    MaxPeers = 3
    MaxOdd = 1
    PutConfigs = {"all", "own", "badIPs", "badKey"}
    Clients = {c1, c2}
    FirstAddr = 2
    LastAddr = 3
    MaxBytes = 3
    MaxSubs = 2
    MaxLinks = 1
    MaxNodes = 2
    NodeUris = {u1, u2}
    NoUri = NoUri
    Wgs = {t1}
    Editors = {c1, c2}
    VNodes <- SomeNodes
    Networks = {"tcp", "xhttp"}
    Securities = {"none", "tls", "reality"}
    NodeLists <- SomeLists
INVARIANT EveryPeerServed
