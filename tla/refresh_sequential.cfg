SPECIFICATION Spec
CONSTANTS
    u1 = u1
    u2 = u2
    Uris = {u1, u2}
    NoSub = nosub
    NoUri = nouri
    Subs = {s1, s2}
    Tunnels = {t1}
    Workers = {w1}
    Bodies <- TwiceBodies
    MaxId = 6
    MaxList = 2
    Events = {"cancel"}
CHECK_DEADLOCK FALSE
PROPERTIES RefreshKeepsBindings RefreshTouchesOwn
