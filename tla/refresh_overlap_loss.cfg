SPECIFICATION Spec
CONSTANTS
    u1 = u1
    u2 = u2
    Uris = {u1, u2}
    NoSub = nosub
    NoUri = nouri
    Subs = {s1}
    Tunnels = {t1}
    Workers = {w1, w2}
    Bodies <- SteadyBodies
    MaxId = 8
    MaxList = 1
    Events = {}
CHECK_DEADLOCK FALSE
PROPERTIES BindingsSurvive
