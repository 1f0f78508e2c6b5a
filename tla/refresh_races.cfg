SPECIFICATION Spec
CONSTANTS
    u1 = u1
    u2 = u2
    Uris = {u1, u2}
    NoSub = nosub
    NoUri = nouri
    Subs = {s1}
    Tunnels = {t1}
    Workers = {w1, w2}
    Bodies <- OneBody
    MaxId = 3
    MaxList = 1
    Events = {"assign", "put", "deltunnel", "delsub"}
SYMMETRY WorkerSymmetry
CHECK_DEADLOCK FALSE
INVARIANTS NoDangling
