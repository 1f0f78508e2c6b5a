SPECIFICATION Spec
CONSTANTS
    Jtis = {j1, j2, j3}
    Requests = {r1, r2}
    Passwords = {p1, p2}
    Limit = 1
    None = None
    ValidDays = 3
    RenewWithin = 2
    MaxFaults = 3
    HealthNodes = {n1, n2, n3}
    Undialable = {n3}
    Parallel = 1
INVARIANTS
    ServicesTypeOK
    LoginHasOneSession
    SecretsSurvive
    FilesMatch
PROPERTIES
    SessionsAreChains
    BootServes
    StayingNodesProbed
