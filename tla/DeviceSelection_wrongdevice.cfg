\* A finding: ensuring one device's agent takes the host port of another's session.
SPECIFICATION Spec
CONSTANTS
    a1 = a1
    a2 = a2
    p1 = p1
    s1 = s1
    r1 = r1
    r2 = r2
    u1 = u1
    None = None
    Requests = {r1, r2}
    Users = {u1}
    Android = {a1, a2}
    Physical = {}
    Simulators = {}
    Provisioned = {a2}
    MaxBuilds = 2
INVARIANTS
    DriverReachesOwnDevice
\* The process ends with its shutdown.
CHECK_DEADLOCK FALSE
