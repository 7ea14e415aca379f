\* Two callers, two Android devices, an iPhone and a simulator.
SPECIFICATION FairSpec
CONSTANTS
    a1 = a1
    a2 = a2
    p1 = p1
    s1 = s1
    r1 = r1
    r2 = r2
    u1 = u1
    None = None
    Requests = {r1, r2}
    Users = {u1}
    Android = {a1, a2}
    Physical = {p1}
    Simulators = {s1}
    Provisioned = {a1}
    MaxBuilds = 2
INVARIANTS
    NoChannelLeaks
PROPERTIES
    ImplementsChannel
\* The process ends with its shutdown.
CHECK_DEADLOCK FALSE
