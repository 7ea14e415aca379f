\* One workload per behaviour; the host may close stdin or signal at any time.
SPECIFICATION FairSpec
CONSTANTS
    r1 = r1
    r2 = r2
    s1 = s1
    q1 = q1
    q2 = q2
    q3 = q3
    None = None
    Reserved = Reserved
    Sim = Sim
    Phone = Phone
    Runs = {r1, r2}
    Stoppers = {s1}
    Requests = {q1, q2, q3}
    Lines = {r1, r2, s1, q1, q2, q3}
    MaxSteps = 1
    MaxHelpers = 2
    CacheTTL = 1
    MaxTime = 2
    Workloads <- MCWorkloads
INVARIANTS
    SlotReleased
    StopAnnouncedFirst
    CacheFresh
    TouchConfirmed
    HelpersOwned
PROPERTIES
    StopEndsRun
    ShutdownEnds

\* The runtime exits and the model rests.
CHECK_DEADLOCK FALSE
