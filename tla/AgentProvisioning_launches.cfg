\* Two iPhones and an Android device, two launches.
SPECIFICATION FairSpec
CONSTANTS
    i1 = i1
    i2 = i2
    a1 = a1
    Ios = {i1, i2}
    Android = {a1}
    MaxLaunches = 2
    PanicAt = {"probe", "prepare"}
    Crashes = TRUE
INVARIANTS
    OneLaunchPerDevice
    ProcessOwned
PROPERTIES
    AgentsSettle
    DisposeReturns
\* The process ends with its shutdown.
CHECK_DEADLOCK FALSE
