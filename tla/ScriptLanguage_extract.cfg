\* A script that extracts a variable and shows it in a later step, as documented.
SPECIFICATION Spec
CONSTANTS
  Scripts <- MCPlayed
  Expressions = {}
  Variables <- MCVariables
  Scenarios = {}
  Projects = {}
  Bounds <- MCScreen
  MaxWaitMs = 30000
  MaxMoveMs = 10000
  DefaultMoveMs = 200
  DragMinPressMs = 50
  LongPressMs = 500
  RotateRadius = 100
  Traffic <- MCTraffic
  Drivers <- MCDrivers
  Responses = {}
  Lookups = {}
INVARIANTS ExtractedReachSteps
CHECK_DEADLOCK FALSE
