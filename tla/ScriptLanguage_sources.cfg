\* Every shape a step, a configuration field, an expression of up to six tokens and a
\* scenario takes here, one at a time, command lines against configs, every path and
\* operator against every body, and selectors against hierarchies.
SPECIFICATION Spec
CONSTANTS
  Scripts <- MCScripts
  Expressions <- MCExpressions
  Variables <- MCVariables
  Scenarios <- MCScenarios
  Projects <- MCProjects
  Bounds <- MCScreen
  MaxWaitMs = 30000
  MaxMoveMs = 10000
  DefaultMoveMs = 200
  DragMinPressMs = 50
  LongPressMs = 500
  RotateRadius = 100
  Traffic <- MCTraffic
  Drivers <- MCDrivers
  Responses <- MCResponses
  Lookups <- MCLookups
INVARIANTS  GestureKept CapturesLabelled GrammarKept ShortCircuits AssertionsAgree LookupExact RunConfigured
\* A source that has been dealt with stays so.
CHECK_DEADLOCK FALSE
