\* Calls, connects and a close race each other and an agent that may vanish.
SPECIFICATION MCSpec
CONSTANTS
  Calls = {c1, c2}
  Connects = {k1, k2}
  Closes = {x1}
  Deadlined = {c1}
  Nil = Nil
INVARIANTS AnswersMatch NeverBlockedOnWaiter NoStrandedWaiter ConnectedIsWatched
PROPERTIES OnlyOwnFailureDisconnects LossWakesWaiters
\* Every invocation returns once and the client then rests.
CHECK_DEADLOCK FALSE
