SPECIFICATION Spec
CONSTANTS
  c1 = c1 c2 = c2 c3 = c3
  field = field other = other row = row anchor = anchor dialog = dialog far = far end = end
  appA = appA appB = appB
  None = None
  Calls = {c1, c2, c3}
  Drivers = {1, 2, 3, 4}
  Elem = {field, other, row, anchor, dialog, far, end}
  Apps = {appA, appB}
  Low = {other}
  Dialogs = {dialog}
  Page <- MCPage
  LastPage = 4
  Interval = 1
  FocusTimeout = 2
  SoftTimeout = 2
  HardTimeout = 3
  ThinBudget = 1
  SearchBudget = 2
  MaxIterations = 2
  Workloads <- BugDeletions
INVARIANTS DeleteLeavesNoOrphan
CHECK_DEADLOCK FALSE
