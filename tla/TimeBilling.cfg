SPECIFICATION Spec
CONSTANTS
  Users = {u1, u2}
  Project = {p1, p2}
  Entry = {e1, e2, e3}
  Other = e1
  Third = e3
  ProjectOf <- AllButOne
  TaskProject = p1
  Invoice = {i1, i2}
  Capture = {k1}
  Workers = {w1, w2}
  None = None
SYMMETRY Symmetry
CONSTRAINT InBounds
INVARIANTS OneTimer CaptureOnce DoubleChargeIsExplained LockedIsCharged
PROPERTIES TimeLedgerSpec
CHECK_DEADLOCK FALSE
