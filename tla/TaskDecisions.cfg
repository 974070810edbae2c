SPECIFICATION Spec
CONSTANTS
  c1 = c1
  c2 = c2
  c3 = c3
  t1 = t1
  o1 = o1
  o2 = o2
  w1 = w1
  w2 = w2
  None = None
  Clients = {c1, c2, c3}
  Task = {t1}
  Option = {o1, o2}
  Workers = {w1, w2}
  MaxOpen = 3
SYMMETRY Symmetry
INVARIANTS TypeOK TallyFinal CapturesBounded
CHECK_DEADLOCK FALSE
