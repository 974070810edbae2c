SPECIFICATION Spec
CONSTANTS
  o1 = o1
  o2 = o2
  k1 = k1
  k2 = k2
  s1 = s1
  s2 = s2
  w1 = w1
  w2 = w2
  None = None
  Orgs = {o1, o2}
  Customer = {k1, k2}
  Session = {s1, s2}
  Workers = {w1, w2}
  Seats = 1
SYMMETRY Symmetry
INVARIANTS SeatsCapped CancelledIsTakenBack
CHECK_DEADLOCK FALSE
