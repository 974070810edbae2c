SPECIFICATION Spec
CONSTANTS
  u1 = u1
  u2 = u2
  r1 = r1
  r2 = r2
  r3 = r3
  i1 = i1
  p1 = p1
  w1 = w1
  w2 = w2
  None = None
  Person = {u1, u2}
  Row = {r1, r2, r3}
  Invitation = {i1}
  Project = {p1}
  Workers = {w1, w2}
  Founder = u1
SYMMETRY Symmetry
CONSTRAINT InBounds
INVARIANTS TypeOK MembershipsBounded
PROPERTIES LastOwnerLeaves JoinSeesNothing
CHECK_DEADLOCK FALSE
