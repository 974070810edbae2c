SPECIFICATION Spec
CONSTANTS
  u1 = u1
  u2 = u2
  u3 = u3
  j1 = j1
  c1 = c1
  c2 = c2
  None = None
  User = {u1, u2, u3}
  Jobs = {j1}
  Copies = {c1, c2}
  MaxChanges = 2
  MaxDoubled = 1
SYMMETRY Symmetry
CONSTRAINT InBounds
INVARIANTS OncePerEvent AuthorNotTold AnsweredNotReminded RemindersSpaced
CHECK_DEADLOCK FALSE
