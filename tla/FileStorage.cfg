SPECIFICATION Spec
CONSTANTS
  k1 = k1
  k2 = k2
  k3 = k3
  s1 = s1
  s2 = s2
  w1 = w1
  w2 = w2
  None = None
  SignedPdf = SignedPdf
  Key = {k1, k2, k3}
  Sig = {s1, s2}
  Workers = {w1, w2}
  Large = {k2, k3}
  Size <- OneSmall
  MaxSize = 4
  HalfMb = 2
  Limit = 1
SYMMETRY Symmetry
CONSTRAINT InBounds
INVARIANTS TypeOK FilesHaveObjects NothingLeaks StorageOvershoot
CHECK_DEADLOCK FALSE
