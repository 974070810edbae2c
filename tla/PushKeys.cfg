SPECIFICATION Spec
CONSTANTS
  b1 = b1
  k1 = k1
  k2 = k2
  w1 = w1
  w2 = w2
  None = None
  Browser = {b1}
  Key = {k1, k2}
  Workers = {w1, w2}
INVARIANT SubscribersAreReached
CHECK_DEADLOCK FALSE
