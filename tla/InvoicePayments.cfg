SPECIFICATION PaymentsSpec
CONSTANTS
  Session = {s1, s2}
  Amounts = {0, 1}
  Account = {a1, a2}
  Endpoint = {}
  Workers = {w1, w2}
  Crashes = TRUE
  StripeFaults = TRUE
  None = None
SYMMETRY WorkerSymmetry
INVARIANTS OneSessionToPay PaidAmountIsCharge
PROPERTIES ExpiryClearsOwnSession
CHECK_DEADLOCK FALSE
CONSTRAINT InBounds
