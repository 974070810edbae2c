SPECIFICATION Spec
CONSTANTS
  c1 = c1
  c2 = c2
  adm = adm
  f1 = f1
  f2 = f2
  w1 = w1
  w2 = w2
  None = None
  Clients <- MCClients
  Staff = {adm}
  Rosters <- BothRosters
  Field = {f1, f2}
  Order <- MCOrder
  AssignedTo <- MCAssignedTo
  Kinds <- TwoKinds
  Workers = {w1, w2}
  MaxVersion = 3
  MaxRows = 2
  Crashes = TRUE
  TxTimeouts = TRUE
CHECK_DEADLOCK FALSE
SYMMETRY WorkerSymmetry
CONSTRAINT InBounds
INVARIANTS NoSignatureLost SigningOrderKept DraftIsBlank
PROPERTIES SignedOnlyWhileOpen AcceptedByAll LedgerSpec
