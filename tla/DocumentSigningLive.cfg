SPECIFICATION FairSpec
CONSTANTS
  c1 = c1
  c2 = c2
  adm = adm
  f1 = f1
  f2 = f2
  w1 = w1
  w2 = w2
  None = None
  Clients <- OneClient
  Staff = {}
  Rosters <- OneRoster
  Field = {f1, f2}
  Order <- MCOrder
  AssignedTo <- MCAssignedTo
  Kinds <- FullKind
  Workers = {w1, w2}
  MaxVersion = 2
  MaxRows = 1
  Crashes = FALSE
  TxTimeouts = FALSE
CHECK_DEADLOCK FALSE
PROPERTIES ExpiryEnforced CompletionSettles
