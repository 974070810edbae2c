SPECIFICATION FairSpec
CONSTANTS
  Session = {s1}
  Amounts = {1}
  Account = {a1, a2}
  Endpoint = {e1, e2}
  Workers = {w1}
  Crashes = FALSE
  StripeFaults = FALSE
  None = None
PROPERTIES ChargeRecorded
CHECK_DEADLOCK FALSE
