CONSTANTS
  Caller = {c1, c2}
  Cleaner = {l1}
  Kind = {"token", "state", "device", "user", "session", "repo"}
  m = m
  n = n
  MaxFaults = 1
  Id <- MCId
SPECIFICATION VaultSpec
INVARIANTS IndexNamesRecord ReportedChangesStay UserCodeWorks
PROPERTIES ConsumedOnce
SYMMETRY Symmetry
CHECK_DEADLOCK FALSE
