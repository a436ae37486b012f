CONSTANTS
  p1 = p1
  p2 = p2
  Process = {p1, p2}
  Files = 3
  OldFiles = 2
  AppsFile = 2
  Config = {"none", "keyless", "full"}
  Mode = {"serve", "migrate", "command"}
  Token = {t1, t2, t3}
  OldToken = {t1, t2}
  MaxRequests = 1
  MaxFailures = 1
  Unassigned = Unassigned
  None = None
SPECIFICATION MCSpec
INVARIANTS SchemaIsWhole ServesOnItsSchema TokensNameApps
PROPERTIES CleanStartServes BackfillIsWhole MigratingServes
\* All processes serve, and the bounds leave them no request: nothing is wrong.
CHECK_DEADLOCK FALSE
