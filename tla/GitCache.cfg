CONSTANTS
  w1 = w1
  w2 = w2
  Repo = {r1}
  Want = {w1, w2}
  LsRefs = LsRefs
  Request <- MCRequest
  Handler = {h1, h2}
  Admin = {a1}
  Limit = {1, None}
  None = None
  MaxClock = 2
  MaxRequests = 4
  MaxChanges = 1
  MaxCrashes = 1
SYMMETRY Symmetry
SPECIFICATION Spec
INVARIANTS ServedIsWhole BundledNeedsAccess EvictsTheLeastRecent EnforcedLimitHolds
CHECK_DEADLOCK FALSE
