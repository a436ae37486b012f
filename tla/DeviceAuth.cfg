CONSTANTS
  Code = {c1}
  Session = {s1, s2}
  User = {u1, u2}
  Poller = {p1}
  Decider = {d1, d2}
  TTL = 1
  Interval = 1
  MaxClock = 2
  None = None
SPECIFICATION FairSpec
INVARIANTS TokensAreApproved RowsAreConsistent
PROPERTIES RemovedForGood RequestsAreRemoved
CHECK_DEADLOCK FALSE
