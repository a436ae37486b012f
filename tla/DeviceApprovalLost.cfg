CONSTANTS
  Code = {c1}
  Session = {s1, s2}
  User = {u1}
  Poller = {p1}
  Decider = {d1}
  TTL = 1
  Interval = 1
  MaxClock = 2
  None = None
SPECIFICATION Spec
INVARIANTS ApprovalIsKept
CHECK_DEADLOCK FALSE
