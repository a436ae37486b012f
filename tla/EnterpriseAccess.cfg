CONSTANTS
  Request = {r1, r2}
  Background = {b1}
  Exceptions <- MCExceptions
  Team = {"t1", "t2"}
  Target <- MCTarget
  UserTTL = 1
  TeamTTL = 1
  MaxFlight = 0
  MaxClock = 2
  MaxFaults = 1
SYMMETRY Symmetry
SPECIFICATION Spec
INVARIANTS LiftedForMembers KeptForNonMembers WaitersHaveALeader
CHECK_DEADLOCK FALSE
