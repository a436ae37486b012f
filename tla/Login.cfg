CONSTANTS
  User = {u1}
  State = {s1}
  Session = {t1, t2}
  Handler = {h1, h2}
  Config <- MCConfig
  Uri <- MCUri
  DevMode = FALSE
  StateTTL = 0
  SessionTTL = 1
  MaxClock = 2
  MaxGen = 1
  None = None
SYMMETRY Symmetry
SPECIFICATION Spec
INVARIANTS StateUsedOnce FlowsStayApart SessionsAreBacked RolesFollowConfig AdminAccessIsBounded
CHECK_DEADLOCK FALSE
