CONSTANTS
  Api = {a1, a2}
  Git = {g1, g2}
  a1 = a1
  g1 = g1
  Agent = {i1, i2}
  Browser = {b1}
  Together <- MCTogether
  Life = 3
  Skew = 2
  CacheTTL = 2
  InstallLife = 3
  InstallTTL = 2
  MaxFlight = 1
  MaxClock = 6
  MaxLogins = 2
  MaxRefreshes = 4
SPECIFICATION Spec
INVARIANTS RowIsAlive HandedIsAlive ResolvedIsRecent
