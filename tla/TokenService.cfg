CONSTANTS
  Instance = {i1, i2}
  Token = {t1}
  Resolver = {r1}
  Caller = {c1, c2}
  TTL = 1
  MaxFlight = 1
  MaxClock = 2
  MaxVersion = 1
  MaxDuration = 1
  Retention = 1
  AllowNoExpiry = TRUE
  None = None
SYMMETRY Symmetry
SPECIFICATION Spec
CONSTRAINT OneCallOnTwo
INVARIANTS IndexCoversCache RevokedLeavesCache GrantsAreRecent
PROPERTIES ImplementsAuthority
