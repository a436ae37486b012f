CONSTANTS
  Backend = {"sql", "vault"}
  Config = {"full"}
  MaxApps = 2
  MaxRequests = 3
  Key = {k1, k2}
  BadKey = {k2}
  ConfigKey = k1
  Admin = {a1, a2}
  None = None
SYMMETRY Symmetry
SPECIFICATION Spec
INVARIANTS QuietReloadIsCurrent
PROPERTIES DefaultIsNotLost PromotionWins
