CONSTANTS
  Backend = {"sql"}
  Config = {"full"}
  MaxApps = 2
  MaxRequests = 2
  Key = {k1, k2}
  BadKey = {k2}
  ConfigKey = k1
  Admin = {a1}
  None = None
SPECIFICATION Spec
INVARIANTS PromotionIsNotRefused
