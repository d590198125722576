SPECIFICATION AccountsSpec
CONSTANTS
  Person = {p1, p2}
  Email = {e1}
  Ip = {a1}
  WalletKeys = {{k1}}
  Service = {"rust", "next"}
  Session = {1, 2}
  Lifetime = 2
  Leeway = 1
  MaxTime = 3
  IpWindow = 2
  IpMax = 2
  EmailWindow = 1
  EmailMaxFail = 1
  LongestRetry = 86400
  Nobody = Nobody
  NoToken = NoToken
  NoRow = NoRow
  Deleted = Deleted
SYMMETRY Symmetry
INVARIANTS
  AccountsTypeOK
  LimiterHolds
  CookieIsOwn
  CookieIsGood
CHECK_DEADLOCK FALSE
