SPECIFICATION AccountsSpec
CONSTANTS
  Person = {p1, p2}
  Email = {e1, e2}
  Ip = {a1}
  WalletKeys = {{k1}}
  Service = {"rust"}
  Session = {1, 2}
  Lifetime = 2
  Leeway = 1
  MaxTime = 0
  IpWindow = 2
  IpMax = 1
  EmailWindow = 1
  EmailMaxFail = 0
  LongestRetry = 86400
  Nobody = Nobody
  NoToken = NoToken
  NoRow = NoRow
  Deleted = Deleted
INVARIANT
  KeysAreUnshared
CHECK_DEADLOCK FALSE
