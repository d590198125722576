SPECIFICATION DeliveriesFairSpec
CONSTANTS
  Invoice = {1, 2}
  Hash = {"h1", "h2"}
  Id = {"d1", "d2"}
  Message <- Messages
  Call = {c1, c2}
  ReplayWindow = 1
  MostFaults = 1
  NoId = NoId
  NoHash = NoHash
  NoMessage = NoMessage
  Never = Never
INVARIANTS
  DeliveriesTypeOK
PROPERTIES
  WindowAdmitsOnce
  RetriedIsApplied
CHECK_DEADLOCK FALSE
