CONSTANTS
  o1 = o1
  o2 = o2
  d1 = d1
  t1 = t1
  t2 = t2
  NoTarget = NoTarget
  NoPoller = NoPoller
  Orders = {o1, o2}
  Deposits = {}
  Users = {"alice", "bob"}
  Transfers = {t1}
  Pollers = {"timer", "request"}
  Channels = {"BINANCE_ID","BEP20"}
  Owner <- MCOwner
  Price <- MCPrice
  Epsilon = 1
  UniqueStep = 2
  UniqueGap = 4
  MaxTries = 3
  Window = 1
  MaxPerOrder = 2
  MaxPerUser = 3
  MaxPending = 1
  Errors = {1}
  Corrected = {t1}
  MaxTime = 2
CHECK_DEADLOCK FALSE
SPECIFICATION Spec
INVARIANT AmountsTellApart
PROPERTIES
  MoneyToItsOwner
  ClaimsStand
