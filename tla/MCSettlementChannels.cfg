CONSTANTS
  o1 = o1
  o2 = o2
  d1 = d1
  t1 = t1
  t2 = t2
  NoTarget = NoTarget
  NoPoller = NoPoller
  Orders = {o1}
  Deposits = {d1}
  Users = {"alice", "bob"}
  Transfers = {t1, t2}
  Pollers = {"request"}
  Channels = {"SEPAY", "BEP20"}
  Owner <- MCOwner
  Price <- MCPrice
  Epsilon = 1
  UniqueStep = 2
  UniqueGap = 4
  MaxTries = 3
  Window = 1
  MaxPerOrder = 2
  MaxPerUser = 3
  MaxPending = 1
  Errors = {0}
  Corrected = {}
  MaxTime = 1
SYMMETRY TransferSymmetry
CHECK_DEADLOCK FALSE
SPECIFICATION Spec
INVARIANTS
  PaidByOneMeans
PROPERTIES
  MoneyToItsOwner
  KeepsMoneyPromise
