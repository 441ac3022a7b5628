CONSTANTS
  Orders = {o1}
  o1 = o1
  s1 = s1
  s2 = s2
  Workers = {w1, w2}
  w1 = w1
  w2 = w2
  TradeNos = {s1, s2}
  Base = 8
  Coupon = 2
  Percents = {0, 50}
  Errors = {0, 1}
  MaxPerOrder = 1
  MaxPerUser = 2
  MaxVersion = 3
  None = None
SPECIFICATION Spec
SYMMETRY Alike
INVARIANTS
  TermsAgree
  InvoiceMatchesMoney
  NoFalseAlarm
  OrderLimitHolds
PROPERTIES
  LiveSessionKept
  KeepsMoneyPromise
CHECK_DEADLOCK FALSE
