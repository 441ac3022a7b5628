CONSTANTS
  order = order
  deposit = deposit
  callback = callback
  topup = topup
  a1 = a1
  a2 = a2
  c1 = c1
  c2 = c2
  ApiOrders = {order}
  ApiDeposits = {deposit}
  BotOrders = {callback}
  BotDeposits = {topup}
  Users = {"ann"}
  Creds = {a1, a2}
  Calls = {c1, c2}
  MaxActive = 1
  MaxPending = 1
  MaxLooks = 1
  Asks <- MCAsks
  Owner <- MCOwner
  Price <- MCPrice
  Purse <- MCPurse
  CredOwner <- MCCredOwner
SPECIFICATION Spec
SYMMETRY Alike
INVARIANTS
  KeysUnderControl
  DepositsBounded
PROPERTIES
  NothingAfterRevocation
  KeepsOncePromise
CHECK_DEADLOCK FALSE
