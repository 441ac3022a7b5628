CONSTANTS
  a1 = a1
  a2 = a2
  b1 = b1
  x1 = x1
  x2 = x2
  c1 = c1
  c2 = c2
  NoRequest = NoRequest
  Requests = {a1, a2, b1}
  Users = {"ann", "bob"}
  Boxes = {x1, x2}
  Calls = {c1, c2}
  UnitCost = 1
  UnitPrice = 1
  MaxStock = 3
  MaxDailyCost = 3
  Renter <- MCRenter
  Quantity <- MCQuantity
  Purse <- MCPurse
SPECIFICATION FairSpec
INVARIANTS
  AskedOnce
  WholeDeliveries
  DayWithinBudget
PROPERTIES
  KeepsRentPromise
  RequestsEnd
CHECK_DEADLOCK FALSE
