CONSTANTS
  o1 = o1
  o2 = o2
  o3 = o3
  o4 = o4
  k1 = k1
  k2 = k2
  c1 = c1
  w1 = w1
  w2 = w2
  NoOrder = NoOrder
  NoCoupon = NoCoupon
  NoLimit = NoLimit
  Orders = {o1, o2, o3, o4}
  Keys = {k1, k2}
  Variants = {1}
  Coupons = {c1}
  Buyers = {"alice", "bob"}
  Workers = {w1, w2}
  Limits = {1, 2}
  StockAtStart = {k1, k2}
  Overuse = {FALSE}
  KeyVariant <- MCVariant
  Quantity <- MCQuantity
  Buyer <- MCBuyer
  PerUserLimit <- OncePerUser
  LegacyStatus <- OldShop
  LegacyHold <- NothingHeld
  LegacyCoupon <- OldCoupons
SYMMETRY WorkerSymmetry
SPECIFICATION Spec
INVARIANTS
  CouponCountExact
PROPERTIES
  QuotaRespected
\* Once every order is closed or delivered, every key sold and the coupon
\* removed, nothing is left to do.
CHECK_DEADLOCK FALSE
