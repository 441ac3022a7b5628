CONSTANTS
  o1 = o1
  o2 = o2
  o3 = o3
  k1 = k1
  k2 = k2
  k3 = k3
  k4 = k4
  w1 = w1
  w2 = w2
  NoOrder = NoOrder
  NoCoupon = NoCoupon
  NoLimit = NoLimit
  Orders = {o1, o2, o3}
  Keys = {k1, k2, k3, k4}
  Variants = {1, 2}
  Coupons = {}
  Buyers = {"buyer"}
  Workers = {w1, w2}
  Limits = {1}
  StockAtStart = {k1, k3}
  Overuse = {FALSE, TRUE}
  KeyVariant <- MCVariant
  Quantity <- MCQuantity
  Buyer <- MCBuyer
  PerUserLimit <- NoUserLimit
  LegacyStatus <- OldShop
  LegacyHold <- OldHold
  LegacyCoupon <- WithoutCoupon
SYMMETRY WorkerSymmetry
SPECIFICATION Spec
INVARIANTS
  TypeOK
  PendingHoldsStock
  HeldByLiveOrder
  DeliveredExactly
  PaidMeansSuccess
PROPERTIES
  SoldForever
  KeepsSalePromise
