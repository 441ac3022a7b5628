CONSTANTS
  o1 = o1
  o2 = o2
  k1 = k1
  k2 = k2
  w1 = w1
  sweeper = sweeper
  NoOrder = NoOrder
  NoCoupon = NoCoupon
  NoLimit = NoLimit
  Orders = {o1, o2}
  Keys = {k1, k2}
  Variants = {1, 2}
  Coupons = {}
  Buyers = {"buyer"}
  Workers = {w1, sweeper}
  Limits = {1}
  StockAtStart = {k2}
  Overuse = {FALSE}
  Batch = 2
  MaxFailures = 1
  KeyVariant <- MCVariant
  Quantity <- MCQuantity
  Buyer <- MCBuyer
  PerUserLimit <- NoUserLimit
  LegacyStatus <- OldShop
  LegacyHold <- NothingHeld
  LegacyCoupon <- WithoutCoupon
SPECIFICATION SweepSpec
PROPERTIES
  StuckOrdersHeal
  ExpiredOrdersRelease
  OrphansPromoted
