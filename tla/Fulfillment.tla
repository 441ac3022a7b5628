----------------------------- MODULE Fulfillment -----------------------------
(***************************************************************************)
(* Orders, stock keys and coupon uses of the shop, as the transactions of  *)
(* apps/api/src/orders change them.                                        *)
(*                                                                         *)
(* Two kinds of transaction appear here:                                   *)
(*                                                                         *)
(*  - transactions that lock stock rows one order item at a time with      *)
(*    FOR UPDATE SKIP LOCKED (placing an order, delivering it, withdrawing *)
(*    keys).  Each worker (an HTTP request, a webhook, the sweeper) runs   *)
(*    at most one, step by step.  What it writes stays private in tx[w]    *)
(*    until it commits, the rows it took are locked meanwhile, and an      *)
(*    abort (error, time-out, process death) forgets all of it;            *)
(*                                                                         *)
(*  - transactions whose every decision is made under the advisory lock    *)
(*    lockFinancialArbitration or in one statement (closing an order,      *)
(*    marking it paid, stock and coupon administration).  They are single  *)
(*    actions, guarded by the locks they would wait for.                   *)
(*                                                                         *)
(* An order has at most one item per variant (the code merges them), so    *)
(* an OrderItem is the pair of its order and its variant, and a StockItem  *)
(* row's orderItemId is the order in keyOrder.  The draw mode of a product *)
(* (SEQUENTIAL or RANDOM) only orders the rows: any choice is allowed.     *)
(***************************************************************************)
EXTENDS Naturals, FiniteSets

CONSTANTS
  Orders,        \* rows the table Order may come to hold
  Keys,          \* rows the table StockItem may come to hold
  Variants,      \* product variants, numbered in OrderItem.id order
  Coupons,
  Buyers,
  Workers,
  NoOrder, NoCoupon, NoLimit,
  KeyVariant,    \* the variant each key belongs to
  Quantity,      \* Quantity[o][v]: keys of variant v that order o asks for
  Buyer,         \* the user each order belongs to
  PerUserLimit,  \* Coupon.perUserLimit
  Limits,        \* values an administrator gives Coupon.maxUses
  StockAtStart,  \* keys imported before the first step
  LegacyStatus,  \* orders an earlier release left with Payment.SUCCESS
  LegacyHold,    \* the keys those orders still reserve
  LegacyCoupon,  \* the coupons they were placed with
  Overuse        \* may settlements exceed a quota: {FALSE} without an operator

ASSUME OrdersFinite == IsFiniteSet(Orders) /\ NoOrder \notin Orders
ASSUME KeysFinite == IsFiniteSet(Keys)
ASSUME VariantsFinite == Variants \subseteq Nat /\ IsFiniteSet(Variants)
ASSUME CouponsFinite == IsFiniteSet(Coupons) /\ NoCoupon \notin Coupons
ASSUME LimitsTyped == NoLimit \notin Nat /\ Limits \subseteq Nat \cup {NoLimit}
ASSUME ShopTyped ==
  /\ KeyVariant \in [Keys -> Variants]
  /\ Quantity \in [Orders -> [Variants -> Nat]]
  /\ Buyer \in [Orders -> Buyers]
  /\ PerUserLimit \in [Coupons -> Nat \cup {NoLimit}]
ASSUME OveruseTyped == FALSE \in Overuse /\ Overuse \subseteq BOOLEAN
ASSUME LegacyTyped ==
  /\ StockAtStart \subseteq Keys
  /\ LegacyStatus \in [Orders -> {"NONE", "PENDING", "EXPIRED"}]
  /\ LegacyHold \in [Keys -> Orders \cup {NoOrder}]
  /\ LegacyCoupon \in [Orders -> Coupons \cup {NoCoupon}]
  /\ \A o \in Orders : LegacyStatus[o] = "NONE" => LegacyCoupon[o] = NoCoupon
ASSUME LegacyHoldsItsItems ==
  /\ \A k \in Keys : LegacyHold[k] # NoOrder => k \notin StockAtStart
  /\ \A o \in Orders, v \in Variants :
       Cardinality({k \in Keys : LegacyHold[k] = o /\ KeyVariant[k] = v})
         = IF LegacyStatus[o] = "PENDING" THEN Quantity[o][v] ELSE 0

VARIABLES
  orderStatus,   \* Order.status, "NONE" before the row is committed
  payStatus,     \* Payment.status of the order's payment
  couponOf,      \* Order.couponId
  due,           \* orders whose expiresAt has passed
  keyStatus,     \* StockItem.status, "ABSENT" when there is no such row
  keyOrder,      \* the order of StockItem.orderItemId
  coupons,       \* coupons that exist
  usedCount,     \* Coupon.usedCount
  maxUses,       \* Coupon.maxUses
  tx             \* the transaction each worker has open

orderVars  == <<orderStatus, payStatus, couponOf, due>>
keyVars    == <<keyStatus, keyOrder>>
couponVars == <<coupons, usedCount, maxUses>>
vars == <<orderStatus, payStatus, couponOf, due, keyStatus, keyOrder,
          coupons, usedCount, maxUses, tx>>

-----------------------------------------------------------------------------
(* The types of rows and of open transactions.                             *)

OrderStatuses == {"NONE", "PENDING", "PAID", "DELIVERED", "EXPIRED", "CANCELLED"}
PayStatuses   == {"PENDING", "SUCCESS", "EXPIRED", "FAILED"}
KeyStatuses   == {"ABSENT", "AVAILABLE", "RESERVED", "SOLD", "WITHDRAWN"}

\* Statuses in which an order counts as a use of its coupon.
Counted == {"PENDING", "PAID", "DELIVERED"}

(* An open transaction: what it is for, the coupon a purchase takes, if    *)
(* the wallet already paid for it, the items (variants) it has still to    *)
(* go through and the stock rows it has locked.                            *)
Tx == [kind : {"idle", "create", "deliver", "withdraw"},
       order : Orders \cup {NoOrder},
       coupon : Coupons \cup {NoCoupon},
       prepaid : BOOLEAN,
       todo : SUBSET Variants,
       took : SUBSET Keys]

\* A transaction that has no coupon and no wallet payment.
Open(kind, o, todo, took) ==
  [kind |-> kind, order |-> o, coupon |-> NoCoupon, prepaid |-> FALSE,
   todo |-> todo, took |-> took]

Idle == Open("idle", NoOrder, {}, {})

ItemsOf(o) == {v \in Variants : Quantity[o][v] > 0}

\* Keys of variant v that carry order o and have the given status.
KeysOf(o, v, st) ==
  {k \in Keys : keyStatus[k] = st /\ keyOrder[k] = o /\ KeyVariant[k] = v}

-----------------------------------------------------------------------------
(* Locks.                                                                  *)

\* Stock rows some open transaction holds FOR UPDATE.
Locked == UNION {tx[w].took : w \in Workers}

\* lockFinancialArbitration is held across steps only by a purchase.
ArbitrationFree == \A w \in Workers : tx[w].kind # "create"

\* Mutant: the Order row is read without FOR UPDATE.
OrderRowUnlocked(o) == TRUE

\* Nobody delivers o, so its Order row can be locked.
OrderRowFree(o) == \A w \in Workers : tx[w].kind = "deliver" => tx[w].order # o

\* A purchase keeps the Coupon row it reserved FOR UPDATE until it commits.
CouponRowFree(c) == \A w \in Workers : tx[w].kind = "create" => tx[w].coupon # c

\* Purchases and deliveries hold their variants FOR KEY SHARE.
VariantRowFree(v) ==
  \A w \in Workers : tx[w].order \in Orders => v \notin ItemsOf(tx[w].order)

\* Mutant: no FOR UPDATE SKIP LOCKED.
FreeUnlocked(v) == {k \in Keys : KeyVariant[k] = v /\ keyStatus[k] = "AVAILABLE"}

\* The rows lockAvailableStock can see: AVAILABLE and not SKIP LOCKED.
Free(v) ==
  {k \in Keys : KeyVariant[k] = v /\ keyStatus[k] = "AVAILABLE" /\ k \notin Locked}

\* lockAvailableStock(v, limit) may return S: as many free rows as there are,
\* at most limit of them.
LocksAvailable(S, v, limit) ==
  /\ S \subseteq Free(v)
  /\ Cardinality(S) <= limit
  /\ Cardinality(S) < limit => S = Free(v)

\* Items are gone through in OrderItem.id order.
NextItem(w, v) == v \in tx[w].todo /\ \A u \in tx[w].todo : v <= u

-----------------------------------------------------------------------------
(* Coupon quotas.                                                          *)

Uses(c) == {o \in Orders : couponOf[o] = c /\ orderStatus[o] \in Counted}
UserUses(c, u) == {o \in Uses(c) : Buyer[o] = u}

Reached(n, limit) == limit # NoLimit /\ n >= limit

\* Coupon c has neither reached maxUses nor perUserLimit of o's buyer.
QuotaLeft(c, o) ==
  /\ ~Reached(usedCount[c], maxUses[c])
  /\ ~Reached(Cardinality(UserUses(c, Buyer[o])), PerUserLimit[c])

\* Mutant: a late payment is only held against maxUses.
ConflictIgnoringUser(o) ==
  /\ orderStatus[o] = "EXPIRED"
  /\ couponOf[o] # NoCoupon
  /\ Reached(usedCount[couponOf[o]], maxUses[couponOf[o]])

\* A late payment of an expired order would exceed its coupon's quota.
ExpiredCouponConflict(o) ==
  /\ orderStatus[o] = "EXPIRED"
  /\ couponOf[o] # NoCoupon
  /\ ~QuotaLeft(couponOf[o], o)

\* GREATEST(0, usedCount - n)
Decremented(n, m) == IF n > m THEN n - m ELSE 0

-----------------------------------------------------------------------------
(* Placing an order: OrdersService.create, and ApiV1Service.purchase when  *)
(* prepaid.  The call to releaseExpiredOrders that precedes the former is  *)
(* a transaction of its own: action ReleaseExpiredOrders.                  *)

\* Arbitration, the coupon's reservation, Order, Payment and OrderItem rows.
\* A refused coupon throws before anything is written.
BeginCreate(w, o, c, prepaid) ==
  /\ tx[w] = Idle
  /\ ArbitrationFree
  /\ orderStatus[o] = "NONE"
  /\ c # NoCoupon => c \in coupons /\ QuotaLeft(c, o)
  /\ tx' = [tx EXCEPT ![w] = [kind |-> "create", order |-> o, coupon |-> c,
                              prepaid |-> prepaid, todo |-> ItemsOf(o), took |-> {}]]
  /\ UNCHANGED <<orderVars, keyVars, couponVars>>

\* reserveOrderStockInTransaction, one item.
ReserveItem(w, v) ==
  /\ tx[w].kind = "create"
  /\ NextItem(w, v)
  /\ \E S \in SUBSET Free(v) :
       /\ LocksAvailable(S, v, Quantity[tx[w].order][v])
       /\ IF Cardinality(S) < Quantity[tx[w].order][v]
          THEN tx' = [tx EXCEPT ![w] = Idle]
          ELSE tx' = [tx EXCEPT ![w].todo = @ \ {v}, ![w].took = @ \cup S]
  /\ UNCHANGED <<orderVars, keyVars, couponVars>>

\* The purchase becomes visible: order, payment, coupon use and reservation.
CommitCreate(w) ==
  /\ tx[w].kind = "create"
  /\ tx[w].todo = {}
  /\ LET o == tx[w].order
         c == tx[w].coupon
     IN /\ orderStatus' = [orderStatus EXCEPT ![o] = IF tx[w].prepaid THEN "PAID" ELSE "PENDING"]
        /\ payStatus' = [payStatus EXCEPT ![o] = IF tx[w].prepaid THEN "SUCCESS" ELSE "PENDING"]
        /\ couponOf' = [couponOf EXCEPT ![o] = c]
        /\ usedCount' = [d \in Coupons |-> IF d = c THEN usedCount[d] + 1 ELSE usedCount[d]]
        /\ keyStatus' = [k \in Keys |-> IF k \in tx[w].took THEN "RESERVED" ELSE keyStatus[k]]
        /\ keyOrder' = [k \in Keys |-> IF k \in tx[w].took THEN o ELSE keyOrder[k]]
  /\ tx' = [tx EXCEPT ![w] = Idle]
  /\ UNCHANGED <<due, coupons, maxUses>>

-----------------------------------------------------------------------------
(* Delivering an order: FulfillmentService.deliverOrder, called after a    *)
(* settlement, by the sweeper, by an administrator and by API replays.     *)

\* Mutant: delivers whatever is not delivered yet.
BeginDeliverUnpaid(w, o) ==
  /\ tx[w] = Idle
  /\ OrderRowFree(o)
  /\ orderStatus[o] \notin {"NONE", "DELIVERED"}
  /\ tx' = [tx EXCEPT ![w] = Open("deliver", o, ItemsOf(o), {})]
  /\ UNCHANGED <<orderVars, keyVars, couponVars>>

\* Order row FOR UPDATE; any status but PAID returns without a change.
BeginDeliver(w, o) ==
  /\ tx[w] = Idle
  /\ OrderRowFree(o)
  /\ orderStatus[o] = "PAID"
  /\ tx' = [tx EXCEPT ![w] = Open("deliver", o, ItemsOf(o), {})]
  /\ UNCHANGED <<orderVars, keyVars, couponVars>>

\* Mutant: forgets what an earlier, partial delivery handed out.
NeededFromScratch(o, v) == Quantity[o][v]

\* Keys of the item that are still to be handed out.
Needed(o, v) ==
  LET sold == Cardinality(KeysOf(o, v, "SOLD"))
  IN IF sold < Quantity[o][v] THEN Quantity[o][v] - sold ELSE 0

\* One item: its own reserved keys first, available ones for the rest.
DeliverItem(w, v) ==
  /\ tx[w].kind = "deliver"
  /\ NextItem(w, v)
  /\ LET o == tx[w].order
         own == KeysOf(o, v, "RESERVED")
     IN \E R \in SUBSET own, S \in SUBSET Free(v) :
          /\ own \cap Locked = {}
          /\ Cardinality(R) <= Needed(o, v)
          /\ Cardinality(R) < Needed(o, v) => R = own
          /\ LocksAvailable(S, v, Needed(o, v) - Cardinality(R))
          /\ tx' = [tx EXCEPT ![w].todo = @ \ {v}, ![w].took = @ \cup R \cup S]
  /\ UNCHANGED <<orderVars, keyVars, couponVars>>

\* Every item of the order w delivers has all its keys.
FullyDelivered(w) ==
  \A v \in ItemsOf(tx[w].order) :
    Needed(tx[w].order, v) <= Cardinality({k \in tx[w].took : KeyVariant[k] = v})

CommitDeliver(w) ==
  /\ tx[w].kind = "deliver"
  /\ tx[w].todo = {}
  /\ keyStatus' = [k \in Keys |-> IF k \in tx[w].took THEN "SOLD" ELSE keyStatus[k]]
  /\ keyOrder' = [k \in Keys |-> IF k \in tx[w].took THEN tx[w].order ELSE keyOrder[k]]
  /\ orderStatus' = [orderStatus EXCEPT ![tx[w].order] =
                       IF FullyDelivered(w) THEN "DELIVERED" ELSE @]
  /\ tx' = [tx EXCEPT ![w] = Idle]
  /\ UNCHANGED <<payStatus, couponOf, due, couponVars>>

-----------------------------------------------------------------------------
(* AdminService.withdrawStock: the owner takes keys out of the shop.       *)

BeginWithdraw(w, v, n) ==
  /\ tx[w] = Idle
  /\ \E S \in SUBSET Free(v) :
       /\ LocksAvailable(S, v, n)
       /\ S # {}
       /\ tx' = [tx EXCEPT ![w] = Open("withdraw", NoOrder, {}, S)]
  /\ UNCHANGED <<orderVars, keyVars, couponVars>>

CommitWithdraw(w) ==
  /\ tx[w].kind = "withdraw"
  /\ keyStatus' = [k \in Keys |-> IF k \in tx[w].took THEN "WITHDRAWN" ELSE keyStatus[k]]
  /\ tx' = [tx EXCEPT ![w] = Idle]
  /\ UNCHANGED <<orderVars, keyOrder, couponVars>>

\* Any open transaction may roll back: an error, its time-out, a refused
\* wallet, the death of the process.
Abort(w) ==
  /\ tx[w] # Idle
  /\ tx' = [tx EXCEPT ![w] = Idle]
  /\ UNCHANGED <<orderVars, keyVars, couponVars>>

-----------------------------------------------------------------------------
(* Closing orders: closePendingOrder, then releaseCoupons and              *)
(* releaseReservedStock for the orders it closed.  An order whose payment  *)
(* is already SUCCESS is promoted to PAID instead.                         *)

DeadlinePasses(o) ==
  /\ orderStatus[o] = "PENDING"
  /\ o \notin due
  /\ due' = due \cup {o}
  /\ UNCHANGED <<orderStatus, payStatus, couponOf, keyVars, couponVars, tx>>

\* Mutant: closes an order whose payment has succeeded.
ClosableEvenPaid(D) == {o \in D : orderStatus[o] = "PENDING"}

\* The orders of D that closePendingOrder closes.
Closable(D) == {o \in D : orderStatus[o] = "PENDING" /\ payStatus[o] # "SUCCESS"}

\* Mutant: every sweep releases all expired orders again.
ReleaseCouponsAgain(C) ==
  usedCount' = [c \in Coupons |->
                 Decremented(usedCount[c],
                   Cardinality({o \in Orders : /\ couponOf[o] = c
                                               /\ o \in C \/ orderStatus[o] = "EXPIRED"}))]

ReleaseCoupons(C) ==
  usedCount' = [c \in Coupons |->
                 Decremented(usedCount[c], Cardinality({o \in C : couponOf[o] = c}))]

ReleaseReservedStock(C) ==
  LET released == {k \in Keys : keyStatus[k] = "RESERVED" /\ keyOrder[k] \in C}
  IN /\ keyStatus' = [k \in Keys |-> IF k \in released THEN "AVAILABLE" ELSE keyStatus[k]]
     /\ keyOrder' = [k \in Keys |-> IF k \in released THEN NoOrder ELSE keyOrder[k]]

\* Mutant: the payment takes the status of the order.
ClosePendingSameStatus(D, st) ==
  LET C == Closable(D)
      promoted == {o \in D : orderStatus[o] = "PENDING"} \ C
  IN /\ orderStatus' = [o \in Orders |-> IF o \in C THEN st
                                        ELSE IF o \in promoted THEN "PAID" ELSE orderStatus[o]]
     /\ payStatus' = [o \in Orders |-> IF o \in C THEN st ELSE payStatus[o]]
     /\ ReleaseCoupons(C)
     /\ ReleaseReservedStock(C)
     /\ due' = due \ D

ClosePendingOrders(D, st) ==
  LET C == Closable(D)
      promoted == {o \in D : orderStatus[o] = "PENDING"} \ C
  IN /\ orderStatus' = [o \in Orders |-> IF o \in C THEN st
                                        ELSE IF o \in promoted THEN "PAID" ELSE orderStatus[o]]
     /\ payStatus' = [o \in Orders |-> IF o \in C /\ payStatus[o] # "SUCCESS"
                                      THEN (IF st = "CANCELLED" THEN "FAILED" ELSE "EXPIRED")
                                      ELSE payStatus[o]]
     /\ ReleaseCoupons(C)
     /\ ReleaseReservedStock(C)
     \* expiresAt of an order that is no longer PENDING is never read again.
     /\ due' = due \ D

ReleaseExpiredOrders ==
  LET D == {o \in due : orderStatus[o] = "PENDING"}
  IN /\ D # {}
     /\ ArbitrationFree
     /\ \A o \in D : OrderRowFree(o)
     /\ ClosePendingOrders(D, "EXPIRED")
     /\ UNCHANGED <<couponOf, coupons, maxUses, tx>>

\* expireOrder (the gateway closed its session) and cancelOrderInternal.
CloseOrder(o, st) ==
  /\ orderStatus[o] = "PENDING"
  /\ ArbitrationFree
  /\ OrderRowFree(o)
  /\ ClosePendingOrders({o}, st)
  /\ UNCHANGED <<couponOf, coupons, maxUses, tx>>

-----------------------------------------------------------------------------
(* markOrderPaid: the settlement of a payment, on time or late.  Only the  *)
(* operator may exceed a coupon's quota for a late payment.                *)

MarkOrderPaid(o, allowCouponOveruse) ==
  /\ ArbitrationFree
  /\ OrderRowFree(o)
  /\ orderStatus[o] \in {"PENDING", "EXPIRED"}
  /\ \/ payStatus[o] = "SUCCESS"
     \/ allowCouponOveruse
     \/ ~ExpiredCouponConflict(o)
  /\ orderStatus' = [orderStatus EXCEPT ![o] = "PAID"]
  /\ payStatus' = [payStatus EXCEPT ![o] = "SUCCESS"]
  /\ usedCount' = [c \in Coupons |->
                     IF orderStatus[o] = "EXPIRED" /\ couponOf[o] = c
                     THEN usedCount[c] + 1 ELSE usedCount[c]]
  /\ due' = due \ {o}
  /\ UNCHANGED <<couponOf, keyVars, coupons, maxUses, tx>>

-----------------------------------------------------------------------------
(* Administration of stock and coupons.                                    *)

AddStock(v, K) ==
  /\ K # {}
  /\ \A k \in K : keyStatus[k] = "ABSENT" /\ KeyVariant[k] = v
  /\ VariantRowFree(v)
  /\ keyStatus' = [k \in Keys |-> IF k \in K THEN "AVAILABLE" ELSE keyStatus[k]]
  /\ UNCHANGED <<orderVars, keyOrder, couponVars, tx>>

\* Mutant: the update is not conditional on the status it was read with.
RestoreStockUnconditionally(k) ==
  /\ keyStatus[k] \in {"WITHDRAWN", "SOLD"}
  /\ keyStatus' = [keyStatus EXCEPT ![k] = "AVAILABLE"]
  /\ UNCHANGED <<orderVars, keyOrder, couponVars, tx>>

RestoreStock(k) ==
  /\ keyStatus[k] = "WITHDRAWN"
  /\ keyStatus' = [keyStatus EXCEPT ![k] = "AVAILABLE"]
  /\ UNCHANGED <<orderVars, keyOrder, couponVars, tx>>

DeleteStockItem(k) ==
  /\ keyStatus[k] = "AVAILABLE"
  /\ k \notin Locked
  /\ keyStatus' = [keyStatus EXCEPT ![k] = "ABSENT"]
  /\ UNCHANGED <<orderVars, keyOrder, couponVars, tx>>

UpdateCoupon(c, limit) ==
  /\ c \in coupons
  /\ CouponRowFree(c)
  /\ maxUses' = [maxUses EXCEPT ![c] = limit]
  /\ UNCHANGED <<orderVars, keyVars, coupons, usedCount, tx>>

\* The foreign key sets couponId of the coupon's orders to null, which needs
\* their rows.
RemoveCoupon(c) ==
  /\ c \in coupons
  /\ CouponRowFree(c)
  /\ \A o \in Orders : couponOf[o] = c => OrderRowFree(o)
  /\ coupons' = coupons \ {c}
  /\ couponOf' = [o \in Orders |-> IF couponOf[o] = c THEN NoCoupon ELSE couponOf[o]]
  /\ UNCHANGED <<orderStatus, payStatus, due, keyVars, usedCount, maxUses, tx>>

-----------------------------------------------------------------------------
Init ==
  /\ orderStatus = LegacyStatus
  /\ payStatus = [o \in Orders |-> IF LegacyStatus[o] = "NONE" THEN "PENDING" ELSE "SUCCESS"]
  /\ couponOf = LegacyCoupon
  /\ due = {}
  /\ keyStatus = [k \in Keys |-> IF k \in StockAtStart THEN "AVAILABLE"
                                ELSE IF LegacyHold[k] # NoOrder THEN "RESERVED" ELSE "ABSENT"]
  /\ keyOrder = LegacyHold
  /\ coupons = Coupons
  /\ usedCount = [c \in Coupons |-> Cardinality(Uses(c))]
  /\ maxUses \in [Coupons -> Limits]
  /\ tx = [w \in Workers |-> Idle]

\* A step of the transaction worker w has open.
Step(w) ==
  \/ \E v \in Variants : ReserveItem(w, v) \/ DeliverItem(w, v)
  \/ CommitCreate(w)
  \/ CommitDeliver(w)
  \/ CommitWithdraw(w)

Begin(w) ==
  \/ \E o \in Orders, c \in Coupons \cup {NoCoupon}, prepaid \in BOOLEAN :
       BeginCreate(w, o, c, prepaid)
  \/ \E o \in Orders : BeginDeliver(w, o)
  \/ \E v \in Variants, n \in 1 .. Cardinality(Keys) : BeginWithdraw(w, v, n)

Settle ==
  \/ \E o \in Orders : DeadlinePasses(o)
  \/ ReleaseExpiredOrders
  \/ \E o \in Orders, st \in {"EXPIRED", "CANCELLED"} : CloseOrder(o, st)
  \/ \E o \in Orders, allowCouponOveruse \in Overuse : MarkOrderPaid(o, allowCouponOveruse)

Administer ==
  \/ \E v \in Variants, K \in SUBSET Keys : AddStock(v, K)
  \/ \E k \in Keys : RestoreStock(k) \/ DeleteStockItem(k)
  \/ \E c \in Coupons : \/ \E limit \in Limits : UpdateCoupon(c, limit)
                        \/ RemoveCoupon(c)

Next ==
  \/ \E w \in Workers : Begin(w) \/ Step(w) \/ Abort(w)
  \/ Settle
  \/ Administer

Spec == Init /\ [][Next]_vars

-----------------------------------------------------------------------------
(* Properties.                                                             *)

\* Every row and every open transaction has the type its table gives it.
TypeOK ==
  /\ orderStatus \in [Orders -> OrderStatuses]
  /\ payStatus \in [Orders -> PayStatuses]
  /\ couponOf \in [Orders -> Coupons \cup {NoCoupon}]
  /\ due \in SUBSET Orders
  /\ keyStatus \in [Keys -> KeyStatuses]
  /\ keyOrder \in [Keys -> Orders \cup {NoOrder}]
  /\ coupons \in SUBSET Coupons
  /\ usedCount \in [Coupons -> Nat]
  /\ maxUses \in [Coupons -> Nat \cup {NoLimit}]
  /\ tx \in [Workers -> Tx]

\* An order that can still be paid in time has every key it asked for set
\* aside: whatever races a purchase (withdrawals, other buyers, the sweep of
\* expired orders, roll-backs), a payment in time never finds stock missing.
PendingHoldsStock ==
  \A o \in Orders : orderStatus[o] = "PENDING" =>
    \A v \in Variants : Cardinality(KeysOf(o, v, "RESERVED")) = Quantity[o][v]

\* A key is set aside only for an order that may still use it, and handed
\* over only for an order that is paid: closing an order, delivering another
\* or restoring a withdrawn key never strands a key or gives one away.
HeldByLiveOrder ==
  \A k \in Keys :
    /\ keyStatus[k] = "RESERVED" => /\ keyOrder[k] \in Orders
                                    /\ orderStatus[keyOrder[k]] \in {"PENDING", "PAID"}
    /\ keyStatus[k] = "SOLD" => /\ keyOrder[k] \in Orders
                                /\ orderStatus[keyOrder[k]] \in {"PAID", "DELIVERED"}
    /\ keyStatus[k] \in {"ABSENT", "AVAILABLE", "WITHDRAWN"} => keyOrder[k] = NoOrder

\* However many webhooks, sweeps and administrators deliver an order at the
\* same time, no item gets more keys than were bought, and an order shown as
\* delivered has every one of them.
DeliveredExactly ==
  \A o \in Orders, v \in Variants :
    /\ Cardinality(KeysOf(o, v, "RESERVED")) + Cardinality(KeysOf(o, v, "SOLD"))
         <= Quantity[o][v]
    /\ orderStatus[o] = "DELIVERED" => Cardinality(KeysOf(o, v, "SOLD")) = Quantity[o][v]

\* Order and payment never disagree about money: an order is PAID or
\* DELIVERED only with a SUCCESS payment, and a closed order has one only if
\* an earlier release left it so.
PaidMeansSuccess ==
  \A o \in Orders :
    /\ orderStatus[o] \in {"PAID", "DELIVERED"} => payStatus[o] = "SUCCESS"
    /\ payStatus[o] = "SUCCESS" =>
         orderStatus[o] \in {"PAID", "DELIVERED"} \/ orderStatus[o] = LegacyStatus[o]

\* usedCount is the number of orders that use the coupon: neither sweeps that
\* race for the same expired order nor a late payment count a use twice.
CouponCountExact ==
  \A c \in coupons : usedCount[c] = Cardinality(Uses(c))

\* While no operator overrides it, a use is added only below maxUses and
\* below the buyer's own limit, at the time the use is committed.  The one
\* exception is money the shop had recorded already: an order that an earlier
\* release let expire with a SUCCESS payment gets its use back whatever the
\* count is.  No other late payment passes as such a recovery.
QuotaRespected ==
  [][Overuse = {FALSE} =>
      \A c \in coupons, o \in Orders :
        o \in Uses(c)' \ Uses(c) => QuotaLeft(c, o) \/ LegacyStatus[o] = "EXPIRED"]_vars

\* A key that was handed over is never taken back, given to another order,
\* withdrawn, restored into stock or deleted.
SoldForever ==
  [][\A k \in Keys : keyStatus[k] = "SOLD" =>
       keyStatus'[k] = "SOLD" /\ keyOrder'[k] = keyOrder[k]]_vars

\* The shop keeps the promise of KeySale: keys are given once and only for
\* paid orders, and no order leaves its life cycle.
Sale == INSTANCE KeySale WITH
  status <- orderStatus,
  sold <- [o \in Orders |-> {k \in Keys : keyStatus[k] = "SOLD" /\ keyOrder[k] = o}],
  InitialStatus <- LegacyStatus
KeepsSalePromise == Sale!Spec
=============================================================================
