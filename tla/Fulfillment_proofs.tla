-------------------------- MODULE Fulfillment_proofs --------------------------
(***************************************************************************)
(* Machine-checked proofs about Fulfillment and Sweeper, for every set of  *)
(* orders, keys and workers and every initial database. In this order:     *)
(* types, and who may touch what (transactions never disturb each other's  *)
(* order or stock rows, so order and payment agree about money and a key   *)
(* that was handed over stays where it is); the counts of keys, and that   *)
(* Fulfillment implements KeySale; the counts of coupon uses; and that all *)
(* of it stands while the sweeper ticks, fails and is started again.       *)
(***************************************************************************)
EXTENDS Sweeper, FiniteSetTheorems, TLAPS

\* The sets of a transaction in progress are typed by what it goes through.
LEMMA ItemsOfType == \A o \in Orders : ItemsOf(o) \in SUBSET Variants
BY DEF ItemsOf

\* A decremented counter is still a counter.
LEMMA DecrementedType == \A n, m \in Nat : Decremented(n, m) \in Nat
BY DEF Decremented

LEMMA IdleType == Idle \in Tx
BY DEF Idle, Open, Tx

\* Going through one item keeps the type of an open transaction.
LEMMA TodoTookType ==
  ASSUME tx \in [Workers -> Tx], NEW w \in Workers, NEW v, NEW S \in SUBSET Keys,
         tx' = [tx EXCEPT ![w].todo = @ \ {v}, ![w].took = @ \cup S]
  PROVE  tx' \in [Workers -> Tx]
<1>1. tx[w] \in Tx
  OBVIOUS
<1>2. [[tx[w] EXCEPT !.todo = @ \ {v}] EXCEPT !.took = @ \cup S] \in Tx
  BY <1>1 DEF Tx
<1> QED BY <1>2

\* Uses of a coupon are counted by natural numbers.
LEMMA OrderSubsetsCounted == \A S \in SUBSET Orders : Cardinality(S) \in Nat
BY OrdersFinite, FS_Subset, FS_CardinalityType

\* Releasing the orders of any set keeps usedCount a counter.
LEMMA ReleaseCouponsType ==
  ASSUME usedCount \in [Coupons -> Nat], NEW C \in SUBSET Orders, ReleaseCoupons(C)
  PROVE  usedCount' \in [Coupons -> Nat]
<1>1. \A c \in Coupons : Cardinality({o \in C : couponOf[o] = c}) \in Nat
  <2> TAKE c \in Coupons
  <2>1. {o \in C : couponOf[o] = c} \in SUBSET Orders
    OBVIOUS
  <2> QED BY <2>1, OrderSubsetsCounted
<1> QED BY <1>1, DecrementedType DEF ReleaseCoupons

\* Closing orders keeps every type, if st is a status an order may close with.
LEMMA CloseType ==
  ASSUME TypeOK, NEW D \in SUBSET Orders, NEW st \in {"EXPIRED", "CANCELLED"},
         ClosePendingOrders(D, st), UNCHANGED <<couponOf, coupons, maxUses, tx>>
  PROVE  TypeOK'
<1>1. orderStatus' \in [Orders -> OrderStatuses] /\ payStatus' \in [Orders -> PayStatuses]
  BY DEF TypeOK, ClosePendingOrders, OrderStatuses, PayStatuses
<1>2. due' \in SUBSET Orders
  BY DEF TypeOK, ClosePendingOrders
<1>3. Closable(D) \in SUBSET Orders
  BY DEF Closable
<1>4. usedCount' \in [Coupons -> Nat]
  BY <1>3, ReleaseCouponsType DEF TypeOK, ClosePendingOrders
<1>5. keyStatus' \in [Keys -> KeyStatuses] /\ keyOrder' \in [Keys -> Orders \cup {NoOrder}]
  BY DEF TypeOK, ClosePendingOrders, ReleaseReservedStock, KeyStatuses
<1> QED BY <1>1, <1>2, <1>4, <1>5 DEF TypeOK

\* The initial database is well typed.
LEMMA InitType == Init => TypeOK
<1> SUFFICES ASSUME Init PROVE TypeOK
  OBVIOUS
<1>1. orderStatus \in [Orders -> OrderStatuses] /\ payStatus \in [Orders -> PayStatuses]
  BY LegacyTyped DEF Init, OrderStatuses, PayStatuses
<1>2. keyStatus \in [Keys -> KeyStatuses] /\ keyOrder \in [Keys -> Orders \cup {NoOrder}]
  BY LegacyTyped DEF Init, KeyStatuses
<1>3. maxUses \in [Coupons -> Nat \cup {NoLimit}] /\ usedCount \in [Coupons -> Nat]
  <2>1. \A c \in Coupons : Cardinality(Uses(c)) \in Nat
    BY OrdersFinite, FS_Subset, FS_CardinalityType DEF Uses
  <2> QED BY <2>1, LimitsTyped DEF Init
<1>4. tx \in [Workers -> Tx]
  BY IdleType DEF Init
<1>5. couponOf \in [Orders -> Coupons \cup {NoCoupon}]
  BY LegacyTyped DEF Init
<1> QED BY <1>1, <1>2, <1>3, <1>4, <1>5 DEF Init, TypeOK

\* Steps of the transactions that lock stock row by row keep the types.
LEMMA BeginType ==
  ASSUME TypeOK, NEW w \in Workers, Begin(w)
  PROVE  TypeOK'
<1>1. CASE \E o \in Orders, c \in Coupons \cup {NoCoupon}, prepaid \in BOOLEAN :
             BeginCreate(w, o, c, prepaid)
  BY <1>1, ItemsOfType DEF TypeOK, BeginCreate, orderVars, keyVars, couponVars, Tx
<1>2. CASE \E o \in Orders : BeginDeliver(w, o)
  BY <1>2, ItemsOfType DEF TypeOK, BeginDeliver, orderVars, keyVars, couponVars, Tx, Open
<1>3. CASE \E v \in Variants, n \in 1 .. Cardinality(Keys) : BeginWithdraw(w, v, n)
  <2> PICK v \in Variants, n \in 1 .. Cardinality(Keys) : BeginWithdraw(w, v, n)
    BY <1>3
  <2> PICK S \in SUBSET Free(v) : tx' = [tx EXCEPT ![w] = Open("withdraw", NoOrder, {}, S)]
    BY DEF BeginWithdraw
  <2>1. Open("withdraw", NoOrder, {}, S) \in Tx
    BY DEF Open, Tx, Free
  <2> QED BY <2>1 DEF TypeOK, BeginWithdraw, orderVars, keyVars, couponVars
<1> QED BY <1>1, <1>2, <1>3 DEF Begin

LEMMA StepType ==
  ASSUME TypeOK, NEW w \in Workers, Step(w) \/ Abort(w)
  PROVE  TypeOK'
<1>1. ASSUME NEW v \in Variants, ReserveItem(w, v) PROVE TypeOK'
  <2>1. tx' \in [Workers -> Tx]
    <3>1. PICK S \in SUBSET Keys :
            \/ tx' = [tx EXCEPT ![w] = Idle]
            \/ tx' = [tx EXCEPT ![w].todo = @ \ {v}, ![w].took = @ \cup S]
      BY <1>1 DEF ReserveItem, Free
    <3> QED BY <3>1, IdleType, TodoTookType DEF TypeOK
  <2> QED BY <1>1, <2>1 DEF TypeOK, ReserveItem, orderVars, keyVars, couponVars
<1>2. ASSUME NEW v \in Variants, DeliverItem(w, v) PROVE TypeOK'
  <2>1. tx' \in [Workers -> Tx]
    <3>1. PICK R \in SUBSET Keys, S \in SUBSET Keys :
            tx' = [tx EXCEPT ![w].todo = @ \ {v}, ![w].took = @ \cup R \cup S]
      BY <1>2 DEF DeliverItem, Free, KeysOf
    <3>2. tx' = [tx EXCEPT ![w].todo = @ \ {v}, ![w].took = @ \cup (R \cup S)]
      BY <3>1
    <3> QED BY <3>2, TodoTookType DEF TypeOK
  <2> QED BY <1>2, <2>1 DEF TypeOK, DeliverItem, orderVars, keyVars, couponVars
<1>3. CASE CommitCreate(w)
  <2>1. tx[w] \in Tx /\ tx' \in [Workers -> Tx]
    BY <1>3, IdleType DEF TypeOK, CommitCreate
  <2>2. orderStatus' \in [Orders -> OrderStatuses] /\ payStatus' \in [Orders -> PayStatuses]
    BY <1>3 DEF TypeOK, CommitCreate, OrderStatuses, PayStatuses
  <2>3. couponOf' \in [Orders -> Coupons \cup {NoCoupon}] /\ usedCount' \in [Coupons -> Nat]
    <3>1. tx[w].coupon \in Coupons \cup {NoCoupon}
      BY <2>1 DEF Tx
    <3>2. couponOf' = [couponOf EXCEPT ![tx[w].order] = tx[w].coupon]
      BY <1>3 DEF CommitCreate
    <3>3. usedCount' = [d \in Coupons |-> IF d = tx[w].coupon THEN usedCount[d] + 1 ELSE usedCount[d]]
      BY <1>3 DEF CommitCreate
    <3>4. usedCount' \in [Coupons -> Nat]
      BY <3>3 DEF TypeOK
    <3> QED BY <3>1, <3>2, <3>4 DEF TypeOK
  <2>4. keyStatus' \in [Keys -> KeyStatuses] /\ keyOrder' \in [Keys -> Orders \cup {NoOrder}]
    BY <1>3, <2>1 DEF TypeOK, CommitCreate, KeyStatuses, Tx
  <2> QED BY <1>3, <2>1, <2>2, <2>3, <2>4 DEF TypeOK, CommitCreate
<1>4. CASE CommitDeliver(w)
  <2>1. tx[w] \in Tx /\ tx' \in [Workers -> Tx]
    BY <1>4, IdleType DEF TypeOK, CommitDeliver
  <2>2. orderStatus' \in [Orders -> OrderStatuses]
    BY <1>4 DEF TypeOK, CommitDeliver, OrderStatuses
  <2>3. keyStatus' \in [Keys -> KeyStatuses] /\ keyOrder' \in [Keys -> Orders \cup {NoOrder}]
    BY <1>4, <2>1 DEF TypeOK, CommitDeliver, KeyStatuses, Tx
  <2> QED BY <1>4, <2>1, <2>2, <2>3 DEF TypeOK, CommitDeliver, couponVars
<1>5. CASE CommitWithdraw(w)
  BY <1>5, IdleType DEF TypeOK, CommitWithdraw, orderVars, couponVars, KeyStatuses
<1>6. CASE Abort(w)
  BY <1>6, IdleType DEF TypeOK, Abort, orderVars, keyVars, couponVars
<1> QED BY <1>1, <1>2, <1>3, <1>4, <1>5, <1>6 DEF Step

LEMMA SettleType ==
  ASSUME TypeOK, Settle
  PROVE  TypeOK'
<1>1. CASE \E o \in Orders : DeadlinePasses(o)
  BY <1>1 DEF TypeOK, DeadlinePasses, keyVars, couponVars
<1>2. CASE ReleaseExpiredOrders
  <2>1. {o \in due : orderStatus[o] = "PENDING"} \in SUBSET Orders
    BY DEF TypeOK
  <2> QED BY <1>2, <2>1, CloseType DEF ReleaseExpiredOrders
<1>3. ASSUME NEW o \in Orders, NEW st \in {"EXPIRED", "CANCELLED"}, CloseOrder(o, st)
      PROVE  TypeOK'
  BY <1>3, CloseType DEF CloseOrder
<1>4. ASSUME NEW o \in Orders, NEW over \in Overuse, MarkOrderPaid(o, over)
      PROVE  TypeOK'
  <2>1. orderStatus' \in [Orders -> OrderStatuses] /\ payStatus' \in [Orders -> PayStatuses]
    BY <1>4 DEF TypeOK, MarkOrderPaid, OrderStatuses, PayStatuses
  <2>2. usedCount' \in [Coupons -> Nat]
    BY <1>4 DEF TypeOK, MarkOrderPaid
  <2> QED BY <1>4, <2>1, <2>2 DEF TypeOK, MarkOrderPaid, keyVars
<1> QED BY <1>1, <1>2, <1>3, <1>4 DEF Settle

LEMMA AdministerType ==
  ASSUME TypeOK, Administer
  PROVE  TypeOK'
<1>1. CASE \E v \in Variants, K \in SUBSET Keys : AddStock(v, K)
  BY <1>1 DEF TypeOK, AddStock, orderVars, couponVars, KeyStatuses
<1>2. CASE \E k \in Keys : RestoreStock(k) \/ DeleteStockItem(k)
  BY <1>2 DEF TypeOK, RestoreStock, DeleteStockItem, orderVars, couponVars, KeyStatuses
<1>3. ASSUME NEW c \in Coupons, NEW limit \in Limits, UpdateCoupon(c, limit)
      PROVE  TypeOK'
  BY <1>3, LimitsTyped DEF TypeOK, UpdateCoupon, orderVars, keyVars
<1>4. ASSUME NEW c \in Coupons, RemoveCoupon(c) PROVE TypeOK'
  BY <1>4 DEF TypeOK, RemoveCoupon, keyVars
<1> QED BY <1>1, <1>2, <1>3, <1>4 DEF Administer

\* Every step of the shop, and every step of its environment, keeps the types.
LEMMA NextType == TypeOK /\ [Next]_vars => TypeOK'
<1> SUFFICES ASSUME TypeOK, [Next]_vars PROVE TypeOK'
  OBVIOUS
<1>1. CASE UNCHANGED vars
  BY <1>1 DEF TypeOK, vars
<1>2. CASE Next
  BY <1>2, BeginType, StepType, SettleType, AdministerType DEF Next
<1> QED BY <1>1, <1>2

\* Rows and open transactions always have the types their tables give them.
THEOREM TypeCorrect == Spec => []TypeOK
BY InitType, NextType, PTL DEF Spec

-----------------------------------------------------------------------------
(* What the row locks buy.  None of it is checked by the code: it follows  *)
(* from who takes which lock when.                                         *)

\* A transaction's order stays in the state in which the transaction found it.
TxOrders ==
  \A w \in Workers :
    /\ tx[w].kind = "idle" => tx[w].took = {}
    /\ tx[w].kind = "create" => tx[w].order \in Orders /\ orderStatus[tx[w].order] = "NONE"
    /\ tx[w].kind = "deliver" => tx[w].order \in Orders /\ orderStatus[tx[w].order] = "PAID"

\* No two transactions create, deliver the same order or hold the same row.
TxExclusive ==
  \A w, x \in Workers : w # x =>
    /\ tx[w].kind = "create" => tx[x].kind # "create"
    /\ tx[w].kind = "deliver" /\ tx[x].kind = "deliver" => tx[w].order # tx[x].order
    /\ tx[w].took \cap tx[x].took = {}

\* A locked row is in stock, or reserved for the order being delivered.
TookLocked ==
  \A w \in Workers : \A k \in tx[w].took :
    \/ keyStatus[k] = "AVAILABLE"
    \/ /\ tx[w].kind = "deliver"
       /\ keyStatus[k] = "RESERVED"
       /\ keyOrder[k] = tx[w].order

\* The inductive invariant.
Custody == TypeOK /\ TxOrders /\ TxExclusive /\ TookLocked /\ PaidMeansSuccess

-----------------------------------------------------------------------------
(* Preservation, one lemma for each group of actions.                      *)

LEMMA InitCustody == Init => Custody
<1> SUFFICES ASSUME Init PROVE Custody
  OBVIOUS
<1>1. \A w \in Workers : tx[w] = Idle
  BY DEF Init
<1>2. TxOrders /\ TxExclusive /\ TookLocked
  BY <1>1 DEF TxOrders, TxExclusive, TookLocked, Idle, Open
<1>3. PaidMeansSuccess
  BY LegacyTyped DEF Init, PaidMeansSuccess
<1> QED BY <1>2, <1>3, InitType DEF Custody

\* A transaction that begins takes only rows nobody holds.
LEMMA BeginCustody ==
  ASSUME Custody, NEW w \in Workers, Begin(w)
  PROVE  Custody'
<1> USE DEF Custody
<1>1. TypeOK'
  BY BeginType
<1>2. UNCHANGED <<orderVars, keyVars>>
  BY DEF Begin, BeginCreate, BeginDeliver, BeginWithdraw
<1>3. PaidMeansSuccess'
  BY <1>2 DEF PaidMeansSuccess, orderVars
<1>4. CASE \E o \in Orders, c \in Coupons \cup {NoCoupon}, prepaid \in BOOLEAN :
             BeginCreate(w, o, c, prepaid)
  <2> PICK o \in Orders, c \in Coupons \cup {NoCoupon}, prepaid \in BOOLEAN :
             BeginCreate(w, o, c, prepaid)
    BY <1>4
  <2>1. /\ tx'[w].kind = "create" /\ tx'[w].order = o /\ tx'[w].took = {}
        /\ \A x \in Workers \ {w} : tx'[x] = tx[x]
    BY DEF BeginCreate, TypeOK
  <2>2. orderStatus[o] = "NONE" /\ \A x \in Workers : tx[x].kind # "create"
    BY DEF BeginCreate, ArbitrationFree
  <2>3. TxOrders'
    BY <1>2, <2>1, <2>2 DEF TxOrders, orderVars
  <2>4. TxExclusive'
    BY <2>1, <2>2 DEF TxExclusive
  <2>5. TookLocked'
    BY <1>2, <2>1 DEF TookLocked, keyVars
  <2> QED BY <1>1, <1>3, <2>3, <2>4, <2>5
<1>5. CASE \E o \in Orders : BeginDeliver(w, o)
  <2> PICK o \in Orders : BeginDeliver(w, o)
    BY <1>5
  <2>1. /\ tx'[w].kind = "deliver" /\ tx'[w].order = o /\ tx'[w].took = {}
        /\ \A x \in Workers \ {w} : tx'[x] = tx[x]
    BY DEF BeginDeliver, TypeOK, Open
  <2>2. /\ orderStatus[o] = "PAID"
        /\ \A x \in Workers : tx[x].kind = "deliver" => tx[x].order # o
    BY DEF BeginDeliver, OrderRowFree
  <2>3. TxOrders'
    BY <1>2, <2>1, <2>2 DEF TxOrders, orderVars
  <2>4. TxExclusive'
    BY <2>1, <2>2 DEF TxExclusive
  <2>5. TookLocked'
    BY <1>2, <2>1 DEF TookLocked, keyVars
  <2> QED BY <1>1, <1>3, <2>3, <2>4, <2>5
<1>6. CASE \E v \in Variants, n \in 1 .. Cardinality(Keys) : BeginWithdraw(w, v, n)
  <2> PICK v \in Variants, n \in 1 .. Cardinality(Keys) : BeginWithdraw(w, v, n)
    BY <1>6
  <2> PICK S \in SUBSET Free(v) : tx' = [tx EXCEPT ![w] = Open("withdraw", NoOrder, {}, S)]
    BY DEF BeginWithdraw
  <2>1. /\ tx'[w].kind = "withdraw" /\ tx'[w].took = S
        /\ \A x \in Workers \ {w} : tx'[x] = tx[x]
    BY DEF TypeOK, Open
  <2>2. \A k \in S : keyStatus[k] = "AVAILABLE" /\ \A x \in Workers : k \notin tx[x].took
    BY DEF Free, Locked
  <2>3. TxOrders'
    BY <1>2, <2>1 DEF TxOrders, orderVars
  <2>4. TxExclusive'
    BY <2>1, <2>2 DEF TxExclusive
  <2>5. TookLocked'
    BY <1>2, <2>1, <2>2 DEF TookLocked, keyVars
  <2> QED BY <1>1, <1>3, <2>3, <2>4, <2>5
<1> QED BY <1>4, <1>5, <1>6 DEF Begin

\* What locking more rows does to an open transaction.
LEMMA TakeFields ==
  ASSUME TypeOK, NEW w \in Workers, NEW v, NEW K \in SUBSET Keys,
         tx' = [tx EXCEPT ![w].todo = @ \ {v}, ![w].took = @ \cup K]
  PROVE  /\ tx'[w].kind = tx[w].kind /\ tx'[w].order = tx[w].order
         /\ tx'[w].todo = tx[w].todo \ {v} /\ tx'[w].took = tx[w].took \cup K
         /\ tx'[w].coupon = tx[w].coupon
         /\ \A x \in Workers \ {w} : tx'[x] = tx[x]
<1>1. tx \in [Workers -> Tx] /\ tx[w] \in Tx
  BY DEF TypeOK
<1> QED BY <1>1 DEF Tx

\* A transaction in progress that locks more rows takes only rows nobody holds.
LEMMA TakeCustody ==
  ASSUME Custody, NEW w \in Workers, tx[w].kind # "idle", NEW K \in SUBSET Keys,
         tx'[w].kind = tx[w].kind /\ tx'[w].order = tx[w].order,
         tx'[w].took = tx[w].took \cup K,
         \A x \in Workers \ {w} : tx'[x] = tx[x],
         UNCHANGED <<orderVars, keyVars>>,
         K \cap Locked = {},
         \A k \in K : \/ keyStatus[k] = "AVAILABLE"
                     \/ /\ tx[w].kind = "deliver"
                        /\ keyStatus[k] = "RESERVED"
                        /\ keyOrder[k] = tx[w].order
  PROVE  TxOrders' /\ TxExclusive' /\ TookLocked' /\ PaidMeansSuccess'
<1> USE DEF Custody
<1>1. \A x \in Workers : K \cap tx[x].took = {}
  BY DEF Locked
<1>2. TxOrders'
  BY DEF TxOrders, orderVars
<1>3. TxExclusive'
  BY <1>1 DEF TxExclusive
<1>4. TookLocked'
  BY DEF TookLocked, keyVars
<1>5. PaidMeansSuccess'
  BY DEF PaidMeansSuccess, orderVars
<1> QED BY <1>2, <1>3, <1>4, <1>5

\* A transaction that ends leaves the orders and rows of the others alone.
LEMMA EndCustody ==
  ASSUME Custody, NEW w \in Workers,
         tx' = [tx EXCEPT ![w] = Idle],
         \A k \in Keys \ tx[w].took : keyStatus'[k] = keyStatus[k] /\ keyOrder'[k] = keyOrder[k],
         \A x \in Workers \ {w} : tx[x].order \in Orders /\ tx[x].kind \in {"create", "deliver"} =>
                                   orderStatus'[tx[x].order] = orderStatus[tx[x].order]
  PROVE  TxOrders' /\ TxExclusive' /\ TookLocked'
<1> USE DEF Custody
<1>1. /\ tx'[w].kind = "idle" /\ tx'[w].took = {}
      /\ \A x \in Workers \ {w} : tx'[x] = tx[x]
  BY DEF TypeOK, Idle, Open
<1>2. \A x \in Workers \ {w} : tx[x].took \subseteq Keys \ tx[w].took
  BY DEF TxExclusive, TypeOK, Tx
<1>3. TxOrders'
  BY <1>1 DEF TxOrders
<1>4. TxExclusive'
  BY <1>1 DEF TxExclusive
<1>5. TookLocked'
  BY <1>1, <1>2 DEF TookLocked
<1> QED BY <1>3, <1>4, <1>5

\* The steps of a transaction.
LEMMA StepCustody ==
  ASSUME Custody, NEW w \in Workers, Step(w) \/ Abort(w)
  PROVE  Custody'
<1> USE DEF Custody
<1>1. TypeOK'
  BY StepType
<1>2. tx[w] \in Tx
  BY DEF TypeOK
<1>3. ASSUME NEW v \in Variants, ReserveItem(w, v) PROVE Custody'
  <2>1. PICK S \in SUBSET Free(v) :
          \/ tx' = [tx EXCEPT ![w] = Idle]
          \/ tx' = [tx EXCEPT ![w].todo = @ \ {v}, ![w].took = @ \cup S]
    BY <1>3 DEF ReserveItem
  <2>2. UNCHANGED <<orderVars, keyVars>> /\ tx[w].kind # "idle"
    BY <1>3 DEF ReserveItem
  <2>3. PaidMeansSuccess'
    BY <2>2 DEF PaidMeansSuccess, orderVars
  <2>4. CASE tx' = [tx EXCEPT ![w] = Idle]
    BY <1>1, <2>2, <2>3, <2>4, EndCustody DEF orderVars, keyVars
  <2>5. CASE tx' = [tx EXCEPT ![w].todo = @ \ {v}, ![w].took = @ \cup S]
    <3>1. S \in SUBSET Keys /\ S \cap Locked = {} /\ \A k \in S : keyStatus[k] = "AVAILABLE"
      BY DEF Free
    <3>2. /\ tx'[w].kind = tx[w].kind /\ tx'[w].order = tx[w].order
          /\ tx'[w].took = tx[w].took \cup S
          /\ \A x \in Workers \ {w} : tx'[x] = tx[x]
      BY <2>5, <3>1, TakeFields
    <3> QED BY <1>1, <2>2, <3>1, <3>2, TakeCustody
  <2> QED BY <2>1, <2>4, <2>5
<1>4. ASSUME NEW v \in Variants, DeliverItem(w, v) PROVE Custody'
  <2>1. PICK R \in SUBSET KeysOf(tx[w].order, v, "RESERVED"), S \in SUBSET Free(v) :
          /\ KeysOf(tx[w].order, v, "RESERVED") \cap Locked = {}
          /\ tx' = [tx EXCEPT ![w].todo = @ \ {v}, ![w].took = @ \cup R \cup S]
    BY <1>4 DEF DeliverItem
  <2>2. UNCHANGED <<orderVars, keyVars>> /\ tx[w].kind = "deliver"
    BY <1>4 DEF DeliverItem
  <2> DEFINE K == R \cup S
  <2>3. /\ K \in SUBSET Keys
        /\ K \cap Locked = {}
        /\ \A k \in K : \/ keyStatus[k] = "AVAILABLE"
                       \/ (keyStatus[k] = "RESERVED" /\ keyOrder[k] = tx[w].order)
    BY <2>1 DEF Free, KeysOf
  <2>4. tx' = [tx EXCEPT ![w].todo = @ \ {v}, ![w].took = @ \cup K]
    <3>1. \A T : (T \cup R) \cup S = T \cup K
      OBVIOUS
    <3> QED BY <2>1, <3>1
  <2> HIDE DEF K
  <2>5. /\ tx'[w].kind = tx[w].kind /\ tx'[w].order = tx[w].order
        /\ tx'[w].took = tx[w].took \cup K
        /\ \A x \in Workers \ {w} : tx'[x] = tx[x]
    BY <2>3, <2>4, TakeFields
  <2> QED BY <1>1, <2>2, <2>3, <2>5, TakeCustody
<1>5. CASE CommitCreate(w)
  <2>1. /\ tx[w].kind = "create" /\ tx[w].order \in Orders
        /\ orderStatus[tx[w].order] = "NONE"
        /\ \A x \in Workers \ {w} : tx[x].kind # "create"
    BY <1>5 DEF CommitCreate, TxOrders, TxExclusive
  <2>2. \A x \in Workers \ {w} : tx[x].kind = "deliver" => tx[x].order # tx[w].order
    BY <2>1 DEF TxOrders
  <2>3. \A o \in Orders \ {tx[w].order} : orderStatus'[o] = orderStatus[o] /\ payStatus'[o] = payStatus[o]
    BY <1>5 DEF CommitCreate, TypeOK
  <2>4. TxOrders' /\ TxExclusive' /\ TookLocked'
    BY <1>5, <2>1, <2>2, <2>3, EndCustody DEF CommitCreate
  <2>5. \/ orderStatus'[tx[w].order] = "PAID" /\ payStatus'[tx[w].order] = "SUCCESS"
        \/ orderStatus'[tx[w].order] = "PENDING" /\ payStatus'[tx[w].order] = "PENDING"
    BY <1>5, <2>1 DEF CommitCreate, TypeOK
  <2>6. PaidMeansSuccess'
    BY <2>3, <2>5 DEF PaidMeansSuccess
  <2> QED BY <1>1, <2>4, <2>6
<1>6. CASE CommitDeliver(w)
  <2>1. /\ tx[w].kind = "deliver" /\ tx[w].order \in Orders
        /\ orderStatus[tx[w].order] = "PAID"
        /\ \A x \in Workers \ {w} : tx[x].kind = "deliver" => tx[x].order # tx[w].order
    BY <1>6 DEF CommitDeliver, TxOrders, TxExclusive
  <2>2. \A x \in Workers \ {w} : tx[x].kind = "create" => tx[x].order # tx[w].order
    BY <2>1 DEF TxOrders
  <2>3. /\ \A o \in Orders \ {tx[w].order} : orderStatus'[o] = orderStatus[o]
        /\ orderStatus'[tx[w].order] \in {"PAID", "DELIVERED"}
        /\ payStatus' = payStatus
    BY <1>6, <2>1 DEF CommitDeliver, TypeOK
  <2>4. TxOrders' /\ TxExclusive' /\ TookLocked'
    BY <1>6, <2>1, <2>2, <2>3, EndCustody DEF CommitDeliver
  <2>5. PaidMeansSuccess'
    BY <2>1, <2>3 DEF PaidMeansSuccess
  <2> QED BY <1>1, <2>4, <2>5
<1>7. CASE CommitWithdraw(w)
  <2>1. TxOrders' /\ TxExclusive' /\ TookLocked'
    BY <1>7, EndCustody DEF CommitWithdraw, orderVars
  <2>2. PaidMeansSuccess'
    BY <1>7 DEF CommitWithdraw, orderVars, PaidMeansSuccess
  <2> QED BY <1>1, <2>1, <2>2
<1>8. CASE Abort(w)
  <2>1. TxOrders' /\ TxExclusive' /\ TookLocked'
    BY <1>8, EndCustody DEF Abort, orderVars, keyVars
  <2>2. PaidMeansSuccess'
    BY <1>8 DEF Abort, orderVars, PaidMeansSuccess
  <2> QED BY <1>1, <2>1, <2>2
<1> QED BY <1>3, <1>4, <1>5, <1>6, <1>7, <1>8 DEF Step

\* A step that leaves alone what open transactions rely on: orders not yet
\* placed or paid, and locked rows.
LEMMA QuietCustody ==
  ASSUME Custody, UNCHANGED tx,
         \A o \in Orders : orderStatus[o] \in {"NONE", "PAID"} => orderStatus'[o] = orderStatus[o],
         \A k \in Locked : keyStatus'[k] = keyStatus[k] /\ keyOrder'[k] = keyOrder[k]
  PROVE  TxOrders' /\ TxExclusive' /\ TookLocked'
<1> USE DEF Custody
<1>1. \A w \in Workers : \A k \in tx[w].took : k \in Locked
  BY DEF Locked
<1>2. TxOrders'
  BY DEF TxOrders
<1>3. TxExclusive'
  BY DEF TxExclusive
<1>4. TookLocked'
  BY <1>1 DEF TookLocked
<1> QED BY <1>2, <1>3, <1>4

\* Closing orders returns only keys that no delivery holds.
LEMMA CloseCustody ==
  ASSUME Custody, TypeOK', NEW D \in SUBSET Orders, NEW st \in {"EXPIRED", "CANCELLED"},
         ClosePendingOrders(D, st), UNCHANGED tx
  PROVE  Custody'
<1> USE DEF Custody
<1>1. ASSUME NEW o \in Orders
      PROVE  /\ orderStatus[o] # "PENDING" =>
                  orderStatus'[o] = orderStatus[o] /\ payStatus'[o] = payStatus[o]
             /\ orderStatus[o] = "PENDING" =>
                  /\ payStatus'[o] = "SUCCESS" <=> payStatus[o] = "SUCCESS"
                  /\ orderStatus'[o] \in {"PENDING", "PAID", st}
                  /\ orderStatus'[o] = "PAID" => payStatus[o] = "SUCCESS"
                  /\ orderStatus'[o] = st => payStatus[o] # "SUCCESS"
  <2>1. o \in Closable(D) <=> o \in D /\ orderStatus[o] = "PENDING" /\ payStatus[o] # "SUCCESS"
    BY DEF Closable
  <2>2. orderStatus'[o] = IF o \in Closable(D) THEN st
                          ELSE IF o \in D /\ orderStatus[o] = "PENDING" THEN "PAID" ELSE orderStatus[o]
    BY DEF ClosePendingOrders
  <2>3. payStatus'[o] = IF o \in Closable(D)
                        THEN (IF st = "CANCELLED" THEN "FAILED" ELSE "EXPIRED") ELSE payStatus[o]
    BY <2>1 DEF ClosePendingOrders
  <2> QED BY <2>1, <2>2, <2>3
<1>2. \A k \in Keys :
        \/ keyStatus[k] = "RESERVED" /\ orderStatus[keyOrder[k]] = "PENDING"
        \/ keyStatus'[k] = keyStatus[k] /\ keyOrder'[k] = keyOrder[k]
  BY DEF ClosePendingOrders, ReleaseReservedStock, Closable, TypeOK
<1>3. \A k \in Locked : k \in Keys /\ (keyStatus[k] = "RESERVED" => orderStatus[keyOrder[k]] = "PAID")
  BY DEF Locked, TookLocked, TxOrders, TypeOK, Tx
<1>4. TxOrders' /\ TxExclusive' /\ TookLocked'
  BY <1>1, <1>2, <1>3, QuietCustody
<1>5. PaidMeansSuccess'
  BY <1>1 DEF PaidMeansSuccess
<1> QED BY <1>4, <1>5

\* Settlement and the closing of orders.
LEMMA SettleCustody ==
  ASSUME Custody, Settle
  PROVE  Custody'
<1> USE DEF Custody
<1>1. TypeOK'
  BY SettleType
<1>2. CASE \E o \in Orders : DeadlinePasses(o)
  <2>1. UNCHANGED <<orderStatus, payStatus, keyStatus, keyOrder, tx>>
    BY <1>2 DEF DeadlinePasses, keyVars
  <2>2. PaidMeansSuccess'
    BY <2>1 DEF PaidMeansSuccess
  <2> QED BY <1>1, <2>1, <2>2, QuietCustody
<1>3. CASE ReleaseExpiredOrders
  <2>1. {o \in due : orderStatus[o] = "PENDING"} \in SUBSET Orders
    BY DEF TypeOK
  <2> QED BY <1>1, <1>3, <2>1, CloseCustody DEF ReleaseExpiredOrders
<1>4. ASSUME NEW o \in Orders, NEW st \in {"EXPIRED", "CANCELLED"}, CloseOrder(o, st)
      PROVE  Custody'
  BY <1>1, <1>4, CloseCustody DEF CloseOrder
<1>5. ASSUME NEW o \in Orders, NEW over \in Overuse, MarkOrderPaid(o, over)
      PROVE  Custody'
  <2>1. /\ orderStatus[o] \in {"PENDING", "EXPIRED"}
        /\ orderStatus'[o] = "PAID" /\ payStatus'[o] = "SUCCESS"
        /\ \A p \in Orders \ {o} : orderStatus'[p] = orderStatus[p] /\ payStatus'[p] = payStatus[p]
        /\ UNCHANGED <<keyStatus, keyOrder, tx>>
    BY <1>5 DEF MarkOrderPaid, TypeOK, keyVars
  <2>2. TxOrders' /\ TxExclusive' /\ TookLocked'
    BY <2>1, QuietCustody
  <2>3. PaidMeansSuccess'
    BY <2>1 DEF PaidMeansSuccess
  <2> QED BY <1>1, <2>2, <2>3
<1> QED BY <1>2, <1>3, <1>4, <1>5 DEF Settle

\* Administration of stock and coupons.
LEMMA AdministerCustody ==
  ASSUME Custody, Administer
  PROVE  Custody'
<1> USE DEF Custody
<1>1. TypeOK'
  BY AdministerType
<1>2. UNCHANGED <<orderStatus, payStatus, tx>>
  BY DEF Administer, AddStock, RestoreStock, DeleteStockItem, UpdateCoupon, RemoveCoupon, orderVars
<1>3. \A k \in Locked : k \in Keys /\ keyStatus[k] \in {"AVAILABLE", "RESERVED"}
  BY DEF Locked, TookLocked, TypeOK, Tx
<1>4. \A k \in Locked : keyStatus'[k] = keyStatus[k] /\ keyOrder'[k] = keyOrder[k]
  <2>1. CASE \E v \in Variants, K \in SUBSET Keys : AddStock(v, K)
    BY <1>3, <2>1 DEF AddStock
  <2>2. CASE \E k \in Keys : RestoreStock(k) \/ DeleteStockItem(k)
    BY <1>3, <2>2 DEF RestoreStock, DeleteStockItem, TypeOK
  <2>3. CASE \E c \in Coupons : (\E limit \in Limits : UpdateCoupon(c, limit)) \/ RemoveCoupon(c)
    BY <2>3 DEF UpdateCoupon, RemoveCoupon, keyVars
  <2> QED BY <2>1, <2>2, <2>3 DEF Administer
<1>5. PaidMeansSuccess'
  BY <1>2 DEF PaidMeansSuccess
<1> QED BY <1>1, <1>2, <1>4, <1>5, QuietCustody

LEMMA NextCustody == Custody /\ [Next]_vars => Custody'
<1> SUFFICES ASSUME Custody, [Next]_vars PROVE Custody'
  OBVIOUS
<1>1. CASE UNCHANGED vars
  BY <1>1 DEF Custody, TypeOK, TxOrders, TxExclusive, TookLocked, PaidMeansSuccess, vars
<1>2. CASE Next
  BY <1>2, BeginCustody, StepCustody, SettleCustody, AdministerCustody DEF Next
<1> QED BY <1>1, <1>2

LEMMA CustodyInvariant == Spec => []Custody
BY InitCustody, NextCustody, PTL DEF Spec

-----------------------------------------------------------------------------
(* The theorems.                                                           *)

\* Order and payment never disagree about money.
THEOREM MoneyAgrees == Spec => []PaidMeansSuccess
<1>1. Custody => PaidMeansSuccess
  BY DEF Custody
<1> QED BY <1>1, CustodyInvariant, PTL

\* No step moves a key that was handed over: a transaction writes only rows
\* it holds, those are in stock or reserved, and every other write is
\* conditional on a status that is not SOLD.
LEMMA SoldStays ==
  ASSUME Custody, Next, NEW k \in Keys, keyStatus[k] = "SOLD"
  PROVE  keyStatus'[k] = "SOLD" /\ keyOrder'[k] = keyOrder[k]
<1> USE DEF Custody
<1>1. \A w \in Workers : k \notin tx[w].took
  BY DEF TookLocked
<1>2. ASSUME NEW w \in Workers, Begin(w) \/ Step(w) \/ Abort(w)
      PROVE  keyStatus'[k] = "SOLD" /\ keyOrder'[k] = keyOrder[k]
  <2>1. CASE Begin(w)
    BY <2>1 DEF Begin, BeginCreate, BeginDeliver, BeginWithdraw, keyVars
  <2>2. CASE Step(w) \/ Abort(w)
    BY <1>1, <2>2 DEF Step, Abort, ReserveItem, DeliverItem, CommitCreate, CommitDeliver,
                      CommitWithdraw, keyVars
  <2> QED BY <1>2, <2>1, <2>2
<1>3. CASE Settle
  <2>1. ASSUME NEW D, NEW st, ClosePendingOrders(D, st)
        PROVE  keyStatus'[k] = "SOLD" /\ keyOrder'[k] = keyOrder[k]
    BY <2>1 DEF ClosePendingOrders, ReleaseReservedStock
  <2> QED BY <1>3, <2>1 DEF Settle, DeadlinePasses, ReleaseExpiredOrders, CloseOrder,
                           MarkOrderPaid, keyVars
<1>4. CASE Administer
  BY <1>4 DEF Administer, AddStock, RestoreStock, DeleteStockItem, UpdateCoupon, RemoveCoupon,
              keyVars, TypeOK
<1> QED BY <1>2, <1>3, <1>4 DEF Next

\* A key that was handed over is never taken back or given to someone else.
THEOREM SoldKeysStay == Spec => SoldForever
<1>1. Custody /\ [Next]_vars =>
        [\A k \in Keys : keyStatus[k] = "SOLD" =>
           keyStatus'[k] = "SOLD" /\ keyOrder'[k] = keyOrder[k]]_vars
  BY SoldStays
<1> QED BY <1>1, CustodyInvariant, PTL DEF Spec, SoldForever

-----------------------------------------------------------------------------
(***************************************************************************)
(* How many keys an order has, sets aside and is given.  The counts need   *)
(* what Custody says of the locks, and the counts of the transactions in   *)
(* progress.  They give the proof that Fulfillment implements KeySale.     *)
(***************************************************************************)
\* A row carries an order exactly while it is set aside or handed over.
KeyOwner ==
  \A k \in Keys :
    /\ keyStatus[k] \in {"RESERVED", "SOLD"} => keyOrder[k] \in Orders
    /\ keyStatus[k] \in {"ABSENT", "AVAILABLE", "WITHDRAWN"} => keyOrder[k] = NoOrder

Reserved(o, v) == KeysOf(o, v, "RESERVED")
Sold(o, v)     == KeysOf(o, v, "SOLD")

\* The keys of one order item, by the status of the order.
ItemCounts(o, v) ==
  /\ orderStatus[o] = "PENDING" =>
       Cardinality(Reserved(o, v)) = Quantity[o][v] /\ Sold(o, v) = {}
  /\ orderStatus[o] = "PAID" =>
       Cardinality(Reserved(o, v)) + Cardinality(Sold(o, v)) <= Quantity[o][v]
  /\ orderStatus[o] = "DELIVERED" =>
       Reserved(o, v) = {} /\ Cardinality(Sold(o, v)) = Quantity[o][v]
  /\ orderStatus[o] \in {"NONE", "EXPIRED", "CANCELLED"} =>
       Reserved(o, v) = {} /\ Sold(o, v) = {}

\* The rows a transaction has locked for the item of variant v.
Took(w, v) == {k \in tx[w].took : KeyVariant[k] = v}

\* A purchase has all keys of the items it has gone through; a delivery has
\* all the order's own keys, and not more than are needed.
TookCounts(w, v) ==
  /\ tx[w].kind \in {"create", "deliver"} /\ v \in tx[w].todo => Took(w, v) = {}
  /\ tx[w].kind = "create" /\ v \notin tx[w].todo =>
       Cardinality(Took(w, v)) = Quantity[tx[w].order][v]
  /\ tx[w].kind = "deliver" /\ v \notin tx[w].todo =>
       /\ Reserved(tx[w].order, v) \subseteq Took(w, v)
       /\ Cardinality(Took(w, v)) <= Needed(tx[w].order, v)

AllItems == \A o \in Orders, v \in Variants : ItemCounts(o, v)
AllTook  == \A w \in Workers, v \in Variants : TookCounts(w, v)

\* The inductive invariant.
StockInv == Custody /\ KeyOwner /\ AllItems /\ AllTook

-----------------------------------------------------------------------------
(* Counting.                                                               *)

LEMMA KeysCounted == \A S \in SUBSET Keys : IsFiniteSet(S) /\ Cardinality(S) \in Nat
BY KeysFinite, FS_Subset, FS_CardinalityType

LEMMA UnionCounted ==
  ASSUME NEW S \in SUBSET Keys, NEW T \in SUBSET Keys, S \cap T = {}
  PROVE  Cardinality(S \cup T) = Cardinality(S) + Cardinality(T)
<1>1. Cardinality(S \cup T) = Cardinality(S) + Cardinality(T) - Cardinality(S \cap T)
  BY KeysCounted, FS_Union
<1>2. Cardinality(S \cap T) = 0
  BY FS_EmptySet
<1> QED BY <1>1, <1>2, KeysCounted

LEMMA SubsetCounted ==
  ASSUME NEW T \in SUBSET Keys, NEW S \in SUBSET T
  PROVE  /\ Cardinality(S) <= Cardinality(T)
         /\ Cardinality(S) = Cardinality(T) => S = T
BY KeysCounted, FS_Subset

LEMMA EmptyCounted == \A S \in SUBSET Keys : Cardinality(S) = 0 <=> S = {}
BY KeysCounted, FS_EmptySet

\* Needed is what is missing to the quantity.
LEMMA NeededValue ==
  ASSUME NEW o \in Orders, NEW v \in Variants
  PROVE  /\ Quantity[o][v] \in Nat
         /\ Needed(o, v) \in Nat
         /\ Cardinality(Sold(o, v)) <= Quantity[o][v] =>
              Needed(o, v) = Quantity[o][v] - Cardinality(Sold(o, v))
<1>1. Quantity[o][v] \in Nat
  BY ShopTyped
<1>2. Cardinality(Sold(o, v)) \in Nat
  BY KeysCounted DEF Sold, KeysOf
<1> QED BY <1>1, <1>2 DEF Needed, Sold

-----------------------------------------------------------------------------
(* What a step leaves alone.                                               *)

\* No key enters or leaves the items of order o in this step.
Untouched(o) ==
  \A k \in Keys :
    \/ keyStatus'[k] = keyStatus[k] /\ keyOrder'[k] = keyOrder[k]
    \/ /\ keyOrder[k] = o => keyStatus[k] \notin {"RESERVED", "SOLD"}
       /\ keyOrder'[k] = o => keyStatus'[k] \notin {"RESERVED", "SOLD"}

LEMMA UntouchedItem ==
  ASSUME NEW o, NEW v, Untouched(o)
  PROVE  /\ Reserved(o, v)' = Reserved(o, v)
         /\ Sold(o, v)' = Sold(o, v)
         /\ Needed(o, v)' = Needed(o, v)
<1>1. Reserved(o, v)' = Reserved(o, v) /\ Sold(o, v)' = Sold(o, v)
  BY DEF Untouched, Reserved, Sold, KeysOf
<1> QED BY <1>1 DEF Needed, Sold

LEMMA UntouchedCounts ==
  ASSUME NEW o \in Orders, NEW v \in Variants, Untouched(o),
         orderStatus'[o] = orderStatus[o], ItemCounts(o, v)
  PROVE  ItemCounts(o, v)'
BY UntouchedItem DEF ItemCounts

LEMMA UntouchedTook ==
  ASSUME NEW w \in Workers, NEW v \in Variants, tx'[w] = tx[w], TookCounts(w, v),
         tx[w].kind = "deliver" => Untouched(tx[w].order)
  PROVE  TookCounts(w, v)'
<1>1. Took(w, v)' = Took(w, v)
  BY DEF Took
<1>2. CASE tx[w].kind = "deliver"
  BY <1>1, <1>2, UntouchedItem DEF TookCounts
<1>3. CASE tx[w].kind # "deliver"
  BY <1>1, <1>3 DEF TookCounts
<1> QED BY <1>2, <1>3

\* An idle worker has nothing to count.
LEMMA IdleTook ==
  ASSUME NEW w \in Workers, NEW v, tx'[w] = Idle
  PROVE  TookCounts(w, v)'
BY DEF TookCounts, Idle, Open

LEMMA InitStock == Init => StockInv
<1> SUFFICES ASSUME Init PROVE StockInv
  OBVIOUS
<1>1. KeyOwner
  BY LegacyTyped, LegacyHoldsItsItems DEF Init, KeyOwner
<1>2. ASSUME NEW o \in Orders, NEW v \in Variants PROVE ItemCounts(o, v)
  <2>1. Sold(o, v) = {}
    BY DEF Init, Sold, KeysOf
  <2>2. Reserved(o, v) = {k \in Keys : LegacyHold[k] = o /\ KeyVariant[k] = v}
    BY LegacyHoldsItsItems, OrdersFinite DEF Init, Reserved, KeysOf
  <2>3. Cardinality(Reserved(o, v)) = IF LegacyStatus[o] = "PENDING" THEN Quantity[o][v] ELSE 0
    BY <2>2, LegacyHoldsItsItems
  <2>4. Cardinality(Reserved(o, v)) = 0 => Reserved(o, v) = {}
    BY EmptyCounted DEF Reserved, KeysOf
  <2>5. orderStatus[o] = LegacyStatus[o] /\ LegacyStatus[o] \in {"NONE", "PENDING", "EXPIRED"}
    BY LegacyTyped DEF Init
  <2> QED BY <2>1, <2>3, <2>4, <2>5 DEF ItemCounts
<1>3. ASSUME NEW w \in Workers, NEW v \in Variants PROVE TookCounts(w, v)
  BY DEF Init, TookCounts, Idle, Open
<1> QED BY <1>1, <1>2, <1>3, InitCustody DEF StockInv, AllItems, AllTook

-----------------------------------------------------------------------------
(* Preservation.  In each lemma Custody' comes from the lemmas of locks.   *)

\* Beginning or going on with transaction w writes no row, so the items of
\* all orders and the rows of the other transactions are as before.
LEMMA PrivateStep ==
  ASSUME StockInv, Custody', NEW w \in Workers,
         UNCHANGED <<orderVars, keyVars>>,
         \A x \in Workers \ {w} : tx'[x] = tx[x],
         \A v \in Variants : TookCounts(w, v)'
  PROVE  StockInv'
<1>1. KeyOwner'
  BY DEF StockInv, KeyOwner, keyVars
<1>2. \A o : Untouched(o)
  BY DEF Untouched, keyVars
<1>3. AllItems'
  BY <1>2, UntouchedCounts DEF StockInv, AllItems, orderVars
<1>4. AllTook'
  BY <1>2, UntouchedTook DEF StockInv, AllTook
<1> QED BY <1>1, <1>3, <1>4 DEF StockInv

LEMMA BeginStock ==
  ASSUME StockInv, NEW w \in Workers, Begin(w)
  PROVE  StockInv'
<1>1. Custody' /\ TypeOK
  BY BeginCustody DEF StockInv, Custody
<1>2. UNCHANGED <<orderVars, keyVars>> /\ \A x \in Workers \ {w} : tx'[x] = tx[x]
  BY <1>1 DEF Begin, BeginCreate, BeginDeliver, BeginWithdraw, TypeOK
<1>3. ASSUME NEW v \in Variants PROVE TookCounts(w, v)'
  <2>1. CASE \E o \in Orders, c \in Coupons \cup {NoCoupon}, prepaid \in BOOLEAN :
               BeginCreate(w, o, c, prepaid)
    <3> PICK o \in Orders, c \in Coupons \cup {NoCoupon}, prepaid \in BOOLEAN :
               BeginCreate(w, o, c, prepaid)
      BY <2>1
    <3>1. /\ tx'[w].kind = "create" /\ tx'[w].order = o /\ tx'[w].took = {}
          /\ tx'[w].todo = ItemsOf(o)
      BY <1>1 DEF BeginCreate, TypeOK
    <3>2. Took(w, v)' = {} /\ (v \notin ItemsOf(o) => Quantity[o][v] = 0)
      BY <3>1, NeededValue DEF Took, ItemsOf
    <3>3. Cardinality({}) = 0
      BY FS_EmptySet
    <3> QED BY <3>1, <3>2, <3>3 DEF TookCounts
  <2>2. CASE \E o \in Orders : BeginDeliver(w, o)
    <3> PICK o \in Orders : BeginDeliver(w, o)
      BY <2>2
    <3>1. /\ tx'[w].kind = "deliver" /\ tx'[w].order = o /\ tx'[w].took = {}
          /\ tx'[w].todo = ItemsOf(o) /\ orderStatus[o] = "PAID"
      BY <1>1 DEF BeginDeliver, TypeOK, Open
    <3>2. Took(w, v)' = {} /\ (v \notin ItemsOf(o) => Quantity[o][v] = 0)
      BY <3>1, NeededValue DEF Took, ItemsOf
    <3>3. Cardinality(Reserved(o, v)) + Cardinality(Sold(o, v)) <= Quantity[o][v]
      BY <3>1 DEF StockInv, AllItems, ItemCounts
    <3>4. v \notin ItemsOf(o) => Reserved(o, v) = {}
      <4>1. Cardinality(Reserved(o, v)) \in Nat /\ Cardinality(Sold(o, v)) \in Nat
        BY KeysCounted DEF Reserved, Sold, KeysOf
      <4>2. Quantity[o][v] = 0 => Cardinality(Reserved(o, v)) = 0
        BY <3>3, <4>1
      <4> QED BY <3>2, <4>2, EmptyCounted DEF Reserved, KeysOf
    <3>5. /\ Reserved(o, v)' = Reserved(o, v)
          /\ Needed(o, v)' \in Nat
      <4>1. Untouched(o)
        BY <1>2 DEF Untouched, keyVars
      <4> QED BY <4>1, UntouchedItem, NeededValue
    <3>6. Cardinality({}) = 0
      BY FS_EmptySet
    <3> QED BY <3>1, <3>2, <3>4, <3>5, <3>6 DEF TookCounts
  <2>3. CASE \E u \in Variants, n \in 1 .. Cardinality(Keys) : BeginWithdraw(w, u, n)
    <3>1. tx'[w].kind = "withdraw"
      BY <1>1, <2>3 DEF BeginWithdraw, TypeOK, Open
    <3> QED BY <3>1 DEF TookCounts
  <2> QED BY <2>1, <2>2, <2>3 DEF Begin
<1> QED BY <1>1, <1>2, <1>3, PrivateStep

\* A purchase reserves exactly what the item asks for, or gives up.
LEMMA ReserveStock ==
  ASSUME StockInv, NEW w \in Workers, NEW v \in Variants, ReserveItem(w, v)
  PROVE  StockInv'
<1>1. Custody' /\ TypeOK
  BY StepCustody DEF StockInv, Custody, Step
<1>2. /\ UNCHANGED <<orderVars, keyVars>> /\ \A x \in Workers \ {w} : tx'[x] = tx[x]
      /\ tx[w].kind = "create" /\ v \in tx[w].todo
  BY <1>1 DEF ReserveItem, NextItem, TypeOK
<1>3. PICK S \in SUBSET Free(v) :
        /\ LocksAvailable(S, v, Quantity[tx[w].order][v])
        /\ IF Cardinality(S) < Quantity[tx[w].order][v]
           THEN tx' = [tx EXCEPT ![w] = Idle]
           ELSE tx' = [tx EXCEPT ![w].todo = @ \ {v}, ![w].took = @ \cup S]
  BY DEF ReserveItem
<1>4. CASE tx' = [tx EXCEPT ![w] = Idle]
  <2>1. tx'[w] = Idle
    BY <1>1, <1>4 DEF TypeOK
  <2> QED BY <1>1, <1>2, <2>1, IdleTook, PrivateStep
<1>5. CASE ~(Cardinality(S) < Quantity[tx[w].order][v])
  <2>1. S \in SUBSET Keys /\ \A k \in S : KeyVariant[k] = v
    BY DEF Free
  <2>2. /\ tx'[w].kind = tx[w].kind /\ tx'[w].order = tx[w].order
        /\ tx'[w].todo = tx[w].todo \ {v} /\ tx'[w].took = tx[w].took \cup S
    BY <1>1, <1>3, <1>5, <2>1, TakeFields
  <2>3. \A u \in Variants \ {v} : Took(w, u)' = Took(w, u)
    BY <2>1, <2>2 DEF Took
  <2>4. Took(w, v)' = S
    <3>1. Took(w, v) = {}
      BY <1>2 DEF StockInv, AllTook, TookCounts
    <3> QED BY <2>1, <2>2, <3>1 DEF Took
  <2>5. Cardinality(S) = Quantity[tx[w].order][v]
    <3>1. tx[w].order \in Orders
      BY <1>2 DEF StockInv, Custody, TxOrders
    <3>2. Cardinality(S) \in Nat /\ Quantity[tx[w].order][v] \in Nat
      BY <2>1, <3>1, KeysCounted, ShopTyped
    <3> QED BY <1>3, <1>5, <3>2 DEF LocksAvailable
  <2>6. ASSUME NEW u \in Variants PROVE TookCounts(w, u)'
    <3>1. TookCounts(w, u)
      BY DEF StockInv, AllTook
    <3>2. CASE u = v
      BY <1>2, <2>2, <2>4, <2>5, <3>2 DEF TookCounts
    <3>3. CASE u # v
      BY <1>2, <2>2, <2>3, <3>1, <3>3 DEF TookCounts
    <3> QED BY <3>2, <3>3
  <2> QED BY <1>1, <1>2, <2>6, PrivateStep
<1> QED BY <1>3, <1>4, <1>5

\* A delivery takes all the order's own keys, and no more than are needed:
\* an item never has more keys set aside than it needs.
LEMMA DeliverStock ==
  ASSUME StockInv, NEW w \in Workers, NEW v \in Variants, DeliverItem(w, v)
  PROVE  StockInv'
<1>1. Custody' /\ TypeOK
  BY StepCustody DEF StockInv, Custody, Step
<1>2. /\ UNCHANGED <<orderVars, keyVars>> /\ \A x \in Workers \ {w} : tx'[x] = tx[x]
      /\ tx[w].kind = "deliver" /\ v \in tx[w].todo
  BY <1>1 DEF DeliverItem, NextItem, TypeOK
<1>3. PICK o \in Orders : tx[w].order = o /\ orderStatus[o] = "PAID"
  BY <1>2 DEF StockInv, Custody, TxOrders
<1> DEFINE own == Reserved(o, v)
<1>4. PICK R \in SUBSET own, S \in SUBSET Free(v) :
        /\ Cardinality(R) <= Needed(o, v)
        /\ Cardinality(R) < Needed(o, v) => R = own
        /\ LocksAvailable(S, v, Needed(o, v) - Cardinality(R))
        /\ tx' = [tx EXCEPT ![w].todo = @ \ {v}, ![w].took = @ \cup R \cup S]
  BY <1>3 DEF DeliverItem, Reserved
<1>5. own \in SUBSET Keys /\ R \in SUBSET Keys /\ S \in SUBSET Keys
  BY DEF Reserved, KeysOf, Free
<1>6. /\ Cardinality(own) \in Nat /\ Cardinality(R) \in Nat /\ Cardinality(S) \in Nat
      /\ Needed(o, v) \in Nat
  BY <1>5, KeysCounted, NeededValue
<1>7. Cardinality(own) <= Needed(o, v)
  <2>1. Cardinality(own) + Cardinality(Sold(o, v)) <= Quantity[o][v]
    BY <1>3 DEF StockInv, AllItems, ItemCounts
  <2>2. Cardinality(Sold(o, v)) \in Nat
    BY KeysCounted DEF Sold, KeysOf
  <2>3. Quantity[o][v] \in Nat
    BY NeededValue
  <2>4. Cardinality(Sold(o, v)) <= Quantity[o][v]
    BY <1>6, <2>1, <2>2, <2>3
  <2>5. Needed(o, v) = Quantity[o][v] - Cardinality(Sold(o, v))
    BY <2>4, NeededValue
  <2> QED BY <1>6, <2>1, <2>2, <2>3, <2>5
<1>8. R = own
  <2>1. Cardinality(R) <= Cardinality(own) /\ (Cardinality(R) = Cardinality(own) => R = own)
    BY <1>5, SubsetCounted
  <2> QED BY <1>4, <1>6, <1>7, <2>1
<1>9. Cardinality(R \cup S) <= Needed(o, v)
  <2>1. R \cap S = {}
    BY DEF Reserved, KeysOf, Free
  <2>2. Cardinality(R \cup S) = Cardinality(R) + Cardinality(S)
    BY <1>5, <2>1, UnionCounted
  <2> QED BY <1>4, <1>6, <2>2 DEF LocksAvailable
<1>10. \A k \in R \cup S : KeyVariant[k] = v
  BY DEF Reserved, KeysOf, Free
<1>11. /\ tx'[w].kind = tx[w].kind /\ tx'[w].order = o
       /\ tx'[w].todo = tx[w].todo \ {v} /\ tx'[w].took = tx[w].took \cup (R \cup S)
  <2> DEFINE K == R \cup S
  <2>1. K \in SUBSET Keys
    BY <1>5
  <2>2. tx' = [tx EXCEPT ![w].todo = @ \ {v}, ![w].took = @ \cup K]
    <3>1. \A T : (T \cup R) \cup S = T \cup K
      OBVIOUS
    <3> QED BY <1>4, <3>1
  <2> HIDE DEF K
  <2>3. /\ tx'[w].kind = tx[w].kind /\ tx'[w].order = tx[w].order
        /\ tx'[w].todo = tx[w].todo \ {v} /\ tx'[w].took = tx[w].took \cup K
    BY <1>1, <2>1, <2>2, TakeFields
  <2> QED BY <1>3, <2>3 DEF K
<1>12. Took(w, v)' = R \cup S /\ \A u \in Variants \ {v} : Took(w, u)' = Took(w, u)
  <2>1. Took(w, v) = {}
    BY <1>2 DEF StockInv, AllTook, TookCounts
  <2> QED BY <1>10, <1>11, <2>1 DEF Took
<1>13. \A u : /\ Reserved(o, u)' = Reserved(o, u)
              /\ Needed(o, u)' = Needed(o, u)
  <2>1. Untouched(o)
    BY <1>2 DEF Untouched, keyVars
  <2> QED BY <2>1, UntouchedItem
<1> HIDE DEF own
<1>14. ASSUME NEW u \in Variants PROVE TookCounts(w, u)'
  <2>1. TookCounts(w, u)
    BY DEF StockInv, AllTook
  <2>3. CASE u = v
    BY <1>2, <1>8, <1>9, <1>11, <1>12, <1>13, <2>3 DEF TookCounts, own
  <2>4. CASE u # v
    BY <1>2, <1>11, <1>12, <1>13, <1>3, <2>1, <2>4 DEF TookCounts
  <2> QED BY <2>3, <2>4
<1> QED BY <1>1, <1>2, <1>14, PrivateStep

\* A commit of w that writes only rows w has locked, for an order no other
\* transaction delivers, keeps what is counted for everybody else.
LEMMA CommitStep ==
  ASSUME StockInv, Custody', NEW w \in Workers, NEW p,
         tx' = [tx EXCEPT ![w] = Idle],
         \A o \in Orders : o # p => Untouched(o) /\ orderStatus'[o] = orderStatus[o],
         \A x \in Workers \ {w} : tx[x].kind = "deliver" => tx[x].order # p,
         KeyOwner',
         p \in Orders => \A v \in Variants : ItemCounts(p, v)'
  PROVE  StockInv'
<1>1. tx'[w] = Idle /\ \A x \in Workers \ {w} : tx'[x] = tx[x]
  BY DEF StockInv, Custody, TypeOK
<1>2. AllItems'
  BY UntouchedCounts DEF StockInv, AllItems
<1>3. ASSUME NEW x \in Workers, NEW v \in Variants PROVE TookCounts(x, v)'
  <2>1. CASE x = w
    BY <1>1, <2>1, IdleTook
  <2>2. CASE x # w
    <3>1. tx[x].kind = "deliver" => Untouched(tx[x].order)
      BY <2>2 DEF StockInv, Custody, TxOrders
    <3> QED BY <1>1, <2>2, <3>1, UntouchedTook DEF StockInv, AllTook
  <2> QED BY <2>1, <2>2
<1> QED BY <1>2, <1>3 DEF StockInv, AllTook

LEMMA CommitCreateStock ==
  ASSUME StockInv, NEW w \in Workers, CommitCreate(w)
  PROVE  StockInv'
<1>1. Custody' /\ TypeOK
  BY StepCustody DEF StockInv, Custody, Step
<1>2. PICK p \in Orders : tx[w].order = p /\ orderStatus[p] = "NONE"
  BY DEF StockInv, Custody, TxOrders, CommitCreate
<1>3. \A k \in tx[w].took : k \in Keys /\ keyStatus[k] = "AVAILABLE" /\ keyOrder[k] = NoOrder
  BY <1>1 DEF StockInv, Custody, TookLocked, KeyOwner, CommitCreate, TypeOK, Tx
<1>4. \A k \in Keys : IF k \in tx[w].took
                       THEN keyStatus'[k] = "RESERVED" /\ keyOrder'[k] = p
                       ELSE keyStatus'[k] = keyStatus[k] /\ keyOrder'[k] = keyOrder[k]
  BY <1>2 DEF CommitCreate
<1>5. \A o \in Orders : o # p => Untouched(o) /\ orderStatus'[o] = orderStatus[o]
  BY <1>1, <1>2, <1>3, <1>4 DEF Untouched, CommitCreate, TypeOK
<1>6. \A x \in Workers \ {w} : tx[x].kind = "deliver" => tx[x].order # p
  BY <1>2 DEF StockInv, Custody, TxOrders
<1>7. KeyOwner'
  BY <1>4 DEF KeyOwner, StockInv
<1>8. ASSUME NEW v \in Variants PROVE ItemCounts(p, v)'
  <2>1. Reserved(p, v) = {} /\ Sold(p, v) = {}
    BY <1>2 DEF StockInv, AllItems, ItemCounts
  <2>2. Reserved(p, v)' = Took(w, v) /\ Sold(p, v)' = {}
    BY <1>3, <1>4, <2>1 DEF Reserved, Sold, KeysOf, Took
  <2>3. Cardinality(Took(w, v)) = Quantity[p][v]
    BY <1>2 DEF StockInv, AllTook, TookCounts, CommitCreate
  <2>4. orderStatus'[p] \in {"PENDING", "PAID"}
    BY <1>1, <1>2 DEF CommitCreate, TypeOK
  <2>5. Cardinality({}) = 0 /\ Quantity[p][v] \in Nat
    BY FS_EmptySet, NeededValue
  <2> QED BY <2>2, <2>3, <2>4, <2>5 DEF ItemCounts
<1>9. tx' = [tx EXCEPT ![w] = Idle]
  BY DEF CommitCreate
<1> QED BY <1>1, <1>5, <1>6, <1>7, <1>8, <1>9, CommitStep

LEMMA CommitDeliverStock ==
  ASSUME StockInv, NEW w \in Workers, CommitDeliver(w)
  PROVE  StockInv'
<1>1. Custody' /\ TypeOK
  BY StepCustody DEF StockInv, Custody, Step
<1>2. PICK p \in Orders : tx[w].order = p /\ orderStatus[p] = "PAID"
  BY DEF StockInv, Custody, TxOrders, CommitDeliver
<1>3. \A k \in tx[w].took :
        /\ k \in Keys
        /\ \/ keyStatus[k] = "AVAILABLE" /\ keyOrder[k] = NoOrder
           \/ keyStatus[k] = "RESERVED" /\ keyOrder[k] = p
  BY <1>1, <1>2 DEF StockInv, Custody, TookLocked, KeyOwner, TypeOK, Tx
<1>4. \A k \in Keys : IF k \in tx[w].took
                       THEN keyStatus'[k] = "SOLD" /\ keyOrder'[k] = p
                       ELSE keyStatus'[k] = keyStatus[k] /\ keyOrder'[k] = keyOrder[k]
  BY <1>2 DEF CommitDeliver
<1>5. \A o \in Orders : o # p => Untouched(o) /\ orderStatus'[o] = orderStatus[o]
  BY <1>1, <1>2, <1>3, <1>4, OrdersFinite DEF Untouched, CommitDeliver, TypeOK
<1>6. \A x \in Workers \ {w} : tx[x].kind = "deliver" => tx[x].order # p
  BY <1>2 DEF StockInv, Custody, TxExclusive, CommitDeliver
<1>7. KeyOwner'
  BY <1>4 DEF KeyOwner, StockInv
<1>8. orderStatus'[p] = IF FullyDelivered(w) THEN "DELIVERED" ELSE "PAID"
  BY <1>1, <1>2 DEF CommitDeliver, TypeOK
<1>9. ASSUME NEW v \in Variants PROVE ItemCounts(p, v)'
  <2>1. Cardinality(Reserved(p, v)) + Cardinality(Sold(p, v)) <= Quantity[p][v]
    BY <1>2 DEF StockInv, AllItems, ItemCounts
  <2>2. Reserved(p, v) \subseteq Took(w, v) /\ Cardinality(Took(w, v)) <= Needed(p, v)
    BY <1>2 DEF StockInv, AllTook, TookCounts, CommitDeliver
  <2>3. Reserved(p, v)' = {} /\ Sold(p, v)' = Sold(p, v) \cup Took(w, v)
    BY <1>3, <1>4, <2>2 DEF Reserved, Sold, KeysOf, Took
  <2>4. /\ Reserved(p, v) \in SUBSET Keys /\ Sold(p, v) \in SUBSET Keys
        /\ Took(w, v) \in SUBSET Keys /\ Sold(p, v) \cap Took(w, v) = {}
    BY <1>3 DEF Reserved, Sold, KeysOf, Took
  <2>5. /\ Cardinality(Reserved(p, v)) \in Nat /\ Cardinality(Sold(p, v)) \in Nat
        /\ Cardinality(Took(w, v)) \in Nat /\ Quantity[p][v] \in Nat
    BY <2>4, KeysCounted, NeededValue
  <2>6. Needed(p, v) = Quantity[p][v] - Cardinality(Sold(p, v))
    <3>1. Cardinality(Sold(p, v)) <= Quantity[p][v]
      BY <2>1, <2>5
    <3> QED BY <3>1, NeededValue
  <2>7. Cardinality(Sold(p, v)') = Cardinality(Sold(p, v)) + Cardinality(Took(w, v))
    BY <2>3, <2>4, UnionCounted
  <2>8. Cardinality(Sold(p, v)') <= Quantity[p][v]
    BY <2>2, <2>5, <2>6, <2>7
  <2>9. FullyDelivered(w) => Cardinality(Sold(p, v)') = Quantity[p][v]
    <3>1. CASE v \in ItemsOf(p)
      <4>1. FullyDelivered(w) => Needed(p, v) <= Cardinality(Took(w, v))
        BY <1>2, <3>1 DEF FullyDelivered, Took
      <4> QED BY <2>5, <2>6, <2>7, <2>8, <4>1
    <3>2. CASE v \notin ItemsOf(p)
      BY <2>5, <2>7, <2>8, <3>2 DEF ItemsOf
    <3> QED BY <3>1, <3>2
  <2>10. Cardinality({}) = 0
    BY FS_EmptySet
  <2>11. Cardinality(Reserved(p, v)') + Cardinality(Sold(p, v)') <= Quantity[p][v]
    BY <2>3, <2>5, <2>7, <2>8, <2>10
  <2> QED BY <1>8, <2>3, <2>9, <2>11 DEF ItemCounts
<1>10. tx' = [tx EXCEPT ![w] = Idle]
  BY DEF CommitDeliver
<1> QED BY <1>1, <1>5, <1>6, <1>7, <1>9, <1>10, CommitStep

LEMMA StepStock ==
  ASSUME StockInv, NEW w \in Workers, Step(w) \/ Abort(w)
  PROVE  StockInv'
<1>1. Custody' /\ TypeOK
  BY StepCustody DEF StockInv, Custody
<1>2. CASE CommitWithdraw(w)
  <2>1. \A k \in tx[w].took : k \in Keys /\ keyStatus[k] = "AVAILABLE" /\ keyOrder[k] = NoOrder
    BY <1>1, <1>2 DEF StockInv, Custody, TookLocked, KeyOwner, CommitWithdraw, TypeOK, Tx
  <2>2. \A k \in Keys : keyStatus'[k] = IF k \in tx[w].took THEN "WITHDRAWN" ELSE keyStatus[k]
    BY <1>2 DEF CommitWithdraw
  <2>3. keyOrder' = keyOrder /\ orderStatus' = orderStatus /\ tx' = [tx EXCEPT ![w] = Idle]
    BY <1>2 DEF CommitWithdraw, orderVars
  <2>4. \A o \in Orders : Untouched(o)
    BY <2>1, <2>2, <2>3 DEF Untouched
  <2>5. KeyOwner'
    BY <2>1, <2>2, <2>3 DEF KeyOwner, StockInv
  <2>6. \A x \in Workers : tx[x].kind = "deliver" => tx[x].order # NoOrder
    BY OrdersFinite DEF StockInv, Custody, TxOrders
  <2> QED BY <1>1, <2>3, <2>4, <2>5, <2>6, OrdersFinite, CommitStep
<1>3. CASE Abort(w)
  <2>1. tx'[w] = Idle /\ \A x \in Workers \ {w} : tx'[x] = tx[x]
    BY <1>1, <1>3 DEF Abort, TypeOK
  <2> QED BY <1>1, <1>3, <2>1, IdleTook, PrivateStep DEF Abort
<1> QED BY <1>2, <1>3, ReserveStock, DeliverStock, CommitCreateStock, CommitDeliverStock DEF Step

\* A step outside the transactions that does not touch orders being
\* delivered keeps what transactions in progress count.
LEMMA OutsideStep ==
  ASSUME StockInv, Custody', UNCHANGED tx, KeyOwner', AllItems',
         \A o \in Orders : orderStatus[o] = "PAID" => Untouched(o)
  PROVE  StockInv'
<1>1. \A x \in Workers : tx'[x] = tx[x]
  OBVIOUS
<1>2. \A x \in Workers : tx[x].kind = "deliver" => Untouched(tx[x].order)
  BY DEF StockInv, Custody, TxOrders
<1>3. AllTook'
  BY <1>1, <1>2, UntouchedTook DEF StockInv, AllTook
<1> QED BY <1>3 DEF StockInv

\* Closing gives back all keys of the orders it closes and no others.
LEMMA CloseStock ==
  ASSUME StockInv, TypeOK', NEW D \in SUBSET Orders, NEW st \in {"EXPIRED", "CANCELLED"},
         ClosePendingOrders(D, st), UNCHANGED tx
  PROVE  StockInv'
<1> DEFINE C == Closable(D)
<1>1. Custody' /\ TypeOK
  BY CloseCustody DEF StockInv, Custody
<1>2. C \subseteq Orders /\ \A o \in C : orderStatus[o] = "PENDING"
  BY DEF Closable
<1>3. \A k \in Keys :
        IF keyStatus[k] = "RESERVED" /\ keyOrder[k] \in C
        THEN keyStatus'[k] = "AVAILABLE" /\ keyOrder'[k] = NoOrder
        ELSE keyStatus'[k] = keyStatus[k] /\ keyOrder'[k] = keyOrder[k]
  BY DEF ClosePendingOrders, ReleaseReservedStock
<1>4. KeyOwner'
  BY <1>3 DEF StockInv, KeyOwner
<1>5. \A o \in Orders \ C : Untouched(o)
  BY <1>3, OrdersFinite DEF Untouched
<1>6. \A o \in Orders :
        \/ o \in C /\ orderStatus'[o] = st
        \/ o \notin C /\ orderStatus'[o] = orderStatus[o]
        \/ o \notin C /\ orderStatus[o] = "PENDING" /\ orderStatus'[o] = "PAID"
  BY DEF ClosePendingOrders
<1> HIDE DEF C
<1>7. ASSUME NEW o \in Orders, NEW v \in Variants PROVE ItemCounts(o, v)'
  <2>1. ItemCounts(o, v)
    BY DEF StockInv, AllItems
  <2>2. CASE o \in C /\ orderStatus'[o] = st
    <3>1. Sold(o, v) = {}
      BY <1>2, <2>1, <2>2 DEF ItemCounts
    <3>2. Reserved(o, v)' = {} /\ Sold(o, v)' = {}
      BY <1>3, <2>2, <3>1, OrdersFinite DEF Reserved, Sold, KeysOf
    <3> QED BY <2>2, <3>2 DEF ItemCounts
  <2>3. CASE o \notin C /\ orderStatus'[o] = orderStatus[o]
    BY <1>5, <2>1, <2>3, UntouchedCounts
  <2>4. CASE o \notin C /\ orderStatus[o] = "PENDING" /\ orderStatus'[o] = "PAID"
    <3>1. Reserved(o, v)' = Reserved(o, v) /\ Sold(o, v)' = Sold(o, v)
      BY <1>5, <2>4, UntouchedItem
    <3>2. Cardinality({}) = 0 /\ Quantity[o][v] \in Nat
      BY FS_EmptySet, NeededValue
    <3> QED BY <2>1, <2>4, <3>1, <3>2 DEF ItemCounts
  <2> QED BY <1>6, <2>2, <2>3, <2>4
<1>8. \A o \in Orders : orderStatus[o] = "PAID" => Untouched(o)
  BY <1>2, <1>5
<1>9. AllItems'
  BY <1>7 DEF AllItems
<1> QED BY <1>1, <1>4, <1>8, <1>9, OutsideStep

LEMMA SettleStock ==
  ASSUME StockInv, Settle
  PROVE  StockInv'
<1>1. Custody' /\ TypeOK /\ TypeOK'
  BY SettleCustody DEF StockInv, Custody
<1>2. CASE \E o \in Orders : DeadlinePasses(o)
  <2>1. UNCHANGED <<orderStatus, keyStatus, keyOrder, tx>>
    BY <1>2 DEF DeadlinePasses, keyVars
  <2>2. \A o : Untouched(o)
    BY <2>1 DEF Untouched
  <2>3. KeyOwner' /\ AllItems'
    BY <2>1, <2>2, UntouchedCounts DEF StockInv, KeyOwner, AllItems
  <2> QED BY <1>1, <2>1, <2>2, <2>3, OutsideStep
<1>3. CASE ReleaseExpiredOrders
  <2>1. {o \in due : orderStatus[o] = "PENDING"} \in SUBSET Orders
    BY <1>1 DEF TypeOK
  <2> QED BY <1>1, <1>3, <2>1, CloseStock DEF ReleaseExpiredOrders
<1>4. ASSUME NEW o \in Orders, NEW st \in {"EXPIRED", "CANCELLED"}, CloseOrder(o, st)
      PROVE  StockInv'
  BY <1>1, <1>4, CloseStock DEF CloseOrder
<1>5. ASSUME NEW p \in Orders, NEW over \in Overuse, MarkOrderPaid(p, over)
      PROVE  StockInv'
  <2>1. /\ orderStatus[p] \in {"PENDING", "EXPIRED"} /\ orderStatus'[p] = "PAID"
        /\ \A o \in Orders \ {p} : orderStatus'[o] = orderStatus[o]
        /\ UNCHANGED <<keyStatus, keyOrder, tx>>
    BY <1>1, <1>5 DEF MarkOrderPaid, TypeOK, keyVars
  <2>2. \A o : Untouched(o)
    BY <2>1 DEF Untouched
  <2>3. ASSUME NEW o \in Orders, NEW v \in Variants PROVE ItemCounts(o, v)'
    <3>1. ItemCounts(o, v)
      BY DEF StockInv, AllItems
    <3>2. CASE o # p
      BY <2>1, <2>2, <3>1, <3>2, UntouchedCounts
    <3>3. CASE o = p
      <4>1. Reserved(o, v)' = Reserved(o, v) /\ Sold(o, v)' = Sold(o, v)
        BY <2>2, UntouchedItem
      <4>2. Cardinality({}) = 0 /\ Quantity[o][v] \in Nat
        BY FS_EmptySet, NeededValue
      <4> QED BY <2>1, <3>1, <3>3, <4>1, <4>2 DEF ItemCounts
    <3> QED BY <3>2, <3>3
  <2>4. KeyOwner' /\ AllItems'
    BY <2>1, <2>3 DEF StockInv, KeyOwner, AllItems
  <2> QED BY <1>1, <2>1, <2>2, <2>4, OutsideStep
<1> QED BY <1>2, <1>3, <1>4, <1>5 DEF Settle

LEMMA AdministerStock ==
  ASSUME StockInv, Administer
  PROVE  StockInv'
<1>1. Custody' /\ TypeOK
  BY AdministerCustody DEF StockInv, Custody
<1>2. UNCHANGED <<orderStatus, keyOrder, tx>>
  BY DEF Administer, AddStock, RestoreStock, DeleteStockItem, UpdateCoupon, RemoveCoupon,
         orderVars, keyVars
<1>3. \A k \in Keys :
        \/ keyStatus'[k] = keyStatus[k]
        \/ /\ keyStatus[k] \in {"ABSENT", "AVAILABLE", "WITHDRAWN"}
           /\ keyStatus'[k] \in {"ABSENT", "AVAILABLE", "WITHDRAWN"}
  <2>1. CASE \E v \in Variants, K \in SUBSET Keys : AddStock(v, K)
    BY <2>1 DEF AddStock
  <2>2. CASE \E k \in Keys : RestoreStock(k) \/ DeleteStockItem(k)
    BY <1>1, <2>2 DEF RestoreStock, DeleteStockItem, TypeOK
  <2>3. CASE \E c \in Coupons : (\E limit \in Limits : UpdateCoupon(c, limit)) \/ RemoveCoupon(c)
    BY <2>3 DEF UpdateCoupon, RemoveCoupon, keyVars
  <2> QED BY <2>1, <2>2, <2>3 DEF Administer
<1>4. KeyOwner'
  BY <1>2, <1>3 DEF StockInv, KeyOwner
<1>5. \A o : Untouched(o)
  BY <1>2, <1>3 DEF Untouched
<1>6. AllItems'
  BY <1>2, <1>5, UntouchedCounts DEF StockInv, AllItems
<1> QED BY <1>1, <1>2, <1>4, <1>5, <1>6, OutsideStep

LEMMA NextStock == StockInv /\ [Next]_vars => StockInv'
<1> SUFFICES ASSUME StockInv, [Next]_vars PROVE StockInv'
  OBVIOUS
<1>1. CASE UNCHANGED vars
  <2>1. Custody'
    BY <1>1, NextCustody DEF StockInv
  <2>2. \A o : Untouched(o)
    BY <1>1 DEF Untouched, vars
  <2>3. KeyOwner' /\ AllItems' /\ UNCHANGED tx
    BY <1>1, <2>2, UntouchedCounts DEF StockInv, KeyOwner, AllItems, vars
  <2> QED BY <2>1, <2>2, <2>3, OutsideStep
<1>2. CASE Next
  BY <1>2, BeginStock, StepStock, SettleStock, AdministerStock DEF Next
<1> QED BY <1>1, <1>2

LEMMA StockInvariant == Spec => []StockInv
BY InitStock, NextStock, PTL DEF Spec

-----------------------------------------------------------------------------
(* The theorems.                                                           *)

LEMMA PendingHeld == StockInv => PendingHoldsStock
BY DEF StockInv, AllItems, ItemCounts, Reserved, PendingHoldsStock

LEMMA LiveHeld == StockInv => HeldByLiveOrder
<1>1. ASSUME StockInv, NEW k \in Keys, keyStatus[k] \in {"RESERVED", "SOLD"}
      PROVE  /\ keyOrder[k] \in Orders
             /\ keyStatus[k] = "RESERVED" => orderStatus[keyOrder[k]] \in {"PENDING", "PAID"}
             /\ keyStatus[k] = "SOLD" => orderStatus[keyOrder[k]] \in {"PAID", "DELIVERED"}
  <2>1. PICK o \in Orders : keyOrder[k] = o
    BY <1>1 DEF StockInv, KeyOwner
  <2>2. PICK v \in Variants : KeyVariant[k] = v
    BY ShopTyped
  <2>3. /\ keyStatus[k] = "RESERVED" => Reserved(o, v) # {}
        /\ keyStatus[k] = "SOLD" => Sold(o, v) # {}
    BY <2>1, <2>2 DEF Reserved, Sold, KeysOf
  <2>4. ItemCounts(o, v) /\ orderStatus[o] \in OrderStatuses
    BY <1>1 DEF StockInv, AllItems, Custody, TypeOK
  <2> QED BY <2>1, <2>3, <2>4 DEF ItemCounts, OrderStatuses
<1> QED BY <1>1 DEF HeldByLiveOrder, StockInv, KeyOwner

LEMMA ExactCounts == StockInv => DeliveredExactly
<1>1. ASSUME StockInv, NEW o \in Orders, NEW v \in Variants
      PROVE  /\ Cardinality(Reserved(o, v)) + Cardinality(Sold(o, v)) <= Quantity[o][v]
             /\ orderStatus[o] = "DELIVERED" => Cardinality(Sold(o, v)) = Quantity[o][v]
  <2>1. ItemCounts(o, v) /\ orderStatus[o] \in OrderStatuses
    BY <1>1 DEF StockInv, AllItems, Custody, TypeOK
  <2>2. Cardinality({}) = 0 /\ Quantity[o][v] \in Nat
    BY FS_EmptySet, NeededValue
  <2> QED BY <2>1, <2>2 DEF ItemCounts, OrderStatuses
<1> QED BY <1>1 DEF DeliveredExactly, Reserved, Sold

\* A pending order has all its keys set aside, whatever races its purchase.
THEOREM PendingOrdersHoldStock == Spec => []PendingHoldsStock
BY PendingHeld, StockInvariant, PTL

\* Keys are set aside and handed over only for orders that are alive.
THEOREM NoKeyStranded == Spec => []HeldByLiveOrder
BY LiveHeld, StockInvariant, PTL

\* No item gets more keys than were bought; a delivered one has them all.
THEOREM DeliveryExact == Spec => []DeliveredExactly
BY ExactCounts, StockInvariant, PTL

-----------------------------------------------------------------------------
(* Fulfillment implements KeySale: the initial states map to its initial   *)
(* state, a delivery's commit maps to HandOver, every other step to a Move *)
(* of the orders whose status it changes (of none, when it changes no      *)
(* status).                                                                *)

\* What Fulfillment maps KeySale's sold to.
SoldTo(o) == {k \in Keys : keyStatus[k] = "SOLD" /\ keyOrder[k] = o}
SoldKeys == [o \in Orders |-> SoldTo(o)]

SaleStep == [Sale!Next]_<<orderStatus, SoldKeys>>

\* The status of each order stays or follows an edge of the life cycle.
FollowsEdges ==
  \A o \in Orders : \/ orderStatus'[o] = orderStatus[o]
                    \/ <<orderStatus[o], orderStatus'[o]>> \in Sale!Edges

\* A step that hands over no key and follows the life cycle is a Move.
LEMMA MoveStep ==
  ASSUME Custody, TypeOK', Next, FollowsEdges,
         \A k \in Keys : keyStatus'[k] = "SOLD" => keyStatus[k] = "SOLD"
  PROVE  SaleStep
<1>1. \A o \in Orders : SoldTo(o)' = SoldTo(o)
  BY SoldStays DEF SoldTo
<1>2. SoldKeys' = SoldKeys
  BY <1>1 DEF SoldKeys
<1> DEFINE D == {o \in Orders : orderStatus'[o] # orderStatus[o]}
<1>3. \A o \in Orders : /\ o \in D => <<orderStatus[o], orderStatus'[o]>> \in Sale!Edges
                        /\ o \notin D => orderStatus'[o] = orderStatus[o]
  BY DEF FollowsEdges
<1>4. orderStatus' = [o \in Orders |-> orderStatus'[o]]
  BY DEF TypeOK
<1>5. Sale!Move(D)
  BY <1>2, <1>3, <1>4 DEF Sale!Move, SoldKeys, SoldTo
<1>6. D \in SUBSET Orders
  OBVIOUS
<1> QED BY <1>5, <1>6 DEF SaleStep, Sale!Next

-----------------------------------------------------------------------------
(* The commit of a delivery.                                               *)

\* KeySale counts keys as Fulfillment does.
LEMMA SaleCounts == \A S : Sale!Cardinality(S) = Cardinality(S)
BY DEF Sale!Cardinality, Cardinality

\* The order is complete with the keys it is given just when the code says
\* so: FullyDelivered looks only at the items and at what is still needed,
\* Complete at all keys of all variants.
LEMMA CompleteWhenFull ==
  ASSUME StockInv, NEW w \in Workers, CommitDeliver(w), NEW p \in Orders, tx[w].order = p
  PROVE  /\ \A v \in Variants :
              /\ Sale!OfVariant(SoldTo(p) \cup tx[w].took, v) = Sold(p, v) \cup Took(w, v)
              /\ Cardinality(Sold(p, v) \cup Took(w, v)) <= Quantity[p][v]
         /\ Sale!Complete(p, SoldTo(p) \cup tx[w].took) <=> FullyDelivered(w)
<1>1. /\ tx[w].kind = "deliver" /\ tx[w].todo = {} /\ orderStatus[p] = "PAID"
      /\ tx[w].took \subseteq Keys
  BY DEF StockInv, Custody, TxOrders, TypeOK, Tx, CommitDeliver
<1>2. ASSUME NEW v \in Variants
      PROVE  /\ Sale!OfVariant(SoldTo(p) \cup tx[w].took, v) = Sold(p, v) \cup Took(w, v)
             /\ Cardinality(Sold(p, v) \cup Took(w, v)) <= Quantity[p][v]
             /\ Cardinality(Sold(p, v) \cup Took(w, v)) = Quantity[p][v]
                  <=> Needed(p, v) <= Cardinality(Took(w, v))
             /\ v \notin ItemsOf(p) =>
                  Cardinality(Sold(p, v) \cup Took(w, v)) = Quantity[p][v]
  <2>1. Sale!OfVariant(SoldTo(p) \cup tx[w].took, v) = Sold(p, v) \cup Took(w, v)
    BY <1>1 DEF Sale!OfVariant, SoldTo, Sold, KeysOf, Took
  <2>2. /\ Sold(p, v) \in SUBSET Keys /\ Took(w, v) \in SUBSET Keys
        /\ Sold(p, v) \cap Took(w, v) = {}
    BY <1>1 DEF Sold, KeysOf, Took, StockInv, Custody, TookLocked
  <2>3. /\ Cardinality(Sold(p, v)) \in Nat /\ Cardinality(Took(w, v)) \in Nat
        /\ Cardinality(Reserved(p, v)) \in Nat /\ Quantity[p][v] \in Nat
    BY <2>2, KeysCounted, NeededValue DEF Reserved, KeysOf
  <2>4. Cardinality(Sold(p, v) \cup Took(w, v))
          = Cardinality(Sold(p, v)) + Cardinality(Took(w, v))
    BY <2>2, UnionCounted
  <2>5. Cardinality(Reserved(p, v)) + Cardinality(Sold(p, v)) <= Quantity[p][v]
    BY <1>1 DEF StockInv, AllItems, ItemCounts
  <2>6. Needed(p, v) = Quantity[p][v] - Cardinality(Sold(p, v))
    <3>1. Cardinality(Sold(p, v)) <= Quantity[p][v]
      BY <2>3, <2>5
    <3> QED BY <3>1, NeededValue
  <2>7. Cardinality(Took(w, v)) <= Needed(p, v)
    BY <1>1 DEF StockInv, AllTook, TookCounts
  <2>8. v \notin ItemsOf(p) => Quantity[p][v] = 0
    BY <2>3 DEF ItemsOf
  <2>9. Cardinality(Sold(p, v) \cup Took(w, v)) <= Quantity[p][v]
    BY <2>3, <2>4, <2>6, <2>7
  <2>10. Cardinality(Sold(p, v) \cup Took(w, v)) = Quantity[p][v]
           <=> Needed(p, v) <= Cardinality(Took(w, v))
    BY <2>3, <2>4, <2>6, <2>7
  <2>11. v \notin ItemsOf(p) => Cardinality(Sold(p, v) \cup Took(w, v)) = Quantity[p][v]
    BY <2>3, <2>4, <2>8, <2>9
  <2> QED BY <2>1, <2>9, <2>10, <2>11
<1>3. FullyDelivered(w) <=> \A v \in ItemsOf(p) : Needed(p, v) <= Cardinality(Took(w, v))
  BY DEF FullyDelivered, Took
<1>4. ItemsOf(p) \subseteq Variants
  BY DEF ItemsOf
<1>5. Sale!Complete(p, SoldTo(p) \cup tx[w].took)
        <=> \A v \in Variants : Cardinality(Sold(p, v) \cup Took(w, v)) = Quantity[p][v]
  BY <1>2, SaleCounts DEF Sale!Complete
<1> QED BY <1>2, <1>3, <1>4, <1>5

LEMMA DeliverHandsOver ==
  ASSUME StockInv, NEW w \in Workers, CommitDeliver(w)
  PROVE  SaleStep
<1>1. TypeOK
  BY DEF StockInv, Custody
<1>2. PICK p \in Orders : tx[w].order = p /\ orderStatus[p] = "PAID"
  BY DEF StockInv, Custody, TxOrders, CommitDeliver
<1>3. PICK K \in SUBSET Keys : tx[w].took = K
  BY <1>1 DEF TypeOK, Tx
<1>4. \A k \in K : keyStatus[k] # "SOLD"
  BY <1>3 DEF StockInv, Custody, TookLocked
<1>5. \A q \in Orders : K \cap SoldTo(q) = {}
  BY <1>4 DEF SoldTo
<1>6. \A v \in Variants : Cardinality(Sale!OfVariant(SoldTo(p) \cup K, v)) <= Quantity[p][v]
  BY <1>2, <1>3, CompleteWhenFull
<1>7. \A q \in Orders : SoldTo(q)' = IF q = p THEN SoldTo(q) \cup K ELSE SoldTo(q)
  BY <1>2, <1>3, <1>4 DEF CommitDeliver, SoldTo
<1>8. SoldKeys' = [SoldKeys EXCEPT ![p] = @ \cup K]
  BY <1>7 DEF SoldKeys
<1>9. orderStatus' = [orderStatus EXCEPT ![p] =
                        IF Sale!Complete(p, SoldTo(p) \cup K) THEN "DELIVERED" ELSE @]
  BY <1>2, <1>3, CompleteWhenFull DEF CommitDeliver
<1>10. \A q \in Orders : SoldKeys[q] = SoldTo(q)
  BY DEF SoldKeys
<1>11. Sale!HandOver(p, K)
  BY <1>2, <1>5, <1>6, <1>8, <1>9, <1>10, SaleCounts DEF Sale!HandOver, SoldKeys, SoldTo
<1> QED BY <1>11 DEF SaleStep, Sale!Next

-----------------------------------------------------------------------------
LEMMA SaleInit == Init => Sale!Init
<1> SUFFICES ASSUME Init PROVE Sale!Init
  OBVIOUS
<1>1. \A o \in Orders : {k \in Keys : keyStatus[k] = "SOLD" /\ keyOrder[k] = o} = {}
  BY DEF Init
<1> QED BY <1>1 DEF Init, Sale!Init

LEMMA SaleNext ==
  ASSUME StockInv, TypeOK', Next
  PROVE  SaleStep
<1>1. Custody /\ TypeOK
  BY DEF StockInv, Custody
<1>2. ASSUME NEW w \in Workers, Begin(w) \/ Step(w) \/ Abort(w) PROVE SaleStep
  <2>1. CASE CommitCreate(w)
    <3>1. PICK p \in Orders : tx[w].order = p /\ orderStatus[p] = "NONE"
      BY <1>1, <2>1 DEF Custody, TxOrders, CommitCreate
    <3>2. FollowsEdges
      BY <1>1, <2>1, <3>1 DEF CommitCreate, TypeOK, FollowsEdges, Sale!Edges
    <3>3. \A k \in Keys : keyStatus'[k] = "SOLD" => keyStatus[k] = "SOLD"
      BY <2>1 DEF CommitCreate
    <3> QED BY <1>1, <3>2, <3>3, <1>2, MoveStep DEF Next
  <2>2. CASE CommitDeliver(w)
    BY <2>2, DeliverHandsOver
  <2>3. CASE ~(CommitCreate(w) \/ CommitDeliver(w))
    <3>1. orderStatus' = orderStatus
      BY <1>2, <2>3 DEF Begin, BeginCreate, BeginDeliver, BeginWithdraw, Step, ReserveItem,
                        DeliverItem, CommitWithdraw, Abort, orderVars
    <3>2. \A k \in Keys : keyStatus'[k] = "SOLD" => keyStatus[k] = "SOLD"
      BY <1>2, <2>3 DEF Begin, BeginCreate, BeginDeliver, BeginWithdraw, Step, ReserveItem,
                        DeliverItem, CommitWithdraw, Abort, keyVars
    <3> QED BY <1>1, <1>2, <3>1, <3>2, MoveStep DEF Next, FollowsEdges
  <2> QED BY <2>1, <2>2, <2>3
<1>3. CASE Settle
  <2>1. ASSUME NEW D \in SUBSET Orders, NEW st \in {"EXPIRED", "CANCELLED"},
               ClosePendingOrders(D, st)
        PROVE  FollowsEdges /\ \A k \in Keys : keyStatus'[k] = "SOLD" => keyStatus[k] = "SOLD"
    <3>1. \A o \in Orders :
            \/ orderStatus'[o] = orderStatus[o]
            \/ orderStatus[o] = "PENDING" /\ orderStatus'[o] \in {"EXPIRED", "CANCELLED", "PAID"}
      BY <2>1 DEF ClosePendingOrders, Closable
    <3>2. FollowsEdges
      BY <3>1 DEF FollowsEdges, Sale!Edges
    <3>3. \A k \in Keys : keyStatus'[k] = "SOLD" => keyStatus[k] = "SOLD"
      BY <2>1 DEF ClosePendingOrders, ReleaseReservedStock
    <3> QED BY <3>2, <3>3
  <2>2. FollowsEdges /\ \A k \in Keys : keyStatus'[k] = "SOLD" => keyStatus[k] = "SOLD"
    <3>1. CASE \E o \in Orders : DeadlinePasses(o)
      BY <3>1 DEF DeadlinePasses, keyVars, FollowsEdges
    <3>2. CASE ReleaseExpiredOrders
      <4>1. {o \in due : orderStatus[o] = "PENDING"} \in SUBSET Orders
        BY <1>1 DEF TypeOK
      <4> QED BY <2>1, <3>2, <4>1 DEF ReleaseExpiredOrders
    <3>3. CASE \E o \in Orders, st \in {"EXPIRED", "CANCELLED"} : CloseOrder(o, st)
      BY <2>1, <3>3 DEF CloseOrder
    <3>4. CASE \E o \in Orders, over \in Overuse : MarkOrderPaid(o, over)
      BY <1>1, <3>4 DEF MarkOrderPaid, TypeOK, keyVars, FollowsEdges, Sale!Edges
    <3> QED BY <1>3, <3>1, <3>2, <3>3, <3>4 DEF Settle
  <2> QED BY <1>1, <1>3, <2>2, MoveStep DEF Next
<1>4. CASE Administer
  <2>1. orderStatus' = orderStatus
    BY <1>4 DEF Administer, AddStock, RestoreStock, DeleteStockItem, UpdateCoupon, RemoveCoupon,
                orderVars
  <2>2. \A k \in Keys : keyStatus'[k] = "SOLD" => keyStatus[k] = "SOLD"
    BY <1>1, <1>4 DEF Administer, AddStock, RestoreStock, DeleteStockItem, UpdateCoupon,
                      RemoveCoupon, keyVars, TypeOK
  <2> QED BY <1>1, <1>4, <2>1, <2>2, MoveStep DEF Next, FollowsEdges
<1> QED BY <1>2, <1>3, <1>4 DEF Next

-----------------------------------------------------------------------------
LEMMA SaleSteps ==
  ASSUME StockInv, StockInv', [Next]_vars
  PROVE  SaleStep
<1>1. CASE Next
  BY <1>1, SaleNext DEF StockInv, Custody
<1>2. CASE UNCHANGED vars
  BY <1>2 DEF vars, SaleStep, SoldKeys, SoldTo
<1> QED BY <1>1, <1>2

LEMMA SaleStepMeaning ==
  SaleStep <=> [Sale!Next]_<<orderStatus,
                 [o \in Orders |-> {k \in Keys : keyStatus[k] = "SOLD" /\ keyOrder[k] = o}]>>
BY DEF SaleStep, SoldKeys, SoldTo

\* The shop keeps the promise of KeySale: keys are given once, only for paid
\* orders and never more than were ordered, and no order leaves its life cycle.
THEOREM PromiseKept == Spec => KeepsSalePromise
<1>1. StockInv /\ StockInv' /\ [Next]_vars => SaleStep
  BY SaleSteps
<1> QED BY <1>1, SaleStepMeaning, SaleInit, StockInvariant, PTL
        DEF Spec, KeepsSalePromise, Sale!Spec

-----------------------------------------------------------------------------
(***************************************************************************)
(* Coupons: usedCount is exact, and the quotas a purchase checked at its   *)
(* start still hold when it commits.                                       *)
(***************************************************************************)
\* A purchase in progress holds the coupon row it checked.
QuotaStillLeft ==
  \A w \in Workers : tx[w].kind = "create" /\ tx[w].coupon # NoCoupon =>
    tx[w].coupon \in coupons /\ QuotaLeft(tx[w].coupon, tx[w].order)

\* The inductive invariant.
CouponInv == Custody /\ CouponCountExact /\ QuotaStillLeft

-----------------------------------------------------------------------------
(* Counting uses.                                                          *)

LEMMA UsesCounted == \A S \in SUBSET Orders : IsFiniteSet(S) /\ Cardinality(S) \in Nat
BY OrdersFinite, FS_Subset, FS_CardinalityType

LEMMA UsesAdded ==
  ASSUME NEW S \in SUBSET Orders, NEW o \in Orders \ S
  PROVE  Cardinality(S \cup {o}) = Cardinality(S) + 1
BY UsesCounted, FS_AddElement

LEMMA DecrementedSum == \A a, b \in Nat : Decremented(a + b, b) = a
BY DEF Decremented

LEMMA UsesReleased ==
  ASSUME NEW S \in SUBSET Orders, NEW R \in SUBSET S
  PROVE  Cardinality(S \ R) = Decremented(Cardinality(S), Cardinality(R))
<1> DEFINE N == S \ R
<1>1. N \cup R = S /\ N \cap R = {}
  OBVIOUS
<1>2. IsFiniteSet(N) /\ IsFiniteSet(R)
  BY UsesCounted
<1>3. Cardinality(N) \in Nat /\ Cardinality(R) \in Nat
  BY UsesCounted
<1> HIDE DEF N
<1>4. Cardinality(N \cup R) = Cardinality(N) + Cardinality(R) - Cardinality(N \cap R)
  BY <1>2, FS_Union
<1>5. Cardinality(S) = Cardinality(N) + Cardinality(R)
  <2>1. Cardinality(S) = Cardinality(N) + Cardinality(R) - Cardinality({})
    BY <1>1, <1>4
  <2> QED BY <1>3, <2>1, FS_EmptySet
<1> QED BY <1>3, <1>5, DecrementedSum DEF N

\* The orders that use coupon c are the same after this step.
SameUses(c) ==
  \A o \in Orders : (couponOf'[o] = c /\ orderStatus'[o] \in Counted)
                    <=> (couponOf[o] = c /\ orderStatus[o] \in Counted)

LEMMA UsesSame ==
  ASSUME NEW c, SameUses(c)
  PROVE  Uses(c)' = Uses(c) /\ \A u : UserUses(c, u)' = UserUses(c, u)
<1>1. Uses(c)' = Uses(c)
  BY DEF SameUses, Uses
<1> QED BY <1>1 DEF UserUses

LEMMA QuotaSame ==
  ASSUME NEW c \in Coupons, NEW o, SameUses(c),
         usedCount'[c] = usedCount[c], maxUses'[c] = maxUses[c], QuotaLeft(c, o)
  PROVE  QuotaLeft(c, o)'
BY UsesSame DEF QuotaLeft, Reached

\* A step that changes no coupon, no use and no purchase in progress.
LEMMA QuietCoupon ==
  ASSUME CouponInv, Custody', UNCHANGED <<couponOf, couponVars>>,
         \A c \in Coupons : SameUses(c),
         \A w \in Workers : tx'[w].kind = "create" /\ tx'[w].coupon # NoCoupon =>
           /\ tx[w].kind = "create"
           /\ tx'[w].coupon = tx[w].coupon /\ tx'[w].order = tx[w].order
  PROVE  CouponInv'
<1>1. CouponCountExact'
  BY UsesSame DEF CouponInv, Custody, TypeOK, CouponCountExact, couponVars
<1>2. QuotaStillLeft'
  <2> SUFFICES ASSUME NEW w \in Workers, (tx[w].kind = "create" /\ tx[w].coupon # NoCoupon)'
               PROVE  (tx[w].coupon \in coupons /\ QuotaLeft(tx[w].coupon, tx[w].order))'
    BY DEF QuotaStillLeft
  <2>1. PICK c \in coupons : tx[w].coupon = c /\ QuotaLeft(c, tx[w].order)
    BY DEF CouponInv, QuotaStillLeft
  <2>2. PICK o : tx[w].order = o
    OBVIOUS
  <2>3. c \in Coupons
    BY DEF CouponInv, Custody, TypeOK
  <2>4. QuotaLeft(c, o)'
    BY <2>1, <2>2, <2>3, QuotaSame DEF couponVars
  <2>5. tx'[w].coupon = c /\ tx'[w].order = o /\ coupons' = coupons
    BY <2>1, <2>2 DEF couponVars
  <2> QED BY <2>4, <2>5
<1> QED BY <1>1, <1>2 DEF CouponInv

LEMMA InitCoupon == Init => CouponInv
<1> SUFFICES ASSUME Init PROVE CouponInv
  OBVIOUS
<1>1. ASSUME NEW c \in coupons PROVE usedCount[c] = Cardinality(Uses(c))
  BY DEF Init
<1>2. QuotaStillLeft
  BY DEF Init, QuotaStillLeft, Idle, Open
<1> QED BY <1>1, <1>2, InitCustody DEF CouponInv, CouponCountExact

-----------------------------------------------------------------------------
(* Preservation.                                                           *)

\* A purchase begins only below the quotas.
LEMMA BeginCoupon ==
  ASSUME CouponInv, NEW w \in Workers, Begin(w)
  PROVE  CouponInv'
<1>1. Custody' /\ TypeOK
  BY BeginCustody DEF CouponInv, Custody
<1>2. UNCHANGED <<orderStatus, couponOf, couponVars>>
  BY DEF Begin, BeginCreate, BeginDeliver, BeginWithdraw, orderVars
<1>3. \A c : SameUses(c)
  BY <1>2 DEF SameUses
<1>4. CASE \E o \in Orders, c \in Coupons \cup {NoCoupon}, prepaid \in BOOLEAN :
             BeginCreate(w, o, c, prepaid)
  <2> PICK o \in Orders, c \in Coupons \cup {NoCoupon}, prepaid \in BOOLEAN :
             BeginCreate(w, o, c, prepaid)
    BY <1>4
  <2>1. /\ tx'[w].order = o /\ tx'[w].coupon = c
        /\ \A x \in Workers \ {w} : tx'[x] = tx[x] /\ tx[x].kind # "create"
    BY <1>1 DEF BeginCreate, ArbitrationFree, TypeOK
  <2>2. c # NoCoupon => c \in Coupons /\ c \in coupons /\ QuotaLeft(c, o)
    BY DEF BeginCreate
  <2>3. c # NoCoupon => QuotaLeft(c, o)'
    BY <1>2, <1>3, <2>2, QuotaSame DEF couponVars
  <2>4. QuotaStillLeft'
    <3> SUFFICES ASSUME NEW x \in Workers, (tx[x].kind = "create" /\ tx[x].coupon # NoCoupon)'
                 PROVE  (tx[x].coupon \in coupons /\ QuotaLeft(tx[x].coupon, tx[x].order))'
      BY DEF QuotaStillLeft
    <3>1. x = w
      BY <2>1
    <3> QED BY <1>2, <2>1, <2>2, <2>3, <3>1 DEF couponVars
  <2>5. CouponCountExact'
    BY <1>2, <1>3, UsesSame DEF CouponInv, CouponCountExact, couponVars
  <2> QED BY <1>1, <2>4, <2>5 DEF CouponInv
<1>5. CASE ~ \E o \in Orders, c \in Coupons \cup {NoCoupon}, prepaid \in BOOLEAN :
             BeginCreate(w, o, c, prepaid)
  <2>1. tx'[w].kind # "create" /\ \A x \in Workers \ {w} : tx'[x] = tx[x]
    BY <1>1, <1>5 DEF Begin, BeginDeliver, BeginWithdraw, Open, TypeOK
  <2> QED BY <1>1, <1>2, <1>3, <2>1, QuietCoupon
<1> QED BY <1>4, <1>5

\* The use of a purchase is counted when it commits; no other purchase is in
\* progress then.
LEMMA CommitCreateCoupon ==
  ASSUME CouponInv, NEW w \in Workers, CommitCreate(w)
  PROVE  CouponInv'
<1>1. Custody' /\ TypeOK
  BY StepCustody DEF CouponInv, Custody, Step
<1>2. PICK o \in Orders : tx[w].order = o /\ orderStatus[o] = "NONE"
  BY DEF CouponInv, Custody, TxOrders, CommitCreate
<1>3. /\ orderStatus'[o] \in {"PENDING", "PAID"} /\ couponOf'[o] = tx[w].coupon
      /\ \A p \in Orders \ {o} : orderStatus'[p] = orderStatus[p] /\ couponOf'[p] = couponOf[p]
      /\ coupons' = coupons
      /\ \A d \in Coupons : usedCount'[d] = IF d = tx[w].coupon THEN usedCount[d] + 1 ELSE usedCount[d]
  BY <1>1, <1>2 DEF CommitCreate, TypeOK
<1>4. CouponCountExact'
  <2> SUFFICES ASSUME NEW c \in coupons
               PROVE  usedCount'[c] = Cardinality(Uses(c)')
    BY <1>3 DEF CouponCountExact
  <2>1. c \in Coupons /\ usedCount[c] = Cardinality(Uses(c))
    BY <1>1 DEF CouponInv, CouponCountExact, TypeOK
  <2>2. CASE c = tx[w].coupon
    <3>1. Uses(c)' = Uses(c) \cup {o} /\ o \notin Uses(c)
      BY <1>2, <1>3, <2>2 DEF Uses, Counted
    <3>2. Uses(c) \in SUBSET Orders
      BY DEF Uses
    <3> QED BY <1>3, <2>1, <2>2, <3>1, <3>2, UsesAdded
  <2>3. CASE c # tx[w].coupon
    <3>1. SameUses(c)
      BY <1>2, <1>3, <2>3 DEF SameUses, Counted
    <3> QED BY <1>3, <2>1, <2>3, <3>1, UsesSame
  <2> QED BY <2>2, <2>3
<1>5. QuotaStillLeft'
  <2>1. \A x \in Workers : tx'[x].kind # "create"
    BY <1>1 DEF CouponInv, Custody, TxExclusive, CommitCreate, Idle, Open, TypeOK
  <2> QED BY <2>1 DEF QuotaStillLeft
<1> QED BY <1>1, <1>4, <1>5 DEF CouponInv

LEMMA StepCoupon ==
  ASSUME CouponInv, NEW w \in Workers, Step(w) \/ Abort(w)
  PROVE  CouponInv'
<1>1. Custody' /\ Custody /\ TypeOK
  BY StepCustody DEF CouponInv, Custody
<1>2. ASSUME NEW v \in Variants, ReserveItem(w, v) PROVE CouponInv'
  <2>1. PICK S \in SUBSET Keys :
          \/ tx' = [tx EXCEPT ![w] = Idle]
          \/ tx' = [tx EXCEPT ![w].todo = @ \ {v}, ![w].took = @ \cup S]
    BY <1>2 DEF ReserveItem, Free
  <2>2. /\ \A x \in Workers \ {w} : tx'[x] = tx[x]
        /\ \/ tx'[w].kind = "idle"
           \/ tx'[w].kind = tx[w].kind /\ tx'[w].coupon = tx[w].coupon /\ tx'[w].order = tx[w].order
    <3>1. CASE tx' = [tx EXCEPT ![w] = Idle]
      BY <1>1, <3>1 DEF Idle, Open, TypeOK
    <3>2. CASE tx' = [tx EXCEPT ![w].todo = @ \ {v}, ![w].took = @ \cup S]
      BY <1>1, <3>2, TakeFields
    <3> QED BY <2>1, <3>1, <3>2
  <2>3. UNCHANGED <<orderStatus, couponOf, couponVars>> /\ \A c : SameUses(c)
    BY <1>2 DEF ReserveItem, orderVars, SameUses
  <2> QED BY <1>1, <2>2, <2>3, QuietCoupon
<1>3. ASSUME NEW v \in Variants, DeliverItem(w, v) PROVE CouponInv'
  <2>1. tx[w].kind = "deliver" /\ UNCHANGED <<orderStatus, couponOf, couponVars>>
    BY <1>3 DEF DeliverItem, orderVars
  <2>2. (\A x \in Workers \ {w} : tx'[x] = tx[x]) /\ tx'[w].kind = "deliver"
    <3>1. PICK R \in SUBSET Keys, S \in SUBSET Keys :
            tx' = [tx EXCEPT ![w].todo = @ \ {v}, ![w].took = @ \cup R \cup S]
      BY <1>3 DEF DeliverItem, Free, KeysOf
    <3>2. PICK K \in SUBSET Keys : \A T : (T \cup R) \cup S = T \cup K
      <4>1. R \cup S \in SUBSET Keys /\ \A T : (T \cup R) \cup S = T \cup (R \cup S)
        OBVIOUS
      <4> QED BY <4>1
    <3>3. tx' = [tx EXCEPT ![w].todo = @ \ {v}, ![w].took = @ \cup K]
      BY <3>1, <3>2
    <3> QED BY <1>1, <2>1, <3>3, TakeFields
  <2>3. \A c : SameUses(c)
    BY <2>1 DEF SameUses
  <2> QED BY <1>1, <2>1, <2>2, <2>3, QuietCoupon
<1>4. CASE CommitDeliver(w)
  <2>1. PICK o \in Orders : tx[w].order = o /\ orderStatus[o] = "PAID"
    BY <1>1, <1>4 DEF Custody, TxOrders, CommitDeliver
  <2>2. /\ orderStatus'[o] \in {"PAID", "DELIVERED"}
        /\ \A p \in Orders \ {o} : orderStatus'[p] = orderStatus[p]
        /\ UNCHANGED <<couponOf, couponVars>>
        /\ \A x \in Workers : tx'[x] = tx[x] \/ tx'[x].kind = "idle"
    BY <1>1, <1>4, <2>1 DEF CommitDeliver, TypeOK, Idle, Open
  <2>3. \A c : SameUses(c)
    BY <2>1, <2>2 DEF SameUses, Counted
  <2>4. \A p \in Orders : orderStatus[p] # "NONE" => orderStatus'[p] # "NONE"
    BY <2>2
  <2> QED BY <1>1, <2>2, <2>3, <2>4, QuietCoupon
<1>5. CASE CommitWithdraw(w) \/ Abort(w)
  <2>1. /\ UNCHANGED <<orderStatus, couponOf, couponVars>>
        /\ \A x \in Workers : tx'[x] = tx[x] \/ tx'[x].kind = "idle"
    BY <1>1, <1>5 DEF CommitWithdraw, Abort, orderVars, TypeOK, Idle, Open
  <2>2. \A c : SameUses(c)
    BY <2>1 DEF SameUses
  <2> QED BY <1>1, <2>1, <2>2, QuietCoupon
<1> QED BY <1>2, <1>3, <1>4, <1>5, CommitCreateCoupon DEF Step

\* Closing gives back exactly the uses of the orders it closes, once.
LEMMA CloseCoupon ==
  ASSUME CouponInv, TypeOK', NEW D \in SUBSET Orders, NEW st \in {"EXPIRED", "CANCELLED"},
         ArbitrationFree, ClosePendingOrders(D, st), UNCHANGED <<couponOf, coupons, maxUses, tx>>
  PROVE  CouponInv'
<1> DEFINE C == Closable(D)
<1>1. Custody' /\ TypeOK
  BY CloseCustody DEF CouponInv, Custody
<1>2. \A o \in Orders :
        \/ o \in C /\ orderStatus[o] = "PENDING" /\ orderStatus'[o] = st
        \/ o \notin C /\ orderStatus'[o] = orderStatus[o]
        \/ o \notin C /\ orderStatus[o] = "PENDING" /\ orderStatus'[o] = "PAID"
  BY DEF ClosePendingOrders, Closable
<1>3. \A c \in Coupons :
        usedCount'[c] = Decremented(usedCount[c], Cardinality({o \in C : couponOf[o] = c}))
  BY DEF ClosePendingOrders, ReleaseCoupons
<1>4. C \subseteq Orders
  BY DEF Closable
<1> HIDE DEF C
<1>5. CouponCountExact'
  <2> SUFFICES ASSUME NEW c \in coupons
               PROVE  usedCount'[c] = Cardinality(Uses(c)')
    BY DEF CouponCountExact
  <2>1. c \in Coupons /\ usedCount[c] = Cardinality(Uses(c))
    BY <1>1 DEF CouponInv, CouponCountExact, TypeOK
  <2> DEFINE R == {o \in C : couponOf[o] = c}
  <2>2. R \in SUBSET Uses(c) /\ Uses(c) \in SUBSET Orders
    BY <1>2, <1>4 DEF Uses, Counted
  <2>3. Uses(c)' = Uses(c) \ R
    BY <1>2, <1>4 DEF Uses, Counted
  <2>4. usedCount'[c] = Decremented(usedCount[c], Cardinality(R))
    BY <1>3, <2>1
  <2> HIDE DEF R
  <2> QED BY <2>1, <2>2, <2>3, <2>4, UsesReleased
<1>6. QuotaStillLeft'
  BY DEF QuotaStillLeft, ArbitrationFree
<1> QED BY <1>1, <1>5, <1>6 DEF CouponInv

LEMMA SettleCoupon ==
  ASSUME CouponInv, Settle
  PROVE  CouponInv'
<1>1. Custody' /\ TypeOK /\ TypeOK'
  BY SettleCustody DEF CouponInv, Custody
<1>2. CASE \E o \in Orders : DeadlinePasses(o)
  <2>1. UNCHANGED <<orderStatus, couponOf, couponVars, tx>>
    BY <1>2 DEF DeadlinePasses
  <2>2. \A c : SameUses(c)
    BY <2>1 DEF SameUses
  <2> QED BY <1>1, <2>1, <2>2, QuietCoupon
<1>3. CASE ReleaseExpiredOrders
  <2>1. {o \in due : orderStatus[o] = "PENDING"} \in SUBSET Orders
    BY <1>1 DEF TypeOK
  <2> QED BY <1>1, <1>3, <2>1, CloseCoupon DEF ReleaseExpiredOrders
<1>4. ASSUME NEW o \in Orders, NEW st \in {"EXPIRED", "CANCELLED"}, CloseOrder(o, st)
      PROVE  CouponInv'
  BY <1>1, <1>4, CloseCoupon DEF CloseOrder
<1>5. ASSUME NEW o \in Orders, NEW over \in Overuse, MarkOrderPaid(o, over)
      PROVE  CouponInv'
  <2>1. /\ orderStatus[o] \in {"PENDING", "EXPIRED"} /\ orderStatus'[o] = "PAID"
        /\ \A p \in Orders \ {o} : orderStatus'[p] = orderStatus[p]
        /\ UNCHANGED <<couponOf, coupons, maxUses, tx>>
        /\ \A c \in Coupons : usedCount'[c] =
              IF orderStatus[o] = "EXPIRED" /\ couponOf[o] = c
              THEN usedCount[c] + 1 ELSE usedCount[c]
    BY <1>1, <1>5 DEF MarkOrderPaid, TypeOK
  <2>2. CouponCountExact'
    <3> SUFFICES ASSUME NEW c \in coupons
                 PROVE  usedCount'[c] = Cardinality(Uses(c)')
      BY <2>1 DEF CouponCountExact
    <3>1. c \in Coupons /\ usedCount[c] = Cardinality(Uses(c))
      BY <1>1 DEF CouponInv, CouponCountExact, TypeOK
    <3>2. CASE orderStatus[o] = "EXPIRED" /\ couponOf[o] = c
      <4>1. Uses(c)' = Uses(c) \cup {o} /\ o \notin Uses(c) /\ Uses(c) \in SUBSET Orders
        BY <2>1, <3>2 DEF Uses, Counted
      <4> QED BY <2>1, <3>1, <3>2, <4>1, UsesAdded
    <3>3. CASE ~(orderStatus[o] = "EXPIRED" /\ couponOf[o] = c)
      <4>1. SameUses(c)
        BY <2>1, <3>3 DEF SameUses, Counted
      <4> QED BY <2>1, <3>1, <3>3, <4>1, UsesSame
    <3> QED BY <3>2, <3>3
  <2>3. QuotaStillLeft'
    BY <1>5, <2>1 DEF QuotaStillLeft, MarkOrderPaid, ArbitrationFree
  <2> QED BY <1>1, <2>2, <2>3 DEF CouponInv
<1> QED BY <1>2, <1>3, <1>4, <1>5 DEF Settle

\* An administrator waits for the coupon rows of purchases in progress.
LEMMA AdministerCoupon ==
  ASSUME CouponInv, Administer
  PROVE  CouponInv'
<1>1. Custody' /\ TypeOK
  BY AdministerCustody DEF CouponInv, Custody
<1>2. CASE (\E v \in Variants, K \in SUBSET Keys : AddStock(v, K))
             \/ \E k \in Keys : RestoreStock(k) \/ DeleteStockItem(k)
  <2>1. UNCHANGED <<orderStatus, couponOf, couponVars, tx>>
    BY <1>2 DEF AddStock, RestoreStock, DeleteStockItem, orderVars
  <2>2. \A c : SameUses(c)
    BY <2>1 DEF SameUses
  <2> QED BY <1>1, <2>1, <2>2, QuietCoupon
<1>3. ASSUME NEW c \in Coupons, UpdateCoupon(c, maxUses'[c]) \/ RemoveCoupon(c)
      PROVE  CouponInv'
  <2>1. /\ UNCHANGED <<orderStatus, usedCount, tx>>
        /\ coupons' \subseteq coupons /\ coupons \ {c} \subseteq coupons'
        /\ \A d \in Coupons \ {c} : maxUses'[d] = maxUses[d]
        /\ \A w \in Workers : tx[w].kind = "create" => tx[w].coupon # c
    BY <1>1, <1>3 DEF UpdateCoupon, RemoveCoupon, CouponRowFree, orderVars, TypeOK
  <2>2. \A d \in Coupons : d # c \/ c \in coupons' => SameUses(d)
    BY <1>1, <1>3, CouponsFinite DEF UpdateCoupon, RemoveCoupon, orderVars, SameUses, TypeOK
  <2>3. CouponCountExact'
    <3> SUFFICES ASSUME NEW d \in coupons' PROVE usedCount'[d] = Cardinality(Uses(d)')
      BY DEF CouponCountExact
    <3>1. d \in Coupons /\ d \in coupons /\ SameUses(d)
      BY <1>1, <2>1, <2>2 DEF TypeOK
    <3> QED BY <2>1, <3>1, UsesSame DEF CouponInv, CouponCountExact
  <2>4. QuotaStillLeft'
    <3> SUFFICES ASSUME NEW w \in Workers, tx[w].kind = "create", tx[w].coupon # NoCoupon
                 PROVE  tx[w].coupon \in coupons' /\ QuotaLeft(tx[w].coupon, tx[w].order)'
      BY <2>1 DEF QuotaStillLeft
    <3>1. PICK d \in coupons : tx[w].coupon = d /\ d # c /\ QuotaLeft(d, tx[w].order)
      BY <2>1 DEF CouponInv, QuotaStillLeft
    <3>2. PICK o : tx[w].order = o
      OBVIOUS
    <3>3. d \in Coupons /\ d \in coupons' /\ SameUses(d)
      BY <1>1, <2>1, <2>2, <3>1 DEF TypeOK
    <3>4. QuotaLeft(d, o)'
      BY <2>1, <3>1, <3>2, <3>3, QuotaSame
    <3> QED BY <2>1, <3>1, <3>2, <3>3, <3>4
  <2> QED BY <1>1, <2>3, <2>4 DEF CouponInv
<1>4. ASSUME NEW c \in Coupons, NEW limit \in Limits, UpdateCoupon(c, limit)
      PROVE  UpdateCoupon(c, maxUses'[c])
  BY <1>1, <1>4 DEF UpdateCoupon, TypeOK
<1> QED BY <1>2, <1>3, <1>4 DEF Administer

LEMMA NextCoupon == CouponInv /\ [Next]_vars => CouponInv'
<1> SUFFICES ASSUME CouponInv, [Next]_vars PROVE CouponInv'
  OBVIOUS
<1>1. CASE UNCHANGED vars
  <2>1. Custody' /\ UNCHANGED <<orderStatus, couponOf, couponVars, tx>>
    BY <1>1, NextCustody DEF CouponInv, vars, couponVars
  <2>2. \A c : SameUses(c)
    BY <2>1 DEF SameUses
  <2> QED BY <2>1, <2>2, QuietCoupon
<1>2. CASE Next
  BY <1>2, BeginCoupon, StepCoupon, SettleCoupon, AdministerCoupon DEF Next
<1> QED BY <1>1, <1>2

LEMMA CouponInvariant == Spec => []CouponInv
BY InitCoupon, NextCoupon, PTL DEF Spec

-----------------------------------------------------------------------------
(* The theorems.                                                           *)

\* usedCount of a coupon is the number of orders that use it.
THEOREM CountExact == Spec => []CouponCountExact
<1>1. CouponInv => CouponCountExact
  BY DEF CouponInv
<1> QED BY <1>1, CouponInvariant, PTL

\* What one step may add to the uses of a coupon.
QuotaStep ==
  Overuse = {FALSE} =>
    \A c \in coupons, o \in Orders :
      o \in Uses(c)' \ Uses(c) => QuotaLeft(c, o) \/ LegacyStatus[o] = "EXPIRED"

\* A step that adds no use to any coupon respects every quota.
LEMMA NoUseAdded ==
  ASSUME \A c \in coupons : Uses(c)' \subseteq Uses(c)
  PROVE  QuotaStep
BY DEF QuotaStep

\* A step that adds the use of order o by a coupon that has quota left, or of
\* an order whose money an earlier release recorded.
LEMMA OneUseAdded ==
  ASSUME NEW o \in Orders, NEW d,
         \A c \in coupons \ {d} : Uses(c)' \subseteq Uses(c),
         d \in coupons => /\ QuotaLeft(d, o) \/ LegacyStatus[o] = "EXPIRED"
                          /\ Uses(d)' \subseteq Uses(d) \cup {o}
  PROVE  QuotaStep
BY DEF QuotaStep

\* Every step respects the quotas: a purchase commits only a use its checks
\* still cover, a late payment is checked when it is recorded.
LEMMA QuotaSteps ==
  ASSUME CouponInv, TypeOK', Next
  PROVE  QuotaStep
<1>1. TypeOK /\ Custody
  BY DEF CouponInv, Custody
<1>2. ASSUME UNCHANGED <<orderStatus, couponOf, usedCount>> PROVE QuotaStep
  BY <1>2, NoUseAdded DEF Uses
<1>3. ASSUME NEW w \in Workers, Begin(w) \/ Step(w) \/ Abort(w) PROVE QuotaStep
  <2>1. CASE CommitCreate(w)
    <3>1. PICK o \in Orders : tx[w].order = o /\ orderStatus[o] = "NONE"
      BY <1>1, <2>1 DEF Custody, TxOrders, CommitCreate
    <3>2. PICK d : tx[w].coupon = d
      OBVIOUS
    <3>3. \A c \in coupons \ {d} : Uses(c)' \subseteq Uses(c)
      BY <1>1, <2>1, <3>1, <3>2 DEF CommitCreate, Uses, TypeOK
    <3>4. Uses(d)' \subseteq Uses(d) \cup {o}
      BY <1>1, <2>1, <3>1, <3>2 DEF CommitCreate, Uses, TypeOK
    <3>5. d \in coupons => QuotaLeft(d, o)
      <4>1. d \in coupons => d # NoCoupon
        BY <1>1, CouponsFinite DEF TypeOK
      <4> QED BY <2>1, <3>1, <3>2, <4>1 DEF CouponInv, QuotaStillLeft, CommitCreate
    <3> QED BY <3>3, <3>4, <3>5, OneUseAdded
  <2>2. CASE CommitDeliver(w)
    <3>1. PICK o \in Orders : tx[w].order = o /\ orderStatus[o] = "PAID"
      BY <1>1, <2>2 DEF Custody, TxOrders, CommitDeliver
    <3>2. \A c \in coupons : Uses(c)' \subseteq Uses(c)
      BY <1>1, <2>2, <3>1 DEF CommitDeliver, couponVars, Uses, Counted, TypeOK
    <3> QED BY <3>2, NoUseAdded
  <2>3. CASE ~(CommitCreate(w) \/ CommitDeliver(w))
    <3>1. UNCHANGED <<orderStatus, couponOf, usedCount>>
      BY <1>3, <2>3 DEF Begin, BeginCreate, BeginDeliver, BeginWithdraw, Step, ReserveItem,
                        DeliverItem, CommitWithdraw, Abort, orderVars, couponVars
    <3> QED BY <1>2, <3>1
  <2> QED BY <2>1, <2>2, <2>3
<1>4. ASSUME NEW D \in SUBSET Orders, NEW st \in {"EXPIRED", "CANCELLED"},
             ClosePendingOrders(D, st), couponOf' = couponOf
      PROVE  QuotaStep
  <2>1. \A c \in coupons : Uses(c)' \subseteq Uses(c)
    BY <1>4 DEF ClosePendingOrders, Uses, Counted, Closable
  <2> QED BY <2>1, NoUseAdded
<1>5. ASSUME NEW o \in Orders, NEW over \in Overuse, MarkOrderPaid(o, over)
      PROVE  QuotaStep
  <2> SUFFICES ASSUME Overuse = {FALSE} PROVE QuotaStep
    BY DEF QuotaStep
  <2>1. /\ \A p \in Orders \ {o} : orderStatus'[p] = orderStatus[p]
        /\ orderStatus[o] \in {"PENDING", "EXPIRED"} /\ couponOf' = couponOf
        /\ payStatus[o] = "SUCCESS" \/ ~ExpiredCouponConflict(o)
    BY <1>1, <1>5 DEF MarkOrderPaid, TypeOK
  <2>2. PICK d : couponOf[o] = d
    OBVIOUS
  <2>3. \A c \in coupons : c # NoCoupon
    BY <1>1, CouponsFinite DEF TypeOK
  <2>4. CASE orderStatus[o] = "PENDING"
    <3>1. \A c \in coupons : Uses(c)' \subseteq Uses(c)
      BY <2>1, <2>4 DEF Uses, Counted
    <3> QED BY <3>1, NoUseAdded
  <2>5. CASE orderStatus[o] = "EXPIRED"
    <3>1. \A c \in coupons \ {d} : Uses(c)' \subseteq Uses(c)
      BY <2>1, <2>2 DEF Uses
    <3>2. Uses(d)' \subseteq Uses(d) \cup {o}
      BY <2>1 DEF Uses
    <3>3. d \in coupons => QuotaLeft(d, o) \/ LegacyStatus[o] = "EXPIRED"
      <4>1. CASE payStatus[o] = "SUCCESS"
        BY <1>1, <2>5, <4>1 DEF Custody, PaidMeansSuccess
      <4>2. CASE payStatus[o] # "SUCCESS"
        BY <2>1, <2>2, <2>3, <2>5, <4>2 DEF ExpiredCouponConflict
      <4> QED BY <4>1, <4>2
    <3> QED BY <3>1, <3>2, <3>3, OneUseAdded
  <2> QED BY <2>1, <2>4, <2>5
<1>6. CASE Settle
  <2>1. ASSUME NEW o \in Orders, DeadlinePasses(o) PROVE QuotaStep
    BY <1>2, <2>1 DEF DeadlinePasses, couponVars
  <2>2. CASE ReleaseExpiredOrders
    <3>1. {o \in due : orderStatus[o] = "PENDING"} \in SUBSET Orders
      BY <1>1 DEF TypeOK
    <3> QED BY <1>4, <2>2, <3>1 DEF ReleaseExpiredOrders
  <2>3. ASSUME NEW o \in Orders, NEW st \in {"EXPIRED", "CANCELLED"}, CloseOrder(o, st)
        PROVE  QuotaStep
    BY <1>4, <2>3 DEF CloseOrder
  <2> QED BY <1>5, <1>6, <2>1, <2>2, <2>3 DEF Settle
<1>7. CASE Administer
  <2>1. ASSUME NEW c \in Coupons, RemoveCoupon(c) PROVE QuotaStep
    <3>1. \A d \in coupons : Uses(d)' \subseteq Uses(d)
      BY <1>1, <2>1, CouponsFinite DEF RemoveCoupon, Uses, TypeOK
    <3> QED BY <3>1, NoUseAdded
  <2>2. CASE ~\E c \in Coupons : RemoveCoupon(c)
    BY <1>2, <1>7, <2>2 DEF Administer, AddStock, RestoreStock, DeleteStockItem, UpdateCoupon,
                            orderVars, couponVars
  <2> QED BY <2>1, <2>2
<1> QED BY <1>3, <1>6, <1>7 DEF Next

\* While no operator overrides it, a use is added only below the quotas, or
\* for an order whose money an earlier release had recorded.
THEOREM QuotaKept == Spec => QuotaRespected
<1>1. CouponInv /\ CouponInv' /\ [Next]_vars => [QuotaStep]_vars
  BY QuotaSteps DEF CouponInv, Custody
<1>2. [][QuotaStep]_vars => QuotaRespected
  BY PTL DEF QuotaRespected, QuotaStep
<1> QED BY <1>1, <1>2, CouponInvariant, PTL DEF Spec

-----------------------------------------------------------------------------
(***************************************************************************)
(* The shop with its sweeper.  A restart, which rolls every transaction    *)
(* back at once, is the only step of Sweeper that Fulfillment cannot take; *)
(* it keeps the invariants too, so what holds of the shop holds of the     *)
(* shop with its sweeper, failures and restarts.                           *)
(***************************************************************************)

\* The lists of a tick hold orders, and an order was promoted off its list.
SweepTyped ==
  /\ list \in Seq(Orders)
  /\ phase = "promoted" => list # <<>>

AllRollBack ==
  /\ tx' = [w \in Workers |-> Idle]
  /\ UNCHANGED <<orderVars, keyVars, couponVars>>

\* The inductive invariant.
SweepInv == SweepTyped /\ StockInv /\ CouponInv

LEMMA SetListed ==
  ASSUME NEW S \in SUBSET Orders
  PROVE  SetToSeq(S) \in Seq(Orders)
<1>1. IsFiniteSet(S)
  BY OrdersFinite, FS_Subset
<1>2. PICK n \in Nat : ExistsBijection(1..n, S)
  BY <1>1, FS_NatBijection
<1>3. Cardinality(S) = n
  BY <1>2, FS_CountingElements
<1>4. PICK f \in [1..n -> S] : IsInjective(f)
  BY <1>2 DEF ExistsBijection, Bijection, Injection, IsInjective
<1>5. SetToSeq(S) \in [1..n -> S]
  BY <1>3, <1>4 DEF SetToSeq
<1> QED BY <1>5

\* Every step is one of the shop's, a stutter of it, or a restart.
LEMMA SweepStep ==
  ASSUME SweepTyped, [SweepNext]_allVars
  PROVE  ([Next]_vars \/ AllRollBack) /\ SweepTyped'
<1>1. CASE UNCHANGED allVars
  BY <1>1 DEF allVars, SweepTyped
<1>2. CASE SweepRelease
  BY <1>2 DEF SweepRelease, SweepTyped, Next, Settle
<1>3. CASE SweepListPaid
  <2>1. PICK s \in BoundedSeq(Orders, Batch) : list' = s
    BY <1>3 DEF SweepListPaid
  <2>2. s \in Seq(Orders)
    BY <2>1 DEF BoundedSeq, SeqOf
  <2> QED BY <1>3, <2>1, <2>2 DEF SweepListPaid, SweepTyped
<1>4. CASE SweepDeliver
  <2>1. Head(list) \in Orders /\ Tail(list) \in Seq(Orders)
    BY <1>4 DEF SweepDeliver, SweepTyped
  <2>2. [Next]_vars
    BY <1>4, <2>1, SweeperTyped DEF SweepDeliver, Next, Begin
  <2> QED BY <1>4, <2>1, <2>2 DEF SweepDeliver, SweepTyped
<1>5. CASE SweepListOrphans
  <2>1. PICK S \in SUBSET Orphans : list' = SetToSeq(S)
    BY <1>5 DEF SweepListOrphans
  <2>2. list' \in Seq(Orders)
    BY <2>1, SetListed DEF Orphans
  <2> QED BY <1>5, <2>2 DEF SweepListOrphans, SweepTyped
<1>6. CASE SweepPromote
  <2>1. Head(list) \in Orders /\ Tail(list) \in Seq(Orders)
    BY <1>6 DEF SweepPromote, SweepTyped
  <2>2. [Next]_vars
    BY <1>6, <2>1, OveruseTyped DEF SweepPromote, Next, Settle
  <2> QED BY <1>6, <2>1, <2>2 DEF SweepPromote, SweepTyped
<1>7. CASE SweepDeliverPromoted
  <2>1. Head(list) \in Orders /\ Tail(list) \in Seq(Orders)
    BY <1>7 DEF SweepDeliverPromoted, SweepTyped
  <2>2. [Next]_vars
    BY <1>7, <2>1, SweeperTyped DEF SweepDeliverPromoted, Next, Begin
  <2> QED BY <1>7, <2>1, <2>2 DEF SweepDeliverPromoted, SweepTyped
<1>8. CASE SweepDone
  BY <1>8 DEF SweepDone, SweepTyped
<1>9. CASE Shop
  BY <1>9 DEF Shop, SweepTyped, Next
<1>10. ASSUME NEW w \in Workers, RollBack(w)
       PROVE  ([Next]_vars \/ AllRollBack) /\ SweepTyped'
  BY <1>10 DEF RollBack, SweepTyped, Next
<1>11. CASE TickFails
  BY <1>11 DEF TickFails, SweepTyped
<1>12. CASE Restart
  BY <1>12 DEF Restart, AllRollBack, SweepTyped, orderVars, keyVars, couponVars
<1> QED BY <1>1, <1>2, <1>3, <1>4, <1>5, <1>6, <1>7, <1>8, <1>9, <1>10, <1>11, <1>12
        DEF SweepNext, Tick

\* A restart forgets the transactions and nothing else.
LEMMA RestartKeeps ==
  ASSUME StockInv, CouponInv, AllRollBack
  PROVE  StockInv' /\ CouponInv'
<1>1. \A w \in Workers : tx'[w] = Idle
  BY DEF AllRollBack
<1>2. UNCHANGED <<orderStatus, payStatus, couponOf, due, keyStatus, keyOrder,
                  coupons, usedCount, maxUses>>
  BY DEF AllRollBack, orderVars, keyVars, couponVars
<1>3. TypeOK'
  BY <1>2, IdleType DEF AllRollBack, StockInv, Custody, TypeOK
<1>4. TxOrders' /\ TxExclusive' /\ TookLocked'
  BY <1>1 DEF TxOrders, TxExclusive, TookLocked, Idle, Open
<1>5. PaidMeansSuccess'
  BY <1>2 DEF StockInv, Custody, PaidMeansSuccess
<1>6. Custody'
  BY <1>3, <1>4, <1>5 DEF Custody
<1>7. KeyOwner'
  BY <1>2 DEF StockInv, KeyOwner
<1>8. \A o : Untouched(o)
  BY <1>2 DEF Untouched
<1>9. AllItems'
  BY <1>2, <1>8, UntouchedCounts DEF StockInv, AllItems
<1>10. AllTook'
  BY <1>1, IdleTook DEF AllTook
<1>11. \A c \in Coupons : SameUses(c)
  BY <1>2 DEF SameUses
<1>12. CouponInv'
  BY <1>1, <1>2, <1>6, <1>11, QuietCoupon DEF Idle, Open, couponVars
<1> QED BY <1>6, <1>7, <1>9, <1>10, <1>12 DEF StockInv

LEMMA SweepInvariant == SweepSpec => []SweepInv
<1>1. SweepInit => SweepInv
  BY InitStock, InitCoupon DEF SweepInit, SweepInv, SweepTyped
<1>2. SweepInv /\ [SweepNext]_allVars => SweepInv'
  <2> SUFFICES ASSUME SweepInv, [SweepNext]_allVars PROVE SweepInv'
    OBVIOUS
  <2>1. ([Next]_vars \/ AllRollBack) /\ SweepTyped'
    BY SweepStep DEF SweepInv
  <2>2. CASE [Next]_vars
    BY <2>1, <2>2, NextStock, NextCoupon DEF SweepInv
  <2>3. CASE AllRollBack
    BY <2>1, <2>3, RestartKeeps DEF SweepInv
  <2> QED BY <2>1, <2>2, <2>3
<1>3. SweepSpec => SweepInit /\ [][SweepNext]_allVars
  BY PTL DEF SweepSpec
<1> QED BY <1>1, <1>2, <1>3, PTL

\* With ticks working from stale lists, transactions rolled back and the
\* process restarted at any moment, the books of the shop stay right: order
\* and payment, keys set aside and handed over, coupon uses.
THEOREM SweptBooks ==
  SweepSpec => [](/\ PaidMeansSuccess /\ PendingHoldsStock /\ HeldByLiveOrder
                  /\ DeliveredExactly /\ CouponCountExact)
<1>1. SweepInv => /\ PaidMeansSuccess /\ PendingHoldsStock /\ HeldByLiveOrder
                  /\ DeliveredExactly /\ CouponCountExact
  BY PendingHeld, LiveHeld, ExactCounts DEF SweepInv, StockInv, CouponInv, Custody
<1> QED BY <1>1, SweepInvariant, PTL

\* What no step of the shop does, no tick, roll-back or restart does: a key
\* that was handed over stays, and no use is added beyond a
\* quota but that of an order whose money an earlier release had recorded.
THEOREM SweptSteps == SweepSpec => SoldForever /\ QuotaRespected
<1> DEFINE KeyStep == \A k \in Keys : keyStatus[k] = "SOLD" =>
                        keyStatus'[k] = "SOLD" /\ keyOrder'[k] = keyOrder[k]
<1>1. SweepInv /\ SweepInv' /\ [SweepNext]_allVars => [KeyStep]_vars /\ [QuotaStep]_vars
  <2> SUFFICES ASSUME SweepInv, SweepInv', [SweepNext]_allVars
               PROVE  [KeyStep]_vars /\ [QuotaStep]_vars
    OBVIOUS
  <2>1. [Next]_vars \/ AllRollBack
    BY SweepStep DEF SweepInv
  <2>2. CASE UNCHANGED vars
    BY <2>2
  <2>3. CASE Next
    BY <2>3, SoldStays, QuotaSteps DEF SweepInv, CouponInv, Custody
  <2>4. CASE AllRollBack
    <3>1. KeyStep
      BY <2>4 DEF AllRollBack, keyVars
    <3>2. UNCHANGED <<orderStatus, couponOf, usedCount>>
      BY <2>4 DEF AllRollBack, orderVars, couponVars
    <3>3. \A c \in coupons : Uses(c)' \subseteq Uses(c)
      BY <3>2 DEF Uses
    <3>4. QuotaStep
      BY <3>3, NoUseAdded
    <3> QED BY <3>1, <3>4
  <2> QED BY <2>1, <2>2, <2>3, <2>4
<1>2. SweepSpec => [][SweepNext]_allVars
  BY PTL DEF SweepSpec
<1>3. [][KeyStep]_vars => SoldForever
  BY PTL DEF SoldForever
<1>4. [][QuotaStep]_vars => QuotaRespected
  BY PTL DEF QuotaRespected, QuotaStep
<1> HIDE DEF KeyStep
<1> QED BY <1>1, <1>2, <1>3, <1>4, SweepInvariant, PTL

\* The shop with its sweeper implements KeySale: a restart is a stutter.
THEOREM SweptPromise == SweepSpec => KeepsSalePromise
<1>1. SweepInv /\ SweepInv' /\ [SweepNext]_allVars => SaleStep
  <2> SUFFICES ASSUME SweepInv, SweepInv', [SweepNext]_allVars PROVE SaleStep
    OBVIOUS
  <2>1. [Next]_vars \/ AllRollBack
    BY SweepStep DEF SweepInv
  <2>2. CASE [Next]_vars
    BY <2>2, SaleSteps DEF SweepInv
  <2>3. CASE AllRollBack
    BY <2>3 DEF AllRollBack, orderVars, keyVars, SaleStep, SoldKeys, SoldTo
  <2> QED BY <2>1, <2>2, <2>3
<1>2. SweepSpec => SweepInit /\ [][SweepNext]_allVars
  BY PTL DEF SweepSpec
<1>3. SweepInit => Sale!Init
  BY SaleInit DEF SweepInit
<1> QED BY <1>1, <1>2, <1>3, SaleStepMeaning, SweepInvariant, PTL
        DEF KeepsSalePromise, Sale!Spec
=============================================================================
