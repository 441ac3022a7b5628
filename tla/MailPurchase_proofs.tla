------------------------- MODULE MailPurchase_proofs -------------------------
(***************************************************************************)
(* Proofs about renting mail boxes: the provider is asked once, deliveries *)
(* are whole, a day stays within its limit, and MailPurchase implements    *)
(* ServeOrRefund, for any number of requests, calls and boxes.             *)
(***************************************************************************)
EXTENDS MailPurchase, FiniteSetTheorems, TLAPS

\* A call that is about to ask the provider is the only one for its purchase,
\* which has been paid and has not been asked for.
Buying(c) == call[c].step = "buy"
BuyersPaid ==
  \A c \in Calls : Buying(c) => status[call[c].for] # "none" /\ asked[call[c].for] = 0
BuyersApart ==
  \A c, d \in Calls : Buying(c) /\ Buying(d) /\ call[c].for = call[d].for => c = d

\* Only a delivered purchase has boxes, and it has as many as were ordered.
OnlyDelivered ==
  \A r \in Requests :
    IF status[r] = "DELIVERED" THEN Cardinality(BoxesOf(r)) = Quantity[r] ELSE BoxesOf(r) = {}

\* The provider's answer was counted before it is stored.
AnswersWhole ==
  \A c \in Calls : call[c].step = "answered" =>
    Cardinality(call[c].boxes) = Quantity[call[c].for]

\* The inductive invariant.
MailInv ==
  /\ TypeOK /\ AskedOnce /\ BuyersPaid /\ BuyersApart /\ OnlyDelivered /\ AnswersWhole

LEMMA Amounts ==
  /\ \A r \in Requests : Price[r] \in Nat /\ Renter[r] \in Users
  /\ Price = [r \in Requests |-> Price[r]] /\ Purse \in [Users -> Nat]
BY MailAssumption DEF Price

LEMMA CallTyped ==
  ASSUME TypeOK, NEW c \in Calls
  PROVE  /\ call[c] \in CallStates
         /\ call[c].step # "idle" => call[c].for \in Requests
         /\ call[c].step = "answered" => call[c].boxes \subseteq Boxes
BY DEF TypeOK, CallStates, Idle

\* A call goes on in a way that is not asking the provider.
LEMMA CallMoved ==
  ASSUME MailInv, NEW c \in Calls, NEW s \in CallStates, s.step \notin {"buy", "answered"},
         call' = [call EXCEPT ![c] = s], UNCHANGED asked,
         \A r \in Requests : status[r] # "none" => status'[r] # "none"
  PROVE  call' \in [Calls -> CallStates] /\ AskedOnce' /\ BuyersPaid' /\ BuyersApart' /\ AnswersWhole'
<1>1. \A d \in Calls : d # c => call'[d] = call[d]
  BY DEF MailInv, TypeOK
<1>2. call'[c] = s /\ call' \in [Calls -> CallStates]
  BY DEF MailInv, TypeOK
<1>3. AskedOnce'
  BY DEF MailInv, AskedOnce
<1>4. BuyersPaid'
  <2> SUFFICES ASSUME NEW d \in Calls, Buying(d)'
               PROVE  status'[call'[d].for] # "none" /\ asked'[call'[d].for] = 0
    BY DEF BuyersPaid
  <2>1. d # c /\ call'[d] = call[d]
    BY <1>1, <1>2 DEF Buying
  <2>2. call[d].for \in Requests
    BY <2>1, CallTyped DEF MailInv, Buying
  <2> QED BY <2>1, <2>2 DEF MailInv, BuyersPaid, Buying
<1>5. BuyersApart'
  BY <1>1, <1>2 DEF MailInv, BuyersApart, Buying
<1>6. AnswersWhole'
  BY <1>1, <1>2 DEF MailInv, AnswersWhole
<1> QED BY <1>2, <1>3, <1>4, <1>5, <1>6

\* A purchase changes its status without boxes changing hands.
LEMMA NobodyServed ==
  ASSUME MailInv, UNCHANGED boxOf,
         \A r \in Requests : status'[r] # status[r] => "DELIVERED" \notin {status[r], status'[r]}
  PROVE  OnlyDelivered'
BY DEF MailInv, OnlyDelivered, BoxesOf

-----------------------------------------------------------------------------
(* One lemma for each action.                                              *)

LEMMA InitMail == Init => MailInv
<1> SUFFICES ASSUME Init PROVE MailInv
  OBVIOUS
<1>1. TypeOK
  BY MailAssumption DEF Init, TypeOK, Statuses, CallStates
<1>2. AskedOnce /\ BuyersPaid /\ BuyersApart /\ AnswersWhole
  BY DEF Init, AskedOnce, BuyersPaid, BuyersApart, AnswersWhole, Buying, Idle
<1>3. OnlyDelivered
  BY MailAssumption DEF Init, OnlyDelivered, BoxesOf
<1> QED BY <1>1, <1>2, <1>3 DEF MailInv

LEMMA KeptRent == ASSUME MailInv, NEW c \in Calls, NEW r \in Requests, Rent(c, r) PROVE MailInv'
<1> DEFINE s == [step |-> "claim", for |-> r, stock |-> stock]
<1>1. s \in CallStates /\ s.step = "claim" /\ call' = [call EXCEPT ![c] = s]
  BY DEF CallStates, MailInv, TypeOK, Rent
<1> HIDE DEF s
<1>2. call' \in [Calls -> CallStates] /\ AskedOnce' /\ BuyersPaid' /\ BuyersApart' /\ AnswersWhole'
  BY <1>1, CallMoved DEF Rent
<1>3. OnlyDelivered'
  BY NobodyServed DEF Rent
<1>4. TypeOK'
  BY <1>2 DEF MailInv, TypeOK, Rent
<1> QED BY <1>2, <1>3, <1>4 DEF MailInv

LEMMA KeptDeclined == ASSUME MailInv, NEW c \in Calls, Declined(c) PROVE MailInv'
<1>1. Idle \in CallStates /\ Idle.step = "idle" /\ call' = [call EXCEPT ![c] = Idle]
  BY DEF CallStates, Idle, Declined
<1>2. call' \in [Calls -> CallStates] /\ AskedOnce' /\ BuyersPaid' /\ BuyersApart' /\ AnswersWhole'
  BY <1>1, CallMoved DEF Declined
<1>3. OnlyDelivered'
  BY NobodyServed DEF Declined
<1>4. TypeOK'
  BY <1>2 DEF MailInv, TypeOK, Declined
<1> QED BY <1>2, <1>3, <1>4 DEF MailInv

LEMMA KeptClaim == ASSUME MailInv, NEW c \in Calls, Claim(c) PROVE MailInv'
<1>1. PICK r \in Requests : r = call[c].for
  BY CallTyped DEF MailInv, Claim
<1>2. /\ status[r] = "none" /\ balance[Renter[r]] >= Price[r]
      /\ status' = [status EXCEPT ![r] = "REQUESTING"]
      /\ today' = today \cup {r}
      /\ balance' = [balance EXCEPT ![Renter[r]] = @ - Price[r]]
      /\ call' = [call EXCEPT ![c] = [step |-> "buy", for |-> r]]
  BY <1>1 DEF Claim, Affordable
<1>3. UNCHANGED <<boxOf, old, stock, asked>>
  BY DEF Claim
<1>4. asked[r] = 0
  BY <1>2 DEF MailInv, TypeOK, AskedOnce
<1>5. /\ call'[c] = [step |-> "buy", for |-> r]
      /\ \A d \in Calls : d # c => call'[d] = call[d]
  BY <1>2 DEF MailInv, TypeOK
<1>6. \A q \in Requests : status'[q] = IF q = r THEN "REQUESTING" ELSE status[q]
  BY <1>2 DEF MailInv, TypeOK
<1>7. TypeOK'
  <2>1. call' \in [Calls -> CallStates]
    BY <1>2 DEF MailInv, TypeOK, CallStates
  <2>2. status' \in [Requests -> Statuses]
    BY <1>2 DEF MailInv, TypeOK, Statuses
  <2>3. balance' \in [Users -> Nat]
    <3>1. Renter[r] \in Users /\ Price[r] \in Nat /\ balance \in [Users -> Nat]
      BY Amounts DEF MailInv, TypeOK
    <3>2. balance[Renter[r]] - Price[r] \in Nat
      BY <1>2, <3>1
    <3> QED BY <1>2, <3>1, <3>2
  <2> QED BY <1>2, <1>3, <2>1, <2>2, <2>3 DEF MailInv, TypeOK
<1>8. AskedOnce'
  BY <1>3, <1>6 DEF MailInv, AskedOnce
<1>9. \A d \in Calls : d # c /\ Buying(d) => call[d].for \in Requests /\ call[d].for # r
  <2> TAKE d \in Calls
  <2> HAVE d # c /\ Buying(d)
  <2> QED BY <1>2, CallTyped DEF MailInv, BuyersPaid, Buying
<1>10. BuyersPaid'
  BY <1>3, <1>4, <1>5, <1>6, <1>9 DEF MailInv, BuyersPaid, Buying
<1>11. BuyersApart'
  BY <1>5, <1>9 DEF MailInv, BuyersApart, Buying
<1>12. AnswersWhole'
  BY <1>5 DEF MailInv, AnswersWhole
<1>13. OnlyDelivered'
  BY <1>2, <1>3, <1>6, NobodyServed
<1> QED BY <1>7, <1>8, <1>10, <1>11, <1>12, <1>13 DEF MailInv

LEMMA KeptBuy == ASSUME MailInv, NEW c \in Calls, Buy(c) PROVE MailInv'
<1>1. PICK r \in Requests : r = call[c].for
  BY CallTyped DEF MailInv, Buy
<1>2. Buying(c) /\ asked[r] = 0 /\ status[r] # "none"
  BY <1>1 DEF Buy, Buying, MailInv, BuyersPaid
<1>3. PICK s \in CallStates :
        /\ call' = [call EXCEPT ![c] = s] /\ s.step \in {"answered", "failed"} /\ s.for = r
        /\ s.step = "answered" => Cardinality(s.boxes) = Quantity[r]
  <2>1. CASE call' = [call EXCEPT ![c] = [step |-> "failed", for |-> r]]
    <3> DEFINE s == [step |-> "failed", for |-> r]
    <3>1. s \in CallStates
      BY DEF CallStates
    <3> QED BY <2>1, <3>1
  <2>2. CASE \E S \in kSubset(Quantity[r], Boxes) :
               call' = [call EXCEPT ![c] = [step |-> "answered", for |-> r, boxes |-> S]]
    <3>1. PICK S \in SUBSET Boxes : /\ Cardinality(S) = Quantity[r]
               /\ call' = [call EXCEPT ![c] = [step |-> "answered", for |-> r, boxes |-> S]]
      BY <2>2 DEF kSubset
    <3> DEFINE s == [step |-> "answered", for |-> r, boxes |-> S]
    <3>2. s \in CallStates
      BY DEF CallStates
    <3> QED BY <3>1, <3>2
  <2> QED BY <1>1, <2>1, <2>2 DEF Buy
<1>4. /\ asked' = [asked EXCEPT ![r] = @ + 1]
      /\ UNCHANGED <<status, boxOf, balance, today, old>>
  BY <1>1 DEF Buy
<1>5. stock' \in 0..MaxStock
  <2>1. Quantity[r] \in Nat /\ stock \in 0..MaxStock /\ MaxStock \in Nat
    BY MailAssumption DEF MailInv, TypeOK
  <2>2. stock' = stock \/ (Quantity[r] <= stock /\ stock' = stock - Quantity[r])
    BY <1>1 DEF Buy
  <2> QED BY <2>1, <2>2
<1>6. call' \in [Calls -> CallStates] /\ asked' \in [Requests -> Nat]
  BY <1>3, <1>4 DEF MailInv, TypeOK
<1>7. TypeOK'
  BY <1>4, <1>5, <1>6 DEF MailInv, TypeOK
<1>8. asked'[r] = 1 /\ \A q \in Requests : q # r => asked'[q] = asked[q]
  BY <1>2, <1>4 DEF MailInv, TypeOK
<1>9. AskedOnce'
  BY <1>2, <1>4, <1>8 DEF MailInv, AskedOnce
<1>10. call'[c] = s /\ \A d \in Calls : d # c => call'[d] = call[d]
  BY <1>3 DEF MailInv, TypeOK
<1>11. BuyersPaid' /\ BuyersApart'
  <2>1. ~Buying(c)'
    BY <1>3, <1>10 DEF Buying
  <2>2. \A d \in Calls : d # c /\ Buying(d) => call[d].for \in Requests /\ call[d].for # r
    BY <1>1, <1>2, CallTyped DEF MailInv, BuyersApart, Buying
  <2>3. BuyersPaid'
    BY <1>4, <1>8, <1>10, <2>1, <2>2 DEF MailInv, BuyersPaid, Buying
  <2>4. BuyersApart'
    BY <1>10, <2>1 DEF MailInv, BuyersApart, Buying
  <2> QED BY <2>3, <2>4
<1>12. AnswersWhole'
  BY <1>3, <1>10 DEF MailInv, AnswersWhole
<1>13. OnlyDelivered'
  BY <1>4, NobodyServed
<1> QED BY <1>7, <1>9, <1>11, <1>12, <1>13 DEF MailInv

LEMMA KeptDeliver == ASSUME MailInv, NEW c \in Calls, Deliver(c) PROVE MailInv'
<1>1. PICK r \in Requests, S \in SUBSET Boxes : r = call[c].for /\ S = call[c].boxes
  BY CallTyped DEF MailInv, Deliver
<1>2. UNCHANGED <<balance, today, old, stock, asked>>
  BY DEF Deliver
<1>3. Cardinality(S) = Quantity[r]
  BY <1>1 DEF MailInv, AnswersWhole, Deliver
<1>4. CASE Deliverable(r, S)
  <2>1. /\ boxOf' = [b \in Boxes |-> IF b \in S THEN r ELSE boxOf[b]]
        /\ status' = [status EXCEPT ![r] = "DELIVERED"]
        /\ call' = [call EXCEPT ![c] = Idle]
    BY <1>1, <1>4 DEF Deliver
  <2>2. Idle \in CallStates /\ Idle.step = "idle"
    BY DEF CallStates, Idle
  <2>3. \A q \in Requests : status'[q] = IF q = r THEN "DELIVERED" ELSE status[q]
    BY <2>1 DEF MailInv, TypeOK
  <2>4. call' \in [Calls -> CallStates] /\ AskedOnce' /\ BuyersPaid' /\ BuyersApart' /\ AnswersWhole'
    <3>1. \A q \in Requests : status[q] # "none" => status'[q] # "none"
      BY <2>3
    <3>2. UNCHANGED asked /\ call' = [call EXCEPT ![c] = Idle]
      BY <1>2, <2>1
    <3> QED BY <2>2, <3>1, <3>2, CallMoved
  <2>5. TypeOK'
    BY <1>2, <2>1, <2>4 DEF MailInv, TypeOK, Statuses
  <2>6. BoxesOf(r)' = S
    <3>1. BoxesOf(r) = {}
      BY <1>4 DEF MailInv, OnlyDelivered, Deliverable
    <3> QED BY <2>1, <3>1 DEF BoxesOf
  <2>7. \A q \in Requests : q # r => BoxesOf(q)' = BoxesOf(q)
    BY <1>4, <2>1, MailAssumption DEF BoxesOf, Deliverable
  <2>8. OnlyDelivered'
    BY <1>3, <2>3, <2>6, <2>7 DEF MailInv, OnlyDelivered
  <2> QED BY <2>4, <2>5, <2>8 DEF MailInv
<1>5. CASE ~Deliverable(r, S)
  <2> DEFINE s == [step |-> "failed", for |-> r]
  <2>1. call' = [call EXCEPT ![c] = s] /\ UNCHANGED <<status, boxOf>>
    BY <1>1, <1>5 DEF Deliver
  <2>2. s \in CallStates /\ s.step = "failed"
    BY DEF CallStates
  <2> HIDE DEF s
  <2>3. call' \in [Calls -> CallStates] /\ AskedOnce' /\ BuyersPaid' /\ BuyersApart' /\ AnswersWhole'
    BY <1>2, <2>1, <2>2, CallMoved
  <2>4. TypeOK'
    BY <1>2, <2>1, <2>3 DEF MailInv, TypeOK
  <2>5. OnlyDelivered'
    BY <2>1, NobodyServed
  <2> QED BY <2>3, <2>4, <2>5 DEF MailInv
<1> QED BY <1>4, <1>5

LEMMA KeptFail == ASSUME MailInv, NEW c \in Calls, Fail(c) PROVE MailInv'
<1>1. /\ call' = [call EXCEPT ![c] = Idle]
      /\ UNCHANGED <<boxOf, balance, today, old, stock, asked>>
  BY DEF Fail
<1>2. \A r \in Requests : status'[r] = status[r] \/ (status[r] = "REQUESTING" /\ status'[r] = "REVIEW")
  BY DEF Fail
<1>3. Idle \in CallStates /\ Idle.step = "idle"
  BY DEF CallStates, Idle
<1>4. call' \in [Calls -> CallStates] /\ AskedOnce' /\ BuyersPaid' /\ BuyersApart' /\ AnswersWhole'
  BY <1>1, <1>2, <1>3, CallMoved
<1>5. OnlyDelivered'
  BY <1>1, <1>2, NobodyServed
<1>6. status' \in [Requests -> Statuses]
  BY DEF Fail, MailInv, TypeOK, Statuses
<1>7. TypeOK'
  BY <1>1, <1>4, <1>6 DEF MailInv, TypeOK
<1> QED BY <1>4, <1>5, <1>7 DEF MailInv

LEMMA KeptCrash == MailInv /\ Crash => MailInv'
<1> SUFFICES ASSUME MailInv, Crash PROVE MailInv'
  OBVIOUS
<1>1. \A c \in Calls : call'[c].step = "idle"
  BY DEF Crash, Idle
<1>2. AskedOnce' /\ BuyersPaid' /\ BuyersApart' /\ AnswersWhole'
  BY <1>1 DEF Crash, MailInv, AskedOnce, BuyersPaid, BuyersApart, AnswersWhole, Buying
<1>3. OnlyDelivered'
  BY NobodyServed DEF Crash
<1>4. TypeOK'
  BY DEF Crash, MailInv, TypeOK, CallStates
<1> QED BY <1>2, <1>3, <1>4 DEF MailInv

\* What happens outside of calls.
LEMMA KeptOutside ==
  ASSUME MailInv,
         \/ \E r \in Requests : TwoMinutesPass(r) \/ Refund(r)
         \/ Midnight \/ MarkStalePurchases
  PROVE  MailInv'
<1>1. UNCHANGED <<boxOf, call, stock, asked>>
  BY DEF TwoMinutesPass, Refund, Midnight, MarkStalePurchases
<1>2. /\ status' \in [Requests -> Statuses]
      /\ \A r \in Requests : \/ status'[r] = status[r]
                             \/ status[r] \in Open /\ status'[r] \in {"REVIEW", "REFUNDED"}
  <2>1. CASE UNCHANGED status
    BY <2>1 DEF MailInv, TypeOK
  <2>2. CASE \E r \in Requests : Refund(r)
    BY <2>2 DEF MailInv, TypeOK, Refund, Open, Statuses
  <2>3. CASE MarkStalePurchases
    BY <2>3 DEF MailInv, TypeOK, MarkStalePurchases, Overdue, Open, Statuses
  <2> QED BY <2>1, <2>2, <2>3 DEF TwoMinutesPass, Midnight
<1>3. balance' \in [Users -> Nat]
  <2>1. CASE UNCHANGED balance
    BY <2>1 DEF MailInv, TypeOK
  <2>2. CASE \E r \in Requests : Refund(r)
    BY <2>2, Amounts DEF MailInv, TypeOK, Refund
  <2> QED BY <2>1, <2>2 DEF TwoMinutesPass, Midnight, MarkStalePurchases
<1>4. today' \subseteq Requests /\ old' \subseteq Requests
  BY DEF MailInv, TypeOK, TwoMinutesPass, Refund, Midnight, MarkStalePurchases
<1>5. TypeOK'
  BY <1>1, <1>2, <1>3, <1>4 DEF MailInv, TypeOK
<1>6. AskedOnce'
  BY <1>1, <1>2 DEF MailInv, AskedOnce, Open
<1>7. BuyersPaid'
  <2> SUFFICES ASSUME NEW c \in Calls, Buying(c)
               PROVE  status'[call[c].for] # "none" /\ asked[call[c].for] = 0
    BY <1>1 DEF BuyersPaid, Buying
  <2>1. call[c].for \in Requests
    BY CallTyped DEF MailInv, Buying
  <2> QED BY <1>2, <2>1 DEF MailInv, BuyersPaid, Open
<1>8. BuyersApart' /\ AnswersWhole'
  BY <1>1 DEF MailInv, BuyersApart, AnswersWhole, Buying
<1>9. OnlyDelivered'
  BY <1>1, <1>2, NobodyServed DEF Open
<1> QED BY <1>5, <1>6, <1>7, <1>8, <1>9 DEF MailInv

-----------------------------------------------------------------------------
(* The theorems.                                                           *)

\* The invariant holds for any number of requests, calls and boxes.
THEOREM MailKept == Spec => []MailInv
<1>1. Init => MailInv
  BY InitMail
<1>2. MailInv /\ [Next]_vars => MailInv'
  <2> SUFFICES ASSUME MailInv, [Next]_vars PROVE MailInv'
    OBVIOUS
  <2>1. CASE Next
    BY <2>1, KeptRent, KeptClaim, KeptDeclined, KeptBuy, KeptDeliver, KeptFail, KeptCrash,
       KeptOutside DEF Next
  <2>2. CASE UNCHANGED vars
    <3>1. TypeOK'
      BY <2>2 DEF vars, MailInv, TypeOK
    <3>2. AskedOnce' /\ OnlyDelivered'
      BY <2>2 DEF vars, MailInv, AskedOnce, OnlyDelivered, BoxesOf
    <3>3. BuyersPaid' /\ BuyersApart' /\ AnswersWhole'
      BY <2>2 DEF vars, MailInv, BuyersPaid, BuyersApart, AnswersWhole, Buying
    <3> QED BY <3>1, <3>2, <3>3 DEF MailInv
  <2> QED BY <2>1, <2>2
<1> QED BY <1>1, <1>2, PTL DEF Spec

\* The provider is asked at most once for a purchase, and only for one that
\* has been paid, whatever is repeated, lost or dies (rent).
THEOREM ProviderAskedOnce == Spec => []AskedOnce
<1>1. MailInv => AskedOnce
  BY DEF MailInv
<1> QED BY <1>1, MailKept, PTL

\* A purchase gets all of its boxes or none, and a box one purchase (deliver).
THEOREM DeliveriesWhole == Spec => []WholeDeliveries
<1>1. MailInv => WholeDeliveries
  BY FS_EmptySet DEF MailInv, OnlyDelivered, WholeDeliveries
<1> QED BY <1>1, MailKept, PTL

-----------------------------------------------------------------------------
(* Sums of money.  MapThenSumSet is defined by recursion over the subsets  *)
(* of its argument.  What it computes is shown to be the number of         *)
(* elements of a set, one for each unit of money, by taking a minimal      *)
(* subset for which it would not be.                                       *)

\* In a finite set, every collection of subsets has a minimal one.
LEMMA LeastSubset ==
  ASSUME NEW S, IsFiniteSet(S), NEW F \in SUBSET SUBSET S, F # {}
  PROVE  \E s \in F : \A t \in F : t \subseteq s => t = s
<1>1. IsWellFoundedOn(StrictSubsetOrdering(S), SUBSET S)
  BY FS_StrictSubsetOrderingWellFounded, FS_FiniteSubsetsOfFinite
<1>2. PICK s \in F : \A t \in F : ~ (<<t, s>> \in StrictSubsetOrdering(S))
  BY <1>1, WFMin
<1> QED BY <1>2 DEF StrictSubsetOrdering

\* What each purchase amounts to, by cost or by price.
Amount == [Requests -> Nat]
CostOf == [r \in Requests |-> Cost(r)]

LEMMA AmountsTyped == CostOf \in Amount /\ Price \in Amount
BY MailAssumption DEF CostOf, Cost, Price, Amount

\* The units of money of one purchase, and of the purchases T.
UnitsOf(a, r) == {r} \X (1 .. a[r])
Units(a, T) == UNION {UnitsOf(a, r) : r \in T}

LEMMA UnitsNone ==
  ASSUME NEW a
  PROVE  IsFiniteSet(Units(a, {})) /\ Cardinality(Units(a, {})) = 0
<1>1. Units(a, {}) = {}
  BY DEF Units
<1> QED BY <1>1, FS_EmptySet

LEMMA UnitsOne ==
  ASSUME NEW a \in Amount, NEW r \in Requests
  PROVE  IsFiniteSet(UnitsOf(a, r)) /\ Cardinality(UnitsOf(a, r)) = a[r]
<1>1. PICK n \in Nat : a[r] = n
  BY DEF Amount
<1>2. IsFiniteSet(1 .. n) /\ Cardinality(1 .. n) = n
  <2>1. 1 \in Int /\ n \in Int
    OBVIOUS
  <2>2. /\ IsFiniteSet(1 .. n)
        /\ Cardinality(1 .. n) = IF 1 > n THEN 0 ELSE n - 1 + 1
    BY <2>1, FS_Interval, Zenon
  <2> QED BY <2>2
<1>3. IsFiniteSet({r}) /\ Cardinality({r}) = 1
  BY FS_Singleton
<1>4. /\ IsFiniteSet({r} \X (1 .. n))
      /\ Cardinality({r} \X (1 .. n)) = Cardinality({r}) * Cardinality(1 .. n)
  BY <1>2, <1>3, FS_Product, Zenon
<1>5. Cardinality({r} \X (1 .. n)) = n
  BY <1>2, <1>3, <1>4
<1> QED BY <1>1, <1>4, <1>5 DEF UnitsOf

LEMMA UnitsAdded ==
  ASSUME NEW a \in Amount, NEW T \in SUBSET Requests, NEW r \in Requests \ T,
         IsFiniteSet(Units(a, T))
  PROVE  /\ IsFiniteSet(Units(a, T \cup {r}))
         /\ Cardinality(Units(a, T \cup {r})) = a[r] + Cardinality(Units(a, T))
<1>1. Units(a, T \cup {r}) = Units(a, T) \cup UnitsOf(a, r)
  BY DEF Units
<1>2. Units(a, T) \cap UnitsOf(a, r) = {}
  BY DEF Units, UnitsOf
<1>3. PICK A, B : A = Units(a, T) /\ B = UnitsOf(a, r)
  OBVIOUS
<1>4. /\ IsFiniteSet(A \cup B)
      /\ Cardinality(A \cup B) = Cardinality(A) + Cardinality(B) - Cardinality(A \cap B)
  BY <1>3, UnitsOne, FS_Union
<1>5. /\ Cardinality(A \cap B) = 0 /\ Cardinality(A) \in Nat
      /\ Cardinality(B) = a[r] /\ a[r] \in Nat
  BY <1>2, <1>3, UnitsOne, FS_EmptySet, FS_CardinalityType DEF Amount
<1>6. Cardinality(A \cup B) = a[r] + Cardinality(A)
  BY <1>4, <1>5
<1>7. Units(a, T \cup {r}) = A \cup B /\ Units(a, T) = A
  BY <1>1, <1>3
<1> QED BY <1>4, <1>6, <1>7

LEMMA UnitsFinite ==
  ASSUME NEW a \in Amount, NEW T \in SUBSET Requests, IsFiniteSet(T)
  PROVE  IsFiniteSet(Units(a, T))
<1> SUFFICES ASSUME ~IsFiniteSet(Units(a, T)) PROVE FALSE
  OBVIOUS
<1>1. PICK F \in SUBSET SUBSET T : F = {s \in SUBSET T : ~IsFiniteSet(Units(a, s))}
  OBVIOUS
<1>2. PICK s \in F : \A t \in F : t \subseteq s => t = s
  BY <1>1, LeastSubset
<1>3. s # {}
  BY <1>1, UnitsNone
<1>4. PICK r \in s : TRUE
  BY <1>3
<1>5. s \ {r} \notin F /\ s = (s \ {r}) \cup {r} /\ s \in SUBSET Requests
  BY <1>2
<1>6. IsFiniteSet(Units(a, s \ {r}))
  BY <1>1, <1>5
<1> QED BY <1>1, <1>5, <1>6, UnitsAdded

Pick(s) == CHOOSE r \in s : TRUE

\* f sums the amounts of every subset of T, in the order MapThenSumSet takes.
Sums(f, a, T) ==
  f = [s \in SUBSET T |-> IF s = {} THEN 0 ELSE a[Pick(s)] + f[s \ {Pick(s)}]]

\* There is such a function, and all of them count units.
LEMMA SumsCount ==
  ASSUME NEW a \in Amount, NEW T \in SUBSET Requests, IsFiniteSet(T)
  PROVE  /\ \E f : Sums(f, a, T)
         /\ \A f : Sums(f, a, T) => f[T] = Cardinality(Units(a, T))
<1>1. \A s \in SUBSET T :
        /\ s = {} => Cardinality(Units(a, s)) = 0
        /\ s # {} => /\ Pick(s) \in s
                     /\ Cardinality(Units(a, s))
                          = a[Pick(s)] + Cardinality(Units(a, s \ {Pick(s)}))
  <2> TAKE s \in SUBSET T
  <2>1. s = {} => Cardinality(Units(a, s)) = 0
    BY UnitsNone
  <2>2. ASSUME s # {}
        PROVE  /\ Pick(s) \in s
               /\ Cardinality(Units(a, s)) = a[Pick(s)] + Cardinality(Units(a, s \ {Pick(s)}))
    <3>1. PICK r \in s : r = Pick(s)
      BY <2>2 DEF Pick
    <3>2. /\ IsFiniteSet(s \ {r}) /\ s \ {r} \in SUBSET Requests
          /\ r \in Requests \ (s \ {r}) /\ s = (s \ {r}) \cup {r}
      BY FS_Subset
    <3> QED BY <3>1, <3>2, UnitsFinite, UnitsAdded
  <2> QED BY <2>1, <2>2
<1>2. Sums([s \in SUBSET T |-> Cardinality(Units(a, s))], a, T)
  BY <1>1 DEF Sums
<1>3. ASSUME NEW f, Sums(f, a, T), f[T] # Cardinality(Units(a, T)) PROVE FALSE
  <2>1. \A s \in SUBSET T : f[s] = IF s = {} THEN 0 ELSE a[Pick(s)] + f[s \ {Pick(s)}]
    BY <1>3 DEF Sums
  <2>2. PICK F \in SUBSET SUBSET T : F = {s \in SUBSET T : f[s] # Cardinality(Units(a, s))}
    OBVIOUS
  <2>3. PICK s \in F : \A t \in F : t \subseteq s => t = s
    BY <1>3, <2>2, LeastSubset
  <2>4. s # {}
    BY <1>1, <2>1, <2>2
  <2>5. Pick(s) \in s
    BY <1>1, <2>4
  <2>6. s \ {Pick(s)} \notin F
    BY <2>3, <2>5
  <2> QED BY <1>1, <2>1, <2>2, <2>4, <2>6
<1> QED BY <1>2, <1>3

LEMMA PriceSum ==
  ASSUME NEW T \in SUBSET Requests, IsFiniteSet(T)
  PROVE  MapThenSumSet(LAMBDA r : Price[r], T) = Cardinality(Units(Price, T))
<1>1. MapThenSumSet(LAMBDA r : Price[r], T) = (CHOOSE f : Sums(f, Price, T))[T]
  BY DEF MapThenSumSet, MapThenFoldSet, Sums, Pick
<1>2. PICK f : f = (CHOOSE g : Sums(g, Price, T)) /\ Sums(f, Price, T)
  BY SumsCount, AmountsTyped
<1> QED BY <1>1, <1>2, SumsCount, AmountsTyped

LEMMA CostSum ==
  ASSUME NEW T \in SUBSET Requests, IsFiniteSet(T)
  PROVE  MapThenSumSet(Cost, T) = Cardinality(Units(CostOf, T))
<1> DEFINE Fold(f) ==
      f = [s \in SUBSET T |-> IF s = {} THEN 0 ELSE Cost(Pick(s)) + f[s \ {Pick(s)}]]
<1>1. MapThenSumSet(Cost, T) = (CHOOSE f : Fold(f))[T]
  BY DEF MapThenSumSet, MapThenFoldSet, Pick
<1>2. \A f : Fold(f) <=> Sums(f, CostOf, T)
  <2>1. \A s \in SUBSET T : s # {} => Cost(Pick(s)) = CostOf[Pick(s)]
    BY DEF Pick, CostOf
  <2> QED BY <2>1 DEF Sums
<1> HIDE DEF Fold
<1>3. PICK f : f = (CHOOSE g : Fold(g)) /\ Fold(f)
  BY <1>2, SumsCount, AmountsTyped
<1> QED BY <1>1, <1>2, <1>3, SumsCount, AmountsTyped

-----------------------------------------------------------------------------
(* The daily limit.                                                        *)

\* The inductive invariant of the daily limit.
BudgetInv == TypeOK /\ IsFiniteSet(today) /\ DayWithinBudget

\* Nobody but a claim, which checks the limit, and midnight changes today.
LEMMA BudgetStep ==
  ASSUME BudgetInv, TypeOK', Next
  PROVE  IsFiniteSet(today)' /\ DayWithinBudget'
<1> PICK T \in SUBSET Requests : T = today /\ IsFiniteSet(T)
  BY DEF BudgetInv, TypeOK
<1>1. ASSUME today' = T PROVE IsFiniteSet(today)' /\ DayWithinBudget'
  BY <1>1 DEF BudgetInv, DayWithinBudget, Spent
<1>2. ASSUME NEW c \in Calls, Claim(c) PROVE IsFiniteSet(today)' /\ DayWithinBudget'
  <2>1. PICK r \in Requests : call[c].for = r
    BY <1>2, CallTyped DEF BudgetInv, Claim
  <2>2. today' = T \cup {r} /\ Cost(r) + MapThenSumSet(Cost, T) <= MaxDailyCost
    BY <1>2, <2>1 DEF Claim, Affordable, Spent
  <2>3. CASE r \in T
    BY <1>1, <2>2, <2>3
  <2>4. CASE r \notin T
    <3>1. /\ IsFiniteSet(T \cup {r}) /\ T \cup {r} \in SUBSET Requests
          /\ IsFiniteSet(Units(CostOf, T))
      BY FS_AddElement, UnitsFinite, AmountsTyped
    <3>2. MapThenSumSet(Cost, T \cup {r}) = Cost(r) + MapThenSumSet(Cost, T)
      <4>1. Cardinality(Units(CostOf, T \cup {r})) = CostOf[r] + Cardinality(Units(CostOf, T))
        BY <2>4, <3>1, UnitsAdded, AmountsTyped
      <4>2. CostOf[r] = Cost(r)
        BY DEF CostOf
      <4> QED BY <3>1, <4>1, <4>2, CostSum
    <3> QED BY <2>2, <3>1, <3>2 DEF DayWithinBudget, Spent
  <2> QED BY <2>3, <2>4
<1>3. CASE Midnight
  <2>1. today' = {}
    BY <1>3 DEF Midnight
  <2>2. IsFiniteSet({}) /\ MapThenSumSet(Cost, {}) = 0
    BY CostSum, UnitsNone, FS_EmptySet
  <2> QED BY <2>1, <2>2, MailAssumption DEF DayWithinBudget, Spent
<1>4. CASE ~Midnight /\ ~\E c \in Calls : Claim(c)
  <2>1. today' = T
    BY <1>4 DEF Next, Rent, Declined, Buy, Deliver, Fail, Crash, TwoMinutesPass, Refund,
                MarkStalePurchases
  <2> QED BY <1>1, <2>1
<1> QED BY <1>2, <1>3, <1>4

\* What is bought on a day stays within the day's limit, whatever becomes of
\* the purchases (rent).
THEOREM BudgetKept == Spec => []DayWithinBudget
<1>1. Init => BudgetInv
  <2> SUFFICES ASSUME Init PROVE BudgetInv
    OBVIOUS
  <2>1. today = {}
    BY DEF Init
  <2>2. IsFiniteSet({}) /\ MapThenSumSet(Cost, {}) = 0
    BY CostSum, UnitsNone, FS_EmptySet
  <2>3. DayWithinBudget
    BY <2>1, <2>2, MailAssumption DEF DayWithinBudget, Spent
  <2> QED BY <2>1, <2>2, <2>3, InitMail DEF BudgetInv, MailInv
<1>2. BudgetInv /\ TypeOK' /\ [Next]_vars => BudgetInv'
  <2> SUFFICES ASSUME BudgetInv, TypeOK', [Next]_vars PROVE BudgetInv'
    OBVIOUS
  <2>1. CASE Next
    BY <2>1, BudgetStep DEF BudgetInv
  <2>2. CASE UNCHANGED vars
    BY <2>2 DEF vars, BudgetInv, DayWithinBudget, Spent
  <2> QED BY <2>1, <2>2
<1>3. MailInv => TypeOK
  BY DEF MailInv
<1>4. BudgetInv => DayWithinBudget
  BY DEF BudgetInv
<1> QED BY <1>1, <1>2, <1>3, <1>4, MailKept, PTL DEF Spec

-----------------------------------------------------------------------------
(* MailPurchase implements ServeOrRefund.                                  *)

\* What becomes of the outcome when the status of one purchase changes.
LEMMA OneOutcome ==
  ASSUME NEW r \in Requests, NEW s, status \in [Requests -> Statuses],
         status' = [status EXCEPT ![r] = s]
  PROVE  outcome' = [outcome EXCEPT ![r] = Mapped(s)]
<1>1. \A q \in Requests : status'[q] = IF q = r THEN s ELSE status[q]
  OBVIOUS
<1>2. \A q \in Requests : outcome'[q] = IF q = r THEN Mapped(s) ELSE outcome[q]
  BY <1>1 DEF outcome
<1> QED BY <1>2 DEF outcome

LEMMA SameOutcome ==
  ASSUME status \in [Requests -> Statuses],
         \A r \in Requests : status'[r] = status[r] \/ {status[r], status'[r]} \subseteq Open
  PROVE  outcome' = outcome
<1>1. \A r \in Requests : Mapped(status'[r]) = Mapped(status[r])
  BY DEF Mapped, Open
<1> QED BY <1>1 DEF outcome

LEMMA RentStep ==
  ASSUME TypeOK, [Next]_vars
  PROVE  Promise!Next \/ UNCHANGED <<outcome, balance>>
<1> USE DEF TypeOK
<1>1. CASE \E c \in Calls : Claim(c)
  <2>1. PICK c \in Calls : Claim(c)
    BY <1>1
  <2>2. PICK r \in Requests : r = call[c].for
    BY <2>1, CallTyped DEF Claim
  <2>3. /\ status[r] = "none" /\ balance[Renter[r]] >= Price[r]
        /\ status' = [status EXCEPT ![r] = "REQUESTING"]
        /\ balance' = [balance EXCEPT ![Renter[r]] = @ - Price[r]]
    BY <2>1, <2>2 DEF Claim, Affordable
  <2>4. outcome[r] = "none" /\ outcome' = [outcome EXCEPT ![r] = "held"]
    BY <2>3, OneOutcome DEF outcome, Mapped, Open
  <2>5. Promise!Charge(r)
    BY <2>3, <2>4 DEF Promise!Charge, outcome, Mapped
  <2> QED BY <2>5 DEF Promise!Next
<1>2. CASE \E c \in Calls : Deliver(c)
  <2>1. PICK c \in Calls : Deliver(c)
    BY <1>2
  <2>2. PICK r \in Requests : r = call[c].for
    BY <2>1, CallTyped DEF Deliver
  <2>3. CASE Deliverable(r, call[c].boxes)
    <3>1. /\ status[r] = "REQUESTING" /\ status' = [status EXCEPT ![r] = "DELIVERED"]
          /\ UNCHANGED balance
      BY <2>1, <2>2, <2>3 DEF Deliver, Deliverable
    <3>2. outcome[r] = "held" /\ outcome' = [outcome EXCEPT ![r] = "served"]
      BY <3>1, OneOutcome DEF outcome, Mapped, Open
    <3>3. Promise!Serve(r)
      BY <3>1, <3>2 DEF Promise!Serve, outcome, Mapped
    <3> QED BY <3>3 DEF Promise!Next
  <2>4. CASE ~Deliverable(r, call[c].boxes)
    BY <2>1, <2>2, <2>4 DEF Deliver, outcome
  <2> QED BY <2>3, <2>4
<1>3. CASE \E r \in Requests : Refund(r)
  <2>1. PICK r \in Requests : Refund(r)
    BY <1>3
  <2>2. /\ status[r] = "REVIEW" /\ status' = [status EXCEPT ![r] = "REFUNDED"]
        /\ balance' = [balance EXCEPT ![Renter[r]] = @ + Price[r]]
    BY <2>1 DEF Refund
  <2>3. outcome[r] = "held" /\ outcome' = [outcome EXCEPT ![r] = "returned"]
    BY <2>2, OneOutcome DEF outcome, Mapped, Open
  <2>4. Promise!GiveBack(r)
    BY <2>2, <2>3 DEF Promise!GiveBack, outcome, Mapped
  <2> QED BY <2>4 DEF Promise!Next
<1>4. CASE (\E c \in Calls : Fail(c)) \/ MarkStalePurchases
  <2>1. UNCHANGED balance
    BY <1>4 DEF Fail, MarkStalePurchases
  <2>2. \A r \in Requests : status'[r] = status[r] \/ {status[r], status'[r]} \subseteq Open
    BY <1>4 DEF Fail, MarkStalePurchases, Overdue, Open
  <2> QED BY <2>1, <2>2, SameOutcome
<1>5. CASE UNCHANGED <<status, balance>>
  BY <1>5 DEF outcome
<1> QED
  BY <1>1, <1>2, <1>3, <1>4, <1>5
     DEF Next, vars, Rent, Declined, Buy, TwoMinutesPass, Crash, Midnight

\* Renting implements ServeOrRefund: the wallet is charged once, and then the
\* boxes come or the price comes back, never both, for any number of requests,
\* of calls that repeat them and of boxes (rent, deliver, refund).
THEOREM RentPromiseKept == Spec => KeepsRentPromise
<1>1. Init => Promise!Init
  BY DEF Init, Promise!Init, outcome, Mapped, Open
<1>2. TypeOK /\ [Next]_vars => [Promise!Next]_<<outcome, balance>>
  BY RentStep
<1>3. MailInv => TypeOK
  BY DEF MailInv
<1> QED BY <1>1, <1>2, <1>3, MailKept, PTL DEF Spec, KeepsRentPromise, Promise!Spec

-----------------------------------------------------------------------------
(* What the wallets have paid, from the promise alone.                     *)

\* The purchases that user u has paid for and not got back.
PaidBy(u) == {r \in Requests : Renter[r] = u /\ outcome[r] \in {"held", "served"}}

WalletExact ==
  \A u \in Users : balance[u] + MapThenSumSet(LAMBDA r : Price[r], PaidBy(u)) = Purse[u]

\* The inductive invariant, in units of money.
WalletInv ==
  \A u \in Users :
    /\ IsFiniteSet(PaidBy(u))
    /\ balance[u] + Cardinality(Units(Price, PaidBy(u))) = Purse[u]

LEMMA WalletStep ==
  ASSUME TypeOK, TypeOK', WalletInv, Promise!Next
  PROVE  WalletInv'
<1>1. PICK r \in Requests : Promise!Charge(r) \/ Promise!Serve(r) \/ Promise!GiveBack(r)
  BY DEF Promise!Next
<1>2. \A q \in Requests \ {r} : outcome'[q] = outcome[q]
  BY <1>1 DEF Promise!Charge, Promise!Serve, Promise!GiveBack, outcome
<1>3. SUFFICES ASSUME NEW u \in Users
               PROVE  /\ IsFiniteSet(PaidBy(u)')
                      /\ balance'[u] + Cardinality(Units(Price, PaidBy(u)')) = Purse[u]
  BY DEF WalletInv, Units, UnitsOf
<1> PICK P, Q \in SUBSET Requests : P = PaidBy(u) /\ Q = PaidBy(u)'
  BY DEF PaidBy
<1>4. IsFiniteSet(P) /\ balance[u] + Cardinality(Units(Price, P)) = Purse[u]
  BY DEF WalletInv
<1>5. \A T \in SUBSET Requests : IsFiniteSet(T) => Cardinality(Units(Price, T)) \in Nat
  BY UnitsFinite, AmountsTyped, FS_CardinalityType
<1>6. balance[u] \in Nat /\ balance'[u] \in Nat /\ Price[r] \in Nat /\ Renter[r] \in Users
  BY Amounts DEF TypeOK
<1>7. ASSUME Q = P, balance'[u] = balance[u]
      PROVE  IsFiniteSet(Q) /\ balance'[u] + Cardinality(Units(Price, Q)) = Purse[u]
  BY <1>4, <1>7
<1>8. CASE Renter[r] # u
  <2>1. balance'[u] = balance[u]
    BY <1>1, <1>8 DEF Promise!Charge, Promise!Serve, Promise!GiveBack, TypeOK
  <2>2. Q = P
    BY <1>2, <1>8 DEF PaidBy
  <2> QED BY <1>7, <2>1, <2>2
<1>9. CASE Renter[r] = u /\ Promise!Serve(r)
  <2>1. outcome[r] = "held" /\ outcome'[r] = "served" /\ balance' = balance
    BY <1>9 DEF Promise!Serve, outcome
  <2>2. Q = P
    BY <1>2, <2>1 DEF PaidBy
  <2> QED BY <1>7, <2>1, <2>2
<1>10. CASE Renter[r] = u /\ Promise!Charge(r)
  <2>1. /\ outcome[r] = "none" /\ outcome'[r] = "held"
        /\ balance[u] >= Price[r] /\ balance'[u] = balance[u] - Price[r]
    BY <1>10 DEF Promise!Charge, outcome, TypeOK
  <2>2. r \notin P /\ Q = P \cup {r}
    BY <1>2, <1>10, <2>1 DEF PaidBy
  <2>3. IsFiniteSet(Q)
    BY <1>4, <2>2, FS_AddElement
  <2>4. IsFiniteSet(Units(Price, P))
    BY <1>4, UnitsFinite, AmountsTyped
  <2>5. Cardinality(Units(Price, Q)) = Price[r] + Cardinality(Units(Price, P))
    BY <2>2, <2>4, UnitsAdded, AmountsTyped
  <2> QED BY <1>4, <1>5, <1>6, <2>1, <2>3, <2>5
<1>11. CASE Renter[r] = u /\ Promise!GiveBack(r)
  <2>1. /\ outcome[r] = "held" /\ outcome'[r] = "returned"
        /\ balance'[u] = balance[u] + Price[r]
    BY <1>11 DEF Promise!GiveBack, outcome, TypeOK
  <2>2. r \notin Q /\ P = Q \cup {r}
    BY <1>2, <1>11, <2>1 DEF PaidBy
  <2>3. IsFiniteSet(Q)
    BY <1>4, <2>2, FS_Subset
  <2>4. IsFiniteSet(Units(Price, Q))
    BY <2>3, UnitsFinite, AmountsTyped
  <2>5. Cardinality(Units(Price, P)) = Price[r] + Cardinality(Units(Price, Q))
    BY <2>2, <2>4, UnitsAdded, AmountsTyped
  <2> QED BY <1>4, <1>5, <1>6, <2>1, <2>3, <2>5
<1> QED BY <1>1, <1>8, <1>9, <1>10, <1>11

\* No money is lost or made: whatever is repeated, answered late or lost, a
\* wallet lacks exactly the price of the purchases that were delivered or are
\* still open (rent, deliver, markStalePurchases, refund).
THEOREM WalletsExact == Spec => []WalletExact
<1>1. Init => WalletInv
  <2> SUFFICES ASSUME Init, NEW u \in Users
               PROVE  /\ IsFiniteSet(PaidBy(u))
                      /\ balance[u] + Cardinality(Units(Price, PaidBy(u))) = Purse[u]
    BY DEF WalletInv
  <2>1. \A r \in Requests : outcome[r] = "none"
    BY DEF Init, outcome, Mapped, Open
  <2>2. PaidBy(u) = {}
    BY <2>1 DEF PaidBy
  <2>3. balance[u] = Purse[u] /\ Purse[u] \in Nat
    BY MailAssumption DEF Init
  <2> QED BY <2>2, <2>3, UnitsNone, FS_EmptySet
<1>2. TypeOK /\ TypeOK' /\ WalletInv /\ [Next]_vars => WalletInv'
  <2> SUFFICES ASSUME TypeOK, TypeOK', WalletInv, [Next]_vars PROVE WalletInv'
    OBVIOUS
  <2>1. CASE Promise!Next
    BY <2>1, WalletStep
  <2>2. CASE UNCHANGED <<outcome, balance>>
    <3>1. \A u \in Users : PaidBy(u)' = PaidBy(u)
      BY <2>2 DEF PaidBy
    <3> QED BY <2>2, <3>1 DEF WalletInv, Units, UnitsOf
  <2> QED BY <2>1, <2>2, RentStep
<1>3. WalletInv => WalletExact
  <2>1. \A u \in Users : PaidBy(u) \in SUBSET Requests
    BY DEF PaidBy
  <2> QED BY <2>1, PriceSum DEF WalletInv, WalletExact
<1>4. MailInv => TypeOK
  BY DEF MailInv
<1> QED BY <1>1, <1>2, <1>3, <1>4, MailKept, PTL DEF Spec
=============================================================================
