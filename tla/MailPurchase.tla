---------------------------- MODULE MailPurchase -----------------------------
(***************************************************************************)
(* Renting mail boxes from a provider that has no idempotency of its own.  *)
(*                                                                         *)
(* A call of rent() reads the provider's stock, claims the purchase in one *)
(* transaction (row REQUESTING, wallet debited), asks the provider outside *)
(* of any transaction and stores the answer in another one.  A call may be *)
(* repeated with the same requestId, an answer may be lost, and the        *)
(* process may die after any step.  What cannot be decided goes to REVIEW, *)
(* where a super administrator may give the money back.                    *)
(*                                                                         *)
(* One offer at fixed cost and price.  Settings, maintenance, locked       *)
(* accounts and changed prices only refuse a claim: see Declined.          *)
(***************************************************************************)
EXTENDS Naturals, FiniteSets, FiniteSetsExt

CONSTANTS
  Requests,      \* purchases, each a pair of user and requestId
  Users,
  Renter,        \* the user of each request
  Quantity,      \* the number of boxes of each request
  Boxes,         \* provider identities of mail boxes
  Calls,         \* calls of rent() that run at the same time
  UnitCost, UnitPrice,
  MaxStock,      \* bound: boxes the provider has at the start
  MaxDailyCost,  \* what the shop may spend in a day
  Purse,         \* wallets at the start
  NoRequest

ASSUME MailAssumption ==
  /\ Renter \in [Requests -> Users]
  /\ Quantity \in [Requests -> Nat \ {0}]
  /\ Purse \in [Users -> Nat]
  /\ NoRequest \notin Requests
  /\ UnitCost \in Nat /\ UnitPrice \in Nat /\ UnitCost <= UnitPrice
  /\ MaxStock \in Nat /\ MaxDailyCost \in Nat

VARIABLES
  status,   \* MailPurchase.status, "none" before the row exists
  boxOf,    \* the purchase each known mail box was delivered for
  balance,  \* User.balance
  today,    \* purchases created since midnight UTC
  old,      \* purchases created more than two minutes ago
  call,     \* where each call of rent() is
  stock,    \* what the provider has left
  asked     \* how often the provider was asked to sell for each purchase

vars == <<status, boxOf, balance, today, old, call, stock, asked>>

Statuses == {"none", "REQUESTING", "DELIVERED", "REVIEW", "REFUNDED"}
Open == {"REQUESTING", "REVIEW"}

Idle == [step |-> "idle"]
CallStates ==
  {Idle}
  \cup [step : {"claim"}, for : Requests, stock : 0..MaxStock]
  \cup [step : {"buy", "failed"}, for : Requests]
  \cup [step : {"answered"}, for : Requests, boxes : SUBSET Boxes]

Price == [r \in Requests |-> Quantity[r] * UnitPrice]
Cost(r) == Quantity[r] * UnitCost
BoxesOf(r) == {b \in Boxes : boxOf[b] = r}

-----------------------------------------------------------------------------
(* A call of rent().                                                       *)

\* The first look: a known requestId is answered at once, without a step.
Rent(c, r) ==
  /\ call[c] = Idle
  /\ status[r] = "none"
  /\ call' = [call EXCEPT ![c] = [step |-> "claim", for |-> r, stock |-> stock]]
  /\ UNCHANGED <<status, boxOf, balance, today, old, stock, asked>>

Reserved == MapThenSumSet(LAMBDA r : Quantity[r],
                          {r \in Requests : status[r] = "REQUESTING"})

Spent == MapThenSumSet(Cost, today)

\* Mutant: only unanswered purchases count against the daily limit.
AffordableOpen(r) ==
  /\ Cost(r) + MapThenSumSet(Cost, {q \in today : status[q] = "REQUESTING"}) <= MaxDailyCost
  /\ balance[Renter[r]] >= Price[r]

Affordable(r) ==
  /\ Cost(r) + Spent <= MaxDailyCost
  /\ balance[Renter[r]] >= Price[r]

HasOpenPurchase(u) == \E r \in Requests : Renter[r] = u /\ status[r] \in Open

\* Mutant: a replay found under the lock is sent to the provider again.
ClaimResending(c) ==
  /\ call[c].step = "claim"
  /\ LET r == call[c].for IN
       /\ \/ status[r] # "none" /\ UNCHANGED <<status, balance, today>>
          \/ /\ status[r] = "none"
             /\ ~HasOpenPurchase(Renter[r])
             /\ call[c].stock >= Reserved + Quantity[r]
             /\ Affordable(r)
             /\ status' = [status EXCEPT ![r] = "REQUESTING"]
             /\ today' = today \cup {r}
             /\ balance' = [balance EXCEPT ![Renter[r]] = @ - Price[r]]
       /\ call' = [call EXCEPT ![c] = [step |-> "buy", for |-> r]]
  /\ UNCHANGED <<boxOf, old, stock, asked>>

\* The claiming transaction; the stock it trusts was read before the lock.
Claim(c) ==
  /\ call[c].step = "claim"
  /\ LET r == call[c].for IN
       /\ status[r] = "none"
       /\ ~HasOpenPurchase(Renter[r])
       /\ call[c].stock >= Reserved + Quantity[r]
       /\ Affordable(r)
       /\ status' = [status EXCEPT ![r] = "REQUESTING"]
       /\ today' = today \cup {r}
       /\ balance' = [balance EXCEPT ![Renter[r]] = @ - Price[r]]
       /\ call' = [call EXCEPT ![c] = [step |-> "buy", for |-> r]]
  /\ UNCHANGED <<boxOf, old, stock, asked>>

\* A guard of the claim fails, the requestId is known by now, or an exception.
Declined(c) ==
  /\ call[c].step = "claim"
  /\ call' = [call EXCEPT ![c] = Idle]
  /\ UNCHANGED <<status, boxOf, balance, today, old, stock, asked>>

\* The provider sells or not; its answer arrives or is lost, names as many
\* boxes as were ordered or is refused, and may repeat boxes sold before.
Buy(c) ==
  /\ call[c].step = "buy"
  /\ LET r == call[c].for IN
       /\ asked' = [asked EXCEPT ![r] = @ + 1]
       /\ \/ /\ Quantity[r] <= stock
             /\ stock' = stock - Quantity[r]
             /\ \/ \E S \in kSubset(Quantity[r], Boxes) :
                     call' = [call EXCEPT ![c] =
                                [step |-> "answered", for |-> r, boxes |-> S]]
                \/ call' = [call EXCEPT ![c] = [step |-> "failed", for |-> r]]
          \/ /\ call' = [call EXCEPT ![c] = [step |-> "failed", for |-> r]]
             /\ UNCHANGED stock
  /\ UNCHANGED <<status, boxOf, balance, today, old>>

Deliverable(r, S) == status[r] = "REQUESTING" /\ \A b \in S : boxOf[b] = NoRequest

\* Mutant: the answer is stored whatever has become of the purchase.
DeliverLate(c) ==
  /\ call[c].step = "answered"
  /\ LET r == call[c].for
         S == call[c].boxes IN
       IF \A b \in S : boxOf[b] = NoRequest
       THEN /\ boxOf' = [b \in Boxes |-> IF b \in S THEN r ELSE boxOf[b]]
            /\ status' = [status EXCEPT ![r] = "DELIVERED"]
            /\ call' = [call EXCEPT ![c] = Idle]
       ELSE /\ call' = [call EXCEPT ![c] = [step |-> "failed", for |-> r]]
            /\ UNCHANGED <<status, boxOf>>
  /\ UNCHANGED <<balance, today, old, stock, asked>>

\* Mutant: boxes that are known already are handed over again.
DeliverKnown(c) ==
  /\ call[c].step = "answered"
  /\ LET r == call[c].for IN
       IF status[r] = "REQUESTING"
       THEN /\ boxOf' = [b \in Boxes |-> IF b \in call[c].boxes THEN r ELSE boxOf[b]]
            /\ status' = [status EXCEPT ![r] = "DELIVERED"]
            /\ call' = [call EXCEPT ![c] = Idle]
       ELSE /\ call' = [call EXCEPT ![c] = [step |-> "failed", for |-> r]]
            /\ UNCHANGED <<status, boxOf>>
  /\ UNCHANGED <<balance, today, old, stock, asked>>

\* All boxes are new and the purchase still waits, or nothing is stored.
Deliver(c) ==
  /\ call[c].step = "answered"
  /\ LET r == call[c].for
         S == call[c].boxes IN
       IF Deliverable(r, S)
       THEN /\ boxOf' = [b \in Boxes |-> IF b \in S THEN r ELSE boxOf[b]]
            /\ status' = [status EXCEPT ![r] = "DELIVERED"]
            /\ call' = [call EXCEPT ![c] = Idle]
       ELSE /\ call' = [call EXCEPT ![c] = [step |-> "failed", for |-> r]]
            /\ UNCHANGED <<status, boxOf>>
  /\ UNCHANGED <<balance, today, old, stock, asked>>

\* Whatever went wrong after the claim: the purchase waits for a person.
Fail(c) ==
  /\ call[c].step = "failed"
  /\ status' = [r \in Requests |-> IF r = call[c].for /\ status[r] = "REQUESTING"
                                   THEN "REVIEW" ELSE status[r]]
  /\ call' = [call EXCEPT ![c] = Idle]
  /\ UNCHANGED <<boxOf, balance, today, old, stock, asked>>

Crash ==
  /\ \E c \in Calls : call[c] # Idle
  /\ call' = [c \in Calls |-> Idle]
  /\ UNCHANGED <<status, boxOf, balance, today, old, stock, asked>>

-----------------------------------------------------------------------------
(* Everybody else.                                                         *)

TwoMinutesPass(r) ==
  /\ status[r] # "none" /\ r \notin old
  /\ old' = old \cup {r}
  /\ UNCHANGED <<status, boxOf, balance, today, call, stock, asked>>

Midnight ==
  /\ today # {}
  /\ today' = {}
  /\ UNCHANGED <<status, boxOf, balance, old, call, stock, asked>>

Overdue == {r \in old : status[r] = "REQUESTING"}

\* Mutant: the comparison of dates is the wrong way round.
MarkYoungPurchases ==
  /\ \E r \in Requests \ old : status[r] = "REQUESTING"
  /\ status' = [r \in Requests |-> IF r \notin old /\ status[r] = "REQUESTING"
                                   THEN "REVIEW" ELSE status[r]]
  /\ UNCHANGED <<boxOf, balance, today, old, call, stock, asked>>

\* Any customer who opens the list of mail boxes, or an administrator.
MarkStalePurchases ==
  /\ Overdue # {}
  /\ status' = [r \in Requests |-> IF r \in Overdue THEN "REVIEW" ELSE status[r]]
  /\ UNCHANGED <<boxOf, balance, today, old, call, stock, asked>>

\* The administrator says that nothing was delivered; the row must agree.
Refund(r) ==
  /\ status[r] = "REVIEW"
  /\ BoxesOf(r) = {}
  /\ status' = [status EXCEPT ![r] = "REFUNDED"]
  /\ balance' = [balance EXCEPT ![Renter[r]] = @ + Price[r]]
  /\ UNCHANGED <<boxOf, today, old, call, stock, asked>>

-----------------------------------------------------------------------------
Init ==
  /\ status = [r \in Requests |-> "none"]
  /\ boxOf = [b \in Boxes |-> NoRequest]
  /\ balance = Purse
  /\ today = {} /\ old = {}
  /\ call = [c \in Calls |-> Idle]
  /\ stock = MaxStock
  /\ asked = [r \in Requests |-> 0]

Next ==
  \/ \E c \in Calls, r \in Requests : Rent(c, r)
  \/ \E c \in Calls : Claim(c) \/ Declined(c) \/ Buy(c) \/ Deliver(c) \/ Fail(c)
  \/ \E r \in Requests : TwoMinutesPass(r) \/ Refund(r)
  \/ Crash \/ Midnight \/ MarkStalePurchases

\* Clocks run, and a customer who waits looks at the list again and again.
Fairness ==
  /\ \A r \in Requests : WF_vars(TwoMinutesPass(r))
  /\ WF_vars(MarkStalePurchases)

Spec == Init /\ [][Next]_vars
FairSpec == Spec /\ Fairness

-----------------------------------------------------------------------------
(* Properties.                                                             *)

TypeOK ==
  /\ status \in [Requests -> Statuses]
  /\ boxOf \in [Boxes -> Requests \cup {NoRequest}]
  /\ balance \in [Users -> Nat]
  /\ today \subseteq Requests /\ old \subseteq Requests
  /\ call \in [Calls -> CallStates]
  /\ stock \in 0..MaxStock
  /\ asked \in [Requests -> Nat]

\* The provider, which cannot recognise a repetition, is asked to sell at most
\* once for a purchase, and only for one that has been paid: through repeated
\* and concurrent requests, lost answers and restarts (MailPurchaseService.rent).
AskedOnce ==
  \A r \in Requests : asked[r] <= 1 /\ (asked[r] = 1 => status[r] # "none")

\* A purchase is delivered in full or not at all, and no box is handed over
\* twice, even if the provider repeats itself (MailPurchaseService.deliver).
WholeDeliveries ==
  \A r \in Requests :
    Cardinality(BoxesOf(r)) = IF status[r] = "DELIVERED" THEN Quantity[r] ELSE 0

\* Purchases made since midnight stay within the daily limit together,
\* whatever became of them (rent, the sum of expectedCost).
DayWithinBudget == Spent <= MaxDailyCost

\* No purchase stays REQUESTING for good, even if its process has died
\* (MailInboxService.markStalePurchases).
RequestsEnd == \A r \in Requests : status[r] = "REQUESTING" ~> status[r] # "REQUESTING"

\* The customer's view of a purchase.
Mapped(s) == CASE s = "none"       -> "none"
               [] s \in Open       -> "held"
               [] s = "DELIVERED"  -> "served"
               [] s = "REFUNDED"   -> "returned"

outcome == [r \in Requests |-> Mapped(status[r])]

Promise == INSTANCE ServeOrRefund

\* Renting implements ServeOrRefund: the wallet is charged once and then the
\* boxes come or the price comes back, never both.
KeepsRentPromise == Promise!Spec
=============================================================================
