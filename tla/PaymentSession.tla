--------------------------- MODULE PaymentSession ----------------------------
(***************************************************************************)
(* Changing the payment method of an order, with the Binance Pay gateway   *)
(* in the middle.                                                          *)
(*                                                                         *)
(* OrdersService.applyPaymentMethod fixes a quote and a session version in *)
(* one transaction, talks to the gateway outside of any, and stores the    *)
(* terms in a second one that counts only if the version still stands.     *)
(* Meanwhile the customer may choose again, pay a session that is no       *)
(* longer on the page, or let it close; the gateway reports what happened  *)
(* by a webhook or when asked, each time about a session it knows by its   *)
(* merchantTradeNo, and the answer may be old when it is acted upon.       *)
(*                                                                         *)
(* Amounts that tell Binance ID transfers apart are the subject of module  *)
(* Settlement: a transfer here names its instruction, and its amount may   *)
(* miss the one asked for by as much as the matchers forgive.  Every       *)
(* transaction below holds the arbitration lock throughout and is one      *)
(* action.                                                                 *)
(***************************************************************************)
EXTENDS Integers, FiniteSets

CONSTANTS
  Orders,       \* orders of one customer
  Workers,      \* requests and webhooks that run at the same time
  TradeNos,     \* merchantTradeNo of gateway sessions
  Base,         \* what the orders cost after their coupon, before method discounts
  Coupon,       \* what the coupon took off
  Percents,     \* discounts the shop may give to a method
  Errors,       \* what a Binance ID transfer may miss its amount by and still match
  MaxPerOrder,  \* MAX_PAYMENT_INSTRUCTIONS_PER_ORDER
  MaxPerUser,   \* MAX_UNRESOLVED_INSTRUCTIONS_PER_USER
  MaxVersion,   \* bound: changes of method of one order
  None          \* no session, no transfer

ASSUME SessionAssumption ==
  /\ Base \in Nat \ {0} /\ Coupon \in Nat
  /\ Percents \subseteq 0..99
  /\ Errors \subseteq Int /\ 0 \in Errors
  /\ MaxPerOrder \in Nat /\ MaxPerUser \in Nat /\ MaxVersion \in Nat
  /\ None \notin TradeNos
  /\ None \notin (TradeNos \X {0}) \cup (Orders \X (-1..MaxVersion))

VARIABLES
  status,    \* Order.status; DELIVERED counts as PAID
  invoice,   \* the amounts of Order
  pay,       \* the row of Payment
  sessions,  \* rows of MerchantPaymentSession
  instrs,    \* rows of PaymentInstruction
  transfers, \* rows of IncomingTransfer
  discount,  \* StoreSetting.paymentDiscounts
  gateway,   \* what the gateway knows of each merchantTradeNo
  work       \* what each worker is doing

orderVars == <<status, invoice, pay>>
rowVars == <<sessions, instrs, transfers>>
vars == <<status, invoice, pay, sessions, instrs, transfers, discount, gateway, work>>

Methods == {"binance_pay", "binance_id", "mock"}
ModeOf == [binance_pay |-> "BINANCE", binance_id |-> "BINANCE_ID", mock |-> "MOCK"]
\* The method a payment row stands for; INITIALIZING reads as mock.
MethodOf(mode) == CASE mode = "BINANCE" -> "binance_pay"
                    [] mode = "BINANCE_ID" -> "binance_id"
                    [] OTHER -> "mock"
Idle == [step |-> "idle"]

\* paymentQuote: a method's discount is computed from the price after coupon.
Quote(o, p) ==
  LET coupon == invoice[o].discount - invoice[o].payDiscount
      base == Base + Coupon - coupon
      off == (base * p) \div 100
  IN [total |-> base - off, discount |-> coupon + off, payDiscount |-> off, percent |-> p]

ClaimedBy(o) == {t \in transfers : t.state = "CLAIMED" /\ t.for = o}
InstrsOf(o) == {i \in instrs : i.for = o}
Unresolved == {i \in instrs : pay[i.for].status # "SUCCESS"}
Awaiting(o) == status[o] = "PENDING" /\ pay[o].status = "PENDING" /\ pay[o].ref = None

-----------------------------------------------------------------------------
(* Changing the method.                                                    *)

\* The price of the present session is kept while the method stays.
QuoteFor(o, method) ==
  IF MethodOf(pay[o].mode) = method /\ pay[o].mode # "INITIALIZING"
  THEN Quote(o, invoice[o].percent) ELSE Quote(o, discount[method])

ReusesInstruction(o, method) == method = "binance_id" /\ pay[o].mode = "BINANCE_ID"
ReusesSession(o, method) == method = "binance_pay" /\ pay[o].mode = "BINANCE"

WithinLimits(o) ==
  Cardinality(InstrsOf(o)) < MaxPerOrder /\ Cardinality(Unresolved) < MaxPerUser

Prepare(w, o, method) ==
  /\ work[w] = Idle
  /\ Awaiting(o)
  /\ ~ReusesInstruction(o, method)
  /\ method = "binance_id" => WithinLimits(o)
  /\ pay[o].version < MaxVersion
  /\ pay' = [pay EXCEPT ![o].version = @ + 1]
  /\ work' = [work EXCEPT ![w] =
       IF ReusesSession(o, method) THEN Idle
       ELSE [step |-> IF method = "binance_pay" THEN "register" ELSE "persist",
             for |-> o, method |-> method, version |-> pay[o].version + 1,
             quote |-> QuoteFor(o, method), no |-> None]]
  /\ UNCHANGED <<status, invoice, rowVars, discount, gateway>>

\* The session is recorded before the gateway hears of it.
Register(w, no) ==
  /\ work[w].step = "register"
  /\ \A s \in sessions : s.no # no
  /\ sessions' = sessions \cup {[no |-> no, for |-> work[w].for, quote |-> work[w].quote]}
  /\ work' = [work EXCEPT ![w].step = "gateway", ![w].no = no]
  /\ UNCHANGED <<orderVars, instrs, transfers, discount, gateway>>

\* The gateway opens the session and its answer arrives, or is lost.
GatewayOpens(w) ==
  /\ work[w].step = "gateway"
  /\ gateway' = [gateway EXCEPT ![work[w].no] = "open"]
  /\ \/ work' = [work EXCEPT ![w].step = "persist"]
     \/ work' = [work EXCEPT ![w] = Idle]
  /\ UNCHANGED <<orderVars, rowVars, discount>>

\* An exception, a refusal of the gateway, or the process dies.
Abandon(w) ==
  /\ work[w] # Idle
  /\ work' = [work EXCEPT ![w] = Idle]
  /\ UNCHANGED <<orderVars, rowVars, discount, gateway>>

\* Mutant: the terms of an older session may still be stored.
StillWanted(w) == Awaiting(work[w].for)

\* The condition of persist's update of Payment.
Stands(w) ==
  LET o == work[w].for IN
  /\ Awaiting(o) /\ pay[o].version = work[w].version
  /\ ClaimedBy(o) = {}

Persist(w) ==
  /\ work[w].step = "persist"
  /\ Stands(w)
  /\ LET o == work[w].for
         mode == ModeOf[work[w].method] IN
       /\ pay' = [pay EXCEPT ![o].mode = mode, ![o].amount = work[w].quote.total,
                             ![o].no = IF mode = "BINANCE" THEN work[w].no ELSE @]
       /\ invoice' = [invoice EXCEPT ![o] = work[w].quote]
       /\ instrs' = instrs \cup
            IF mode = "BINANCE_ID"
            THEN {[for |-> o, version |-> work[w].version, quote |-> work[w].quote]}
            ELSE {}
  /\ work' = [work EXCEPT ![w] = Idle]
  /\ UNCHANGED <<status, sessions, transfers, discount, gateway>>

-----------------------------------------------------------------------------
(* The customer and the gateway.                                           *)

PayAtGateway(no) ==
  /\ gateway[no] = "open"
  /\ gateway' = [gateway EXCEPT ![no] = "paid"]
  /\ UNCHANGED <<orderVars, rowVars, discount, work>>

CloseAtGateway(no) ==
  /\ gateway[no] = "open"
  /\ gateway' = [gateway EXCEPT ![no] = "closed"]
  /\ UNCHANGED <<orderVars, rowVars, discount, work>>

SetDiscount(method, p) ==
  /\ method # "mock"
  /\ discount[method] # p
  /\ discount' = [discount EXCEPT ![method] = p]
  /\ UNCHANGED <<orderVars, rowVars, gateway, work>>

-----------------------------------------------------------------------------
(* Money arrives.  A transfer is named by the session or instruction it    *)
(* pays, the snapshot of the terms it was asked under.                     *)

\* observeTransfer: facts that differ from the recorded ones need a person.
Observed(ref, amount) ==
  LET known == {t \in transfers : t.ref = ref} IN
  IF known = {} THEN [ref |-> ref, amount |-> amount, state |-> "OBSERVED",
                      for |-> None, changed |-> FALSE]
  ELSE LET t == CHOOSE x \in known : TRUE IN
    IF t.amount = amount THEN t
    ELSE [t EXCEPT !.state = IF @ = "CLAIMED" THEN @ ELSE "REVIEW", !.changed = TRUE]

Store(t) == {x \in transfers : x.ref # t.ref} \cup {t}

\* Mutant: an order paid by other means is paid again.
AcceptableTwice(o, t) == t.state = "OBSERVED" /\ status[o] # "CANCELLED"

\* Whether settleOrderTransfer takes the transfer for the order.
Acceptable(o, t) ==
  /\ t.state = "OBSERVED" /\ ClaimedBy(o) = {}
  /\ status[o] \in {"PENDING", "EXPIRED"}
  /\ pay[o].status # "SUCCESS" /\ pay[o].ref = None

\* Mutant: the order keeps the terms it has when the money comes.
RestoredNever(o, quote) == invoice[o]

\* The invoice the money was asked under, over the order's own coupon.
Restored(o, quote) ==
  [quote EXCEPT !.discount = invoice[o].discount - invoice[o].payDiscount + quote.payDiscount]

\* settleOrderTransfer restores the terms the money was asked under, if it
\* finds them: a transfer that is not exact pays for the terms as they are.
Settle(o, ref, amount, mode, quote, found) ==
  LET t == Observed(ref, amount) IN
  /\ IF Acceptable(o, t)
     THEN /\ transfers' = Store([t EXCEPT !.state = "CLAIMED", !.for = o])
          /\ status' = [status EXCEPT ![o] = "PAID"]
          /\ invoice' = [invoice EXCEPT ![o] = IF found THEN Restored(o, quote) ELSE @]
          /\ pay' = [pay EXCEPT ![o].status = "SUCCESS",
                       ![o].mode   = IF found THEN mode ELSE @,
                       ![o].amount = IF found THEN quote.total ELSE @,
                       ![o].no  = IF mode = "BINANCE" THEN ref[1] ELSE @,
                       ![o].ref = IF mode = "BINANCE" THEN @ ELSE ref]
     ELSE /\ transfers' = Store([t EXCEPT !.state = IF @ = "OBSERVED" THEN "REVIEW" ELSE @])
          /\ UNCHANGED orderVars
  /\ UNCHANGED <<sessions, instrs, discount, gateway>>

\* Mutant: the amount is read from the order as it is now.
WebhookPaidPresent(s) ==
  /\ gateway[s.no] = "paid"
  /\ Settle(s.for, <<s.no, 0>>, invoice[s.for].total, "BINANCE", s.quote, TRUE)
  /\ UNCHANGED work

\* PAY_SUCCESS, which the gateway may repeat; the amount is the session's.
WebhookPaid(s) ==
  /\ gateway[s.no] = "paid"
  /\ Settle(s.for, <<s.no, 0>>, s.quote.total, "BINANCE", s.quote, TRUE)
  /\ UNCHANGED work

\* The poller finds a Binance ID transfer for an instruction, exact or nearly
\* so, and finds it alike each time.
TransferArrives(i, e) ==
  LET ref == <<i.for, i.version>> IN
  /\ \A t \in transfers : t.ref = ref => t.amount = i.quote.total + e
  /\ Settle(i.for, ref, i.quote.total + e, "BINANCE_ID", i.quote, e = 0)
  /\ UNCHANGED work

\* The mock gateway: no transfer, markOrderPaid alone.
ConfirmMock(o) ==
  /\ pay[o].mode = "MOCK" /\ status[o] \in {"PENDING", "EXPIRED"}
  /\ status' = [status EXCEPT ![o] = "PAID"]
  /\ pay' = [pay EXCEPT ![o].status = "SUCCESS"]
  /\ UNCHANGED <<invoice, rowVars, discount, gateway, work>>

\* checkPayment reads the order and asks the gateway about its session.
StartCheck(w, o) ==
  /\ work[w] = Idle
  /\ status[o] = "PENDING" /\ pay[o].mode = "BINANCE"
  /\ work' = [work EXCEPT ![w] = [step |-> "ask", for |-> o, no |-> pay[o].no,
                version |-> pay[o].version, quote |-> invoice[o]]]
  /\ UNCHANGED <<orderVars, rowVars, discount, gateway>>

CheckFindsPaid(w) ==
  /\ work[w].step = "ask" /\ gateway[work[w].no] = "paid"
  /\ \E s \in sessions :
       /\ s.no = work[w].no
       /\ Settle(work[w].for, <<s.no, 0>>, work[w].quote.total, "BINANCE", s.quote, TRUE)
  /\ work' = [work EXCEPT ![w] = Idle]

CheckFindsClosed(w) ==
  /\ work[w].step = "ask" /\ gateway[work[w].no] = "closed"
  /\ work' = [work EXCEPT ![w].step = "expire"]
  /\ UNCHANGED <<orderVars, rowVars, discount, gateway>>

\* PAY_CLOSED is taken up if the session is the order's when it is read.
WebhookClosed(w, s) ==
  /\ work[w] = Idle
  /\ gateway[s.no] = "closed" /\ pay[s.for].no = s.no /\ pay[s.for].mode = "BINANCE"
  /\ work' = [work EXCEPT ![w] = [step |-> "expire", for |-> s.for, no |-> s.no,
                version |-> pay[s.for].version, quote |-> invoice[s.for]]]
  /\ UNCHANGED <<orderVars, rowVars, discount, gateway>>

\* Mutant: the order is closed whatever session it has by now.
AnySession(w) == TRUE

\* The expected session is compared again under the lock.
SameSession(w) ==
  LET o == work[w].for IN
  pay[o].mode = "BINANCE" /\ pay[o].no = work[w].no /\ pay[o].version = work[w].version

ExpireOrder(w) ==
  /\ work[w].step = "expire"
  /\ LET o == work[w].for IN
       IF status[o] = "PENDING" /\ SameSession(w)
       THEN /\ status' = [status EXCEPT ![o] = "EXPIRED"]
            /\ pay' = [pay EXCEPT ![o].status = "EXPIRED"]
       ELSE UNCHANGED <<status, pay>>
  /\ work' = [work EXCEPT ![w] = Idle]
  /\ UNCHANGED <<invoice, rowVars, discount, gateway>>

\* The deadline, or the customer cancels.
CloseOrder(o) ==
  /\ status[o] = "PENDING"
  /\ \E outcome \in {<<"EXPIRED", "EXPIRED">>, <<"CANCELLED", "FAILED">>} :
       /\ status' = [status EXCEPT ![o] = outcome[1]]
       /\ pay' = [pay EXCEPT ![o].status = outcome[2]]
  /\ UNCHANGED <<invoice, rowVars, discount, gateway, work>>

-----------------------------------------------------------------------------
Init ==
  /\ status = [o \in Orders |-> "PENDING"]
  /\ invoice = [o \in Orders |->
       [total |-> Base, discount |-> Coupon, payDiscount |-> 0, percent |-> 0]]
  /\ pay = [o \in Orders |-> [status |-> "PENDING", mode |-> "INITIALIZING",
                              version |-> 0, no |-> None, amount |-> Base, ref |-> None]]
  /\ sessions = {} /\ instrs = {} /\ transfers = {}
  /\ discount \in [Methods -> Percents] /\ discount["mock"] = 0
  /\ gateway = [no \in TradeNos |-> "unknown"]
  /\ work = [w \in Workers |-> Idle]

Change(w) ==
  \/ \E o \in Orders, method \in Methods : Prepare(w, o, method)
  \/ \E no \in TradeNos : Register(w, no)
  \/ GatewayOpens(w) \/ Persist(w) \/ Abandon(w)

Report(w) ==
  \/ \E o \in Orders : StartCheck(w, o)
  \/ \E s \in sessions : WebhookClosed(w, s)
  \/ CheckFindsPaid(w) \/ CheckFindsClosed(w) \/ ExpireOrder(w)

Next ==
  \/ \E w \in Workers : Change(w) \/ Report(w)
  \/ \E s \in sessions : WebhookPaid(s)
  \/ \E i \in instrs, e \in Errors : TransferArrives(i, e)
  \/ \E no \in TradeNos : PayAtGateway(no) \/ CloseAtGateway(no)
  \/ \E o \in Orders : ConfirmMock(o) \/ CloseOrder(o)
  \/ \E method \in Methods, p \in Percents : SetDiscount(method, p)

Spec == Init /\ [][Next]_vars

-----------------------------------------------------------------------------
(* Properties.                                                             *)

\* The page, the payment row and the gateway's session name one amount.
TermsFit(o) ==
  /\ pay[o].amount = invoice[o].total
  /\ pay[o].mode = "BINANCE" =>
       \E s \in sessions : s.no = pay[o].no /\ s.for = o /\ s.quote = invoice[o]
  /\ pay[o].mode = "BINANCE_ID" =>
       \E i \in InstrsOf(o) : i.quote = invoice[o]
         /\ \A j \in InstrsOf(o) : j.version <= i.version

\* Until an order is paid the page, the payment row and the gateway's session
\* name one amount: terms of an older choice never mix with the present ones
\* (applyPaymentMethod, the session version).
TermsAgree == \A o \in Orders : status[o] # "PAID" => TermsFit(o)

\* A transfer of just the amount its session or instruction asked for.
Exact(t) == \A i \in instrs : t.ref = <<i.for, i.version>> => t.amount = i.quote.total

\* However often the method changes and whichever session is paid in the end,
\* the invoice adds up, with the coupon's discount neither lost nor doubled,
\* and exactly one transfer has paid a paid order unless the mock gateway did.
\* If that transfer is exact the order shows the price that was paid; if not
\* it keeps the terms of the page, all of one session, as settleOrderTransfer
\* finds no instruction to restore (paymentQuote, settleOrderTransfer).
InvoiceMatchesMoney ==
  \A o \in Orders :
    /\ invoice[o].total + invoice[o].payDiscount = Base
    /\ invoice[o].discount - invoice[o].payDiscount = Coupon
    /\ \A t \in ClaimedBy(o) :
         status[o] = "PAID" /\ IF Exact(t) THEN invoice[o].total = t.amount ELSE TermsFit(o)
    /\ Cardinality(ClaimedBy(o)) =
         IF status[o] = "PAID" /\ ~(pay[o].mode = "MOCK" /\ pay[o].ref = None) THEN 1 ELSE 0

\* Webhook and inquiry describe a payment alike: the shop never sends a
\* transfer to a person because its own two readings differ.
NoFalseAlarm == \A t \in transfers : ~t.changed

\* No order gets more instructions than MAX_PAYMENT_INSTRUCTIONS_PER_ORDER,
\* although they are counted in one transaction and stored in another: of two
\* changes that passed the count, the version lets only one through.
OrderLimitHolds == \A o \in Orders : Cardinality(InstrsOf(o)) <= MaxPerOrder

\* A report that a session has closed never ends an order whose present
\* session is open or paid, or that is paid by other means (closePendingOrder).
LiveSessionKept ==
  [][\A w \in Workers, o \in Orders :
       (work[w].step = "expire" /\ work'[w] = Idle /\ status[o] = "PENDING"
          /\ status'[o] = "EXPIRED")
         => pay[o].mode = "BINANCE" /\ gateway[pay[o].no] = "closed"]_vars

MockMoney(o) == <<o, -1>>
Money == INSTANCE PaidOnce WITH
  Deposits <- {}, Users <- {"customer"}, Unpaid <- None, Wallet <- "wallet",
  Transfers <- (TradeNos \X {0}) \cup (Orders \X (-1..MaxVersion)),
  Owner <- [o \in Orders |-> "customer"], Price <- [o \in Orders |-> Base],
  paidBy <- [o \in Orders |-> IF status[o] # "PAID" THEN None
                             ELSE IF ClaimedBy(o) = {} THEN MockMoney(o)
                             ELSE (CHOOSE t \in ClaimedBy(o) : TRUE).ref],
  worth <- [d \in {} |-> 0], balance <- [u \in {"customer"} |-> 0]

\* Sessions and their reports implement PaidOnce: an order is paid once, for
\* good, by one transfer, and no transfer pays twice.
KeepsMoneyPromise == Money!Spec
=============================================================================
