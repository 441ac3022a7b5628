------------------------------ MODULE Settlement ------------------------------
(***************************************************************************)
(* Where the shop finds out whose money has arrived.                       *)
(*                                                                         *)
(* Customers are given instructions: send this amount on this channel.     *)
(* On three channels the provider tells nothing of the sender (only a      *)
(* Binance ID transfer may carry a memo), so the amounts are chosen to     *)
(* tell the waiting payments apart; a bank transfer must carry the code of *)
(* its order.  Incoming transfers are recorded in a ledger, matched and    *)
(* claimed by the poller of the exchange, by a customer who asks the shop  *)
(* to look, by the bank's webhook or by an operator, and the wallet pays   *)
(* as well.                                                                *)
(*                                                                         *)
(* Orders and deposits are targets of money.  The status of a target is    *)
(* that of the Order or Deposit row, with "PAID" for an order that is PAID *)
(* or DELIVERED and a deposit that is SUCCESS.  Every transaction here     *)
(* takes lockFinancialArbitration first, so each is one action, except the *)
(* poller's, which goes through a history it has read before: it holds the *)
(* lock from its first transfer to its last (settling).                    *)
(*                                                                         *)
(* A tick of the clock is half of the 24 hours for which an instruction is *)
(* polled, or any other fraction; the ten minutes by which a transfer may  *)
(* precede its instruction lie within a tick.  Receiving accounts do not   *)
(* change.                                                                 *)
(***************************************************************************)
EXTENDS Integers, FiniteSets

CONSTANTS
  Orders, Deposits, Users, Transfers, Pollers,
  NoTarget, NoPoller,
  Channels,      \* the payment channels that are switched on
  Owner,         \* the user of each order and deposit
  Price,         \* what an order costs, what a deposit asks for
  Epsilon,       \* how far a transfer may be from the amount it matches
  UniqueStep, UniqueGap, MaxTries,   \* pickUniqueUsdt
  Window,        \* ticks for which an instruction is matched
  MaxPerOrder,   \* MAX_PAYMENT_INSTRUCTIONS_PER_ORDER
  MaxPerUser,    \* MAX_UNRESOLVED_INSTRUCTIONS_PER_USER
  MaxPending,    \* MAX_PENDING_DEPOSITS_PER_USER
  Errors,        \* by how much customers send too much
  Corrected,     \* transfers whose times the exchange corrects
  MaxTime        \* bound on the clock

Targets == Orders \cup Deposits
Chains  == {"BEP20", "TRC20"}
Usdt    == Chains \cup {"BINANCE_ID"}

ASSUME TargetsApart == Orders \cap Deposits = {} /\ NoTarget \notin Targets
ASSUME TargetsFinite == IsFiniteSet(Orders) /\ IsFiniteSet(Deposits)
ASSUME TransfersApart == {"UNPAID", "WALLET"} \cap Transfers = {}
ASSUME PollersTyped == Pollers \subseteq {"timer", "request"} /\ NoPoller \notin Pollers
ASSUME ChannelsKnown == Channels \subseteq Usdt \cup {"SEPAY"}
ASSUME MoneyTyped == Owner \in [Targets -> Users] /\ Price \in [Targets -> Nat \ {0}]
ASSUME NumbersTyped ==
  /\ {Epsilon, UniqueStep, UniqueGap, MaxTries} \subseteq Nat
  /\ {Window, MaxPerOrder, MaxPerUser, MaxPending, MaxTime} \subseteq Nat
  /\ Errors \subseteq Nat
ASSUME CorrectedTyped == Corrected \subseteq Transfers
\* The gap is four times the matcher's epsilon, and no customer errs by more
\* than half of it.
ASSUME GapWide == UniqueGap > 2 * Epsilon /\ \A e \in Errors : e + Epsilon < UniqueGap

VARIABLES
  status,     \* "NONE", "PENDING", "EXPIRED", "CANCELLED" or "PAID"
  method,     \* Payment.mode of each order
  choosing,   \* the method that is being set up at the current sessionVersion
  created,    \* Order.createdAt
  issued,     \* PaymentInstruction rows: channel, amount and time; for a
              \* deposit, the row itself
  overdue,    \* deposits past their expiresAt
  balance,    \* User.balance
  ledger,     \* IncomingTransfer rows
  sent,       \* outside the shop: the transfers customers made
  history,    \* what each poller has read from the exchange
  settling,   \* the poller whose transaction is open
  now

termVars   == <<method, choosing, created, issued, overdue>>
targetVars == <<status, termVars>>
moneyVars  == <<balance, ledger>>
worldVars  == <<sent, history, settling, now>>
vars == <<targetVars, moneyVars, worldVars>>

-----------------------------------------------------------------------------
(* A transfer as its sender made it: for whom, how, how much and when, and *)
(* with or without a memo; facts is the version of its time to the second  *)
(* that the provider reports at present.                                   *)
NotSent == [for |-> NoTarget, channel |-> "NONE", amount |-> 0, at |-> 0,
            memo |-> FALSE, facts |-> 0]

(* A row of the ledger, "NONE", "OBSERVED", "REVIEW" or "CLAIMED": what    *)
(* the transfer was claimed for, which facts were recorded, and whether    *)
(* others were reported later.                                             *)
NoRow == [status |-> "NONE", for |-> NoTarget, facts |-> 0, changed |-> FALSE]

ModeOf(c) == IF c \in Chains THEN "CRYPTO" ELSE c

-----------------------------------------------------------------------------
(* Amounts.                                                                *)

\* Mutant: closed targets are forgotten.
UnresolvedOpen(x) == status[x] \in {"PENDING", "EXPIRED"}

\* Money may still come in for x, be it too late.
Unresolved(x) == status[x] \in {"PENDING", "EXPIRED", "CANCELLED"}

\* x can be paid.
Awaiting(x) == status[x] \in {"PENDING", "EXPIRED"}

Distance(a, b) == IF a > b THEN a - b ELSE b - a

UsdtInstructions(x) == {i \in issued[x] : i.channel \in Usdt}

\* Mutant: amounts of closed targets are given out again.
TakenWhileAwaiting == UNION {{i.amount : i \in UsdtInstructions(x)} : x \in {y \in Targets : Awaiting(y)}}

\* unresolvedUsdtAmounts
TakenAmounts == UNION {{i.amount : i \in UsdtInstructions(x)} : x \in {y \in Targets : Unresolved(y)}}

Clashes(a) == \E b \in TakenAmounts : Distance(a, b) < UniqueGap

\* pickUniqueUsdt returns a: the first step above base that is free.
PicksUnique(a, base) ==
  \E k \in 0 .. MaxTries - 1 :
    /\ a = base + k * UniqueStep
    /\ ~Clashes(a)
    /\ \A j \in 0 .. k - 1 : Clashes(base + j * UniqueStep)

\* The amount that is asked for on channel c.
AmountAsked(a, c, base) == IF c \in Usdt THEN PicksUnique(a, base) ELSE a = base

\* Amounts AmountAsked may choose.
AmountsFrom(base) == {base + k * UniqueStep : k \in 0 .. MaxTries - 1}

-----------------------------------------------------------------------------
(* Orders and deposits, up to their payment.                               *)

\* No poller's transaction holds the arbitration lock.
ArbitrationFree == settling = NoPoller

UnpaidInstructions(u) ==
  UNION {{<<o, i>> : i \in UsdtInstructions(o)} :
           o \in {p \in Orders : Owner[p] = u /\ Unresolved(p)}}

\* OrdersService.create, up to the choice of a payment method.
PlaceOrder(o) ==
  /\ ArbitrationFree
  /\ status[o] = "NONE"
  /\ status' = [status EXCEPT ![o] = "PENDING"]
  /\ created' = [created EXCEPT ![o] = now]
  /\ UNCHANGED <<method, choosing, issued, overdue, moneyVars, worldVars>>

\* applyPaymentMethod up to the increment of sessionVersion, with which what
\* was being set up before is void.  A USDT method in use is kept as it is.
PrepareMethod(o, c) ==
  /\ ArbitrationFree
  /\ status[o] = "PENDING"
  /\ c \in Usdt => /\ method[o] # c
                   /\ Cardinality(UsdtInstructions(o)) < MaxPerOrder
                   /\ Cardinality(UnpaidInstructions(Owner[o])) < MaxPerUser
  /\ choosing' = [choosing EXCEPT ![o] = c]
  /\ UNCHANGED <<status, method, created, issued, overdue, moneyVars, worldVars>>

\* persist, once the settings have been read.  It never comes to it when the
\* process dies.
PersistMethod(o) ==
  LET c == choosing[o]
  IN /\ ArbitrationFree
     /\ c # "NONE"
     /\ status[o] = "PENDING"
     /\ \E a \in AmountsFrom(Price[o]) :
          /\ AmountAsked(a, c, Price[o])
          /\ issued' = [issued EXCEPT ![o] = @ \cup {[channel |-> c, amount |-> a, since |-> now]}]
     /\ method' = [method EXCEPT ![o] = c]
     /\ choosing' = [choosing EXCEPT ![o] = "NONE"]
     /\ UNCHANGED <<status, created, overdue, moneyVars, worldVars>>

\* releaseExpiredOrders, expireOrder and cancelOrderInternal; the hour at
\* which an order expires is shorter than a tick.
CloseOrder(o, st) ==
  /\ ArbitrationFree
  /\ status[o] = "PENDING"
  /\ status' = [status EXCEPT ![o] = st]
  /\ UNCHANGED <<termVars, moneyVars, worldVars>>

\* Deposits of user u that count against the limit.
PendingDeposits(u) == {d \in Deposits : Owner[d] = u /\ status[d] = "PENDING" /\ d \notin overdue}

\* createDepositInTransaction
CreateDeposit(d, c) ==
  /\ ArbitrationFree
  /\ status[d] = "NONE"
  /\ Cardinality(PendingDeposits(Owner[d])) < MaxPending
  /\ \E a \in AmountsFrom(Price[d]) :
       /\ AmountAsked(a, c, Price[d])
       /\ issued' = [issued EXCEPT ![d] = {[channel |-> c, amount |-> a, since |-> now]}]
  /\ status' = [status EXCEPT ![d] = "PENDING"]
  /\ UNCHANGED <<method, choosing, created, overdue, moneyVars, worldVars>>

CancelDeposit(d) ==
  /\ ArbitrationFree
  /\ status[d] = "PENDING"
  /\ status' = [status EXCEPT ![d] = "CANCELLED"]
  /\ UNCHANGED <<termVars, moneyVars, worldVars>>

DepositDeadline(d) ==
  /\ status[d] = "PENDING"
  /\ d \notin overdue
  /\ overdue' = overdue \cup {d}
  /\ UNCHANGED <<status, method, choosing, created, issued, moneyVars, worldVars>>

\* expireSweep
ExpireDeposits ==
  LET D == {d \in overdue : status[d] = "PENDING"}
  IN /\ ArbitrationFree
     /\ D # {}
     /\ status' = [x \in Targets |-> IF x \in D THEN "EXPIRED" ELSE status[x]]
     /\ UNCHANGED <<termVars, moneyVars, worldVars>>

\* payOrderInTransaction, for an order that waits or, through the partner
\* API, for one that is placed in the same transaction.
PayWithBalance(o, from) ==
  /\ ArbitrationFree
  /\ status[o] = from
  /\ balance[Owner[o]] >= Price[o]
  /\ status' = [status EXCEPT ![o] = "PAID"]
  /\ method' = [method EXCEPT ![o] = "BALANCE"]
  /\ balance' = [balance EXCEPT ![Owner[o]] = @ - Price[o]]
  /\ UNCHANGED <<choosing, created, issued, overdue, ledger, worldVars>>

-----------------------------------------------------------------------------
(* Outside the shop.                                                       *)

\* A customer follows an instruction, in time or not, once or again.
Send(t, x, i, memo, e) ==
  /\ sent[t] = NotSent
  /\ i \in issued[x]
  /\ memo => i.channel \notin Chains
  /\ sent' = [sent EXCEPT ![t] = [for |-> x, channel |-> i.channel, amount |-> i.amount + e,
                                  at |-> now, memo |-> memo, facts |-> 0]]
  /\ UNCHANGED <<targetVars, moneyVars, history, settling, now>>

\* The exchange corrects the time of a transfer, within a tick.
ProviderCorrects(t) ==
  /\ sent[t].channel \in Usdt
  /\ t \in Corrected
  /\ sent' = [sent EXCEPT ![t].facts = 1]
  /\ UNCHANGED <<targetVars, moneyVars, history, settling, now>>

TimePasses ==
  /\ now < MaxTime
  /\ now' = now + 1
  /\ UNCHANGED <<targetVars, moneyVars, sent, history, settling>>

-----------------------------------------------------------------------------
(* The ledger.                                                             *)

\* Mutant: a repeated report replaces the facts.
ObservedOverwriting(t, facts) ==
  IF ledger[t].status = "NONE" THEN [NoRow EXCEPT !.status = "OBSERVED", !.facts = facts]
  ELSE [ledger[t] EXCEPT !.facts = facts]

\* observeTransfer: the row of t once the provider has reported these facts.
Observed(t, facts) ==
  IF ledger[t].status = "NONE" THEN [NoRow EXCEPT !.status = "OBSERVED", !.facts = facts]
  ELSE IF ledger[t].facts # facts
       THEN [ledger[t] EXCEPT !.changed = TRUE,
                              !.status = IF @ = "CLAIMED" THEN @ ELSE "REVIEW"]
       ELSE ledger[t]

Record(t, row) == ledger' = [ledger EXCEPT ![t] = row] /\ UNCHANGED <<status, balance>>

Review(t, row) == Record(t, [row EXCEPT !.status = "REVIEW"])

\* What a deposit brings in: the amount that was asked for.
Worth(d) == IF issued[d] = {} THEN 0 ELSE (CHOOSE i \in issued[d] : TRUE).amount

\* Mutant: a deposit brings in its price, not the amount that was asked for.
ClaimCreditingPrice(t, row, x) ==
  /\ ledger' = [ledger EXCEPT ![t] = [row EXCEPT !.status = "CLAIMED", !.for = x]]
  /\ status' = [status EXCEPT ![x] = "PAID"]
  /\ balance' = [u \in Users |-> IF x \in Deposits /\ u = Owner[x]
                                THEN balance[u] + Price[x] ELSE balance[u]]

\* claimTransfer with the payment or the credit that goes with it.
Claim(t, row, x) ==
  /\ ledger' = [ledger EXCEPT ![t] = [row EXCEPT !.status = "CLAIMED", !.for = x]]
  /\ status' = [status EXCEPT ![x] = "PAID"]
  /\ balance' = [u \in Users |-> IF x \in Deposits /\ u = Owner[x]
                                THEN balance[u] + Worth(x) ELSE balance[u]]

\* settleOrderTransfer and creditDepositTransfer.  Who has used up the coupon
\* of an expired order meanwhile is not in this module.
SettleFor(t, row, x) ==
  \/ Awaiting(x) /\ Claim(t, row, x)
  \/ ~Awaiting(x) /\ Review(t, row)
  \/ x \in Orders /\ status[x] = "EXPIRED" /\ Review(t, row)

-----------------------------------------------------------------------------
(* Matching.                                                               *)

Near(t, i) == i.channel = sent[t].channel /\ Distance(i.amount, sent[t].amount) <= Epsilon

\* Targets that had the instruction t may follow, at the time of t.
Pool(t) == {x \in Targets : Unresolved(x) /\
              \E i \in issued[x] : /\ Near(t, i)
                                   /\ i.since <= sent[t].at
                                   /\ sent[t].at <= i.since + Window}

\* An instruction from before the window fits t as well.
Stale(t) == \E x \in Targets : Unresolved(x) /\
              \E i \in issued[x] : Near(t, i) /\ sent[t].at > i.since + Window

\* reconcileCryptoTransfers and reconcilePayTransfers, one observed transfer.
\* A memo names the code of the sender's order or deposit.
Match(t, row) ==
  LET named == sent[t].memo
      fits == IF named THEN Pool(t) \cap {sent[t].for} ELSE Pool(t)
  IN \/ Stale(t) /\ ~named /\ Review(t, row)
     \/ /\ Stale(t) => named
        /\ \/ Cardinality(fits) = 1 /\ \E x \in fits : SettleFor(t, row, x)
           \/ Cardinality(fits) # 1 /\ (named \/ Pool(t) # {}) /\ Review(t, row)
           \/ fits = {} /\ ~named /\ Record(t, row)
           \* receiver-not-provable: the exchange does not say who received it
           \/ fits = {} /\ sent[t].channel = "BINANCE_ID" /\ Review(t, row)

\* Mutant: the memo is not read.
MatchBankByAmount(t, row) ==
  LET fits == {x \in Targets : Unresolved(x) /\
                 \E i \in issued[x] : i.channel = "SEPAY" /\ i.amount = sent[t].amount}
  IN \/ \E x \in fits : SettleFor(t, row, x)
     \/ fits = {} /\ Record(t, row)

\* handleSepayWebhook, an observed transfer: code and amount must be right.
MatchBank(t, row) ==
  LET fits == {x \in Targets : Unresolved(x) /\ sent[t].memo /\ x = sent[t].for /\
                 \E i \in issued[x] : i.channel = "SEPAY" /\ i.amount = sent[t].amount}
  IN \/ \E x \in fits : SettleFor(t, row, x)
     \/ fits = {} /\ Record(t, row)

-----------------------------------------------------------------------------
(* Pollers: the timer of CryptoReconcileService, and customers who ask the *)
(* shop to look (checkPayment, submitTx).                                  *)

\* Instructions of mode m that keep the timer polling.
Polled(m) ==
  UNION {{i \in issued[x] : ModeOf(i.channel) = m /\ now < i.since + Window} :
           x \in {y \in Targets : Awaiting(y)}}

\* Since when the timer reads the history of mode m.
Oldest(m) ==
  LET since == {i.since : i \in Polled(m)}
                 \cup {created[o] : o \in {p \in Orders : /\ Awaiting(p)
                                                          /\ ModeOf(method[p]) = m
                                                          /\ now < created[p] + Window}}
  IN CHOOSE s \in since : \A r \in since : s <= r

\* What the exchange shows of mode m since s.
Visible(m, s) == {t \in Transfers : sent[t] # NotSent /\ ModeOf(sent[t].channel) = m /\ sent[t].at >= s}

\* The exchange may show a transfer late.
Reads(p, S) ==
  /\ p \in Pollers
  /\ history[p] = {}
  /\ S # {}
  /\ history' = [history EXCEPT ![p] = {[transfer |-> t, facts |-> sent[t].facts] : t \in S}]
  /\ UNCHANGED <<targetVars, moneyVars, sent, settling, now>>

TimerReads(m) ==
  /\ Polled(m) # {}
  /\ \E S \in SUBSET Visible(m, Oldest(m)) : Reads("timer", S)

CheckPayment(o) ==
  /\ status[o] = "PENDING"
  /\ method[o] \in Chains
  /\ \E S \in SUBSET Visible("CRYPTO", created[o]) : Reads("request", S)

SubmitTx(o, t) ==
  /\ status[o] = "PENDING"
  /\ method[o] \in Chains
  /\ sent[t].channel = method[o]
  /\ Reads("request", {t})

\* The transaction of poller p goes on with the earliest transfer it has not
\* handled; it commits with the last one.
Reconcile(p) ==
  /\ settling \in {NoPoller, p}
  /\ \E seen \in history[p] :
       LET t == seen.transfer
           row == Observed(t, seen.facts)
       IN /\ \A other \in history[p] : sent[t].at <= sent[other.transfer].at
          /\ \/ row.status # "OBSERVED" /\ Record(t, row)
             \/ row.status = "OBSERVED" /\ Match(t, row)
          /\ history' = [history EXCEPT ![p] = @ \ {seen}]
          /\ settling' = IF history[p] = {seen} THEN NoPoller ELSE p
  /\ UNCHANGED <<termVars, sent, now>>

\* The transaction does not take place: an error, a restart.
PollFails(p) ==
  /\ settling # p
  /\ history[p] # {}
  /\ history' = [history EXCEPT ![p] = {}]
  /\ UNCHANGED <<targetVars, moneyVars, sent, settling, now>>

-----------------------------------------------------------------------------
(* The bank's webhook, which may come late or again, and the operator.     *)

SepayWebhook(t) ==
  /\ ArbitrationFree
  /\ sent[t].channel = "SEPAY"
  /\ LET row == Observed(t, sent[t].facts)
     IN \/ row.status # "OBSERVED" /\ Record(t, row)
        \/ row.status = "OBSERVED" /\ MatchBank(t, row)
  /\ UNCHANGED <<termVars, worldVars>>

\* Mutant: the operator may settle any unresolved order.
OperatorSettlesClosed(o, t) ==
  /\ ArbitrationFree
  /\ status[o] # "NONE"
  /\ ledger[t].status \in {"OBSERVED", "REVIEW"}
  /\ ~ledger[t].changed
  /\ \E i \in issued[o] : i.channel = sent[t].channel /\ i.amount = sent[t].amount
  /\ Claim(t, ledger[t], o)
  /\ UNCHANGED <<termVars, worldVars>>

\* AdminService.markOrderPaid: the operator says that t pays for order o.
OperatorSettles(o, t) ==
  /\ ArbitrationFree
  /\ Awaiting(o)
  /\ ledger[t].status \in {"OBSERVED", "REVIEW"}
  /\ ~ledger[t].changed
  /\ \E i \in issued[o] : i.channel = sent[t].channel /\ i.amount = sent[t].amount
  /\ Claim(t, ledger[t], o)
  /\ UNCHANGED <<termVars, worldVars>>

-----------------------------------------------------------------------------
Init ==
  /\ status = [x \in Targets |-> "NONE"]
  /\ method = [o \in Orders |-> "NONE"]
  /\ choosing = [o \in Orders |-> "NONE"]
  /\ created = [o \in Orders |-> 0]
  /\ issued = [x \in Targets |-> {}]
  /\ overdue = {}
  /\ balance = [u \in Users |-> 0]
  /\ ledger = [t \in Transfers |-> NoRow]
  /\ sent = [t \in Transfers |-> NotSent]
  /\ history = [p \in Pollers |-> {}]
  /\ settling = NoPoller
  /\ now = 0

Trade ==
  \/ \E o \in Orders : \/ PlaceOrder(o)
                       \/ \E c \in Channels : PrepareMethod(o, c)
                       \/ PersistMethod(o)
                       \/ \E st \in {"EXPIRED", "CANCELLED"} : CloseOrder(o, st)
                       \/ \E from \in {"NONE", "PENDING"} : PayWithBalance(o, from)
  \/ \E d \in Deposits : \/ \E c \in Channels : CreateDeposit(d, c)
                         \/ CancelDeposit(d)
                         \/ DepositDeadline(d)
  \/ ExpireDeposits

World ==
  \/ \E t \in Transfers, x \in Targets, memo \in BOOLEAN, e \in Errors :
       \E i \in issued[x] : Send(t, x, i, memo, e)
  \/ \E t \in Transfers : ProviderCorrects(t)
  \/ TimePasses

Read ==
  \/ \E m \in {"CRYPTO", "BINANCE_ID"} : TimerReads(m)
  \/ \E o \in Orders : CheckPayment(o) \/ \E t \in Transfers : SubmitTx(o, t)

\* What is decided about money without a person.
Automatic ==
  \/ \E p \in Pollers : Reconcile(p)
  \/ \E t \in Transfers : SepayWebhook(t)

Next ==
  \/ Trade
  \/ World
  \/ Read
  \/ Automatic
  \/ \E p \in Pollers : PollFails(p)
  \/ \E o \in Orders, t \in Transfers : OperatorSettles(o, t)

Spec == Init /\ [][Next]_vars

-----------------------------------------------------------------------------
(* Properties.                                                             *)

\* No amount a sender may use is near the instructions of two targets that
\* money can still come in for, closed ones included.
AmountsTellApart ==
  \A x, y \in Targets : x # y /\ Unresolved(x) /\ Unresolved(y) =>
    \A i \in UsdtInstructions(x), j \in UsdtInstructions(y) :
      \A e \in Errors : Distance(i.amount + e, j.amount) > Epsilon

\* A target is paid by exactly one means: one transfer claimed for it, or,
\* for an order, the wallet; and nothing is claimed for one that is not paid.
PaidByOneMeans ==
  \A x \in Targets :
    LET claims == {t \in Transfers : ledger[t].status = "CLAIMED" /\ ledger[t].for = x}
        wallet == x \in Orders /\ status[x] = "PAID" /\ method[x] = "BALANCE"
    IN /\ status[x] = "PAID" <=> wallet \/ claims # {}
       /\ wallet => claims = {}
       /\ Cardinality(claims) <= 1

\* Without a person, money goes to what its sender meant it for: not to
\* another target that waits for money on the same channel, whoever was
\* closed, expired or given a new instruction meanwhile.  Only money for
\* something that has been paid otherwise may be taken for another's: its
\* amounts are given out again.
MoneyToItsOwner ==
  [][Automatic =>
      \A t \in Transfers :
        ledger'[t].status = "CLAIMED" /\ ledger[t].status # "CLAIMED" =>
          ledger'[t].for = sent[t].for \/ status[sent[t].for] = "PAID"]_vars

\* What the ledger says stands: a claim is for good, the facts first recorded
\* are not replaced by a later report, and a transfer of which the provider
\* has given different accounts waits for a person and is never claimed, also
\* when two pollers read it before and after the correction.
ClaimsStand ==
  [][\A t \in Transfers :
       LET old == ledger[t]
           new == ledger'[t]
       IN /\ old.status = "CLAIMED" => new.status = "CLAIMED" /\ new.for = old.for
          /\ old.status # "NONE" => new.facts = old.facts
          /\ new.changed /\ old.status # "CLAIMED" => new.status = "REVIEW"]_vars

\* The shop keeps the promise of PaidOnce.
PaidBy(x) ==
  LET claims == {t \in Transfers : ledger[t].status = "CLAIMED" /\ ledger[t].for = x}
  IN IF status[x] # "PAID" THEN "UNPAID"
     ELSE IF x \in Orders /\ method[x] = "BALANCE" THEN "WALLET"
     ELSE CHOOSE t \in claims : TRUE
Promise == INSTANCE PaidOnce WITH
  Unpaid <- "UNPAID", Wallet <- "WALLET",
  paidBy <- [x \in Targets |-> PaidBy(x)],
  worth <- [d \in Deposits |-> Worth(d)]
KeepsMoneyPromise == Promise!Spec
=============================================================================
