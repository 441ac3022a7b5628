# Verification of ShopOfCatt

This directory holds TLA+ models of the shop's back end (`apps/api/src` of the
repository), the TLC configurations that check them, and proofs checked by
TLAPS. All paths below are relative to `apps/api/src` unless they say otherwise.

Contents: [the system](#the-system) · [hard behaviours](#what-is-hard-about-it) ·
[modules](#modules) · [runs](#runs) · [proofs](#proofs) · [bounds and
fairness](#bounds-and-fairness) · [not modelled](#what-is-not-modelled) ·
[plan](#plan).

## The system

A shop for digital goods. A product has variants; a variant has a stock of
*keys* (`StockItem` rows, each a line of text). A customer places an order, the
keys are set aside, the customer pays through one of several channels (Binance
Pay, a transfer with a Binance ID, crypto on two chains, a Vietnamese bank
through SePay, or the wallet), and the keys are handed over. One NestJS process
serves HTTP, runs the Telegram bots and all periodic workers; all state that
matters is in PostgreSQL, accessed in READ COMMITTED transactions with explicit
row locks.

| Component | State it keeps | Operations | Correct when |
|---|---|---|---|
| Orders and stock: `orders/fulfillment.service.ts`, `orders/order-transaction.ts`, `common/order-settlement.ts`, stock part of `admin/admin.service.ts` | `Order.status`, `Payment.status`, `StockItem.status/orderItemId` | place, release expired, expire, cancel, mark paid, deliver, add / withdraw / restore / delete stock | a pending order has its keys; a key is handed over once, to a paid order; nothing is stranded |
| Coupons: `coupons/coupons.service.ts` | `Coupon.usedCount, maxUses`, `Order.couponId` | reserve, release, count again on late payment, edit, remove | the count is exact and quotas hold |
| Delivery sweeper: `orders/delivery-sweeper.service.ts` | a timer and the flag `running` | tick every two minutes | paid orders and old half-finished payments do not stay stuck |
| Settlement: `common/incoming-transfer.ts`, `common/reconcile-transfers.ts`, `orders/crypto-reconcile.service.ts`, `payments/payments.service.ts`, operator part of `admin/admin.service.ts` | `IncomingTransfer` ledger, `Payment` references, `Deposit` | observe, review, claim, settle an order, credit a deposit, resolve by an operator | a transfer pays for at most one thing, and conflicting facts wait for a person |
| Wallet: `balance/*.ts` | `User.balance`, `BalanceEntry`, `Deposit.status` | create / cancel / expire deposits, credit, pay an order | the balance is the sum of its entries, never negative, one entry per event |
| Payment sessions: `orders/orders.service.ts` (`applyPaymentMethod`, `checkPayment`, `submitTx`), `orders/payment-discount.ts` | `Payment.mode, sessionVersion`, `PaymentInstruction`, `MerchantPaymentSession`, `Order.expiresAt` | choose a method (with calls to a gateway in the middle), poll, expire a session | a slow answer never overwrites a newer choice; a stale close never closes a newer session |
| Amounts and matchers: `balance/unique-amount.ts`, `common/payment-amounts.ts`, `binance-exchange/*-matcher.ts`, `payments/sepay-matcher.ts` | none (pure) | pick a free amount, match transfers to waiting payments | two waiting payments are told apart; no transfer is given to two |
| Partner API: `api-v1`, `api-keys` | `ApiOperationReceipt`, `ApiKey`, `ApiRateBucket` | purchase and deposit with an idempotency key, quotas, rotate / revoke keys | one receipt, one purchase; a revoked key buys nothing |
| Mail boxes: `mail/*.ts` | `MailPurchase.status`, `Mailbox` | rent (debit before the provider is called), deliver, refund | the customer is either served or refunded, never both, and an unclear result waits for a person |
| Telegram shop bot: `telegram/telegram.service.ts` | in-memory token, generation, cooldowns; outbox columns `telegramNotifiedAt` … | supervise, poll, buy by callback, outbox sweeps | a redelivered callback buys once; every delivered key is announced; one blocked chat does not stop the others |
| Telegram administration: `telegram-admin/*.ts` | `TelegramAdminAction`, `TelegramAdmin` | prepare, confirm, execute with a receipt | a confirmed action runs once, on the snapshot that was confirmed |
| Storefront: `storefront/*.ts` | draft with a revision number, immutable revisions, `publishedRevisionId` | edit, publish, restore, prune | no lost update of a draft; the published revision is never pruned |
| Exchange rates and prices: `rates/*.ts` | `StoreSetting` rates, anchored variant prices | daily refresh | rate and anchored prices change together |
| Accounts: `auth`, `customers`, `security` | `User.passwordHash, tokenVersion, lockedAt, role`, in-memory rate limits | register, log in, change password, lock, grant | a locked or changed account loses its sessions |
| Settings: `settings/settings.service.ts` | `StoreSetting` | read (with row locks in money paths), update | money paths use a snapshot that stays valid until commit |
| Catalogue, analytics, audit, announcements, legal pages, translation, images | content tables | CRUD, counters, calls to translation providers | — |
| Web client `apps/web`, shared package `packages/shared`, deployment files | — | pages, formatting, validation schemas | — |

How they interact. Every transaction that moves money or the status of an order
first takes one advisory lock, `lockFinancialArbitration`
(`common/financial-lock.ts`). Delivery, stock administration, coupon
administration and notifications do not. Placing and delivering an order, and
withdrawing keys, all take stock rows through one query,
`lockAvailableStock`, with `FOR UPDATE SKIP LOCKED`. Settlement calls
`markOrderPaid` inside its own transaction and `deliverOrder` after its commit,
so a crash in between leaves a paid order that only the sweeper (or a person)
picks up. Handing over a key and announcing it are decoupled by columns that
serve as an outbox.

## What is hard about it

* Interleavings of requests, webhooks, three periodic workers and two bots on
  the same rows, with different locks: a delivery against another delivery, a
  sweep against a late payment, a withdrawal against a purchase.
* Work that goes on after an `await` outside the transaction: a gateway call in
  the middle of choosing a payment method, delivery after settlement.
* Late, repeated and contradictory reports of money.
* Crashes between commit and follow-up; databases written by earlier releases
  (`Payment` SUCCESS while its order is not PAID).
* Queues with a limit: the sweeper's batches, outbox batches, amount slots,
  pending instructions.

PROJECT.json lists each hazard at its line with the properties that cover it.

## Modules

| Module | What it is |
|---|---|
| `KeySale` | abstract: what the shop promises about orders and keys, with no rows or locks |
| `Fulfillment` | orders, stock keys, coupon uses; transactions of several workers, step by step where they lock row by row; implements `KeySale` |
| `Sweeper` | extends `Fulfillment` with the periodic worker, restarts and fairness |
| `PaidOnce` | abstract: what the shop promises about money |
| `Settlement` | transfers and their ledger, instructions and amounts, deposits and the wallet; implements `PaidOnce` |
| `PaymentSession` | changes of the payment method around calls to the Binance Pay gateway, late reports about sessions; implements `PaidOnce` |
| `OnceOnly` | abstract: what a caller is promised who repeats a request under one key |
| `Requests` | purchases and deposits of API partners and by callbacks of the bot, while keys, access, accounts and the shop close; implements `OnceOnly` |
| `ServeOrRefund` | abstract: what a renter of mail boxes is promised |
| `MailPurchase` | renting from a provider that cannot recognise repetitions; implements `ServeOrRefund` |
| `InboxPoll` | the lease under which one mail box is read |
| `TelegramOutbox` | the sweeps that tell customers and the owner what has happened |
| `PollLoops` | the supervisor of the bot and its loops of `getUpdates` |
| `Fulfillment_proofs` | TLAPS: types; what the row locks buy; order and payment agree; a sold key stays sold; the counts of keys and coupon uses; `Fulfillment` implements `KeySale`; all of it again with the `Sweeper`, its failures and restarts |
| `Settlement_proofs` | TLAPS: amounts tell payments apart, money goes to its owner, one means pays, the ledger stands, `Settlement` implements `PaidOnce`, wallets hold what came in less what was spent |
| `PaymentSession_proofs` | TLAPS: terms agree, the invoice matches the money, limits hold, live sessions stay, `PaymentSession` implements `PaidOnce` |
| `Requests_proofs` | TLAPS: limits, withdrawn authority, `Requests` implements `OnceOnly` |
| `MailPurchase_proofs` | TLAPS: the provider is asked once, whole deliveries, `MailPurchase` implements `ServeOrRefund`, the day's budget, wallets lack what was bought |
| `InboxPoll_proofs` | TLAPS: one reader at a time |
| `TelegramOutbox_proofs` | TLAPS: what is marked was sent |
| `PollLoops_proofs` | TLAPS: one loop asks at a time, no update is lost |
| `MCFulfillment`, `MCCoupons`, `MCSweeper`, `MCSettlement`, `MCPaymentSession`, `MCRequests`, `MCMailPurchase`, `MCTelegramOutbox` | small instances for TLC; `InboxPoll` and `PollLoops` need no definitions of their own |

### How Fulfillment corresponds to the code

* `orderStatus`, `payStatus`, `couponOf`, `keyStatus`, `keyOrder`, `usedCount`
  and `maxUses` are columns. An `OrderItem` is the pair of its order and its
  variant, because the code merges the lines of one variant. `NONE` and
  `ABSENT` stand for rows that are not there. `due` is the set of orders whose
  `expiresAt` has passed; time itself is not modelled, so any deadline may pass
  at any moment.
* `tx[w]` is the transaction worker `w` has open. Three transactions lock stock
  row by row and are therefore several steps: placing an order
  (`BeginCreate`, `ReserveItem`, `CommitCreate`), delivering one
  (`BeginDeliver`, `DeliverItem`, `CommitDeliver`) and withdrawing keys
  (`BeginWithdraw`, `CommitWithdraw`). Their writes stay in `tx[w]` until the
  commit, the rows in `took` are locked meanwhile, and `Abort` forgets
  everything, which is what an error, the transaction time-out or the death of
  the process do.
* Transactions whose decisions are all taken under the advisory lock, or in one
  conditional statement, are one action, guarded by the locks it would wait for
  (`ArbitrationFree`, `OrderRowFree`, `CouponRowFree`, `VariantRowFree`).
* `Free(v)` is what `SKIP LOCKED` leaves visible, `LocksAvailable` what
  `LIMIT` makes of it. The order in which rows are drawn (sequential or random)
  is left open.
* A purchase through the partner API is `BeginCreate` with `prepaid`: order,
  payment and debit commit together.
* Orders of earlier releases are there from the start, with the status, keys and
  coupon that `LegacyStatus`, `LegacyHold` and `LegacyCoupon` give them; `usedCount`
  starts with the uses of those that still count. An EXPIRED one whose payment is
  SUCCESS gets its use back without a look at the quota
  (`common/order-settlement.ts:34`; `orders/fulfillment-coupon.integration.spec.ts:470`
  expects a count of 2 against a maximum of 1), and `QuotaRespected` exempts just
  these orders.

`Sweeper` cuts the tick into the queries and transactions it consists of, so
that the list it works on goes stale while it works. `StampPaid` stands for
`paidAt = new Date()`. `phase = "idle"` is `running = false`.

### How Settlement corresponds to the code

* Orders and deposits are *targets* of money. `status` is the status of the row,
  with `PAID` for an order that is PAID or DELIVERED (`Fulfillment` has the
  difference) and a deposit that is SUCCESS. `issued[x]` are the
  `PaymentInstruction` rows of an order, or what the `Deposit` row says;
  `method` is `Payment.mode`; `ledger` is the table `IncomingTransfer`.
* A change of method is two transactions. `choosing[o]` is what was prepared at
  the current `sessionVersion`: a newer preparation replaces it, which is what
  the increment does to an answer that comes later. The calls made in between
  only read settings here; those to the Binance Pay gateway are in
  `PaymentSession`.
* `sent` is the world: what customers transferred, for which target, with or
  without a memo that names it. The code sees of it the channel, the amount,
  the time and the memo (`Near`, `Pool`, `Stale`, `Match`, `MatchBank`), never
  `for`, except through the memo. The properties compare what it concluded with
  `for`.
* `history[p]` is what a poller read from the exchange *before* it took the
  lock. `Reconcile` handles one transfer of it; the lock stays with `p`
  (`settling`) until the last, so a prefix of a batch never stands alone for
  longer than its transaction.
* `SettleFor` is `settleOrderTransfer` and `creditDepositTransfer`. Whether the
  coupon of an expired order has been used up is not in this module: the review
  it leads to is possible whenever the order has expired.
* Whether the exchange names the receiver of a Binance ID transfer is left open
  in `Match` (`receiver-not-provable`).

### How PaymentSession corresponds to the code

* `invoice`, `pay`, `sessions`, `instrs` and `transfers` are rows. `work[w]` is
  what a request holds in variables between two transactions:
  `applyPaymentMethod` is `Prepare`, `Register` (the session is stored before the
  gateway hears of it), `GatewayOpens` and `Persist`, whose guard `Stands` is
  the condition of the conditional update; `checkPayment` is `StartCheck`,
  then `CheckFindsPaid` or `CheckFindsClosed` and `ExpireOrder`.
* `gateway[no]` is what the gateway knows of a session. A session that is no
  longer the order's can still be paid, and is reported by `WebhookPaid`, any
  number of times. The transfer carries the terms of *its* session;
  `Restored` is the order's price being put back to them.
* A Binance ID transfer may miss the amount of its instruction by one of `Errors`,
  as the matcher allows (`binance-exchange/pay-matcher.ts:54`). `found` says that
  `settleOrderTransfer` finds the instruction again, which it looks up by the exact
  amount (`common/incoming-transfer.ts:103`). If it does not, the order is paid
  and keeps the price, method and amount it shows. `InvoiceMatchesMoney` therefore
  says of an exact transfer that the order shows what was paid, and of one that
  is not that the terms on the page are still those of one session.
* Discounts of methods change at any time (`SetDiscount`); `Quote` rounds as
  the code does.

### How Requests corresponds to the code

* A partner's request is `Authenticate` (the guard, whose reading may be old
  afterwards), `Revalidate`, `Replay` or `Admit`, `Secure`, `Commit` and
  `Answer`. Each step ends where the next lock is waited for, and the step of a
  call says which locks it holds: the arbitration lock and shared locks of
  `ApiAccess` and `ApiKey` from `valid` on, of `StoreSetup` from `admitted` on,
  the user's row from `secured` on. `Drop` rolls back whatever is open or loses
  an answer.
* A callback is `TakeCallback`, `Place` and, for an order, `ApplyMethod`; the
  process may die between the last two, and `ChooseMethod` is the customer who
  finds such an order later. `LookAgain` is `waitForTelegramReplay`.
* `made[k]` is the sequence of rows that exist for a key: a second one would be
  a second purchase. `body` is the request hash. `told` is outside of the shop:
  who got which answer. A callback id stands for one press of one button, so
  its body never differs (an assumption of the module).
* Stock, coupons and gateways appear only as reasons for a step to fail.

### How MailPurchase and InboxPoll correspond to the code

* `rent()` is `Rent` (reads the stock of the provider), `Claim` (one
  transaction: row, debit, limits), `Buy` (outside of any), `Deliver` (one
  transaction) and `Fail`, which is what `catch` does. `asked[r]` counts what
  the provider was asked, which the shop itself cannot see. `Crash` ends every
  call wherever it is. `TwoMinutesPass` and `Midnight` are all there is of time.
* In `InboxPoll` an age and a flag stand for `lastPolledAt` and
  `pollLeaseUntil`, which the code sets together. The `finally` block clears the
  lease without looking whose it is; that this does no harm depends on
  `MaxRead <= Lease`. The time-outs give the provider 6.5 s of the lease's 10 s;
  that the database takes no more than the rest is assumed.

### How TelegramOutbox and PollLoops correspond to the code

* `row[r]` is what the columns `telegramNotifiedAt`, `telegramFailedAt` and
  their like say, `got` is the chat. `sweep` is `notifySweep` with its batch
  read before messages are sent. `Open` is a customer who looks at an order or
  a deposit, which sends and marks as well, in one step. The instance has
  orders and the owner's alerts; deposits take the same steps as orders. Stock
  alerts differ in two ways, both in the module and not in the instance, which
  would grow too large with them: a temporary error or a failed mark ends their
  batch only, and the owner's alerts still follow (`Broken`), and `/start` does not
  arm them again.
* The owner can switch the alerts about orders off. A sweep that reads this
  (`ReadSetting`) marks all orders that wait for the owner and sends none of them
  (`DropOwnerAlerts`, `telegram/telegram.service.ts:1735`); an order placed while the
  settings have the bot or these alerts off has the mark from the start
  (`PlacedUnqueued`, `orders/order-transaction.ts:92`). Such rows are "dropped", so
  that `MarkedWasSent` can tell them from rows marked after a message. Both columns
  hold the same time stamp in the code.
* In `PollLoops`, `supervisor` is `supervise` with what it read from the settings
  before it awaited `getMe`; a member of `loops` is a call of `pollLoop` with its
  `generation` and `offset`. `StopPolling` aborts requests to Telegram, so
  loops that wait for an answer are gone with it; a loop in the middle of a
  batch notices later. `confirmed` is what Telegram may forget.

Mutants, small wrong versions of a definition that a run must catch, stand
before the definition they replace and are marked as such.

## Runs

| Run | Instance | What it shows |
|---|---|---|
| `fulfillment` | 2 workers, 3 orders, 4 keys of 2 variants; stock for one order only; one order left by an earlier release with its payment already SUCCESS; operators may override quotas | types; pending orders hold their stock; keys are held by live orders only; exact deliveries; order and payment agree; sold keys stay sold; `Fulfillment` implements `KeySale` |
| `coupons` | 2 workers, 3 orders of one key with one coupon, limits 1 or 2, one use per buyer, two orders of the same buyer, and a fourth that an earlier release let expire with its payment SUCCESS and the coupon on it | the use count is exact; no quota is passed although the check and the commit of a purchase are far apart, except by the use the old payment gets back |
| `sweeper` | 1 worker and the sweeper, 2 orders, 2 variants, an order an earlier release left EXPIRED with a SUCCESS payment; one failure of any kind; batch as large as the number of orders | PAID orders that can be served are served; unpaid reservations end; old payments reach their order |
| `settlement_matching` | 2 customers, an order each at the same price, Binance ID or a chain, a transfer of a little too much, with or without a memo, which the exchange may correct; a timer and a request; 3 points in time and a window of one | amounts tell the targets apart; no transfer is credited to another's order, however late; claims and recorded facts stand |
| `settlement_channels` | an order and a deposit of one customer, a chain and the bank, 2 transfers, 2 instructions per order, an operator, the wallet | each target is paid by one means; money goes to its owner across changes of method; `Settlement` implements `PaidOnce` |
| `payment_session` | one order, 2 requests at a time, 2 gateway sessions, 3 changes of method, discounts of 0 and 50 %, one instruction per order, transfers exact or one unit off | page, payment row and gateway session name one amount; the invoice agrees with exact money and stays whole with other; no false alarm; the limit of instructions holds; a live session is never closed; `PaymentSession` implements `PaidOnce` |
| `requests` | one customer, who is a partner too: one API purchase in two wordings, an API deposit, an order and a deposit in the bot; 2 calls at a time, 2 API keys, limits of one | keys under control; deposits bounded; nothing is bought after a revocation; `Requests` implements `OnceOnly` |
| `mail_purchase` | 2 requests of one renter and one of another for two boxes; 2 calls; stock, wallets and the day's budget short of the sum | the provider is asked once; whole deliveries; the budget holds; `MailPurchase` implements `ServeOrRefund`; nothing stays REQUESTING |
| `inbox_poll` | 3 readers, a lease of five units | one reader at a time; a dead reader's lease ends |
| `telegram_outbox` | 2 orders, an alert to the owner, who is a customer too and switches his alerts on and off; batches of one | what is marked was sent, but for alerts the owner gave up himself; nobody waits for good |
| `poll_loops` | 2 updates, 2 tokens, 2 changes of settings, shutdowns or deaths | one loop asks at a time; no update is lost; the bot follows its settings |
| `sweeper_full_batch` | the instance of `sweeper` with a batch of one | **violated**: orders that lack stock fill the batch in every tick and a newer order, whose keys are there, waits for good |

`sweeper_full_batch` is a disagreement between the code and its comment
(`orders/delivery-sweeper.service.ts:37`): the list of a tick is the `BATCH`
PAID orders with the oldest `paidAt`, whatever became of them in the last tick.
With `BATCH` or more orders that wait for stock, a newer order whose delivery
was interrupted does not heal by itself; it needs an administrator or new
stock.

The runs check their properties in the presence of all actions of their module;
those of `Settlement` divide its channels between them and together take every
action. Deadlock is checked in `fulfillment`, `sweeper`, `sweeper_full_batch` and
`inbox_poll`; in the other runs the shop may come to a real end (everything
closed, sold or paid, every box rented, a bound reached).

Four things these runs make visible. The first three contradict nothing in the
repository. `MoneyToItsOwner` says *or its target has been paid
otherwise*: once an order is paid, its amounts are given out again, and a second
transfer for it may be credited to whoever got the same amount later. Money
for a cancelled order is only looked for while another target of that mode is
waiting, since otherwise the timer does not ask the exchange
(`orders/crypto-reconcile.service.ts:59`). A bank transfer with the right code
and a wrong amount stays `OBSERVED`: the candidates are filtered by the amount
before the code is looked for, so that the reason is a missing code, for which
no review is asked (`payments/payments.service.ts:75`, `:79`). Operators see
both kinds of row. The fourth is the inexact transfer for an older instruction
(above): the comment at `common/incoming-transfer.ts:97` says that the invoice told
at that session is restored exactly, and for such a transfer nothing is restored.
The difference is at most the matcher's 0.00005 in the money, but the whole
difference of the two methods' discounts in the invoice.

## Proofs

The theorems hold for all values of the constants that satisfy the `ASSUME`s at
the head of each module. Those of `Fulfillment` say that the tables are finite,
that constants have their types, that webhooks do not override quotas (only an
operator may, `FALSE \in Overuse`), and that a PENDING order of an earlier
release holds the keys it asked for (it was created by the same reservation).
Their coupons may be any. That of `Sweeper` types its constants and is used by
the theorems about it only. Those of `Settlement` give types; one of them,
`GapWide`, says that no customer errs by so much that the amount comes near
another's. That of `PaymentSession` gives types, says that `None` is the name of
no transfer, and that an error may be zero; how large errors get is left open.
Those of `Requests` say that partners' keys and callbacks are different things,
that a deposit costs nothing and that a callback has one body. That of
`InboxPoll` says that a reading ends before its lease does (`MaxRead <= Lease`:
the provider is given 6.5 s of the lease's 10 s,
`mail/mail-inbox.service.ts:43`; that the database takes no more than the rest
is assumed). Those of `MailPurchase`, `TelegramOutbox` and `PollLoops` give
types only.

| Theorem | Property | From |
|---|---|---|
| `Fulfillment_proofs!TypeCorrect` | `TypeOK` | itself inductive |
| `Fulfillment_proofs!MoneyAgrees` | `PaidMeansSuccess` | `Custody` |
| `Fulfillment_proofs!SoldKeysStay` | `SoldForever` | `Custody` |
| `Fulfillment_proofs!PendingOrdersHoldStock` | `PendingHoldsStock` | `StockInv` |
| `Fulfillment_proofs!NoKeyStranded` | `HeldByLiveOrder` | `StockInv` |
| `Fulfillment_proofs!DeliveryExact` | `DeliveredExactly` | `StockInv` |
| `Fulfillment_proofs!PromiseKept` | `KeepsSalePromise` | `StockInv` |
| `Fulfillment_proofs!CountExact` | `CouponCountExact` | `CouponInv` |
| `Fulfillment_proofs!QuotaKept` | `QuotaRespected` | `CouponInv` |
| `Fulfillment_proofs!SweptBooks` | `PaidMeansSuccess`, `PendingHoldsStock`, `HeldByLiveOrder`, `DeliveredExactly`, `CouponCountExact`, with the sweeper | `SweepInv` |
| `Fulfillment_proofs!SweptSteps` | `SoldForever`, `QuotaRespected`, with the sweeper | `SweepInv` |
| `Fulfillment_proofs!SweptPromise` | `KeepsSalePromise`, with the sweeper | `SweepInv` |
| `Settlement_proofs!AmountsStayApart` | `AmountsTellApart` | `SettlementInv` |
| `Settlement_proofs!OwnersGetTheirMoney` | `MoneyToItsOwner` | `SettlementInv` |
| `Settlement_proofs!PaidOnceOnly` | `PaidByOneMeans` | `SettlementInv` |
| `Settlement_proofs!LedgerStands` | `ClaimsStand` | `SettlementInv` |
| `Settlement_proofs!MoneyPromiseKept` | `KeepsMoneyPromise` | `SettlementInv` |
| `Settlement_proofs!WalletsExact` | `WalletExact` (stated with the proof) | `MoneyPromiseKept`'s steps |
| `PaymentSession_proofs!TermsStayTogether` | `TermsAgree` | `SessionInv` |
| `PaymentSession_proofs!InvoiceStaysRight` | `InvoiceMatchesMoney` | `SessionInv` |
| `PaymentSession_proofs!NoFalseAlarms` | `NoFalseAlarm` | `SessionInv` |
| `PaymentSession_proofs!LimitKept` | `OrderLimitHolds` | `SessionInv` |
| `PaymentSession_proofs!LiveSessionStays` | `LiveSessionKept` | `SessionInv` |
| `PaymentSession_proofs!SessionsKeepPromise` | `KeepsMoneyPromise` | `SessionInv` |
| `Requests_proofs!KeysStayUnderControl` | `KeysUnderControl` | `RequestsInv` |
| `Requests_proofs!DepositsStayBounded` | `DepositsBounded` | `RequestsInv` |
| `Requests_proofs!RevokedMeansNothing` | `NothingAfterRevocation` | `RequestsInv` |
| `Requests_proofs!OncePromiseKept` | `KeepsOncePromise` | `RequestsInv` |
| `MailPurchase_proofs!ProviderAskedOnce` | `AskedOnce` | `MailInv` |
| `MailPurchase_proofs!DeliveriesWhole` | `WholeDeliveries` | `MailInv` |
| `MailPurchase_proofs!RentPromiseKept` | `KeepsRentPromise` | `MailInv` |
| `MailPurchase_proofs!BudgetKept` | `DayWithinBudget` | `BudgetInv` |
| `MailPurchase_proofs!WalletsExact` | `WalletExact` (stated with the proof) | `RentPromiseKept`'s steps, `WalletInv` |
| `InboxPoll_proofs!OneReaderAtATime` | `OneReader` | `PollInv` |
| `TelegramOutbox_proofs!NothingMarkedUnsent` | `MarkedWasSent` | `OutboxInv` |
| `PollLoops_proofs!OnlyOnePolls` | `OnePoller` | `LoopInv` |
| `PollLoops_proofs!NoUpdateLost` | `ConfirmedWasHandled` | `LoopInv` |

Hardly any property is inductive as it stands: each depends on what the
open transactions may still do.

* `Custody` adds who owns what while a transaction is open. `TxOrders`: the
  order of a purchase is not yet visible, the order of a delivery stays PAID.
  `TxExclusive`: one purchase at a time (the advisory lock), one delivery per
  order (the row lock), no key locked twice. `TookLocked`: a locked key is
  still AVAILABLE, or RESERVED for the order being delivered. The code checks
  none of this; it follows from which lock is taken when.
* `StockInv` adds `KeyOwner` (which orders a key may carry in which status),
  `ItemCounts` (how many keys an item has in each status of its order) and
  `TookCounts` (how many keys of an item an open transaction has locked once it
  has gone through it). An order becomes DELIVERED because `TookCounts` says
  that what was locked and what was sold before make up the quantity.
* `CouponInv` adds `QuotaStillLeft`: the quota a purchase has checked is still
  left when it commits, since settlements wait for the advisory lock and
  administrators for the coupon's row. No such check stands before the use an
  EXPIRED order of an earlier release gets back: that no other order takes the
  same way past the quota is what remains to be shown of late payments, and follows
  from `PaidMeansSuccess`, since outside these orders a payment is SUCCESS only when
  its order is paid.
* `PromiseKept` maps `sold[o]` to the SOLD keys of `o`. Only `CommitDeliver`
  changes it: that step is `HandOver`; every other step is a `Move` of the
  orders whose status it changes, or a stutter.
* `SweepInv` is `StockInv`, `CouponInv` and the type of the tick's list. Each
  step of a tick is a step of `Fulfillment` or leaves its state alone, whatever
  the list says, because the transactions look at the order again; `RollBack` is
  `Abort`. Only `Restart` is no step of `Fulfillment`: it aborts every open
  transaction at once. The lemmas say that the invariants ask less of fewer open
  transactions, and that `KeySale` sees nothing of what was forgotten.
* `SettlementInv`: instructions of different targets that are not paid are
  `UniqueGap` apart (`GapsKept`): a new amount clashes with none, and a target
  that is closed keeps its amounts taken. A transfer follows an instruction of
  its target, give or take an error (`SentAsAsked`), so an instruction it fits is
  its target's, or the target has been paid and its amounts have been given out
  again. `ClaimsPaid`, `ClaimsApart` and `PaidSomehow` tie claims and the wallet to
  what is paid, `WalletPaid` rules out that a method is set up after the wallet
  has paid, and `ChangedWaits` says that no row with changed facts is `OBSERVED`,
  so the matchers never see one. Pollers act upon what they have read earlier;
  all that is needed of it is that it came from the exchange
  (`ReadsOfExchange`), because the facts are compared again when it is recorded.
* `SessionInv`: what a worker noted before it talked to the gateway is still of
  use when it comes back (`WorkFine`). A change of method holds a version that no
  instruction has and no other worker holds; if that version is still the order's,
  the room for an instruction that was counted is still there (`RoomLeft`),
  because only a change with that version could have used it. A worker that has
  registered a session, or asks about one, finds it recorded with the price it
  noted (`Recorded`), so webhook and inquiry name the same amount (`RowsFine`). A
  report that a session has closed stays true, since the gateway never opens a
  session again (`GatewayFine`; sessions are recorded before the gateway hears of
  them, `GatewayTold`). `MoneyFine` ties claims to paid orders: an exact claim to the price the
  order shows, another to the order's terms, which still fit each other because
  they did so before the money came (`TermsAgree`, which covers expired orders
  too) and are not touched afterwards.
* `RequestsInv` says of each call what its locks keep true (`Fine`): from `valid`
  on the key is active and access is enabled, from `admitted` on the shop is open
  and the idempotency key has no receipt, and once the call is `secured` the
  account is open and there is room, or money, for what will be made. Each of
  these was looked at by an earlier step and is used by the commit; the proof
  shows for every other action that it waits for the lock or leaves the fact
  alone. `CallsApart` has the exclusive locks, `ApiRows` and `BotRows` tie rows
  to receipts and callbacks.
* `WalletExact` of `Settlement` follows from what `PaidOnce` lets a step do: the
  worth of a deposit is agreed before it is paid and stays, a receipt adds it to
  one wallet, the wallet's payment takes the price of one order. A sum is
  the number of its coins (`Coins`), so that adding an element adds its coins.
* `MailInv` adds that a call about to ask the provider is the only one for its
  purchase and has not asked (`BuyersPaid`, `BuyersApart`), that a box belongs to
  nobody or to a delivered purchase (`OnlyDelivered`), and that an answer on its
  way has as many boxes as were ordered. `BudgetInv` and `WalletInv` are about sums
  over sets, `MapThenSumSet`, which the library defines by recursion over
  subsets. `SumsCount` shows that such a sum is the number of units in it: if it
  were not, there would be a least subset of which this is false
  (`LeastSubset`, by the well-foundedness of strict inclusion on finite sets), and
  the element the library picks from it leads to a smaller one. With that, a claim
  adds its cost to the day's sum, which it has compared with the limit, and the
  steps of `ServeOrRefund` move the price of one purchase between the wallet and
  what is held or served.
* `PollInv` adds `ReadersLease`: whoever asks the provider holds the lease since it
  began to ask, so the lease cannot have ended, and what a reader gives back
  without looking is its own.
* `OutboxInv` adds `SentIsThere`: a sweep that is about to mark a row has its message
  in the chat already, also when the row was armed again meanwhile. Rows
  that are marked unsent are taken from the orders that wait for the owner.
* `LoopInv`: generations tell loops apart and none is ahead of the bot's
  (`Numbered`); a loop that asks is the current one (`AskersCurrent`); there is
  none while the supervisor checks a token, so what `getMe` decides is not old
  when it is acted upon (`NoneWhileChecking`); and what a current loop would let
  Telegram forget has been handled (`BehindHandled`). A stopped loop may be
  behind or ahead, but no longer asks.

Every safety property of the runs, state or step, and every refinement, is stated
by a theorem. Only model-checked are the liveness properties, which this prover
does not reach: `StuckOrdersHeal`, `ExpiredOrdersRelease` and `OrphansPromoted` of
`Sweeper`, `RequestsEnd` of `MailPurchase`, `ReadAgain` of `InboxPoll`,
`EveryoneHears` of `TelegramOutbox` and `FollowsSettings` of `PollLoops`.

## Bounds and fairness

* Two workers. Every hazard listed here is a race of two transactions; the
  sweep and administration come on top as single actions. Workers are
  symmetric, which is sound because the symmetric runs check invariants and
  step properties only.
* Three orders, four keys, two variants: enough for two orders to compete for
  one variant, for an order of two items to fail at its second item, for a
  delivery to be partial, and for an old row to be present. The proofs remove
  these bounds.
* `Limits` = {1, 2} with three orders reaches, passes and, after an
  administrator's change, undercuts a limit.
* `MaxFailures` = 1 failure (a roll-back, a failed tick or a restart) in
  `sweeper`: a failure that may happen for ever would prevent every tick.
* `Batch` = 2 orders against `BATCH` in the code, with two orders in the shop;
  1 in `sweeper_full_batch`.
* `MIN_AGE_MS` (an order is left alone in its first minute) is left out: it only
  delays the first tick that sees an order.
* In `Settlement`, one unit is an `EPSILON` of the matchers; `UniqueStep` = 2 and
  `UniqueGap` = 4 keep the code's proportions (0.00005, 0.0001, 0.0002), and
  `MaxTries` = 3 steps serve two targets of one price and run out with a few
  instructions more. A tick of the clock stands for half of the
  24 hours a target is polled, or any fraction: `Window` = 1 and `MaxTime` = 2
  have transfers in the window, at its end and after it. `Errors` = {1} in
  `settlement_matching`: amounts that are exact are further from each other than
  amounts that are not. `MaxPerOrder` = 2
  binds in `settlement_channels`; `MaxPerUser` bounds the same rows and does
  not bind earlier. Transfers are symmetric where the exchange may correct all
  or none of them.
* `payment_session`: two requests and two sessions are what a stale answer takes;
  `MaxVersion` = 3 has a choice, another one and the way back. `MaxPerOrder` = 1,
  so that two changes that have passed the count compete for the last place.
  `Errors` = {0, 1}: one instruction that is exact and one that is not.
* `requests`: `MaxActive`, `MaxPending` and `MaxLooks` of one, so that every limit
  binds. One customer suffices, since locks are per customer or for everybody;
  the proofs remove the bound.
* `mail_purchase`: all purchases together exceed the stock, one wallet and the
  budget, so each guard refuses something.
* `telegram_outbox`: batches of one, so that a row that is not marked would keep
  the next one waiting; `MaxStarts` and `MaxSwitch` bound how often customers
  write `/start` and the bot stops, changes its token or dies. The owner's switch needs
  no bound.
* `poll_loops`: two updates, so that a loop can be stopped in the middle of a
  batch; two tokens, one of them replaced; two changes, so that a stop and a
  start meet a loop that has noticed neither.
* Fairness. The steps of a tick of the sweeper are strongly fair: the timer fires
  again and again, and PostgreSQL queues the waiters for the advisory lock and
  for a row first come first served, so a lock that keeps being freed is
  obtained. Steps of an open transaction are weakly fair: a transaction that is
  not rolled back goes on. In `TelegramOutbox` and `PollLoops` timers are weakly
  fair; calls to Telegram and the database are strongly fair, which says that
  they fail now and then, without limit, but not for ever. In `MailPurchase` the
  clock runs and a waiting customer looks at the list again; in `InboxPoll` an
  open tab asks again. A container that ends is started again. Nothing is
  assumed of customers, gateways, the mail provider or administrators.

## What is not modelled

The components marked `not_modelled` in PROJECT.json, each with its reason: they
are content, settings and presentation, or single conditional updates that are
safe by their form. They are also most of the repository's lines (pages,
dictionaries, message texts, validation schemas), so the share of lines that
the models stand for is small, while the share of the code that moves money,
keys and messages is large.

Of `Settlement`: changes of receiving accounts and of the exchange rate, orders
with a total of zero, the backfill of claims of earlier releases, memos that
carry two codes, corrections of the amount of a transfer, and the journal
`BalanceEntry`, which is written next to each change of a balance. Binance Pay
sessions, the mock gateway and the price being put back are in `PaymentSession`,
not there. `PaymentSession` leaves out deadlines that change with the method,
and what becomes of the coupon of an expired order that is paid, which is in
`Fulfillment`. Its limit on instructions is shown per order. The limit per
customer is counted in the same place (`orders/orders.service.ts:565`) and is a
guard of the module too, but no property: changes for two orders at once do pass
it, since only the order's own version ties the second transaction to the first.
A payment from the wallet is one action of `Settlement`, because every debit
holds the arbitration lock (`balance/balance-transaction.ts:33`); `WalletExact`
says for any number of orders that nothing is spent twice. `Requests` leaves out
request quotas, expiry and scopes of keys. `MailPurchase` has one offer at a
fixed price; the text of codes is not in `InboxPoll`. `TelegramOutbox` and
`PollLoops` leave out conversation, texts, cool-downs, low stock, groups, and
the clean-up of old alerts.

Of `Fulfillment`: deletion of products and variants, the comparison of
contents when stock is imported, lock-order deadlocks (PostgreSQL ends them by
a roll-back, which `Abort` covers where a transaction has several steps), the
text of keys, prices, and all reads that change nothing. Sweeping of `Payment`
rows happens with their order, never apart from it, so there is one `payStatus`
per order. Reads of a row with its relations (`findFirst` with `include`) count
as one snapshot.

Hazards that no property covers are listed in PROJECT.json with the reason for
each.

## Plan

1. `Fulfillment`, `KeySale`: done, proved.
2. `Sweeper`: done, safety proved, liveness model-checked.
3. `Settlement` with `PaidOnce`: done, proved.
4. `PaymentSession`, against `PaidOnce` too: done, proved.
5. `Requests` with `OnceOnly`: done, proved.
6. `MailPurchase` with `ServeOrRefund`, `InboxPoll`: done, safety proved.
7. `TelegramOutbox`, `PollLoops`: done, safety proved.

Open, in this order: the matchers on lists of transfers against a reference
definition over bounded inputs; actions that administrators confirm in the bot;
quotas of API requests; contents of imported keys; the order in which
transactions lock rows; storefront revisions and exchange rates.
