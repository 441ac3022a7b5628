-------------------------- MODULE Settlement_proofs ---------------------------
(***************************************************************************)
(* Proofs about money: amounts tell waiting payments apart, so money goes  *)
(* to what its sender meant it for; an order or a deposit is paid by one   *)
(* means, what the ledger says stands, and Settlement implements PaidOnce, *)
(* for any number of orders, deposits, transfers and pollers, any prices   *)
(* and any history of the exchange.                                        *)
(***************************************************************************)
EXTENDS Settlement, FiniteSetTheorems, TLAPS

Statuses     == {"NONE", "PENDING", "EXPIRED", "CANCELLED", "PAID"}
Instructions == [channel : Channels, amount : Nat \ {0}, since : Nat]
Rows == [status : {"NONE", "OBSERVED", "REVIEW", "CLAIMED"}, for : Targets \cup {NoTarget},
         facts : Nat, changed : BOOLEAN]
Sendings == [for : Targets \cup {NoTarget}, channel : Channels \cup {"NONE"}, amount : Nat,
             at : Nat, memo : BOOLEAN, facts : Nat]
Reports == [transfer : Transfers, facts : Nat]

TypeOK ==
  /\ status \in [Targets -> Statuses]
  /\ method \in [Orders -> Channels \cup {"NONE", "BALANCE"}]
  /\ choosing \in [Orders -> Channels \cup {"NONE"}]
  /\ created \in [Orders -> Nat]
  /\ issued \in [Targets -> SUBSET Instructions]
  /\ overdue \in SUBSET Deposits
  /\ balance \in [Users -> Nat]
  /\ ledger \in [Transfers -> Rows]
  /\ sent \in [Transfers -> Sendings]
  /\ history \in [Pollers -> SUBSET Reports]
  /\ settling \in Pollers \cup {NoPoller}
  /\ now \in Nat

\* Nothing is asked for before an order or a deposit exists.
NothingIssued == \A x \in Targets : status[x] = "NONE" => issued[x] = {}

\* Instructions of two targets that money can come in for are a gap apart.
GapsKept ==
  \A x, y \in Targets : x # y /\ Unresolved(x) /\ Unresolved(y) =>
    \A i \in UsdtInstructions(x), j \in UsdtInstructions(y) :
      Distance(i.amount, j.amount) >= UniqueGap

\* Who sent a transfer followed an instruction, and erred by no more than
\* customers do.
SentAsAsked ==
  \A t \in Transfers : sent[t] # NotSent =>
    /\ sent[t].for \in Targets
    /\ \E i \in issued[sent[t].for], e \in Errors :
         sent[t].channel = i.channel /\ sent[t].amount = i.amount + e

\* Pollers read transfers of the exchange only.
ReadsOfExchange ==
  \A p \in Pollers : \A seen \in history[p] : sent[seen.transfer].channel \in Usdt

\* Only orders that are paid are paid by the wallet.
WalletPaid == \A o \in Orders : method[o] = "BALANCE" => status[o] = "PAID"

\* A claim is for something that is paid, and not by the wallet.
ClaimsPaid ==
  \A t \in Transfers : ledger[t].status = "CLAIMED" =>
    /\ ledger[t].for \in Targets
    /\ status[ledger[t].for] = "PAID"
    /\ ledger[t].for \in Orders => method[ledger[t].for] # "BALANCE"

ClaimsApart ==
  \A t, u \in Transfers :
    ledger[t].status = "CLAIMED" /\ ledger[u].status = "CLAIMED" /\ ledger[t].for = ledger[u].for
      => t = u

\* What is paid was paid by the wallet or by a claim.
PaidSomehow ==
  \A x \in Targets : status[x] = "PAID" =>
    \/ x \in Orders /\ method[x] = "BALANCE"
    \/ \E t \in Transfers : ledger[t].status = "CLAIMED" /\ ledger[t].for = x

\* Facts that changed before the claim wait for a person.
ChangedWaits ==
  \A t \in Transfers : ledger[t].changed => ledger[t].status \in {"REVIEW", "CLAIMED"}

\* The inductive invariant.
SettlementInv ==
  /\ TypeOK /\ NothingIssued /\ GapsKept /\ SentAsAsked /\ ReadsOfExchange
  /\ WalletPaid /\ ClaimsPaid /\ ClaimsApart /\ PaidSomehow /\ ChangedWaits

-----------------------------------------------------------------------------
(* Helpers.                                                                *)

LEMMA Numbers ==
  /\ Epsilon \in Nat /\ UniqueStep \in Nat /\ UniqueGap \in Nat /\ MaxTries \in Nat
  /\ Window \in Nat /\ Errors \subseteq Nat
BY NumbersTyped

LEMMA DistanceLaws ==
  ASSUME NEW a \in Nat, NEW b \in Nat
  PROVE  Distance(a, b) \in Nat /\ Distance(a, b) = Distance(b, a)
BY DEF Distance

\* Amounts a gap apart stay apart by more than the epsilon of the matchers.
LEMMA GapTellsApart ==
  ASSUME NEW a \in Nat, NEW b \in Nat, NEW e \in Errors, Distance(a, b) >= UniqueGap
  PROVE  Distance(a + e, b) > Epsilon
<1>1. e \in Nat /\ e + Epsilon < UniqueGap /\ UniqueGap \in Nat /\ Epsilon \in Nat
  BY GapWide, Numbers
<1> QED BY <1>1 DEF Distance

\* An amount that is asked for is positive and, in USDT, clashes with none.
LEMMA AmountAskedLaws ==
  ASSUME NEW x \in Targets, NEW c \in Channels, NEW a \in AmountsFrom(Price[x]),
         AmountAsked(a, c, Price[x])
  PROVE  a \in Nat \ {0} /\ (c \in Usdt => ~Clashes(a))
<1>1. Price[x] \in Nat \ {0}
  BY MoneyTyped
<1>2. PICK k \in 0 .. MaxTries - 1 : a = Price[x] + k * UniqueStep
  BY DEF AmountsFrom
<1>3. k \in Nat /\ k * UniqueStep \in Nat
  BY Numbers
<1>4. a \in Nat \ {0}
  BY <1>1, <1>2, <1>3
<1>5. ASSUME c \in Usdt PROVE ~Clashes(a)
  BY <1>5 DEF AmountAsked, PicksUnique
<1> QED BY <1>4, <1>5

LEMMA NotSentIsNotSending ==
  \A t \in Transfers : sent[t].channel \in Channels \/ sent[t].channel \in Usdt => sent[t] # NotSent
<1>1. "NONE" \notin Channels /\ "NONE" \notin Usdt
  BY ChannelsKnown DEF Usdt, Chains
<1> QED BY <1>1 DEF NotSent

\* A deposit is worth a natural number.
LEMMA WorthType ==
  ASSUME TypeOK, NEW d \in Targets
  PROVE  Worth(d) \in Nat
<1>1. CASE issued[d] = {}
  BY <1>1 DEF Worth
<1>2. CASE issued[d] # {}
  <2>1. (CHOOSE i \in issued[d] : TRUE) \in issued[d]
    BY <1>2
  <2>2. issued[d] \subseteq Instructions
    BY DEF TypeOK
  <2> QED BY <1>2, <2>1, <2>2 DEF Worth, Instructions
<1> QED BY <1>1, <1>2

-----------------------------------------------------------------------------
(* What the ledger may go through in one step.                             *)

\* A new row for t that claims nothing and keeps the facts.
Keeps(t, row) ==
  /\ row \in Rows
  /\ row.status = "CLAIMED" <=> ledger[t].status = "CLAIMED"
  /\ ledger[t].status = "CLAIMED" => row.for = ledger[t].for
  /\ ledger[t].status # "NONE" => row.facts = ledger[t].facts
  /\ row.changed => row.status \in {"REVIEW", "CLAIMED"}

Noted(t) == \E row \in Rows : Keeps(t, row) /\ Record(t, row)

\* The claim of t for x, which waits for money.
Claimed(t, x) ==
  /\ Awaiting(x)
  /\ \E row \in Rows : /\ Keeps(t, row)
                       /\ row.status \in {"OBSERVED", "REVIEW"}
                       /\ ~row.changed
                       /\ Claim(t, row, x)

LEMMA ObservedKeeps ==
  ASSUME TypeOK, ChangedWaits, NEW t \in Transfers, NEW facts \in Nat
  PROVE  Keeps(t, Observed(t, facts))
<1>1. ledger[t] \in Rows
  BY DEF TypeOK
<1>2. CASE ledger[t].status = "NONE"
  <2> DEFINE row == Observed(t, facts)
  <2>1. row = [NoRow EXCEPT !.status = "OBSERVED", !.facts = facts]
    BY <1>2 DEF Observed
  <2>2. row = [status |-> "OBSERVED", for |-> NoTarget, facts |-> facts, changed |-> FALSE]
    BY <2>1, Zenon DEF NoRow
  <2> HIDE DEF row
  <2>3. Keeps(t, row)
    BY <1>2, <2>2 DEF Keeps, Rows
  <2> QED BY <2>3 DEF row
<1>3. CASE ledger[t].status # "NONE" /\ ledger[t].facts # facts
  <2>1. Observed(t, facts) = [ledger[t] EXCEPT !.changed = TRUE,
                                !.status = IF @ = "CLAIMED" THEN @ ELSE "REVIEW"]
    BY <1>3 DEF Observed
  <2> QED BY <1>1, <1>3, <2>1 DEF Keeps, Rows
<1>4. CASE ledger[t].status # "NONE" /\ ledger[t].facts = facts
  BY <1>1, <1>4 DEF Observed, Keeps, ChangedWaits
<1> QED BY <1>2, <1>3, <1>4

\* What reconciling, the webhook and the matchers do with an observed row.
LEMMA ReviewNotes ==
  ASSUME NEW t \in Transfers, NEW row, Keeps(t, row), row.status # "CLAIMED", Review(t, row)
  PROVE  Noted(t)
<1> DEFINE new == [row EXCEPT !.status = "REVIEW"]
<1>1. Keeps(t, new)
  BY DEF Keeps, Rows
<1>2. Record(t, new)
  BY DEF Review
<1>3. new \in Rows
  BY DEF Keeps, Rows
<1> QED BY <1>1, <1>2, <1>3 DEF Noted

LEMMA RecordNotes ==
  ASSUME NEW t \in Transfers, NEW row, Keeps(t, row), Record(t, row)
  PROVE  Noted(t)
BY DEF Keeps, Noted

LEMMA SettleForDoes ==
  ASSUME NEW t \in Transfers, NEW row, Keeps(t, row), row.status = "OBSERVED",
         NEW x \in Targets, SettleFor(t, row, x)
  PROVE  Noted(t) \/ Claimed(t, x)
<1>1. CASE Review(t, row)
  BY <1>1, ReviewNotes
<1>2. CASE Awaiting(x) /\ Claim(t, row, x)
  <2>1. row \in Rows /\ ~row.changed
    BY DEF Keeps, Rows
  <2> QED BY <1>2, <2>1 DEF Claimed
<1> QED BY <1>1, <1>2 DEF SettleFor

\* x is what t was sent for, or that has been paid otherwise.
MeantFor(t, x) == sent[t] # NotSent /\ (x = sent[t].for \/ status[sent[t].for] = "PAID")

Decided(t) == Noted(t) \/ \E x \in Targets : MeantFor(t, x) /\ Claimed(t, x)

\* Whoever's instruction t fits, it was meant for them, or for something that
\* has been paid.
LEMMA FitsMeant ==
  ASSUME SettlementInv, AmountsTellApart, NEW t \in Transfers, sent[t].channel \in Usdt,
         NEW x \in Pool(t)
  PROVE  x \in Targets /\ MeantFor(t, x)
<1> USE DEF SettlementInv
<1>1. sent[t] # NotSent
  BY NotSentIsNotSending
<1>2. x \in Targets /\ Unresolved(x)
  BY DEF Pool
<1>3. PICK i \in issued[x] : i.channel = sent[t].channel /\ Distance(i.amount, sent[t].amount) <= Epsilon
  BY DEF Pool, Near
<1> DEFINE y == sent[t].for
<1>4. y \in Targets
  BY <1>1 DEF SentAsAsked
<1>5. PICK j \in issued[y], e \in Errors : sent[t].channel = j.channel /\ sent[t].amount = j.amount + e
  BY <1>1 DEF SentAsAsked
<1>6. status[y] \in Statuses \ {"NONE"}
  BY <1>4, <1>5 DEF TypeOK, NothingIssued
<1>7. ASSUME x # y, status[y] # "PAID" PROVE FALSE
  <2>1. Unresolved(y)
    BY <1>6, <1>7 DEF Unresolved, Statuses
  <2>2. i \in UsdtInstructions(x) /\ j \in UsdtInstructions(y)
    BY <1>3, <1>5 DEF UsdtInstructions
  <2>3. Distance(j.amount + e, i.amount) > Epsilon
    BY <1>2, <1>4, <1>7, <2>1, <2>2 DEF AmountsTellApart
  <2>4. i.amount \in Nat /\ j.amount + e \in Nat
    <3>1. i \in Instructions /\ j \in Instructions
      BY <1>2, <1>4 DEF TypeOK
    <3> QED BY <3>1, Numbers DEF Instructions
  <2>5. Distance(i.amount, j.amount + e) > Epsilon
    BY <2>3, <2>4, DistanceLaws
  <2>6. Distance(i.amount, j.amount + e) \in Nat
    BY <2>4, DistanceLaws
  <2>7. Distance(i.amount, j.amount + e) <= Epsilon
    <3>1. sent[t].amount = j.amount + e /\ Distance(i.amount, sent[t].amount) <= Epsilon
      BY <1>3, <1>5
    <3> HIDE DEF y
    <3> QED BY <3>1, Zenon
  <2> QED BY <2>5, <2>6, <2>7, Numbers
<1> QED BY <1>1, <1>2, <1>7 DEF MeantFor

LEMMA MatchDecides ==
  ASSUME SettlementInv, AmountsTellApart, NEW t \in Transfers, sent[t].channel \in Usdt,
         NEW row, Keeps(t, row), row.status = "OBSERVED", Match(t, row)
  PROVE  Decided(t)
<1>1. CASE Review(t, row)
  BY <1>1, ReviewNotes DEF Decided
<1>2. CASE Record(t, row)
  BY <1>2, RecordNotes DEF Decided
<1>3. CASE \E x \in Pool(t) : SettleFor(t, row, x)
  <2>1. PICK x \in Pool(t) : SettleFor(t, row, x)
    BY <1>3
  <2>2. x \in Targets /\ MeantFor(t, x)
    BY FitsMeant
  <2>3. Noted(t) \/ Claimed(t, x)
    BY <2>1, <2>2, SettleForDoes
  <2> QED BY <2>2, <2>3 DEF Decided
<1> QED BY <1>1, <1>2, <1>3 DEF Match

\* A bank transfer names what it is for.
LEMMA MatchBankDecides ==
  ASSUME SettlementInv, NEW t \in Transfers, sent[t] # NotSent,
         NEW row, Keeps(t, row), row.status = "OBSERVED", MatchBank(t, row)
  PROVE  Decided(t)
<1>1. CASE Record(t, row)
  BY <1>1, RecordNotes DEF Decided
<1>2. CASE \E x \in Targets : x = sent[t].for /\ SettleFor(t, row, x)
  <2>1. PICK x \in Targets : x = sent[t].for /\ SettleFor(t, row, x)
    BY <1>2
  <2>2. MeantFor(t, x)
    BY <2>1 DEF MeantFor
  <2>3. Noted(t) \/ Claimed(t, x)
    BY <2>1, SettleForDoes
  <2> QED BY <2>2, <2>3 DEF Decided
<1> QED BY <1>1, <1>2 DEF MatchBank

LEMMA ReconcileDecides ==
  ASSUME SettlementInv, AmountsTellApart, NEW p \in Pollers, Reconcile(p)
  PROVE  \E t \in Transfers : Decided(t)
<1> USE DEF SettlementInv
<1>1. PICK seen \in history[p] :
        LET row == Observed(seen.transfer, seen.facts)
        IN \/ row.status # "OBSERVED" /\ Record(seen.transfer, row)
           \/ row.status = "OBSERVED" /\ Match(seen.transfer, row)
  BY DEF Reconcile
<1>2. seen \in Reports /\ sent[seen.transfer].channel \in Usdt
  BY DEF TypeOK, ReadsOfExchange
<1> DEFINE t == seen.transfer
           row == Observed(t, seen.facts)
<1>3. t \in Transfers /\ Keeps(t, row)
  BY <1>2, ObservedKeeps DEF Reports
<1> HIDE DEF row
<1>4. \/ row.status # "OBSERVED" /\ Record(t, row)
      \/ row.status = "OBSERVED" /\ Match(t, row)
  BY <1>1 DEF row
<1>5. CASE Record(t, row)
  BY <1>3, <1>5, RecordNotes DEF Decided
<1>6. CASE row.status = "OBSERVED" /\ Match(t, row)
  BY <1>2, <1>3, <1>6, MatchDecides
<1> QED BY <1>3, <1>4, <1>5, <1>6

LEMMA WebhookDecides ==
  ASSUME SettlementInv, NEW t \in Transfers, SepayWebhook(t)
  PROVE  Decided(t)
<1> USE DEF SettlementInv
<1>1. sent[t] # NotSent
  BY DEF SepayWebhook, NotSent
<1>2. sent[t].facts \in Nat
  BY DEF TypeOK, Sendings
<1> DEFINE row == Observed(t, sent[t].facts)
<1>3. Keeps(t, row)
  BY <1>2, ObservedKeeps
<1> HIDE DEF row
<1>4. \/ row.status # "OBSERVED" /\ Record(t, row)
      \/ row.status = "OBSERVED" /\ MatchBank(t, row)
  BY DEF SepayWebhook, row
<1>5. CASE Record(t, row)
  BY <1>3, <1>5, RecordNotes DEF Decided
<1>6. CASE row.status = "OBSERVED" /\ MatchBank(t, row)
  BY <1>1, <1>3, <1>6, MatchBankDecides
<1> QED BY <1>4, <1>5, <1>6

LEMMA OperatorClaims ==
  ASSUME TypeOK, NEW o \in Orders, NEW t \in Transfers, OperatorSettles(o, t)
  PROVE  Claimed(t, o)
<1>1. ledger[t] \in Rows
  BY DEF TypeOK
<1>2. Keeps(t, ledger[t])
  BY <1>1 DEF OperatorSettles, Keeps
<1> QED BY <1>1, <1>2 DEF OperatorSettles, Claimed

-----------------------------------------------------------------------------
(* Preservation.                                                           *)

\* The gaps carry over the amounts of all instructions.
LEMMA GapsTellApart ==
  ASSUME TypeOK, GapsKept
  PROVE  AmountsTellApart
<1> SUFFICES ASSUME NEW x \in Targets, NEW y \in Targets, x # y, Unresolved(x), Unresolved(y),
                    NEW i \in UsdtInstructions(x), NEW j \in UsdtInstructions(y), NEW e \in Errors
             PROVE  Distance(i.amount + e, j.amount) > Epsilon
  BY DEF AmountsTellApart
<1>1. i.amount \in Nat /\ j.amount \in Nat
  BY DEF TypeOK, UsdtInstructions, Instructions
<1>2. Distance(i.amount, j.amount) >= UniqueGap
  BY DEF GapsKept
<1> QED BY <1>1, <1>2, GapTellsApart

\* No new instruction, and nothing unresolved that could have any.
LEMMA GapsFrame ==
  ASSUME GapsKept, UNCHANGED issued,
         \A x \in Targets : Unresolved(x)' => Unresolved(x) \/ issued[x] = {}
  PROVE  GapsKept'
<1> SUFFICES ASSUME NEW x \in Targets, NEW y \in Targets, x # y, Unresolved(x)', Unresolved(y)',
                    NEW i \in UsdtInstructions(x), NEW j \in UsdtInstructions(y)
             PROVE  Distance(i.amount, j.amount) >= UniqueGap
  BY DEF GapsKept, UsdtInstructions
<1>1. Unresolved(x) /\ Unresolved(y)
  BY DEF UsdtInstructions
<1> QED BY <1>1 DEF GapsKept

\* A new instruction of x whose amount clashes with none.
LEMMA GapsExtended ==
  ASSUME TypeOK, GapsKept, NEW x \in Targets, NEW new \in Instructions, NEW S,
         S \subseteq issued[x] \cup {new},
         issued' = [issued EXCEPT ![x] = S],
         new.channel \in Usdt => ~Clashes(new.amount),
         Unresolved(x) \/ issued[x] = {},
         \A y \in Targets \ {x} : status'[y] = status[y]
  PROVE  GapsKept'
<1>1. \A y \in Targets \ {x} : issued'[y] = issued[y] /\ status'[y] = status[y]
  BY DEF TypeOK
<1>2. UsdtInstructions(x)' \subseteq UsdtInstructions(x) \cup {new}
  BY DEF TypeOK, UsdtInstructions
<1>3. new.channel \notin Usdt => new \notin UsdtInstructions(x)'
  BY DEF UsdtInstructions
<1>4. \A y \in Targets : \A j \in UsdtInstructions(y) : j.amount \in Nat
  BY DEF TypeOK, UsdtInstructions, Instructions
<1>5. ASSUME NEW y \in Targets \ {x}, Unresolved(y)',
             NEW i \in UsdtInstructions(x)', NEW j \in UsdtInstructions(y)'
      PROVE  /\ Distance(i.amount, j.amount) >= UniqueGap
             /\ Distance(j.amount, i.amount) >= UniqueGap
  <2>1. Unresolved(y) /\ j \in UsdtInstructions(y) /\ j.amount \in Nat
    BY <1>1, <1>4, <1>5 DEF Unresolved, UsdtInstructions
  <2>2. CASE i = new
    <3>1. ~Clashes(new.amount) /\ new.amount \in Nat
      BY <1>3, <2>2 DEF Instructions
    <3>2. j.amount \in TakenAmounts
      BY <2>1 DEF TakenAmounts
    <3>3. ~(Distance(new.amount, j.amount) < UniqueGap)
      BY <3>1, <3>2 DEF Clashes
    <3>4. /\ Distance(new.amount, j.amount) \in Nat
          /\ Distance(new.amount, j.amount) = Distance(j.amount, new.amount)
      BY <2>1, <3>1, DistanceLaws
    <3> QED BY <2>2, <3>3, <3>4, Numbers
  <2>3. CASE i \in UsdtInstructions(x)
    <3>1. Unresolved(x)
      BY <2>3 DEF UsdtInstructions
    <3> QED BY <2>1, <2>3, <3>1 DEF GapsKept
  <2> QED BY <1>2, <2>2, <2>3
<1>6. ASSUME NEW y \in Targets, NEW z \in Targets, y # z, Unresolved(y)', Unresolved(z)',
             NEW i \in UsdtInstructions(y)', NEW j \in UsdtInstructions(z)'
      PROVE  Distance(i.amount, j.amount) >= UniqueGap
  <2>1. CASE y = x
    BY <1>5, <1>6, <2>1
  <2>2. CASE z = x
    BY <1>5, <1>6, <2>2
  <2>3. CASE y # x /\ z # x
    BY <1>1, <1>6, <2>3 DEF GapsKept, Unresolved, UsdtInstructions
  <2> QED BY <2>1, <2>2, <2>3
<1> QED BY <1>6 DEF GapsKept, Unresolved, UsdtInstructions

LEMMA SentFrame ==
  ASSUME SentAsAsked, UNCHANGED sent, \A x \in Targets : issued[x] \subseteq issued'[x]
  PROVE  SentAsAsked'
BY Zenon DEF SentAsAsked

\* Neither the ledger nor what is paid, and by the wallet, changes.
LEMMA ClaimsFrame ==
  ASSUME ClaimsPaid, ClaimsApart, PaidSomehow, ChangedWaits, UNCHANGED ledger,
         \A x \in Targets : status'[x] = "PAID" <=> status[x] = "PAID",
         \A o \in Orders : method'[o] = "BALANCE" <=> method[o] = "BALANCE"
  PROVE  ClaimsPaid' /\ ClaimsApart' /\ PaidSomehow' /\ ChangedWaits'
<1>1. ClaimsPaid'
  BY Zenon DEF ClaimsPaid
<1>2. ClaimsApart'
  BY Zenon DEF ClaimsApart
<1>3. PaidSomehow'
  BY Zenon DEF PaidSomehow
<1>4. ChangedWaits'
  BY Zenon DEF ChangedWaits
<1> QED BY <1>1, <1>2, <1>3, <1>4

\* What a step that moves no money has to see to.
LEMMA QuietStep ==
  ASSUME SettlementInv, TypeOK', NothingIssued', GapsKept', UNCHANGED <<sent, history, ledger>>,
         \A x \in Targets : issued[x] \subseteq issued'[x],
         \A x \in Targets : status'[x] = "PAID" <=> status[x] = "PAID",
         \A o \in Orders : method'[o] = "BALANCE" <=> method[o] = "BALANCE"
  PROVE  SettlementInv'
<1> USE DEF SettlementInv
<1>1. SentAsAsked'
  BY SentFrame
<1>2. ReadsOfExchange'
  BY DEF ReadsOfExchange
<1>3. WalletPaid'
  <2>1. \A o \in Orders : o \in Targets
    BY DEF Targets
  <2> QED BY <2>1 DEF WalletPaid
<1>4. ClaimsPaid' /\ ClaimsApart' /\ PaidSomehow' /\ ChangedWaits'
  BY ClaimsFrame
<1> QED BY <1>1, <1>2, <1>3, <1>4

\* Targets open, expire and are cancelled.
LEMMA StatusStep ==
  ASSUME SettlementInv, status' \in [Targets -> Statuses],
         created' \in [Orders -> Nat], overdue' \in SUBSET Deposits,
         choosing' \in [Orders -> Channels \cup {"NONE"}],
         UNCHANGED <<method, issued>>, UNCHANGED <<moneyVars, worldVars>>,
         \A x \in Targets : status'[x] # status[x] =>
           status[x] \in {"NONE", "PENDING"} /\ status'[x] \in {"PENDING", "EXPIRED", "CANCELLED"}
  PROVE  SettlementInv'
<1> USE DEF moneyVars, worldVars
<1>1. TypeOK /\ NothingIssued /\ GapsKept
  BY DEF SettlementInv
<1>2. TypeOK'
  BY <1>1 DEF TypeOK
<1>3. NothingIssued'
  BY <1>1 DEF NothingIssued
<1>4. \A x \in Targets : Unresolved(x)' => Unresolved(x) \/ issued[x] = {}
  BY <1>1 DEF Unresolved, NothingIssued
<1>5. GapsKept'
  BY <1>1, <1>4, GapsFrame
<1> QED BY <1>2, <1>3, <1>5, QuietStep

LEMMA DepositsTargets == Orders \subseteq Targets /\ Deposits \subseteq Targets
BY DEF Targets

LEMMA PrepareMethodKeeps ==
  ASSUME SettlementInv, NEW o \in Orders, NEW c \in Channels, PrepareMethod(o, c)
  PROVE  SettlementInv'
<1>1. choosing' \in [Orders -> Channels \cup {"NONE"}]
  BY DEF SettlementInv, TypeOK, PrepareMethod
<1>2. TypeOK
  BY DEF SettlementInv
<1>3. status' \in [Targets -> Statuses] /\ created' \in [Orders -> Nat] /\ overdue' \in SUBSET Deposits
  BY <1>2 DEF PrepareMethod, TypeOK
<1>4. UNCHANGED <<status, method, issued>> /\ UNCHANGED <<moneyVars, worldVars>>
  BY DEF PrepareMethod
<1> QED BY <1>1, <1>3, <1>4, StatusStep

LEMMA PlaceOrderKeeps ==
  ASSUME SettlementInv, NEW o \in Orders, PlaceOrder(o)
  PROVE  SettlementInv'
<1>1. TypeOK
  BY DEF SettlementInv
<1>2. status' \in [Targets -> Statuses] /\ created' \in [Orders -> Nat]
  BY <1>1, DepositsTargets DEF PlaceOrder, TypeOK, Statuses
<1>3. \A x \in Targets : status'[x] # status[x] =>
        status[x] \in {"NONE", "PENDING"} /\ status'[x] \in {"PENDING", "EXPIRED", "CANCELLED"}
  BY <1>1 DEF PlaceOrder, TypeOK
<1>4. choosing' \in [Orders -> Channels \cup {"NONE"}] /\ overdue' \in SUBSET Deposits
  BY <1>1 DEF PlaceOrder, TypeOK
<1>5. UNCHANGED <<method, issued>> /\ UNCHANGED <<moneyVars, worldVars>>
  BY DEF PlaceOrder
<1> QED BY <1>2, <1>3, <1>4, <1>5, StatusStep

LEMMA CloseKeeps ==
  ASSUME SettlementInv, NEW y \in Targets, status[y] = "PENDING",
         NEW st \in {"EXPIRED", "CANCELLED"}, status' = [status EXCEPT ![y] = st],
         UNCHANGED <<termVars, moneyVars, worldVars>>
  PROVE  SettlementInv'
<1>1. TypeOK
  BY DEF SettlementInv
<1>2. status' \in [Targets -> Statuses]
  BY <1>1 DEF TypeOK, Statuses
<1>3. \A x \in Targets : status'[x] # status[x] =>
        status[x] \in {"NONE", "PENDING"} /\ status'[x] \in {"PENDING", "EXPIRED", "CANCELLED"}
  BY <1>1 DEF TypeOK
<1>4. /\ choosing' \in [Orders -> Channels \cup {"NONE"}]
      /\ created' \in [Orders -> Nat] /\ overdue' \in SUBSET Deposits
  BY <1>1 DEF termVars, TypeOK
<1>5. UNCHANGED <<method, issued>> /\ UNCHANGED <<moneyVars, worldVars>>
  BY DEF termVars
<1> QED BY <1>2, <1>3, <1>4, <1>5, StatusStep

LEMMA ExpireDepositsKeeps ==
  ASSUME SettlementInv, ExpireDeposits
  PROVE  SettlementInv'
<1>1. TypeOK
  BY DEF SettlementInv
<1>2. status' \in [Targets -> Statuses]
  BY <1>1 DEF ExpireDeposits, TypeOK, Statuses
<1>3. \A x \in Targets : status'[x] # status[x] =>
        status[x] \in {"NONE", "PENDING"} /\ status'[x] \in {"PENDING", "EXPIRED", "CANCELLED"}
  BY <1>1 DEF ExpireDeposits, TypeOK
<1>4. /\ choosing' \in [Orders -> Channels \cup {"NONE"}]
      /\ created' \in [Orders -> Nat] /\ overdue' \in SUBSET Deposits
  BY <1>1 DEF ExpireDeposits, termVars, TypeOK
<1>5. UNCHANGED <<method, issued>> /\ UNCHANGED <<moneyVars, worldVars>>
  BY DEF ExpireDeposits, termVars
<1> QED BY <1>2, <1>3, <1>4, <1>5, StatusStep

LEMMA DepositDeadlineKeeps ==
  ASSUME SettlementInv, NEW d \in Deposits, DepositDeadline(d)
  PROVE  SettlementInv'
<1>1. TypeOK
  BY DEF SettlementInv
<1>2. /\ status' \in [Targets -> Statuses] /\ choosing' \in [Orders -> Channels \cup {"NONE"}]
      /\ created' \in [Orders -> Nat] /\ overdue' \in SUBSET Deposits
  BY <1>1 DEF DepositDeadline, TypeOK
<1>3. UNCHANGED <<status, method, issued>> /\ UNCHANGED <<moneyVars, worldVars>>
  BY DEF DepositDeadline
<1> QED BY <1>2, <1>3, StatusStep

\* A target gets an instruction.
LEMMA IssueKeeps ==
  ASSUME SettlementInv, NEW x \in Targets, NEW c \in Channels,
         NEW a \in AmountsFrom(Price[x]), AmountAsked(a, c, Price[x]),
         NEW S, S \subseteq issued[x] \cup {[channel |-> c, amount |-> a, since |-> now]},
         issued[x] \subseteq S,
         issued' = [issued EXCEPT ![x] = S],
         status' = [status EXCEPT ![x] = "PENDING"],
         status[x] = "PENDING" \/ status[x] = "NONE",
         method' \in [Orders -> Channels \cup {"NONE", "BALANCE"}],
         choosing' \in [Orders -> Channels \cup {"NONE"}],
         \A o \in Orders : method'[o] = "BALANCE" <=> method[o] = "BALANCE",
         UNCHANGED <<created, overdue>>, UNCHANGED <<moneyVars, worldVars>>
  PROVE  SettlementInv'
<1> USE DEF moneyVars, worldVars
<1>1. TypeOK /\ NothingIssued /\ GapsKept
  BY DEF SettlementInv
<1> DEFINE new == [channel |-> c, amount |-> a, since |-> now]
<1>2. new \in Instructions /\ (new.channel \in Usdt => ~Clashes(new.amount))
  BY <1>1, AmountAskedLaws DEF Instructions, TypeOK
<1>3. S \subseteq issued[x] \cup {new}
  OBVIOUS
<1> HIDE DEF new
<1>4. \A y \in Targets \ {x} : status'[y] = status[y]
  BY <1>1 DEF TypeOK
<1>5. Unresolved(x) \/ issued[x] = {}
  BY <1>1 DEF Unresolved, NothingIssued
<1>6. GapsKept'
  BY <1>1, <1>2, <1>3, <1>4, <1>5, GapsExtended
<1>7. TypeOK'
  <2>1. S \in SUBSET Instructions
    BY <1>1, <1>2, <1>3 DEF TypeOK
  <2>2. issued' \in [Targets -> SUBSET Instructions]
    BY <1>1, <2>1 DEF TypeOK
  <2>3. status' \in [Targets -> Statuses]
    BY <1>1 DEF TypeOK, Statuses
  <2> QED BY <1>1, <2>2, <2>3 DEF TypeOK
<1>8. \A y \in Targets : issued[y] \subseteq issued'[y]
  BY <1>1 DEF TypeOK
<1>9. NothingIssued' /\ \A y \in Targets : status'[y] = "PAID" <=> status[y] = "PAID"
  BY <1>1 DEF TypeOK, NothingIssued
<1> QED BY <1>6, <1>7, <1>8, <1>9, QuietStep

LEMMA CreateDepositKeeps ==
  ASSUME SettlementInv, NEW d \in Deposits, NEW c \in Channels, CreateDeposit(d, c)
  PROVE  SettlementInv'
<1>1. TypeOK /\ NothingIssued
  BY DEF SettlementInv
<1>2. d \in Targets /\ status[d] = "NONE" /\ issued[d] = {}
  BY <1>1, DepositsTargets DEF CreateDeposit, NothingIssued
<1>3. PICK a \in AmountsFrom(Price[d]) :
        /\ AmountAsked(a, c, Price[d])
        /\ issued' = [issued EXCEPT ![d] = {[channel |-> c, amount |-> a, since |-> now]}]
  BY DEF CreateDeposit
<1> DEFINE S == {[channel |-> c, amount |-> a, since |-> now]}
<1>4. issued' = [issued EXCEPT ![d] = S]
  BY <1>3
<1>5. issued[d] \subseteq S /\ S \subseteq issued[d] \cup {[channel |-> c, amount |-> a, since |-> now]}
  BY <1>2
<1>6. /\ method' \in [Orders -> Channels \cup {"NONE", "BALANCE"}]
      /\ choosing' \in [Orders -> Channels \cup {"NONE"}]
      /\ \A o \in Orders : method'[o] = "BALANCE" <=> method[o] = "BALANCE"
  BY <1>1 DEF CreateDeposit, TypeOK
<1>7. /\ status' = [status EXCEPT ![d] = "PENDING"]
      /\ UNCHANGED <<created, overdue>> /\ UNCHANGED <<moneyVars, worldVars>>
  BY DEF CreateDeposit
<1> HIDE DEF S
<1> QED BY <1>2, <1>3, <1>4, <1>5, <1>6, <1>7, IssueKeeps

LEMMA PersistMethodKeeps ==
  ASSUME SettlementInv, NEW o \in Orders, PersistMethod(o)
  PROVE  SettlementInv'
<1>1. TypeOK /\ WalletPaid
  BY DEF SettlementInv
<1> DEFINE c == choosing[o]
<1>2. c \in Channels /\ c # "BALANCE" /\ status[o] = "PENDING" /\ o \in Targets
  BY <1>1, ChannelsKnown, DepositsTargets DEF PersistMethod, TypeOK, Usdt, Chains
<1>3. PICK a \in AmountsFrom(Price[o]) :
        /\ AmountAsked(a, c, Price[o])
        /\ issued' = [issued EXCEPT ![o] = @ \cup {[channel |-> c, amount |-> a, since |-> now]}]
  BY DEF PersistMethod
<1>4. method' \in [Orders -> Channels \cup {"NONE", "BALANCE"}]
  BY <1>1, <1>2 DEF PersistMethod, TypeOK
<1>5. choosing' \in [Orders -> Channels \cup {"NONE"}]
  BY <1>1 DEF PersistMethod, TypeOK
<1>6. \A p \in Orders : method'[p] = "BALANCE" <=> method[p] = "BALANCE"
  BY <1>1, <1>2 DEF PersistMethod, TypeOK, WalletPaid
<1>7. status' = [status EXCEPT ![o] = "PENDING"]
  BY <1>1, <1>2 DEF PersistMethod, TypeOK
<1>8. UNCHANGED <<created, overdue>> /\ UNCHANGED <<moneyVars, worldVars>>
  BY DEF PersistMethod
<1> DEFINE S == issued[o] \cup {[channel |-> c, amount |-> a, since |-> now]}
<1>9. issued' = [issued EXCEPT ![o] = S]
  BY <1>3
<1>10. issued[o] \subseteq S /\ S \subseteq issued[o] \cup {[channel |-> c, amount |-> a, since |-> now]}
  OBVIOUS
<1> HIDE DEF S, c
<1> QED BY <1>2, <1>3, <1>4, <1>5, <1>6, <1>7, <1>8, <1>9, <1>10, IssueKeeps

LEMMA PayWithBalanceKeeps ==
  ASSUME SettlementInv, NEW o \in Orders, NEW from \in {"NONE", "PENDING"}, PayWithBalance(o, from)
  PROVE  SettlementInv'
<1> USE DEF SettlementInv
<1>1. o \in Targets /\ status[o] # "PAID" /\ Owner[o] \in Users /\ Price[o] \in Nat
  BY DepositsTargets, MoneyTyped DEF PayWithBalance
<1>2. \A x \in Targets : status'[x] = IF x = o THEN "PAID" ELSE status[x]
  BY DEF PayWithBalance, TypeOK
<1>3. \A p \in Orders : method'[p] = IF p = o THEN "BALANCE" ELSE method[p]
  BY DEF PayWithBalance, TypeOK
<1>4. UNCHANGED <<issued, ledger, sent, history>>
  BY DEF PayWithBalance, worldVars
<1>5. TypeOK'
  <2>1. status' \in [Targets -> Statuses]
    BY DEF PayWithBalance, TypeOK, Statuses
  <2>2. method' \in [Orders -> Channels \cup {"NONE", "BALANCE"}]
    BY DEF PayWithBalance, TypeOK
  <2>3. balance' \in [Users -> Nat]
    <3>1. balance[Owner[o]] \in Nat /\ balance[Owner[o]] - Price[o] \in Nat
      BY <1>1 DEF PayWithBalance, TypeOK
    <3> QED BY <1>1, <3>1 DEF PayWithBalance, TypeOK
  <2> QED BY <2>1, <2>2, <2>3 DEF PayWithBalance, TypeOK, worldVars
<1>6. NothingIssued'
  BY <1>2, <1>4 DEF NothingIssued
<1>7. GapsKept'
  <2>1. \A x \in Targets : Unresolved(x)' => Unresolved(x) \/ issued[x] = {}
    BY <1>2 DEF Unresolved
  <2> QED BY <1>4, <2>1, GapsFrame
<1>8. SentAsAsked' /\ ReadsOfExchange'
  BY <1>4, SentFrame DEF ReadsOfExchange
<1>9. WalletPaid'
  BY <1>1, <1>2, <1>3, DepositsTargets DEF WalletPaid
<1>10. ClaimsPaid'
  BY <1>1, <1>2, <1>3, <1>4 DEF ClaimsPaid
<1>11. ClaimsApart' /\ ChangedWaits'
  BY <1>4 DEF ClaimsApart, ChangedWaits
<1>12. PaidSomehow'
  BY <1>2, <1>3, <1>4 DEF PaidSomehow
<1> QED BY <1>5, <1>6, <1>7, <1>8, <1>9, <1>10, <1>11, <1>12

\* What a step outside the shop, or of a poller that reads, has to see to.
LEMMA WorldStep ==
  ASSUME SettlementInv, UNCHANGED <<targetVars, moneyVars>>, TypeOK', SentAsAsked', ReadsOfExchange'
  PROVE  SettlementInv'
<1> USE DEF SettlementInv
<1>1. UNCHANGED <<status, method, issued, ledger>>
  BY DEF targetVars, termVars, moneyVars
<1>2. NothingIssued' /\ WalletPaid'
  BY <1>1 DEF NothingIssued, WalletPaid
<1>3. GapsKept'
  <2>1. \A x \in Targets : Unresolved(x)' => Unresolved(x) \/ issued[x] = {}
    BY <1>1 DEF Unresolved
  <2> QED BY <1>1, <2>1, GapsFrame
<1>4. ClaimsPaid' /\ ClaimsApart' /\ PaidSomehow' /\ ChangedWaits'
  BY <1>1, ClaimsFrame
<1> QED BY <1>2, <1>3, <1>4

LEMMA SendKeeps ==
  ASSUME SettlementInv, NEW t \in Transfers, NEW x \in Targets, NEW i, NEW memo \in BOOLEAN,
         NEW e \in Errors, Send(t, x, i, memo, e)
  PROVE  SettlementInv'
<1> USE DEF SettlementInv
<1> DEFINE new == [for |-> x, channel |-> i.channel, amount |-> i.amount + e,
                   at |-> now, memo |-> memo, facts |-> 0]
<1>1. i \in issued[x] /\ i \in Instructions /\ e \in Nat
  BY Numbers DEF Send, TypeOK
<1>2. new \in Sendings
  BY <1>1 DEF Sendings, Instructions, TypeOK
<1>3. sent' = [sent EXCEPT ![t] = new] /\ sent[t] = NotSent
  BY DEF Send
<1>4. /\ new.for = x /\ new.channel = i.channel /\ new.amount = i.amount + e
  OBVIOUS
<1> HIDE DEF new
<1>5. UNCHANGED <<targetVars, moneyVars>> /\ UNCHANGED <<history, settling, now>>
  BY DEF Send
<1>6. TypeOK'
  BY <1>2, <1>3, <1>5 DEF TypeOK, targetVars, termVars, moneyVars
<1>7. SentAsAsked'
  <2>1. UNCHANGED issued
    BY <1>5 DEF targetVars, termVars
  <2>2. \A u \in Transfers : sent'[u] = IF u = t THEN new ELSE sent[u]
    BY <1>3 DEF TypeOK
  <2> QED BY <1>1, <1>4, <2>1, <2>2 DEF SentAsAsked
<1>8. ReadsOfExchange'
  <2> SUFFICES ASSUME NEW p \in Pollers, NEW seen \in history[p]
               PROVE  sent'[seen.transfer].channel \in Usdt
    BY <1>5 DEF ReadsOfExchange
  <2>1. sent[seen.transfer].channel \in Usdt /\ seen.transfer \in Transfers
    BY DEF ReadsOfExchange, TypeOK, Reports
  <2>2. sent[seen.transfer] # NotSent
    BY <2>1, NotSentIsNotSending
  <2> QED BY <1>3, <2>1, <2>2 DEF TypeOK
<1> QED BY <1>5, <1>6, <1>7, <1>8, WorldStep

LEMMA ProviderCorrectsKeeps ==
  ASSUME SettlementInv, NEW t \in Transfers, ProviderCorrects(t)
  PROVE  SettlementInv'
<1> USE DEF SettlementInv
<1>1. UNCHANGED <<targetVars, moneyVars>> /\ UNCHANGED <<history, settling, now>>
  BY DEF ProviderCorrects
<1> DEFINE new == [sent[t] EXCEPT !.facts = 1]
<1>2. sent[t] \in Sendings /\ sent' = [sent EXCEPT ![t] = new]
  BY DEF ProviderCorrects, TypeOK
<1>3. /\ new \in Sendings /\ new.for = sent[t].for /\ new.channel = sent[t].channel
      /\ new.amount = sent[t].amount
  BY <1>2 DEF Sendings
<1> HIDE DEF new
<1>4. TypeOK'
  BY <1>1, <1>2, <1>3 DEF TypeOK, targetVars, termVars, moneyVars
<1>5. \A u \in Transfers : sent'[u] = IF u = t THEN new ELSE sent[u]
  BY <1>2 DEF TypeOK
<1>6. sent[t] # NotSent
  BY NotSentIsNotSending DEF ProviderCorrects
<1>7. SentAsAsked'
  BY <1>1, <1>3, <1>5, <1>6 DEF SentAsAsked, targetVars, termVars
<1>8. ReadsOfExchange'
  <2>1. \A p \in Pollers : \A seen \in history[p] : seen.transfer \in Transfers
    BY DEF TypeOK, Reports
  <2> QED BY <1>1, <1>3, <1>5, <2>1 DEF ReadsOfExchange
<1> QED BY <1>1, <1>4, <1>7, <1>8, WorldStep

LEMMA ReadsKeeps ==
  ASSUME SettlementInv, NEW p, NEW S \in SUBSET Transfers,
         \A t \in S : sent[t].channel \in Usdt, Reads(p, S)
  PROVE  SettlementInv'
<1> USE DEF SettlementInv
<1>1. UNCHANGED <<targetVars, moneyVars>> /\ UNCHANGED <<sent, settling, now>> /\ p \in Pollers
  BY DEF Reads
<1> DEFINE new == {[transfer |-> t, facts |-> sent[t].facts] : t \in S}
<1>2. history' = [history EXCEPT ![p] = new]
  BY DEF Reads
<1>3. new \in SUBSET Reports
  BY DEF TypeOK, Reports, Sendings
<1>4. \A seen \in new : sent[seen.transfer].channel \in Usdt
  OBVIOUS
<1> HIDE DEF new
<1>5. TypeOK'
  BY <1>1, <1>2, <1>3 DEF TypeOK, targetVars, termVars, moneyVars
<1>6. SentAsAsked'
  BY <1>1, SentFrame DEF targetVars, termVars
<1>7. ReadsOfExchange'
  BY <1>1, <1>2, <1>4 DEF ReadsOfExchange, TypeOK
<1> QED BY <1>1, <1>5, <1>6, <1>7, WorldStep

LEMMA VisibleOfExchange ==
  ASSUME TypeOK, NEW m \in {"CRYPTO", "BINANCE_ID"}, NEW since, NEW t \in Visible(m, since)
  PROVE  t \in Transfers /\ sent[t].channel \in Usdt
<1>1. t \in Transfers /\ ModeOf(sent[t].channel) = m
  BY DEF Visible
<1>2. sent[t].channel \in Channels \cup {"NONE"}
  BY <1>1 DEF TypeOK, Sendings
<1>3. sent[t].channel # "CRYPTO"
  BY <1>2, ChannelsKnown DEF Usdt, Chains
<1> QED BY <1>1, <1>3 DEF ModeOf, Usdt, Chains

LEMMA ReadKeeps ==
  ASSUME SettlementInv, Read
  PROVE  SettlementInv'
<1>1. TypeOK
  BY DEF SettlementInv
<1>2. CASE \E m \in {"CRYPTO", "BINANCE_ID"} : TimerReads(m)
  <2>1. PICK m \in {"CRYPTO", "BINANCE_ID"} : TimerReads(m)
    BY <1>2
  <2>2. PICK S \in SUBSET Visible(m, Oldest(m)) : Reads("timer", S)
    BY <2>1 DEF TimerReads
  <2>3. \A t \in S : t \in Transfers /\ sent[t].channel \in Usdt
    BY <1>1, VisibleOfExchange
  <2> QED BY <2>2, <2>3, ReadsKeeps
<1>3. CASE \E o \in Orders : CheckPayment(o)
  <2>1. PICK o \in Orders : CheckPayment(o)
    BY <1>3
  <2>2. PICK S \in SUBSET Visible("CRYPTO", created[o]) : Reads("request", S)
    BY <2>1 DEF CheckPayment
  <2>3. \A t \in S : t \in Transfers /\ sent[t].channel \in Usdt
    BY <1>1, VisibleOfExchange
  <2> QED BY <2>2, <2>3, ReadsKeeps
<1>4. CASE \E o \in Orders, t \in Transfers : SubmitTx(o, t)
  <2>1. PICK o \in Orders, t \in Transfers : SubmitTx(o, t)
    BY <1>4
  <2>2. sent[t].channel \in Usdt /\ Reads("request", {t})
    BY <2>1 DEF SubmitTx, Usdt
  <2>3. {t} \in SUBSET Transfers /\ \A u \in {t} : sent[u].channel \in Usdt
    BY <2>2
  <2> QED BY <2>2, <2>3, ReadsKeeps
<1> QED BY <1>2, <1>3, <1>4 DEF Read

LEMMA PollFailsKeeps ==
  ASSUME SettlementInv, NEW p \in Pollers, PollFails(p)
  PROVE  SettlementInv'
<1> USE DEF SettlementInv
<1>1. UNCHANGED <<targetVars, moneyVars>> /\ UNCHANGED <<sent, settling, now>>
  BY DEF PollFails
<1>2. \A q \in Pollers : history'[q] \subseteq history[q]
  BY DEF PollFails, TypeOK
<1>3. TypeOK'
  BY <1>1 DEF PollFails, TypeOK, targetVars, termVars, moneyVars
<1>4. SentAsAsked'
  BY <1>1, SentFrame DEF targetVars, termVars
<1>5. ReadsOfExchange'
  BY <1>1, <1>2 DEF ReadsOfExchange
<1> QED BY <1>1, <1>3, <1>4, <1>5, WorldStep

LEMMA TimePassesKeeps ==
  ASSUME SettlementInv, TimePasses
  PROVE  SettlementInv'
<1> USE DEF SettlementInv
<1>1. UNCHANGED <<targetVars, moneyVars>> /\ UNCHANGED <<sent, history, settling>>
  BY DEF TimePasses
<1>2. TypeOK'
  BY <1>1 DEF TimePasses, TypeOK, targetVars, termVars, moneyVars
<1>3. SentAsAsked' /\ ReadsOfExchange'
  BY <1>1, SentFrame DEF ReadsOfExchange, targetVars, termVars
<1> QED BY <1>1, <1>2, <1>3, WorldStep

LEMMA TradeKeeps ==
  ASSUME SettlementInv, Trade
  PROVE  SettlementInv'
<1>1. ASSUME NEW o \in Orders, NEW st \in {"EXPIRED", "CANCELLED"}, CloseOrder(o, st)
      PROVE  SettlementInv'
  BY <1>1, CloseKeeps, DepositsTargets DEF CloseOrder
<1>2. ASSUME NEW d \in Deposits, CancelDeposit(d) PROVE SettlementInv'
  BY <1>2, CloseKeeps, DepositsTargets DEF CancelDeposit
<1>3. CASE \E o \in Orders : \/ PlaceOrder(o)
                             \/ \E c \in Channels : PrepareMethod(o, c)
                             \/ PersistMethod(o)
                             \/ \E st \in {"EXPIRED", "CANCELLED"} : CloseOrder(o, st)
                             \/ \E from \in {"NONE", "PENDING"} : PayWithBalance(o, from)
  BY <1>1, <1>3, PlaceOrderKeeps, PrepareMethodKeeps, PersistMethodKeeps, PayWithBalanceKeeps
<1>4. CASE \E d \in Deposits : \/ \E c \in Channels : CreateDeposit(d, c)
                               \/ CancelDeposit(d)
                               \/ DepositDeadline(d)
  BY <1>2, <1>4, CreateDepositKeeps, DepositDeadlineKeeps
<1>5. CASE ExpireDeposits
  BY <1>5, ExpireDepositsKeeps
<1> QED BY <1>3, <1>4, <1>5 DEF Trade

LEMMA WorldKeeps ==
  ASSUME SettlementInv, World
  PROVE  SettlementInv'
<1>1. CASE \E t \in Transfers, x \in Targets, memo \in BOOLEAN, e \in Errors :
             \E i \in issued[x] : Send(t, x, i, memo, e)
  BY <1>1, SendKeeps
<1>2. CASE \E t \in Transfers : ProviderCorrects(t)
  BY <1>2, ProviderCorrectsKeeps
<1>3. CASE TimePasses
  BY <1>3, TimePassesKeeps
<1> QED BY <1>1, <1>2, <1>3 DEF World

\* What is decided about a transfer leaves the terms and the world alone.
Aside ==
  /\ UNCHANGED <<termVars, sent, now>>
  /\ history' \in [Pollers -> SUBSET Reports]
  /\ settling' \in Pollers \cup {NoPoller}
  /\ \A p \in Pollers : history'[p] \subseteq history[p]

LEMMA NotedEffects ==
  ASSUME TypeOK, NEW t \in Transfers, Noted(t)
  PROVE  /\ UNCHANGED <<status, balance>>
         /\ ledger' \in [Transfers -> Rows]
         /\ \A u \in Transfers : u # t => ledger'[u] = ledger[u]
         /\ Keeps(t, ledger'[t])
BY DEF TypeOK, Noted, Record

LEMMA ClaimedEffects ==
  ASSUME TypeOK, NEW t \in Transfers, NEW x \in Targets, Claimed(t, x)
  PROVE  /\ status[x] \in {"PENDING", "EXPIRED"}
         /\ ledger[t].status # "CLAIMED"
         /\ status' = [status EXCEPT ![x] = "PAID"]
         /\ ledger' \in [Transfers -> Rows]
         /\ \A u \in Transfers : u # t => ledger'[u] = ledger[u]
         /\ ledger'[t].status = "CLAIMED" /\ ledger'[t].for = x /\ ~ledger'[t].changed
         /\ ledger[t].status # "NONE" => ledger'[t].facts = ledger[t].facts
         /\ balance' = [u \in Users |-> IF x \in Deposits /\ u = Owner[x]
                                        THEN balance[u] + Worth(x) ELSE balance[u]]
<1>1. PICK row \in Rows : /\ Keeps(t, row)
                          /\ row.status \in {"OBSERVED", "REVIEW"}
                          /\ ~row.changed
                          /\ Claim(t, row, x)
  BY DEF Claimed
<1> DEFINE new == [row EXCEPT !.status = "CLAIMED", !.for = x]
<1>2. /\ new \in Rows /\ new.status = "CLAIMED" /\ new.for = x
      /\ new.facts = row.facts /\ new.changed = row.changed
  BY <1>1 DEF Rows
<1>3. ledger' = [ledger EXCEPT ![t] = new]
  BY <1>1 DEF Claim
<1> HIDE DEF new
<1>4. status[x] \in {"PENDING", "EXPIRED"} /\ ledger[t].status # "CLAIMED"
  BY <1>1 DEF Claimed, Awaiting, Keeps
<1>5. /\ ledger' \in [Transfers -> Rows] /\ ledger'[t] = new
      /\ \A u \in Transfers : u # t => ledger'[u] = ledger[u]
  BY <1>2, <1>3 DEF TypeOK
<1> QED BY <1>1, <1>2, <1>4, <1>5 DEF Claim, Keeps

LEMMA NotedStep ==
  ASSUME SettlementInv, NEW t \in Transfers, Noted(t), Aside
  PROVE  SettlementInv'
<1> USE DEF SettlementInv
<1>1. /\ UNCHANGED <<status, balance>>
      /\ ledger' \in [Transfers -> Rows]
      /\ \A u \in Transfers : u # t => ledger'[u] = ledger[u]
      /\ Keeps(t, ledger'[t])
  BY NotedEffects
<1>2. UNCHANGED <<method, choosing, created, issued, overdue, sent, now>>
  BY DEF Aside, termVars
<1>3. TypeOK'
  BY <1>1, <1>2 DEF TypeOK, Aside
<1>4. \A u \in Transfers : /\ ledger'[u].status = "CLAIMED" <=> ledger[u].status = "CLAIMED"
                           /\ ledger[u].status = "CLAIMED" => ledger'[u].for = ledger[u].for
                           /\ ledger'[u].changed => ledger'[u].status \in {"REVIEW", "CLAIMED"}
  BY <1>1 DEF Keeps, ChangedWaits
<1>5. NothingIssued' /\ WalletPaid'
  BY <1>1, <1>2 DEF NothingIssued, WalletPaid
<1>6. GapsKept'
  <2>1. \A x \in Targets : Unresolved(x)' => Unresolved(x) \/ issued[x] = {}
    BY <1>1 DEF Unresolved
  <2> QED BY <1>2, <2>1, GapsFrame
<1>7. SentAsAsked' /\ ReadsOfExchange'
  BY <1>2, SentFrame DEF ReadsOfExchange, Aside
<1>8. ClaimsPaid'
  BY <1>1, <1>2, <1>4 DEF ClaimsPaid
<1>9. ClaimsApart'
  BY <1>4 DEF ClaimsApart
<1>10. PaidSomehow'
  BY <1>1, <1>2, <1>4 DEF PaidSomehow
<1>11. ChangedWaits'
  BY <1>4 DEF ChangedWaits
<1> QED BY <1>3, <1>5, <1>6, <1>7, <1>8, <1>9, <1>10, <1>11

LEMMA ClaimedStep ==
  ASSUME SettlementInv, NEW t \in Transfers, NEW x \in Targets, Claimed(t, x), Aside
  PROVE  SettlementInv'
<1> USE DEF SettlementInv
<1>1. /\ status[x] \in {"PENDING", "EXPIRED"}
      /\ ledger[t].status # "CLAIMED"
      /\ status' = [status EXCEPT ![x] = "PAID"]
      /\ ledger' \in [Transfers -> Rows]
      /\ \A u \in Transfers : u # t => ledger'[u] = ledger[u]
      /\ ledger'[t].status = "CLAIMED" /\ ledger'[t].for = x /\ ~ledger'[t].changed
      /\ balance' = [u \in Users |-> IF x \in Deposits /\ u = Owner[x]
                                     THEN balance[u] + Worth(x) ELSE balance[u]]
  BY ClaimedEffects
<1>2. UNCHANGED <<method, choosing, created, issued, overdue, sent, now>>
  BY DEF Aside, termVars
<1>3. TypeOK'
  <2>1. status' \in [Targets -> Statuses]
    BY <1>1 DEF TypeOK, Statuses
  <2>2. balance' \in [Users -> Nat]
    BY <1>1, WorthType DEF TypeOK
  <2> QED BY <1>1, <1>2, <2>1, <2>2 DEF TypeOK, Aside
<1>4. \A y \in Targets : status'[y] = IF y = x THEN "PAID" ELSE status[y]
  BY <1>1 DEF TypeOK
<1>5. NothingIssued' /\ WalletPaid'
  BY <1>2, <1>4, DepositsTargets DEF NothingIssued, WalletPaid
<1>6. GapsKept'
  <2>1. \A y \in Targets : Unresolved(y)' => Unresolved(y) \/ issued[y] = {}
    BY <1>4 DEF Unresolved
  <2> QED BY <1>2, <2>1, GapsFrame
<1>7. SentAsAsked' /\ ReadsOfExchange'
  BY <1>2, SentFrame DEF ReadsOfExchange, Aside
<1>8. ClaimsPaid'
  <2>1. x \in Orders => method[x] # "BALANCE"
    BY <1>1 DEF WalletPaid
  <2> QED BY <1>1, <1>2, <1>4, <2>1 DEF ClaimsPaid
<1>9. ClaimsApart'
  <2>1. \A u \in Transfers : u # t /\ ledger'[u].status = "CLAIMED" => ledger'[u].for # x
    BY <1>1 DEF ClaimsPaid
  <2> QED BY <1>1, <2>1 DEF ClaimsApart
<1>10. PaidSomehow'
  BY <1>1, <1>2, <1>4 DEF PaidSomehow
<1>11. ChangedWaits'
  BY <1>1 DEF ChangedWaits
<1> QED BY <1>3, <1>5, <1>6, <1>7, <1>8, <1>9, <1>10, <1>11

LEMMA AutomaticDecides ==
  ASSUME SettlementInv, Automatic
  PROVE  Aside /\ \E t \in Transfers : Decided(t)
<1>1. TypeOK /\ AmountsTellApart
  BY GapsTellApart DEF SettlementInv
<1>2. ASSUME NEW p \in Pollers, Reconcile(p) PROVE Aside
  <2>1. UNCHANGED <<termVars, sent, now>>
    BY <1>2 DEF Reconcile
  <2>2. PICK seen \in history[p] :
          /\ history' = [history EXCEPT ![p] = @ \ {seen}]
          /\ settling' = IF history[p] = {seen} THEN NoPoller ELSE p
    BY <1>2 DEF Reconcile
  <2> QED BY <1>1, <2>1, <2>2 DEF TypeOK, Aside
<1>3. ASSUME NEW t \in Transfers, SepayWebhook(t) PROVE Aside
  BY <1>1, <1>3 DEF SepayWebhook, TypeOK, Aside, worldVars
<1> QED BY <1>1, <1>2, <1>3, ReconcileDecides, WebhookDecides DEF Automatic

LEMMA OperatorAside ==
  ASSUME TypeOK, NEW o \in Orders, NEW t \in Transfers, OperatorSettles(o, t)
  PROVE  Aside
BY DEF OperatorSettles, TypeOK, Aside, worldVars

LEMMA InitSettlement == Init => SettlementInv
<1> SUFFICES ASSUME Init PROVE SettlementInv
  OBVIOUS
<1>1. TypeOK
  <2>1. NoRow \in Rows /\ NotSent \in Sendings
    BY DEF NoRow, NotSent, Rows, Sendings
  <2> QED BY <2>1 DEF Init, TypeOK, Statuses
<1>2. NothingIssued /\ WalletPaid /\ PaidSomehow
  BY DepositsTargets DEF Init, NothingIssued, WalletPaid, PaidSomehow
<1>3. GapsKept
  BY DEF Init, GapsKept, UsdtInstructions
<1>4. SentAsAsked /\ ReadsOfExchange
  BY DEF Init, SentAsAsked, ReadsOfExchange
<1>5. ClaimsPaid /\ ClaimsApart /\ ChangedWaits
  BY DEF Init, NoRow, ClaimsPaid, ClaimsApart, ChangedWaits
<1> QED BY <1>1, <1>2, <1>3, <1>4, <1>5 DEF SettlementInv

LEMMA NextSettlement == SettlementInv /\ [Next]_vars => SettlementInv'
<1> SUFFICES ASSUME SettlementInv, [Next]_vars PROVE SettlementInv'
  OBVIOUS
<1>1. CASE Trade
  BY <1>1, TradeKeeps
<1>2. CASE World
  BY <1>2, WorldKeeps
<1>3. CASE Read
  BY <1>3, ReadKeeps
<1>4. CASE Automatic
  <2>1. Aside /\ \E t \in Transfers : Decided(t)
    BY <1>4, AutomaticDecides
  <2> QED BY <2>1, NotedStep, ClaimedStep DEF Decided
<1>5. CASE \E p \in Pollers : PollFails(p)
  BY <1>5, PollFailsKeeps
<1>6. CASE \E o \in Orders, t \in Transfers : OperatorSettles(o, t)
  <2>1. PICK o \in Orders, t \in Transfers : OperatorSettles(o, t)
    BY <1>6
  <2>2. TypeOK /\ o \in Targets
    BY DepositsTargets DEF SettlementInv
  <2> QED BY <2>1, <2>2, OperatorClaims, OperatorAside, ClaimedStep
<1>7. CASE UNCHANGED vars
  <2>1. UNCHANGED <<targetVars, moneyVars>> /\ UNCHANGED <<sent, history, settling, now>>
    BY <1>7 DEF vars, worldVars
  <2>2. TypeOK'
    BY <2>1 DEF SettlementInv, TypeOK, targetVars, termVars, moneyVars
  <2>3. SentAsAsked' /\ ReadsOfExchange'
    BY <2>1, SentFrame DEF SettlementInv, ReadsOfExchange, targetVars, termVars
  <2> QED BY <2>1, <2>2, <2>3, WorldStep
<1> QED BY <1>1, <1>2, <1>3, <1>4, <1>5, <1>6, <1>7 DEF Next

\* The invariant holds in every state of every shop.
THEOREM SettlementKept == Spec => []SettlementInv
BY InitSettlement, NextSettlement, PTL DEF Spec

-----------------------------------------------------------------------------
(* What follows of it.                                                     *)

\* However orders are closed, reopened or given new instructions, no amount a
\* sender may use fits the instructions of two targets.
THEOREM AmountsStayApart == Spec => []AmountsTellApart
<1>1. SettlementInv => AmountsTellApart
  BY GapsTellApart DEF SettlementInv
<1> QED BY <1>1, SettlementKept, PTL

LEMMA AtMostOne ==
  ASSUME NEW S, \A a, b \in S : a = b
  PROVE  Cardinality(S) <= 1
<1>1. CASE S = {}
  <2>1. Cardinality(S) = 0
    BY <1>1, FS_EmptySet
  <2> QED BY <2>1
<1>2. CASE S # {}
  <2>1. PICK a : a \in S
    BY <1>2
  <2>2. S = {a}
    BY <2>1
  <2>3. Cardinality(S) = 1
    BY <2>2, FS_Singleton
  <2> QED BY <2>3
<1> QED BY <1>1, <1>2

LEMMA OneMeans == SettlementInv => PaidByOneMeans
<1> SUFFICES ASSUME SettlementInv, NEW x \in Targets,
                    NEW claims, claims = {t \in Transfers : ledger[t].status = "CLAIMED" /\ ledger[t].for = x},
                    NEW wallet, wallet = (x \in Orders /\ status[x] = "PAID" /\ method[x] = "BALANCE")
             PROVE  /\ status[x] = "PAID" <=> wallet \/ claims # {}
                    /\ wallet => claims = {}
                    /\ Cardinality(claims) <= 1
  BY DEF PaidByOneMeans
<1> USE DEF SettlementInv
<1>1. status[x] = "PAID" => wallet \/ claims # {}
  BY DEF PaidSomehow
<1>2. wallet \/ claims # {} => status[x] = "PAID"
  BY DEF ClaimsPaid
<1>3. wallet => claims = {}
  BY DEF ClaimsPaid
<1>4. Cardinality(claims) <= 1
  <2>1. \A t, u \in claims : t = u
    BY DEF ClaimsApart
  <2> QED BY <2>1, AtMostOne, Zenon
<1> QED BY <1>1, <1>2, <1>3, <1>4

\* Orders and deposits are paid once, by the wallet or by one transfer,
\* whatever pollers, webhooks and operators report again.
THEOREM PaidOnceOnly == Spec => []PaidByOneMeans
BY OneMeans, SettlementKept, PTL

\* A step leaves the ledger alone, notes one transfer or claims one.
LEMMA LedgerSteps ==
  ASSUME SettlementInv, [Next]_vars
  PROVE  \/ UNCHANGED ledger
         \/ \E t \in Transfers : Noted(t) \/ \E x \in Targets : Claimed(t, x)
<1>1. CASE Trade
  BY <1>1 DEF Trade, PlaceOrder, PrepareMethod, PersistMethod, CloseOrder, PayWithBalance,
              CreateDeposit, CancelDeposit, DepositDeadline, ExpireDeposits, moneyVars
<1>2. CASE World \/ Read \/ \E p \in Pollers : PollFails(p)
  BY <1>2 DEF World, Send, ProviderCorrects, TimePasses, Read, TimerReads, CheckPayment, SubmitTx,
              Reads, PollFails, moneyVars
<1>3. CASE Automatic
  BY <1>3, AutomaticDecides DEF Decided
<1>4. CASE \E o \in Orders, t \in Transfers : OperatorSettles(o, t)
  BY <1>4, OperatorClaims, DepositsTargets DEF SettlementInv
<1>5. CASE UNCHANGED vars
  BY <1>5 DEF vars, moneyVars
<1> QED BY <1>1, <1>2, <1>3, <1>4, <1>5 DEF Next

\* Claims are for good, facts are not replaced and what was reported in two
\* ways waits for a person, whoever read what before.
THEOREM LedgerStands == Spec => ClaimsStand
<1> DEFINE Stands == \A t \in Transfers :
             LET old == ledger[t]
                 new == ledger'[t]
             IN /\ old.status = "CLAIMED" => new.status = "CLAIMED" /\ new.for = old.for
                /\ old.status # "NONE" => new.facts = old.facts
                /\ new.changed /\ old.status # "CLAIMED" => new.status = "REVIEW"
<1>1. SettlementInv /\ [Next]_vars => [Stands]_vars
  <2> SUFFICES ASSUME SettlementInv, [Next]_vars, NEW t \in Transfers
               PROVE  /\ ledger[t].status = "CLAIMED" =>
                           ledger'[t].status = "CLAIMED" /\ ledger'[t].for = ledger[t].for
                      /\ ledger[t].status # "NONE" => ledger'[t].facts = ledger[t].facts
                      /\ ledger'[t].changed /\ ledger[t].status # "CLAIMED" => ledger'[t].status = "REVIEW"
    BY Zenon
  <2> USE DEF SettlementInv
  <2>1. ledger'[t] = ledger[t] =>
          (ledger'[t].changed /\ ledger[t].status # "CLAIMED" => ledger'[t].status = "REVIEW")
    BY DEF ChangedWaits
  <2>2. CASE UNCHANGED ledger
    BY <2>1, <2>2
  <2>3. ASSUME NEW u \in Transfers, Noted(u) PROVE ledger'[t] = ledger[t] \/ Keeps(t, ledger'[t])
    BY <2>3, NotedEffects
  <2>4. ASSUME NEW u \in Transfers, NEW x \in Targets, Claimed(u, x)
        PROVE  \/ ledger'[t] = ledger[t]
               \/ /\ ledger[t].status # "CLAIMED" /\ ~ledger'[t].changed
                  /\ ledger[t].status # "NONE" => ledger'[t].facts = ledger[t].facts
    BY <2>4, ClaimedEffects
  <2> QED BY <2>1, <2>2, <2>3, <2>4, LedgerSteps DEF Keeps
<1> QED BY <1>1, SettlementKept, PTL DEF Spec, ClaimsStand

\* Whatever was closed, expired or given new instructions meanwhile, no poller
\* and no webhook takes a transfer for another's, save for what is paid.
THEOREM OwnersGetTheirMoney == Spec => MoneyToItsOwner
<1> DEFINE Right == Automatic =>
             \A t \in Transfers :
               ledger'[t].status = "CLAIMED" /\ ledger[t].status # "CLAIMED" =>
                 ledger'[t].for = sent[t].for \/ status[sent[t].for] = "PAID"
<1>1. SettlementInv => Right
  <2> SUFFICES ASSUME SettlementInv, Automatic, NEW t \in Transfers,
                      ledger'[t].status = "CLAIMED", ledger[t].status # "CLAIMED"
               PROVE  ledger'[t].for = sent[t].for \/ status[sent[t].for] = "PAID"
    BY Zenon
  <2>1. PICK u \in Transfers : Decided(u)
    BY AutomaticDecides
  <2>2. TypeOK
    BY DEF SettlementInv
  <2>3. CASE Noted(u)
    BY <2>2, <2>3, NotedEffects DEF Keeps
  <2>4. CASE \E x \in Targets : MeantFor(u, x) /\ Claimed(u, x)
    BY <2>2, <2>4, ClaimedEffects DEF MeantFor
  <2> QED BY <2>1, <2>3, <2>4 DEF Decided
<1> QED BY <1>1, SettlementKept, PTL DEF Spec, MoneyToItsOwner

-----------------------------------------------------------------------------
(* Settlement implements PaidOnce.  Closing, cancelling, reading, noting   *)
(* and the world's steps are stutters; a deposit's row is the agreement,   *)
(* a claim receives, the wallet spends.                                    *)

PaidNow  == [x \in Targets |-> PaidBy(x)]
WorthNow == [d \in Deposits |-> Worth(d)]
MoneyStep == [Promise!Next]_<<PaidNow, WorthNow, balance>>

ClaimsFor(x) == {t \in Transfers : ledger[t].status = "CLAIMED" /\ ledger[t].for = x}

LEMMA PaidByValue ==
  ASSUME SettlementInv, NEW x \in Targets
  PROVE  /\ status[x] # "PAID" => PaidBy(x) = "UNPAID"
         /\ \/ PaidBy(x) \in {"UNPAID", "WALLET"}
            \/ \E t \in Transfers : PaidBy(x) = t /\ ledger[t].status = "CLAIMED"
<1>1. status[x] # "PAID" => PaidBy(x) = "UNPAID"
  BY DEF PaidBy
<1>2. CASE status[x] = "PAID" /\ ~(x \in Orders /\ method[x] = "BALANCE")
  <2>1. PaidBy(x) = CHOOSE t \in ClaimsFor(x) : TRUE
    BY <1>2 DEF PaidBy, ClaimsFor
  <2>2. ClaimsFor(x) # {}
    BY <1>2 DEF ClaimsFor, SettlementInv, PaidSomehow
  <2>3. PaidBy(x) \in ClaimsFor(x)
    BY <2>1, <2>2
  <2> QED BY <1>1, <1>2, <2>3 DEF ClaimsFor
<1>3. CASE x \in Orders /\ method[x] = "BALANCE"
  BY <1>1, <1>3 DEF PaidBy
<1> QED BY <1>1, <1>2, <1>3

LEMMA PaidByFrame ==
  ASSUME NEW x \in Targets, status'[x] = "PAID" <=> status[x] = "PAID",
         x \in Orders => (method'[x] = "BALANCE" <=> method[x] = "BALANCE"),
         \A t \in Transfers : (ledger'[t].status = "CLAIMED" /\ ledger'[t].for = x)
                               <=> (ledger[t].status = "CLAIMED" /\ ledger[t].for = x)
  PROVE  PaidBy(x)' = PaidBy(x)
<1>1. ClaimsFor(x)' = ClaimsFor(x)
  BY DEF ClaimsFor
<1>2. PaidBy(x) = IF status[x] # "PAID" THEN "UNPAID"
                  ELSE IF x \in Orders /\ method[x] = "BALANCE" THEN "WALLET"
                  ELSE CHOOSE t \in ClaimsFor(x) : TRUE
  BY DEF PaidBy, ClaimsFor
<1>3. PaidBy(x)' = IF status'[x] # "PAID" THEN "UNPAID"
                   ELSE IF x \in Orders /\ method'[x] = "BALANCE" THEN "WALLET"
                   ELSE CHOOSE t \in ClaimsFor(x)' : TRUE
  BY DEF PaidBy, ClaimsFor
<1> QED BY <1>1, <1>2, <1>3

LEMMA WorthFrame ==
  ASSUME NEW d, issued'[d] = issued[d]
  PROVE  Worth(d)' = Worth(d)
BY DEF Worth

\* No money moves and no deposit is agreed.
Quiet ==
  /\ UNCHANGED balance
  /\ \A x \in Targets : status'[x] = "PAID" <=> status[x] = "PAID"
  /\ \A o \in Orders : method'[o] = "BALANCE" <=> method[o] = "BALANCE"
  /\ \A t \in Transfers : /\ ledger'[t].status = "CLAIMED" <=> ledger[t].status = "CLAIMED"
                          /\ ledger[t].status = "CLAIMED" => ledger'[t].for = ledger[t].for
  /\ \A d \in Deposits : issued'[d] = issued[d]

LEMMA QuietStutters ==
  ASSUME Quiet
  PROVE  MoneyStep
<1>1. \A x \in Targets : PaidBy(x)' = PaidBy(x)
  <2> TAKE x \in Targets
  <2>1. \A t \in Transfers : (ledger'[t].status = "CLAIMED" /\ ledger'[t].for = x)
                               <=> (ledger[t].status = "CLAIMED" /\ ledger[t].for = x)
    BY DEF Quiet
  <2> QED BY <2>1, PaidByFrame DEF Quiet
<1>2. PaidNow' = PaidNow
  BY <1>1 DEF PaidNow
<1>3. \A d \in Deposits : Worth(d)' = Worth(d)
  BY WorthFrame DEF Quiet
<1>4. WorthNow' = WorthNow
  BY <1>3 DEF WorthNow
<1> QED BY <1>2, <1>4 DEF MoneyStep, Quiet

LEMMA PersistIsQuiet ==
  ASSUME SettlementInv, NEW o \in Orders, PersistMethod(o)
  PROVE  Quiet
<1> USE DEF SettlementInv
<1>1. choosing[o] # "BALANCE" /\ method[o] # "BALANCE" /\ o \notin Deposits
  BY ChannelsKnown, TargetsApart DEF PersistMethod, TypeOK, WalletPaid, Usdt, Chains
<1>2. \A p \in Orders : method'[p] = "BALANCE" <=> method[p] = "BALANCE"
  BY <1>1 DEF PersistMethod, TypeOK
<1>3. \A d \in Deposits : issued'[d] = issued[d]
  BY <1>1, DepositsTargets DEF PersistMethod, TypeOK
<1> QED BY <1>2, <1>3 DEF PersistMethod, Quiet, moneyVars

\* What Trade does except for agreements and the wallet.
LEMMA TermsAreQuiet ==
  ASSUME SettlementInv,
         UNCHANGED <<method, issued>>, UNCHANGED moneyVars,
         \A x \in Targets : status'[x] # status[x] => status[x] # "PAID" /\ status'[x] # "PAID"
  PROVE  Quiet
BY DEF Quiet, moneyVars

LEMMA OtherTradeIsQuiet ==
  ASSUME SettlementInv,
         \/ \E o \in Orders : \/ PlaceOrder(o)
                              \/ \E c \in Channels : PrepareMethod(o, c)
                              \/ \E st \in {"EXPIRED", "CANCELLED"} : CloseOrder(o, st)
         \/ \E d \in Deposits : CancelDeposit(d) \/ DepositDeadline(d)
         \/ ExpireDeposits
  PROVE  Quiet
<1> USE DEF SettlementInv
<1>1. UNCHANGED <<method, issued>> /\ UNCHANGED moneyVars
  BY DEF PlaceOrder, PrepareMethod, CloseOrder, CancelDeposit, DepositDeadline, ExpireDeposits, termVars
<1>2. \A x \in Targets : status'[x] # status[x] => status[x] # "PAID" /\ status'[x] # "PAID"
  BY DEF PlaceOrder, PrepareMethod, CloseOrder, CancelDeposit, DepositDeadline, ExpireDeposits, TypeOK
<1> QED BY <1>1, <1>2, TermsAreQuiet

LEMMA NotedIsQuiet ==
  ASSUME SettlementInv, NEW t \in Transfers, Noted(t), Aside
  PROVE  Quiet
<1>1. /\ UNCHANGED <<status, balance>>
      /\ \A u \in Transfers : u # t => ledger'[u] = ledger[u]
      /\ Keeps(t, ledger'[t])
  BY NotedEffects DEF SettlementInv
<1>2. UNCHANGED <<method, issued>>
  BY DEF Aside, termVars
<1> QED BY <1>1, <1>2 DEF Quiet, Keeps

LEMMA ClaimedReceives ==
  ASSUME SettlementInv, SettlementInv', NEW t \in Transfers, NEW x \in Targets, Claimed(t, x), Aside
  PROVE  MoneyStep
<1> USE DEF SettlementInv
<1>1. /\ status[x] \in {"PENDING", "EXPIRED"}
      /\ ledger[t].status # "CLAIMED"
      /\ status' = [status EXCEPT ![x] = "PAID"]
      /\ \A u \in Transfers : u # t => ledger'[u] = ledger[u]
      /\ ledger'[t].status = "CLAIMED" /\ ledger'[t].for = x
      /\ balance' = [u \in Users |-> IF x \in Deposits /\ u = Owner[x]
                                     THEN balance[u] + Worth(x) ELSE balance[u]]
  BY ClaimedEffects
<1>2. UNCHANGED <<method, issued>>
  BY DEF Aside, termVars
<1>3. PaidNow[x] = "UNPAID"
  BY <1>1, PaidByValue DEF PaidNow
<1>4. \A y \in Orders \cup Deposits : PaidNow[y] # t
  BY <1>1, PaidByValue, TransfersApart DEF PaidNow, Targets
<1>5. PaidBy(x)' = t
  <2>1. ClaimsFor(x)' = {t}
    BY <1>1 DEF ClaimsFor, ClaimsApart
  <2>2. status'[x] = "PAID" /\ ~(x \in Orders /\ method'[x] = "BALANCE")
    BY <1>1, <1>2 DEF TypeOK, WalletPaid
  <2>3. PaidBy(x)' = IF status'[x] # "PAID" THEN "UNPAID"
                     ELSE IF x \in Orders /\ method'[x] = "BALANCE" THEN "WALLET"
                     ELSE CHOOSE u \in ClaimsFor(x)' : TRUE
    BY DEF PaidBy, ClaimsFor
  <2>4. PaidBy(x)' = CHOOSE u \in {t} : TRUE
    BY <2>1, <2>2, <2>3
  <2> QED BY <2>4
<1>6. \A y \in Targets \ {x} : PaidBy(y)' = PaidBy(y)
  <2> TAKE y \in Targets \ {x}
  <2>1. status'[y] = status[y]
    BY <1>1 DEF TypeOK
  <2>2. \A u \in Transfers : (ledger'[u].status = "CLAIMED" /\ ledger'[u].for = y)
                               <=> (ledger[u].status = "CLAIMED" /\ ledger[u].for = y)
    BY <1>1
  <2> QED BY <1>2, <2>1, <2>2, PaidByFrame
<1>7. PaidNow' = [PaidNow EXCEPT ![x] = t]
  BY <1>5, <1>6 DEF PaidNow
<1>8. WorthNow' = WorthNow
  <2>1. \A d \in Deposits : Worth(d)' = Worth(d)
    BY <1>2, WorthFrame
  <2> QED BY <2>1 DEF WorthNow
<1>9. balance' = [u \in Users |-> IF x \in Deposits /\ u = Owner[x]
                                 THEN balance[u] + WorthNow[x] ELSE balance[u]]
  BY <1>1 DEF WorthNow
<1>10. Promise!Receive(x, t)
  BY <1>3, <1>4, <1>7, <1>8, <1>9 DEF Promise!Receive, PaidNow, WorthNow
<1> QED BY <1>10 DEF MoneyStep, Promise!Next, Targets

LEMMA PayWithBalanceSpends ==
  ASSUME SettlementInv, SettlementInv', NEW o \in Orders, NEW from \in {"NONE", "PENDING"},
         PayWithBalance(o, from)
  PROVE  MoneyStep
<1> USE DEF SettlementInv
<1>1. /\ o \in Targets /\ status[o] # "PAID"
      /\ status' = [status EXCEPT ![o] = "PAID"]
      /\ method' = [method EXCEPT ![o] = "BALANCE"]
      /\ UNCHANGED <<issued, ledger>>
      /\ balance[Owner[o]] >= Price[o]
      /\ balance' = [balance EXCEPT ![Owner[o]] = @ - Price[o]]
  BY DepositsTargets DEF PayWithBalance
<1>2. PaidNow[o] = "UNPAID"
  BY <1>1, PaidByValue DEF PaidNow
<1>3. PaidBy(o)' = "WALLET"
  BY <1>1 DEF PaidBy, TypeOK
<1>4. \A y \in Targets \ {o} : PaidBy(y)' = PaidBy(y)
  <2> TAKE y \in Targets \ {o}
  <2>1. status'[y] = status[y] /\ (y \in Orders => method'[y] = method[y])
    BY <1>1 DEF TypeOK
  <2> QED BY <1>1, <2>1, PaidByFrame
<1>5. PaidNow' = [PaidNow EXCEPT ![o] = "WALLET"]
  BY <1>1, <1>3, <1>4 DEF PaidNow
<1>6. WorthNow' = WorthNow
  <2>1. \A d \in Deposits : Worth(d)' = Worth(d)
    BY <1>1, WorthFrame
  <2> QED BY <2>1 DEF WorthNow
<1>7. Promise!Spend(o)
  BY <1>1, <1>2, <1>5, <1>6 DEF Promise!Spend, PaidNow, WorthNow
<1> QED BY <1>7 DEF MoneyStep, Promise!Next

LEMMA CreateDepositAgrees ==
  ASSUME SettlementInv, SettlementInv', NEW d \in Deposits, NEW c \in Channels, CreateDeposit(d, c)
  PROVE  MoneyStep
<1> USE DEF SettlementInv
<1>1. /\ d \in Targets /\ issued[d] = {}
      /\ status' = [status EXCEPT ![d] = "PENDING"] /\ status[d] = "NONE"
      /\ UNCHANGED <<method, ledger, balance>>
  BY DepositsTargets DEF CreateDeposit, NothingIssued, moneyVars
<1>2. PICK a \in AmountsFrom(Price[d]) :
        /\ AmountAsked(a, c, Price[d])
        /\ issued' = [issued EXCEPT ![d] = {[channel |-> c, amount |-> a, since |-> now]}]
  BY DEF CreateDeposit
<1>3. a \in Nat \ {0}
  BY <1>1, <1>2, AmountAskedLaws
<1>4. WorthNow[d] = 0
  BY <1>1 DEF WorthNow, Worth
<1>5. Worth(d)' = a
  <2> DEFINE i == [channel |-> c, amount |-> a, since |-> now]
  <2>1. issued'[d] = {i} /\ i.amount = a
    BY <1>1, <1>2 DEF TypeOK
  <2> HIDE DEF i
  <2>2. (CHOOSE j \in {i} : TRUE) = i
    OBVIOUS
  <2> QED BY <2>1, <2>2 DEF Worth
<1>6. \A e \in Deposits \ {d} : Worth(e)' = Worth(e)
  <2> TAKE e \in Deposits \ {d}
  <2>1. issued'[e] = issued[e]
    BY <1>2, DepositsTargets DEF TypeOK
  <2> QED BY <2>1, WorthFrame
<1>7. WorthNow' = [WorthNow EXCEPT ![d] = a]
  BY <1>5, <1>6 DEF WorthNow
<1>8. WorthNow'[d] = a
  BY <1>5 DEF WorthNow
<1>9. \A x \in Targets : PaidBy(x)' = PaidBy(x)
  <2> TAKE x \in Targets
  <2>1. status'[x] = "PAID" <=> status[x] = "PAID"
    BY <1>1 DEF TypeOK
  <2> QED BY <1>1, <2>1, PaidByFrame
<1>10. PaidNow' = PaidNow
  BY <1>9 DEF PaidNow
<1>11. PaidNow[d] = "UNPAID"
  BY <1>1 DEF PaidNow, PaidBy
<1>12. Promise!Agree(d)
  BY <1>1, <1>3, <1>4, <1>7, <1>8, <1>10, <1>11 DEF Promise!Agree, PaidNow, WorthNow
<1> QED BY <1>12 DEF MoneyStep, Promise!Next

LEMMA StepPromises ==
  ASSUME SettlementInv, SettlementInv', [Next]_vars
  PROVE  MoneyStep
<1>1. CASE Trade
  <2>1. CASE \E o \in Orders : PersistMethod(o)
    BY <2>1, PersistIsQuiet, QuietStutters
  <2>2. CASE \E o \in Orders : \E from \in {"NONE", "PENDING"} : PayWithBalance(o, from)
    BY <2>2, PayWithBalanceSpends
  <2>3. CASE \E d \in Deposits : \E c \in Channels : CreateDeposit(d, c)
    BY <2>3, CreateDepositAgrees
  <2>4. CASE \/ \E o \in Orders : \/ PlaceOrder(o)
                                  \/ \E c \in Channels : PrepareMethod(o, c)
                                  \/ \E st \in {"EXPIRED", "CANCELLED"} : CloseOrder(o, st)
             \/ \E d \in Deposits : CancelDeposit(d) \/ DepositDeadline(d)
             \/ ExpireDeposits
    BY <2>4, OtherTradeIsQuiet, QuietStutters
  <2> QED BY <1>1, <2>1, <2>2, <2>3, <2>4 DEF Trade
<1>2. CASE UNCHANGED <<targetVars, moneyVars>>
  BY <1>2, QuietStutters DEF Quiet, targetVars, termVars, moneyVars
<1>3. CASE World \/ Read \/ \E p \in Pollers : PollFails(p)
  <2>1. UNCHANGED <<targetVars, moneyVars>>
    BY <1>3 DEF World, Send, ProviderCorrects, TimePasses, Read, TimerReads, CheckPayment, SubmitTx,
                Reads, PollFails
  <2> QED BY <1>2, <2>1
<1>4. CASE Automatic
  BY <1>4, AutomaticDecides, NotedIsQuiet, QuietStutters, ClaimedReceives DEF Decided
<1>5. CASE \E o \in Orders, t \in Transfers : OperatorSettles(o, t)
  BY <1>5, OperatorClaims, OperatorAside, ClaimedReceives, DepositsTargets DEF SettlementInv
<1>6. CASE UNCHANGED vars
  BY <1>2, <1>6 DEF vars
<1> QED BY <1>1, <1>3, <1>4, <1>5, <1>6 DEF Next

LEMMA InitPromises == Init => Promise!Init
<1> SUFFICES ASSUME Init PROVE Promise!Init
  OBVIOUS
<1>1. \A x \in Targets : PaidBy(x) = "UNPAID"
  BY DEF Init, PaidBy
<1>2. \A d \in Deposits : Worth(d) = 0
  BY DepositsTargets DEF Init, Worth
<1> QED BY <1>1, <1>2 DEF Init, Promise!Init, Targets

\* The shop keeps the promise of PaidOnce: who pays, what deposits bring in
\* and what wallets hold follow from it alone.
THEOREM MoneyPromiseKept == Spec => KeepsMoneyPromise
<1>1. SettlementInv /\ SettlementInv' /\ [Next]_vars => MoneyStep
  BY StepPromises
<1> QED BY <1>1, InitPromises, SettlementKept, PTL
        DEF Spec, KeepsMoneyPromise, Promise!Spec, MoneyStep, PaidNow, WorthNow
-----------------------------------------------------------------------------
(* What wallets hold, from the promise alone.  Sums are counted coin by    *)
(* coin: x, worth a[x], is as many coins.                                  *)

CoinsOf(a, x) == {x} \X (1 .. a[x])
Coins(a, T) == UNION {CoinsOf(a, x) : x \in T}

LEMMA CoinsNumbered == \A n \in Nat : IsFiniteSet(1 .. n) /\ Cardinality(1 .. n) = n
<1> TAKE n \in Nat
<1>1. 1 \in Int /\ n \in Int
  OBVIOUS
<1>2. /\ IsFiniteSet(1 .. n)
      /\ Cardinality(1 .. n) = IF 1 > n THEN 0 ELSE n - 1 + 1
  BY <1>1, FS_Interval, Zenon
<1> QED BY <1>2

LEMMA CoinsAdded ==
  ASSUME NEW a, NEW T, NEW x, x \notin T, a[x] \in Nat, IsFiniteSet(Coins(a, T))
  PROVE  /\ IsFiniteSet(Coins(a, T \cup {x}))
         /\ Cardinality(Coins(a, T \cup {x})) = a[x] + Cardinality(Coins(a, T))
<1>1. PICK n \in Nat : a[x] = n
  OBVIOUS
<1>2. PICK A, B : A = Coins(a, T) /\ B = {x} \X (1 .. n)
  OBVIOUS
<1>3. IsFiniteSet(1 .. n) /\ Cardinality(1 .. n) = n
  BY CoinsNumbered
<1>4. IsFiniteSet({x}) /\ Cardinality({x}) = 1
  BY FS_Singleton
<1>5. IsFiniteSet(B) /\ Cardinality(B) = Cardinality({x}) * Cardinality(1 .. n)
  BY <1>2, <1>3, <1>4, FS_Product, Zenon
<1>6. Cardinality(B) = n
  BY <1>3, <1>4, <1>5
<1>7. Coins(a, T \cup {x}) = A \cup B
  BY <1>1, <1>2 DEF Coins, CoinsOf
<1>8. A \cap B = {}
  BY <1>2 DEF Coins, CoinsOf
<1>9. /\ IsFiniteSet(A \cup B)
      /\ Cardinality(A \cup B) = Cardinality(A) + Cardinality(B) - Cardinality(A \cap B)
  BY <1>2, <1>5, FS_Union
<1>10. Cardinality(A \cap B) = 0 /\ Cardinality(A) \in Nat
  BY <1>2, <1>8, FS_EmptySet, FS_CardinalityType
<1>11. Cardinality(A \cup B) = n + Cardinality(A)
  BY <1>6, <1>9, <1>10
<1> QED BY <1>1, <1>2, <1>7, <1>9, <1>11

LEMMA SameCoins ==
  ASSUME NEW a, NEW b, NEW T, \A x \in T : a[x] = b[x]
  PROVE  Coins(a, T) = Coins(b, T)
<1>1. \A x \in T : CoinsOf(a, x) = CoinsOf(b, x)
  BY DEF CoinsOf
<1> QED BY <1>1 DEF Coins

LEMMA NoCoins == \A a : IsFiniteSet(Coins(a, {})) /\ Cardinality(Coins(a, {})) = 0
<1>1. \A a : Coins(a, {}) = {}
  BY DEF Coins
<1> QED BY <1>1, FS_EmptySet

\* The deposits of user u that were paid, and the orders u's wallet paid for.
Credited(u) == {d \in Deposits : Owner[d] = u /\ PaidBy(d) # "UNPAID"}
Bought(u)   == {o \in Orders : Owner[o] = u /\ PaidBy(o) = "WALLET"}

Income(u)  == Coins(WorthNow, Credited(u))
Expense(u) == Coins(Price, Bought(u))

WalletExact ==
  \A u \in Users :
    /\ IsFiniteSet(Income(u)) /\ IsFiniteSet(Expense(u))
    /\ Cardinality(Income(u)) = balance[u] + Cardinality(Expense(u))

LEMMA WorthTyped ==
  ASSUME TypeOK, NEW d \in Deposits
  PROVE  WorthNow[d] \in Nat
<1>1. issued[d] \in SUBSET Instructions
  BY DepositsTargets DEF TypeOK
<1>2. CASE issued[d] = {}
  BY <1>2 DEF WorthNow, Worth
<1>3. CASE issued[d] # {}
  <2>1. (CHOOSE i \in issued[d] : TRUE) \in Instructions
    BY <1>1, <1>3
  <2> QED BY <1>3, <2>1 DEF WorthNow, Worth, Instructions
<1> QED BY <1>2, <1>3

\* A wallet whose deposits and orders stay as they are.
LEMMA WalletRests ==
  ASSUME WalletExact, NEW u \in Users, Income(u)' = Income(u), Bought(u)' = Bought(u),
         balance'[u] = balance[u]
  PROVE  /\ IsFiniteSet(Income(u)') /\ IsFiniteSet(Expense(u)')
         /\ Cardinality(Income(u)') = balance'[u] + Cardinality(Expense(u)')
<1>1. Expense(u)' = Expense(u)
  BY DEF Expense, Coins, CoinsOf
<1> QED BY <1>1 DEF WalletExact

LEMMA WalletStep ==
  ASSUME TypeOK, TypeOK', WalletExact, Promise!Next
  PROVE  WalletExact'
<1> SUFFICES ASSUME NEW u \in Users
             PROVE  /\ IsFiniteSet(Income(u)') /\ IsFiniteSet(Expense(u)')
                    /\ Cardinality(Income(u)') = balance'[u] + Cardinality(Expense(u)')
  BY DEF WalletExact
<1> PICK a, b : a = WorthNow /\ b = WorthNow'
  OBVIOUS
<1> PICK C \in SUBSET Deposits, B \in SUBSET Orders : C = Credited(u) /\ B = Bought(u)
  BY DEF Credited, Bought
<1> PICK D \in SUBSET Deposits, E \in SUBSET Orders : D = Credited(u)' /\ E = Bought(u)'
  BY DEF Credited, Bought
<1>1. /\ Income(u) = Coins(a, C) /\ Income(u)' = Coins(b, D)
      /\ Expense(u) = Coins(Price, B) /\ Expense(u)' = Coins(Price, E)
  BY DEF Income, Expense, Coins, CoinsOf
<1>2. \A x \in Targets : PaidNow[x] = PaidBy(x) /\ PaidNow'[x] = PaidBy(x)'
  BY DEF PaidNow
<1>3. /\ \A d \in Deposits : d \in C <=> Owner[d] = u /\ PaidNow[d] # "UNPAID"
      /\ \A d \in Deposits : d \in D <=> Owner[d] = u /\ PaidNow'[d] # "UNPAID"
      /\ \A o \in Orders : o \in B <=> Owner[o] = u /\ PaidNow[o] = "WALLET"
      /\ \A o \in Orders : o \in E <=> Owner[o] = u /\ PaidNow'[o] = "WALLET"
  BY <1>2, DepositsTargets DEF Credited, Bought
<1>4. /\ IsFiniteSet(Coins(a, C)) /\ IsFiniteSet(Coins(Price, B))
      /\ Cardinality(Coins(a, C)) = balance[u] + Cardinality(Coins(Price, B))
      /\ Cardinality(Coins(a, C)) \in Nat /\ Cardinality(Coins(Price, B)) \in Nat
  BY <1>1, FS_CardinalityType DEF WalletExact
<1>5. balance[u] \in Nat /\ balance'[u] \in Nat
  BY DEF TypeOK
<1>6. ASSUME Coins(b, D) = Coins(a, C), E = B, balance'[u] = balance[u]
      PROVE  /\ IsFiniteSet(Income(u)') /\ IsFiniteSet(Expense(u)')
             /\ Cardinality(Income(u)') = balance'[u] + Cardinality(Expense(u)')
  BY <1>1, <1>6, WalletRests
<1>7. CASE \E d \in Deposits : Promise!Agree(d)
  <2>1. PICK d \in Deposits : Promise!Agree(d)
    BY <1>7
  <2>2. /\ PaidNow[d] = "UNPAID" /\ PaidNow' = PaidNow /\ balance' = balance
        /\ \A e \in Deposits \ {d} : b[e] = a[e]
    BY <2>1, DepositsTargets DEF Promise!Agree, PaidNow, WorthNow
  <2>3. D = C /\ E = B /\ d \notin C
    BY <1>3, <2>2
  <2>4. Coins(b, D) = Coins(a, C)
    BY <2>2, <2>3, SameCoins
  <2> QED BY <1>6, <2>2, <2>3, <2>4
<1>8. CASE \E x \in Targets, t \in Transfers : Promise!Receive(x, t)
  <2>1. PICK x \in Targets, t \in Transfers : Promise!Receive(x, t)
    BY <1>8
  <2>2. /\ PaidNow[x] = "UNPAID" /\ PaidNow' = [PaidNow EXCEPT ![x] = t] /\ b = a
        /\ balance'[u] = IF x \in Deposits /\ u = Owner[x] THEN balance[u] + a[x] ELSE balance[u]
    BY <2>1 DEF Promise!Receive, PaidNow, WorthNow
  <2>3. /\ PaidNow'[x] = t /\ t # "UNPAID" /\ t # "WALLET"
        /\ \A y \in Targets \ {x} : PaidNow'[y] = PaidNow[y]
    BY <2>2, TransfersApart DEF PaidNow
  <2>4. E = B
    BY <1>3, <2>2, <2>3, DepositsTargets
  <2>5. CASE ~(x \in Deposits /\ u = Owner[x])
    <3>1. D = C
      BY <1>3, <2>3, <2>5, DepositsTargets
    <3> QED BY <1>6, <2>2, <2>4, <2>5, <3>1
  <2>6. CASE x \in Deposits /\ u = Owner[x]
    <3>1. x \notin C /\ D = C \cup {x}
      BY <1>3, <2>2, <2>3, <2>6, DepositsTargets
    <3>2. a[x] \in Nat
      BY <2>6, WorthTyped
    <3>3. /\ IsFiniteSet(Coins(b, D))
          /\ Cardinality(Coins(b, D)) = a[x] + Cardinality(Coins(a, C))
      BY <1>4, <2>2, <3>1, <3>2, CoinsAdded
    <3>4. balance'[u] = balance[u] + a[x]
      BY <2>2, <2>6
    <3> QED BY <1>1, <1>4, <1>5, <2>4, <3>2, <3>3, <3>4
  <2> QED BY <2>5, <2>6
<1>9. CASE \E o \in Orders : Promise!Spend(o)
  <2>1. PICK o \in Orders : Promise!Spend(o)
    BY <1>9
  <2>2. /\ PaidNow[o] = "UNPAID" /\ PaidNow' = [PaidNow EXCEPT ![o] = "WALLET"] /\ b = a
        /\ balance[Owner[o]] >= Price[o]
        /\ balance' = [balance EXCEPT ![Owner[o]] = @ - Price[o]]
    BY <2>1 DEF Promise!Spend, PaidNow, WorthNow
  <2>3. /\ o \in Targets /\ o \notin Deposits /\ PaidNow'[o] = "WALLET"
        /\ \A y \in Targets \ {o} : PaidNow'[y] = PaidNow[y]
    BY <2>2, DepositsTargets, TargetsApart DEF PaidNow
  <2>4. D = C
    BY <1>3, <2>3, DepositsTargets
  <2>5. CASE Owner[o] # u
    <3>1. E = B
      BY <1>3, <2>3, <2>5, DepositsTargets
    <3>2. balance'[u] = balance[u]
      BY <2>2, <2>5 DEF TypeOK
    <3> QED BY <1>6, <2>2, <2>4, <3>1, <3>2
  <2>6. CASE Owner[o] = u
    <3>1. o \notin B /\ E = B \cup {o}
      BY <1>3, <2>2, <2>3, <2>6, DepositsTargets
    <3>2. Price[o] \in Nat
      BY <2>3, MoneyTyped
    <3>3. /\ IsFiniteSet(Coins(Price, E))
          /\ Cardinality(Coins(Price, E)) = Price[o] + Cardinality(Coins(Price, B))
      BY <1>4, <3>1, <3>2, CoinsAdded
    <3>4. balance'[u] = balance[u] - Price[o]
      BY <2>2, <2>6 DEF TypeOK
    <3> QED BY <1>1, <1>4, <1>5, <2>2, <2>4, <3>2, <3>3, <3>4
  <2> QED BY <2>5, <2>6
<1> QED BY <1>7, <1>8, <1>9 DEF Promise!Next, Targets

\* No money is lost or made: whatever was late, repeated, corrected, reviewed
\* or resolved by an operator, a wallet holds what its user's deposits brought
\* in less what it paid for orders (creditDepositTransfer, payWithBalance).
THEOREM WalletsExact == Spec => []WalletExact
<1>1. Init => WalletExact
  <2> SUFFICES ASSUME Init, NEW u \in Users
               PROVE  /\ IsFiniteSet(Income(u)) /\ IsFiniteSet(Expense(u))
                      /\ Cardinality(Income(u)) = balance[u] + Cardinality(Expense(u))
    BY DEF WalletExact
  <2>1. \A x \in Targets : PaidBy(x) = "UNPAID"
    BY DEF Init, PaidBy
  <2>2. Credited(u) = {} /\ Bought(u) = {}
    BY <2>1, DepositsTargets DEF Credited, Bought
  <2>3. balance[u] = 0
    BY DEF Init
  <2> QED BY <2>2, <2>3, NoCoins DEF Income, Expense
<1>2. TypeOK /\ TypeOK' /\ WalletExact /\ MoneyStep => WalletExact'
  <2> SUFFICES ASSUME TypeOK, TypeOK', WalletExact, MoneyStep PROVE WalletExact'
    OBVIOUS
  <2>1. CASE Promise!Next
    BY <2>1, WalletStep
  <2>2. CASE UNCHANGED <<PaidNow, WorthNow, balance>>
    <3>1. \A x \in Targets : PaidBy(x)' = PaidBy(x)
      <4>1. \A x \in Targets : PaidNow[x] = PaidBy(x) /\ PaidNow'[x] = PaidBy(x)'
        BY DEF PaidNow
      <4> QED BY <2>2, <4>1
    <3>2. \A u \in Users : Credited(u)' = Credited(u) /\ Bought(u)' = Bought(u)
      BY <3>1, DepositsTargets DEF Credited, Bought
    <3>3. \A u \in Users : Income(u)' = Income(u)
      BY <2>2, <3>2 DEF Income, Coins, CoinsOf
    <3> QED BY <2>2, <3>2, <3>3, WalletRests DEF WalletExact
  <2> QED BY <2>1, <2>2 DEF MoneyStep, PaidNow, WorthNow
<1>3. SettlementInv /\ SettlementInv' /\ [Next]_vars => MoneyStep
  BY StepPromises
<1>4. SettlementInv => TypeOK
  BY DEF SettlementInv
<1> QED BY <1>1, <1>2, <1>3, <1>4, SettlementKept, PTL DEF Spec
=============================================================================
