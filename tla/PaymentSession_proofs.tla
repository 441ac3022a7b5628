------------------------ MODULE PaymentSession_proofs -------------------------
(***************************************************************************)
(* Proofs about changes of the payment method: the terms a customer sees   *)
(* are those of one session, the invoice matches the money that has come,  *)
(* the limit of instructions holds although it is counted long before the  *)
(* row is made, a late report ends no other session, and PaymentSession    *)
(* implements PaidOnce, for any number of orders, sessions, requests and   *)
(* changes, any price and any discounts.                                   *)
(***************************************************************************)
EXTENDS PaymentSession, FiniteSetTheorems, TLAPS

\* Invoices that add up, with the coupon's discount in them once.
Quotes ==
  {q \in [total : Int, discount : Int, payDiscount : Int, percent : 0..99] :
     q.total + q.payDiscount = Base /\ q.discount - q.payDiscount = Coupon}

Pays == [status : {"PENDING", "EXPIRED", "FAILED", "SUCCESS"},
         mode : {"INITIALIZING", "BINANCE", "BINANCE_ID", "MOCK"}, version : 0..MaxVersion,
         no : TradeNos \cup {None}, amount : Int, ref : (Orders \X (1..MaxVersion)) \cup {None}]
Sessions == [no : TradeNos, for : Orders, quote : Quotes]
Instrs   == [for : Orders, version : 1..MaxVersion, quote : Quotes]
Refs     == (TradeNos \X {0}) \cup (Orders \X (1..MaxVersion))
Moneys   == [ref : Refs, amount : Int, state : {"OBSERVED", "REVIEW", "CLAIMED"},
             for : Orders \cup {None}, changed : BOOLEAN]
ChangeSteps == {"register", "gateway", "persist"}
Changes == [step : ChangeSteps, for : Orders, method : Methods, version : 1..MaxVersion,
            quote : Quotes, no : TradeNos \cup {None}]
Reports == [step : {"ask", "expire"}, for : Orders, no : TradeNos \cup {None},
            version : 0..MaxVersion, quote : Quotes]
Works   == {Idle} \cup Changes \cup Reports

TypeOK ==
  /\ status \in [Orders -> {"PENDING", "PAID", "EXPIRED", "CANCELLED"}]
  /\ invoice \in [Orders -> Quotes]
  /\ pay \in [Orders -> Pays]
  /\ sessions \in SUBSET Sessions
  /\ instrs \in SUBSET Instrs /\ IsFiniteSet(instrs)
  /\ transfers \in SUBSET Moneys
  /\ discount \in [Methods -> Percents \cup {0}]
  /\ gateway \in [TradeNos -> {"unknown", "open", "paid", "closed"}]
  /\ work \in [Workers -> Works]

\* Rows have their keys, and what is recorded of a transfer is what it was
\* asked for, or nearly so.
RowsFine ==
  /\ \A s, r \in sessions : s.no = r.no => s = r
  /\ \A i, j \in instrs : i.for = j.for /\ i.version = j.version => i = j
  /\ \A t, u \in transfers : t.ref = u.ref => t = u
  /\ \A t \in transfers :
       /\ ~t.changed
       /\ \/ \E s \in sessions : t.ref = <<s.no, 0>> /\ t.amount = s.quote.total
          \/ \E i \in instrs, e \in Errors :
               t.ref = <<i.for, i.version>> /\ t.amount = i.quote.total + e

\* Instructions come from versions that have been.
VersionsPast == \A i \in instrs : i.version <= pay[i.for].version

\* The gateway knows only sessions that are recorded.
GatewayTold ==
  \A no \in TradeNos : gateway[no] # "unknown" => \E s \in sessions : s.no = no

\* A claim is for an order it has paid, at the price the invoice shows if it is
\* exact, and otherwise on the terms of the page.
ClaimFine(t) ==
  /\ t.for \in Orders /\ status[t.for] = "PAID"
  /\ pay[t.for].mode # "MOCK" \/ pay[t.for].ref # None
  /\ IF Exact(t) THEN invoice[t.for].total = t.amount ELSE TermsFit(t.for)
MoneyFine ==
  /\ \A t \in transfers : t.state = "CLAIMED" => ClaimFine(t)
  /\ \A t, u \in transfers : t.state = "CLAIMED" /\ u.state = "CLAIMED" /\ t.for = u.for => t = u
  /\ \A o \in Orders : status[o] = "PAID" /\ ~(pay[o].mode = "MOCK" /\ pay[o].ref = None)
                         => ClaimedBy(o) # {}
  /\ \A o \in Orders : status[o] # "PAID" => pay[o].ref = None

\* What is still true of a worker's notes when it uses them.
Changing(k) == k.step \in ChangeSteps
Recorded(k) == [no |-> k.no, for |-> k.for, quote |-> k.quote] \in sessions
RoomLeft(k) ==
  k.step = "persist" /\ k.method = "binance_id" /\ k.version = pay[k.for].version =>
    Cardinality(InstrsOf(k.for)) < MaxPerOrder
VersionFree(k) ==
  Changing(k) => /\ k.version <= pay[k.for].version
                 /\ \A i \in instrs : i.for = k.for => i.version # k.version
NotesRecorded(k) ==
  /\ k.step \in {"register", "gateway"} => k.method = "binance_pay"
  /\ k.step \in {"gateway", "ask"} => Recorded(k)
  /\ k.step = "persist" /\ k.method = "binance_pay" => Recorded(k)
GatewayFine(k) ==
  /\ k.step = "gateway" => gateway[k.no] = "unknown"
  /\ k.step = "expire" => k.no \in TradeNos /\ gateway[k.no] = "closed"
Fine(k) == RoomLeft(k) /\ VersionFree(k) /\ NotesRecorded(k) /\ GatewayFine(k)

\* No two workers have one version of an order or one session.
Clash(k, l) ==
  \/ Changing(k) /\ Changing(l) /\ k.for = l.for /\ k.version = l.version
  \/ k.step = "gateway" /\ l.step = "gateway" /\ k.no = l.no

WorkFine ==
  /\ \A w \in Workers : Fine(work[w])
  /\ \A w, x \in Workers : w # x => ~Clash(work[w], work[x])

\* The inductive invariant.
SessionInv ==
  /\ TypeOK /\ RowsFine /\ VersionsPast /\ GatewayTold /\ MoneyFine /\ WorkFine
  /\ TermsAgree /\ OrderLimitHolds

-----------------------------------------------------------------------------
(* Helpers.                                                                *)

LEMMA Numbers ==
  /\ Base \in Nat /\ Coupon \in Nat /\ Percents \subseteq 0..99
  /\ MaxPerOrder \in Nat /\ MaxVersion \in Nat /\ Errors \subseteq Int
BY SessionAssumption

LEMMA OneMore ==
  ASSUME NEW S, NEW x, IsFiniteSet(S)
  PROVE  /\ IsFiniteSet(S \cup {x}) /\ Cardinality(S \cup {x}) \in Nat
         /\ Cardinality(S \cup {x}) <= Cardinality(S) + 1
<1>1. Cardinality(S) \in Nat
  BY FS_CardinalityType
<1>2. IsFiniteSet(S \cup {x})
  BY FS_AddElement
<1>3. Cardinality(S \cup {x}) = Cardinality(S) \/ Cardinality(S \cup {x}) = Cardinality(S) + 1
  BY FS_AddElement
<1> QED BY <1>1, <1>2, <1>3

\* A quote adds up, whatever the discount.
LEMMA QuoteType ==
  ASSUME NEW o \in Orders, invoice[o] \in Quotes, NEW p \in 0..99
  PROVE  Quote(o, p) \in Quotes
<1> DEFINE coupon == invoice[o].discount - invoice[o].payDiscount
           base == Base + Coupon - coupon
           off == (base * p) \div 100
<1>1. coupon = Coupon /\ base = Base
  BY Numbers DEF Quotes
<1>2. base * p \in Int
  BY <1>1, Numbers
<1>3. off \in Int
  BY <1>2
<1>4. Quote(o, p) = [total |-> base - off, discount |-> coupon + off,
                     payDiscount |-> off, percent |-> p]
  BY DEF Quote
<1> HIDE DEF off, base, coupon
<1> QED BY <1>1, <1>3, <1>4, Numbers DEF Quotes

\* The terms the money was asked under already have the order's coupon.
LEMMA RestoredIsQuote ==
  ASSUME NEW o \in Orders, invoice[o] \in Quotes, NEW quote \in Quotes
  PROVE  Restored(o, quote) = quote
<1>1. /\ invoice[o].discount - invoice[o].payDiscount = Coupon
      /\ quote.discount - quote.payDiscount = Coupon
      /\ quote.discount \in Int /\ quote.payDiscount \in Int
  BY DEF Quotes
<1>2. invoice[o].discount - invoice[o].payDiscount + quote.payDiscount = quote.discount
  BY <1>1, Numbers
<1> QED BY <1>2 DEF Restored, Quotes

LEMMA WorkTyped ==
  ASSUME TypeOK, NEW w \in Workers
  PROVE  /\ work[w] \in Works
         /\ work[w].step \in ChangeSteps => work[w] \in Changes
         /\ work[w].step \in {"ask", "expire"} => work[w] \in Reports
BY DEF TypeOK, Works, Idle, Changes, Reports, ChangeSteps

LEMMA IdleIsFine == Fine(Idle) /\ (\A k : ~Clash(Idle, k) /\ ~Clash(k, Idle)) /\ Idle \in Works
BY DEF Fine, RoomLeft, VersionFree, NotesRecorded, GatewayFine, Clash, Changing, ChangeSteps, Idle, Works

\* Workers that go on as they were, or stop.
LEMMA WorkFrame ==
  ASSUME TypeOK, WorkFine, \A w \in Workers : work'[w] = work[w] \/ work'[w] = Idle,
         sessions \subseteq sessions', UNCHANGED instrs,
         \A o \in Orders : pay'[o].version = pay[o].version,
         \A no \in TradeNos : gateway[no] \in {"unknown", "closed"} => gateway'[no] = gateway[no]
  PROVE  WorkFine'
<1>1. ASSUME NEW w \in Workers, work'[w] = work[w] PROVE Fine(work[w])'
  <2>1. Fine(work[w])
    BY DEF WorkFine
  <2>2. work[w].step \in ChangeSteps \cup {"ask", "expire"} => work[w].for \in Orders /\ work[w].no \in TradeNos \cup {None}
    BY WorkTyped DEF Changes, Reports
  <2>3. RoomLeft(work[w])'
    BY <1>1, <2>1, <2>2 DEF Fine, RoomLeft, InstrsOf, ChangeSteps
  <2>4. VersionFree(work[w])'
    BY <1>1, <2>1, <2>2 DEF Fine, VersionFree, Changing
  <2>5. NotesRecorded(work[w])'
    BY <1>1, <2>1 DEF Fine, NotesRecorded, Recorded
  <2>6. GatewayFine(work[w])'
    <3>1. Recorded(work[w]) => work[w].no \in TradeNos
      BY DEF Recorded, TypeOK, Sessions
    <3> QED BY <1>1, <2>1, <3>1 DEF Fine, GatewayFine, NotesRecorded
  <2> QED BY <2>3, <2>4, <2>5, <2>6 DEF Fine
<1>2. ASSUME NEW w \in Workers, work'[w] = Idle PROVE Fine(work[w])'
  BY <1>2 DEF Fine, RoomLeft, VersionFree, NotesRecorded, GatewayFine, Changing, ChangeSteps, Idle
<1>3. ASSUME NEW w \in Workers, NEW x \in Workers, w # x PROVE ~Clash(work'[w], work'[x])
  BY <1>3, IdleIsFine DEF WorkFine
<1> QED BY <1>1, <1>2, <1>3 DEF WorkFine

\* What one worker does, and what it has to see to.
LEMMA OneWorks ==
  ASSUME TypeOK, WorkFine, NEW w \in Workers, NEW k,
         work' = [work EXCEPT ![w] = k], Fine(k)',
         \A x \in Workers \ {w} : \A l \in Works :
           l = work[x] => Fine(l)' /\ ~Clash(k, l) /\ ~Clash(l, k)
  PROVE  WorkFine'
<1>1. work'[w] = k /\ \A x \in Workers \ {w} : work'[x] = work[x] /\ work[x] \in Works
  BY DEF TypeOK
<1>2. ASSUME NEW x \in Workers PROVE Fine(work[x])'
  <2>1. PICK l : l = work'[x]
    OBVIOUS
  <2>2. Fine(l)'
    BY <1>1, <2>1
  <2> QED BY <2>1, <2>2 DEF Fine, RoomLeft, VersionFree, NotesRecorded, GatewayFine, Changing, Recorded
<1>3. ASSUME NEW x \in Workers, NEW y \in Workers, x # y PROVE ~Clash(work'[x], work'[y])
  BY <1>1, <1>3 DEF WorkFine
<1> QED BY <1>2, <1>3 DEF WorkFine

\* Nothing that Fine reads changes for these notes.
LEMMA FineFrame ==
  ASSUME TypeOK, NEW k \in Works, Fine(k), sessions \subseteq sessions',
         k.step \in ChangeSteps =>
           /\ pay'[k.for].version = pay[k.for].version
           /\ InstrsOf(k.for)' = InstrsOf(k.for),
         k.step \in {"gateway", "expire"} => gateway'[k.no] = gateway[k.no]
  PROVE  Fine(k)'
<1>1. RoomLeft(k)'
  BY DEF Fine, RoomLeft, ChangeSteps
<1>2. VersionFree(k)'
  <2>1. CASE k.step \in ChangeSteps
    <3>1. \A i \in instrs' : i.for = k.for => i \in InstrsOf(k.for)
      BY <2>1 DEF InstrsOf
    <3> QED BY <2>1, <3>1 DEF Fine, VersionFree, Changing, InstrsOf
  <2>2. CASE k.step \notin ChangeSteps
    BY <2>2 DEF VersionFree, Changing
  <2> QED BY <2>1, <2>2
<1>3. NotesRecorded(k)'
  BY DEF Fine, NotesRecorded, Recorded
<1>4. GatewayFine(k)'
  BY DEF Fine, GatewayFine
<1> QED BY <1>1, <1>2, <1>3, <1>4 DEF Fine

\* The terms of an order are as they were.
LEMMA FitFrame ==
  ASSUME NEW o \in Orders, TermsFit(o), sessions \subseteq sessions',
         InstrsOf(o)' = InstrsOf(o), invoice'[o] = invoice[o],
         pay'[o].amount = pay[o].amount, pay'[o].mode = pay[o].mode, pay'[o].no = pay[o].no
  PROVE  TermsFit(o)'
BY DEF TermsFit

\* A claim is not touched, and the instruction it was for is still there.
LEMMA ClaimFrame ==
  ASSUME NEW t, ClaimFine(t), sessions \subseteq sessions', Exact(t)' <=> Exact(t),
         status'[t.for] = "PAID", InstrsOf(t.for)' = InstrsOf(t.for),
         invoice'[t.for] = invoice[t.for],
         pay'[t.for].amount = pay[t.for].amount, pay'[t.for].mode = pay[t.for].mode,
         pay'[t.for].no = pay[t.for].no, pay'[t.for].ref = pay[t.for].ref
  PROVE  ClaimFine(t)'
<1>1. CASE Exact(t)
  BY <1>1 DEF ClaimFine
<1>2. CASE ~Exact(t)
  <2>1. TermsFit(t.for)'
    BY <1>2, FitFrame DEF ClaimFine
  <2> QED BY <1>2, <2>1 DEF ClaimFine
<1> QED BY <1>1, <1>2

\* No order is paid, and those that are stay as they are.
LEMMA MoneyGrows ==
  ASSUME MoneyFine, UNCHANGED transfers, sessions \subseteq sessions',
         \A t \in transfers : Exact(t)' <=> Exact(t),
         \A o \in Orders : status'[o] = "PAID" <=> status[o] = "PAID",
         \A o \in Orders : pay'[o].ref = pay[o].ref,
         \A o \in Orders : status[o] = "PAID" =>
           /\ invoice'[o] = invoice[o] /\ InstrsOf(o)' = InstrsOf(o)
           /\ pay'[o].amount = pay[o].amount /\ pay'[o].mode = pay[o].mode /\ pay'[o].no = pay[o].no
  PROVE  MoneyFine'
<1>1. ASSUME NEW t \in transfers, t.state = "CLAIMED" PROVE ClaimFine(t)'
  <2>1. ClaimFine(t) /\ t.for \in Orders /\ status[t.for] = "PAID"
    BY <1>1 DEF MoneyFine, ClaimFine
  <2> QED BY <2>1, ClaimFrame
<1>2. \A o \in Orders : ClaimedBy(o)' = ClaimedBy(o)
  BY DEF ClaimedBy
<1>3. \A o \in Orders : status'[o] = "PAID" /\ ~(pay'[o].mode = "MOCK" /\ pay'[o].ref = None)
                        => ClaimedBy(o)' # {}
  BY <1>2 DEF MoneyFine
<1>4. \A o \in Orders : status'[o] # "PAID" => pay'[o].ref = None
  BY DEF MoneyFine
<1>5. \A t, u \in transfers' : t.state = "CLAIMED" /\ u.state = "CLAIMED" /\ t.for = u.for => t = u
  BY DEF MoneyFine
<1> QED BY <1>1, <1>3, <1>4, <1>5 DEF MoneyFine

LEMMA MoneyFrame ==
  ASSUME MoneyFine, UNCHANGED <<transfers, instrs>>, sessions \subseteq sessions',
         \A o \in Orders : status'[o] = "PAID" <=> status[o] = "PAID",
         \A o \in Orders : pay'[o].ref = pay[o].ref,
         \A o \in Orders : status[o] = "PAID" =>
           /\ invoice'[o] = invoice[o]
           /\ pay'[o].amount = pay[o].amount /\ pay'[o].mode = pay[o].mode /\ pay'[o].no = pay[o].no
  PROVE  MoneyFine'
<1>1. \A t \in transfers : Exact(t)' <=> Exact(t)
  BY DEF Exact
<1>2. \A o \in Orders : InstrsOf(o)' = InstrsOf(o)
  BY DEF InstrsOf
<1> QED BY <1>1, <1>2, MoneyGrows

LEMMA TermsFrame ==
  ASSUME TermsAgree, sessions \subseteq sessions', UNCHANGED instrs,
         \A o \in Orders : status'[o] # "PAID" =>
           /\ status[o] # "PAID" /\ invoice'[o] = invoice[o]
           /\ pay'[o].amount = pay[o].amount /\ pay'[o].mode = pay[o].mode /\ pay'[o].no = pay[o].no
  PROVE  TermsAgree'
<1>1. \A o \in Orders : InstrsOf(o)' = InstrsOf(o)
  BY DEF InstrsOf
<1>2. ASSUME NEW o \in Orders, status'[o] # "PAID" PROVE TermsFit(o)'
  <2>1. TermsFit(o)
    BY <1>2 DEF TermsAgree
  <2> QED BY <1>1, <1>2, <2>1, FitFrame
<1> QED BY <1>2 DEF TermsAgree

LEMMA LimitFrame ==
  ASSUME OrderLimitHolds, UNCHANGED instrs
  PROVE  OrderLimitHolds'
BY DEF OrderLimitHolds, InstrsOf

-----------------------------------------------------------------------------
(* Changes of the method.                                                  *)

LEMMA PrepareKeeps ==
  ASSUME SessionInv, NEW w \in Workers, NEW o \in Orders, NEW method \in Methods, Prepare(w, o, method)
  PROVE  SessionInv'
<1> USE DEF SessionInv
<1>1. UNCHANGED <<status, invoice, sessions, instrs, transfers, discount, gateway>>
  BY DEF Prepare, rowVars
<1>2. /\ pay[o] \in Pays /\ invoice[o] \in Quotes /\ pay[o].version + 1 \in 1..MaxVersion
      /\ work[w] = Idle
  BY Numbers DEF Prepare, TypeOK, Pays
<1> DEFINE row == [pay[o] EXCEPT !.version = @ + 1]
<1>3. /\ row \in Pays /\ row.version = pay[o].version + 1 /\ row.mode = pay[o].mode
      /\ row.amount = pay[o].amount /\ row.no = pay[o].no /\ row.status = pay[o].status
      /\ row.ref = pay[o].ref
  BY <1>2, Numbers DEF Pays
<1>4. pay' = [pay EXCEPT ![o] = row]
  BY DEF Prepare, TypeOK
<1> HIDE DEF row
<1>5. pay'[o] = row /\ \A p \in Orders \ {o} : pay'[p] = pay[p]
  BY <1>4 DEF TypeOK
<1>6. QuoteFor(o, method) \in Quotes
  <2>1. discount[method] \in 0..99 /\ invoice[o].percent \in 0..99
    <3>1. discount[method] \in Percents \cup {0} /\ Percents \subseteq 0..99
      BY Numbers DEF TypeOK
    <3>2. invoice[o].percent \in 0..99
      BY <1>2 DEF Quotes
    <3>3. discount[method] \in 0..99
      <4>1. CASE discount[method] \in Percents
        BY <3>1, <4>1
      <4>2. CASE discount[method] = 0
        BY <4>2
      <4> QED BY <3>1, <4>1, <4>2
    <3> QED BY <3>2, <3>3
  <2> QED BY <1>2, <2>1, QuoteType DEF QuoteFor
<1>7. PICK k \in Works :
        /\ work' = [work EXCEPT ![w] = k]
        /\ \/ k = Idle
           \/ /\ k.step \in {"register", "persist"} /\ k.for = o /\ k.method = method
              /\ k.version = pay[o].version + 1
              /\ k.step = "register" <=> method = "binance_pay"
  <2> DEFINE quote == QuoteFor(o, method)
             new == [step |-> IF method = "binance_pay" THEN "register" ELSE "persist",
                     for |-> o, method |-> method, version |-> pay[o].version + 1,
                     quote |-> quote, no |-> None]
  <2>1. work' = [work EXCEPT ![w] = Idle] \/ work' = [work EXCEPT ![w] = new]
    BY DEF Prepare
  <2>2. quote \in Quotes
    BY <1>6
  <2> HIDE DEF quote
  <2>3. new \in Works
    BY <1>2, <2>2 DEF Works, Changes, ChangeSteps
  <2>4. /\ new.step \in {"register", "persist"} /\ new.for = o /\ new.method = method
        /\ new.version = pay[o].version + 1
        /\ new.step = "register" <=> method = "binance_pay"
    OBVIOUS
  <2> HIDE DEF new
  <2> QED BY <2>1, <2>3, <2>4, IdleIsFine
<1>8. TypeOK'
  BY <1>1, <1>3, <1>4, <1>7 DEF TypeOK
<1>9. RowsFine' /\ GatewayTold'
  BY <1>1 DEF RowsFine, GatewayTold
<1>10. VersionsPast'
  <2>1. \A i \in instrs : i.version \in Int /\ i.for \in Orders
    BY DEF TypeOK, Instrs
  <2>2. pay[o].version \in Int
    BY <1>2 DEF Pays
  <2> QED BY <1>1, <1>3, <1>5, <2>1, <2>2 DEF VersionsPast
<1>11. MoneyFine' /\ TermsAgree' /\ OrderLimitHolds'
  <2>1. \A p \in Orders : /\ pay'[p].mode = pay[p].mode /\ pay'[p].amount = pay[p].amount
                          /\ pay'[p].no = pay[p].no /\ pay'[p].ref = pay[p].ref
    BY <1>3, <1>5
  <2> QED BY <1>1, <2>1, MoneyFrame, TermsFrame, LimitFrame
<1>12. Fine(k)'
  <2>1. CASE k = Idle
    BY <2>1 DEF Fine, RoomLeft, VersionFree, NotesRecorded, GatewayFine, Changing, ChangeSteps, Idle
  <2>2. CASE k # Idle
    <3>1. RoomLeft(k)'
      BY <1>1, <1>7, <2>2 DEF RoomLeft, Prepare, WithinLimits, InstrsOf
    <3>2. VersionFree(k)'
      <4>1. \A i \in instrs : i.version \in Int
        BY DEF TypeOK, Instrs
      <4>2. pay[o].version \in Int
        BY <1>2 DEF Pays
      <4> QED BY <1>1, <1>3, <1>5, <1>7, <2>2, <4>1, <4>2 DEF VersionFree, VersionsPast
    <3>3. NotesRecorded(k)' /\ GatewayFine(k)'
      BY <1>7, <2>2 DEF NotesRecorded, GatewayFine
    <3> QED BY <3>1, <3>2, <3>3 DEF Fine
  <2> QED BY <2>1, <2>2
<1>13. ASSUME NEW x \in Workers \ {w}, NEW l \in Works, l = work[x]
       PROVE  Fine(l)' /\ ~Clash(k, l) /\ ~Clash(l, k)
  <2>1. Fine(l) /\ (l.step \in ChangeSteps => l \in Changes)
    BY <1>13, WorkTyped DEF WorkFine
  <2>2. CASE l.step \in ChangeSteps /\ l.for = o
    <3>1. l.version <= pay[o].version /\ l.version \in Int /\ pay[o].version \in Int
      BY <1>2, <2>1, <2>2 DEF Fine, VersionFree, Changing, Changes, Pays
    <3>2. RoomLeft(l)'
      BY <1>3, <1>5, <2>2, <3>1 DEF RoomLeft
    <3>3. VersionFree(l)'
      BY <1>1, <1>3, <1>5, <2>1, <2>2, <3>1 DEF Fine, VersionFree
    <3>4. NotesRecorded(l)' /\ GatewayFine(l)'
      BY <1>1, <2>1 DEF Fine, NotesRecorded, Recorded, GatewayFine
    <3>5. ~Clash(k, l) /\ ~Clash(l, k)
      BY <1>7, <3>1, IdleIsFine DEF Clash
    <3> QED BY <3>2, <3>3, <3>4, <3>5 DEF Fine
  <2>3. CASE ~(l.step \in ChangeSteps /\ l.for = o)
    <3>1. l.step \in ChangeSteps => pay'[l.for].version = pay[l.for].version
      BY <1>5, <2>1, <2>3 DEF Changes
    <3>2. InstrsOf(l.for)' = InstrsOf(l.for)
      BY <1>1 DEF InstrsOf
    <3>3. Fine(l)'
      BY <1>1, <2>1, <3>1, <3>2, FineFrame
    <3>4. ~Clash(k, l) /\ ~Clash(l, k)
      BY <1>7, <2>3, IdleIsFine DEF Clash, Changing
    <3> QED BY <3>3, <3>4
  <2> QED BY <2>2, <2>3
<1>14. WorkFine'
  BY <1>7, <1>12, <1>13, OneWorks
<1> QED BY <1>8, <1>9, <1>10, <1>11, <1>14

\* Two sessions with one number would be one.
LEMMA SessionsExtended ==
  ASSUME TypeOK, RowsFine, NEW s \in Sessions, \A r \in sessions : r.no # s.no,
         sessions' = sessions \cup {s}, UNCHANGED <<instrs, transfers>>
  PROVE  RowsFine'
<1>1. \A q, r \in sessions' : q.no = r.no => q = r
  BY DEF RowsFine
<1>2. \A t \in transfers :
        \/ \E q \in sessions' : t.ref = <<q.no, 0>> /\ t.amount = q.quote.total
        \/ \E i \in instrs, e \in Errors :
             t.ref = <<i.for, i.version>> /\ t.amount = i.quote.total + e
  BY DEF RowsFine
<1> QED BY <1>1, <1>2 DEF RowsFine

LEMMA RegisterKeeps ==
  ASSUME SessionInv, NEW w \in Workers, NEW no \in TradeNos, Register(w, no)
  PROVE  SessionInv'
<1> USE DEF SessionInv
<1>1. UNCHANGED <<status, invoice, pay, instrs, transfers, discount, gateway>>
  BY DEF Register, orderVars
<1>2. work[w].step = "register" /\ work[w] \in Changes /\ \A s \in sessions : s.no # no
  BY WorkTyped DEF Register, ChangeSteps
<1> DEFINE s == [no |-> no, for |-> work[w].for, quote |-> work[w].quote]
<1>3. s \in Sessions /\ s.no = no /\ sessions' = sessions \cup {s}
  BY <1>2 DEF Changes, Sessions, Register
<1>4. PICK k \in Changes :
        /\ work' = [work EXCEPT ![w] = k]
        /\ k.step = "gateway" /\ k.no = no /\ k.for = work[w].for /\ k.quote = work[w].quote
        /\ k.method = work[w].method /\ k.version = work[w].version
  <2> DEFINE new == [work[w] EXCEPT !.step = "gateway", !.no = no]
  <2>1. new \in Changes /\ new.step = "gateway" /\ new.no = no /\ new.for = work[w].for
        /\ new.quote = work[w].quote /\ new.method = work[w].method /\ new.version = work[w].version
    BY <1>2 DEF Changes, ChangeSteps
  <2>2. work' = [work EXCEPT ![w] = new]
    BY DEF Register, TypeOK
  <2> HIDE DEF new
  <2> QED BY <2>1, <2>2
<1>5. [no |-> k.no, for |-> k.for, quote |-> k.quote] \in sessions'
  BY <1>3, <1>4
<1> HIDE DEF s
<1>6. TypeOK'
  BY <1>1, <1>3, <1>4 DEF TypeOK, Works
<1>7. RowsFine'
  BY <1>1, <1>2, <1>3, SessionsExtended
<1>8. VersionsPast' /\ GatewayTold'
  BY <1>1, <1>3 DEF VersionsPast, GatewayTold
<1>9. MoneyFine' /\ TermsAgree' /\ OrderLimitHolds'
  BY <1>1, <1>3, MoneyFrame, TermsFrame, LimitFrame
<1>10. Fine(work[w]) /\ Changing(work[w]) /\ Changing(k)
  BY <1>2, <1>4 DEF WorkFine, Changing, ChangeSteps
<1>11. Fine(k)'
  <2>1. gateway[no] = "unknown"
    BY <1>2 DEF GatewayTold, TypeOK
  <2>2. VersionFree(k)'
    BY <1>1, <1>4, <1>10 DEF Fine, VersionFree
  <2>3. NotesRecorded(k)'
    BY <1>2, <1>4, <1>5, <1>10 DEF Fine, NotesRecorded, Recorded
  <2> QED BY <1>1, <1>4, <2>1, <2>2, <2>3 DEF Fine, RoomLeft, GatewayFine
<1>12. ASSUME NEW x \in Workers \ {w}, NEW l \in Works, l = work[x]
       PROVE  Fine(l)' /\ ~Clash(k, l) /\ ~Clash(l, k)
  <2>1. Fine(l) /\ ~Clash(work[w], l) /\ ~Clash(l, work[w])
    BY <1>12 DEF WorkFine
  <2>2. Fine(l)'
    BY <1>1, <1>3, <2>1, FineFrame DEF InstrsOf
  <2>3. l.step = "gateway" => l.no # no
    BY <1>2, <2>1 DEF Fine, NotesRecorded, Recorded
  <2> QED BY <1>4, <1>10, <2>1, <2>2, <2>3 DEF Clash
<1>13. WorkFine'
  BY <1>4, <1>11, <1>12, OneWorks
<1> QED BY <1>6, <1>7, <1>8, <1>9, <1>13

LEMMA GatewayOpensKeeps ==
  ASSUME SessionInv, NEW w \in Workers, GatewayOpens(w)
  PROVE  SessionInv'
<1> USE DEF SessionInv
<1>1. UNCHANGED <<status, invoice, pay, sessions, instrs, transfers, discount>>
  BY DEF GatewayOpens, orderVars, rowVars
<1>2. work[w].step = "gateway" /\ work[w] \in Changes /\ Fine(work[w])
  BY WorkTyped DEF GatewayOpens, ChangeSteps, WorkFine
<1>3. /\ [no |-> work[w].no, for |-> work[w].for, quote |-> work[w].quote] \in sessions
      /\ work[w].method = "binance_pay"
  BY <1>2 DEF Fine, NotesRecorded, Recorded
<1>4. work[w].no \in TradeNos
  BY <1>3 DEF TypeOK, Sessions
<1>5. gateway' = [gateway EXCEPT ![work[w].no] = "open"]
  BY DEF GatewayOpens
<1>6. PICK k \in Works :
        /\ work' = [work EXCEPT ![w] = k]
        /\ \/ k = Idle
           \/ /\ k.step = "persist" /\ k.no = work[w].no /\ k.for = work[w].for
              /\ k.quote = work[w].quote /\ k.method = work[w].method /\ k.version = work[w].version
  <2> DEFINE new == [work[w] EXCEPT !.step = "persist"]
  <2>1. new \in Changes /\ new.step = "persist" /\ new.no = work[w].no /\ new.for = work[w].for
        /\ new.quote = work[w].quote /\ new.method = work[w].method /\ new.version = work[w].version
    BY <1>2 DEF Changes, ChangeSteps
  <2>2. work' = [work EXCEPT ![w] = new] \/ work' = [work EXCEPT ![w] = Idle]
    BY DEF GatewayOpens, TypeOK
  <2> HIDE DEF new
  <2> QED BY <2>1, <2>2, IdleIsFine DEF Works
<1>7. TypeOK'
  BY <1>1, <1>5, <1>6 DEF TypeOK
<1>8. RowsFine' /\ VersionsPast' /\ MoneyFine' /\ TermsAgree' /\ OrderLimitHolds'
  BY <1>1, MoneyFrame, TermsFrame, LimitFrame DEF RowsFine, VersionsPast
<1>9. GatewayTold'
  BY <1>1, <1>3, <1>5 DEF GatewayTold, TypeOK
<1>10. Fine(k)'
  <2>1. CASE k = Idle
    BY <2>1 DEF Fine, RoomLeft, VersionFree, NotesRecorded, GatewayFine, Changing, ChangeSteps, Idle
  <2>2. CASE k # Idle
    <3>1. VersionFree(k)'
      BY <1>1, <1>2, <1>6, <2>2 DEF Fine, VersionFree, Changing, ChangeSteps
    <3>2. NotesRecorded(k)'
      BY <1>1, <1>3, <1>6, <2>2 DEF NotesRecorded, Recorded
    <3> QED BY <1>3, <1>6, <2>2, <3>1, <3>2 DEF Fine, RoomLeft, GatewayFine
  <2> QED BY <2>1, <2>2
<1>11. ASSUME NEW x \in Workers \ {w}, NEW l \in Works, l = work[x]
       PROVE  Fine(l)' /\ ~Clash(k, l) /\ ~Clash(l, k)
  <2>1. Fine(l) /\ ~Clash(work[w], l) /\ ~Clash(l, work[w])
    BY <1>11 DEF WorkFine
  <2>2. l.step \in {"gateway", "expire"} => l.no # work[w].no
    BY <1>2, <2>1 DEF Fine, GatewayFine, Clash
  <2>3. l.step \in {"gateway", "expire"} => gateway'[l.no] = gateway[l.no]
    <3>1. l.step \in {"gateway", "expire"} => l.no \in TradeNos
      BY <2>1 DEF Fine, GatewayFine, NotesRecorded, Recorded, TypeOK, Sessions
    <3> QED BY <1>5, <2>2, <3>1 DEF TypeOK
  <2>4. Fine(l)'
    BY <1>1, <2>1, <2>3, FineFrame DEF InstrsOf
  <2>5. ~Clash(k, l) /\ ~Clash(l, k)
    BY <1>2, <1>6, <2>1, IdleIsFine DEF Clash, Changing, ChangeSteps
  <2> QED BY <2>4, <2>5
<1>12. WorkFine'
  BY <1>6, <1>10, <1>11, OneWorks
<1> QED BY <1>7, <1>8, <1>9, <1>12

\* The terms of a change that still stands replace those before.
LEMMA PersistRows ==
  ASSUME SessionInv, NEW w \in Workers, Persist(w)
  PROVE  /\ work[w] \in Changes /\ work[w].step = "persist" /\ Fine(work[w])
         /\ LET o == work[w].for
                i == [for |-> o, version |-> work[w].version, quote |-> work[w].quote]
            IN /\ status[o] = "PENDING" /\ pay[o].version = work[w].version
               /\ \A p \in Orders : pay'[p].version = pay[p].version /\ pay'[p].ref = pay[p].ref
               /\ \A p \in Orders \ {o} : pay'[p] = pay[p] /\ invoice'[p] = invoice[p]
               /\ pay' \in [Orders -> Pays] /\ invoice' \in [Orders -> Quotes]
               /\ invoice'[o] = work[w].quote /\ pay'[o].amount = work[w].quote.total
               /\ pay'[o].mode = "BINANCE" =>
                     work[w].method = "binance_pay" /\ pay'[o].no = work[w].no
               /\ pay'[o].mode = "BINANCE_ID" => work[w].method = "binance_id"
               /\ pay'[o].mode # "INITIALIZING"
               /\ i \in Instrs
               /\ \/ instrs' = instrs /\ work[w].method # "binance_id"
                  \/ instrs' = instrs \cup {i} /\ work[w].method = "binance_id"
<1> USE DEF SessionInv
<1>1. work[w].step = "persist" /\ work[w] \in Changes /\ Fine(work[w])
  BY WorkTyped DEF Persist, ChangeSteps, WorkFine
<1> DEFINE o == work[w].for
           mode == ModeOf[work[w].method]
           row == [pay[o] EXCEPT !.mode = mode, !.amount = work[w].quote.total,
                                 !.no = IF mode = "BINANCE" THEN work[w].no ELSE @]
           i == [for |-> o, version |-> work[w].version, quote |-> work[w].quote]
<1>2. o \in Orders /\ i \in Instrs /\ work[w].quote \in Quotes /\ work[w].method \in Methods
      /\ work[w].no \in TradeNos \cup {None} /\ work[w].quote.total \in Int
  BY <1>1 DEF Changes, Instrs, Quotes
<1>3. status[o] = "PENDING" /\ pay[o].version = work[w].version /\ pay[o] \in Pays
  BY <1>2 DEF Persist, Stands, Awaiting, TypeOK
<1>4. /\ mode \in {"BINANCE", "BINANCE_ID", "MOCK"}
      /\ mode = "BINANCE" <=> work[w].method = "binance_pay"
      /\ mode = "BINANCE_ID" <=> work[w].method = "binance_id"
  BY <1>2 DEF ModeOf, Methods
<1>5. pay' = [pay EXCEPT ![o] = row]
  BY <1>2 DEF Persist, TypeOK
<1>6. invoice' = [invoice EXCEPT ![o] = work[w].quote]
  BY DEF Persist
<1>7. instrs' = instrs \cup IF mode = "BINANCE_ID" THEN {i} ELSE {}
  BY DEF Persist
<1> HIDE DEF mode
<1>8. /\ row \in Pays /\ row.mode = mode /\ row.amount = work[w].quote.total
      /\ row.version = pay[o].version /\ row.ref = pay[o].ref
      /\ mode = "BINANCE" => row.no = work[w].no
  BY <1>2, <1>3, <1>4 DEF Pays
<1> HIDE DEF row, i
<1>9. /\ pay' \in [Orders -> Pays] /\ pay'[o] = row
      /\ \A p \in Orders \ {o} : pay'[p] = pay[p]
      /\ invoice' \in [Orders -> Quotes] /\ invoice'[o] = work[w].quote
      /\ \A p \in Orders \ {o} : invoice'[p] = invoice[p]
  BY <1>2, <1>5, <1>6, <1>8 DEF TypeOK
<1>10. \A p \in Orders : pay'[p].version = pay[p].version /\ pay'[p].ref = pay[p].ref
  BY <1>8, <1>9
<1>11. \/ instrs' = instrs /\ work[w].method # "binance_id"
       \/ instrs' = instrs \cup {i} /\ work[w].method = "binance_id"
  BY <1>4, <1>7
<1> QED BY <1>1, <1>2, <1>3, <1>4, <1>8, <1>9, <1>10, <1>11 DEF i

LEMMA PersistKeeps ==
  ASSUME SessionInv, NEW w \in Workers, Persist(w)
  PROVE  SessionInv'
<1> USE DEF SessionInv
<1>1. PICK k : k = work[w]
  OBVIOUS
<1>2. PICK o : o = k.for
  OBVIOUS
<1>3. PICK i : i = [for |-> o, version |-> k.version, quote |-> k.quote]
  OBVIOUS
<1>4. /\ k \in Changes /\ k.step = "persist" /\ Fine(k)
      /\ status[o] = "PENDING" /\ pay[o].version = k.version
      /\ \A p \in Orders : pay'[p].version = pay[p].version /\ pay'[p].ref = pay[p].ref
      /\ \A p \in Orders \ {o} : pay'[p] = pay[p] /\ invoice'[p] = invoice[p]
      /\ pay' \in [Orders -> Pays] /\ invoice' \in [Orders -> Quotes]
      /\ invoice'[o] = k.quote /\ pay'[o].amount = k.quote.total
      /\ pay'[o].mode = "BINANCE" => k.method = "binance_pay" /\ pay'[o].no = k.no
      /\ pay'[o].mode = "BINANCE_ID" => k.method = "binance_id"
      /\ i \in Instrs
      /\ \/ instrs' = instrs /\ k.method # "binance_id"
         \/ instrs' = instrs \cup {i} /\ k.method = "binance_id"
  BY <1>1, <1>2, <1>3, PersistRows
<1>5. o \in Orders /\ k.version \in 1..MaxVersion
  BY <1>2, <1>4 DEF Changes
<1>6. i.for = o /\ i.version = k.version /\ i.quote = k.quote
  BY <1>3
<1>7. UNCHANGED <<status, sessions, transfers, discount, gateway>>
  BY DEF Persist
<1>8. work' = [work EXCEPT ![w] = Idle]
  BY DEF Persist
<1>9. \A j \in instrs : j.for = o => j.version # k.version
  BY <1>2, <1>4 DEF Fine, VersionFree, Changing, ChangeSteps
<1>10. instrs' \subseteq instrs \cup {i} /\ instrs \subseteq instrs'
  BY <1>4
<1>11. TypeOK'
  <2>1. instrs' \in SUBSET Instrs /\ IsFiniteSet(instrs')
    <3>1. IsFiniteSet(instrs) /\ instrs \in SUBSET Instrs
      BY DEF TypeOK
    <3>2. IsFiniteSet(instrs \cup {i})
      BY <3>1, OneMore
    <3>3. CASE instrs' = instrs
      BY <3>1, <3>3
    <3>4. CASE instrs' = instrs \cup {i}
      BY <1>4, <3>1, <3>2, <3>4
    <3> QED BY <1>4, <3>3, <3>4
  <2> QED BY <1>4, <1>7, <1>8, <2>1, IdleIsFine DEF TypeOK
<1>12. RowsFine'
  <2>1. \A j, h \in instrs' : j.for = h.for /\ j.version = h.version => j = h
    BY <1>6, <1>9, <1>10 DEF RowsFine
  <2>2. \A t \in transfers :
          \/ \E s \in sessions : t.ref = <<s.no, 0>> /\ t.amount = s.quote.total
          \/ \E j \in instrs', e \in Errors :
               t.ref = <<j.for, j.version>> /\ t.amount = j.quote.total + e
    BY <1>10 DEF RowsFine
  <2> QED BY <1>7, <2>1, <2>2 DEF RowsFine
<1>13. VersionsPast'
  <2>1. \A j \in instrs' : j.for \in Orders
    BY <1>11 DEF TypeOK, Instrs
  <2>2. k.version <= pay[o].version
    BY <1>4, <1>5
  <2> QED BY <1>4, <1>6, <1>10, <2>1, <2>2 DEF VersionsPast
<1>14. GatewayTold'
  BY <1>7 DEF GatewayTold
<1>15. MoneyFine'
  <2>1. ASSUME NEW t \in transfers PROVE Exact(t)' <=> Exact(t)
    <3>1. t.ref # <<i.for, i.version>>
      <4>1. CASE \E s \in sessions : t.ref = <<s.no, 0>>
        BY <1>5, <1>6, <4>1
      <4>2. CASE \E j \in instrs : t.ref = <<j.for, j.version>>
        BY <1>6, <1>9, <4>2
      <4> QED BY <4>1, <4>2 DEF RowsFine
    <3> QED BY <1>10, <3>1 DEF Exact
  <2>2. \A p \in Orders : status[p] = "PAID" => p # o /\ InstrsOf(p)' = InstrsOf(p)
    BY <1>4, <1>6, <1>10 DEF InstrsOf
  <2> QED BY <1>4, <1>7, <2>1, <2>2, MoneyGrows
<1>16. TermsAgree'
  <2> SUFFICES ASSUME NEW p \in Orders, status'[p] # "PAID" PROVE TermsFit(p)'
    BY DEF TermsAgree
  <2>1. CASE p = o
    <3>1. pay'[o].mode = "BINANCE" =>
             \E s \in sessions' : s.no = pay'[o].no /\ s.for = o /\ s.quote = invoice'[o]
      BY <1>2, <1>4, <1>7 DEF Fine, NotesRecorded, Recorded
    <3>2. ASSUME pay'[o].mode = "BINANCE_ID"
          PROVE  \E j \in InstrsOf(o)' : j.quote = invoice'[o]
                             /\ \A h \in InstrsOf(o)' : h.version <= j.version
      <4>1. i \in InstrsOf(o)' /\ i.quote = invoice'[o]
        BY <1>4, <1>6, <3>2 DEF InstrsOf
      <4>2. \A h \in InstrsOf(o)' : h.version <= i.version
        BY <1>4, <1>5, <1>6, <1>13 DEF InstrsOf, VersionsPast
      <4> QED BY <4>1, <4>2
    <3> QED BY <1>4, <2>1, <3>1, <3>2 DEF TermsFit
  <2>2. CASE p # o
    <3>1. InstrsOf(p)' = InstrsOf(p)
      BY <1>6, <1>10, <2>2 DEF InstrsOf
    <3>2. pay'[p] = pay[p] /\ invoice'[p] = invoice[p] /\ TermsFit(p)
      BY <1>4, <1>7, <2>2 DEF TermsAgree
    <3> QED BY <1>7, <3>1, <3>2, FitFrame
  <2> QED BY <2>1, <2>2
<1>17. OrderLimitHolds'
  <2> SUFFICES ASSUME NEW p \in Orders PROVE Cardinality(InstrsOf(p)') <= MaxPerOrder
    BY DEF OrderLimitHolds
  <2>1. CASE InstrsOf(p)' = InstrsOf(p)
    BY <2>1 DEF OrderLimitHolds
  <2>2. CASE InstrsOf(p)' # InstrsOf(p)
    <3>1. p = o /\ k.method = "binance_id" /\ InstrsOf(o)' = InstrsOf(o) \cup {i}
      BY <1>4, <1>6, <2>2 DEF InstrsOf
    <3>2. Cardinality(InstrsOf(o)) < MaxPerOrder
      BY <1>2, <1>4, <3>1 DEF Fine, RoomLeft
    <3>3. IsFiniteSet(InstrsOf(o))
      BY FS_Subset DEF TypeOK, InstrsOf
    <3>4. Cardinality(InstrsOf(o)) \in Nat
      BY <3>3, FS_CardinalityType
    <3>5. Cardinality(InstrsOf(o) \cup {i}) <= Cardinality(InstrsOf(o)) + 1
      BY <3>3, OneMore
    <3>6. Cardinality(InstrsOf(o) \cup {i}) \in Nat
      BY <3>3, OneMore
    <3>7. Cardinality(InstrsOf(o) \cup {i}) <= MaxPerOrder
      BY <3>2, <3>4, <3>5, <3>6, Numbers
    <3> QED BY <3>1, <3>7
  <2> QED BY <2>1, <2>2
<1>18. ASSUME NEW x \in Workers \ {w}, NEW l \in Works, l = work[x]
       PROVE  Fine(l)' /\ ~Clash(Idle, l) /\ ~Clash(l, Idle)
  <2>1. Fine(l) /\ ~Clash(k, l) /\ (l.step \in ChangeSteps => l \in Changes)
    BY <1>1, <1>18, WorkTyped DEF WorkFine
  <2>2. CASE l.step \in ChangeSteps /\ l.for = o
    <3>1. l.version # k.version /\ l.version <= pay[o].version
      BY <1>2, <1>4, <2>1, <2>2 DEF Clash, Changing, ChangeSteps, Fine, VersionFree
    <3>2. RoomLeft(l)'
      BY <1>4, <1>5, <2>2, <3>1 DEF RoomLeft
    <3>3. VersionFree(l)'
      BY <1>4, <1>5, <1>6, <1>10, <2>1, <2>2, <3>1 DEF Fine, VersionFree
    <3>4. NotesRecorded(l)' /\ GatewayFine(l)'
      BY <1>7, <2>1 DEF Fine, NotesRecorded, Recorded, GatewayFine
    <3> QED BY <3>2, <3>3, <3>4, IdleIsFine DEF Fine
  <2>3. CASE ~(l.step \in ChangeSteps /\ l.for = o)
    <3>1. l.step \in ChangeSteps => /\ pay'[l.for].version = pay[l.for].version
                                    /\ InstrsOf(l.for)' = InstrsOf(l.for)
      BY <1>4, <1>6, <1>10, <2>1, <2>3 DEF Changes, InstrsOf
    <3> QED BY <1>7, <2>1, <3>1, FineFrame, IdleIsFine
  <2> QED BY <2>2, <2>3
<1>19. WorkFine'
  <2>1. Fine(Idle)'
    BY DEF Fine, RoomLeft, VersionFree, NotesRecorded, GatewayFine, Changing, ChangeSteps, Idle
  <2> QED BY <1>8, <1>18, <2>1, OneWorks
<1> QED BY <1>11, <1>12, <1>13, <1>14, <1>15, <1>16, <1>17, <1>19

-----------------------------------------------------------------------------
(* Steps that leave the terms alone.                                       *)

LEMMA QuietKeeps ==
  ASSUME SessionInv, UNCHANGED <<orderVars, rowVars>>,
         discount' \in [Methods -> Percents \cup {0}],
         gateway' \in [TradeNos -> {"unknown", "open", "paid", "closed"}],
         work' \in [Workers -> Works],
         \A w \in Workers : work'[w] = work[w] \/ work'[w] = Idle,
         \A no \in TradeNos :
           /\ gateway[no] \in {"unknown", "closed"} => gateway'[no] = gateway[no]
  PROVE  SessionInv'
<1> USE DEF SessionInv
<1>1. UNCHANGED <<status, invoice, pay, sessions, instrs, transfers>>
  BY DEF orderVars, rowVars
<1>2. TypeOK'
  BY <1>1 DEF TypeOK
<1>3. RowsFine' /\ VersionsPast' /\ MoneyFine' /\ TermsAgree' /\ OrderLimitHolds'
  BY <1>1, MoneyFrame, TermsFrame, LimitFrame DEF RowsFine, VersionsPast
<1>4. GatewayTold'
  BY <1>1 DEF GatewayTold
<1>5. WorkFine'
  BY <1>1, WorkFrame
<1> QED BY <1>2, <1>3, <1>4, <1>5

\* An order ends without a transfer: it is closed, or its money was never real.
LEMMA EndingKeeps ==
  ASSUME SessionInv, NEW o \in Orders,
         NEW x \in {"EXPIRED", "FAILED", "SUCCESS"}, NEW y \in {"EXPIRED", "CANCELLED", "PAID"},
         status[o] # "PAID", y = "PAID" => pay[o].mode = "MOCK",
         status' = [status EXCEPT ![o] = y], pay' = [pay EXCEPT ![o].status = x],
         UNCHANGED <<invoice, rowVars, discount, gateway>>,
         work' \in [Workers -> Works],
         \A w \in Workers : work'[w] = work[w] \/ work'[w] = Idle
  PROVE  SessionInv'
<1> USE DEF SessionInv
<1>1. UNCHANGED <<invoice, sessions, instrs, transfers, discount, gateway>>
  BY DEF rowVars
<1> DEFINE row == [pay[o] EXCEPT !.status = x]
<1>2. /\ row \in Pays /\ row.version = pay[o].version /\ row.mode = pay[o].mode
      /\ row.amount = pay[o].amount /\ row.no = pay[o].no /\ row.ref = pay[o].ref
  BY DEF TypeOK, Pays
<1>3. pay' = [pay EXCEPT ![o] = row]
  BY DEF TypeOK
<1> HIDE DEF row
<1>4. \A p \in Orders : /\ pay'[p].version = pay[p].version /\ pay'[p].mode = pay[p].mode
                        /\ pay'[p].amount = pay[p].amount /\ pay'[p].no = pay[p].no
                        /\ pay'[p].ref = pay[p].ref
  BY <1>2, <1>3 DEF TypeOK
<1>5. status'[o] = y /\ \A p \in Orders \ {o} : status'[p] = status[p]
  BY DEF TypeOK
<1>6. TypeOK'
  BY <1>1, <1>2, <1>3 DEF TypeOK
<1>7. RowsFine' /\ GatewayTold' /\ OrderLimitHolds'
  BY <1>1, LimitFrame DEF RowsFine, GatewayTold
<1>8. VersionsPast'
  BY <1>1, <1>4 DEF VersionsPast, TypeOK, Instrs
<1>9. TermsAgree'
  BY <1>1, <1>4, <1>5, TermsFrame
<1>10. MoneyFine'
  <2>1. \A p \in Orders : ClaimedBy(p)' = ClaimedBy(p) /\ InstrsOf(p)' = InstrsOf(p)
    BY <1>1 DEF ClaimedBy, InstrsOf
  <2>2. ASSUME NEW t \in transfers', t.state = "CLAIMED" PROVE ClaimFine(t)'
    <3>1. ClaimFine(t) /\ t.for \in Orders \ {o}
      BY <1>1, <2>2 DEF MoneyFine, ClaimFine
    <3>2. Exact(t)' <=> Exact(t)
      BY <1>1 DEF Exact
    <3> QED BY <1>1, <1>4, <1>5, <2>1, <3>1, <3>2, ClaimFrame DEF ClaimFine
  <2>3. pay[o].ref = None
    BY DEF MoneyFine
  <2>4. \A p \in Orders : status'[p] = "PAID" /\ ~(pay'[p].mode = "MOCK" /\ pay'[p].ref = None)
                           => ClaimedBy(p)' # {}
    BY <1>4, <1>5, <2>1, <2>3 DEF MoneyFine
  <2>5. \A p \in Orders : status'[p] # "PAID" => pay'[p].ref = None
    BY <1>4, <1>5, <2>3 DEF MoneyFine
  <2>6. \A t, u \in transfers' : t.state = "CLAIMED" /\ u.state = "CLAIMED" /\ t.for = u.for => t = u
    BY <1>1 DEF MoneyFine
  <2> QED BY <2>2, <2>4, <2>5, <2>6 DEF MoneyFine
<1>11. WorkFine'
  BY <1>1, <1>4, WorkFrame
<1> QED BY <1>6, <1>7, <1>8, <1>9, <1>10, <1>11

LEMMA WorkIdles ==
  ASSUME TypeOK, NEW w \in Workers, work' = [work EXCEPT ![w] = Idle]
  PROVE  work' \in [Workers -> Works] /\ \A x \in Workers : work'[x] = work[x] \/ work'[x] = Idle
BY IdleIsFine DEF TypeOK

LEMMA AbandonKeeps ==
  ASSUME SessionInv, NEW w \in Workers, Abandon(w)
  PROVE  SessionInv'
BY WorkIdles, QuietKeeps DEF SessionInv, Abandon, TypeOK

LEMMA GatewayMovesKeeps ==
  ASSUME SessionInv, NEW no \in TradeNos, PayAtGateway(no) \/ CloseAtGateway(no)
  PROVE  SessionInv'
<1>1. PICK x \in {"paid", "closed"} : gateway[no] = "open" /\ gateway' = [gateway EXCEPT ![no] = x]
  BY DEF PayAtGateway, CloseAtGateway
<1>2. UNCHANGED <<orderVars, rowVars, discount, work>>
  BY DEF PayAtGateway, CloseAtGateway
<1>3. TypeOK
  BY DEF SessionInv
<1>4. /\ gateway' \in [TradeNos -> {"unknown", "open", "paid", "closed"}]
      /\ \A n \in TradeNos : gateway[n] \in {"unknown", "closed"} => gateway'[n] = gateway[n]
  BY <1>1, <1>3 DEF TypeOK
<1> QED BY <1>2, <1>3, <1>4, QuietKeeps DEF TypeOK

LEMMA SetDiscountKeeps ==
  ASSUME SessionInv, NEW method \in Methods, NEW p \in Percents, SetDiscount(method, p)
  PROVE  SessionInv'
BY QuietKeeps DEF SessionInv, SetDiscount, TypeOK

LEMMA ConfirmMockKeeps ==
  ASSUME SessionInv, NEW o \in Orders, ConfirmMock(o)
  PROVE  SessionInv'
BY EndingKeeps DEF SessionInv, ConfirmMock, TypeOK

LEMMA CloseOrderKeeps ==
  ASSUME SessionInv, NEW o \in Orders, CloseOrder(o)
  PROVE  SessionInv'
<1>1. PICK outcome \in {<<"EXPIRED", "EXPIRED">>, <<"CANCELLED", "FAILED">>} :
        /\ status' = [status EXCEPT ![o] = outcome[1]]
        /\ pay' = [pay EXCEPT ![o].status = outcome[2]]
  BY DEF CloseOrder
<1>2. /\ outcome[1] \in {"EXPIRED", "CANCELLED", "PAID"} /\ outcome[1] # "PAID"
      /\ outcome[2] \in {"EXPIRED", "FAILED", "SUCCESS"}
  OBVIOUS
<1> QED BY <1>1, <1>2, EndingKeeps DEF SessionInv, CloseOrder, TypeOK

LEMMA ExpireOrderKeeps ==
  ASSUME SessionInv, NEW w \in Workers, ExpireOrder(w)
  PROVE  SessionInv'
<1>1. work[w].for \in Orders
  BY WorkTyped DEF SessionInv, ExpireOrder, Reports
<1>2. /\ work' \in [Workers -> Works]
      /\ \A x \in Workers : work'[x] = work[x] \/ work'[x] = Idle
  BY WorkIdles DEF SessionInv, ExpireOrder
<1>3. UNCHANGED <<invoice, rowVars, discount, gateway>>
  BY DEF ExpireOrder
<1>4. CASE UNCHANGED <<status, pay>>
  BY <1>2, <1>3, <1>4, QuietKeeps DEF SessionInv, TypeOK, orderVars
<1>5. CASE ~UNCHANGED <<status, pay>>
  <2>1. PICK o \in Orders : o = work[w].for
    BY <1>1
  <2>2. /\ status[o] = "PENDING" /\ status' = [status EXCEPT ![o] = "EXPIRED"]
        /\ pay' = [pay EXCEPT ![o].status = "EXPIRED"]
    BY <1>5, <2>1 DEF ExpireOrder
  <2> QED BY <1>2, <1>3, <2>2, EndingKeeps
<1> QED BY <1>4, <1>5

-----------------------------------------------------------------------------
(* Reports that are read now and acted upon later.                         *)

LEMMA NoteKept ==
  ASSUME SessionInv, NEW w \in Workers, NEW k \in Reports,
         NotesRecorded(k), GatewayFine(k),
         work' = [work EXCEPT ![w] = k], UNCHANGED <<orderVars, rowVars, discount, gateway>>
  PROVE  SessionInv'
<1> USE DEF SessionInv
<1>1. UNCHANGED <<status, invoice, pay, sessions, instrs, transfers, discount, gateway>>
  BY DEF orderVars, rowVars
<1>2. k.step \in {"ask", "expire"}
  BY DEF Reports
<1>3. TypeOK'
  BY <1>1 DEF TypeOK, Works
<1>4. RowsFine' /\ VersionsPast' /\ GatewayTold' /\ MoneyFine' /\ TermsAgree' /\ OrderLimitHolds'
  BY <1>1, MoneyFrame, TermsFrame, LimitFrame DEF RowsFine, VersionsPast, GatewayTold
<1>5. Fine(k)'
  BY <1>1, <1>2 DEF Fine, RoomLeft, VersionFree, Changing, ChangeSteps, NotesRecorded, Recorded, GatewayFine
<1>6. ASSUME NEW x \in Workers \ {w}, NEW l \in Works, l = work[x]
      PROVE  Fine(l)' /\ ~Clash(k, l) /\ ~Clash(l, k)
  <2>1. Fine(l)
    BY <1>6 DEF WorkFine
  <2>2. Fine(l)'
    BY <1>1, <2>1, FineFrame DEF InstrsOf
  <2>3. ~Clash(k, l) /\ ~Clash(l, k)
    BY <1>2 DEF Clash, Changing, ChangeSteps
  <2> QED BY <2>2, <2>3
<1>7. WorkFine'
  BY <1>5, <1>6, OneWorks
<1> QED BY <1>3, <1>4, <1>7

LEMMA StartCheckKeeps ==
  ASSUME SessionInv, NEW w \in Workers, NEW o \in Orders, StartCheck(w, o)
  PROVE  SessionInv'
<1> USE DEF SessionInv
<1>1. PICK k : k = [step |-> "ask", for |-> o, no |-> pay[o].no,
                    version |-> pay[o].version, quote |-> invoice[o]]
  OBVIOUS
<1>2. k \in Reports
  BY <1>1 DEF TypeOK, Pays, Reports
<1>3. [no |-> pay[o].no, for |-> o, quote |-> invoice[o]] \in sessions
  <2>1. PICK s \in sessions : s.no = pay[o].no /\ s.for = o /\ s.quote = invoice[o]
    BY DEF StartCheck, TermsAgree, TermsFit
  <2>2. s \in Sessions
    BY DEF TypeOK
  <2>3. s = [no |-> s.no, for |-> s.for, quote |-> s.quote]
    BY <2>2 DEF Sessions
  <2> QED BY <2>1, <2>3
<1>4. NotesRecorded(k) /\ GatewayFine(k)
  BY <1>1, <1>3 DEF NotesRecorded, Recorded, GatewayFine
<1>5. work' = [work EXCEPT ![w] = k]
  BY <1>1 DEF StartCheck
<1> QED BY <1>2, <1>4, <1>5, NoteKept DEF StartCheck

LEMMA CheckFindsClosedKeeps ==
  ASSUME SessionInv, NEW w \in Workers, CheckFindsClosed(w)
  PROVE  SessionInv'
<1> USE DEF SessionInv
<1>1. work[w] \in Reports /\ work[w].step = "ask" /\ gateway[work[w].no] = "closed"
  BY WorkTyped DEF CheckFindsClosed
<1>2. work[w].no \in TradeNos
  BY <1>1 DEF WorkFine, Fine, NotesRecorded, Recorded, TypeOK, Sessions
<1>3. PICK k : k = [work[w] EXCEPT !.step = "expire"]
  OBVIOUS
<1>4. k \in Reports /\ k.step = "expire" /\ k.no = work[w].no
  BY <1>1, <1>3 DEF Reports
<1>5. NotesRecorded(k) /\ GatewayFine(k)
  BY <1>1, <1>2, <1>4 DEF NotesRecorded, GatewayFine
<1>6. work' = [work EXCEPT ![w] = k]
  BY <1>3 DEF CheckFindsClosed, TypeOK
<1> QED BY <1>4, <1>5, <1>6, NoteKept DEF CheckFindsClosed

LEMMA WebhookClosedKeeps ==
  ASSUME SessionInv, NEW w \in Workers, NEW s \in sessions, WebhookClosed(w, s)
  PROVE  SessionInv'
<1> USE DEF SessionInv
<1>1. s.for \in Orders /\ s.no \in TradeNos
  BY DEF TypeOK, Sessions
<1>2. PICK k : k = [step |-> "expire", for |-> s.for, no |-> s.no,
                    version |-> pay[s.for].version, quote |-> invoice[s.for]]
  OBVIOUS
<1>3. k \in Reports
  BY <1>1, <1>2 DEF TypeOK, Pays, Reports
<1>4. NotesRecorded(k) /\ GatewayFine(k)
  BY <1>1, <1>2 DEF NotesRecorded, GatewayFine, WebhookClosed
<1>5. work' = [work EXCEPT ![w] = k]
  BY <1>2 DEF WebhookClosed
<1> QED BY <1>3, <1>4, <1>5, NoteKept DEF WebhookClosed

-----------------------------------------------------------------------------
(* Money.                                                                  *)

\* What PaidOnce sees of an order, and of a step.
First(S) == CHOOSE t \in S : TRUE
PaidBy(o) == IF status[o] # "PAID" THEN None
             ELSE IF ClaimedBy(o) = {} THEN MockMoney(o) ELSE First(ClaimedBy(o)).ref
PaidNow == [o \in Orders |-> PaidBy(o)]
AllMoney == (TradeNos \X {0}) \cup (Orders \X (-1..MaxVersion))
Received(o, t) ==
  /\ PaidNow[o] = None /\ \A p \in Orders : PaidNow[p] # t
  /\ PaidNow' = [PaidNow EXCEPT ![o] = t]
MoneyStep == PaidNow' = PaidNow \/ \E o \in Orders, t \in AllMoney : Received(o, t)

LEMMA NothingPaid ==
  ASSUME \A o \in Orders : status'[o] = "PAID" <=> status[o] = "PAID",
         \A o \in Orders : ClaimedBy(o)' = ClaimedBy(o)
  PROVE  MoneyStep
<1>1. ASSUME NEW o \in Orders PROVE PaidBy(o)' = PaidBy(o)
  <2>1. PICK S : S = ClaimedBy(o)
    OBVIOUS
  <2>2. ClaimedBy(o)' = S
    BY <2>1
  <2> QED BY <2>1, <2>2 DEF PaidBy, MockMoney
<1> QED BY <1>1 DEF PaidNow, MoneyStep

\* What has been paid for is known by the transfer, or is the mock's.
LEMMA PaidByWhat ==
  ASSUME SessionInv, NEW o \in Orders
  PROVE  \/ PaidNow[o] = None \/ PaidNow[o] = MockMoney(o)
         \/ \E t \in transfers : t.state = "CLAIMED" /\ PaidNow[o] = t.ref
<1>1. ClaimedBy(o) # {} => First(ClaimedBy(o)) \in ClaimedBy(o)
  BY DEF First
<1> QED BY <1>1 DEF PaidNow, PaidBy, ClaimedBy

\* A name that no claim and no mock money has is new.
LEMMA NewMoney ==
  ASSUME SessionInv, NEW t \in AllMoney,
         \A u \in transfers : u.state = "CLAIMED" => u.ref # t,
         \A p \in Orders : status[p] = "PAID" /\ ClaimedBy(p) = {} => t # MockMoney(p)
  PROVE  \A p \in Orders : PaidNow[p] # t
<1> SUFFICES ASSUME NEW p \in Orders PROVE PaidNow[p] # t
  OBVIOUS
<1>1. None # t
  BY SessionAssumption DEF AllMoney
<1>2. ClaimedBy(p) # {} => First(ClaimedBy(p)) \in ClaimedBy(p)
  BY DEF First
<1>3. PaidNow[p] = PaidBy(p)
  BY DEF PaidNow
<1> QED BY <1>1, <1>2, <1>3 DEF PaidBy, ClaimedBy

\* A payment of these terms, by its name and its amount.
Names(ref, mode, quote, amount) ==
  \/ /\ mode = "BINANCE" /\ amount = quote.total
     /\ \E s \in sessions : ref = <<s.no, 0>> /\ s.quote = quote
  \/ /\ mode = "BINANCE_ID"
     /\ \E i \in instrs : ref = <<i.for, i.version>> /\ i.quote = quote
     /\ \E e \in Errors : amount = quote.total + e
     /\ \A t \in transfers : t.ref = ref => t.amount = amount

\* It is exact if its terms are found.
LEMMA ExactIsFound ==
  ASSUME TypeOK, RowsFine, NEW r, NEW mode, NEW quote \in Quotes, Names(r.ref, mode, quote, r.amount)
  PROVE  Exact(r) <=> r.amount = quote.total
<1>1. \A i \in instrs : i.version # 0
  BY DEF TypeOK, Instrs
<1>2. CASE mode = "BINANCE"
  BY <1>1, <1>2 DEF Names, Exact
<1>3. CASE mode = "BINANCE_ID"
  <2>1. PICK i \in instrs : r.ref = <<i.for, i.version>> /\ i.quote = quote
    BY <1>3 DEF Names
  <2>2. \A j \in instrs : r.ref = <<j.for, j.version>> => j = i
    BY <2>1 DEF RowsFine
  <2> QED BY <2>1, <2>2 DEF Exact
<1> QED BY <1>2, <1>3 DEF Names

\* A payment that is read twice is read alike.
LEMMA SeenAlike ==
  ASSUME TypeOK, RowsFine, NEW ref \in Refs, NEW mode, NEW quote \in Quotes, NEW amount \in Int,
         Names(ref, mode, quote, amount)
  PROVE  LET t == Observed(ref, amount) IN
         /\ t \in Moneys /\ t.ref = ref /\ t.amount = amount /\ ~t.changed
         /\ t \in transfers \/ (t.state = "OBSERVED" /\ \A x \in transfers : x.ref # ref)
<1> DEFINE known == {t \in transfers : t.ref = ref}
<1>1. CASE known = {}
  BY <1>1 DEF Observed, Moneys
<1>2. CASE known # {}
  <2> DEFINE t == CHOOSE x \in known : TRUE
  <2>1. t \in transfers /\ t.ref = ref
    BY <1>2
  <2>2. Observed(ref, amount) =
          IF t.amount = amount THEN t
          ELSE [t EXCEPT !.state = IF @ = "CLAIMED" THEN @ ELSE "REVIEW", !.changed = TRUE]
    BY <1>2 DEF Observed
  <2> HIDE DEF t
  <2>3. t \in Moneys /\ ~t.changed
    BY <2>1 DEF TypeOK, RowsFine
  <2>4. \A i \in instrs : i.version # 0
    BY DEF TypeOK, Instrs
  <2>5. t.amount = amount
    <3>1. CASE mode = "BINANCE"
      <4>1. PICK s \in sessions : ref = <<s.no, 0>> /\ s.quote = quote /\ amount = quote.total
        BY <3>1 DEF Names
      <4>2. PICK q \in sessions : t.ref = <<q.no, 0>> /\ t.amount = q.quote.total
        BY <2>1, <2>4, <4>1 DEF RowsFine
      <4> QED BY <2>1, <4>1, <4>2 DEF RowsFine
    <3>2. CASE mode = "BINANCE_ID"
      BY <2>1, <3>2 DEF Names
    <3> QED BY <3>1, <3>2 DEF Names
  <2> QED BY <2>1, <2>2, <2>3, <2>5
<1> QED BY <1>1, <1>2

\* A row of IncomingTransfer that is made or replaced.
LEMMA StoreKeepsRows ==
  ASSUME TypeOK, RowsFine, NEW r \in Moneys, NEW mode, NEW quote \in Quotes,
         Names(r.ref, mode, quote, r.amount), ~r.changed,
         transfers' = Store(r), UNCHANGED <<sessions, instrs>>
  PROVE  RowsFine' /\ transfers' \in SUBSET Moneys
<1>1. \A t \in transfers' : t = r \/ (t \in transfers /\ t.ref # r.ref)
  BY DEF Store
<1>2. \A t, u \in transfers' : t.ref = u.ref => t = u
  BY <1>1 DEF RowsFine
<1>3. \A t \in transfers' :
        /\ ~t.changed
        /\ \/ \E s \in sessions : t.ref = <<s.no, 0>> /\ t.amount = s.quote.total
           \/ \E i \in instrs, e \in Errors :
                t.ref = <<i.for, i.version>> /\ t.amount = i.quote.total + e
  <2>1. \/ \E s \in sessions : r.ref = <<s.no, 0>> /\ r.amount = s.quote.total
        \/ \E i \in instrs, e \in Errors :
             r.ref = <<i.for, i.version>> /\ r.amount = i.quote.total + e
    BY DEF Names
  <2> QED BY <1>1, <2>1 DEF RowsFine
<1>4. transfers' \in SUBSET Moneys
  BY <1>1 DEF TypeOK
<1> QED BY <1>2, <1>3, <1>4 DEF RowsFine

\* A transfer that is kept for a person, or was seen before.
LEMMA KeptAsideKeeps ==
  ASSUME SessionInv, NEW ref \in Refs, NEW mode, NEW quote \in Quotes,
         NEW amount \in Int, Names(ref, mode, quote, amount),
         LET t == Observed(ref, amount) IN
           transfers' = Store([t EXCEPT !.state = IF @ = "OBSERVED" THEN "REVIEW" ELSE @]),
         UNCHANGED <<orderVars, sessions, instrs, discount, gateway>>,
         work' \in [Workers -> Works],
         \A w \in Workers : work'[w] = work[w] \/ work'[w] = Idle
  PROVE  SessionInv' /\ \A o \in Orders : ClaimedBy(o)' = ClaimedBy(o)
<1> USE DEF SessionInv
<1>1. PICK t : t = Observed(ref, amount)
  OBVIOUS
<1>2. /\ t \in Moneys /\ t.ref = ref /\ t.amount = amount /\ ~t.changed
      /\ t \in transfers \/ (t.state = "OBSERVED" /\ \A x \in transfers : x.ref # ref)
  BY <1>1, SeenAlike
<1>3. PICK r : r = [t EXCEPT !.state = IF @ = "OBSERVED" THEN "REVIEW" ELSE @]
  OBVIOUS
<1>4. /\ r \in Moneys /\ r.ref = ref /\ r.amount = amount /\ ~r.changed
      /\ transfers' = Store(r)
      /\ r.state = "CLAIMED" => r = t /\ t \in transfers
      /\ t.state = "CLAIMED" => r = t
  BY <1>1, <1>2, <1>3 DEF Moneys
<1>5. UNCHANGED <<status, invoice, pay, sessions, instrs, discount, gateway>>
  BY DEF orderVars
<1>6. RowsFine' /\ TypeOK'
  BY <1>4, <1>5, StoreKeepsRows DEF TypeOK
<1>7. VersionsPast' /\ GatewayTold' /\ TermsAgree' /\ OrderLimitHolds'
  BY <1>5, TermsFrame, LimitFrame DEF VersionsPast, GatewayTold
<1>8. \A u : (u \in transfers' /\ u.state = "CLAIMED") <=> (u \in transfers /\ u.state = "CLAIMED")
  <2>1. ASSUME NEW u \in transfers, u.state = "CLAIMED" PROVE u \in transfers'
    <3>1. CASE u.ref = ref
      <4>1. t \in transfers
        BY <1>2, <3>1
      <4>2. u = t
        BY <1>2, <3>1, <4>1 DEF RowsFine
      <4> QED BY <1>4, <2>1, <4>2 DEF Store
    <3>2. CASE u.ref # ref
      BY <1>4, <3>2 DEF Store
    <3> QED BY <3>1, <3>2
  <2> QED BY <1>4, <2>1 DEF Store
<1>9. \A o \in Orders : ClaimedBy(o)' = ClaimedBy(o)
  BY <1>8 DEF ClaimedBy
<1>10. MoneyFine'
  <2>1. ASSUME NEW u \in transfers', u.state = "CLAIMED" PROVE ClaimFine(u)'
    <3>1. ClaimFine(u)
      BY <1>8, <2>1 DEF MoneyFine
    <3> QED BY <1>5, <3>1 DEF ClaimFine, Exact, TermsFit, InstrsOf
  <2>2. \A u, v \in transfers' : u.state = "CLAIMED" /\ v.state = "CLAIMED" /\ u.for = v.for => u = v
    BY <1>8 DEF MoneyFine
  <2> QED BY <1>5, <1>9, <2>1, <2>2 DEF MoneyFine
<1>11. WorkFine'
  BY <1>5, WorkFrame
<1> QED BY <1>6, <1>7, <1>9, <1>10, <1>11

\* A transfer that pays for the order.
LEMMA ClaimKeeps ==
  ASSUME SessionInv, NEW o \in Orders, NEW ref \in Refs, NEW mode, NEW quote \in Quotes,
         NEW amount \in Int, NEW found \in BOOLEAN, found <=> amount = quote.total,
         Names(ref, mode, quote, amount), ClaimedBy(o) = {}, status[o] # "PAID",
         LET t == Observed(ref, amount) IN
           /\ t.state = "OBSERVED"
           /\ transfers' = Store([t EXCEPT !.state = "CLAIMED", !.for = o]),
         status' = [status EXCEPT ![o] = "PAID"],
         invoice' = [invoice EXCEPT ![o] = IF found THEN Restored(o, quote) ELSE @],
         pay' = [pay EXCEPT ![o].status = "SUCCESS",
                            ![o].mode   = IF found THEN mode ELSE @,
                            ![o].amount = IF found THEN quote.total ELSE @,
                            ![o].no  = IF mode = "BINANCE" THEN ref[1] ELSE @,
                            ![o].ref = IF mode = "BINANCE" THEN @ ELSE ref],
         UNCHANGED <<sessions, instrs, discount, gateway>>,
         work' \in [Workers -> Works],
         \A w \in Workers : work'[w] = work[w] \/ work'[w] = Idle
  PROVE  /\ SessionInv'
         /\ \E r \in Moneys : r.ref = ref /\ ClaimedBy(o)' = {r}
         /\ \A p \in Orders \ {o} : ClaimedBy(p)' = ClaimedBy(p)
         /\ status'[o] = "PAID" /\ \A p \in Orders \ {o} : status'[p] = status[p]
         /\ \A u \in transfers : u.state = "CLAIMED" => u.ref # ref
<1> USE DEF SessionInv
<1>1. PICK t : t = Observed(ref, amount)
  OBVIOUS
<1>2. /\ t \in Moneys /\ t.ref = ref /\ t.amount = amount /\ ~t.changed
      /\ t \in transfers \/ (t.state = "OBSERVED" /\ \A x \in transfers : x.ref # ref)
      /\ t.state = "OBSERVED"
  BY <1>1, SeenAlike
<1>3. PICK r : r = [t EXCEPT !.state = "CLAIMED", !.for = o]
  OBVIOUS
<1>4. /\ r \in Moneys /\ r.ref = ref /\ r.amount = amount /\ ~r.changed
      /\ r.state = "CLAIMED" /\ r.for = o /\ transfers' = Store(r)
  BY <1>1, <1>2, <1>3 DEF Moneys
<1>5. invoice[o] \in Quotes /\ pay[o] \in Pays
  BY DEF TypeOK
<1>6. Restored(o, quote) = quote /\ ref # None
  BY <1>5, RestoredIsQuote, SessionAssumption DEF Refs
<1> DEFINE row == [pay[o] EXCEPT !.status = "SUCCESS",
                                 !.mode   = IF found THEN mode ELSE @,
                                 !.amount = IF found THEN quote.total ELSE @,
                                 !.no  = IF mode = "BINANCE" THEN ref[1] ELSE @,
                                 !.ref = IF mode = "BINANCE" THEN @ ELSE ref]
<1>7. /\ mode \in {"BINANCE", "BINANCE_ID"}
      /\ mode = "BINANCE" => ref[1] \in TradeNos
      /\ mode = "BINANCE_ID" => ref \in Orders \X (1..MaxVersion)
      /\ mode = "BINANCE" => found
  BY DEF Names, TypeOK, Sessions, Instrs
<1>8. /\ row \in Pays /\ row.version = pay[o].version
      /\ row.mode # "MOCK" \/ row.ref # None
      /\ ~found => row.mode = pay[o].mode /\ row.amount = pay[o].amount /\ row.no = pay[o].no
  <2>1. quote.total \in Int
    BY DEF Quotes
  <2> QED BY <1>5, <1>6, <1>7, <2>1 DEF Pays
<1>9. pay' = [pay EXCEPT ![o] = row]
  BY DEF TypeOK
<1> HIDE DEF row
<1>10. /\ \A p \in Orders : pay'[p].version = pay[p].version
       /\ pay'[o].mode # "MOCK" \/ pay'[o].ref # None
       /\ status'[o] = "PAID" /\ invoice'[o] = IF found THEN quote ELSE invoice[o]
       /\ ~found => /\ pay'[o].mode = pay[o].mode /\ pay'[o].amount = pay[o].amount
                    /\ pay'[o].no = pay[o].no
       /\ \A p \in Orders \ {o} :
            status'[p] = status[p] /\ invoice'[p] = invoice[p] /\ pay'[p] = pay[p]
  BY <1>6, <1>7, <1>8, <1>9 DEF TypeOK
<1>11. RowsFine' /\ TypeOK'
  <2>1. RowsFine' /\ transfers' \in SUBSET Moneys
    BY <1>4, StoreKeepsRows
  <2>2. invoice' \in [Orders -> Quotes] /\ status' \in [Orders -> {"PENDING", "PAID", "EXPIRED", "CANCELLED"}]
    BY <1>6 DEF TypeOK
  <2>3. pay' \in [Orders -> Pays]
    <3>1. pay \in [Orders -> Pays]
      BY DEF TypeOK
    <3> HIDE DEF SessionInv
    <3> QED BY <1>8, <1>9, <3>1, Zenon
  <2> QED BY <2>1, <2>2, <2>3 DEF TypeOK
<1>12. VersionsPast' /\ GatewayTold' /\ OrderLimitHolds'
  BY <1>10, LimitFrame DEF VersionsPast, GatewayTold, TypeOK, Instrs
<1>13. TermsAgree'
  BY <1>10, TermsFrame
<1>14. \A u \in transfers : u.state = "CLAIMED" => u.ref # ref
  BY <1>2 DEF RowsFine
<1>15. \A u : (u \in transfers' /\ u.state = "CLAIMED")
                <=> (u = r \/ (u \in transfers /\ u.state = "CLAIMED"))
  BY <1>14, <1>4 DEF Store
<1>16. \A u \in transfers : u.state = "CLAIMED" => u.for \in Orders \ {o}
  BY DEF MoneyFine, ClaimFine
<1>17. /\ ClaimedBy(o)' = {r}
       /\ \A p \in Orders \ {o} : ClaimedBy(p)' = ClaimedBy(p)
  BY <1>4, <1>15, <1>16 DEF ClaimedBy
<1>18. MoneyFine'
  <2>1. ASSUME NEW u \in transfers', u.state = "CLAIMED" PROVE ClaimFine(u)'
    <3>1. CASE u = r
      <4>1. Exact(r)' <=> found
        <5>1. Exact(r) <=> found
          BY <1>4, ExactIsFound
        <5> QED BY <5>1 DEF Exact
      <4>2. found => invoice'[o].total = r.amount
        <5> HIDE DEF SessionInv
        <5> QED BY <1>4, <1>10
      <4>3. ~found => TermsFit(o)'
        <5>1. TermsFit(o) /\ InstrsOf(o)' = InstrsOf(o)
          BY DEF TermsAgree, InstrsOf
        <5> QED BY <1>10, <5>1, FitFrame
      <4> HIDE DEF SessionInv
      <4> QED BY <1>4, <1>10, <3>1, <4>1, <4>2, <4>3 DEF ClaimFine
    <3>2. CASE u # r
      <4>1. ClaimFine(u) /\ u.for \in Orders \ {o}
        BY <1>15, <1>16, <2>1, <3>2 DEF MoneyFine
      <4>2. (Exact(u)' <=> Exact(u)) /\ InstrsOf(u.for)' = InstrsOf(u.for)
        BY DEF Exact, InstrsOf
      <4>3. status[u.for] = "PAID"
        BY <4>1 DEF ClaimFine
      <4> HIDE DEF SessionInv
      <4> QED BY <1>10, <4>1, <4>2, <4>3, ClaimFrame
    <3> QED BY <3>1, <3>2
  <2>2. \A u, v \in transfers' : u.state = "CLAIMED" /\ v.state = "CLAIMED" /\ u.for = v.for => u = v
    <3> SUFFICES ASSUME NEW u \in transfers', NEW v \in transfers',
                        u.state = "CLAIMED", v.state = "CLAIMED", u.for = v.for
                 PROVE  u = v
      OBVIOUS
    <3>1. (u = r \/ u \in transfers) /\ (v = r \/ v \in transfers)
      BY <1>15
    <3>2. r.for = o
      BY <1>4
    <3>3. CASE u = r \/ v = r
      <4> HIDE DEF SessionInv
      <4> QED BY <1>16, <3>1, <3>2, <3>3
    <3>4. CASE u # r /\ v # r
      BY <3>1, <3>4 DEF MoneyFine
    <3> QED BY <3>3, <3>4
  <2>3. \A p \in Orders : status'[p] = "PAID" /\ ~(pay'[p].mode = "MOCK" /\ pay'[p].ref = None)
                           => ClaimedBy(p)' # {}
    BY <1>10, <1>17 DEF MoneyFine
  <2>4. \A p \in Orders : status'[p] # "PAID" => pay'[p].ref = None
    BY <1>10 DEF MoneyFine
  <2> QED BY <2>1, <2>2, <2>3, <2>4 DEF MoneyFine
<1>19. WorkFine'
  BY <1>10, WorkFrame
<1> QED BY <1>14, <1>4, <1>10, <1>11, <1>12, <1>13, <1>17, <1>18, <1>19

LEMMA SettleKeeps ==
  ASSUME SessionInv, NEW o \in Orders, NEW ref \in Refs, NEW mode, NEW quote \in Quotes,
         NEW amount \in Int, NEW found \in BOOLEAN, found <=> amount = quote.total,
         Names(ref, mode, quote, amount), Settle(o, ref, amount, mode, quote, found),
         work' \in [Workers -> Works],
         \A w \in Workers : work'[w] = work[w] \/ work'[w] = Idle
  PROVE  SessionInv' /\ MoneyStep
<1>1. UNCHANGED <<sessions, instrs, discount, gateway>>
  BY DEF Settle
<1>2. CASE Acceptable(o, Observed(ref, amount))
  <2>1. /\ SessionInv'
        /\ \E r \in Moneys : r.ref = ref /\ ClaimedBy(o)' = {r}
        /\ \A p \in Orders \ {o} : ClaimedBy(p)' = ClaimedBy(p)
        /\ status'[o] = "PAID" /\ \A p \in Orders \ {o} : status'[p] = status[p]
        /\ \A u \in transfers : u.state = "CLAIMED" => u.ref # ref
    BY <1>1, <1>2, ClaimKeeps DEF Settle, Acceptable
  <2>2. PICK r : r.ref = ref /\ ClaimedBy(o)' = {r}
    BY <2>1
  <2>3. First({r}) = r
    BY DEF First
  <2>4. PaidBy(o)' = ref
    BY <2>1, <2>2, <2>3 DEF PaidBy
  <2>5. \A p \in Orders \ {o} : PaidBy(p)' = PaidBy(p)
    <3> SUFFICES ASSUME NEW p \in Orders \ {o} PROVE PaidBy(p)' = PaidBy(p)
      OBVIOUS
    <3>1. PICK S : S = ClaimedBy(p)
      OBVIOUS
    <3>2. ClaimedBy(p)' = S
      BY <2>1, <3>1
    <3> QED BY <2>1, <3>1, <3>2 DEF PaidBy, MockMoney
  <2>6. ref \in AllMoney /\ \A p \in Orders : ref # MockMoney(p)
    BY Numbers DEF Refs, AllMoney, MockMoney
  <2>7. \A p \in Orders : PaidNow[p] # ref
    BY <2>1, <2>6, NewMoney
  <2>8. PaidNow[o] = None
    BY <1>2 DEF Acceptable, PaidNow, PaidBy
  <2>9. PaidNow' = [PaidNow EXCEPT ![o] = ref]
    BY <2>4, <2>5 DEF PaidNow
  <2> QED BY <2>1, <2>6, <2>7, <2>8, <2>9 DEF MoneyStep, Received
<1>3. CASE ~Acceptable(o, Observed(ref, amount))
  <2>1. UNCHANGED orderVars /\ SessionInv' /\ \A p \in Orders : ClaimedBy(p)' = ClaimedBy(p)
    BY <1>1, <1>3, KeptAsideKeeps DEF Settle
  <2> QED BY <2>1, NothingPaid DEF orderVars
<1> QED BY <1>2, <1>3

LEMMA WebhookPaidKeeps ==
  ASSUME SessionInv, NEW s \in sessions, WebhookPaid(s)
  PROVE  SessionInv' /\ MoneyStep
<1> USE DEF SessionInv
<1>1. PICK q \in sessions : q = s
  OBVIOUS
<1>2. q.for \in Orders /\ <<q.no, 0>> \in Refs /\ q.quote \in Quotes
  BY DEF TypeOK, Sessions, Refs
<1>3. Names(<<q.no, 0>>, "BINANCE", q.quote, q.quote.total) /\ q.quote.total \in Int
  BY <1>2 DEF Names, Quotes
<1>4. Settle(q.for, <<q.no, 0>>, q.quote.total, "BINANCE", q.quote, TRUE)
  BY <1>1 DEF WebhookPaid
<1>5. work' \in [Workers -> Works] /\ \A w \in Workers : work'[w] = work[w] \/ work'[w] = Idle
  BY DEF WebhookPaid, TypeOK
<1> QED BY <1>2, <1>3, <1>4, <1>5, SettleKeeps

LEMMA TransferArrivesKeeps ==
  ASSUME SessionInv, NEW i \in instrs, NEW e \in Errors, TransferArrives(i, e)
  PROVE  SessionInv' /\ MoneyStep
<1> USE DEF SessionInv
<1>1. i.for \in Orders /\ <<i.for, i.version>> \in Refs /\ i.quote \in Quotes
  BY DEF TypeOK, Instrs, Refs
<1>2. PICK amount : amount = i.quote.total + e
  OBVIOUS
<1>3. PICK found \in BOOLEAN : found = (e = 0)
  OBVIOUS
<1>4. amount \in Int /\ (found <=> amount = i.quote.total)
  <2>1. PICK n \in Int : n = i.quote.total
    BY <1>1 DEF Quotes
  <2>2. e \in Int
    BY Numbers
  <2>3. n + e \in Int /\ (e = 0 <=> n + e = n)
    BY <2>2
  <2>4. amount = n + e
    BY <1>2, <2>1
  <2> HIDE DEF SessionInv
  <2> QED BY <1>3, <2>1, <2>3, <2>4
<1>5. Names(<<i.for, i.version>>, "BINANCE_ID", i.quote, amount)
  BY <1>2 DEF Names, TransferArrives
<1>6. Settle(i.for, <<i.for, i.version>>, amount, "BINANCE_ID", i.quote, found)
  BY <1>2, <1>3 DEF TransferArrives
<1>7. work' \in [Workers -> Works] /\ \A w \in Workers : work'[w] = work[w] \/ work'[w] = Idle
  BY DEF TransferArrives, TypeOK
<1> QED BY <1>1, <1>4, <1>5, <1>6, <1>7, SettleKeeps

\* The amount a check has noted is the session's: both are recorded at once,
\* and one number has one session.
LEMMA CheckFindsPaidKeeps ==
  ASSUME SessionInv, NEW w \in Workers, CheckFindsPaid(w)
  PROVE  SessionInv' /\ MoneyStep
<1> USE DEF SessionInv
<1>1. work[w].step = "ask" /\ work[w] \in Reports
  BY WorkTyped DEF CheckFindsPaid
<1>2. PICK s \in sessions :
        /\ s.no = work[w].no
        /\ Settle(work[w].for, <<s.no, 0>>, work[w].quote.total, "BINANCE", s.quote, TRUE)
  BY DEF CheckFindsPaid
<1>3. [no |-> work[w].no, for |-> work[w].for, quote |-> work[w].quote] \in sessions
  BY <1>1 DEF WorkFine, Fine, NotesRecorded, Recorded
<1>4. s = [no |-> work[w].no, for |-> work[w].for, quote |-> work[w].quote]
  BY <1>2, <1>3 DEF RowsFine
<1>5. s.for = work[w].for /\ s.quote = work[w].quote
  BY <1>4
<1>6. s.for \in Orders /\ <<s.no, 0>> \in Refs /\ s.quote \in Quotes
  BY DEF TypeOK, Sessions, Refs
<1>7. Names(<<s.no, 0>>, "BINANCE", s.quote, s.quote.total) /\ s.quote.total \in Int
  BY <1>6 DEF Names, Quotes
<1>8. Settle(s.for, <<s.no, 0>>, s.quote.total, "BINANCE", s.quote, TRUE)
  BY <1>2, <1>5
<1>9. work' \in [Workers -> Works] /\ \A x \in Workers : work'[x] = work[x] \/ work'[x] = Idle
  BY WorkIdles DEF CheckFindsPaid
<1> QED BY <1>6, <1>7, <1>8, <1>9, SettleKeeps

-----------------------------------------------------------------------------
(* Every behaviour.                                                        *)

LEMMA InitKeeps == Init => SessionInv
<1> SUFFICES ASSUME Init PROVE SessionInv
  OBVIOUS
<1>1. sessions = {} /\ instrs = {} /\ transfers = {}
  BY DEF Init
<1>2. TypeOK
  <2>1. [total |-> Base, discount |-> Coupon, payDiscount |-> 0, percent |-> 0] \in Quotes
    BY Numbers DEF Quotes
  <2>2. [status |-> "PENDING", mode |-> "INITIALIZING", version |-> 0, no |-> None,
         amount |-> Base, ref |-> None] \in Pays
    BY Numbers DEF Pays
  <2>3. status \in [Orders -> {"PENDING", "PAID", "EXPIRED", "CANCELLED"}]
    BY DEF Init
  <2>4. invoice \in [Orders -> Quotes] /\ pay \in [Orders -> Pays]
    BY <2>1, <2>2 DEF Init
  <2>5. IsFiniteSet(instrs)
    BY <1>1, FS_EmptySet
  <2>6. gateway \in [TradeNos -> {"unknown", "open", "paid", "closed"}]
    BY DEF Init
  <2>7. work \in [Workers -> Works] /\ discount \in [Methods -> Percents \cup {0}]
    BY IdleIsFine DEF Init
  <2> QED BY <1>1, <2>3, <2>4, <2>5, <2>6, <2>7 DEF TypeOK
<1>3. RowsFine /\ VersionsPast
  BY <1>1 DEF RowsFine, VersionsPast
<1>4. GatewayTold
  BY DEF Init, GatewayTold
<1>5. MoneyFine
  BY <1>1 DEF Init, MoneyFine
<1>6. WorkFine
  BY IdleIsFine DEF Init, WorkFine
<1>7. TermsAgree
  BY DEF Init, TermsAgree, TermsFit
<1>8. OrderLimitHolds
  <2>1. \A o \in Orders : InstrsOf(o) = {}
    BY <1>1 DEF InstrsOf
  <2> QED BY <2>1, FS_EmptySet, Numbers DEF OrderLimitHolds
<1> QED BY <1>2, <1>3, <1>4, <1>5, <1>6, <1>7, <1>8 DEF SessionInv

LEMMA NextKeeps ==
  ASSUME SessionInv, [Next]_vars
  PROVE  SessionInv'
<1>1. CASE UNCHANGED vars
  BY <1>1, QuietKeeps DEF SessionInv, TypeOK, vars, orderVars, rowVars
<1>2. ASSUME NEW w \in Workers, Change(w) PROVE SessionInv'
  BY <1>2, PrepareKeeps, RegisterKeeps, GatewayOpensKeeps, PersistKeeps, AbandonKeeps DEF Change
<1>3. ASSUME NEW w \in Workers, Report(w) PROVE SessionInv'
  BY <1>3, StartCheckKeeps, WebhookClosedKeeps, CheckFindsPaidKeeps, CheckFindsClosedKeeps,
     ExpireOrderKeeps DEF Report
<1>4. ASSUME NEW s \in sessions, WebhookPaid(s) PROVE SessionInv'
  BY <1>4, WebhookPaidKeeps
<1>5. ASSUME NEW i \in instrs, NEW e \in Errors, TransferArrives(i, e) PROVE SessionInv'
  BY <1>5, TransferArrivesKeeps
<1>6. ASSUME NEW no \in TradeNos, PayAtGateway(no) \/ CloseAtGateway(no) PROVE SessionInv'
  BY <1>6, GatewayMovesKeeps
<1>7. ASSUME NEW o \in Orders, ConfirmMock(o) \/ CloseOrder(o) PROVE SessionInv'
  BY <1>7, ConfirmMockKeeps, CloseOrderKeeps
<1>8. ASSUME NEW method \in Methods, NEW p \in Percents, SetDiscount(method, p) PROVE SessionInv'
  BY <1>8, SetDiscountKeeps
<1> QED BY <1>1, <1>2, <1>3, <1>4, <1>5, <1>6, <1>7, <1>8 DEF Next

\* Every reachable state satisfies the inductive invariant.
THEOREM SessionKept == Spec => []SessionInv
<1>1. Init => SessionInv
  BY InitKeeps
<1>2. SessionInv /\ [Next]_vars => SessionInv'
  BY NextKeeps
<1> QED BY <1>1, <1>2, PTL DEF Spec

\* Until an order is paid, the page, the payment row and the gateway's session
\* name one amount, however changes of method overlap (applyPaymentMethod).
THEOREM TermsStayTogether == Spec => []TermsAgree
<1>1. SessionInv => TermsAgree
  BY DEF SessionInv
<1> QED BY <1>1, SessionKept, PTL

\* The invoice adds up; an order that is paid has one transfer and shows its
\* price if it was exact, or else the terms of the page, and an order that is
\* not paid has no transfer (paymentQuote, settleOrderTransfer).
THEOREM InvoiceStaysRight == Spec => []InvoiceMatchesMoney
<1>1. SessionInv => InvoiceMatchesMoney
  <2> DEFINE ByMoney(o) == status[o] = "PAID" /\ ~(pay[o].mode = "MOCK" /\ pay[o].ref = None)
  <2> SUFFICES ASSUME SessionInv, NEW o \in Orders
               PROVE  /\ invoice[o].total + invoice[o].payDiscount = Base
                      /\ invoice[o].discount - invoice[o].payDiscount = Coupon
                      /\ \A t \in ClaimedBy(o) :
                           /\ status[o] = "PAID"
                           /\ IF Exact(t) THEN invoice[o].total = t.amount ELSE TermsFit(o)
                      /\ Cardinality(ClaimedBy(o)) = IF ByMoney(o) THEN 1 ELSE 0
    BY DEF InvoiceMatchesMoney
  <2> USE DEF SessionInv
  <2>1. invoice[o] \in Quotes
    BY DEF TypeOK
  <2>2. \A t \in ClaimedBy(o) :
          ByMoney(o) /\ IF Exact(t) THEN invoice[o].total = t.amount ELSE TermsFit(o)
    BY DEF MoneyFine, ClaimFine, ClaimedBy
  <2>3. CASE ByMoney(o)
    <3>1. PICK t : t \in ClaimedBy(o)
      BY <2>3 DEF MoneyFine
    <3>2. ClaimedBy(o) = {t}
      BY <3>1 DEF MoneyFine, ClaimedBy
    <3>3. Cardinality(ClaimedBy(o)) = 1
      BY <3>2, FS_Singleton
    <3> QED BY <2>1, <2>2, <2>3, <3>3 DEF Quotes
  <2>4. CASE ~ByMoney(o)
    <3>1. ClaimedBy(o) = {}
      BY <2>2, <2>4
    <3>2. Cardinality(ClaimedBy(o)) = 0
      BY <3>1, FS_EmptySet
    <3> QED BY <2>1, <2>2, <2>4, <3>2 DEF Quotes
  <2> QED BY <2>3, <2>4
<1> QED BY <1>1, SessionKept, PTL

\* Webhook and inquiry describe one payment alike (observeTransfer).
THEOREM NoFalseAlarms == Spec => []NoFalseAlarm
<1>1. SessionInv => NoFalseAlarm
  BY DEF SessionInv, RowsFine, NoFalseAlarm
<1> QED BY <1>1, SessionKept, PTL

\* The limit of instructions of an order holds although it is counted in one
\* transaction and used up in another (assertInstructionCapacity).
THEOREM LimitKept == Spec => []OrderLimitHolds
<1>1. SessionInv => OrderLimitHolds
  BY DEF SessionInv
<1> QED BY <1>1, SessionKept, PTL

\* An order that expires because a worker stops expires by its report.
LEMMA OnlyItsReport ==
  ASSUME SessionInv, [Next]_vars, NEW w \in Workers, NEW o \in Orders,
         work[w].step = "expire", work'[w] = Idle, status[o] = "PENDING", status'[o] = "EXPIRED"
  PROVE  ExpireOrder(w)
<1>1. work[w] # Idle /\ work'[w] # work[w]
  BY DEF Idle
<1>2. status' # status
  OBVIOUS
<1>3. status \in [Orders -> {"PENDING", "PAID", "EXPIRED", "CANCELLED"}] /\ work \in [Workers -> Works]
  BY DEF SessionInv, TypeOK
<1>4. \A x \in Workers : ~Change(x)
  BY <1>2 DEF Change, Prepare, Register, GatewayOpens, Persist, Abandon, orderVars
<1>5. \A p, ref, amount, mode, quote, found : ~Settle(p, ref, amount, mode, quote, found)
  <2> SUFFICES ASSUME NEW p, NEW ref, NEW amount, NEW mode, NEW quote, NEW found,
                      Settle(p, ref, amount, mode, quote, found)
               PROVE  FALSE
    OBVIOUS
  <2>1. UNCHANGED status \/ status' = [status EXCEPT ![p] = "PAID"]
    BY DEF Settle, orderVars
  <2> QED BY <1>3, <2>1
<1>6. ASSUME NEW x \in Workers, Report(x) PROVE ExpireOrder(w)
  <2>1. ExpireOrder(x)
    BY <1>2, <1>5, <1>6 DEF Report, StartCheck, WebhookClosed, CheckFindsPaid, CheckFindsClosed, orderVars
  <2>2. CASE x = w
    BY <2>1, <2>2
  <2>3. CASE x # w
    BY <1>1, <1>3, <2>1, <2>3 DEF ExpireOrder
  <2> QED BY <2>2, <2>3
<1>7. ~UNCHANGED work
  BY <1>1
<1>8. ~UNCHANGED vars
  BY <1>2 DEF vars
<1>9. \A s \in sessions : ~WebhookPaid(s)
  BY <1>5 DEF WebhookPaid
<1>10. \A i \in instrs, e \in Errors : ~TransferArrives(i, e)
  BY <1>5 DEF TransferArrives
<1>11. \A no \in TradeNos : ~PayAtGateway(no) /\ ~CloseAtGateway(no)
  BY <1>7 DEF PayAtGateway, CloseAtGateway
<1>12. \A p \in Orders : ~ConfirmMock(p) /\ ~CloseOrder(p)
  BY <1>7 DEF ConfirmMock, CloseOrder
<1>13. \A method \in Methods, p \in Percents : ~SetDiscount(method, p)
  BY <1>7 DEF SetDiscount
<1> QED BY <1>4, <1>6, <1>8, <1>9, <1>10, <1>11, <1>12, <1>13 DEF Next

\* A report that a session has closed, acted upon late, ends no order whose
\* present session is another, open or paid (closePendingOrder).
THEOREM LiveSessionStays == Spec => LiveSessionKept
<1>1. ASSUME SessionInv, [Next]_vars, NEW w \in Workers, NEW o \in Orders,
             work[w].step = "expire", work'[w] = Idle, status[o] = "PENDING", status'[o] = "EXPIRED"
      PROVE  pay[o].mode = "BINANCE" /\ gateway[pay[o].no] = "closed"
  <2>1. ExpireOrder(w)
    BY <1>1, OnlyItsReport
  <2>2. status \in [Orders -> {"PENDING", "PAID", "EXPIRED", "CANCELLED"}]
    BY <1>1 DEF SessionInv, TypeOK
  <2>3. o = work[w].for /\ SameSession(w)
    BY <1>1, <2>1, <2>2 DEF ExpireOrder
  <2>4. gateway[work[w].no] = "closed"
    BY <1>1 DEF SessionInv, WorkFine, Fine, GatewayFine
  <2> QED BY <2>3, <2>4 DEF SameSession
<1>2. SessionInv /\ [Next]_vars =>
        \A w \in Workers, o \in Orders :
          (work[w].step = "expire" /\ work'[w] = Idle /\ status[o] = "PENDING"
             /\ status'[o] = "EXPIRED")
            => pay[o].mode = "BINANCE" /\ gateway[pay[o].no] = "closed"
  BY <1>1
<1> QED BY <1>2, SessionKept, PTL DEF Spec, LiveSessionKept

-----------------------------------------------------------------------------
(* PaidOnce.                                                               *)

LEMMA ConfirmMockPays ==
  ASSUME SessionInv, NEW o \in Orders, ConfirmMock(o)
  PROVE  MoneyStep
<1>1. ClaimedBy(o) = {}
  BY DEF SessionInv, MoneyFine, ClaimFine, ClaimedBy, ConfirmMock
<1>2. \A p \in Orders : ClaimedBy(p)' = ClaimedBy(p)
  BY DEF ConfirmMock, ClaimedBy, rowVars
<1>3. status'[o] = "PAID" /\ \A p \in Orders \ {o} : status'[p] = status[p]
  BY DEF ConfirmMock, SessionInv, TypeOK
<1>4. PaidBy(o)' = MockMoney(o)
  BY <1>1, <1>2, <1>3 DEF PaidBy, MockMoney
<1>5. ASSUME NEW p \in Orders \ {o} PROVE PaidBy(p)' = PaidBy(p)
  <2>1. PICK S : S = ClaimedBy(p)
    OBVIOUS
  <2>2. ClaimedBy(p)' = S
    BY <1>2, <2>1
  <2> QED BY <1>3, <2>1, <2>2 DEF PaidBy, MockMoney
<1>6. PaidNow' = [PaidNow EXCEPT ![o] = MockMoney(o)]
  BY <1>4, <1>5 DEF PaidNow
<1>7. MockMoney(o) \in AllMoney
  BY Numbers DEF MockMoney, AllMoney
<1>8. \A u \in transfers : u.ref # MockMoney(o)
  <2>1. \A u \in transfers : u.ref \in Refs
    BY DEF SessionInv, TypeOK, Moneys
  <2> QED BY <2>1 DEF Refs, MockMoney
<1>9. \A p \in Orders : status[p] = "PAID" => MockMoney(o) # MockMoney(p)
  BY DEF ConfirmMock, MockMoney
<1>10. \A p \in Orders : PaidNow[p] # MockMoney(o)
  BY <1>7, <1>8, <1>9, NewMoney
<1>11. PaidNow[o] = None
  BY DEF PaidNow, PaidBy, ConfirmMock
<1> QED BY <1>6, <1>7, <1>10, <1>11 DEF MoneyStep, Received

LEMMA OtherStepsPayNothing ==
  ASSUME SessionInv, UNCHANGED transfers,
         UNCHANGED status \/ \E o \in Orders, y \in {"EXPIRED", "CANCELLED"} :
                               status[o] # "PAID" /\ status' = [status EXCEPT ![o] = y]
  PROVE  MoneyStep
<1>1. \A o \in Orders : status'[o] = "PAID" <=> status[o] = "PAID"
  BY DEF SessionInv, TypeOK
<1> QED BY <1>1, NothingPaid DEF ClaimedBy

LEMMA StepPays ==
  ASSUME SessionInv, [Next]_vars
  PROVE  MoneyStep
<1>1. CASE UNCHANGED vars
  BY <1>1, OtherStepsPayNothing DEF vars
<1>2. ASSUME NEW w \in Workers, Change(w) PROVE MoneyStep
  <2>1. UNCHANGED <<status, transfers>>
    BY <1>2 DEF Change, Prepare, Register, GatewayOpens, Persist, Abandon, orderVars, rowVars
  <2> QED BY <2>1, OtherStepsPayNothing
<1>3. ASSUME NEW w \in Workers, ExpireOrder(w) PROVE MoneyStep
  <2>1. work[w].for \in Orders
    BY <1>3, WorkTyped DEF SessionInv, ExpireOrder, Reports
  <2> QED BY <1>3, <2>1, OtherStepsPayNothing DEF ExpireOrder, rowVars
<1>4. ASSUME NEW w \in Workers, Report(w), ~ExpireOrder(w), ~CheckFindsPaid(w) PROVE MoneyStep
  <2>1. UNCHANGED <<status, transfers>>
    BY <1>4 DEF Report, StartCheck, WebhookClosed, CheckFindsClosed, orderVars, rowVars
  <2> QED BY <2>1, OtherStepsPayNothing
<1>5. ASSUME NEW no \in TradeNos, PayAtGateway(no) \/ CloseAtGateway(no) PROVE MoneyStep
  BY <1>5, OtherStepsPayNothing DEF PayAtGateway, CloseAtGateway, orderVars, rowVars
<1>6. ASSUME NEW o \in Orders, CloseOrder(o) PROVE MoneyStep
  <2>1. PICK outcome \in {<<"EXPIRED", "EXPIRED">>, <<"CANCELLED", "FAILED">>} :
          status[o] = "PENDING" /\ status' = [status EXCEPT ![o] = outcome[1]]
    BY <1>6 DEF CloseOrder
  <2>2. outcome[1] \in {"EXPIRED", "CANCELLED"} /\ UNCHANGED transfers
    BY <1>6 DEF CloseOrder, rowVars
  <2> QED BY <2>1, <2>2, OtherStepsPayNothing
<1>7. ASSUME NEW method \in Methods, NEW p \in Percents, SetDiscount(method, p) PROVE MoneyStep
  BY <1>7, OtherStepsPayNothing DEF SetDiscount, orderVars, rowVars
<1> QED BY <1>1, <1>2, <1>3, <1>4, <1>5, <1>6, <1>7, CheckFindsPaidKeeps, WebhookPaidKeeps,
           TransferArrivesKeeps, ConfirmMockPays DEF Next

LEMMA PromiseBegins == ASSUME Init PROVE Money!Init
<1>1. [o \in Orders |-> IF status[o] # "PAID" THEN None
                        ELSE IF ClaimedBy(o) = {} THEN MockMoney(o)
                        ELSE (CHOOSE t \in ClaimedBy(o) : TRUE).ref]
        = [x \in Orders \cup {} |-> None]
  BY DEF Init
<1> QED BY <1>1 DEF Money!Init

LEMMA PromiseStep ==
  ASSUME MoneyStep
  PROVE  [Money!Next]_<<PaidNow, [d \in {} |-> 0], [u \in {"customer"} |-> 0]>>
<1>1. CASE \E o \in Orders, t \in AllMoney : Received(o, t)
  <2>1. PICK o \in Orders, t \in AllMoney : Received(o, t)
    BY <1>1
  <2>2. Money!Receive(o, t)
    BY <2>1 DEF Received, PaidNow, PaidBy, First, Money!Receive
  <2> QED BY <2>1, <2>2 DEF Money!Next, AllMoney
<1> QED BY <1>1 DEF MoneyStep

\* Sessions and their reports implement PaidOnce: an order is paid once, for
\* good, by one transfer, and no transfer pays twice (settleOrderTransfer).
THEOREM SessionsKeepPromise == Spec => KeepsMoneyPromise
<1>1. Init => Money!Init
  BY PromiseBegins
<1>2. SessionInv /\ [Next]_vars =>
        [Money!Next]_<<PaidNow, [d \in {} |-> 0], [u \in {"customer"} |-> 0]>>
  BY StepPays, PromiseStep
<1> QED BY <1>1, <1>2, SessionKept, PTL
        DEF Spec, KeepsMoneyPromise, Money!Spec, PaidNow, PaidBy, First
=============================================================================
