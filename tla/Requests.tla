------------------------------ MODULE Requests -------------------------------
(***************************************************************************)
(* Requests that may be repeated: orders and deposits of partners through  *)
(* the API, under an idempotency key, and of customers of the Telegram     *)
(* bot, under the id of the callback.                                      *)
(*                                                                         *)
(* A partner's request runs in one transaction that takes, in this order,  *)
(* the arbitration lock, shared locks of the owner's ApiAccess and ApiKey, *)
(* a shared lock of StoreSetup and the User row, and keeps them until it   *)
(* commits; every step below ends where the next lock is waited for.  The  *)
(* bot looks for an order of its callback first, places one in a           *)
(* transaction that looks again, and chooses a payment method afterwards.  *)
(* Meanwhile keys are made and revoked, access is disabled, customers are  *)
(* locked and the shop closes; a call may die after any step.              *)
(*                                                                         *)
(* Stock, coupons, delivery and gateways are in Fulfillment, Settlement    *)
(* and PaymentSession: here they only make a step fail.  Left out: quotas  *)
(* of requests, and the time at which keys expire.                         *)
(***************************************************************************)
EXTENDS Integers, Sequences, FiniteSets

CONSTANTS
  ApiOrders, ApiDeposits,   \* (owner, idempotency key) of partners' requests
  BotOrders, BotDeposits,   \* callback ids
  Asks,        \* the requests that are made: records of a key and a body
  Users, Owner, Price, Purse,
  Creds,       \* ApiKey rows that may come to exist
  CredOwner,
  Calls,       \* requests that run at the same time
  MaxActive,   \* API_KEY_MAX_ACTIVE
  MaxPending,  \* MAX_PENDING_DEPOSITS_PER_USER
  MaxLooks     \* how often waitForTelegramReplay looks

ApiKeys == ApiOrders \cup ApiDeposits
BotKeys == BotOrders \cup BotDeposits
Deposits == ApiDeposits \cup BotDeposits
Keys == ApiKeys \cup BotKeys

ASSUME RequestsAssumption ==
  /\ ApiKeys \cap BotKeys = {} /\ Deposits \cap (ApiOrders \cup BotOrders) = {}
  /\ \A ask \in Asks : /\ DOMAIN ask = {"key", "body"} /\ ask.key \in Keys
                        /\ ask.body # "none"
  /\ \A a, b \in Asks : a.key \in BotKeys /\ a.key = b.key => a = b
  /\ Owner \in [Keys -> Users] /\ CredOwner \in [Creds -> Users]
  /\ Price \in [Asks -> Nat] /\ Purse \in [Users -> Nat]
  /\ \A ask \in Asks : ask.key \notin ApiOrders => Price[ask] = 0
  /\ MaxActive \in Nat /\ MaxPending \in Nat /\ MaxLooks \in Nat

VARIABLES
  made,     \* rows of Order and Deposit that were created for each key
  receipt,  \* requestHash of ApiOperationReceipt, "none" without a row
  ready,    \* bot orders whose payment method has been set
  pending,  \* deposits that are PENDING and before their deadline
  balance,  \* User.balance
  access,   \* users whose ApiAccess is enabled
  cred,     \* what has become of each ApiKey
  locked,   \* users with lockedAt
  open,     \* the shop has a published revision and is not in maintenance
  call,     \* where each call is
  told      \* outside the shop: the requests that got their answer

rowVars  == <<made, receipt, ready, pending, balance>>
ruleVars == <<access, cred, locked, open>>
vars == <<rowVars, ruleVars, call, told>>

Idle == [step |-> "idle"]
Goes(c, step) == call' = [call EXCEPT ![c].step = step]
Ends(c) == call' = [call EXCEPT ![c] = Idle]
User(c) == Owner[call[c].ask.key]

-----------------------------------------------------------------------------
(* Locks, by the step of their holder.                                     *)

InApi == {"valid", "admitted", "secured"}

\* Mutant: transactions about money do not wait for each other.
NoArbitration == TRUE

ArbitrationFree == \A c \in Calls : call[c].step \notin InApi

\* Shared locks of ApiAccess, and the exclusive one of createKey.
AccessShared(u) == \E c \in Calls : call[c].step \in InApi /\ User(c) = u
AccessHeld(u) == \E c \in Calls : call[c].step = "newkey" /\ call[c].user = u
AccessFree(u) == ~AccessShared(u) /\ ~AccessHeld(u)
UserFree(u) == \A c \in Calls : call[c].step = "secured" => User(c) # u
StoreFree == \A c \in Calls : call[c].step \notin {"admitted", "secured"}

-----------------------------------------------------------------------------
(* A partner's request.                                                    *)

\* ApiKeyGuard: what it has seen may be old when the request is handled.
Authenticate(c, a, ask) ==
  /\ call[c] = Idle /\ ask.key \in ApiKeys
  /\ CredOwner[a] = Owner[ask.key]
  /\ cred[a] = "active" /\ CredOwner[a] \in access \ locked
  /\ call' = [call EXCEPT ![c] = [step |-> "request", ask |-> ask, cred |-> a]]
  /\ UNCHANGED <<rowVars, ruleVars, told>>

Revalidate(c) ==
  /\ call[c].step = "request"
  /\ ArbitrationFree /\ ~AccessHeld(User(c))
  /\ cred[call[c].cred] = "active" /\ User(c) \in access \ locked
  /\ Goes(c, "valid")
  /\ UNCHANGED <<rowVars, ruleVars, told>>

\* A replay gets its answer even while the shop is closed.
Replay(c) ==
  /\ call[c].step = "valid"
  /\ receipt[call[c].ask.key] = call[c].ask.body
  /\ Goes(c, "answer")
  /\ UNCHANGED <<rowVars, ruleVars, told>>

Admit(c) ==
  /\ call[c].step = "valid"
  /\ receipt[call[c].ask.key] = "none"
  /\ open
  /\ Goes(c, "admitted")
  /\ UNCHANGED <<rowVars, ruleVars, told>>

HasRoom(u) == Cardinality({d \in pending : Owner[d] = u}) < MaxPending

\* Mutant: the account is not looked at again under its lock.
SecureUnchecked(c) ==
  /\ call[c].step = "admitted"
  /\ IF call[c].ask.key \in Deposits THEN HasRoom(User(c))
     ELSE balance[User(c)] >= Price[call[c].ask]
  /\ Goes(c, "secured")
  /\ UNCHANGED <<rowVars, ruleVars, told>>

\* payOrderInTransaction or assertDepositCapacity, and the account once more
\* under its lock.
Secure(c) ==
  /\ call[c].step = "admitted"
  /\ User(c) \notin locked
  /\ IF call[c].ask.key \in Deposits THEN HasRoom(User(c))
     ELSE balance[User(c)] >= Price[call[c].ask]
  /\ Goes(c, "secured")
  /\ UNCHANGED <<rowVars, ruleVars, told>>

\* The row that is made for key k, and what it changes.
Create(k, body, price) ==
  /\ made' = [made EXCEPT ![k] = Append(@, body)]
  /\ pending' = IF k \in Deposits THEN pending \cup {k} ELSE pending
  /\ balance' = [balance EXCEPT ![Owner[k]] = @ - price]

\* Mutant: the receipt is written after the purchase has been committed.
CommitFirst(c) ==
  \/ /\ call[c].step = "secured"
     /\ LET ask == call[c].ask IN Create(ask.key, ask.body, Price[ask])
     /\ Goes(c, "receipt")
     /\ UNCHANGED <<receipt, ready, ruleVars, told>>
  \/ /\ call[c].step = "receipt"
     /\ receipt' = [receipt EXCEPT ![call[c].ask.key] = call[c].ask.body]
     /\ Goes(c, "answer")
     /\ UNCHANGED <<made, ready, pending, balance, ruleVars, told>>

\* The order or deposit, the debit and the receipt commit together; receipts
\* are unique.
Commit(c) ==
  /\ call[c].step = "secured"
  /\ LET ask == call[c].ask IN
       /\ receipt[ask.key] = "none"
       /\ receipt' = [receipt EXCEPT ![ask.key] = ask.body]
       /\ Create(ask.key, ask.body, Price[ask])
  /\ Goes(c, "answer")
  /\ UNCHANGED <<ready, ruleVars, told>>

Answer(c) ==
  /\ call[c].step = "answer"
  /\ told' = told \cup {call[c].ask}
  /\ Ends(c)
  /\ UNCHANGED <<rowVars, ruleVars>>

\* A guard fails or there is no stock; the connection or the process is lost.
\* An open transaction rolls back.
Drop(c) ==
  /\ call[c] # Idle
  /\ Ends(c)
  /\ UNCHANGED <<rowVars, ruleVars, told>>

-----------------------------------------------------------------------------
(* A callback of the bot.                                                  *)

Shown(k) == made[k] # <<>> /\ (k \in BotOrders => k \in ready)

\* loadTelegramReplay and loadTelegramDepositReplay: the first look.
TakeCallback(c, ask) ==
  /\ call[c] = Idle /\ ask.key \in BotKeys
  /\ Owner[ask.key] \notin locked
  /\ call' = [call EXCEPT ![c] =
       [step |-> IF Shown(ask.key) THEN "answer" ELSE "place", ask |-> ask]]
  /\ UNCHANGED <<rowVars, ruleVars, told>>

\* The transaction of create or createDeposit, which looks again.
Place(c) ==
  /\ call[c].step = "place" /\ ArbitrationFree
  /\ LET ask == call[c].ask
         k == ask.key IN
     \/ /\ made[k] # <<>>
        /\ call' = [call EXCEPT ![c] = IF k \in BotDeposits
                      THEN [step |-> "answer", ask |-> ask]
                      ELSE [step |-> "wait", ask |-> ask, looks |-> 0]]
        /\ UNCHANGED rowVars
     \/ /\ made[k] = <<>> /\ (k \in BotDeposits => HasRoom(User(c)))
        /\ Create(k, ask.body, 0)
        /\ Goes(c, IF k \in BotDeposits THEN "answer" ELSE "method")
        /\ UNCHANGED <<receipt, ready>>
  /\ UNCHANGED <<ruleVars, told>>

\* applyPaymentMethod, with the first method that is switched on.
ApplyMethod(c) ==
  /\ call[c].step = "method" /\ ArbitrationFree
  /\ ready' = ready \cup {call[c].ask.key}
  /\ Goes(c, "answer")
  /\ UNCHANGED <<made, receipt, pending, balance, ruleVars, told>>

\* waitForTelegramReplay; after the last look the customer is told of an error.
LookAgain(c) ==
  /\ call[c].step = "wait"
  /\ IF Shown(call[c].ask.key) THEN Goes(c, "answer")
     ELSE IF call[c].looks < MaxLooks THEN call' = [call EXCEPT ![c].looks = @ + 1]
     ELSE Ends(c)
  /\ UNCHANGED <<rowVars, ruleVars, told>>

\* The customer opens an order that was left without a method and chooses one.
ChooseMethod(k) ==
  /\ k \in BotOrders \ ready /\ made[k] # <<>>
  /\ Owner[k] \notin locked /\ ArbitrationFree
  /\ ready' = ready \cup {k}
  /\ UNCHANGED <<made, receipt, pending, balance, ruleVars, call, told>>

\* A deposit is paid, cancelled, or passes its deadline.
DepositEnds(k) ==
  /\ k \in pending /\ ArbitrationFree
  /\ pending' = pending \ {k}
  /\ UNCHANGED <<made, receipt, ready, balance, ruleVars, call, told>>

-----------------------------------------------------------------------------
(* Who may ask.                                                            *)

Active(u) == {a \in Creds : cred[a] = "active" /\ CredOwner[a] = u}

\* createKey: the count, under the exclusive lock of ApiAccess.
BeginKey(c, u) ==
  /\ call[c] = Idle /\ AccessFree(u)
  /\ u \in access \ locked
  /\ Cardinality(Active(u)) < MaxActive
  /\ call' = [call EXCEPT ![c] = [step |-> "newkey", user |-> u]]
  /\ UNCHANGED <<rowVars, ruleVars, told>>

InsertKey(c, a) ==
  /\ call[c].step = "newkey" /\ CredOwner[a] = call[c].user
  /\ cred[a] = "absent"
  /\ cred' = [cred EXCEPT ![a] = "active"]
  /\ Ends(c)
  /\ UNCHANGED <<rowVars, access, locked, open, told>>

RevokeKey(a) ==
  /\ cred[a] = "active" /\ AccessFree(CredOwner[a])
  /\ cred' = [cred EXCEPT ![a] = "revoked"]
  /\ UNCHANGED <<rowVars, access, locked, open, call, told>>

\* Mutant: access is taken away without waiting for a key that is being made.
DisableAtOnce(u) ==
  /\ u \in access /\ ~AccessShared(u)
  /\ access' = access \ {u}
  /\ cred' = [a \in Creds |-> IF a \in Active(u) THEN "revoked" ELSE cred[a]]
  /\ UNCHANGED <<rowVars, locked, open, call, told>>

\* setAccess; the keys of a disabled owner are revoked with the access.
Disable(u) ==
  /\ u \in access /\ AccessFree(u)
  /\ access' = access \ {u}
  /\ cred' = [a \in Creds |-> IF a \in Active(u) THEN "revoked" ELSE cred[a]]
  /\ UNCHANGED <<rowVars, locked, open, call, told>>

Enable(u) ==
  /\ u \notin access /\ AccessFree(u)
  /\ access' = access \cup {u}
  /\ UNCHANGED <<rowVars, cred, locked, open, call, told>>

LockCustomer(u) ==
  /\ UserFree(u)
  /\ locked' \in {locked \cup {u}, locked \ {u}}
  /\ UNCHANGED <<rowVars, access, cred, open, call, told>>

SetMaintenance ==
  /\ StoreFree
  /\ open' = ~open
  /\ UNCHANGED <<rowVars, access, cred, locked, call, told>>

-----------------------------------------------------------------------------
Init ==
  /\ made = [k \in Keys |-> <<>>]
  /\ receipt = [k \in ApiKeys |-> "none"]
  /\ ready = {} /\ pending = {}
  /\ balance = Purse
  /\ access = {} /\ locked = {}
  /\ cred = [a \in Creds |-> "absent"]
  /\ open = TRUE
  /\ call = [c \in Calls |-> Idle]
  /\ told = {}

Partner(c) ==
  \/ \E a \in Creds, ask \in Asks : Authenticate(c, a, ask)
  \/ Revalidate(c) \/ Replay(c) \/ Admit(c) \/ Secure(c) \/ Commit(c)

Callback(c) ==
  \/ \E ask \in Asks : TakeCallback(c, ask)
  \/ Place(c) \/ ApplyMethod(c) \/ LookAgain(c)

KeyAdministration ==
  \/ \E c \in Calls, u \in Users : BeginKey(c, u)
  \/ \E c \in Calls, a \in Creds : InsertKey(c, a)
  \/ \E a \in Creds : RevokeKey(a)
  \/ \E u \in Users : Disable(u) \/ Enable(u) \/ LockCustomer(u)

Next ==
  \/ \E c \in Calls : Partner(c) \/ Callback(c) \/ Answer(c) \/ Drop(c)
  \/ \E k \in Keys : ChooseMethod(k) \/ DepositEnds(k)
  \/ KeyAdministration
  \/ SetMaintenance

Spec == Init /\ [][Next]_vars

-----------------------------------------------------------------------------
(* Properties.                                                             *)

\* Nothing new is bought or announced with a key that has been revoked, for an
\* owner whose access or account is closed, or while the shop is closed, even
\* if that happens while the request is being handled
\* (revalidateInTransaction, assertStore, requireUnlockedUser).
NothingAfterRevocation ==
  [][\A k \in ApiKeys : made'[k] # made[k] =>
       /\ open /\ Owner[k] \in access \ locked
       /\ \E c \in Calls : /\ call[c].step = "secured" /\ call[c].ask.key = k
                           /\ cred[call[c].cred] = "active"]_vars

\* An owner never has more than MaxActive keys, and none without access,
\* although keys are counted before they are made (createKey, setAccess).
KeysUnderControl ==
  \A u \in Users : Cardinality(Active(u)) <= IF u \in access THEN MaxActive ELSE 0

\* Partner requests and callbacks together never give a customer more than
\* MaxPending deposits to wait for (assertDepositCapacity).
DepositsBounded ==
  \A u \in Users : Cardinality({d \in pending : Owner[d] = u}) <= MaxPending

Promise == INSTANCE OnceOnly

\* However often a request is repeated, in whatever words and after whatever
\* was lost, it takes effect once and is paid once, and each answer is about
\* what was made: Requests implements OnceOnly.
KeepsOncePromise == Promise!Spec
=============================================================================
