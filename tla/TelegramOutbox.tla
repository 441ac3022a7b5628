--------------------------- MODULE TelegramOutbox ----------------------------
(***************************************************************************)
(* How customers hear from the Telegram bot that their keys have come or   *)
(* their wallet has grown, that goods are back in stock, and the owner of  *)
(* the shop that something was sold.                                       *)
(*                                                                         *)
(* Each message is a row of the database that is due until it is marked.   *)
(* Every fifteen seconds a sweep reads a batch of each kind, sends the     *)
(* messages one by one outside of any transaction, and marks each after    *)
(* it was sent or when the chat refuses it for good (400, 403).  Any other *)
(* error ends the sweep, or the stock alerts' part of it.  The owner may   *)
(* switch the alerts about orders off, and what then waits is marked       *)
(* without being sent.  Meanwhile customers look at their orders, which    *)
(* sends and marks as well, block the bot and come back, and the process   *)
(* may die between sending and marking.                                    *)
(*                                                                         *)
(* What the messages say, low stock, overdue orders and groups as the      *)
(* owner's chat are left out; the shop has an owner's chat throughout.     *)
(***************************************************************************)
EXTENDS Naturals, FiniteSets

CONSTANTS
  Rows,       \* messages, numbered by paidAt or createdAt
  Kind,       \* "order", "deposit", "stock" or "owner"
  Reader,     \* whose chat each message goes to
  People,
  Batch,      \* NOTIFY_BATCH, STOCK_ALERT_BATCH, OWNER_ALERT_BATCH
  Tokens, Off,
  MaxStarts,  \* bound: how often each customer writes /start
  MaxSwitch   \* bound: how often the bot stops, changes its token or dies

ASSUME OutboxAssumption ==
  /\ Rows \subseteq Nat /\ IsFiniteSet(Rows)
  /\ Kind \in [Rows -> {"order", "deposit", "stock", "owner"}]
  /\ Reader \in [Rows -> People]
  /\ Batch \in Nat \ {0} /\ MaxStarts \in Nat /\ MaxSwitch \in Nat
  /\ Off \notin Tokens

VARIABLES
  row,       \* "new" before there is something to tell, "due", "failed", and
             \* "notified" or, if it was marked without being sent, "dropped"
  got,       \* outside the shop: whether the message is in the chat
  shut,      \* people whose chat refuses messages
  starts,    \* how often each of them has written /start
  active,    \* activeToken
  switches,
  ownerAlerts, \* ownerOrderAlertsEnabled
  sweep      \* where notifySweep is

worldVars == <<shut, starts, active, switches, ownerAlerts>>
vars == <<row, got, worldVars, sweep>>

Idle == [step |-> "idle"]

Due(kind) == {r \in Rows : Kind[r] = kind /\ row[r] = "due"}
First(S) == CHOOSE r \in S : \A q \in S : r <= q
Oldest(S) == {r \in S : Cardinality({q \in S : q < r}) < Batch}

Following == [order |-> "deposit", deposit |-> "stock", stock |-> "owner"]

-----------------------------------------------------------------------------
(* The sweep.                                                              *)

\* The timer; notifying keeps sweeps apart.
Begin ==
  /\ sweep = Idle /\ active # Off
  /\ sweep' = [step |-> "read", kind |-> "order", token |-> active]
  /\ UNCHANGED <<row, got, worldVars>>

\* notifyOwnerAlerts reads the setting before it reads or marks any order.
ReadSetting ==
  /\ sweep.step = "read" /\ sweep.kind = "owner"
  /\ sweep' = [sweep EXCEPT !.step = IF ownerAlerts THEN "list" ELSE "drop"]
  /\ UNCHANGED <<row, got, worldVars>>

Read ==
  /\ \/ sweep.step = "read" /\ sweep.kind # "owner"
     \/ sweep.step = "list"
  /\ sweep' = [step |-> "next", kind |-> sweep.kind, token |-> sweep.token,
               todo |-> Oldest(Due(sweep.kind))]
  /\ UNCHANGED <<row, got, worldVars>>

\* Alerts are off: whatever waits for the owner is marked in one statement.
DropOwnerAlerts ==
  /\ sweep.step = "drop"
  /\ row' = [r \in Rows |-> IF r \in Due("owner") THEN "dropped" ELSE row[r]]
  /\ sweep' = Idle
  /\ UNCHANGED <<got, worldVars>>

\* The batch is done, or the bot was stopped.
Proceed ==
  /\ sweep.step = "next"
  /\ sweep' = IF sweep.todo = {} /\ sweep.kind # "owner"
              THEN [step |-> "read", kind |-> Following[sweep.kind], token |-> sweep.token]
              ELSE Idle
  /\ \/ sweep.todo = {}
     \/ sweep.todo # {} /\ sweep.kind # "owner" /\ sweep.token # active
  /\ UNCHANGED <<row, got, worldVars>>

Sending == /\ sweep.step = "next" /\ sweep.todo # {}
           /\ sweep.kind = "owner" \/ sweep.token = active

\* markNotified, markDepositNotified and their like: conditional updates.
Marked(r, mark) ==
  IF row[r] \in {"notified", "dropped"} \/ (Kind[r] = "stock" /\ row[r] = "failed") THEN row
  ELSE [row EXCEPT ![r] = mark]

\* Mutant: a message is marked first and sent afterwards.
SendMarked ==
  /\ Sending
  /\ LET r == First(sweep.todo) IN
       \/ /\ row[r] = "due" /\ row' = Marked(r, "notified")
          /\ UNCHANGED <<got, sweep>>
       \/ /\ row[r] # "due"
          /\ IF Reader[r] \in shut
             THEN sweep' = [sweep EXCEPT !.step = "refused"] /\ UNCHANGED got
             ELSE sweep' = [sweep EXCEPT !.step = "sent"] /\ got' = [got EXCEPT ![r] = TRUE]
          /\ UNCHANGED row
  /\ UNCHANGED <<worldVars>>

\* Telegram takes the message, or says that it never will.
Send ==
  /\ Sending
  /\ LET r == First(sweep.todo) IN
       IF Reader[r] \in shut
       THEN sweep' = [sweep EXCEPT !.step = "refused"] /\ UNCHANGED got
       ELSE sweep' = [sweep EXCEPT !.step = "sent"] /\ got' = [got EXCEPT ![r] = TRUE]
  /\ UNCHANGED <<row, worldVars>>

\* An error that may pass ends the sweep.  Among the stock alerts it only ends
\* their batch, and the owner's alerts follow.
Broken == IF sweep.kind = "stock"
          THEN [step |-> "read", kind |-> "owner", token |-> sweep.token] ELSE Idle

\* Rate limits, time-outs after which the message may be there all the same,
\* or an order that cannot be read.
SendFails ==
  /\ Sending
  /\ LET r == First(sweep.todo) IN
       got' \in {got, IF Reader[r] \in shut THEN got ELSE [got EXCEPT ![r] = TRUE]}
  /\ sweep' = Broken
  /\ UNCHANGED <<row, worldVars>>

Rest == [sweep EXCEPT !.step = "next", !.todo = @ \ {First(@)}]

MarkSent ==
  /\ sweep.step = "sent"
  /\ row' = Marked(First(sweep.todo), "notified")
  /\ sweep' = Rest
  /\ UNCHANGED <<got, worldVars>>

\* Mutant: a chat that refuses ends the sweep like any other error.
RefusedEnds ==
  /\ sweep.step = "refused"
  /\ sweep' = Idle
  /\ UNCHANGED <<row, got, worldVars>>

\* The owner's chat has no mark for a refusal: the error ends the sweep.
MarkRefused ==
  /\ sweep.step = "refused"
  /\ IF sweep.kind = "owner" THEN sweep' = Idle /\ UNCHANGED row
     ELSE row' = Marked(First(sweep.todo), "failed") /\ sweep' = Rest
  /\ UNCHANGED <<got, worldVars>>

\* The database refuses the mark: an order that was sent is passed over, and
\* the mark of a refusal is not tried inside the loop's own try.
MarkFails ==
  /\ sweep.step \in {"sent", "refused"}
  /\ sweep' = IF sweep.step = "refused" THEN Idle
              ELSE IF sweep.kind = "order" THEN Rest ELSE Broken
  /\ UNCHANGED <<row, got, worldVars>>

-----------------------------------------------------------------------------
(* Customers and the process.                                              *)

\* Something has been delivered, credited or restocked.
BecomesDue(r) ==
  /\ row[r] = "new"
  /\ row' = [row EXCEPT ![r] = "due"]
  /\ UNCHANGED <<got, worldVars, sweep>>

\* An order placed while the settings had the bot, or the alerts about orders,
\* off bears the owner's mark from the start (createOrderInTransaction).
PlacedUnqueued(r) ==
  /\ row[r] = "new" /\ Kind[r] = "owner"
  /\ row' = [row EXCEPT ![r] = "dropped"]
  /\ UNCHANGED <<got, worldVars, sweep>>

\* A delivered order or a credited deposit is opened in the chat; its mark may
\* fail.
Open(r) ==
  /\ Kind[r] \in {"order", "deposit"} /\ row[r] # "new"
  /\ Reader[r] \notin shut /\ active # Off
  /\ got' = [got EXCEPT ![r] = TRUE]
  /\ row' \in {row, Marked(r, "notified")}
  /\ UNCHANGED <<worldVars, sweep>>

ShutOrOpen(u) ==
  /\ shut' \in {shut \cup {u}, shut \ {u}}
  /\ UNCHANGED <<row, got, starts, active, switches, ownerAlerts, sweep>>

Refused(u) == {r \in Rows : /\ Reader[r] = u /\ Kind[r] \in {"order", "deposit"}
                            /\ row[r] = "failed"}

\* /start arms again what the chat has refused, but for goods back in stock.
Start(u) ==
  /\ u \notin shut /\ starts[u] < MaxStarts /\ active # Off
  /\ Refused(u) # {}
  /\ starts' = [starts EXCEPT ![u] = @ + 1]
  /\ row' = [r \in Rows |-> IF r \in Refused(u) THEN "due" ELSE row[r]]
  /\ UNCHANGED <<got, shut, active, switches, ownerAlerts, sweep>>

\* The supervisor of module PollLoops stops the bot or changes its token.
Switch ==
  /\ switches < MaxSwitch
  /\ switches' = switches + 1
  /\ active' \in (Tokens \cup {Off}) \ {active}
  /\ UNCHANGED <<row, got, shut, starts, ownerAlerts, sweep>>

Crash ==
  /\ switches < MaxSwitch
  /\ switches' = switches + 1
  /\ sweep' = Idle
  /\ UNCHANGED <<row, got, shut, starts, ownerAlerts, active>>

\* updateTelegram switches the owner's alerts about orders on or off.
SwitchOwnerAlerts ==
  /\ ownerAlerts' = ~ownerAlerts
  /\ UNCHANGED <<row, got, shut, starts, active, switches, sweep>>

-----------------------------------------------------------------------------
Init ==
  /\ row = [r \in Rows |-> "new"]
  /\ got = [r \in Rows |-> FALSE]
  /\ shut = {} /\ starts = [u \in People |-> 0]
  /\ active \in Tokens /\ switches = 0 /\ ownerAlerts \in BOOLEAN
  /\ sweep = Idle

Next ==
  \/ Begin \/ ReadSetting \/ Read \/ DropOwnerAlerts \/ Proceed \/ Send \/ SendFails
  \/ MarkSent \/ MarkRefused \/ MarkFails
  \/ \E r \in Rows : BecomesDue(r) \/ PlacedUnqueued(r) \/ Open(r)
  \/ \E u \in People : ShutOrOpen(u) \/ Start(u)
  \/ Switch \/ Crash \/ SwitchOwnerAlerts

\* The timer fires and a sweep that is not held up goes on; Telegram and the
\* database fail now and then, but not for ever.
Fairness ==
  /\ WF_vars(Begin) /\ WF_vars(ReadSetting) /\ WF_vars(Read)
  /\ WF_vars(DropOwnerAlerts) /\ WF_vars(Proceed)
  /\ SF_vars(Send) /\ SF_vars(MarkSent) /\ SF_vars(MarkRefused)

Spec == Init /\ [][Next]_vars /\ Fairness

-----------------------------------------------------------------------------
(* Properties.                                                             *)

\* A message is marked only if it is in the chat, whatever dies and whoever
\* else marks the row: rather twice than never (notifySweep).  Only the owner
\* gives messages up, his own, by switching the alerts about orders off.
MarkedWasSent ==
  \A r \in Rows : /\ row[r] = "notified" => got[r]
                  /\ row[r] = "dropped" => Kind[r] = "owner"

\* As long as the bot runs, whatever is due is sent or found to be refused,
\* although other chats, the owner's among them, refuse for good and errors
\* end sweeps again and again.
EveryoneHears ==
  <>[](active # Off) =>
    \A r \in Rows : Kind[r] # "owner" => (row[r] = "due" ~> row[r] # "due")
=============================================================================
