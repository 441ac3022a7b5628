------------------------ MODULE TelegramOutbox_proofs -------------------------
(***************************************************************************)
(* Proof that a message is marked only if it is in the chat, or is an      *)
(* alert the owner gave up, for any messages, batches, refusals, restarts, *)
(* settings and customers.                                                 *)
(***************************************************************************)
EXTENDS TelegramOutbox, TLAPS

Kinds == {"order", "deposit", "stock", "owner"}
Marks == {"new", "due", "notified", "failed", "dropped"}
Sweeps ==
  {Idle} \cup [step : {"read", "list", "drop"}, kind : Kinds, token : Tokens]
         \cup [step : {"next", "sent", "refused"}, kind : Kinds, token : Tokens, todo : SUBSET Rows]

TypeOK ==
  /\ row \in [Rows -> Marks]
  /\ got \in [Rows -> BOOLEAN]
  /\ active \in Tokens \cup {Off}
  /\ sweep \in Sweeps

\* A sweep that has sent a message and not marked it yet marks the message it
\* has sent, whatever it has read before and whoever else marks the row.
SentIsThere ==
  sweep.step = "sent" => \A r \in Rows : r = First(sweep.todo) => got[r]

\* The inductive invariant.
OutboxInv == TypeOK /\ SentIsThere /\ MarkedWasSent

\* A mark changes one row, to what it says.
LEMMA MarkedRows ==
  ASSUME TypeOK, NEW r, NEW mark \in {"notified", "failed"}
  PROVE  /\ Marked(r, mark) \in [Rows -> Marks]
         /\ \A q \in Rows : q # r => Marked(r, mark)[q] = row[q]
         /\ \A q \in Rows : q = r => Marked(r, mark)[q] \in {row[q], mark}
BY DEF TypeOK, Marked, Marks

\* Messages stay in a chat, and the sweep did not just send one.
LEMMA MessagesStay ==
  ASSUME OutboxInv, TypeOK', \A r \in Rows : got[r] => got'[r],
         \A r \in Rows : row'[r] = "notified" => row[r] = "notified" \/ got'[r],
         \A r \in Rows : row'[r] = "dropped" => row[r] = "dropped" \/ Kind[r] = "owner",
         sweep' = sweep \/ sweep'.step # "sent"
  PROVE  OutboxInv'
BY DEF OutboxInv, SentIsThere, MarkedWasSent

LEMMA SweepTyped ==
  ASSUME TypeOK, sweep.step \in {"next", "sent", "refused"}
  PROVE  sweep \in [step : {"next", "sent", "refused"}, kind : Kinds, token : Tokens,
                    todo : SUBSET Rows]
BY DEF TypeOK, Sweeps, Idle

LEMMA BrokenTyped ==
  ASSUME TypeOK, sweep.step \in {"next", "sent", "refused"}
  PROVE  Broken \in Sweeps /\ Broken.step # "sent"
<1>1. sweep.token \in Tokens
  BY SweepTyped
<1> QED BY <1>1 DEF Broken, Sweeps, Kinds, Idle

LEMMA SendKeeps == ASSUME OutboxInv, Send PROVE OutboxInv'
<1>1. PICK r : r = First(sweep.todo)
  OBVIOUS
<1>2. sweep \in [step : {"next", "sent", "refused"}, kind : Kinds, token : Tokens, todo : SUBSET Rows]
  BY SweepTyped DEF OutboxInv, Send, Sending
<1>3. UNCHANGED <<row, active>>
  BY DEF Send, worldVars
<1>4. CASE Reader[r] \in shut
  <2>1. sweep' = [sweep EXCEPT !.step = "refused"] /\ UNCHANGED got
    BY <1>1, <1>4 DEF Send
  <2>2. sweep' \in Sweeps /\ sweep'.step = "refused"
    BY <1>2, <2>1 DEF Sweeps
  <2> QED BY <1>3, <2>1, <2>2, MessagesStay DEF OutboxInv, TypeOK
<1>5. CASE Reader[r] \notin shut
  <2>1. sweep' = [sweep EXCEPT !.step = "sent"] /\ got' = [got EXCEPT ![r] = TRUE]
    BY <1>1, <1>5 DEF Send
  <2>2. sweep' \in Sweeps /\ sweep'.todo = sweep.todo
    BY <1>2, <2>1 DEF Sweeps
  <2>3. First(sweep'.todo) = r
    BY <1>1, <2>2
  <2>4. got' \in [Rows -> BOOLEAN] /\ \A q \in Rows : (got[q] => got'[q]) /\ (q = r => got'[q])
    BY <2>1 DEF OutboxInv, TypeOK
  <2>5. TypeOK'
    BY <1>3, <2>2, <2>4 DEF OutboxInv, TypeOK
  <2> QED BY <1>3, <2>3, <2>4, <2>5 DEF OutboxInv, SentIsThere, MarkedWasSent
<1> QED BY <1>4, <1>5

\* An error breaks the sweep off; the message may be in the chat all the same.
LEMMA SendFailsKeeps == ASSUME OutboxInv, SendFails PROVE OutboxInv'
<1>1. PICK r : r = First(sweep.todo)
  OBVIOUS
<1>2. got' = got \/ got' = [got EXCEPT ![r] = TRUE]
  BY <1>1 DEF SendFails
<1>3. got' \in [Rows -> BOOLEAN] /\ \A q \in Rows : got[q] => got'[q]
  BY <1>2 DEF OutboxInv, TypeOK
<1>4. sweep' \in Sweeps /\ sweep'.step # "sent" /\ UNCHANGED <<row, active>>
  BY BrokenTyped DEF SendFails, Sending, OutboxInv, worldVars
<1> QED BY <1>3, <1>4, MessagesStay DEF OutboxInv, TypeOK

\* The sweep marks what it has sent.
LEMMA MarkSentKeeps == ASSUME OutboxInv, MarkSent PROVE OutboxInv'
<1>1. PICK r : r = First(sweep.todo)
  OBVIOUS
<1>2. row' = Marked(r, "notified") /\ UNCHANGED <<got, active>> /\ sweep' = Rest
  BY <1>1 DEF MarkSent, worldVars
<1>3. /\ row' \in [Rows -> Marks]
      /\ \A q \in Rows : q # r => row'[q] = row[q]
      /\ \A q \in Rows : q = r => row'[q] \in {row[q], "notified"}
  BY <1>2, MarkedRows DEF OutboxInv
<1>4. \A q \in Rows : q = r => got[q]
  BY <1>1 DEF OutboxInv, SentIsThere, MarkSent
<1>5. sweep' \in Sweeps /\ sweep'.step = "next"
  BY <1>2, SweepTyped DEF OutboxInv, MarkSent, Rest, Sweeps
<1> QED BY <1>2, <1>3, <1>4, <1>5, MessagesStay DEF OutboxInv, TypeOK, MarkedWasSent

LEMMA MarkRefusedKeeps == ASSUME OutboxInv, MarkRefused PROVE OutboxInv'
<1>1. PICK r : r = First(sweep.todo)
  OBVIOUS
<1>2. UNCHANGED <<got, active>> /\ (row' = row \/ row' = Marked(r, "failed"))
  BY <1>1 DEF MarkRefused, worldVars
<1>3. /\ row' \in [Rows -> Marks]
      /\ \A q \in Rows : row'[q] \in {row[q], "failed"}
  BY <1>2, MarkedRows DEF OutboxInv, TypeOK
<1>4. sweep' \in Sweeps /\ sweep'.step # "sent"
  <2>1. sweep' = Idle \/ sweep' = Rest
    BY DEF MarkRefused
  <2>2. Idle \in Sweeps /\ Idle.step # "sent"
    BY DEF Idle, Sweeps
  <2>3. Rest \in Sweeps /\ Rest.step # "sent"
    BY SweepTyped DEF OutboxInv, MarkRefused, Rest, Sweeps
  <2> QED BY <2>1, <2>2, <2>3
<1> QED BY <1>2, <1>3, <1>4, MessagesStay DEF OutboxInv, TypeOK

LEMMA MarkFailsKeeps == ASSUME OutboxInv, MarkFails PROVE OutboxInv'
<1>1. UNCHANGED <<row, got, active>>
  BY DEF MarkFails, worldVars
<1>2. sweep' \in Sweeps /\ sweep'.step # "sent"
  <2>1. sweep' = Idle \/ sweep' = Rest \/ sweep' = Broken
    BY DEF MarkFails
  <2>2. Idle \in Sweeps /\ Idle.step # "sent"
    BY DEF Idle, Sweeps
  <2>3. sweep.step \in {"next", "sent", "refused"}
    BY DEF MarkFails
  <2>4. Rest \in Sweeps /\ Rest.step # "sent"
    BY <2>3, SweepTyped DEF OutboxInv, Rest, Sweeps
  <2>5. Broken \in Sweeps /\ Broken.step # "sent"
    BY <2>3, BrokenTyped DEF OutboxInv
  <2> QED BY <2>1, <2>2, <2>4, <2>5
<1> QED BY <1>1, <1>2, MessagesStay DEF OutboxInv, TypeOK

\* A sweep begins, reads a setting or a batch, or goes on to the next kind.
LEMMA SweepGoesOnKeeps ==
  ASSUME OutboxInv, Begin \/ ReadSetting \/ Read \/ Proceed PROVE OutboxInv'
<1>1. UNCHANGED <<row, got, active>>
  BY DEF Begin, ReadSetting, Read, Proceed, worldVars
<1>2. sweep' \in Sweeps /\ sweep'.step # "sent"
  <2>1. CASE Begin
    BY <2>1 DEF Begin, OutboxInv, TypeOK, Sweeps, Kinds
  <2>2. CASE ReadSetting
    <3>1. sweep \in [step : {"read", "list", "drop"}, kind : Kinds, token : Tokens]
      BY <2>2 DEF ReadSetting, OutboxInv, TypeOK, Sweeps, Idle
    <3>2. PICK s \in {"list", "drop"} : sweep' = [sweep EXCEPT !.step = s]
      BY <2>2 DEF ReadSetting
    <3> QED BY <3>1, <3>2 DEF Sweeps
  <2>3. CASE Read
    <3>1. sweep.kind \in Kinds /\ sweep.token \in Tokens
      BY <2>3 DEF Read, OutboxInv, TypeOK, Sweeps, Idle
    <3>2. Oldest(Due(sweep.kind)) \in SUBSET Rows
      BY DEF Oldest, Due
    <3> QED BY <2>3, <3>1, <3>2 DEF Read, Sweeps
  <2>4. CASE Proceed
    <3>1. sweep.kind \in Kinds /\ sweep.token \in Tokens
      BY <2>4, SweepTyped DEF Proceed, OutboxInv
    <3>2. sweep.kind # "owner" => Following[sweep.kind] \in Kinds
      BY <3>1 DEF Following, Kinds
    <3> QED BY <2>4, <3>1, <3>2 DEF Proceed, Sweeps, Idle
  <2> QED BY <2>1, <2>2, <2>3, <2>4
<1> QED BY <1>1, <1>2, MessagesStay DEF OutboxInv, TypeOK

\* What is passed over is the owner's, and nothing is marked as sent by it.
LEMMA DropKeeps == ASSUME OutboxInv, DropOwnerAlerts PROVE OutboxInv'
<1>1. UNCHANGED <<got, active>> /\ sweep' = Idle
  BY DEF DropOwnerAlerts, worldVars
<1>2. /\ row' \in [Rows -> Marks]
      /\ \A q \in Rows : row'[q] = row[q] \/ (row'[q] = "dropped" /\ Kind[q] = "owner")
  BY DEF DropOwnerAlerts, Due, OutboxInv, TypeOK, Marks
<1>3. sweep' \in Sweeps /\ sweep'.step # "sent"
  BY <1>1 DEF Idle, Sweeps
<1> QED BY <1>1, <1>2, <1>3, MessagesStay DEF OutboxInv, TypeOK

LEMMA PlacedUnqueuedKeeps ==
  ASSUME OutboxInv, NEW r \in Rows, PlacedUnqueued(r) PROVE OutboxInv'
<1>1. UNCHANGED <<got, active, sweep>>
  BY DEF PlacedUnqueued, worldVars
<1>2. /\ row' \in [Rows -> Marks]
      /\ \A q \in Rows : row'[q] = row[q] \/ (row'[q] = "dropped" /\ Kind[q] = "owner")
  BY DEF PlacedUnqueued, OutboxInv, TypeOK, Marks
<1> QED BY <1>1, <1>2, MessagesStay DEF OutboxInv, TypeOK

LEMMA BecomesDueKeeps == ASSUME OutboxInv, NEW r \in Rows, BecomesDue(r) PROVE OutboxInv'
<1>1. UNCHANGED <<got, active, sweep>>
  BY DEF BecomesDue, worldVars
<1>2. /\ row' \in [Rows -> Marks]
      /\ \A q \in Rows : row'[q] \in {row[q], "due"}
  BY DEF BecomesDue, OutboxInv, TypeOK, Marks
<1> QED BY <1>1, <1>2, MessagesStay DEF OutboxInv, TypeOK

\* Whoever opens an order or a deposit in the chat sees it, marked or not.
LEMMA OpenKeeps == ASSUME OutboxInv, NEW r \in Rows, Open(r) PROVE OutboxInv'
<1>1. UNCHANGED <<active, sweep>> /\ got' = [got EXCEPT ![r] = TRUE]
  BY DEF Open, worldVars
<1>2. got' \in [Rows -> BOOLEAN] /\ got'[r] /\ \A q \in Rows : got[q] => got'[q]
  BY <1>1 DEF OutboxInv, TypeOK
<1>3. row' = row \/ row' = Marked(r, "notified")
  BY DEF Open
<1>4. /\ row' \in [Rows -> Marks]
      /\ \A q \in Rows : q # r => row'[q] = row[q]
      /\ \A q \in Rows : q = r => row'[q] \in {row[q], "notified"}
  BY <1>3, MarkedRows DEF OutboxInv, TypeOK
<1>5. TypeOK'
  BY <1>1, <1>2, <1>4 DEF OutboxInv, TypeOK
<1> QED BY <1>1, <1>2, <1>4, <1>5, MessagesStay

LEMMA StartKeeps == ASSUME OutboxInv, NEW u \in People, Start(u) PROVE OutboxInv'
<1>1. UNCHANGED <<got, active, sweep>>
  BY DEF Start
<1>2. /\ row' \in [Rows -> Marks]
      /\ \A q \in Rows : row'[q] \in {row[q], "due"}
  BY DEF Start, OutboxInv, TypeOK, Marks
<1> QED BY <1>1, <1>2, MessagesStay DEF OutboxInv, TypeOK

\* The bot stops or changes its token, the setting changes, or the process dies.
LEMMA WorldKeeps ==
  ASSUME OutboxInv, Switch \/ Crash \/ SwitchOwnerAlerts \/ \E u \in People : ShutOrOpen(u)
  PROVE  OutboxInv'
<1>1. UNCHANGED <<row, got>>
  BY DEF Switch, Crash, SwitchOwnerAlerts, ShutOrOpen
<1>2. active' \in Tokens \cup {Off} /\ sweep' \in Sweeps /\ (sweep' = sweep \/ sweep'.step # "sent")
  BY DEF Switch, Crash, SwitchOwnerAlerts, ShutOrOpen, OutboxInv, TypeOK, Sweeps, Idle
<1> QED BY <1>1, <1>2, MessagesStay DEF OutboxInv, TypeOK

LEMMA OutboxBegins == ASSUME Init PROVE OutboxInv
<1>1. sweep \in Sweeps /\ sweep.step # "sent"
  BY DEF Init, Sweeps, Idle
<1> QED BY <1>1 DEF Init, OutboxInv, TypeOK, Marks, SentIsThere, MarkedWasSent

LEMMA OutboxKeeps == ASSUME OutboxInv, [Next]_vars PROVE OutboxInv'
<1>1. CASE UNCHANGED vars
  BY <1>1, MessagesStay DEF vars, worldVars, OutboxInv, TypeOK
<1> QED BY <1>1, SendKeeps, SendFailsKeeps, MarkSentKeeps, MarkRefusedKeeps, MarkFailsKeeps,
           SweepGoesOnKeeps, DropKeeps, BecomesDueKeeps, PlacedUnqueuedKeeps, OpenKeeps,
           StartKeeps, WorldKeeps DEF Next

\* A message is marked only if it is in the chat: rather twice than never,
\* whatever the sweep has read before, whoever marks rows meanwhile, and
\* wherever the process dies (notifySweep, markNotified).  Only the owner's
\* alerts are ever given up, whenever the owner switches them off.
THEOREM NothingMarkedUnsent == Spec => []MarkedWasSent
<1>1. Init => OutboxInv
  BY OutboxBegins
<1>2. OutboxInv /\ [Next]_vars => OutboxInv'
  BY OutboxKeeps
<1>3. OutboxInv => MarkedWasSent
  BY DEF OutboxInv
<1> QED BY <1>1, <1>2, <1>3, PTL DEF Spec
=============================================================================
