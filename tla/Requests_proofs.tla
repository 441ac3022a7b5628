--------------------------- MODULE Requests_proofs ----------------------------
(***************************************************************************)
(* Proofs about repeated requests: locks keep what a transaction has seen  *)
(* true until it commits, so limits hold, withdrawn authority buys         *)
(* nothing, and Requests implements OnceOnly, for any number of users,     *)
(* keys and calls.                                                         *)
(***************************************************************************)
EXTENDS Requests, FiniteSetTheorems, TLAPS

Bodies == {ask.body : ask \in Asks}
ApiCalls == [step : {"request", "valid", "admitted", "secured", "answer"},
             ask : Asks, cred : Creds]
BotCalls == [step : {"place", "method", "answer"}, ask : Asks]
Waiting  == [step : {"wait", "answer"}, ask : Asks, looks : Nat]
NewKeys  == [step : {"newkey"}, user : Users]
CallStates == {Idle} \cup ApiCalls \cup BotCalls \cup Waiting \cup NewKeys

TypeOK ==
  /\ made \in [Keys -> Seq(Bodies)]
  /\ receipt \in [ApiKeys -> Bodies \cup {"none"}]
  /\ balance \in [Users -> Nat]
  /\ cred \in [Creds -> {"absent", "active", "revoked"}]
  /\ call \in [Calls -> CallStates]

\* One row at most for each key, the one the receipt or the callback stands for.
ApiRows ==
  \A k \in ApiKeys : made[k] = IF receipt[k] = "none" THEN <<>> ELSE <<receipt[k]>>
BotRows ==
  \A k \in BotKeys :
    made[k] = <<>> \/ \E ask \in Asks : ask.key = k /\ made[k] = <<ask.body>>

\* What the locks of a partner's transaction keep true.
ApiFine(s) ==
  /\ s.step \in InApi \cup {"request"} =>
       s.ask.key \in ApiKeys /\ CredOwner[s.cred] = Owner[s.ask.key]
  /\ s.step \in InApi => cred[s.cred] = "active" /\ Owner[s.ask.key] \in access
  /\ s.step \in {"admitted", "secured"} => open /\ receipt[s.ask.key] = "none"
  /\ s.step = "secured" =>
       /\ Owner[s.ask.key] \notin locked
       /\ IF s.ask.key \in Deposits THEN HasRoom(Owner[s.ask.key])
          ELSE balance[Owner[s.ask.key]] >= Price[s.ask]

\* What a callback has made, and what an answer is about.
BotFine(s) ==
  /\ s.step \in {"place", "method", "wait"} => s.ask.key \in BotKeys
  /\ s.step \in {"method", "answer"} => made[s.ask.key] = <<s.ask.body>>

\* The count of createKey stays right while it holds its lock.
KeyFine(s) ==
  s.step = "newkey" => s.user \in access /\ Cardinality(Active(s.user)) < MaxActive

Fine(s) == ApiFine(s) /\ BotFine(s) /\ KeyFine(s)
CallsFine == \A c \in Calls : Fine(call[c])

\* The arbitration lock and the exclusive lock of ApiAccess.
Clash(s, t) ==
  \/ s.step \in InApi /\ t.step \in InApi
  \/ s.step = "newkey" /\ t.step = "newkey" /\ s.user = t.user
CallsApart == \A c, d \in Calls : c # d => ~Clash(call[c], call[d])

Finite == IsFiniteSet(pending) /\ \A u \in Users : IsFiniteSet(Active(u))

\* The inductive invariant.
RequestsInv ==
  /\ TypeOK /\ ApiRows /\ BotRows /\ CallsFine /\ CallsApart
  /\ Finite /\ KeysUnderControl /\ DepositsBounded

-----------------------------------------------------------------------------
(* Helpers.                                                                *)

LEMMA AskTyped ==
  ASSUME NEW ask \in Asks
  PROVE  /\ ask.key \in Keys /\ Owner[ask.key] \in Users
         /\ ask.body \in Bodies /\ ask.body # "none" /\ Price[ask] \in Nat
BY RequestsAssumption DEF Bodies

LEMMA CallTyped ==
  ASSUME TypeOK, NEW c \in Calls
  PROVE  /\ call[c] \in CallStates
         /\ call[c].step \notin {"idle", "newkey"} => call[c].ask \in Asks
         /\ call[c].step \in InApi \cup {"request"} => call[c] \in ApiCalls
         /\ call[c].step \in {"place", "method"} => call[c] \in BotCalls
         /\ call[c].step = "wait" => call[c] \in Waiting
         /\ call[c].step = "newkey" => call[c].user \in Users
BY DEF TypeOK, CallStates, ApiCalls, BotCalls, Waiting, NewKeys, Idle, InApi

LEMMA IdleFine == Idle \in CallStates /\ Idle.step = "idle" /\ Fine(Idle)
BY DEF Idle, CallStates, Fine, ApiFine, BotFine, KeyFine, InApi

LEMMA ApiStep ==
  ASSUME NEW s \in ApiCalls, NEW step \in {"request", "valid", "admitted", "secured", "answer"}
  PROVE  LET t == [s EXCEPT !.step = step] IN
           t \in CallStates /\ t.step = step /\ t.ask = s.ask /\ t.cred = s.cred
BY DEF ApiCalls, CallStates

LEMMA BotStep ==
  ASSUME NEW s \in BotCalls, NEW step \in {"place", "method", "answer"}
  PROVE  LET t == [s EXCEPT !.step = step] IN
           t \in CallStates /\ t.step = step /\ t.ask = s.ask
BY DEF BotCalls, CallStates

LEMMA WaitStep ==
  ASSUME NEW s \in Waiting
  PROVE  /\ LET t == [s EXCEPT !.step = "answer"] IN
              t \in CallStates /\ t.step = "answer" /\ t.ask = s.ask
         /\ LET t == [s EXCEPT !.looks = @ + 1] IN
              t \in CallStates /\ t.step = s.step /\ t.ask = s.ask
BY DEF Waiting, CallStates

\* A row that is there was asked for by anybody who names its callback.
LEMMA BotRow ==
  ASSUME RequestsInv, NEW ask \in Asks, ask.key \in BotKeys, made[ask.key] # <<>>
  PROVE  made[ask.key] = <<ask.body>>
BY RequestsAssumption DEF RequestsInv, BotRows

\* One call goes on and no row or rule changes.
LEMMA QuietCall ==
  ASSUME RequestsInv, NEW c \in Calls, NEW s \in CallStates, Fine(s),
         \A d \in Calls : d # c => ~Clash(s, call[d]),
         call' = [call EXCEPT ![c] = s],
         UNCHANGED <<made, receipt, pending, balance, ruleVars>>
  PROVE  RequestsInv'
<1>1. call' \in [Calls -> CallStates] /\ call'[c] = s
  BY DEF RequestsInv, TypeOK
<1>2. \A d \in Calls : d # c => call'[d] = call[d]
  BY DEF RequestsInv, TypeOK
<1>3. UNCHANGED <<made, receipt, pending, balance, access, cred, locked, open>>
  BY DEF ruleVars
<1>4. ASSUME NEW t, Fine(t) PROVE Fine(t)'
  BY <1>3, <1>4 DEF Fine, ApiFine, BotFine, KeyFine, HasRoom, Active
<1>5. CallsFine'
  <2> SUFFICES ASSUME NEW d \in Calls PROVE Fine(call[d])'
    BY DEF CallsFine
  <2>1. PICK t : t = call'[d]
    OBVIOUS
  <2>2. Fine(t)
    BY <1>1, <1>2, <2>1 DEF RequestsInv, CallsFine
  <2>3. Fine(t)'
    BY <1>4, <2>2
  <2> QED BY <2>1, <2>3 DEF Fine, ApiFine, BotFine, KeyFine
<1>6. CallsApart'
  BY <1>1, <1>2 DEF RequestsInv, CallsApart, Clash
<1>7. TypeOK' /\ ApiRows' /\ BotRows'
  BY <1>1, <1>3 DEF RequestsInv, TypeOK, ApiRows, BotRows
<1>8. Finite' /\ KeysUnderControl' /\ DepositsBounded'
  BY <1>3 DEF RequestsInv, Finite, KeysUnderControl, DepositsBounded, Active
<1> QED BY <1>5, <1>6, <1>7, <1>8 DEF RequestsInv

\* A call ends and no row or rule changes.
LEMMA QuietEnd ==
  ASSUME RequestsInv, NEW c \in Calls, Ends(c), UNCHANGED <<rowVars, ruleVars>>
  PROVE  RequestsInv'
<1>1. \A d \in Calls : ~Clash(Idle, call[d])
  BY DEF Clash, Idle, InApi
<1> QED BY <1>1, IdleFine, QuietCall DEF Ends, rowVars

-----------------------------------------------------------------------------
(* Steps of a call that change nothing else.                               *)

LEMMA InitRequests == Init => RequestsInv
<1> SUFFICES ASSUME Init PROVE RequestsInv
  OBVIOUS
<1>1. TypeOK
  BY RequestsAssumption DEF Init, TypeOK, CallStates
<1>2. ApiRows /\ BotRows
  BY DEF Init, ApiRows, BotRows, Keys
<1>3. CallsFine /\ CallsApart
  BY IdleFine DEF Init, CallsFine, CallsApart, Clash, InApi
<1>4. \A u \in Users : Active(u) = {}
  BY DEF Init, Active
<1>5. Finite /\ KeysUnderControl
  <2>1. IsFiniteSet(pending) /\ \A u \in Users : IsFiniteSet(Active(u))
    BY <1>4, FS_EmptySet DEF Init
  <2>2. \A u \in Users : Cardinality(Active(u)) = 0
    BY <1>4, FS_EmptySet
  <2>3. MaxActive \in Nat
    BY RequestsAssumption
  <2> QED BY <2>1, <2>2, <2>3 DEF Finite, KeysUnderControl
<1>6. DepositsBounded
  <2>1. \A u \in Users : {d \in pending : Owner[d] = u} = {}
    BY DEF Init
  <2>2. \A u \in Users : Cardinality({d \in pending : Owner[d] = u}) = 0
    BY <2>1, FS_EmptySet
  <2>3. MaxPending \in Nat
    BY RequestsAssumption
  <2> QED BY <2>2, <2>3 DEF DepositsBounded
<1> QED BY <1>1, <1>2, <1>3, <1>5, <1>6 DEF RequestsInv

LEMMA KeptAuthenticate ==
  ASSUME RequestsInv, NEW c \in Calls, NEW a \in Creds, NEW ask \in Asks, Authenticate(c, a, ask)
  PROVE  RequestsInv'
<1> DEFINE s == [step |-> "request", ask |-> ask, cred |-> a]
<1>1. s \in CallStates /\ s.step = "request" /\ s.ask = ask /\ s.cred = a
  BY DEF CallStates, ApiCalls
<1>2. call' = [call EXCEPT ![c] = s]
  BY DEF Authenticate
<1> HIDE DEF s
<1>3. Fine(s)
  BY <1>1 DEF Authenticate, Fine, ApiFine, BotFine, KeyFine, InApi
<1>4. \A d \in Calls : ~Clash(s, call[d])
  BY <1>1 DEF Clash, InApi
<1> QED BY <1>1, <1>2, <1>3, <1>4, QuietCall DEF Authenticate, rowVars

LEMMA KeptRevalidate ==
  ASSUME RequestsInv, NEW c \in Calls, Revalidate(c) PROVE RequestsInv'
<1> DEFINE s == [call[c] EXCEPT !.step = "valid"]
<1>1. s \in CallStates /\ s.step = "valid" /\ s.ask = call[c].ask /\ s.cred = call[c].cred
  BY CallTyped, ApiStep DEF RequestsInv, Revalidate
<1>2. call' = [call EXCEPT ![c] = s]
  BY DEF Revalidate, Goes
<1> HIDE DEF s
<1>3. Fine(call[c]) /\ call[c].step = "request"
  BY DEF RequestsInv, CallsFine, Revalidate
<1>4. Fine(s)
  BY <1>1, <1>3 DEF Revalidate, Fine, ApiFine, BotFine, KeyFine, InApi, User
<1>5. \A d \in Calls : ~Clash(s, call[d])
  BY <1>1 DEF Clash, InApi, Revalidate, ArbitrationFree
<1> QED BY <1>1, <1>2, <1>4, <1>5, QuietCall DEF Revalidate, rowVars

\* Steps under the arbitration lock.
LEMMA KeptInside ==
  ASSUME RequestsInv, NEW c \in Calls, Replay(c) \/ Admit(c) \/ Secure(c) PROVE RequestsInv'
<1>1. PICK step \in {"answer", "admitted", "secured"} :
        /\ Goes(c, step)
        /\ step = "answer" => Replay(c)
        /\ step = "admitted" => Admit(c)
        /\ step = "secured" => Secure(c)
  BY DEF Replay, Admit, Secure
<1> DEFINE s == [call[c] EXCEPT !.step = step]
<1>2. call[c].step \in {"valid", "admitted"} /\ Fine(call[c])
  BY DEF Replay, Admit, Secure, RequestsInv, CallsFine
<1>3. s \in CallStates /\ s.step = step /\ s.ask = call[c].ask /\ s.cred = call[c].cred
  <2>1. call[c] \in ApiCalls
    BY <1>2, CallTyped DEF RequestsInv, InApi
  <2> QED BY <2>1 DEF ApiCalls, CallStates
<1>4. call' = [call EXCEPT ![c] = s]
  BY <1>1 DEF Goes
<1> HIDE DEF s
<1>5. \A d \in Calls : d # c => ~Clash(s, call[d])
  BY <1>2, <1>3 DEF RequestsInv, CallsApart, Clash, InApi
<1>6. Fine(s)
  <2>1. CASE step = "answer"
    <3>1. call[c].ask \in Asks /\ call[c].ask.key \in ApiKeys
      BY <1>2, CallTyped DEF RequestsInv, Fine, ApiFine, InApi
    <3>2. made[call[c].ask.key] = <<call[c].ask.body>>
      BY <1>1, <2>1, <3>1, AskTyped DEF Replay, RequestsInv, ApiRows
    <3> QED BY <1>3, <2>1, <3>2 DEF Fine, ApiFine, BotFine, KeyFine, InApi
  <2>2. CASE step = "admitted"
    BY <1>1, <1>2, <1>3, <2>2 DEF Admit, Fine, ApiFine, BotFine, KeyFine, InApi
  <2>3. CASE step = "secured"
    BY <1>1, <1>2, <1>3, <2>3 DEF Secure, Fine, ApiFine, BotFine, KeyFine, InApi, User
  <2> QED BY <2>1, <2>2, <2>3
<1>7. UNCHANGED <<rowVars, ruleVars>>
  BY DEF Replay, Admit, Secure
<1> QED BY <1>3, <1>4, <1>5, <1>6, <1>7, QuietCall DEF rowVars

\* A call is answered or lost.
LEMMA KeptEnds ==
  ASSUME RequestsInv, NEW c \in Calls, Answer(c) \/ Drop(c) PROVE RequestsInv'
BY QuietEnd DEF Answer, Drop

LEMMA KeptTakeCallback ==
  ASSUME RequestsInv, NEW c \in Calls, NEW ask \in Asks, TakeCallback(c, ask) PROVE RequestsInv'
<1>1. PICK step \in {"answer", "place"} :
        /\ call' = [call EXCEPT ![c] = [step |-> step, ask |-> ask]]
        /\ step = "answer" => Shown(ask.key)
  BY DEF TakeCallback
<1> DEFINE s == [step |-> step, ask |-> ask]
<1>2. s \in CallStates /\ s.step = step /\ s.ask = ask
  BY DEF CallStates, BotCalls
<1>3. call' = [call EXCEPT ![c] = s]
  BY <1>1
<1> HIDE DEF s
<1>4. step = "answer" => made[ask.key] = <<ask.body>>
  BY <1>1, BotRow DEF Shown, TakeCallback
<1>5. Fine(s)
  BY <1>2, <1>4 DEF TakeCallback, Fine, ApiFine, BotFine, KeyFine, InApi
<1>6. \A d \in Calls : ~Clash(s, call[d])
  BY <1>2 DEF Clash, InApi
<1> QED BY <1>2, <1>3, <1>5, <1>6, QuietCall DEF TakeCallback, rowVars

LEMMA KeptLookAgain ==
  ASSUME RequestsInv, NEW c \in Calls, LookAgain(c) PROVE RequestsInv'
<1>1. /\ call[c] \in Waiting /\ call[c].step = "wait"
      /\ call[c].ask \in Asks /\ call[c].ask.key \in BotKeys
  BY CallTyped DEF LookAgain, RequestsInv, CallsFine, Fine, BotFine
<1>2. CASE Goes(c, "answer") /\ Shown(call[c].ask.key)
  <2> DEFINE s == [call[c] EXCEPT !.step = "answer"]
  <2>1. s \in CallStates /\ s.step = "answer" /\ s.ask = call[c].ask
    BY <1>1, WaitStep
  <2>2. call' = [call EXCEPT ![c] = s]
    BY <1>2 DEF Goes
  <2> HIDE DEF s
  <2>3. made[s.ask.key] = <<s.ask.body>>
    BY <1>1, <1>2, <2>1, BotRow DEF Shown
  <2>4. Fine(s)
    BY <2>1, <2>3 DEF Fine, ApiFine, BotFine, KeyFine, InApi
  <2>5. \A d \in Calls : ~Clash(s, call[d])
    BY <2>1 DEF Clash, InApi
  <2> QED BY <2>1, <2>2, <2>4, <2>5, QuietCall DEF LookAgain, rowVars
<1>3. CASE call' = [call EXCEPT ![c].looks = @ + 1]
  <2> DEFINE s == [call[c] EXCEPT !.looks = @ + 1]
  <2>1. s \in CallStates /\ s.step = "wait" /\ s.ask = call[c].ask
    BY <1>1, WaitStep
  <2>2. call' = [call EXCEPT ![c] = s]
    BY <1>3
  <2> HIDE DEF s
  <2>3. Fine(s)
    BY <1>1, <2>1 DEF Fine, ApiFine, BotFine, KeyFine, InApi
  <2>4. \A d \in Calls : ~Clash(s, call[d])
    BY <2>1 DEF Clash, InApi
  <2> QED BY <2>1, <2>2, <2>3, <2>4, QuietCall DEF LookAgain, rowVars
<1>4. CASE Ends(c)
  BY <1>4, QuietEnd DEF LookAgain
<1> QED BY <1>2, <1>3, <1>4 DEF LookAgain

LEMMA KeptBeginKey ==
  ASSUME RequestsInv, NEW c \in Calls, NEW u \in Users, BeginKey(c, u) PROVE RequestsInv'
<1> DEFINE s == [step |-> "newkey", user |-> u]
<1>1. s \in CallStates /\ s.step = "newkey" /\ s.user = u
  BY DEF CallStates, NewKeys
<1>2. call' = [call EXCEPT ![c] = s]
  BY DEF BeginKey
<1> HIDE DEF s
<1>3. Fine(s)
  BY <1>1 DEF BeginKey, Fine, ApiFine, BotFine, KeyFine, InApi
<1>4. \A d \in Calls : ~Clash(s, call[d])
  BY <1>1 DEF Clash, InApi, BeginKey, AccessFree, AccessHeld
<1> QED BY <1>1, <1>2, <1>3, <1>4, QuietCall DEF BeginKey, rowVars

-----------------------------------------------------------------------------
(* Steps that make rows.                                                   *)

LEMMA RoomForOne ==
  ASSUME NEW S, IsFiniteSet(S), NEW x, NEW n \in Nat, Cardinality(S) < n
  PROVE  IsFiniteSet(S \cup {x}) /\ Cardinality(S \cup {x}) <= n
<1>1. Cardinality(S) \in Nat
  BY FS_CardinalityType
<1>2. /\ IsFiniteSet(S \cup {x})
      /\ Cardinality(S \cup {x}) = IF x \in S THEN Cardinality(S) ELSE Cardinality(S) + 1
  BY FS_AddElement
<1> QED BY <1>1, <1>2

LEMMA OneMore ==
  ASSUME RequestsInv, NEW k \in Keys, pending' \in {pending, pending \cup {k}},
         pending' # pending => HasRoom(Owner[k])
  PROVE  IsFiniteSet(pending') /\ DepositsBounded'
<1>1. IsFiniteSet(pending) /\ IsFiniteSet(pending')
  BY FS_AddElement DEF RequestsInv, Finite
<1>2. SUFFICES ASSUME NEW u \in Users
               PROVE  Cardinality({d \in pending' : Owner[d] = u}) <= MaxPending
  BY <1>1 DEF DepositsBounded
<1> DEFINE W == {d \in pending : Owner[d] = u}
<1>3. Cardinality(W) <= MaxPending /\ IsFiniteSet(W) /\ Cardinality(W) \in Nat
  <2>1. W \in SUBSET pending
    OBVIOUS
  <2>2. IsFiniteSet(W)
    BY <1>1, <2>1, FS_Subset
  <2> QED BY <2>2, FS_CardinalityType DEF RequestsInv, DepositsBounded
<1>4. CASE {d \in pending' : Owner[d] = u} = W
  BY <1>3, <1>4
<1>5. CASE {d \in pending' : Owner[d] = u} # W
  <2>1. Owner[k] = u /\ {d \in pending' : Owner[d] = u} = W \cup {k} /\ pending' # pending
    BY <1>5
  <2>2. Cardinality(W) < MaxPending
    BY <2>1 DEF HasRoom
  <2>3. MaxPending \in Nat
    BY RequestsAssumption
  <2> HIDE DEF W
  <2>5. Cardinality(W \cup {k}) <= MaxPending
    BY <1>3, <2>2, <2>3, RoomForOne
  <2> QED BY <2>1, <2>5
<1> QED BY <1>4, <1>5

LEMMA Appended == ASSUME NEW b PROVE Append(<<>>, b) = <<b>> /\ <<b>> # <<>>
OBVIOUS

\* The first row for the key of a call, which goes on to step s.
LEMMA FirstRow ==
  ASSUME RequestsInv, NEW c \in Calls, NEW ask \in Asks, made[ask.key] = <<>>,
         NEW price \in Nat, price <= balance[Owner[ask.key]],
         Create(ask.key, ask.body, price),
         ask.key \in Deposits => HasRoom(Owner[ask.key]),
         \A d \in Calls : d # c => call[d].step \notin InApi,
         NEW s \in CallStates, s.ask = ask,
         s.step = "answer" \/ (s.step = "method" /\ ask.key \in BotKeys),
         call' = [call EXCEPT ![c] = s], UNCHANGED ruleVars,
         IF ask.key \in ApiKeys THEN receipt' = [receipt EXCEPT ![ask.key] = ask.body]
         ELSE UNCHANGED receipt
  PROVE  RequestsInv'
<1> DEFINE k == ask.key
<1>1. k \in Keys /\ Owner[k] \in Users /\ ask.body \in Bodies /\ ask.body # "none"
  BY AskTyped
<1>2. UNCHANGED <<access, cred, locked, open>>
  BY DEF ruleVars
<1>3. made' = [made EXCEPT ![k] = <<ask.body>>] /\ balance' = [balance EXCEPT ![Owner[k]] = @ - price]
  BY Appended DEF Create
<1>4. /\ call'[c] = s /\ call' \in [Calls -> CallStates]
      /\ \A d \in Calls : d # c => call'[d] = call[d]
  BY DEF RequestsInv, TypeOK
<1>5. \A q \in Keys : made'[q] = IF q = k THEN <<ask.body>> ELSE made[q]
  BY <1>1, <1>3 DEF RequestsInv, TypeOK
<1>6. TypeOK'
  <2>1. made' \in [Keys -> Seq(Bodies)]
    <3>1. <<ask.body>> \in Seq(Bodies)
      BY <1>1
    <3> QED BY <1>1, <1>3, <3>1 DEF RequestsInv, TypeOK
  <2>2. receipt' \in [ApiKeys -> Bodies \cup {"none"}]
    BY <1>1 DEF RequestsInv, TypeOK
  <2>3. balance' \in [Users -> Nat]
    <3>1. balance \in [Users -> Nat] /\ balance[Owner[k]] \in Nat
      BY <1>1 DEF RequestsInv, TypeOK
    <3>2. balance[Owner[k]] - price \in Nat
      BY <3>1
    <3> QED BY <1>1, <1>3, <3>1, <3>2
  <2> QED BY <1>2, <1>4, <2>1, <2>2, <2>3 DEF RequestsInv, TypeOK
<1>7. ApiRows'
  <2> SUFFICES ASSUME NEW q \in ApiKeys
               PROVE  made'[q] = IF receipt'[q] = "none" THEN <<>> ELSE <<receipt'[q]>>
    BY DEF ApiRows
  <2>1. CASE q = k
    BY <1>1, <1>5, <2>1 DEF RequestsInv, TypeOK
  <2>2. CASE q # k
    <3>1. receipt'[q] = receipt[q]
      BY <2>2 DEF RequestsInv, TypeOK
    <3>2. made'[q] = made[q]
      BY <1>5, <2>2 DEF Keys
    <3> QED BY <3>1, <3>2 DEF RequestsInv, ApiRows
  <2> QED BY <2>1, <2>2
<1>8. BotRows'
  BY <1>5 DEF RequestsInv, BotRows, Keys
<1>9. Finite' /\ KeysUnderControl' /\ DepositsBounded'
  <2>1. IsFiniteSet(pending') /\ DepositsBounded'
    BY <1>1, OneMore DEF Create
  <2>2. \A u \in Users : IsFiniteSet(Active(u)')
    BY <1>2 DEF RequestsInv, Finite, Active
  <2>3. KeysUnderControl'
    BY <1>2 DEF RequestsInv, KeysUnderControl, Active
  <2> QED BY <2>1, <2>2, <2>3 DEF Finite
<1>10. CallsApart'
  BY <1>4 DEF RequestsInv, CallsApart, Clash, InApi
<1>11. Fine(s)'
  <2>1. made'[s.ask.key] = <<s.ask.body>>
    BY <1>1, <1>5
  <2> QED BY <2>1 DEF Fine, ApiFine, BotFine, KeyFine, InApi
<1>12. ASSUME NEW d \in Calls, d # c PROVE Fine(call[d])'
  <2>1. PICK t \in CallStates : t = call[d]
    BY CallTyped DEF RequestsInv
  <2>2. Fine(t) /\ t.step \notin InApi
    BY <1>12, <2>1 DEF RequestsInv, CallsFine
  <2>3. ApiFine(t)' /\ KeyFine(t)'
    BY <1>2, <2>2 DEF Fine, ApiFine, KeyFine, Active, InApi
  <2>4. BotFine(t)'
    <3>1. t.step \in {"method", "answer"} => t.ask \in Asks /\ t.ask.key \in Keys
      BY <2>1, CallTyped, AskTyped DEF RequestsInv
    <3>2. t.step \in {"method", "answer"} => t.ask.key # k
      BY <2>2, Appended DEF Fine, BotFine
    <3> QED BY <1>5, <2>2, <3>1, <3>2 DEF Fine, BotFine
  <2> QED BY <1>4, <1>12, <2>1, <2>3, <2>4 DEF Fine, ApiFine, BotFine, KeyFine
<1>13. CallsFine'
  <2> SUFFICES ASSUME NEW d \in Calls PROVE Fine(call[d])'
    BY DEF CallsFine
  <2>1. CASE d = c
    BY <1>4, <1>11, <2>1 DEF Fine, ApiFine, BotFine, KeyFine
  <2> QED BY <1>12, <2>1
<1> QED BY <1>6, <1>7, <1>8, <1>9, <1>10, <1>13 DEF RequestsInv

LEMMA KeptCommit ==
  ASSUME RequestsInv, NEW c \in Calls, Commit(c) PROVE RequestsInv'
<1>1. PICK t \in ApiCalls : t = call[c]
  BY CallTyped DEF RequestsInv, Commit, InApi
<1>2. PICK ask \in Asks : ask = t.ask
  BY <1>1 DEF ApiCalls
<1> DEFINE s == [t EXCEPT !.step = "answer"]
<1>3. s \in CallStates /\ s.ask = ask /\ s.step = "answer"
  BY <1>2 DEF ApiCalls, CallStates
<1>4. /\ receipt[ask.key] = "none" /\ receipt' = [receipt EXCEPT ![ask.key] = ask.body]
      /\ Create(ask.key, ask.body, Price[ask])
      /\ call' = [call EXCEPT ![c] = s] /\ UNCHANGED ruleVars
  BY <1>1, <1>2 DEF Commit, Goes
<1> HIDE DEF s
<1>5. t.step = "secured" /\ Fine(t)
  BY <1>1 DEF Commit, RequestsInv, CallsFine
<1>6. /\ ask.key \in ApiKeys
      /\ IF ask.key \in Deposits THEN HasRoom(Owner[ask.key])
         ELSE balance[Owner[ask.key]] >= Price[ask]
  BY <1>2, <1>5 DEF Fine, ApiFine, InApi
<1>7. made[ask.key] = <<>>
  BY <1>4, <1>6 DEF RequestsInv, ApiRows
<1>8. Price[ask] \in Nat /\ Price[ask] <= balance[Owner[ask.key]]
  <2>1. CASE ask.key \in Deposits
    <3>1. Price[ask] = 0
      BY <2>1, RequestsAssumption
    <3>2. balance[Owner[ask.key]] \in Nat
      BY AskTyped DEF RequestsInv, TypeOK
    <3> QED BY <3>1, <3>2
  <2>2. CASE ask.key \notin Deposits
    BY <1>6, <2>2, AskTyped
  <2> QED BY <2>1, <2>2
<1>9. \A d \in Calls : d # c => call[d].step \notin InApi
  BY <1>1, <1>5 DEF RequestsInv, CallsApart, Clash, InApi
<1> QED BY <1>3, <1>4, <1>6, <1>7, <1>8, <1>9, FirstRow

LEMMA KeptPlace ==
  ASSUME RequestsInv, NEW c \in Calls, Place(c) PROVE RequestsInv'
<1>1. PICK ask \in Asks : ask = call[c].ask
  BY CallTyped DEF RequestsInv, Place
<1>2. /\ call[c] \in BotCalls /\ call[c].step = "place" /\ ask.key \in BotKeys
      /\ UNCHANGED ruleVars /\ \A d \in Calls : call[d].step \notin InApi
  BY <1>1, CallTyped DEF Place, RequestsInv, CallsFine, Fine, BotFine, ArbitrationFree
<1>3. ask.key \notin ApiKeys
  BY <1>2, RequestsAssumption
<1>4. CASE made[ask.key] # <<>> /\ UNCHANGED rowVars
  <2>1. PICK s \in CallStates :
          /\ s.ask = ask /\ s.step \in {"answer", "wait"}
          /\ call' = [call EXCEPT ![c] = s]
    <3>1. [step |-> "answer", ask |-> ask] \in CallStates
      BY DEF CallStates, BotCalls
    <3>2. [step |-> "wait", ask |-> ask, looks |-> 0] \in CallStates
      BY DEF CallStates, Waiting
    <3>3. \/ call' = [call EXCEPT ![c] = [step |-> "answer", ask |-> ask]]
          \/ call' = [call EXCEPT ![c] = [step |-> "wait", ask |-> ask, looks |-> 0]]
      BY <1>1, <1>4 DEF Place
    <3> QED BY <3>1, <3>2, <3>3
  <2>2. made[ask.key] = <<ask.body>>
    BY <1>2, <1>4, BotRow
  <2>3. Fine(s)
    BY <1>2, <2>1, <2>2 DEF Fine, ApiFine, BotFine, KeyFine, InApi
  <2>4. \A d \in Calls : ~Clash(s, call[d])
    BY <2>1 DEF Clash, InApi
  <2> QED BY <1>2, <1>4, <2>1, <2>3, <2>4, QuietCall DEF rowVars
<1>5. CASE /\ made[ask.key] = <<>>
           /\ ask.key \in BotDeposits => HasRoom(User(c))
           /\ Create(ask.key, ask.body, 0) /\ UNCHANGED receipt
           /\ Goes(c, IF ask.key \in BotDeposits THEN "answer" ELSE "method")
  <2>1. PICK step \in {"answer", "method"} : Goes(c, step)
    BY <1>5
  <2> DEFINE s == [call[c] EXCEPT !.step = step]
  <2>2. s \in CallStates /\ s.ask = ask /\ s.step = step
    BY <1>1, <1>2 DEF BotCalls, CallStates
  <2>3. call' = [call EXCEPT ![c] = s]
    BY <2>1 DEF Goes
  <2> HIDE DEF s
  <2>4. ask.key \in Deposits => HasRoom(Owner[ask.key])
    BY <1>1, <1>3, <1>5 DEF User, Deposits, ApiKeys
  <2>5. 0 <= balance[Owner[ask.key]]
    BY AskTyped DEF RequestsInv, TypeOK
  <2> QED BY <1>2, <1>3, <1>5, <2>2, <2>3, <2>4, <2>5, FirstRow
<1> QED BY <1>1, <1>2, <1>4, <1>5 DEF Place

LEMMA KeptApplyMethod ==
  ASSUME RequestsInv, NEW c \in Calls, ApplyMethod(c) PROVE RequestsInv'
<1>1. call[c] \in BotCalls /\ Fine(call[c]) /\ call[c].step = "method"
  BY CallTyped DEF ApplyMethod, RequestsInv, CallsFine
<1> DEFINE s == [call[c] EXCEPT !.step = "answer"]
<1>2. s \in CallStates /\ s.step = "answer" /\ s.ask = call[c].ask
  BY <1>1, BotStep
<1>3. call' = [call EXCEPT ![c] = s]
  BY DEF ApplyMethod, Goes
<1> HIDE DEF s
<1>4. Fine(s)
  BY <1>1, <1>2 DEF Fine, ApiFine, BotFine, KeyFine, InApi
<1>5. \A d \in Calls : ~Clash(s, call[d])
  BY <1>2 DEF Clash, InApi
<1> QED BY <1>2, <1>3, <1>4, <1>5, QuietCall DEF ApplyMethod, ruleVars

-----------------------------------------------------------------------------
(* The customers, the owner and the administrators.                        *)

LEMMA KeptCustomer ==
  ASSUME RequestsInv, NEW k \in Keys, ChooseMethod(k) \/ DepositEnds(k) PROVE RequestsInv'
<1>1. /\ UNCHANGED <<made, receipt, balance, call, access, cred, locked, open>>
      /\ ArbitrationFree /\ pending' \in {pending, pending \ {k}}
  BY DEF ChooseMethod, DepositEnds, ruleVars
<1>2. pending' \subseteq pending /\ IsFiniteSet(pending) /\ IsFiniteSet(pending')
  BY <1>1, FS_Subset DEF RequestsInv, Finite
<1>3. \A u \in Users : Cardinality({d \in pending' : Owner[d] = u})
                          <= Cardinality({d \in pending : Owner[d] = u})
  <2> TAKE u \in Users
  <2>1. {d \in pending' : Owner[d] = u} \in SUBSET {d \in pending : Owner[d] = u}
    BY <1>2
  <2>2. IsFiniteSet({d \in pending : Owner[d] = u})
    <3>1. {d \in pending : Owner[d] = u} \in SUBSET pending
      OBVIOUS
    <3> QED BY <1>2, <3>1, FS_Subset
  <2> QED BY <2>1, <2>2, FS_Subset
<1>4. DepositsBounded'
  <2> SUFFICES ASSUME NEW u \in Users
               PROVE  Cardinality({d \in pending' : Owner[d] = u}) <= MaxPending
    BY DEF DepositsBounded
  <2> DEFINE m == Cardinality({d \in pending' : Owner[d] = u})
             n == Cardinality({d \in pending : Owner[d] = u})
  <2>1. m <= n /\ n <= MaxPending
    BY <1>3 DEF RequestsInv, DepositsBounded
  <2>2. m \in Nat /\ n \in Nat /\ MaxPending \in Nat
    <3>1. {d \in pending : Owner[d] = u} \in SUBSET pending
          /\ {d \in pending' : Owner[d] = u} \in SUBSET pending'
      OBVIOUS
    <3>2. IsFiniteSet({d \in pending : Owner[d] = u}) /\ IsFiniteSet({d \in pending' : Owner[d] = u})
      BY <1>2, <3>1, FS_Subset
    <3> QED BY <3>2, FS_CardinalityType, RequestsAssumption
  <2> HIDE DEF m, n
  <2>3. m <= MaxPending
    BY <2>1, <2>2
  <2> QED BY <2>3 DEF m
<1>5. Finite' /\ KeysUnderControl'
  BY <1>1, <1>2 DEF RequestsInv, Finite, KeysUnderControl, Active
<1>6. CallsFine'
  <2> SUFFICES ASSUME NEW c \in Calls PROVE Fine(call[c])'
    BY DEF CallsFine
  <2>1. PICK s : s = call[c] /\ s = call'[c]
    BY <1>1
  <2>2. Fine(s) /\ s.step \notin InApi
    BY <1>1, <2>1 DEF RequestsInv, CallsFine, ArbitrationFree
  <2>3. Fine(s)'
    BY <1>1, <2>2 DEF Fine, ApiFine, BotFine, KeyFine, InApi, Active
  <2> QED BY <2>1, <2>3 DEF Fine, ApiFine, BotFine, KeyFine
<1>7. TypeOK' /\ ApiRows' /\ BotRows' /\ CallsApart'
  BY <1>1 DEF RequestsInv, TypeOK, ApiRows, BotRows, CallsApart, Clash
<1> QED BY <1>4, <1>5, <1>6, <1>7 DEF RequestsInv

\* Rules change; every call goes on undisturbed, or ends.
LEMMA RulesChange ==
  ASSUME RequestsInv, UNCHANGED rowVars,
         cred' \in [Creds -> {"absent", "active", "revoked"}],
         call' \in [Calls -> CallStates],
         \A c \in Calls : call'[c] \in {call[c], Idle},
         \A c \in Calls : \A s \in CallStates :
           s = call[c] /\ s = call'[c] /\ Fine(s) => ApiFine(s)' /\ KeyFine(s)',
         \A u \in Users : /\ IsFiniteSet(Active(u)')
                         /\ Cardinality(Active(u)') <= IF u \in access' THEN MaxActive ELSE 0
  PROVE  RequestsInv'
<1>1. UNCHANGED <<made, receipt, pending, balance>>
  BY DEF rowVars
<1>2. TypeOK' /\ ApiRows' /\ BotRows'
  BY <1>1 DEF RequestsInv, TypeOK, ApiRows, BotRows
<1>3. CallsApart'
  BY DEF RequestsInv, CallsApart, Clash, Idle, InApi
<1>4. CallsFine'
  <2> SUFFICES ASSUME NEW c \in Calls PROVE Fine(call[c])'
    BY DEF CallsFine
  <2>1. PICK s \in CallStates : s = call'[c]
    OBVIOUS
  <2>2. CASE s = Idle
    BY <2>1, <2>2 DEF Fine, ApiFine, BotFine, KeyFine, Idle, InApi
  <2>3. CASE s = call[c]
    <3>1. Fine(s)
      BY <2>3 DEF RequestsInv, CallsFine
    <3>2. ApiFine(s)' /\ KeyFine(s)'
      BY <2>1, <2>3, <3>1
    <3>3. BotFine(s)'
      BY <1>1, <3>1 DEF Fine, BotFine
    <3> QED BY <2>1, <3>2, <3>3 DEF Fine, ApiFine, BotFine, KeyFine
  <2> QED BY <2>1, <2>2, <2>3
<1>5. Finite' /\ KeysUnderControl' /\ DepositsBounded'
  BY <1>1 DEF RequestsInv, Finite, KeysUnderControl, DepositsBounded
<1> QED BY <1>2, <1>3, <1>4, <1>5 DEF RequestsInv

LEMMA FewerKeys ==
  ASSUME RequestsInv, NEW u \in Users, Active(u)' \subseteq Active(u)
  PROVE  /\ IsFiniteSet(Active(u)')
         /\ Cardinality(Active(u)') <= IF u \in access THEN MaxActive ELSE 0
<1>1. IsFiniteSet(Active(u)) /\ Cardinality(Active(u)) <= IF u \in access THEN MaxActive ELSE 0
  BY DEF RequestsInv, Finite, KeysUnderControl
<1>2. PICK S, T : S = Active(u) /\ T = Active(u)'
  OBVIOUS
<1>3. IsFiniteSet(T) /\ Cardinality(T) <= Cardinality(S)
  BY <1>1, <1>2, FS_Subset
<1>4. Cardinality(T) \in Nat /\ Cardinality(S) \in Nat /\ MaxActive \in Nat
  BY <1>1, <1>2, <1>3, FS_CardinalityType, RequestsAssumption
<1> QED BY <1>1, <1>2, <1>3, <1>4

LEMMA KeptRevoke ==
  ASSUME RequestsInv, NEW a \in Creds, RevokeKey(a) PROVE RequestsInv'
<1>1. /\ cred' = [cred EXCEPT ![a] = "revoked"] /\ AccessFree(CredOwner[a])
      /\ UNCHANGED <<rowVars, access, locked, open, call>>
  BY DEF RevokeKey
<1>2. cred' \in [Creds -> {"absent", "active", "revoked"}]
  BY <1>1 DEF RequestsInv, TypeOK
<1>3. \A b \in Creds : b # a => cred'[b] = cred[b]
  BY <1>1 DEF RequestsInv, TypeOK
<1>4. \A u \in Users : Active(u)' \subseteq Active(u)
  BY <1>1, <1>3 DEF Active, RequestsInv, TypeOK
<1>5. ASSUME NEW c \in Calls, NEW s \in CallStates, s = call[c], Fine(s)
      PROVE  ApiFine(s)' /\ KeyFine(s)'
  <2>1. s.step \in InApi => s.cred \in Creds /\ s.cred # a
    <3> HAVE s.step \in InApi
    <3>1. Owner[s.ask.key] # CredOwner[a]
      BY <1>1, <1>5 DEF AccessFree, AccessShared, User
    <3>2. s.cred \in Creds
      BY <1>5, CallTyped DEF RequestsInv, ApiCalls
    <3> QED BY <1>5, <3>1, <3>2 DEF Fine, ApiFine
  <2>2. ApiFine(s)'
    BY <1>1, <1>3, <1>5, <2>1 DEF Fine, ApiFine, HasRoom, rowVars, InApi
  <2>3. KeyFine(s)'
    <3> SUFFICES ASSUME s.step = "newkey"
                 PROVE  s.user \in access' /\ Cardinality(Active(s.user)') < MaxActive
      BY DEF KeyFine, Active
    <3>1. s.user # CredOwner[a]
      BY <1>1, <1>5 DEF AccessFree, AccessHeld
    <3>2. Active(s.user)' = Active(s.user)
      BY <1>3, <3>1 DEF Active
    <3> QED BY <1>1, <1>5, <3>2 DEF Fine, KeyFine
  <2> QED BY <2>2, <2>3
<1>6. \A u \in Users : /\ IsFiniteSet(Active(u)')
                      /\ Cardinality(Active(u)') <= IF u \in access' THEN MaxActive ELSE 0
  BY <1>1, <1>4, FewerKeys
<1>7. call' \in [Calls -> CallStates] /\ \A c \in Calls : call'[c] \in {call[c], Idle}
  BY <1>1 DEF RequestsInv, TypeOK
<1> QED BY <1>1, <1>2, <1>5, <1>6, <1>7, RulesChange

LEMMA KeptDisable ==
  ASSUME RequestsInv, NEW u \in Users, Disable(u) PROVE RequestsInv'
<1>1. /\ cred' = [a \in Creds |-> IF a \in Active(u) THEN "revoked" ELSE cred[a]]
      /\ access' = access \ {u} /\ AccessFree(u)
      /\ UNCHANGED <<rowVars, locked, open, call>>
  BY DEF Disable
<1>2. cred' \in [Creds -> {"absent", "active", "revoked"}]
  BY <1>1 DEF RequestsInv, TypeOK
<1>3. \A b \in Creds : CredOwner[b] # u => cred'[b] = cred[b]
  BY <1>1 DEF Active
<1>4. Active(u)' = {} /\ \A v \in Users : Active(v)' \subseteq Active(v)
  BY <1>1 DEF Active
<1>5. ASSUME NEW c \in Calls, NEW s \in CallStates, s = call[c], Fine(s)
      PROVE  ApiFine(s)' /\ KeyFine(s)'
  <2>1. s.step \in InApi => s.cred \in Creds /\ CredOwner[s.cred] # u /\ Owner[s.ask.key] # u
    <3> HAVE s.step \in InApi
    <3>1. Owner[s.ask.key] # u
      BY <1>1, <1>5 DEF AccessFree, AccessShared, User
    <3>2. s.cred \in Creds
      BY <1>5, CallTyped DEF RequestsInv, ApiCalls
    <3> QED BY <1>5, <3>1, <3>2 DEF Fine, ApiFine
  <2>2. ApiFine(s)'
    BY <1>1, <1>3, <1>5, <2>1 DEF Fine, ApiFine, HasRoom, rowVars, InApi
  <2>3. KeyFine(s)'
    <3> SUFFICES ASSUME s.step = "newkey"
                 PROVE  s.user \in access' /\ Cardinality(Active(s.user)') < MaxActive
      BY DEF KeyFine, Active
    <3>1. s.user # u
      BY <1>1, <1>5 DEF AccessFree, AccessHeld
    <3>2. Active(s.user)' = Active(s.user)
      BY <1>3, <3>1 DEF Active
    <3> QED BY <1>1, <1>5, <3>1, <3>2 DEF Fine, KeyFine
  <2> QED BY <2>2, <2>3
<1>6. \A v \in Users : /\ IsFiniteSet(Active(v)')
                      /\ Cardinality(Active(v)') <= IF v \in access' THEN MaxActive ELSE 0
  <2> TAKE v \in Users
  <2>1. CASE v = u
    BY <1>1, <1>4, <2>1, FS_EmptySet
  <2>2. CASE v # u
    BY <1>1, <1>4, <2>2, FewerKeys
  <2> QED BY <2>1, <2>2
<1>7. call' \in [Calls -> CallStates] /\ \A c \in Calls : call'[c] \in {call[c], Idle}
  BY <1>1 DEF RequestsInv, TypeOK
<1> QED BY <1>1, <1>2, <1>5, <1>6, <1>7, RulesChange

\* Steps that touch no key of the partners.
LEMMA KeptRules ==
  ASSUME RequestsInv, SetMaintenance \/ \E u \in Users : Enable(u) \/ LockCustomer(u)
  PROVE  RequestsInv'
<1>1. UNCHANGED <<rowVars, cred, call>> /\ access \subseteq access'
  BY DEF SetMaintenance, Enable, LockCustomer
<1>2. UNCHANGED open \/ StoreFree
  BY DEF SetMaintenance, Enable, LockCustomer
<1>3. UNCHANGED locked \/ \E u \in Users : UserFree(u) /\ locked' \subseteq locked \cup {u}
  BY DEF SetMaintenance, Enable, LockCustomer
<1>4. \A u \in Users : Active(u)' = Active(u)
  BY <1>1 DEF Active
<1>5. ASSUME NEW c \in Calls, NEW s \in CallStates, s = call[c], Fine(s)
      PROVE  ApiFine(s)' /\ KeyFine(s)'
  <2>1. s.step \in {"admitted", "secured"} => UNCHANGED open
    BY <1>2, <1>5 DEF StoreFree
  <2>2. s.step = "secured" => Owner[s.ask.key] \notin locked'
    <3> HAVE s.step = "secured"
    <3>1. Owner[s.ask.key] \notin locked
      BY <1>5 DEF Fine, ApiFine
    <3>2. \A u \in Users : UserFree(u) => Owner[s.ask.key] # u
      BY <1>5 DEF UserFree, User
    <3> QED BY <1>3, <3>1, <3>2
  <2>3. ApiFine(s)'
    BY <1>1, <1>5, <2>1, <2>2 DEF Fine, ApiFine, HasRoom, rowVars, InApi
  <2>4. KeyFine(s)'
    BY <1>1, <1>5 DEF Fine, KeyFine, Active
  <2> QED BY <2>3, <2>4
<1>6. \A u \in Users : /\ IsFiniteSet(Active(u)')
                      /\ Cardinality(Active(u)') <= IF u \in access' THEN MaxActive ELSE 0
  <2> TAKE u \in Users
  <2>1. IsFiniteSet(Active(u)') /\ Cardinality(Active(u)') <= IF u \in access THEN MaxActive ELSE 0
    BY <1>4, FewerKeys
  <2>2. Cardinality(Active(u)') \in Nat /\ MaxActive \in Nat
    BY <2>1, FS_CardinalityType, RequestsAssumption
  <2>3. CASE u \in access
    BY <1>1, <2>1, <2>3
  <2>4. CASE u \notin access
    <3>1. Cardinality(Active(u)') = 0
      BY <2>1, <2>2, <2>4
    <3> QED BY <2>1, <2>2, <3>1
  <2> QED BY <2>3, <2>4
<1>7. /\ call' \in [Calls -> CallStates] /\ \A c \in Calls : call'[c] \in {call[c], Idle}
      /\ cred' \in [Creds -> {"absent", "active", "revoked"}]
  BY <1>1 DEF RequestsInv, TypeOK
<1> QED BY <1>1, <1>5, <1>6, <1>7, RulesChange

LEMMA KeptInsertKey ==
  ASSUME RequestsInv, NEW c \in Calls, NEW a \in Creds, InsertKey(c, a) PROVE RequestsInv'
<1>1. PICK u \in Users : u = call[c].user /\ CredOwner[a] = u
  BY CallTyped DEF RequestsInv, InsertKey
<1>2. /\ cred[a] = "absent" /\ cred' = [cred EXCEPT ![a] = "active"]
      /\ call' = [call EXCEPT ![c] = Idle]
      /\ UNCHANGED <<rowVars, access, locked, open>>
  BY DEF InsertKey, Ends
<1>3. call[c].step = "newkey" /\ u \in access /\ Cardinality(Active(u)) < MaxActive
  BY <1>1 DEF InsertKey, RequestsInv, CallsFine, Fine, KeyFine
<1>4. cred' \in [Creds -> {"absent", "active", "revoked"}]
  BY <1>2 DEF RequestsInv, TypeOK
<1>5. cred'[a] = "active" /\ \A b \in Creds : b # a => cred'[b] = cred[b]
  BY <1>2 DEF RequestsInv, TypeOK
<1>6. Active(u)' = Active(u) \cup {a} /\ \A v \in Users : v # u => Active(v)' = Active(v)
  BY <1>1, <1>5 DEF Active
<1>7. ASSUME NEW d \in Calls, NEW s \in CallStates, s = call[d], s = call'[d], Fine(s)
      PROVE  ApiFine(s)' /\ KeyFine(s)'
  <2>1. s.step \in InApi => s.cred \in Creds
    BY <1>7, CallTyped DEF RequestsInv, ApiCalls
  <2>2. ApiFine(s)'
    BY <1>2, <1>5, <1>7, <2>1 DEF Fine, ApiFine, HasRoom, rowVars, InApi
  <2>3. KeyFine(s)'
    <3> SUFFICES ASSUME s.step = "newkey"
                 PROVE  s.user \in access' /\ Cardinality(Active(s.user)') < MaxActive
      BY DEF KeyFine, Active
    <3>1. call'[c].step = "idle"
      BY <1>2 DEF RequestsInv, TypeOK, Idle
    <3>2. d # c
      BY <1>7, <3>1
    <3>3. s.user \in Users /\ s.user # u
      BY <1>1, <1>3, <1>7, <3>2, CallTyped DEF RequestsInv, CallsApart, Clash
    <3>4. Active(s.user)' = Active(s.user)
      BY <1>6, <3>3 DEF Active
    <3> QED BY <1>2, <1>7, <3>4 DEF Fine, KeyFine
  <2> QED BY <2>2, <2>3
<1>8. \A v \in Users : /\ IsFiniteSet(Active(v)')
                      /\ Cardinality(Active(v)') <= IF v \in access' THEN MaxActive ELSE 0
  <2> TAKE v \in Users
  <2>1. CASE v = u
    <3>1. PICK S : S = Active(u) /\ Active(u)' = S \cup {a}
      BY <1>6
    <3>2. IsFiniteSet(S) /\ Cardinality(S) < MaxActive /\ MaxActive \in Nat
      BY <1>3, <3>1, RequestsAssumption DEF RequestsInv, Finite
    <3>3. IsFiniteSet(S \cup {a}) /\ Cardinality(S \cup {a}) <= MaxActive
      BY <3>2, RoomForOne
    <3> QED BY <1>2, <1>3, <2>1, <3>1, <3>3
  <2>2. CASE v # u
    BY <1>2, <1>6, <2>2, FewerKeys
  <2> QED BY <2>1, <2>2
<1>9. call' \in [Calls -> CallStates] /\ \A d \in Calls : call'[d] \in {call[d], Idle}
  BY <1>2, IdleFine DEF RequestsInv, TypeOK
<1>10. UNCHANGED rowVars
  BY <1>2
<1> QED BY <1>4, <1>7, <1>8, <1>9, <1>10, RulesChange

-----------------------------------------------------------------------------
(* The theorems.                                                           *)

\* The invariant holds for any number of users, keys and calls.
THEOREM RequestsKept == Spec => []RequestsInv
<1>1. Init => RequestsInv
  BY InitRequests
<1>2. RequestsInv /\ [Next]_vars => RequestsInv'
  <2> SUFFICES ASSUME RequestsInv, [Next]_vars PROVE RequestsInv'
    OBVIOUS
  <2>1. CASE \E c \in Calls : Partner(c)
    BY <2>1, KeptAuthenticate, KeptRevalidate, KeptInside, KeptCommit DEF Partner
  <2>2. CASE \E c \in Calls : Callback(c)
    BY <2>2, KeptTakeCallback, KeptPlace, KeptApplyMethod, KeptLookAgain DEF Callback
  <2>3. CASE \E c \in Calls : Answer(c) \/ Drop(c)
    BY <2>3, KeptEnds
  <2>4. CASE \E k \in Keys : ChooseMethod(k) \/ DepositEnds(k)
    BY <2>4, KeptCustomer
  <2>5. CASE KeyAdministration \/ SetMaintenance
    BY <2>5, KeptBeginKey, KeptInsertKey, KeptRevoke, KeptDisable, KeptRules
       DEF KeyAdministration
  <2>6. CASE UNCHANGED vars
    <3>1. \A c \in Calls : \A s \in CallStates :
            s = call[c] /\ s = call'[c] /\ Fine(s) => ApiFine(s)' /\ KeyFine(s)'
      BY <2>6 DEF vars, rowVars, ruleVars, Fine, ApiFine, KeyFine, HasRoom, Active
    <3>2. \A u \in Users : /\ IsFiniteSet(Active(u)')
                          /\ Cardinality(Active(u)') <= IF u \in access' THEN MaxActive ELSE 0
      BY <2>6, FewerKeys DEF vars, ruleVars, Active
    <3> QED BY <2>6, <3>1, <3>2, RulesChange DEF vars, ruleVars, RequestsInv, TypeOK
  <2> QED BY <2>1, <2>2, <2>3, <2>4, <2>5, <2>6 DEF Next
<1> QED BY <1>1, <1>2, PTL DEF Spec

\* No owner ever has more keys than MaxActive, or any without access,
\* although createKey counts them before it makes one.
THEOREM KeysStayUnderControl == Spec => []KeysUnderControl
<1>1. RequestsInv => KeysUnderControl
  BY DEF RequestsInv
<1> QED BY <1>1, RequestsKept, PTL

\* Partner requests and callbacks together leave a customer at most MaxPending
\* pending deposits (assertDepositCapacity).
THEOREM DepositsStayBounded == Spec => []DepositsBounded
<1>1. RequestsInv => DepositsBounded
  BY DEF RequestsInv
<1> QED BY <1>1, RequestsKept, PTL

\* Only a secured transaction makes a row for a partner's key.
LEMMA MadeByCommit ==
  ASSUME RequestsInv, [Next]_vars, NEW k \in ApiKeys, made'[k] # made[k]
  PROVE  \E c \in Calls : Commit(c) /\ call[c].ask.key = k
<1>1. k \in Keys /\ k \notin BotKeys
  BY RequestsAssumption DEF Keys
<1>2. CASE \E c \in Calls : Commit(c)
  BY <1>1, <1>2 DEF Commit, Create, RequestsInv, TypeOK
<1>3. CASE \E c \in Calls : Place(c)
  <2>1. PICK c \in Calls : Place(c)
    BY <1>3
  <2>2. call[c].ask.key # k
    BY <1>1, <2>1 DEF Place, RequestsInv, CallsFine, Fine, BotFine
  <2> QED BY <1>1, <2>1, <2>2 DEF Place, Create, rowVars, RequestsInv, TypeOK
<1>4. CASE UNCHANGED made
  BY <1>4
<1> QED
  BY <1>2, <1>3, <1>4
     DEF Next, vars, rowVars, Partner, Callback, KeyAdministration, Authenticate, Revalidate,
         Replay, Admit, Secure, Answer, Drop, TakeCallback, ApplyMethod, LookAgain, ChooseMethod,
         DepositEnds, BeginKey, InsertKey, RevokeKey, Disable, Enable, LockCustomer,
         SetMaintenance

\* What a key, an account or the shop no longer allows does not happen, even if
\* that changes while the request is being handled (revalidateInTransaction).
THEOREM RevokedMeansNothing == Spec => NothingAfterRevocation
<1> DEFINE Allowed(k) ==
      /\ open /\ Owner[k] \in access \ locked
      /\ \E c \in Calls : /\ call[c].step = "secured" /\ call[c].ask.key = k
                          /\ cred[call[c].cred] = "active"
<1>1. RequestsInv /\ [Next]_vars => [\A k \in ApiKeys : made'[k] # made[k] => Allowed(k)]_vars
  <2> SUFFICES ASSUME RequestsInv, [Next]_vars, NEW k \in ApiKeys, made'[k] # made[k]
               PROVE  Allowed(k)
    OBVIOUS
  <2>1. PICK c \in Calls : Commit(c) /\ call[c].ask.key = k
    BY MadeByCommit
  <2>2. call[c].step = "secured" /\ Fine(call[c])
    BY <2>1 DEF Commit, RequestsInv, CallsFine
  <2> QED BY <2>1, <2>2 DEF Fine, ApiFine, InApi
<1> QED BY <1>1, RequestsKept, PTL DEF Spec, NothingAfterRevocation

-----------------------------------------------------------------------------
(* Requests implements OnceOnly.                                           *)

LEMMA MakeStep ==
  ASSUME RequestsInv, NEW ask \in Asks, made[ask.key] = <<>>,
         Create(ask.key, ask.body, Price[ask]), Price[ask] <= balance[Owner[ask.key]],
         UNCHANGED told
  PROVE  Promise!Make(ask)
BY Appended DEF Create, Promise!Make

LEMMA OnceStep ==
  ASSUME RequestsInv, [Next]_vars
  PROVE  Promise!Next \/ UNCHANGED <<made, told, balance>>
<1>1. CASE \E c \in Calls : Commit(c)
  <2>1. PICK c \in Calls : Commit(c)
    BY <1>1
  <2>2. PICK ask \in Asks : ask = call[c].ask
    BY <2>1, CallTyped DEF Commit, RequestsInv
  <2>3. /\ receipt[ask.key] = "none" /\ Create(ask.key, ask.body, Price[ask])
        /\ call[c].step = "secured" /\ UNCHANGED told
    BY <2>1, <2>2 DEF Commit
  <2>4. /\ ask.key \in ApiKeys
        /\ ask.key \notin Deposits => balance[Owner[ask.key]] >= Price[ask]
    BY <2>2, <2>3 DEF RequestsInv, CallsFine, Fine, ApiFine, InApi
  <2>5. made[ask.key] = <<>>
    BY <2>3, <2>4 DEF RequestsInv, ApiRows
  <2>6. Price[ask] <= balance[Owner[ask.key]]
    <3>1. ask.key \in Deposits => Price[ask] = 0
      BY RequestsAssumption
    <3>2. balance[Owner[ask.key]] \in Nat /\ Price[ask] \in Nat
      BY AskTyped DEF RequestsInv, TypeOK
    <3> QED BY <2>4, <3>1, <3>2
  <2> QED BY <2>3, <2>5, <2>6, MakeStep DEF Promise!Next
<1>2. CASE \E c \in Calls : Place(c)
  <2>1. PICK c \in Calls : Place(c)
    BY <1>2
  <2>2. PICK ask \in Asks : ask = call[c].ask
    BY <2>1, CallTyped DEF Place, RequestsInv
  <2>3. CASE UNCHANGED rowVars
    BY <2>1, <2>3 DEF Place, rowVars
  <2>4. CASE made[ask.key] = <<>> /\ Create(ask.key, ask.body, 0)
    <3>1. ask.key \in BotKeys
      BY <2>1, <2>2 DEF Place, RequestsInv, CallsFine, Fine, BotFine
    <3>2. Price[ask] = 0
      BY <3>1, RequestsAssumption DEF ApiKeys
    <3>3. Price[ask] <= balance[Owner[ask.key]]
      BY <3>2, AskTyped DEF RequestsInv, TypeOK
    <3>4. UNCHANGED told
      BY <2>1 DEF Place
    <3> QED BY <2>4, <3>2, <3>3, <3>4, MakeStep DEF Promise!Next
  <2> QED BY <2>1, <2>2, <2>3, <2>4 DEF Place
<1>3. CASE \E c \in Calls : Answer(c)
  <2>1. PICK c \in Calls : Answer(c)
    BY <1>3
  <2>2. call[c].ask \in Asks /\ made[call[c].ask.key] = <<call[c].ask.body>>
    BY <2>1, CallTyped DEF Answer, RequestsInv, CallsFine, Fine, BotFine
  <2>3. Promise!Tell(call[c].ask)
    BY <2>1, <2>2 DEF Answer, rowVars, Promise!Tell
  <2> QED BY <2>2, <2>3 DEF Promise!Next
<1>4. CASE UNCHANGED <<made, told, balance>>
  BY <1>4
<1> QED
  BY <1>1, <1>2, <1>3, <1>4
     DEF Next, vars, rowVars, Partner, Callback, KeyAdministration, Authenticate, Revalidate,
         Replay, Admit, Secure, Drop, TakeCallback, ApplyMethod, LookAgain, ChooseMethod,
         DepositEnds, BeginKey, InsertKey, RevokeKey, Disable, Enable, LockCustomer,
         SetMaintenance

\* However often a request is repeated, in whatever words and after whatever
\* was lost, it takes effect once, is paid once, and answers are about what was
\* made: Requests implements OnceOnly.
THEOREM OncePromiseKept == Spec => KeepsOncePromise
<1>1. Init => Promise!Init
  BY DEF Init, Promise!Init
<1>2. RequestsInv /\ [Next]_vars => [Promise!Next]_<<made, told, balance>>
  BY OnceStep
<1> QED BY <1>1, <1>2, RequestsKept, PTL
        DEF Spec, KeepsOncePromise, Promise!Spec, Promise!vars
=============================================================================
