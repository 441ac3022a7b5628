--------------------------- MODULE PollLoops_proofs ---------------------------
(***************************************************************************)
(* Proofs about the loops of getUpdates: one asks at a time, and what      *)
(* Telegram forgets has been handled, however many loops, tokens, changes  *)
(* and updates there are.                                                  *)
(***************************************************************************)
EXTENDS PollLoops, TLAPS

Steps == {"top", "asking", "held", "batch", "handling"}
LoopState == [gen : Nat, token : Nat, step : Steps, offset : Nat, last : Nat]
Checks == [step : {"read", "getMe"}, token : Nat]

TypeOK ==
  /\ setting \in Nat /\ valid \in Nat /\ changes \in Nat /\ arrived \in Nat
  /\ confirmed \in Nat /\ up \in BOOLEAN
  /\ active \in Nat /\ generation \in Nat /\ bad \in Nat
  /\ supervisor \in {Idle} \cup Checks
  /\ loops \in SUBSET LoopState

\* Generations tell loops apart, and none is ahead.
Numbered ==
  \A l \in loops : l.gen <= generation /\ \A m \in loops : l.gen = m.gen => l = m

\* A loop that asks has not been stopped.
AskersCurrent == \A l \in loops : l.step \in {"asking", "held"} => Current(l)

\* A loop that was not stopped is the active one, and while the supervisor
\* checks a token there is none.
ActiveHasToken == \A l \in loops : Current(l) => active # Off
NoneWhileChecking == supervisor.step = "getMe" => active = Off /\ supervisor.token # Off

\* The loops by themselves.
LoopsApart == Numbered /\ AskersCurrent /\ ActiveHasToken

\* The updates before this one are let go by loop l.
Reach(l) == IF l.step = "handling" THEN l.offset - 1 ELSE l.offset

ForgottenHandled == \A u \in Nat \ {0} : u < confirmed => u \in handled
BehindHandled ==
  \A l \in loops : Current(l) => \A u \in Nat \ {0} : u < Reach(l) => u \in handled

\* The inductive invariant.
LoopInv ==
  /\ TypeOK /\ LoopsApart /\ NoneWhileChecking
  /\ ForgottenHandled /\ BehindHandled

-----------------------------------------------------------------------------
(* What a step does to the loops.                                          *)

LEMMA Moved ==
  ASSUME LoopInv, NEW l \in loops, NEW m \in LoopState, m.gen = l.gen,
         m.step \in {"asking", "held"} => Current(l),
         Goes(l, m), UNCHANGED <<active, generation>>
  PROVE  loops' \in SUBSET LoopState /\ LoopsApart'
<1>1. \A k \in loops' : k = m \/ (k \in loops /\ k # l)
  BY DEF Goes
<1>2. loops' \in SUBSET LoopState
  BY DEF Goes, LoopInv, TypeOK
<1>3. Numbered'
  BY <1>1 DEF LoopInv, LoopsApart, Numbered
<1>4. AskersCurrent' /\ ActiveHasToken'
  BY <1>1 DEF LoopInv, LoopsApart, AskersCurrent, ActiveHasToken, Current
<1> QED BY <1>2, <1>3, <1>4 DEF LoopsApart

LEMMA Fewer ==
  ASSUME LoopInv, loops' \subseteq loops, UNCHANGED <<active, generation, handled>>
  PROVE  loops' \in SUBSET LoopState /\ LoopsApart' /\ BehindHandled'
<1>1. loops' \in SUBSET LoopState
  BY DEF LoopInv, TypeOK
<1>2. LoopsApart'
  BY DEF LoopInv, LoopsApart, Numbered, AskersCurrent, ActiveHasToken, Current
<1>3. BehindHandled'
  BY DEF LoopInv, BehindHandled, Reach, Current
<1> QED BY <1>1, <1>2, <1>3

\* After a stop no loop is current.
LEMMA Stopped ==
  ASSUME LoopInv, loops' \subseteq loops, generation' = generation + 1,
         \A l \in loops' : l.step \notin {"asking", "held"}
  PROVE  loops' \in SUBSET LoopState /\ LoopsApart' /\ BehindHandled'
<1>1. loops' \in SUBSET LoopState /\ generation \in Nat /\ loops \in SUBSET LoopState
  BY DEF LoopInv, TypeOK
<1>2. \A l \in loops' : l.gen <= generation' /\ ~Current(l)'
  <2> TAKE l \in loops'
  <2>1. l.gen \in Nat
    BY <1>1 DEF LoopState
  <2>2. l.gen <= generation
    BY DEF LoopInv, LoopsApart, Numbered
  <2> QED BY <1>1, <2>1, <2>2 DEF Current
<1>3. Numbered'
  BY <1>2 DEF LoopInv, LoopsApart, Numbered
<1>4. AskersCurrent' /\ ActiveHasToken' /\ BehindHandled'
  BY <1>2 DEF AskersCurrent, ActiveHasToken, BehindHandled
<1> QED BY <1>1, <1>3, <1>4 DEF LoopsApart

LEMMA StopPollingStops ==
  ASSUME LoopInv, StopPolling
  PROVE  /\ loops' \in SUBSET LoopState /\ LoopsApart' /\ BehindHandled'
         /\ active' = Off /\ generation' \in Nat
<1>1. loops' \subseteq loops /\ \A l \in loops' : l.step \notin {"asking", "held"}
  BY DEF StopPolling
<1>2. generation' = generation + 1 /\ active' = Off
  BY DEF StopPolling
<1>3. generation' \in Nat
  BY <1>2 DEF LoopInv, TypeOK
<1> QED BY <1>1, <1>2, <1>3, Stopped

\* What a loop that was moved lets Telegram forget.
LEMMA MovedBehind ==
  ASSUME LoopInv, NEW l \in loops, NEW m \in LoopState, m.gen = l.gen,
         Goes(l, m), UNCHANGED generation, handled \subseteq handled',
         Current(l) => \A u \in Nat \ {0} : u < Reach(m) => u \in handled'
  PROVE  BehindHandled'
<1>1. SUFFICES ASSUME NEW k \in loops', Current(k)', NEW u \in Nat \ {0}, u < Reach(k)
               PROVE  u \in handled'
  BY DEF BehindHandled, Reach
<1>2. CASE k = m
  BY <1>1, <1>2 DEF Current
<1>3. CASE k \in loops
  <2>1. u \in handled
    BY <1>1, <1>3 DEF LoopInv, BehindHandled, Current
  <2> QED BY <2>1
<1> QED BY <1>1, <1>2, <1>3 DEF Goes

-----------------------------------------------------------------------------
(* The supervisor.                                                         *)

LEMMA InitLoops == PollAssumption /\ Init => LoopInv
BY DEF PollAssumption, Init, LoopInv, TypeOK, LoopsApart, Numbered, AskersCurrent, ActiveHasToken,
       NoneWhileChecking, ForgottenHandled, BehindHandled, Off, Idle

LEMMA KeptDecide == LoopInv /\ Decide => LoopInv'
<1> SUFFICES ASSUME LoopInv, Decide PROVE LoopInv'
  OBVIOUS
<1>1. supervisor \in Checks /\ supervisor.token \in Nat
  BY DEF LoopInv, TypeOK, Decide, Idle, Checks
<1>2. supervisor' = Idle \/ supervisor' = [supervisor EXCEPT !.step = "getMe"]
  BY DEF Decide
<1>3. supervisor' \in {Idle} \cup Checks
  BY <1>1, <1>2 DEF Checks
<1>4. CASE UNCHANGED <<active, generation, loops>>
  <2>1. loops' \in SUBSET LoopState /\ LoopsApart' /\ BehindHandled'
    BY <1>4, Fewer DEF Decide
  <2>2. NoneWhileChecking'
    <3> SUFFICES ASSUME supervisor'.step = "getMe"
                 PROVE  active' = Off /\ supervisor'.token # Off
      BY DEF NoneWhileChecking
    <3>1. supervisor.token \notin {Off, active, bad}
      BY DEF Decide, Idle
    <3>2. supervisor'.token = supervisor.token
      BY <1>1, <3>1 DEF Decide, Checks
    <3>3. active \in {Off, supervisor.token} \/ generation' = generation + 1
      BY <3>1 DEF Decide, StopPolling
    <3>4. generation' # generation + 1
      BY <1>4 DEF LoopInv, TypeOK
    <3> QED BY <1>4, <3>1, <3>2, <3>3, <3>4
  <2>3. TypeOK'
    BY <1>3, <1>4, <2>1 DEF LoopInv, TypeOK, Decide, outside
  <2>4. ForgottenHandled'
    BY DEF LoopInv, ForgottenHandled, Decide
  <2> QED BY <2>1, <2>2, <2>3, <2>4 DEF LoopInv
<1>5. CASE StopPolling
  <2>1. /\ loops' \in SUBSET LoopState /\ LoopsApart' /\ BehindHandled'
        /\ active' = Off /\ generation' \in Nat
    BY <1>5, StopPollingStops
  <2>2. NoneWhileChecking'
    <3> SUFFICES ASSUME supervisor'.step = "getMe"
                 PROVE  supervisor'.token # Off
      BY <2>1 DEF NoneWhileChecking
    <3>1. supervisor.token \notin {Off, active, bad}
      BY DEF Decide, Idle
    <3> QED BY <1>1, <3>1 DEF Decide, Checks
  <2>3. TypeOK'
    BY <1>3, <2>1 DEF LoopInv, TypeOK, Decide, outside, Off
  <2>4. ForgottenHandled'
    BY DEF LoopInv, ForgottenHandled, Decide
  <2> QED BY <2>1, <2>2, <2>3, <2>4 DEF LoopInv
<1> QED BY <1>4, <1>5 DEF Decide

LEMMA KeptStartLoop == LoopInv /\ StartLoop => LoopInv'
<1> SUFFICES ASSUME LoopInv, StartLoop PROVE LoopInv'
  OBVIOUS
<1> DEFINE m == [gen |-> generation + 1, token |-> supervisor.token,
                 step |-> "top", offset |-> 0, last |-> 0]
<1>1. supervisor \in Checks /\ supervisor.token \in Nat /\ generation \in Nat
  BY DEF LoopInv, TypeOK, StartLoop, Idle, Checks
<1>2. active = Off /\ supervisor.token # Off
  BY DEF LoopInv, NoneWhileChecking, StartLoop
<1>3. loops' = loops \cup {m} /\ generation' = generation + 1 /\ active' = supervisor.token
  BY DEF StartLoop
<1>4. m \in LoopState
  BY <1>1 DEF LoopState, Steps
<1>5. \A l \in loops : l.gen \in Nat /\ l.gen <= generation /\ l.step \notin {"asking", "held"}
  <2> TAKE l \in loops
  <2>1. l.gen \in Nat
    BY DEF LoopInv, TypeOK, LoopState
  <2>2. ~Current(l)
    BY <1>2 DEF LoopInv, LoopsApart, ActiveHasToken
  <2> QED BY <2>1, <2>2 DEF LoopInv, LoopsApart, Numbered, AskersCurrent
<1>6. m.gen = generation' /\ m.step = "top" /\ m.offset = 0
  BY <1>3
<1> HIDE DEF m
<1>7. \A l \in loops : l.gen <= generation' /\ l.gen # generation'
  BY <1>1, <1>3, <1>5
<1>8. Numbered'
  <2>1. ASSUME NEW k \in loops' PROVE k.gen <= generation'
    BY <1>1, <1>3, <1>6, <1>7
  <2>2. ASSUME NEW k \in loops', NEW n \in loops', k.gen = n.gen PROVE k = n
    BY <1>3, <1>6, <1>7, <2>2 DEF LoopInv, LoopsApart, Numbered
  <2> QED BY <2>1, <2>2 DEF Numbered
<1>9. AskersCurrent' /\ ActiveHasToken'
  <2>1. AskersCurrent'
    BY <1>3, <1>5, <1>6 DEF AskersCurrent
  <2>2. ActiveHasToken'
    BY <1>2, <1>3 DEF ActiveHasToken, Off
  <2> QED BY <2>1, <2>2
<1>10. BehindHandled'
  <2> SUFFICES ASSUME NEW k \in loops', Current(k)', NEW u \in Nat \ {0}, u < Reach(k)
               PROVE  u \in handled'
    BY DEF BehindHandled, Reach
  <2>1. k = m
    BY <1>3, <1>7 DEF Current
  <2>2. Reach(k) = 0
    BY <1>6, <2>1 DEF Reach
  <2> QED BY <2>2
<1>11. TypeOK'
  BY <1>1, <1>3, <1>4 DEF LoopInv, TypeOK, StartLoop, outside, Off
<1>12. NoneWhileChecking' /\ ForgottenHandled'
  BY DEF LoopInv, NoneWhileChecking, ForgottenHandled, StartLoop, Idle
<1> QED BY <1>8, <1>9, <1>10, <1>11, <1>12 DEF LoopInv, LoopsApart

LEMMA KeptSupervisor ==
  LoopInv /\ (ReadSettings \/ RejectToken \/ SuperviseFails) => LoopInv'
<1> SUFFICES ASSUME LoopInv, ReadSettings \/ RejectToken \/ SuperviseFails PROVE LoopInv'
  OBVIOUS
<1>1. UNCHANGED <<outside, confirmed, up, active, generation, loops, handled>>
  BY DEF ReadSettings, RejectToken, SuperviseFails
<1>2. bad' \in Nat /\ supervisor' \in {Idle} \cup Checks /\ supervisor'.step # "getMe"
  BY DEF ReadSettings, RejectToken, SuperviseFails, LoopInv, TypeOK, Idle, Checks
<1>3. loops' \in SUBSET LoopState /\ LoopsApart' /\ BehindHandled'
  BY <1>1, Fewer
<1> QED
  BY <1>1, <1>2, <1>3 DEF LoopInv, TypeOK, NoneWhileChecking, ForgottenHandled, outside

-----------------------------------------------------------------------------
(* The loops.                                                              *)

LEMMA LoopTyped ==
  ASSUME LoopInv, NEW l \in loops
  PROVE  /\ l \in LoopState
         /\ l.gen \in Nat /\ l.offset \in Nat /\ l.last \in Nat /\ l.step \in Steps
BY DEF LoopInv, TypeOK, LoopState

\* A step of a loop that only moves it and tells Telegram nothing.
LEMMA QuietMove ==
  ASSUME LoopInv, NEW l \in loops, NEW m \in LoopState, m.gen = l.gen,
         m.step \in {"asking", "held"} => Current(l), Goes(l, m),
         handled \subseteq handled',
         Current(l) => \A u \in Nat \ {0} : u < Reach(m) => u \in handled',
         UNCHANGED <<outside, confirmed, up, active, generation, bad, supervisor>>
  PROVE  LoopInv'
<1>1. loops' \in SUBSET LoopState /\ LoopsApart'
  BY Moved
<1>2. BehindHandled'
  BY MovedBehind
<1> QED
  BY <1>1, <1>2 DEF LoopInv, TypeOK, NoneWhileChecking, ForgottenHandled, outside

\* A step in which a loop returns and nothing else happens.
LEMMA QuietEnd ==
  ASSUME LoopInv, NEW l \in loops, Ends(l),
         UNCHANGED <<outside, confirmed, up, active, generation, bad, supervisor, handled>>
  PROVE  LoopInv'
<1>1. loops' \in SUBSET LoopState /\ LoopsApart' /\ BehindHandled'
  BY Fewer DEF Ends
<1> QED
  BY <1>1 DEF LoopInv, TypeOK, NoneWhileChecking, ForgottenHandled, outside

LEMMA KeptAsk == ASSUME LoopInv, NEW l \in loops, Ask(l) PROVE LoopInv'
<1>1. CASE ~Current(l)
  BY <1>1, QuietEnd DEF Ask
<1>2. CASE Current(l)
  <2> DEFINE m == [l EXCEPT !.step = "asking"]
  <2>1. m \in LoopState /\ m.gen = l.gen /\ m.step = "asking" /\ m.offset = l.offset
    BY LoopTyped DEF LoopState, Steps
  <2>2. Goes(l, m)
    BY <1>2 DEF Ask
  <2> HIDE DEF m
  <2>3. Reach(m) = Reach(l)
    BY <2>1 DEF Reach, Ask
  <2> QED BY <1>2, <2>1, <2>2, <2>3, QuietMove DEF Ask, LoopInv, BehindHandled
<1> QED BY <1>1, <1>2

LEMMA KeptAskAgain == ASSUME LoopInv, NEW l \in loops, AskAgain(l) PROVE LoopInv'
<1> DEFINE m == [l EXCEPT !.step = "top"]
<1>1. m \in LoopState /\ m.gen = l.gen /\ m.step = "top" /\ m.offset = l.offset
  BY LoopTyped DEF LoopState, Steps
<1>2. Goes(l, m)
  BY DEF AskAgain
<1> HIDE DEF m
<1>3. Reach(m) = Reach(l)
  BY <1>1 DEF Reach, AskAgain
<1> QED BY <1>1, <1>2, <1>3, QuietMove DEF AskAgain, LoopInv, BehindHandled

LEMMA KeptReceive == ASSUME LoopInv, NEW l \in loops, Receive(l) PROVE LoopInv'
<1> DEFINE m == [l EXCEPT !.step = "held"]
<1>1. m \in LoopState /\ m.gen = l.gen /\ m.step = "held" /\ m.offset = l.offset
  BY LoopTyped DEF LoopState, Steps
<1>2. Goes(l, m)
  BY DEF Receive
<1> HIDE DEF m
<1>3. Reach(m) = l.offset /\ Reach(l) = l.offset
  BY <1>1 DEF Reach, Receive
<1>4. Current(l)
  BY DEF Receive, LoopInv, LoopsApart, AskersCurrent
<1>5. \A u \in Nat \ {0} : u < l.offset => u \in handled
  BY <1>3, <1>4 DEF LoopInv, BehindHandled
<1>6. loops' \in SUBSET LoopState /\ LoopsApart'
  BY <1>1, <1>2, <1>4, Moved DEF Receive
<1>7. BehindHandled'
  BY <1>1, <1>2, <1>3, <1>5, MovedBehind DEF Receive
<1>8. ForgottenHandled'
  BY <1>5 DEF LoopInv, ForgottenHandled, Receive
<1>9. confirmed' \in Nat
  BY LoopTyped DEF LoopInv, TypeOK, Receive
<1> QED
  BY <1>6, <1>7, <1>8, <1>9 DEF LoopInv, TypeOK, NoneWhileChecking, Receive, outside

LEMMA KeptAnswer == ASSUME LoopInv, NEW l \in loops, Answer(l) PROVE LoopInv'
<1> DEFINE from == IF confirmed = 0 THEN 1 ELSE confirmed
           m == [l EXCEPT !.step = "batch", !.last = arrived, !.offset = from]
<1>1. from \in Nat /\ arrived \in Nat /\ (from = 1 \/ from = confirmed)
  BY DEF LoopInv, TypeOK
<1>2. Goes(l, m)
  BY DEF Answer
<1> HIDE DEF from
<1>3. m \in LoopState /\ m.gen = l.gen /\ m.step = "batch" /\ m.offset = from
  BY <1>1, LoopTyped DEF LoopState, Steps
<1> HIDE DEF m
<1>4. Reach(m) = from
  BY <1>3 DEF Reach
<1>5. \A u \in Nat \ {0} : u < Reach(m) => u \in handled
  BY <1>1, <1>4 DEF LoopInv, ForgottenHandled
<1> QED BY <1>2, <1>3, <1>5, QuietMove DEF Answer

LEMMA KeptTake == ASSUME LoopInv, NEW l \in loops, Take(l) PROVE LoopInv'
<1>1. CASE ~Current(l)
  BY <1>1, QuietEnd DEF Take
<1>2. CASE Current(l)
  <2> DEFINE m == [l EXCEPT !.step = "handling", !.offset = @ + 1]
  <2>1. m \in LoopState /\ m.gen = l.gen /\ m.step = "handling" /\ m.offset = l.offset + 1
    <3>1. l \in LoopState /\ l.offset + 1 \in Nat
      BY LoopTyped
    <3>2. m \in LoopState /\ m.offset = l.offset + 1
      BY <3>1 DEF LoopState, Steps
    <3> QED BY <3>1, <3>2 DEF LoopState
  <2>2. Goes(l, m)
    BY <1>2 DEF Take
  <2> HIDE DEF m
  <2>3. Reach(m) = Reach(l)
    BY <2>1, LoopTyped DEF Reach, Take
  <2> QED BY <1>2, <2>1, <2>2, <2>3, QuietMove DEF Take, LoopInv, BehindHandled
<1> QED BY <1>1, <1>2

\* The handler of a loop that was not stopped ends, well or not.
LEMMA HandlingEnds ==
  ASSUME LoopInv, NEW l \in loops, l.step = "handling", NEW step \in {"top", "batch"},
         Goes(l, [l EXCEPT !.step = step]),
         handled' = IF Current(l) THEN handled \cup {l.offset - 1} ELSE handled,
         UNCHANGED <<outside, confirmed, up, active, generation, bad, supervisor>>
  PROVE  LoopInv'
<1> DEFINE m == [l EXCEPT !.step = step]
<1>1. m \in LoopState /\ m.gen = l.gen /\ m.step = step /\ m.offset = l.offset
  BY LoopTyped DEF LoopState, Steps
<1>2. Goes(l, m)
  OBVIOUS
<1> HIDE DEF m
<1>3. Reach(m) = l.offset /\ Reach(l) = l.offset - 1 /\ l.offset \in Nat
  BY <1>1, LoopTyped DEF Reach
<1>4. ASSUME Current(l), NEW u \in Nat \ {0}, u < Reach(m) PROVE u \in handled'
  <2>1. u < Reach(l) \/ u = l.offset - 1
    BY <1>3, <1>4
  <2> QED BY <1>4, <2>1 DEF LoopInv, BehindHandled
<1>5. handled \subseteq handled'
  OBVIOUS
<1> QED BY <1>1, <1>2, <1>4, <1>5, QuietMove

LEMMA KeptHandler ==
  ASSUME LoopInv, NEW l \in loops, HandlerEnds(l) \/ HandlerThrows(l) PROVE LoopInv'
<1>1. CASE HandlerEnds(l)
  BY <1>1, HandlingEnds DEF HandlerEnds
<1>2. CASE HandlerThrows(l) /\ Current(l)
  BY <1>2, HandlingEnds DEF HandlerThrows
<1>3. CASE HandlerThrows(l) /\ ~Current(l)
  BY <1>3, QuietEnd DEF HandlerThrows
<1> QED BY <1>1, <1>2, <1>3

LEMMA KeptRevoked == ASSUME LoopInv, NEW l \in loops, Revoked(l) PROVE LoopInv'
<1>1. \A k \in loops' : k.step \notin {"asking", "held"}
  <2> SUFFICES ASSUME NEW k \in loops', k.step \in {"asking", "held"} PROVE FALSE
    OBVIOUS
  <2>1. k \in loops /\ k # l
    BY DEF Revoked, Ends
  <2>2. k.gen = l.gen
    BY <2>1 DEF LoopInv, LoopsApart, AskersCurrent, Current, Revoked
  <2> QED BY <2>1, <2>2 DEF LoopInv, LoopsApart, Numbered
<1>2. loops' \in SUBSET LoopState /\ LoopsApart' /\ BehindHandled'
  BY <1>1, Stopped DEF Revoked, Ends
<1>3. bad' \in Nat /\ active' = Off /\ generation' \in Nat
  BY DEF Revoked, LoopInv, TypeOK, LoopState
<1> QED
  BY <1>2, <1>3 DEF LoopInv, TypeOK, NoneWhileChecking, ForgottenHandled, Revoked, outside, Off

-----------------------------------------------------------------------------
(* The world, and the theorems.                                            *)

LEMMA KeptWorld ==
  LoopInv /\ (Write \/ ReplaceToken \/ \E token \in 0..valid : SaveSettings(token)) => LoopInv'
<1> SUFFICES ASSUME LoopInv,
                    Write \/ ReplaceToken \/ \E token \in 0..valid : SaveSettings(token)
             PROVE  LoopInv'
  OBVIOUS
<1>1. UNCHANGED <<confirmed, up, active, generation, bad, supervisor, loops, handled>>
  BY DEF Write, ReplaceToken, SaveSettings
<1>2. setting' \in Nat /\ valid' \in Nat /\ changes' \in Nat /\ arrived' \in Nat
  BY DEF Write, ReplaceToken, SaveSettings, LoopInv, TypeOK
<1>3. loops' \in SUBSET LoopState /\ LoopsApart' /\ BehindHandled'
  BY <1>1, Fewer
<1> QED BY <1>1, <1>2, <1>3 DEF LoopInv, TypeOK, NoneWhileChecking, ForgottenHandled

LEMMA KeptDestroy == LoopInv /\ Destroy => LoopInv'
<1> SUFFICES ASSUME LoopInv, Destroy PROVE LoopInv'
  OBVIOUS
<1>1. /\ loops' \in SUBSET LoopState /\ LoopsApart' /\ BehindHandled'
      /\ active' = Off /\ generation' \in Nat
  BY StopPollingStops DEF Destroy
<1>2. changes' \in Nat
  BY DEF Destroy, LoopInv, TypeOK
<1>3. up' \in BOOLEAN
  BY DEF Destroy
<1> QED
  BY <1>1, <1>2, <1>3 DEF LoopInv, TypeOK, NoneWhileChecking, ForgottenHandled, Destroy, Off

LEMMA KeptRestart == LoopInv /\ Restart => LoopInv'
BY DEF LoopInv, TypeOK, LoopsApart, Numbered, AskersCurrent, ActiveHasToken, NoneWhileChecking,
       ForgottenHandled, BehindHandled, Restart, Idle, Off

LEMMA KeptLoop == ASSUME LoopInv, NEW l \in loops, Loop(l) PROVE LoopInv'
BY KeptAsk, KeptReceive, KeptAnswer, KeptAskAgain, KeptRevoked, KeptTake, KeptHandler DEF Loop

\* The invariant holds for any number of updates, tokens and changes.
THEOREM LoopsKept == Spec => []LoopInv
<1>1. Init => LoopInv
  BY InitLoops, PollAssumption
<1>2. LoopInv /\ [Next]_vars => LoopInv'
  <2> SUFFICES ASSUME LoopInv, [Next]_vars PROVE LoopInv'
    OBVIOUS
  <2>1. CASE Next
    BY <2>1, KeptSupervisor, KeptDecide, KeptStartLoop, KeptLoop, KeptWorld, KeptDestroy,
       KeptRestart DEF Next
  <2>2. CASE UNCHANGED vars
    BY <2>2, Fewer
       DEF vars, outside, LoopInv, TypeOK, NoneWhileChecking, ForgottenHandled
  <2> QED BY <2>1, <2>2
<1> QED BY <1>1, <1>2, PTL DEF Spec

\* Two loops never ask Telegram at once, although loops are stopped without
\* waiting for them (generation, stopController).
THEOREM OnlyOnePolls == Spec => []OnePoller
<1>1. LoopInv => OnePoller
  BY DEF LoopInv, LoopsApart, Numbered, AskersCurrent, Current, OnePoller
<1> QED BY <1>1, LoopsKept, PTL

\* No update is forgotten unhandled, whatever stops, dies or changes in the
\* middle of a batch (pollLoop's offset).
THEOREM NoUpdateLost == Spec => []ConfirmedWasHandled
<1>1. LoopInv => ConfirmedWasHandled
  BY DEF LoopInv, TypeOK, ForgottenHandled, ConfirmedWasHandled
<1> QED BY <1>1, LoopsKept, PTL
=============================================================================
