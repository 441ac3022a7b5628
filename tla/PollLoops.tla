------------------------------ MODULE PollLoops ------------------------------
(***************************************************************************)
(* How the bot receives what customers write: a supervisor that compares   *)
(* the settings with the bot that runs, and the loops of getUpdates that   *)
(* it starts and stops.                                                    *)
(*                                                                         *)
(* A loop is never killed.  Stopping raises the generation and aborts the  *)
(* calls to Telegram; a loop finds out when a call fails, before the next  *)
(* update and before the next request.  Meanwhile another loop may have    *)
(* started, for the same token even.  A new loop asks from offset 0, and   *)
(* Telegram repeats whatever no request has confirmed.                     *)
(*                                                                         *)
(* There is one bot and one process.  The owner may have its token         *)
(* replaced (tokens are numbered, the latest is the valid one), may write  *)
(* any token into the settings, or switch the bot off.                     *)
(***************************************************************************)
EXTENDS Integers

CONSTANTS
  MaxUpdates,  \* bound: what customers write
  MaxTokens,   \* bound: tokens the bot has over time
  MaxChanges   \* bound: settings saved, shutdowns and deaths

ASSUME PollAssumption ==
  /\ MaxUpdates \in Nat /\ MaxTokens \in Nat \ {0} /\ MaxChanges \in Nat

Off == 0

VARIABLES
  \* the owner and Telegram
  setting,     \* the token in the settings, Off when the bot is switched off
  valid,       \* the token that Telegram accepts
  changes,
  arrived,     \* updates 1 .. arrived have been written
  confirmed,   \* the offset Telegram has been told of
  \* the process
  up,          \* FALSE after onModuleDestroy
  active,      \* activeToken
  generation,
  bad,         \* lastBadToken
  supervisor,  \* where supervise is
  loops,       \* pollLoop calls that have not returned
  handled      \* updates whose handler ended, well or not, in a loop not stopped

outside == <<setting, valid, changes, arrived>>
vars == <<outside, confirmed, up, active, generation, bad, supervisor, loops, handled>>

Idle == [step |-> "idle"]

\* Mutant: a loop looks at the token instead of the generation.
CurrentToken(l) == active = l.token

Current(l) == generation = l.gen

-----------------------------------------------------------------------------
(* The supervisor.                                                         *)

\* The timer, unless the previous look at the settings is still under way.
ReadSettings ==
  /\ up /\ supervisor = Idle
  /\ supervisor' = [step |-> "read", token |-> setting]
  /\ UNCHANGED <<outside, confirmed, up, active, generation, bad, loops, handled>>

\* Loops whose getUpdates is aborted return at once.
StopPolling ==
  /\ active' = Off
  /\ generation' = generation + 1
  /\ loops' = {l \in loops : l.step \notin {"asking", "held"}}

Decide ==
  /\ supervisor.step = "read"
  /\ IF supervisor.token \in {Off, active, bad}
     THEN supervisor' = Idle
     ELSE supervisor' = [supervisor EXCEPT !.step = "getMe"]
  /\ IF \/ active \in {Off, supervisor.token}
        \/ supervisor.token # Off /\ supervisor.token = bad
     THEN UNCHANGED <<active, generation, loops>>
     ELSE StopPolling
  /\ UNCHANGED <<outside, confirmed, up, bad, handled>>

\* Mutant: a new loop goes on where the stopped one was.
StartFurther ==
  /\ supervisor.step = "getMe" /\ supervisor.token = valid
  /\ bad' = Off
  /\ active' = supervisor.token
  /\ generation' = generation + 1
  /\ \E offset \in {l.offset : l \in loops} \cup {0} :
       loops' = loops \cup {[gen |-> generation + 1, token |-> supervisor.token,
                             step |-> "top", offset |-> offset, last |-> 0]}
  /\ supervisor' = Idle
  /\ UNCHANGED <<outside, confirmed, up, handled>>

\* Telegram knows the token: the loop starts, whatever has happened meanwhile.
StartLoop ==
  /\ supervisor.step = "getMe" /\ supervisor.token = valid
  /\ bad' = Off
  /\ active' = supervisor.token
  /\ generation' = generation + 1
  /\ loops' = loops \cup {[gen |-> generation + 1, token |-> supervisor.token,
                           step |-> "top", offset |-> 0, last |-> 0]}
  /\ supervisor' = Idle
  /\ UNCHANGED <<outside, confirmed, up, handled>>

RejectToken ==
  /\ supervisor.step = "getMe" /\ supervisor.token # valid
  /\ bad' = supervisor.token
  /\ supervisor' = Idle
  /\ UNCHANGED <<outside, confirmed, up, active, generation, loops, handled>>

\* Mutant: a network error condemns the token.
FailureCondemns ==
  /\ supervisor # Idle
  /\ supervisor' = Idle
  /\ bad' = supervisor.token
  /\ UNCHANGED <<outside, confirmed, up, active, generation, loops, handled>>

\* The database or the network fails: the next turn tries again.
SuperviseFails ==
  /\ supervisor # Idle
  /\ supervisor' = Idle
  /\ UNCHANGED <<outside, confirmed, up, active, generation, bad, loops, handled>>

-----------------------------------------------------------------------------
(* A loop.                                                                 *)

Goes(l, m) == loops' = (loops \ {l}) \cup {m}
Ends(l) == loops' = loops \ {l}

Ask(l) ==
  /\ l.step = "top"
  /\ IF Current(l) THEN Goes(l, [l EXCEPT !.step = "asking"]) ELSE Ends(l)
  /\ UNCHANGED <<outside, confirmed, up, active, generation, bad, supervisor, handled>>

\* Telegram holds the request; its offset confirms the updates before it.
Receive(l) ==
  /\ l.step = "asking" /\ l.token = valid
  /\ confirmed' = IF l.offset > confirmed THEN l.offset ELSE confirmed
  /\ Goes(l, [l EXCEPT !.step = "held"])
  /\ UNCHANGED <<outside, up, active, generation, bad, supervisor, handled>>

\* The answer: what no request has confirmed.
Answer(l) ==
  /\ l.step = "held"
  /\ arrived >= confirmed /\ arrived > 0
  /\ Goes(l, [l EXCEPT !.step = "batch", !.last = arrived,
                       !.offset = IF confirmed = 0 THEN 1 ELSE confirmed])
  /\ UNCHANGED <<outside, confirmed, up, active, generation, bad, supervisor, handled>>

\* Nothing new, a network error or another process (409): the loop asks again.
AskAgain(l) ==
  /\ l.step \in {"asking", "held"}
  /\ Goes(l, [l EXCEPT !.step = "top"])
  /\ UNCHANGED <<outside, confirmed, up, active, generation, bad, supervisor, handled>>

\* Telegram no longer accepts the token, in getUpdates or in a handler's call.
Revoked(l) ==
  /\ l.step \in {"asking", "held", "handling"} /\ l.token # valid /\ Current(l)
  /\ bad' = l.token
  /\ active' = Off
  /\ generation' = generation + 1
  /\ Ends(l)
  /\ UNCHANGED <<outside, confirmed, up, supervisor, handled>>

\* The offset moves on before the update is handled, and before the loop
\* notices that it was stopped.
Take(l) ==
  /\ l.step = "batch"
  /\ IF ~Current(l) THEN Ends(l)
     ELSE Goes(l, [l EXCEPT !.step = "handling", !.offset = @ + 1])
  /\ UNCHANGED <<outside, confirmed, up, active, generation, bad, supervisor, handled>>

HandlerEnds(l) ==
  /\ l.step = "handling"
  /\ Goes(l, [l EXCEPT !.step = IF l.offset > l.last THEN "top" ELSE "batch"])
  /\ handled' = IF Current(l) THEN handled \cup {l.offset - 1} ELSE handled
  /\ UNCHANGED <<outside, confirmed, up, active, generation, bad, supervisor>>

\* The handler throws: the update is given up, the rest is asked for again.
HandlerThrows(l) ==
  /\ l.step = "handling"
  /\ IF Current(l)
     THEN /\ handled' = handled \cup {l.offset - 1}
          /\ Goes(l, [l EXCEPT !.step = "top"])
     ELSE Ends(l) /\ UNCHANGED handled
  /\ UNCHANGED <<outside, confirmed, up, active, generation, bad, supervisor>>

-----------------------------------------------------------------------------
(* The owner, the customers and the process.                               *)

Write ==
  /\ arrived < MaxUpdates
  /\ arrived' = arrived + 1
  /\ UNCHANGED <<setting, valid, changes, confirmed, up, active, generation, bad,
                 supervisor, loops, handled>>

SaveSettings(token) ==
  /\ changes < MaxChanges /\ token # setting
  /\ setting' = token /\ changes' = changes + 1
  /\ UNCHANGED <<valid, arrived, confirmed, up, active, generation, bad, supervisor,
                 loops, handled>>

\* At BotFather.
ReplaceToken ==
  /\ valid < MaxTokens
  /\ valid' = valid + 1
  /\ UNCHANGED <<setting, changes, arrived, confirmed, up, active, generation, bad,
                 supervisor, loops, handled>>

\* onModuleDestroy: no more timers, but supervise may be in the middle.
Destroy ==
  /\ up /\ changes < MaxChanges
  /\ up' = FALSE /\ changes' = changes + 1
  /\ StopPolling
  /\ UNCHANGED <<setting, valid, arrived, confirmed, bad, supervisor, handled>>

\* The process dies or exits, and the container starts another one.
Restart ==
  /\ \/ up /\ changes < MaxChanges /\ changes' = changes + 1
     \/ ~up /\ UNCHANGED changes
  /\ up' = TRUE /\ active' = Off /\ generation' = 0 /\ bad' = Off
  /\ supervisor' = Idle /\ loops' = {}
  /\ UNCHANGED <<setting, valid, arrived, confirmed, handled>>

-----------------------------------------------------------------------------
Init ==
  /\ setting \in {Off, 1} /\ valid = 1 /\ changes = 0 /\ arrived = 0 /\ confirmed = 0
  /\ up = TRUE /\ active = Off /\ generation = 0 /\ bad = Off
  /\ supervisor = Idle /\ loops = {} /\ handled = {}

Loop(l) ==
  \/ Ask(l) \/ Receive(l) \/ Answer(l) \/ AskAgain(l) \/ Revoked(l)
  \/ Take(l) \/ HandlerEnds(l) \/ HandlerThrows(l)

Next ==
  \/ ReadSettings \/ Decide \/ StartLoop \/ RejectToken \/ SuperviseFails
  \/ \E l \in loops : Loop(l)
  \/ Write \/ ReplaceToken \/ Destroy \/ Restart
  \/ \E token \in 0..valid : SaveSettings(token)

\* Timers fire, calls end and the container comes back; Telegram and the
\* database answer now and then, however often they fail.
Fairness ==
  /\ WF_vars(ReadSettings) /\ SF_vars(Decide) /\ SF_vars(StartLoop) /\ SF_vars(RejectToken)
  /\ WF_vars(\E l \in loops : Ask(l)) /\ WF_vars(\E l \in loops : Take(l))
  /\ SF_vars(\E l \in loops : Receive(l)) /\ SF_vars(\E l \in loops : Answer(l))
  /\ SF_vars(\E l \in loops : Revoked(l))
  /\ WF_vars(\E l \in loops : HandlerEnds(l) \/ HandlerThrows(l))
  /\ WF_vars(~up /\ Restart)

Spec == Init /\ [][Next]_vars /\ Fairness

-----------------------------------------------------------------------------
(* Properties.                                                             *)

\* Two loops never ask Telegram at once, although a stopped loop lives on and
\* the next one, for the same token even, need not wait for it (generation,
\* stopController): Telegram would answer 409 to one of them.
OnePoller ==
  \A l, m \in loops : {l.step, m.step} \subseteq {"asking", "held"} => l = m

\* Telegram forgets an update only after a loop that was not stopped has
\* handled it: a stop, a change of token or a death in the middle of a batch
\* loses nothing (pollLoop's offset, which starts at 0 in each loop).
ConfirmedWasHandled == \A u \in 1..arrived : u < confirmed => u \in handled

\* Once the settings hold the valid token the bot runs and every update is
\* handled; once they switch it off it stops (supervise, lastBadToken).
FollowsSettings ==
  /\ <>[](up /\ setting = valid) =>
       /\ <>[](active = setting)
       /\ \A u \in 1..MaxUpdates : u <= arrived ~> u \in handled
  /\ <>[](up /\ setting = Off) => <>[](active = Off)
=============================================================================
