------------------------------- MODULE OnceOnly -------------------------------
(***************************************************************************)
(* What a caller is promised who names a request with a key and repeats it *)
(* until it is answered: whatever was asked for is made once, it is paid   *)
(* for once, and every answer is about the thing that was made, never      *)
(* about one that was asked for in other words.  Requests implements this. *)
(***************************************************************************)
EXTENDS Sequences, Integers

CONSTANTS Keys, Asks, Users, Owner, Price, Purse

VARIABLES
  made,     \* what was made for each key
  told,     \* the requests that have been answered
  balance   \* the wallet of each user

vars == <<made, told, balance>>

Init ==
  /\ made = [k \in Keys |-> <<>>]
  /\ told = {}
  /\ balance = Purse

Make(ask) ==
  /\ made[ask.key] = <<>>
  /\ Price[ask] <= balance[Owner[ask.key]]
  /\ made' = [made EXCEPT ![ask.key] = <<ask.body>>]
  /\ balance' = [balance EXCEPT ![Owner[ask.key]] = @ - Price[ask]]
  /\ UNCHANGED told

Tell(ask) ==
  /\ made[ask.key] = <<ask.body>>
  /\ told' = told \cup {ask}
  /\ UNCHANGED <<made, balance>>

Next == \E ask \in Asks : Make(ask) \/ Tell(ask)

Spec == Init /\ [][Next]_vars
=============================================================================
