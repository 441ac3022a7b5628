----------------------------- MODULE MCRequests ------------------------------
(***************************************************************************)
(* Ann repeats one purchase through the API in two wordings, and makes an  *)
(* order in the bot and a deposit in each.                                 *)
(***************************************************************************)
EXTENDS Requests, TLC

CONSTANTS order, deposit, callback, topup, a1, a2, c1, c2

MCAsks == [key : {order}, body : {"one", "two"}]
            \cup [key : {deposit, callback, topup}, body : {"one"}]
MCOwner     == [k \in Keys |-> "ann"]
MCPrice     == [ask \in Asks |-> IF ask.key # order THEN 0 ELSE IF ask.body = "one" THEN 1 ELSE 2]
MCPurse     == [u \in Users |-> 3]
MCCredOwner == [a \in Creds |-> "ann"]
Alike       == Permutations({a1, a2}) \cup Permutations({c1, c2})
=============================================================================
