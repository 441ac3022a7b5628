---------------------------- MODULE ServeOrRefund ----------------------------
(***************************************************************************)
(* What a customer who rents mail boxes is promised: the price leaves the  *)
(* wallet once, and afterwards either the boxes come or the price comes    *)
(* back, never both, and neither is ever taken back.  Providers, time-outs *)
(* and repeated requests do not appear here; MailPurchase implements this. *)
(***************************************************************************)
EXTENDS Naturals

CONSTANTS Requests, Users, Renter, Price, Purse

VARIABLES
  outcome,  \* what has become of each purchase
  balance   \* the wallet of each user

Init ==
  /\ outcome = [r \in Requests |-> "none"]
  /\ balance = Purse

Charge(r) ==
  /\ outcome[r] = "none"
  /\ balance[Renter[r]] >= Price[r]
  /\ outcome' = [outcome EXCEPT ![r] = "held"]
  /\ balance' = [balance EXCEPT ![Renter[r]] = @ - Price[r]]

Serve(r) ==
  /\ outcome[r] = "held"
  /\ outcome' = [outcome EXCEPT ![r] = "served"]
  /\ UNCHANGED balance

GiveBack(r) ==
  /\ outcome[r] = "held"
  /\ outcome' = [outcome EXCEPT ![r] = "returned"]
  /\ balance' = [balance EXCEPT ![Renter[r]] = @ + Price[r]]

Next == \E r \in Requests : Charge(r) \/ Serve(r) \/ GiveBack(r)

Spec == Init /\ [][Next]_<<outcome, balance>>
=============================================================================
