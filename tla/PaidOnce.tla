------------------------------- MODULE PaidOnce -------------------------------
(***************************************************************************)
(* What the shop promises about money, without channels, amounts to tell   *)
(* apart, reviews or retries: an order or a deposit is paid by one means,  *)
(* for good; a transfer pays for one of them; wallets hold what deposits   *)
(* brought in and orders did not use, never less than nothing.             *)
(* Settlement implements this specification.                               *)
(***************************************************************************)
EXTENDS Naturals

CONSTANTS Orders, Deposits, Users, Transfers, Owner, Price, Unpaid, Wallet

VARIABLES
  paidBy,   \* how each order or deposit was paid
  worth,    \* what a deposit will bring in, 0 before it is agreed
  balance   \* the wallet of each user

Init ==
  /\ paidBy = [x \in Orders \cup Deposits |-> Unpaid]
  /\ worth = [d \in Deposits |-> 0]
  /\ balance = [u \in Users |-> 0]

\* The customer and the shop agree what deposit d will bring in, before it is
\* paid.
Agree(d) ==
  /\ worth[d] = 0
  /\ paidBy[d] = Unpaid
  /\ worth'[d] > 0
  /\ worth' = [worth EXCEPT ![d] = worth'[d]]
  /\ UNCHANGED <<paidBy, balance>>

\* A transfer that has paid for nothing yet pays for x.
Receive(x, t) ==
  /\ paidBy[x] = Unpaid
  /\ \A y \in Orders \cup Deposits : paidBy[y] # t
  /\ paidBy' = [paidBy EXCEPT ![x] = t]
  /\ balance' = [u \in Users |-> IF x \in Deposits /\ u = Owner[x]
                                THEN balance[u] + worth[x] ELSE balance[u]]
  /\ UNCHANGED worth

\* The wallet pays for an order.
Spend(o) ==
  /\ paidBy[o] = Unpaid
  /\ balance[Owner[o]] >= Price[o]
  /\ paidBy' = [paidBy EXCEPT ![o] = Wallet]
  /\ balance' = [balance EXCEPT ![Owner[o]] = @ - Price[o]]
  /\ UNCHANGED worth

Next ==
  \/ \E d \in Deposits : Agree(d)
  \/ \E x \in Orders \cup Deposits, t \in Transfers : Receive(x, t)
  \/ \E o \in Orders : Spend(o)

Spec == Init /\ [][Next]_<<paidBy, worth, balance>>
=============================================================================
