-------------------------- MODULE MCPaymentSession ---------------------------
(***************************************************************************)
(* One order, two gateway sessions, two requests at a time.                *)
(***************************************************************************)
EXTENDS PaymentSession, TLC

CONSTANTS o1, s1, s2, w1, w2

Alike == Permutations({s1, s2}) \cup Permutations({w1, w2})
=============================================================================
