----------------------------- MODULE MCSettlement -----------------------------
(***************************************************************************)
(* Small shops.  Everything has the same price, so that only the steps     *)
(* added to it tell amounts apart.                                         *)
(***************************************************************************)
EXTENDS Settlement, TLC

CONSTANTS o1, o2, d1, t1, t2

\* The second order is another customer's.
MCOwner == [x \in Targets |-> IF x = o2 THEN "bob" ELSE "alice"]
MCPrice == [x \in Targets |-> 8]

TransferSymmetry == Permutations(Transfers)
=============================================================================
