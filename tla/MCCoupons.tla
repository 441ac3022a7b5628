------------------------------ MODULE MCCoupons ------------------------------
(***************************************************************************)
(* Three orders of one key each may use the coupon c1: o1 and o2 belong to *)
(* one buyer, who may use it once, o3 to another.  The latter's order o4   *)
(* comes from an earlier release: it used the coupon and expired, though   *)
(* its payment is SUCCESS.                                                 *)
(***************************************************************************)
EXTENDS Fulfillment, TLC

CONSTANTS o1, o2, o3, o4, k1, k2, c1, w1, w2

MCVariant  == [k \in Keys |-> 1]
MCQuantity == [o \in Orders |-> <<1>>]
MCBuyer    == o1 :> "alice" @@ o2 :> "alice" @@ o3 :> "bob" @@ o4 :> "bob"
OncePerUser == [c \in Coupons |-> 1]

OldShop     == [o \in Orders |-> IF o = o4 THEN "EXPIRED" ELSE "NONE"]
OldCoupons  == [o \in Orders |-> IF o = o4 THEN c1 ELSE NoCoupon]
NothingHeld == [k \in Keys |-> NoOrder]

WorkerSymmetry == Permutations(Workers)
=============================================================================
