------------------------------ MODULE MCSweeper ------------------------------
(***************************************************************************)
(* Two orders of one key each, of different variants.  o1 comes from an    *)
(* earlier release: expired, though its payment is SUCCESS.                *)
(***************************************************************************)
EXTENDS Sweeper

CONSTANTS o1, o2, k1, k2, w1

MCVariant  == k1 :> 1 @@ k2 :> 2
MCQuantity == o1 :> <<1, 0>> @@ o2 :> <<0, 1>>
MCBuyer    == [o \in Orders |-> "buyer"]
NoUserLimit == [c \in Coupons |-> NoLimit]
OldShop     == o1 :> "EXPIRED" @@ o2 :> "NONE"
NothingHeld == [k \in Keys |-> NoOrder]
WithoutCoupon == [o \in Orders |-> NoCoupon]
=============================================================================
