---------------------------- MODULE MCFulfillment ----------------------------
(***************************************************************************)
(* A shop of two variants and four keys.  o1 buys one key of each variant, *)
(* o2 two keys of the first: they cannot both be served from the stock at  *)
(* the start.  o3 comes from a release that wrote Payment before Order: it *)
(* is still PENDING, its payment is SUCCESS and its key is reserved.       *)
(***************************************************************************)
EXTENDS Fulfillment, TLC

CONSTANTS o1, o2, o3, k1, k2, k3, k4, w1, w2

MCVariant  == k1 :> 1 @@ k2 :> 1 @@ k3 :> 2 @@ k4 :> 2
MCQuantity == o1 :> <<1, 1>> @@ o2 :> <<2, 0>> @@ o3 :> <<0, 1>>
MCBuyer    == [o \in Orders |-> "buyer"]
NoUserLimit == [c \in Coupons |-> NoLimit]

OldShop    == o1 :> "NONE" @@ o2 :> "NONE" @@ o3 :> "PENDING"
OldHold    == k1 :> NoOrder @@ k2 :> NoOrder @@ k3 :> NoOrder @@ k4 :> o3
WithoutCoupon == [o \in Orders |-> NoCoupon]

WorkerSymmetry == Permutations(Workers)
=============================================================================
