--------------------------- MODULE MCMailPurchase ----------------------------
(***************************************************************************)
(* Ann has two requests, which she repeats, Bob one for two boxes.  The    *)
(* provider's stock and the day's budget do not suffice for all three.     *)
(***************************************************************************)
EXTENDS MailPurchase, TLC

CONSTANTS a1, a2, b1, x1, x2, c1, c2

MCRenter   == [r \in Requests |-> IF r = b1 THEN "bob" ELSE "ann"]
MCQuantity == [r \in Requests |-> IF r = b1 THEN 2 ELSE 1]
MCPurse    == "ann" :> 1 @@ "bob" :> 2
=============================================================================
