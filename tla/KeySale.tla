------------------------------- MODULE KeySale -------------------------------
(***************************************************************************)
(* What the shop promises, without stock rows, locks or transactions: an   *)
(* order moves along its life cycle, and keys are handed over once, only   *)
(* for paid orders, never more than were ordered.  Fulfillment implements  *)
(* this specification.                                                     *)
(***************************************************************************)
EXTENDS Naturals, FiniteSets

CONSTANTS Orders, Keys, Variants, KeyVariant, Quantity, InitialStatus

VARIABLES
  status,   \* the status of each order
  sold      \* the keys each order's buyer has been given

(* Placing an order (paid at once from the wallet or not), paying it in    *)
(* time or late, closing it unpaid.  Delivery is not an edge: it happens   *)
(* when the last key is handed over.                                       *)
Edges == {<<"NONE", "PENDING">>, <<"NONE", "PAID">>,
          <<"PENDING", "PAID">>, <<"PENDING", "EXPIRED">>, <<"PENDING", "CANCELLED">>,
          <<"EXPIRED", "PAID">>}

OfVariant(K, v) == {k \in K : KeyVariant[k] = v}

Complete(o, K) == \A v \in Variants : Cardinality(OfVariant(K, v)) = Quantity[o][v]

Init == status = InitialStatus /\ sold = [o \in Orders |-> {}]

\* Any number of orders may move at once: one sweep closes several.
Move(D) ==
  /\ \A o \in Orders : /\ o \in D => <<status[o], status'[o]>> \in Edges
                       /\ o \notin D => status'[o] = status[o]
  /\ status' = [o \in Orders |-> status'[o]]
  /\ UNCHANGED sold

\* K is handed to the buyer of o; the order is delivered once it is complete.
HandOver(o, K) ==
  /\ status[o] = "PAID"
  /\ \A p \in Orders : K \cap sold[p] = {}
  /\ \A v \in Variants : Cardinality(OfVariant(sold[o] \cup K, v)) <= Quantity[o][v]
  /\ sold' = [sold EXCEPT ![o] = @ \cup K]
  /\ status' = [status EXCEPT ![o] = IF Complete(o, sold[o] \cup K) THEN "DELIVERED" ELSE @]

Next == \/ \E D \in SUBSET Orders : Move(D)
        \/ \E o \in Orders, K \in SUBSET Keys : HandOver(o, K)

Spec == Init /\ [][Next]_<<status, sold>>
=============================================================================
