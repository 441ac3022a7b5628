------------------------------- MODULE Sweeper -------------------------------
(***************************************************************************)
(* DeliverySweeperService: the periodic worker that is to cure orders      *)
(* whose money arrived while their keys did not, running against           *)
(* everything else the shop does (module Fulfillment).                     *)
(*                                                                         *)
(* A tick is not one transaction: it releases expired orders, reads a list *)
(* of PAID orders, delivers each in a transaction of its own, reads a list *)
(* of orders whose payment is SUCCESS and marks and delivers those.  Each  *)
(* list is stale by the time its last order is reached.                    *)
(*                                                                         *)
(* MIN_AGE_MS, which keeps an order out of the lists for its first minute, *)
(* only delays the first tick that sees it and is left out.                *)
(***************************************************************************)
EXTENDS Fulfillment, SequencesExt

CONSTANTS
  sweeper,      \* the worker that runs the sweeper's transactions
  Batch,        \* BATCH: how many orders a tick takes from each list
  MaxFailures   \* bound: roll-backs, failed ticks and restarts that may happen

ASSUME SweeperTyped == sweeper \in Workers /\ Batch \in Nat \ {0} /\ MaxFailures \in Nat

VARIABLES
  phase,      \* where the tick is; "idle" is the guard running = false
  list,       \* the orders the current loop has still to visit
  paidQueue,  \* orders that became PAID, by paidAt
  failures

sweepVars == <<phase, list, paidQueue, failures>>
allVars == <<vars, phase, list, paidQueue, failures>>

-----------------------------------------------------------------------------
\* Orders that a step turns PAID are stamped with its time.
StampPaid ==
  paidQueue' = paidQueue \o
    SetToSeq({o \in Orders : orderStatus[o] # "PAID" /\ orderStatus'[o] = "PAID"})

IsPaid(o) == orderStatus[o] = "PAID"

PaidOrders == {o \in Orders : IsPaid(o)}
PaidBefore(o, p) == \E i, j \in DOMAIN paidQueue : i < j /\ paidQueue[i] = o /\ paidQueue[j] = p

\* Mutant: the list is one order short.
ListsTooFew(s) ==
  /\ s \in BoundedSeq(PaidOrders, Batch) /\ IsInjective(s)
  /\ IF Cardinality(PaidOrders) < Batch THEN Range(s) = PaidOrders ELSE Len(s) = Batch - 1
  /\ \A i \in DOMAIN s : \A o \in PaidOrders : PaidBefore(o, s[i]) => \E h \in 1..(i - 1) : s[h] = o

\* s lists the PAID orders with the oldest paidAt, at most Batch of them, by
\* paidAt.
ListsOldestPaid(s) ==
  /\ s \in BoundedSeq(PaidOrders, Batch) /\ IsInjective(s)
  /\ IF Cardinality(PaidOrders) < Batch THEN Range(s) = PaidOrders ELSE Len(s) = Batch
  /\ \A i \in DOMAIN s : \A o \in PaidOrders : PaidBefore(o, s[i]) => \E h \in 1..(i - 1) : s[h] = o

\* Mutant: late payments of expired orders are forgotten.
OrphansStillPending == {o \in Orders : payStatus[o] = "SUCCESS" /\ orderStatus[o] = "PENDING"}

\* Orders left behind by a release that wrote Payment before Order.
Orphans == {o \in Orders : payStatus[o] = "SUCCESS" /\ orderStatus[o] \in {"PENDING", "EXPIRED"}}

-----------------------------------------------------------------------------
(* The steps of a tick.                                                    *)

NothingExpired == \A o \in due : orderStatus[o] # "PENDING"

\* Mutant: the tick leaves expired orders to the requests.
SweepWithoutRelease ==
  /\ phase = "idle"
  /\ UNCHANGED vars
  /\ phase' = "released"
  /\ StampPaid
  /\ UNCHANGED <<list, failures>>

SweepRelease ==
  /\ phase = "idle"
  /\ \/ ReleaseExpiredOrders
     \/ NothingExpired /\ ArbitrationFree /\ UNCHANGED vars
  /\ phase' = "released"
  /\ StampPaid
  /\ UNCHANGED <<list, failures>>

SweepListPaid ==
  /\ phase = "released"
  /\ phase' = "deliver"
  /\ \E s \in BoundedSeq(Orders, Batch) : ListsOldestPaid(s) /\ list' = s
  /\ UNCHANGED <<vars, paidQueue, failures>>

\* Each listed order is delivered, or skipped if it no longer is PAID.
SweepDeliver ==
  /\ phase = "deliver"
  /\ list # <<>>
  /\ tx[sweeper] = Idle
  /\ \/ BeginDeliver(sweeper, Head(list))
     \/ OrderRowFree(Head(list)) /\ ~IsPaid(Head(list)) /\ UNCHANGED vars
  /\ list' = Tail(list)
  /\ UNCHANGED <<phase, paidQueue, failures>>

SweepListOrphans ==
  /\ phase = "deliver"
  /\ list = <<>>
  /\ tx[sweeper] = Idle
  /\ phase' = "promote"
  /\ \E S \in SUBSET Orphans :
       /\ Cardinality(S) <= Batch
       /\ Cardinality(S) < Batch => S = Orphans
       /\ list' = SetToSeq(S)
  /\ UNCHANGED <<vars, paidQueue, failures>>

\* markPaidAndDeliver: the order is promoted, and only then delivered.
SweepPromote ==
  /\ phase = "promote"
  /\ list # <<>>
  /\ tx[sweeper] = Idle
  /\ \/ MarkOrderPaid(Head(list), FALSE) /\ phase' = "promoted" /\ UNCHANGED list
     \/ /\ ArbitrationFree
        /\ OrderRowFree(Head(list))
        /\ orderStatus[Head(list)] \notin {"PENDING", "EXPIRED"}
        /\ UNCHANGED <<vars, phase>>
        /\ list' = Tail(list)
  /\ StampPaid
  /\ UNCHANGED failures

SweepDeliverPromoted ==
  /\ phase = "promoted"
  /\ \/ BeginDeliver(sweeper, Head(list))
     \/ OrderRowFree(Head(list)) /\ ~IsPaid(Head(list)) /\ UNCHANGED vars
  /\ phase' = "promote"
  /\ list' = Tail(list)
  /\ UNCHANGED <<paidQueue, failures>>

SweepDone ==
  /\ phase = "promote"
  /\ list = <<>>
  /\ tx[sweeper] = Idle
  /\ phase' = "idle"
  /\ UNCHANGED <<vars, list, paidQueue, failures>>

Tick == \/ SweepRelease \/ SweepListPaid \/ SweepDeliver \/ SweepListOrphans
        \/ SweepPromote \/ SweepDeliverPromoted \/ SweepDone

-----------------------------------------------------------------------------
(* Failures.                                                               *)

\* A transaction rolls back; the loops of the tick go on with the next order.
RollBack(w) ==
  /\ failures < MaxFailures
  /\ Abort(w)
  /\ failures' = failures + 1
  /\ UNCHANGED <<phase, list, paidQueue>>

\* A query of the tick itself fails: the tick ends, running is reset.
TickFails ==
  /\ failures < MaxFailures
  /\ phase \in {"released", "deliver", "promote"}
  /\ tx[sweeper] = Idle
  /\ failures' = failures + 1
  /\ phase' = "idle"
  /\ list' = <<>>
  /\ UNCHANGED <<vars, paidQueue>>

\* The process dies: every transaction rolls back, the tick is forgotten.
Restart ==
  /\ failures < MaxFailures
  /\ failures' = failures + 1
  /\ tx' = [w \in Workers |-> Idle]
  /\ phase' = "idle"
  /\ list' = <<>>
  /\ UNCHANGED <<orderVars, keyVars, couponVars, paidQueue>>

-----------------------------------------------------------------------------
SweepInit ==
  /\ Init
  /\ phase = "idle"
  /\ list = <<>>
  /\ paidQueue = <<>>
  /\ failures = 0

\* Everything else the shop does meanwhile.
Shop ==
  /\ \/ \E w \in Workers \ {sweeper} : Begin(w)
     \/ \E w \in Workers : Step(w)
     \/ Settle
     \/ Administer
  /\ StampPaid
  /\ UNCHANGED <<phase, list, failures>>

ShopStep(w) == Step(w) /\ StampPaid /\ UNCHANGED <<phase, list, failures>>

SweepNext ==
  \/ Tick
  \/ Shop
  \/ \E w \in Workers : RollBack(w)
  \/ TickFails
  \/ Restart

(* The timer fires again and again and PostgreSQL queues waiters for the   *)
(* arbitration lock and for a row first come first served, so a step of    *)
(* the tick that can be taken over and over is taken (SF); a transaction   *)
(* in progress goes on (WF).                                               *)
SweepSpec ==
  /\ SweepInit
  /\ [][SweepNext]_allVars
  /\ SF_allVars(Tick)
  /\ \A w \in Workers : WF_allVars(ShopStep(w))

-----------------------------------------------------------------------------
(* Properties.                                                             *)

\* The keys order o can still get, or is getting, for its item of variant v.
Supply(o, v) ==
  Free(v) \cup KeysOf(o, v, "RESERVED") \cup KeysOf(o, v, "SOLD")
    \cup UNION {{k \in tx[w].took : KeyVariant[k] = v} :
                  w \in {x \in Workers : tx[x].kind = "deliver" /\ tx[x].order = o}}

Deliverable(o) ==
  orderStatus[o] = "PAID" /\ \A v \in Variants : Cardinality(Supply(o, v)) >= Quantity[o][v]

\* An order whose money arrived is not left waiting for good while there are
\* keys for it: the sweep makes stuck orders heal by themselves.
StuckOrdersHeal == \A o \in Orders : ~<>[]Deliverable(o)

\* The reservation of an order that is not paid in time ends.
ExpiredOrdersRelease ==
  \A o \in Orders : (o \in due /\ orderStatus[o] = "PENDING") ~> orderStatus[o] # "PENDING"

\* Money recorded by an earlier release reaches its order.
OrphansPromoted ==
  \A o \in Orders : (payStatus[o] = "SUCCESS") ~> orderStatus[o] \in {"PAID", "DELIVERED"}
=============================================================================
