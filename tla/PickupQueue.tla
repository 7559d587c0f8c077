----------------------------- MODULE PickupQueue -----------------------------
(***************************************************************************)
(* pickup_workload.estimate_queue: what the assistant says about the       *)
(* pickup orders of a store, and what happens to one picker who relies on  *)
(* it.  The estimate puts the orders in the sequence of their promises and *)
(* gives the latest moment from which uninterrupted work meets all.  The   *)
(* program's clock stands still at Now; the picker's goes on from there.   *)
(***************************************************************************)
EXTENDS Integers, FiniteSets, FiniteSetsExt, SequencesExt

CONSTANTS
  Orders,      \* order ids, ordered as the numbers they are
  Now,         \* the snapshot's moment
  PickTime,    \* bopis_order_minutes
  Promises,    \* moments at which an order may be promised
  RowLimit,    \* rows the backend returns
  Closing      \* bound on the clock

ASSUME QueueAssumption ==
  /\ Orders \subseteq Nat /\ IsFiniteSet(Orders)
  /\ Promises \subseteq Nat /\ Now \in Nat
  /\ PickTime \in Nat \ {0} /\ RowLimit \in Nat \ {0} /\ Closing \in Nat

VARIABLES
  promised,  \* promised_at of each order
  pending,   \* orders not yet picked
  minute,    \* the picker's clock
  missed,    \* orders picked after their promise
  advice,    \* the sequence and latest start that the picker keeps to, or none
  hopeless   \* the first orders of which an estimate said that they cannot all be
             \* met, or cannot any more once its latest start has passed

queueVars == <<promised, pending, minute, missed, advice, hopeless>>

NoAdvice == [sequence |-> <<>>, orders |-> {}, latest |-> 0]

QueueInit ==
  /\ promised \in [Orders -> Promises]
  /\ pending = Orders
  /\ minute = Now
  /\ missed = {}
  /\ advice = NoAdvice
  /\ hopeless = {}

\* get_bopis_demand: orders promised within the window, overdue ones included.
Demand(until) == {o \in pending : promised[o] <= until}

Earlier(o, p) == promised[o] < promised[p] \/ (promised[o] = promised[p] /\ o < p)

\* orders.sort(...): each order once, in the sequence of the promises.
Ordered(orders) ==
  CHOOSE s \in [1 .. Cardinality(orders) -> orders] :
    \A i, j \in DOMAIN s : i < j => Earlier(s[i], s[j])

\* What LatestStart must not be: the limit of the first and the last order.
EndsOnly(seq) == Min({promised[seq[i]] - i * PickTime : i \in {1, Len(seq)}})

\* The tightest prefix, not necessarily the first or last order, sets the limit.
LatestStart(seq) == Min({promised[seq[i]] - i * PickTime : i \in DOMAIN seq})

LateFrom(seq, start) == {i \in DOMAIN seq : start + i * PickTime > promised[seq[i]]}

\* feasible_from_snapshot of one of the two scenarios.
Feasible(seq, start) == start >= Now /\ LateFrom(seq, start) = {}

\* get_pickup_workload; a count above the rows returned is refused.
Estimate ==
  /\ minute = Now
  /\ \E until \in Promises :
       LET found == Demand(until)
           seq == Ordered(found)
       IN /\ found # {} /\ Cardinality(found) <= RowLimit
          /\ advice' = IF Feasible(seq, Now) \/ Feasible(seq, LatestStart(seq))
                       THEN [sequence |-> seq, orders |-> found, latest |-> LatestStart(seq)]
                       ELSE NoAdvice
          /\ hopeless' = IF hopeless = {} /\ ~Feasible(seq, Now) THEN found ELSE hopeless
          /\ UNCHANGED <<promised, pending, minute, missed>>

\* The picker takes any order.  The advice holds on for one who takes the next of it
\* and works without a pause.
PickOrder(o) ==
  /\ o \in pending /\ minute + PickTime <= Closing
  /\ minute' = minute + PickTime
  /\ pending' = pending \ {o}
  /\ missed' = IF minute' > promised[o] THEN missed \cup {o} ELSE missed
  /\ advice' = IF advice.sequence # <<>> /\ Head(advice.sequence) = o
               THEN [advice EXCEPT !.sequence = Tail(@), !.latest = 0] ELSE NoAdvice
  /\ UNCHANGED <<promised, hopeless>>

\* Before the first order the picker may wait until the latest start.
WaitToPick ==
  /\ minute < Closing
  /\ minute' = minute + 1
  /\ advice' = IF minute' <= advice.latest THEN advice ELSE NoAdvice
  /\ hopeless' = IF hopeless = {} /\ minute' > advice.latest /\ advice.orders \subseteq pending
                 THEN advice.orders ELSE hopeless
  /\ UNCHANGED <<promised, pending, missed>>

QueueNext == Estimate \/ WaitToPick \/ \E o \in Orders : PickOrder(o)

QueueSpec == QueueInit /\ [][QueueNext]_queueVars

(* ------------------------------ properties ------------------------------ *)

\* "latest_uninterrupted_start is an estimate under these assumptions": who starts
\* by then and keeps to the sequence meets every promise in it; who starts any later,
\* and whoever has a queue that the estimate calls not feasible from the snapshot,
\* misses some promise of it in every other sequence too.
EstimateIsExact ==
  /\ missed \cap advice.orders = {}
  /\ hopeless # {} /\ hopeless \cap pending = {} => hopeless \cap missed # {}
=============================================================================
