------------------------------- MODULE Matching -------------------------------
(***************************************************************************)
(* What one batch window's bids are allocated (state.rs, flush_window and  *)
(* allocate): price levels are served from the highest priority down; a    *)
(* level that fits is filled, and the level at the margin shares what is   *)
(* left pro rata, the rounding remainder going one unit at a time in       *)
(* arrival order.  The loops of the code are in MatchLoop, which shows     *)
(* that they compute this.                                                 *)
(*                                                                         *)
(* `bids` maps each key to its bid in the window, or to None; a bid has a  *)
(* qty, the priority price it competes at and its arrival seq.             *)
(***************************************************************************)
EXTENDS Integers, FiniteSets, Functions

CONSTANTS
  Keys,   \* idempotency keys
  None    \* Option::None

ASSUME KeysAssumption == IsFiniteSet(Keys)

(* Fault: the subtraction does not stop at zero. *)
UncheckedSub(a, b) == a - b

(* Qty::saturating_sub. *)
Monus(a, b) == IF a > b THEN a - b ELSE 0

Present(bids) == {k \in Keys : bids[k] # None}

(* Bids of a better level, of the same level, and earlier in the level. *)
Above(bids, k) == {j \in Present(bids) : bids[j].priority > bids[k].priority}
Level(bids, k) == {j \in Present(bids) : bids[j].priority = bids[k].priority}
Ahead(bids, k) == {j \in Level(bids, k) : bids[j].seq < bids[k].seq}

Demand(bids, K) == SumFunctionOnSet([k \in K |-> bids[k].qty], K)

(* The floored pro-rata share of `remaining` units. *)
Share(bids, remaining, k) ==
  (remaining * bids[k].qty) \div Demand(bids, Level(bids, k))

Unsaturated(bids, remaining, K) ==
  {j \in K : Share(bids, remaining, j) < bids[j].qty}

(* What flooring leaves over, handed out one unit each in arrival order. *)
RoundingRemainder(bids, remaining, K) ==
  remaining - SumFunctionOnSet([j \in K |-> Share(bids, remaining, j)], K)

ProRata(bids, remaining, k) ==
  Share(bids, remaining, k) +
    IF /\ k \in Unsaturated(bids, remaining, {k})
       /\ Cardinality(Unsaturated(bids, remaining, Ahead(bids, k)))
            < RoundingRemainder(bids, remaining, Level(bids, k))
    THEN 1 ELSE 0

(* Fault: what better levels took is not deducted. *)
AllocationForgettingTaken(bids, supply, k) ==
  IF Demand(bids, Level(bids, k)) <= supply THEN bids[k].qty
  ELSE ProRata(bids, supply, k)

Allocation(bids, supply, k) ==
  LET remaining == Monus(supply, Demand(bids, Above(bids, k)))
  IN  IF Demand(bids, Level(bids, k)) <= remaining THEN bids[k].qty
      ELSE ProRata(bids, remaining, k)

Allocate(bids, supply) ==
  [k \in Keys |-> IF bids[k] = None THEN 0 ELSE Allocation(bids, supply, k)]
=============================================================================
