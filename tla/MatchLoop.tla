------------------------------ MODULE MatchLoop ------------------------------
(***************************************************************************)
(* The matching pass of flush_window (state.rs:461-484) and its allocate   *)
(* (state.rs:698-729), one action per turn of their loops: sort, take the  *)
(* next price level, hand out the rounding remainder.  The pass runs       *)
(* inside one command, so nothing interleaves with it; what is to be shown *)
(* is that the loops compute Matching's Allocate.                          *)
(***************************************************************************)
EXTENDS Matching, SequencesExt

CONSTANTS Quantities, Priorities, Supplies

ASSUME MatchLoopAssumption ==
  /\ Keys \subseteq Nat
  /\ Quantities \subseteq Nat \ {0}
  /\ Priorities \subseteq Int /\ Supplies \subseteq Nat

VARIABLES
  bids,     \* the window's bids; a key is its own arrival rank
  supply,   \* supply_remaining when the window is flushed
  order,    \* w.bids once sorted
  i,        \* the first bid of the next level
  j,        \* one past the last bid of the level being allocated
  m,        \* the next bid of the level to be offered a remainder unit
  left,     \* remainder units not handed out yet
  allocs,   \* units allocated so far
  remaining \* supply_remaining as the loop goes

loopVars == <<order, i, j, m, left, allocs, remaining>>
vars == <<bids, supply, loopVars>>

Bids ==
  {b \in [Keys -> [qty : Quantities, priority : Priorities, seq : Keys] \cup {None}] :
     \A k \in Present(b) : b[k].seq = k}

(* sort_by: priority descending, then seq ascending. *)
Better(b, k1, k2) ==
  \/ b[k1].priority > b[k2].priority
  \/ b[k1].priority = b[k2].priority /\ b[k1].seq < b[k2].seq

(* Fault: sorts by arrival only. *)
SortedByArrival(b) ==
  CHOOSE s \in SetToSeqs(Present(b)) :
    \A p, q \in DOMAIN s : p < q => b[s[p]].seq < b[s[q]].seq

Sorted(b) ==
  CHOOSE s \in SetToSeqs(Present(b)) :
    \A p, q \in DOMAIN s : p < q => Better(b, s[p], s[q])

Init ==
  /\ bids \in Bids
  /\ supply \in Supplies
  /\ order = Sorted(bids)
  /\ i = 1 /\ j = 1 /\ m = 1 /\ left = 0
  /\ allocs = [k \in Keys |-> 0]
  /\ remaining = supply

Len1 == Len(order) + 1

(* Fault: the level never advances. *)
LevelEndStuck(from) == from

(* One past the last bid at the priority of the bid at position `from`. *)
LevelEnd(from) ==
  Min({p \in from..Len1 : p = Len1 \/ bids[order[p]].priority # bids[order[from]].priority})

Qty(p) == bids[order[p]].qty
Between(from, to) == {order[p] : p \in from..(to - 1)}
Taken(from, to) == SumFunctionOnSet(allocs, Between(from, to))
LevelDemand(from, to) == Demand(bids, Between(from, to))

(* Supply is gone: the level keeps its zero allocations. *)
SkipLevel ==
  /\ i = j /\ i < Len1 /\ remaining = 0
  /\ i' = LevelEnd(i) /\ j' = LevelEnd(i)
  /\ UNCHANGED <<bids, supply, order, m, left, allocs, remaining>>

(* demand <= remaining: the level fits. *)
FillLevel ==
  /\ i = j /\ i < Len1 /\ remaining > 0
  /\ LET to == LevelEnd(i)
     IN  /\ LevelDemand(i, to) <= remaining
         /\ i' = to /\ j' = to
         /\ allocs' = [k \in Keys |-> IF k \in Between(i, to) THEN bids[k].qty ELSE allocs[k]]
         /\ remaining' = Monus(remaining, LevelDemand(i, to))
  /\ UNCHANGED <<bids, supply, order, m, left>>

(* Fault: divides before it multiplies. *)
FloorSharesDividingFirst(to) ==
  [k \in Keys |-> IF k \in Between(i, to)
                  THEN (remaining \div LevelDemand(i, to)) * bids[k].qty
                  ELSE allocs[k]]

(* demand > remaining: everybody gets the floor of the exact share. *)
FloorShares(to) ==
  [k \in Keys |-> IF k \in Between(i, to)
                  THEN (remaining * bids[k].qty) \div LevelDemand(i, to)
                  ELSE allocs[k]]

ProRataLevel ==
  /\ i = j /\ i < Len1 /\ remaining > 0
  /\ LET to == LevelEnd(i)
     IN  /\ LevelDemand(i, to) > remaining
         /\ j' = to /\ m' = i
         /\ allocs' = FloorShares(to)
         /\ left' = remaining - SumFunctionOnSet(FloorShares(to), Between(i, to))
  /\ UNCHANGED <<bids, supply, order, i, remaining>>

(* The pass over the level that hands out the remainder. *)
HandOutUnit ==
  /\ i < j /\ m < j /\ left > 0
  /\ IF allocs[order[m]] < Qty(m)
     THEN allocs' = [allocs EXCEPT ![order[m]] = @ + 1] /\ left' = left - 1
     ELSE UNCHANGED <<allocs, left>>
  /\ m' = m + 1
  /\ UNCHANGED <<bids, supply, order, i, j, remaining>>

EndLevel ==
  /\ i < j /\ (m = j \/ left = 0)
  /\ remaining' = Monus(remaining, Taken(i, j))
  /\ i' = j
  /\ UNCHANGED <<bids, supply, order, j, m, left, allocs>>

Done == i = j /\ i = Len1

Next == SkipLevel \/ FillLevel \/ ProRataLevel \/ HandOutUnit \/ EndLevel

Spec == Init /\ [][Next]_vars /\ WF_vars(Next)

-----------------------------------------------------------------------------
(***************************************************************************)
(* The loops compute Allocate: when the pass is over, every bid has the    *)
(* declared allocation, and supply_remaining has fallen by exactly what    *)
(* was handed out (state.rs:469-484, 698-729).                             *)
(***************************************************************************)
LoopComputesAllocate ==
  Done => /\ allocs = Allocate(bids, supply)
          /\ remaining = supply - SumFunction(allocs)

(***************************************************************************)
(* The debug_assert of allocate (state.rs:724-727): one pass in priority   *)
(* order places every remainder unit.                                      *)
(***************************************************************************)
RemainderPlaced == (i < j /\ m = j) => left = 0

(***************************************************************************)
(* Who is served (docs/auction-rules.md §5, state.rs:443-448): a bid gets  *)
(* units only when every better-priced one is full; within a level each    *)
(* bid is within one unit of its exact pro-rata share, and an earlier bid  *)
(* of the same size never gets less; a bid that goes short means that      *)
(* nothing is left.                                                        *)
(***************************************************************************)
PriorityRespected ==
  Done => \A k1, k2 \in Present(bids) :
    LET taken == SumFunctionOnSet(allocs, Level(bids, k1))
        exact == taken * bids[k1].qty
        demand == Demand(bids, Level(bids, k1))
    IN  /\ bids[k1].priority > bids[k2].priority /\ allocs[k2] > 0
             => allocs[k1] = bids[k1].qty
        /\ allocs[k1] * demand <= exact + demand
        /\ exact < allocs[k1] * demand + demand
        /\ k1 \in Ahead(bids, k2) /\ bids[k1].qty = bids[k2].qty
             => allocs[k1] >= allocs[k2]
        /\ allocs[k1] < bids[k1].qty => remaining = 0

(* Every window is settled: the loops of state.rs:469-484 and 717-725 end. *)
MatchingEnds == <>Done
=============================================================================
