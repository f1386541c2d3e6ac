------------------------------ MODULE PriceClock ------------------------------
(***************************************************************************)
(* A published schedule and a clock that reads it.  Price is a pure        *)
(* function of elapsed time, so the only state is which schedule was       *)
(* published, how wide its batch windows are and how much time has passed; *)
(* the reader may be late by any amount.                                   *)
(***************************************************************************)
EXTENDS PriceSchedule

CONSTANTS
  Schedules,   \* the schedules a run publishes
  Widths,      \* the batch window widths a run uses
  Targets,     \* the prices time_to_reach is asked for
  MaxLateness  \* how much time one step of the clock may skip

ASSUME ClockAssumption ==
  /\ \A s \in Schedules : IsSchedule(s)
  /\ Widths \subseteq U64 /\ Targets \subseteq I64
  /\ MaxLateness \in Nat

VARIABLES schedule, width, elapsed

vars == <<schedule, width, elapsed>>

Init ==
  /\ schedule \in Schedules
  /\ width \in Widths
  /\ elapsed = 0

(* Time passes, and the u64 nanosecond count never wraps. *)
Advance ==
  /\ \E late \in 0..MaxLateness : elapsed' = SatU64(elapsed + late)
  /\ UNCHANGED <<schedule, width>>

Next == Advance

Spec == Init /\ [][Next]_vars

-----------------------------------------------------------------------------
(* The schedule stays the published one and the clock stays a u64. *)
TypeOK ==
  /\ schedule \in Schedules
  /\ width \in Widths
  /\ elapsed \in U64

(***************************************************************************)
(* The clock only descends and stays within [floor, start] (I3,            *)
(* schedule.rs:80-85): whatever time passes between two readings, a later  *)
(* price_at is never above an earlier one.                                 *)
(***************************************************************************)
PriceDescends ==
  [][/\ PriceAt(schedule, elapsed') <= PriceAt(schedule, elapsed)
     /\ PriceAt(schedule, elapsed') \in schedule.floor_price..schedule.start_price
    ]_vars

(***************************************************************************)
(* time_to_reach answers with the earliest instant at which the price is   *)
(* at or below the target (schedule.rs:113-117): the engine that sleeps    *)
(* until then neither wakes too early nor misses the trigger, and None     *)
(* means the price never gets there.  The answer U64Max is a saturated     *)
(* one and promises nothing.                                               *)
(***************************************************************************)
TimeToReachIsEarliest ==
  \A target \in Targets :
    LET answer == TimeToReach(schedule, target)
    IN  IF answer = {} THEN PriceAt(schedule, elapsed) > target
        ELSE \A t \in answer \ {U64Max} :
               elapsed >= t <=> PriceAt(schedule, elapsed) <= target

(***************************************************************************)
(* Batching never fills a participant worse than the price they bid        *)
(* against (state.rs:409-413): the window price is at most the price on    *)
(* arrival, and it is still a price of the window: the clock is no higher  *)
(* than it once the window is over.                                        *)
(***************************************************************************)
WindowPriceIsLowest ==
  LET last == WindowLast(width, elapsed)
      price == WindowPrice(schedule, width, elapsed)
  IN  /\ elapsed <= last
      /\ WindowIndex(width, last) = WindowIndex(width, elapsed)
      /\ \A t \in {u \in U64 : WindowIndex(width, u) = WindowIndex(width, elapsed)} :
           price <= PriceAt(schedule, t)
      /\ last < U64Max => PriceAt(schedule, last + 1) <= price
=============================================================================
