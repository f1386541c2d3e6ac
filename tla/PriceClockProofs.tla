--------------------------- MODULE PriceClockProofs ---------------------------
(***************************************************************************)
(* The theorems about the price clock, for every set of schedules, window  *)
(* widths and targets.                                                     *)
(***************************************************************************)
EXTENDS PriceClock, CoreTheorems

(* The clock's state keeps its type, and its u64 never wraps. *)
THEOREM ClockTypeCorrect == Spec => []TypeOK
<1>1. Init => TypeOK
  BY WidthsAssumption DEF Init, TypeOK, U64
<1>2. TypeOK /\ [Next]_vars => TypeOK'
  BY WidthsAssumption, ClockAssumption DEF TypeOK, Next, Advance, vars, U64, SatU64, AtMost
<1> QED BY <1>1, <1>2, PTL DEF Spec

(* Whatever time passes between two readings, the price only descends and  *)
(* stays between the floor and the start, for every schedule.              *)
THEOREM ClockDescends == Spec => PriceDescends
<1>1. TypeOK /\ TypeOK' /\ [Next]_vars =>
        [/\ PriceAt(schedule, elapsed') <= PriceAt(schedule, elapsed)
         /\ PriceAt(schedule, elapsed') \in schedule.floor_price..schedule.start_price]_vars
  <2> SUFFICES ASSUME TypeOK, TypeOK', Next
               PROVE  /\ PriceAt(schedule, elapsed') <= PriceAt(schedule, elapsed)
                      /\ PriceAt(schedule, elapsed') \in schedule.floor_price..schedule.start_price
    OBVIOUS
  <2>1. elapsed \in U64 /\ elapsed' \in U64 /\ elapsed <= elapsed'
    BY WidthsAssumption, ClockAssumption DEF TypeOK, Next, Advance, U64, SatU64, AtMost
  <2>2. IsSchedule(schedule)
    BY ClockAssumption DEF TypeOK
  <2>3. schedule.floor_price \in Int /\ schedule.start_price \in Int
    BY <2>2 DEF IsSchedule, I64
  <2> QED BY <2>1, <2>2, <2>3, PriceInBounds, PriceMonotonic
<1> QED BY <1>1, ClockTypeCorrect, PTL DEF Spec, PriceDescends

(* The engine that sleeps until time_to_reach wakes exactly when the price *)
(* is met, for every schedule whose steps take time and whose prices are   *)
(* at most I64Max apart.                                                   *)
THEOREM TimeToReachEarliest ==
  ASSUME \A s \in Schedules : ~JumpsToFloor(s.kind) /\ NarrowRange(s)
  PROVE  Spec => []TimeToReachIsEarliest
<1>1. TypeOK => TimeToReachIsEarliest
  <2> SUFFICES ASSUME TypeOK, NEW target \in Targets
               PROVE  IF TimeToReach(schedule, target) = {}
                      THEN PriceAt(schedule, elapsed) > target
                      ELSE \A t \in TimeToReach(schedule, target) \ {U64Max} :
                             elapsed >= t <=> PriceAt(schedule, elapsed) <= target
    BY DEF TimeToReachIsEarliest
  <2>1. /\ IsSchedule(schedule) /\ ~JumpsToFloor(schedule.kind) /\ NarrowRange(schedule)
        /\ elapsed \in U64
    BY ClockAssumption DEF TypeOK
  <2>2. target \in Int
    BY ClockAssumption DEF I64
  <2> QED BY <2>1, <2>2, TimeToReachCorrect
<1> QED BY <1>1, ClockTypeCorrect, PTL

(* The price of a window is the lowest of its instants, for every schedule *)
(* and every width, up to the end of u64 time.                             *)
THEOREM WindowPriceLowest == Spec => []WindowPriceIsLowest
<1>1. TypeOK => WindowPriceIsLowest
  <2> SUFFICES ASSUME TypeOK PROVE WindowPriceIsLowest
    OBVIOUS
  <2> DEFINE last == WindowLast(width, elapsed)
  <2>1. IsSchedule(schedule) /\ elapsed \in U64 /\ width \in U64
    BY ClockAssumption DEF TypeOK
  <2>2. /\ last \in U64 /\ elapsed <= last
        /\ WindowIndex(width, last) = WindowIndex(width, elapsed)
    BY <2>1, WindowLastIsLast
  <2>3. ASSUME NEW t \in U64, WindowIndex(width, t) = WindowIndex(width, elapsed)
        PROVE  PriceAt(schedule, last) <= PriceAt(schedule, t)
    BY <2>1, <2>2, <2>3, WindowLastIsLast, PriceMonotonic
  <2>4. last < U64Max => PriceAt(schedule, last + 1) <= PriceAt(schedule, last)
    <3> HIDE DEF last
    <3>1. last < U64Max => last + 1 \in U64 /\ last <= last + 1
      BY <2>2, WidthsAssumption DEF U64
    <3> QED BY <2>1, <2>2, <3>1, PriceMonotonic
  <2> QED BY <2>2, <2>3, <2>4 DEF WindowPriceIsLowest, WindowPrice
<1> QED BY <1>1, ClockTypeCorrect, PTL
=============================================================================
