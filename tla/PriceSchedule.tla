---------------------------- MODULE PriceSchedule ----------------------------
(***************************************************************************)
(* The price clock of auction-core (schedule.rs): price as a pure function *)
(* of the nanoseconds elapsed since the auction opened, the instant a      *)
(* price is reached, and the price of a batch window (state.rs,            *)
(* window_bounds).  Integers keep the widths of the code through I64Max    *)
(* and U64Max, so that a small instance reaches the saturating arithmetic. *)
(***************************************************************************)
EXTENDS Integers

CONSTANTS
  I64Max,       \* i64::MAX
  U64Max,       \* u64::MAX
  NanosPerSec   \* the 1_000_000_000 of a linear clock's rate

ASSUME WidthsAssumption ==
  /\ I64Max \in Nat /\ U64Max \in Nat /\ NanosPerSec \in Nat
  /\ 0 < I64Max /\ I64Max < U64Max /\ 0 < NanosPerSec

I64 == (-I64Max - 1)..I64Max
U64 == 0..U64Max

(***************************************************************************)
(* ScheduleKind and PriceSchedule.  The constructors assert the bounds     *)
(* (schedule.rs:46-78), so only well-formed schedules exist.               *)
(***************************************************************************)
Stepped(duration, size) ==
  [kind |-> "Stepped", step_duration |-> duration, step_size |-> size]
Linear(rate) == [kind |-> "Linear", rate_per_sec |-> rate]

ScheduleKind ==
  [kind : {"Stepped"}, step_duration : U64, step_size : 0..I64Max]
    \cup [kind : {"Linear"}, rate_per_sec : 0..I64Max]

IsSchedule(s) ==
  /\ s.start_price \in I64 /\ s.floor_price \in I64
  /\ s.floor_price <= s.start_price
  /\ s.kind \in ScheduleKind

(* Saturating arithmetic of i64 and u64. *)
AtMost(n, bound) == IF n > bound THEN bound ELSE n
SatI64(n) == IF n < -I64Max - 1 THEN -I64Max - 1 ELSE AtMost(n, I64Max)
SatU64(n) == AtMost(n, U64Max)
ClampTo(n, floor, start) == IF n < floor THEN floor ELSE AtMost(n, start)

CeilDiv(n, d) == (n + d - 1) \div d

(* Fault: the product wraps instead of saturating. *)
WrappingDrop(steps, size) == (steps * size) % (I64Max + 1)

SaturatingDrop(steps, size) == AtMost(AtMost(steps, I64Max) * size, I64Max)

-----------------------------------------------------------------------------
(* How far a clock of this kind has fallen after `elapsed`. *)
Drop(kind, elapsed) ==
  IF kind.kind = "Stepped"
  THEN SaturatingDrop(elapsed \div kind.step_duration, kind.step_size)
  ELSE AtMost((elapsed * kind.rate_per_sec) \div NanosPerSec, I64Max)

(* A zero-length step is an immediate jump to the floor. *)
JumpsToFloor(kind) == kind.kind = "Stepped" /\ kind.step_duration = 0

PriceAt(s, elapsed) ==
  IF JumpsToFloor(s.kind) THEN s.floor_price
  ELSE ClampTo(SatI64(s.start_price - Drop(s.kind, elapsed)),
               s.floor_price, s.start_price)

AtFloor(s, elapsed) == PriceAt(s, elapsed) = s.floor_price

(* The rate of fall and the time it takes to fall by `drop`. *)
Rate(kind) == IF kind.kind = "Stepped" THEN kind.step_size ELSE kind.rate_per_sec

(* Fault: rounds down, so the price is not reached yet. *)
TimeToDropRoundsDown(kind, drop) ==
  IF kind.kind = "Stepped"
  THEN SatU64((drop \div kind.step_size) * kind.step_duration)
  ELSE SatU64((drop * NanosPerSec) \div kind.rate_per_sec)

TimeToDrop(kind, drop) ==
  IF kind.kind = "Stepped"
  THEN SatU64(SatU64(CeilDiv(drop, kind.step_size))
                * (IF kind.step_duration = 0 THEN 1 ELSE kind.step_duration))
  ELSE SatU64(CeilDiv(drop * NanosPerSec, kind.rate_per_sec))

(* The instants time_to_reach answers with: {} for None, {t} for Some(t). *)
TimeToReach(s, target) ==
  LET drop == SatI64(s.start_price - target)
  IN  IF target > s.start_price THEN {0}
      ELSE IF target < s.floor_price THEN {}
      ELSE IF Rate(s.kind) = 0 THEN (IF drop = 0 THEN {0} ELSE {})
      ELSE {TimeToDrop(s.kind, drop)}

-----------------------------------------------------------------------------
(***************************************************************************)
(* Batch windows: the index of the window `ts` falls in and the clock      *)
(* price at the window's last nanosecond.  A width of zero makes every     *)
(* instant its own window.                                                 *)
(***************************************************************************)
WindowIndex(width, ts) == IF width = 0 THEN ts ELSE ts \div width

(* Fault: takes the first nanosecond of the window. *)
WindowLastFirstNano(width, ts) ==
  IF width = 0 THEN ts ELSE SatU64(WindowIndex(width, ts) * width)

WindowLast(width, ts) ==
  IF width = 0 THEN ts
  ELSE SatU64(SatU64(WindowIndex(width, ts) * width) + (width - 1))

WindowPrice(s, width, ts) == PriceAt(s, WindowLast(width, ts))
=============================================================================
