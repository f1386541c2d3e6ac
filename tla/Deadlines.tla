------------------------------ MODULE Deadlines ------------------------------
(***************************************************************************)
(* When the engine wakes up on its own (auction-engine clock.rs and        *)
(* deadline() of engine.rs).  A deadline is read off the auction's state:  *)
(* {} is the code's None, {t} its Some(Deadline(t)).                       *)
(***************************************************************************)
EXTENDS Auction

(* Fault: a full width from now, so late arrivals extend the window. *)
WindowCloseFromNow(now, width) == IF width = 0 THEN {} ELSE {SatU64(now + width)}

(* When the batch window that contains `now` closes. *)
WindowClose(now, width) ==
  IF width = 0 THEN {} ELSE {SatU64(SatU64(WindowIndex(width, now) + 1) * width)}

(* The highest limit on the ladder, the next one a falling clock reaches. *)
RestingLimits(s) == {s.resting[k].limit : k \in Present(s.resting)}
NextTrigger(s) == {p \in RestingLimits(s) : \A q \in RestingLimits(s) : q <= p}

(* The three things that come due by themselves. *)
WindowDue(s) == IF s.window = None THEN {} ELSE WindowClose(s.now, BatchWindow)
TriggerDue(s) == UNION {TimeToReach(Schedule, limit) : limit \in NextTrigger(s)}

(* Fault: nothing notices that the clock has come to its end. *)
FloorNeverDue(s) == {}

FloorDue(s) == TimeToReach(Schedule, Schedule.floor_price)

(* A deadline in the past is due now, not skipped. *)
DueTimes(s) == {IF t > s.now THEN t ELSE s.now : t \in WindowDue(s) \cup TriggerDue(s) \cup FloorDue(s)}

DeadlineOf(s) ==
  IF ~AcceptsBids(s) THEN {}
  ELSE {t \in DueTimes(s) : \A u \in DueTimes(s) : t <= u}

-----------------------------------------------------------------------------
(* The auction after a tick at instant t, and when it changes nothing. *)
Ticked(t) == OnTick(Arrive(auction, t))
Idled(t) == [auction EXCEPT !.now = t]

(* Is `due` right about a tick at t, which would leave the state `after`? *)
RightAbout(t, due, after) ==
  /\ (\A u \in due : t < u) => after = Idled(t)
  /\ t \in due => after # Idled(t) /\ t \notin DeadlineOf(after)

(***************************************************************************)
(* The engine sleeps exactly as long as it may (engine.rs:541-550): no     *)
(* tick before the deadline would match a window, trigger a bid or end the *)
(* auction, the tick at the deadline does one of these and leaves nothing  *)
(* due at the same instant, and with no deadline no tick ever would.  Too  *)
(* late a deadline leaves bids waiting; one that its own tick does not     *)
(* clear makes the engine write ticks into the log without end.            *)
(***************************************************************************)
DeadlineIsExact ==
  \A t \in auction.now..U64Max : RightAbout(t, DeadlineOf(auction), Ticked(t))
=============================================================================
