-------------------------- MODULE EngineClockProofs --------------------------
(***************************************************************************)
(* The theorems about the engine's clock and its deadlines: stamps never   *)
(* run backwards, what the auction owes it owes through every restart, and *)
(* the engine sleeps exactly as long as it may; for every schedule, set of *)
(* submissions, queue depth and number of starts.                          *)
(***************************************************************************)
EXTENDS EngineClock, AuctionProofs

-----------------------------------------------------------------------------
(***************************************************************************)
(* Time within a command.  Only Arrive moves `now`; no handler, and        *)
(* nothing a handler calls, touches it.                                    *)
(***************************************************************************)
At(s, now) == "now" \in DOMAIN s /\ s.now = now

(* The changes a clearing, a refund and an allocation make. *)
LEMMA EndsKeepTime ==
  ASSUME NEW now, NEW s, At(s, now)
  PROVE  /\ \A price : At(Clear(s, price), now)
         /\ \A reason : At(RefundWindow(s, reason), now)
         /\ \A w, allocs, left, fills, requeued :
              At(Settled(s, w, allocs, left, fills, requeued), now)
<1>1. ASSUME NEW price PROVE At(Clear(s, price), now)
  BY DEF Clear, At
<1>2. ASSUME NEW reason PROVE At(RefundWindow(s, reason), now)
  BY DEF RefundWindow, At
<1>3. ASSUME NEW w, NEW allocs, NEW left, NEW fills, NEW requeued
      PROVE  At(Settled(s, w, allocs, left, fills, requeued), now)
  BY DEF Settled, At
<1> QED BY <1>1, <1>2, <1>3

LEMMA FlushKeepsTime ==
  ASSUME NEW now, NEW s, At(s, now)
  PROVE  At(FlushWindow(s), now) /\ At(FlushIfUnbatched(s), now) /\ At(CloseElapsedWindow(s), now)
<1>1. ASSUME NEW w, NEW allocs PROVE At(Distribute(s, w, allocs), now)
  <2> DEFINE left == Monus(s.supply_remaining, SumFunctionOnSet(allocs, Keys))
             exhausted == s.supply_remaining > 0 /\ left = 0
             settled == Settled(s, w, allocs, left, NewFills(w, allocs),
                                Remainders(w, allocs, exhausted))
  <2>1. At(settled, now)
    BY EndsKeepTime
  <2>2. Distribute(s, w, allocs) = IF exhausted THEN Clear(settled, w.price) ELSE settled
    BY DEF Distribute
  <2> HIDE DEF settled, exhausted
  <2>3. At(Clear(settled, w.price), now)
    BY <2>1, EndsKeepTime
  <2> QED BY <2>1, <2>2, <2>3
<1>2. At(FlushWindow(s), now)
  <2>1. At(RefundWindow(s, "NotLive"), now)
    BY EndsKeepTime
  <2> QED BY <1>1, <2>1 DEF FlushWindow, SettleWindow
<1> QED BY <1>2 DEF FlushIfUnbatched, CloseElapsedWindow

LEMMA PartsKeepTime ==
  ASSUME NEW now, NEW s, At(s, now)
  PROVE  /\ \A bids : At(PushPending(s, bids), now)
         /\ \A k, outcome : At(SetOutcome(s, k, outcome), now)
         /\ \A p, price, qty : At([Reserve(s, p, price, qty) EXCEPT !.admitted = @ + 1], now)
         /\ \A clock_price : At(DrainTriggered(s, clock_price), now)
<1>1. ASSUME NEW bids PROVE At(PushPending(s, bids), now)
  BY DEF PushPending, At
<1>2. ASSUME NEW k, NEW outcome PROVE At(SetOutcome(s, k, outcome), now)
  BY DEF SetOutcome, At
<1>3. ASSUME NEW p, NEW price, NEW qty
      PROVE  At([Reserve(s, p, price, qty) EXCEPT !.admitted = @ + 1], now)
  BY DEF Reserve, At
<1>4. ASSUME NEW clock_price PROVE At(DrainTriggered(s, clock_price), now)
  BY DEF DrainTriggered, At
<1> QED BY <1>1, <1>2, <1>3, <1>4

(* Each handler. *)
LEMMA HandlersKeepTime ==
  ASSUME NEW now, NEW s, At(s, now)
  PROVE  /\ At(OnOpen(s), now) /\ At(OnTick(s), now) /\ At(OnCancel(s), now)
         /\ \A p, limit : At(OnSetCollateral(s, p, limit), now)
         /\ \A p, k : At(OnCancelResting(s, p, k), now)
         /\ \A p, k, qty : At(AdmitTake(s, p, k, qty), now)
         /\ \A p, k, qty, limit : At(AdmitResting(s, p, k, qty, limit), now)
         /\ \A k, refusal, admit : At(admit, now) => At(OnBid(s, k, refusal, admit), now)
<1>1. At(OnOpen(s), now)
  BY DEF OnOpen, At
<1>2. At(OnTick(s), now)
  <2> DEFINE drained == DrainTriggered(s, Price(s.now))
             triggered == PushPending(drained, TriggeredBids(s, Price(s.now)))
             matched == FlushIfUnbatched(triggered)
             settled == FlushWindow(matched)
  <2>1. OnTick(s) = IF ~AcceptsBids(s) THEN s
                    ELSE IF AcceptsBids(matched) /\ AtFloor(Schedule, s.now)
                    THEN (IF AcceptsBids(settled) THEN Clear(settled, Schedule.floor_price)
                          ELSE settled)
                    ELSE matched
    BY DEF OnTick, CloseAtFloor
  <2>2. At(drained, now)
    BY PartsKeepTime
  <2> HIDE DEF drained
  <2>3. At(triggered, now)
    BY <2>2, PartsKeepTime
  <2> HIDE DEF triggered
  <2>4. At(matched, now)
    BY <2>3, FlushKeepsTime
  <2> HIDE DEF matched
  <2>5. At(settled, now)
    BY <2>4, FlushKeepsTime
  <2> HIDE DEF settled
  <2>6. At(Clear(settled, Schedule.floor_price), now)
    BY <2>5, EndsKeepTime
  <2> QED BY <2>1, <2>4, <2>5, <2>6
<1>3. At(OnCancel(s), now)
  <2> DEFINE c == [s EXCEPT !.status = "Cancelled"]
             refunded == RefundWindow(c, "NotLive")
             t == [refunded EXCEPT
                    !.outcomes = RejectAll(@, s.resting, "NotLive"),
                    !.resting = Nothing,
                    !.committed = [p \in Participants |->
                       Returned(@[p], p, s.resting, LimitPrices(s.resting))]]
  <2>1. At(c, now)
    BY DEF At
  <2> HIDE DEF c
  <2>2. At(refunded, now)
    BY <2>1, EndsKeepTime
  <2>3. OnCancel(s) = IF IsTerminal(s) THEN s ELSE t
    BY DEF OnCancel, c
  <2> HIDE DEF refunded
  <2>4. At(t, now)
    BY <2>2 DEF At
  <2> QED BY <2>3, <2>4
<1>4. ASSUME NEW p, NEW limit PROVE At(OnSetCollateral(s, p, limit), now)
  BY DEF OnSetCollateral, At
<1>5. ASSUME NEW p, NEW k PROVE At(OnCancelResting(s, p, k), now)
  <2> DEFINE u == [s EXCEPT !.resting[k] = None,
                            !.committed[p] = SatI64(@ - s.resting[k].limit * s.resting[k].qty)]
  <2>1. At(u, now)
    BY DEF At
  <2>2. OnCancelResting(s, p, k) = s \/ OnCancelResting(s, p, k) = SetOutcome(u, k, Withdrawn)
    BY DEF OnCancelResting
  <2> HIDE DEF u
  <2> QED BY <2>1, <2>2, PartsKeepTime
<1>6. ASSUME NEW p, NEW k, NEW qty PROVE At(AdmitTake(s, p, k, qty), now)
  <2> DEFINE price == WindowPrice(Schedule, BatchWindow, s.now)
             bid == [seq |-> s.admitted, participant |-> p, qty |-> qty, priority |-> price,
                     reserve_price |-> price, resting_limit |-> None]
             reserved == [Reserve(s, p, price, qty) EXCEPT !.admitted = @ + 1]
             pushed == PushPending(reserved, OneBid(k, bid))
             queued == SetOutcome(pushed, k, Queued(qty))
  <2>1. AdmitTake(s, p, k, qty) = FlushIfUnbatched(queued)
    BY DEF AdmitTake
  <2>2. At(reserved, now)
    BY PartsKeepTime
  <2> HIDE DEF reserved
  <2>3. At(pushed, now)
    BY <2>2, PartsKeepTime
  <2> HIDE DEF pushed
  <2>4. At(queued, now)
    BY <2>3, PartsKeepTime
  <2> HIDE DEF queued
  <2> QED BY <2>1, <2>4, FlushKeepsTime
<1>7. ASSUME NEW p, NEW k, NEW qty, NEW limit PROVE At(AdmitResting(s, p, k, qty, limit), now)
  <2> DEFINE bid == [seq |-> s.admitted, participant |-> p, qty |-> qty, limit |-> limit]
             reserved == [Reserve(s, p, limit, qty) EXCEPT !.admitted = @ + 1]
             u == [reserved EXCEPT !.resting[k] = bid]
  <2>1. AdmitResting(s, p, k, qty, limit) = SetOutcome(u, k, Resting(qty))
    BY DEF AdmitResting
  <2>2. At(reserved, now)
    BY PartsKeepTime
  <2> HIDE DEF reserved, bid
  <2>3. At(u, now)
    BY <2>2 DEF At
  <2> HIDE DEF u
  <2> QED BY <2>1, <2>3, PartsKeepTime
<1>8. ASSUME NEW k, NEW refusal, NEW admit, At(admit, now)
      PROVE  At(OnBid(s, k, refusal, admit), now)
  <2>1. At(Reject(s, k, refusal), now)
    BY PartsKeepTime DEF Reject
  <2> QED BY <1>8, <2>1 DEF OnBid
<1> QED BY <1>1, <1>2, <1>3, <1>4, <1>5, <1>6, <1>7, <1>8

(* A command stamped no earlier than the auction leaves it at its stamp. *)
LEMMA ApplyTakesTime ==
  ASSUME NEW c, NEW ts \in Int, "now" \in DOMAIN auction, auction.now \in Int,
         auction.now <= ts, Apply(c, ts)
  PROVE  At(auction', ts)
<1> DEFINE s == Arrive(auction, ts)
<1>1. At(s, ts)
  <2> DEFINE t == [auction EXCEPT !.now = IF ts > @ THEN ts ELSE @]
  <2>1. At(t, ts)
    BY DEF At
  <2> HIDE DEF t
  <2>2. s = CloseElapsedWindow(t)
    BY DEF Arrive, t
  <2> QED BY <2>1, <2>2, FlushKeepsTime
<1>2. CASE Open(ts)
  BY <1>1, <1>2, HandlersKeepTime DEF Open
<1>3. CASE Tick(ts)
  BY <1>1, <1>3, HandlersKeepTime DEF Tick
<1>4. CASE Cancel(ts)
  BY <1>1, <1>4, HandlersKeepTime DEF Cancel
<1>5. CASE SetCollateral(ts, c.participant, c.limit)
  BY <1>1, <1>5, HandlersKeepTime DEF SetCollateral
<1>6. CASE CancelResting(ts, c.participant, c.key)
  BY <1>1, <1>6, HandlersKeepTime DEF CancelResting
<1>7. CASE SubmitTake(ts, c.participant, c.key, c.qty, c.expected_price)
  <2>1. At(AdmitTake(s, c.participant, c.key, c.qty), ts)
    BY <1>1, HandlersKeepTime
  <2> HIDE DEF s
  <2> QED BY <1>1, <1>7, <2>1, HandlersKeepTime DEF SubmitTake, s
<1>8. CASE SubmitResting(ts, c.participant, c.key, c.qty, c.limit)
  <2>1. At(AdmitResting(s, c.participant, c.key, c.qty, c.limit), ts)
    BY <1>1, HandlersKeepTime
  <2> HIDE DEF s
  <2> QED BY <1>1, <1>8, <2>1, HandlersKeepTime DEF SubmitResting, s
<1> QED BY <1>2, <1>3, <1>4, <1>5, <1>6, <1>7, <1>8 DEF Apply

-----------------------------------------------------------------------------
(* The reading of the clock and the time of an auction and of its log. *)
ClockInv ==
  /\ "now" \in DOMAIN auction /\ "now" \in DOMAIN logged
  /\ auction.now \in Int /\ logged.now \in Int /\ clock \in Int
  /\ auction.now <= clock

(***************************************************************************)
(* No command is stamped before one already applied, whatever arrives,     *)
(* however long a command waits between being taken and being stamped, and *)
(* however often the process restarts (clock.rs:10-55, engine.rs:395-407). *)
(***************************************************************************)
THEOREM NeverBackdated == ClockSpec => []StampsNeverBackdated
<1>1. ClockInit => ClockInv
  <2>1. "now" \in DOMAIN AtStart /\ AtStart.now \in Int
    BY EngineClockAssumption, WidthsAssumption DEF AuctionState, U64
  <2> QED BY <2>1 DEF ClockInit, ClockInv, Resume
<1>2. ClockInv /\ [ClockNext]_vars => ClockInv'
  <2> SUFFICES ASSUME ClockInv, [ClockNext]_vars PROVE ClockInv'
    OBVIOUS
  <2> USE DEF ClockInv
  <2>1. CASE Advance
    BY <2>1 DEF Advance
  <2>2. ASSUME NEW c \in Submissions, Submit(c) PROVE ClockInv'
    BY <2>2 DEF Submit
  <2>3. CASE EngineTake
    <3>1. clock' = auction.now \/ clock' = clock
      BY <2>3 DEF EngineTake, ReadingFor, Resume
    <3> QED BY <2>3, <3>1 DEF EngineTake
  <2>4. CASE EngineWait \/ EngineWake \/ EngineTick
    BY <2>4 DEF EngineWait, EngineWake, EngineTick
  <2>5. CASE EngineApply
    <3>1. At(auction', clock)
      BY <2>5, ApplyTakesTime DEF EngineApply
    <3> QED BY <2>5, <3>1 DEF EngineApply, At
  <2>6. CASE Persist
    BY <2>6 DEF Persist
  <2>7. CASE Restart
    BY <2>7 DEF Restart, Resume
  <2>8. CASE UNCHANGED vars
    BY <2>8 DEF vars
  <2> QED BY <2>1, <2>2, <2>3, <2>4, <2>5, <2>6, <2>7, <2>8 DEF ClockNext, EngineStep
<1>3. ClockInv => StampsNeverBackdated
  BY DEF ClockInv, StampsNeverBackdated
<1> QED BY <1>1, <1>2, <1>3, PTL DEF ClockSpec

-----------------------------------------------------------------------------
(* What the auction owes, through traffic and restarts. *)

SafeState(s) == Sound(s) /\ Timed(s)

(* Applying any command at any time keeps it. *)
LEMMA ApplySound ==
  ASSUME SafeState(auction), NEW ts \in U64, NEW c \in Command \cup {TickCmd}, Apply(c, ts)
  PROVE  SafeState(auction')
<1> DEFINE s == Arrive(auction, ts)
<1>1. Sound(s) /\ Timed(s)
  BY ArriveSound DEF SafeState
<1>2. CASE c.cmd = "Open" /\ Open(ts)
  BY <1>1, <1>2, OnOpenSound DEF Open, SafeState
<1>3. CASE c.cmd = "Tick" /\ Tick(ts)
  BY <1>1, <1>3, OnTickSound DEF Tick, SafeState
<1>4. CASE c.cmd = "Cancel" /\ Cancel(ts)
  BY <1>1, <1>4, OnCancelSound DEF Cancel, SafeState
<1>5. CASE c.cmd = "SetCollateral" /\ SetCollateral(ts, c.participant, c.limit)
  <2>1. c.participant \in Participants /\ c.limit \in I64
    BY <1>5 DEF Command, TickCmd
  <2> QED BY <1>1, <1>5, <2>1, OnSetCollateralSound DEF SetCollateral, SafeState
<1>6. CASE c.cmd = "CancelResting" /\ CancelResting(ts, c.participant, c.key)
  <2>1. c.participant \in Participants /\ c.key \in Keys
    BY <1>6 DEF Command, TickCmd
  <2> QED BY <1>1, <1>6, <2>1, OnCancelRestingSound DEF CancelResting, SafeState
<1>7. CASE /\ c.cmd = "SubmitTake"
           /\ SubmitTake(ts, c.participant, c.key, c.qty, c.expected_price)
  <2>1. c.participant \in Participants /\ c.key \in Keys /\ c.qty \in U64
    BY <1>7 DEF Command, TickCmd
  <2>2. c.qty \in Nat
    BY <2>1, WidthsAssumption DEF U64
  <2> QED BY <1>1, <1>7, <2>1, <2>2, TakeSound DEF SubmitTake, SafeState
<1>8. CASE /\ c.cmd = "SubmitResting"
           /\ SubmitResting(ts, c.participant, c.key, c.qty, c.limit)
  <2>1. c.participant \in Participants /\ c.key \in Keys /\ c.qty \in U64 /\ c.limit \in Limits
    BY <1>8 DEF Command, TickCmd
  <2>2. c.qty \in Nat
    BY <2>1, WidthsAssumption DEF U64
  <2> QED BY <1>1, <1>8, <2>1, <2>2, RestingSound DEF SubmitResting, SafeState
<1> QED BY <1>2, <1>3, <1>4, <1>5, <1>6, <1>7, <1>8 DEF Apply

(* The auction that runs and the one a restart would go back to. *)
RestartInv ==
  /\ SafeState(auction) /\ SafeState(logged) /\ clock \in U64
  /\ ingress \in Seq(Command)
  /\ engine \in [pc : {"next", "wait", "apply"}, cmd : Command \cup {TickCmd}]

LEMMA RestartStep == RestartInv /\ [ClockNext]_vars => RestartInv'
<1> SUFFICES ASSUME RestartInv, [ClockNext]_vars PROVE RestartInv'
  OBVIOUS
<1> USE DEF RestartInv
<1>0. auction.now \in U64 /\ logged.now \in U64
  BY SoundParts, StateParts DEF SafeState
<1>1. CASE Advance
  <2>1. clock + 1 \in U64
    BY <1>1, EngineClockAssumption, WidthsAssumption DEF Advance, U64
  <2> QED BY <1>1, <2>1 DEF Advance
<1>2. ASSUME NEW c \in Submissions, Submit(c) PROVE RestartInv'
  <2>1. c \in Command
    BY EngineClockAssumption
  <2> QED BY <1>2, <2>1 DEF Submit
<1>3. CASE EngineTake
  <2>1. Head(ingress) \in Command /\ Tail(ingress) \in Seq(Command)
    BY <1>3 DEF EngineTake
  <2>2. ReadingFor(Head(ingress)) \in U64
    BY <1>0 DEF ReadingFor, Resume
  <2> QED BY <1>3, <2>1, <2>2 DEF EngineTake
<1>4. CASE EngineWait \/ EngineWake
  BY <1>4 DEF EngineWait, EngineWake
<1>5. CASE EngineTick
  BY <1>5 DEF EngineTick
<1>6. CASE EngineApply
  <2>1. SafeState(auction')
    BY <1>6, ApplySound DEF EngineApply
  <2> QED BY <1>6, <2>1 DEF EngineApply, Idle
<1>7. CASE Persist
  BY <1>7 DEF Persist
<1>8. CASE Restart
  BY <1>0, <1>8 DEF Restart, Resume, Idle
<1>9. CASE UNCHANGED vars
  BY <1>9 DEF vars
<1> QED BY <1>1, <1>2, <1>3, <1>4, <1>5, <1>6, <1>7, <1>8, <1>9 DEF ClockNext, EngineStep

(***************************************************************************)
(* What the auction owes to its bidders, it owes whatever the engine does  *)
(* around it: with commands stamped late, ticks of the engine's own and    *)
(* restarts that go back to what was logged, every state keeps the         *)
(* invariant, if the state the log starts with does (engine.rs:380-470).   *)
(***************************************************************************)
THEOREM EngineKeepsAuctionSafe ==
  ASSUME SafeState(AtStart)
  PROVE  ClockSpec => []SafetyInv
<1>1. ClockInit => RestartInv
  <2>1. AtStart.now \in U64
    BY SoundParts, StateParts DEF SafeState
  <2> QED BY <2>1 DEF ClockInit, RestartInv, Resume, Idle
<1>2. RestartInv => SafetyInv
  BY DEF RestartInv, SafeState, SafetyInv
<1> QED BY <1>1, <1>2, RestartStep, PTL DEF ClockSpec

(* A new auction, and one whose log holds nothing but deposits, is such a  *)
(* state (engine.rs:206-240, state.rs:187-200).                            *)
THEOREM StartsAreSafe ==
  /\ SafeState(NewAuction)
  /\ \A s : SafeState(s) => \A p \in Participants : \A limit \in I64 :
       SafeState(OnSetCollateral(s, p, limit))
BY NewAuctionSound, OnSetCollateralSound DEF SafeState

(* The collateral ledger balances through traffic and restarts (I9), as    *)
(* long as neither the floor nor any limit is below zero.                  *)
THEOREM LedgerSurvivesRestarts ==
  ASSUME SafeState(AtStart), PricesNotNegative
  PROVE  ClockSpec => []LedgerBalanced
BY SafeLedger, EngineKeepsAuctionSafe, PTL

-----------------------------------------------------------------------------
(***************************************************************************)
(* Deadlines.  A deadline is exact for a schedule whose steps take time,   *)
(* whose prices are no further apart than i64::MAX and that is at its      *)
(* floor more than a window before the end of u64; near the end of u64 a   *)
(* window's close saturates, and a tick there would find the window still  *)
(* open.                                                                   *)
(***************************************************************************)
ScheduleEnds ==
  /\ ~JumpsToFloor(Schedule.kind) /\ NarrowRange(Schedule)
  /\ \E f \in TimeToReach(Schedule, Schedule.floor_price) : f + BatchWindow < U64Max

(* Naturals, and entries of finitely many keys, have extreme members. *)
LEMMA LeastOf ==
  ASSUME NEW S, S \subseteq Nat, S # {}
  PROVE  \E m \in S : \A x \in S : m <= x
<1> DEFINE R == OpToRel(<, Nat)
<1>1. IsWellFoundedOn(R, Nat)
  BY NatLessThanWellFounded
<1>2. \A m, k \in Nat : m < k => <<m, k>> \in R
  BY Zenon DEF OpToRel
<1> HIDE DEF R
<1>3. PICK n \in S : \A m \in S : <<m, n>> \notin R
  BY <1>1, WFMin
<1>4. ASSUME NEW x \in S PROVE n <= x
  <2>1. x \in Nat /\ n \in Nat /\ ~(x < n)
    BY <1>2, <1>3
  <2> QED BY <2>1
<1> QED BY <1>3, <1>4

LEMMA GreatestEntry ==
  ASSUME NEW S, IsFiniteSet(S), S # {}, NEW f, \A x \in S : f[x] \in Int
  PROVE  \E x \in S : \A y \in S : f[y] <= f[x]
<1> DEFINE G == {T \in SUBSET S : T # {} => \E x \in T : \A y \in T : f[y] <= f[x]}
<1>1. {} \in G
  OBVIOUS
<1>2. ASSUME NEW T \in SUBSET S, NEW z \in S \ T, T \in G
      PROVE  T \cup {z} \in G
  <2>1. CASE T = {}
    BY <2>1
  <2>2. CASE T # {}
    <3>1. PICK x \in T : \A y \in T : f[y] <= f[x]
      BY <1>2, <2>2
    <3>2. CASE f[x] <= f[z]
      <4>1. \A y \in T \cup {z} : f[y] <= f[z]
        BY <3>1, <3>2
      <4> QED BY <4>1
    <3>3. CASE ~(f[x] <= f[z])
      <4>1. \A y \in T \cup {z} : f[y] <= f[x]
        BY <3>1, <3>3
      <4> QED BY <3>1, <4>1
    <3> QED BY <3>2, <3>3
  <2> QED BY <2>1, <2>2
<1>3. S \in G
  <2> HIDE DEF G
  <2> QED BY <1>1, <1>2, SubsetInduction
<1> QED BY <1>3

(* Falling further takes longer. *)
LEMMA TimeToDropMonotonic ==
  ASSUME NEW kind \in ScheduleKind, Rate(kind) # 0, NEW a \in Nat, NEW b \in Nat, a <= b
  PROVE  /\ TimeToDrop(kind, a) \in U64 /\ TimeToDrop(kind, b) \in U64
         /\ TimeToDrop(kind, a) <= TimeToDrop(kind, b)
<1> USE WidthsAssumption
<1>0. ASSUME NEW d \in Nat, d > 0, NEW m \in Nat, NEW n \in Nat, m <= n
      PROVE  /\ CeilDiv(m, d) \in Nat /\ CeilDiv(n, d) \in Nat
             /\ CeilDiv(m, d) <= CeilDiv(n, d)
  <2>1. m + d - 1 \in Nat /\ n + d - 1 \in Nat /\ m + d - 1 <= n + d - 1
    BY <1>0
  <2>2. (m + d - 1) \div d <= (n + d - 1) \div d
    BY <1>0, <2>1, DivMonotonic
  <2>3. CeilDiv(m, d) \in Nat /\ CeilDiv(n, d) \in Nat
    BY <1>0, CeilDivReaches
  <2> QED BY <2>2, <2>3 DEF CeilDiv
<1>1. CASE kind.kind = "Stepped"
  <2> DEFINE d == IF kind.step_duration = 0 THEN 1 ELSE kind.step_duration
             z == kind.step_size
             x == SatU64(CeilDiv(a, z))
             y == SatU64(CeilDiv(b, z))
  <2>1. z \in Nat /\ z > 0 /\ d \in Nat
    BY <1>1 DEF ScheduleKind, Rate, U64
  <2>2. TimeToDrop(kind, a) = SatU64(x * d) /\ TimeToDrop(kind, b) = SatU64(y * d)
    BY <1>1 DEF TimeToDrop
  <2> HIDE DEF d, z
  <2>3. /\ CeilDiv(a, z) \in Nat /\ CeilDiv(b, z) \in Nat /\ CeilDiv(a, z) <= CeilDiv(b, z)
    BY <1>0, <2>1
  <2>4. x \in Nat /\ y \in Nat /\ x <= y
    BY <2>3 DEF SatU64, AtMost
  <2> HIDE DEF x, y
  <2>5. x * d <= y * d /\ x * d \in Nat /\ y * d \in Nat
    BY <2>1, <2>4, MulMonotonic
  <2> QED BY <2>2, <2>5 DEF SatU64, AtMost, U64
<1>2. CASE kind.kind # "Stepped"
  <2> DEFINE rate == kind.rate_per_sec
  <2>1. rate \in Nat /\ rate > 0 /\ NanosPerSec \in Nat
    BY <1>2 DEF ScheduleKind, Rate
  <2>2. a * NanosPerSec <= b * NanosPerSec /\ a * NanosPerSec \in Nat /\ b * NanosPerSec \in Nat
    BY <2>1, MulMonotonic
  <2>3. /\ TimeToDrop(kind, a) = SatU64(CeilDiv(a * NanosPerSec, rate))
        /\ TimeToDrop(kind, b) = SatU64(CeilDiv(b * NanosPerSec, rate))
    BY <1>2 DEF TimeToDrop
  <2> HIDE DEF rate
  <2>4. /\ CeilDiv(a * NanosPerSec, rate) \in Nat /\ CeilDiv(b * NanosPerSec, rate) \in Nat
        /\ CeilDiv(a * NanosPerSec, rate) <= CeilDiv(b * NanosPerSec, rate)
    BY <1>0, <2>1, <2>2
  <2> QED BY <2>3, <2>4 DEF SatU64, AtMost, U64
<1> QED BY <1>1, <1>2

(* When the schedule ends in time, no answer of time_to_reach saturates,   *)
(* and each is exact.                                                      *)
LEMMA ReachExact ==
  ASSUME ScheduleEnds, NEW target \in Int, NEW t \in U64
  PROVE  /\ TimeToReach(Schedule, target) = {} => Price(t) > target
         /\ \A r \in TimeToReach(Schedule, target) :
              r \in U64 /\ (t >= r <=> Price(t) <= target)
<1> DEFINE sc == Schedule
           floor == Schedule.floor_price
<1>1. /\ IsSchedule(sc) /\ ~JumpsToFloor(sc.kind) /\ sc.start_price \in Int /\ floor \in Int
      /\ floor <= sc.start_price /\ sc.start_price - floor <= I64Max /\ NarrowRange(sc)
      /\ sc.kind \in ScheduleKind
  BY AuctionAssumption, WidthsAssumption DEF ScheduleEnds, IsSchedule, I64, NarrowRange
<1>2. IF TimeToReach(sc, target) = {} THEN PriceAt(sc, t) > target
      ELSE \A r \in TimeToReach(sc, target) \ {U64Max} : t >= r <=> PriceAt(sc, t) <= target
  BY <1>1, TimeToReachCorrect
<1>3. ASSUME NEW r \in TimeToReach(sc, target) PROVE r \in U64 /\ r < U64Max
  <2>0. U64Max \in Nat /\ U64Max > 0 /\ BatchWindow \in Nat
    BY WidthsAssumption, AuctionAssumption DEF U64
  <2>1. CASE r = 0
    BY <2>0, <2>1 DEF U64
  <2>2. CASE r # 0
    <3> DEFINE drop == SatI64(sc.start_price - target)
               most == SatI64(sc.start_price - floor)
    <3>1. /\ floor <= target /\ target <= sc.start_price /\ Rate(sc.kind) # 0
          /\ r = TimeToDrop(sc.kind, drop)
      BY <1>1, <1>3, <2>2 DEF TimeToReach
    <3>2. drop \in Nat /\ most \in Nat /\ drop <= most
      BY <1>1, <3>1, WidthsAssumption DEF SatI64, AtMost
    <3>3. TimeToReach(sc, floor) = {TimeToDrop(sc.kind, most)}
      BY <1>1, <3>1 DEF TimeToReach
    <3> HIDE DEF drop, most
    <3>4. /\ r \in U64 /\ TimeToDrop(sc.kind, most) \in U64 /\ r <= TimeToDrop(sc.kind, most)
      BY <1>1, <3>1, <3>2, TimeToDropMonotonic
    <3>5. TimeToDrop(sc.kind, most) + BatchWindow < U64Max
      BY <3>3 DEF ScheduleEnds
    <3> HIDE DEF sc
    <3> QED BY <2>0, <3>4, <3>5 DEF U64
  <2> QED BY <2>1, <2>2
<1>4. ASSUME NEW r \in TimeToReach(sc, target) PROVE t >= r <=> PriceAt(sc, t) <= target
  <2>1. r # U64Max
    BY <1>3, <1>4, WidthsAssumption
  <2> QED BY <1>2, <1>4, <2>1
<1> QED BY <1>2, <1>3, <1>4 DEF Price

(* The instant of the floor. *)
LEMMA FloorInstant ==
  ASSUME ScheduleEnds
  PROVE  \E f \in U64 : /\ f + BatchWindow < U64Max
                        /\ \A s : FloorDue(s) = {f}
                        /\ \A t \in U64 : AtFloor(Schedule, t) <=> t >= f
<1>1. PICK f \in TimeToReach(Schedule, Schedule.floor_price) : f + BatchWindow < U64Max
  BY DEF ScheduleEnds
<1>2. 0 \in U64 /\ Schedule.floor_price \in Int
  BY WidthsAssumption, AuctionAssumption DEF U64, IsSchedule, I64
<1>3. f \in U64
  BY <1>1, <1>2, ReachExact
<1>4. \A s : FloorDue(s) = {f}
  BY <1>1 DEF FloorDue, TimeToReach
<1>5. ASSUME NEW t \in U64 PROVE AtFloor(Schedule, t) <=> t >= f
  <2>1. t >= f <=> Price(t) <= Schedule.floor_price
    BY <1>1, <1>2, ReachExact
  <2>2. Price(t) \in Int /\ Schedule.floor_price <= Price(t)
    BY ClockPrice
  <2> QED BY <1>2, <2>1, <2>2 DEF AtFloor, Price
<1> QED BY <1>1, <1>3, <1>4, <1>5

(* The close of the window that `now` is in, and an instant after now. *)
LEMMA WindowCloses ==
  ASSUME NEW now \in U64, NEW t \in U64, now <= t, NEW c \in WindowClose(now, BatchWindow)
  PROVE  /\ c \in Nat
         /\ t < c => WindowIndex(BatchWindow, t) <= WindowIndex(BatchWindow, now)
         /\ now + BatchWindow < U64Max =>
              now < c /\ (t >= c => WindowIndex(BatchWindow, now) < WindowIndex(BatchWindow, t))
<1> DEFINE w == BatchWindow
           i == now \div w
           j == t \div w
           next == (i + 1) * w
<1>1. w \in Nat /\ w > 0 /\ now \in Nat /\ t \in Nat /\ U64Max \in Nat
  BY AuctionAssumption, WidthsAssumption DEF U64, WindowClose
<1>2. c = SatU64(SatU64(i + 1) * w) /\ WindowIndex(w, now) = i /\ WindowIndex(w, t) = j
  BY <1>1 DEF WindowClose, WindowIndex
<1>3. i \in Nat /\ j \in Nat /\ i * w <= now /\ now < i * w + w
  BY <1>1, DivBrackets
<1>4. j >= i + 1 <=> t >= next
  BY <1>1, <1>3, DivReaches
<1> HIDE DEF i, j
<1>5. next = i * w + w /\ next \in Nat /\ i * w \in Nat
  BY <1>1, <1>3
<1>6. i + 1 <= next
  <2>1. (i + 1) * 1 <= (i + 1) * w /\ (i + 1) * 1 = i + 1
    <3>1. 1 * (i + 1) <= w * (i + 1)
      BY <1>1, <1>3, MulMonotonic
    <3> QED BY <1>1, <1>3, <3>1
  <2> QED BY <2>1
<1>7. SatU64(i + 1) \in Nat /\ SatU64(i + 1) <= i + 1 /\ (i + 1 <= U64Max => SatU64(i + 1) = i + 1)
  BY <1>1, <1>3 DEF SatU64, AtMost
<1>8. SatU64(i + 1) * w <= next /\ SatU64(i + 1) * w \in Nat
  BY <1>1, <1>3, <1>7, MulMonotonic
<1>9. c \in Nat /\ c <= next
  <2> DEFINE x == SatU64(i + 1) * w
  <2>1. x \in Nat /\ x <= next /\ c = SatU64(x)
    BY <1>2, <1>8
  <2> HIDE DEF x, next
  <2> QED BY <1>1, <1>5, <2>1 DEF SatU64, AtMost
<1>10. now + w < U64Max => c = next
  <2> SUFFICES ASSUME now + w < U64Max PROVE c = next
    OBVIOUS
  <2>1. next <= U64Max /\ i + 1 <= U64Max
    BY <1>1, <1>3, <1>5, <1>6
  <2>2. c = SatU64(next)
    BY <1>2, <1>7, <2>1
  <2> HIDE DEF next
  <2> QED BY <1>1, <1>5, <2>1, <2>2 DEF SatU64, AtMost
<1> HIDE DEF next
<1> QED BY <1>1, <1>2, <1>3, <1>4, <1>5, <1>9, <1>10

(* The highest limit on the ladder is there, and is the next trigger. *)
LEMMA NextTriggerTops ==
  ASSUME NEW s \in AuctionState, NEW k \in Keys, s.resting[k] # None
  PROVE  \E j \in Keys : /\ s.resting[j] # None /\ s.resting[j].limit \in Int
                         /\ s.resting[k].limit \in Int
                         /\ s.resting[j].limit \in NextTrigger(s)
                         /\ s.resting[k].limit <= s.resting[j].limit
<1> DEFINE P == Present(s.resting)
           f == [x \in P |-> s.resting[x].limit]
<1>1. P \subseteq Keys /\ k \in P /\ IsFiniteSet(P)
  BY KeysAssumption, FS_Subset DEF Present
<1>2. \A x \in P : s.resting[x] # None /\ s.resting[x].limit \in Int
  BY StateParts DEF Present, RestingBid
<1>3. \A x \in P : f[x] = s.resting[x].limit /\ f[x] \in Int
  BY <1>2
<1> HIDE DEF f
<1>4. PICK j \in P : \A y \in P : f[y] <= f[j]
  <2> HIDE DEF P
  <2> QED BY <1>1, <1>3, GreatestEntry
<1>5. s.resting[j].limit \in NextTrigger(s)
  BY <1>3, <1>4 DEF NextTrigger, RestingLimits
<1> QED BY <1>1, <1>2, <1>3, <1>4, <1>5

(* What comes due, and that a live auction has one deadline. *)
LEMMA DueParts ==
  ASSUME ScheduleEnds, NEW s \in AuctionState
  PROVE  /\ WindowDue(s) \subseteq Nat /\ TriggerDue(s) \subseteq Nat /\ FloorDue(s) \subseteq Nat
         /\ DueTimes(s) \subseteq Nat /\ DueTimes(s) # {}
<1>1. s.now \in U64 /\ s.now \in Nat /\ s.now <= s.now
  BY StateParts
<1>2. WindowDue(s) \subseteq Nat
  BY <1>1, WindowCloses DEF WindowDue
<1>3. TriggerDue(s) \subseteq Nat
  <2> SUFFICES ASSUME NEW limit \in NextTrigger(s), NEW r \in TimeToReach(Schedule, limit)
               PROVE  r \in Nat
    BY DEF TriggerDue
  <2>1. limit \in Int
    BY StateParts DEF NextTrigger, RestingLimits, Present, RestingBid
  <2>2. r \in U64
    BY <1>1, <2>1, ReachExact
  <2> QED BY <2>2, WidthsAssumption DEF U64
<1>4. PICK f \in U64 : FloorDue(s) = {f}
  BY FloorInstant
<1>5. f \in Nat
  BY WidthsAssumption DEF U64
<1>6. DueTimes(s) \subseteq Nat
  BY <1>1, <1>2, <1>3, <1>4, <1>5 DEF DueTimes
<1>7. (IF f > s.now THEN f ELSE s.now) \in DueTimes(s)
  BY <1>4 DEF DueTimes
<1> QED BY <1>2, <1>3, <1>4, <1>5, <1>6, <1>7

LEMMA DeadlineIsLeast ==
  ASSUME ScheduleEnds, NEW s \in AuctionState, s.status = "Live", NEW t \in Nat
  PROVE  /\ \A d \in DeadlineOf(s) : d \in DueTimes(s)
         /\ (\A d \in DeadlineOf(s) : t < d) => \A x \in DueTimes(s) : t < x
<1>1. DeadlineOf(s) = {x \in DueTimes(s) : \A u \in DueTimes(s) : x <= u}
  BY DEF DeadlineOf, AcceptsBids
<1>2. DueTimes(s) \subseteq Nat /\ DueTimes(s) # {}
  BY DueParts
<1>3. PICK m \in DueTimes(s) : \A x \in DueTimes(s) : m <= x
  BY <1>2, LeastOf
<1>4. m \in DeadlineOf(s)
  BY <1>1, <1>3
<1>5. ASSUME \A d \in DeadlineOf(s) : t < d, NEW x \in DueTimes(s) PROVE t < x
  <2>1. t < m /\ m <= x /\ m \in Nat /\ x \in Nat
    BY <1>2, <1>3, <1>4, <1>5
  <2> QED BY <2>1
<1> QED BY <1>1, <1>5

(***************************************************************************)
(* A tick before anything is due does nothing but tell the time.           *)
(***************************************************************************)
LEMMA QuietTick ==
  ASSUME ScheduleEnds, NEW s, SafeState(s), NEW t \in U64, s.now <= t,
         s.status = "Live" => \A x \in DueTimes(s) : t < x
  PROVE  OnTick(Arrive(s, t)) = [s EXCEPT !.now = t]
<1> DEFINE e == [s EXCEPT !.now = t]
<1>1. s \in AuctionState /\ FairWindow(s) /\ Timed(s)
  BY SoundParts DEF SafeState
<1>2. /\ s.now \in U64 /\ s.now \in Nat /\ t \in Nat
      /\ s.resting \in [Keys -> RestingBid \cup {None}]
  BY <1>1, StateParts, WidthsAssumption DEF U64
<1>3. /\ e \in AuctionState /\ e.now = t /\ e.status = s.status /\ e.window = s.window
      /\ e.resting = s.resting
  BY <1>1 DEF AuctionState
<1>4. Arrive(s, t) = CloseElapsedWindow(e)
  <2>1. (IF t > s.now THEN t ELSE s.now) = t
    BY <1>2
  <2>2. [s EXCEPT !.now = IF t > @ THEN t ELSE @] = [s EXCEPT !.now = IF t > s.now THEN t ELSE s.now]
    OBVIOUS
  <2> QED BY <2>1, <2>2 DEF Arrive
<1>5. CASE s.status # "Live"
  <2>1. e.window = None
    BY <1>1, <1>3, <1>5 DEF FairWindow
  <2>2. CloseElapsedWindow(e) = e
    BY <2>1 DEF CloseElapsedWindow
  <2> HIDE DEF e
  <2>3. OnTick(e) = e
    BY <1>3, <1>5 DEF OnTick, AcceptsBids
  <2> QED BY <1>4, <2>2, <2>3 DEF e
<1>6. CASE s.status = "Live"
  <2>1. ASSUME NEW y \in WindowDue(s) \cup TriggerDue(s) \cup FloorDue(s), y \in Nat PROVE t < y
    <3>1. (IF y > s.now THEN y ELSE s.now) \in DueTimes(s)
      BY <2>1 DEF DueTimes
    <3>2. t < (IF y > s.now THEN y ELSE s.now)
      BY <1>6, <3>1
    <3> QED BY <1>2, <2>1, <3>2
  <2>2. WindowDue(s) \subseteq Nat /\ TriggerDue(s) \subseteq Nat /\ FloorDue(s) \subseteq Nat
    BY <1>1, DueParts
  <2>3. CloseElapsedWindow(e) = e
    <3>1. CASE s.window = None
      BY <1>3, <3>1 DEF CloseElapsedWindow
    <3>2. CASE s.window # None
      <4>1. BatchWindow > 0 /\ s.window.index = WindowIndex(BatchWindow, s.now)
        BY <1>1, <3>2 DEF Timed, Opened
      <4>2. BatchWindow # 0
        BY <4>1, AuctionAssumption, WidthsAssumption DEF U64
      <4>3. PICK c : c \in WindowClose(s.now, BatchWindow)
        BY <4>2 DEF WindowClose
      <4>4. c \in WindowDue(s)
        BY <3>2, <4>3 DEF WindowDue
      <4>5. t < c
        BY <2>1, <2>2, <4>4
      <4>6. WindowIndex(BatchWindow, t) <= WindowIndex(BatchWindow, s.now)
        BY <1>2, <4>3, <4>5, WindowCloses
      <4>7. WindowIndex(BatchWindow, t) \in Nat /\ WindowIndex(BatchWindow, s.now) \in Nat
        BY <1>2, WindowTiming
      <4>8. ~(WindowIndex(BatchWindow, e.now) > e.window.index)
        BY <1>3, <4>1, <4>6, <4>7
      <4> HIDE DEF e
      <4> QED BY <4>8 DEF CloseElapsedWindow
    <3> QED BY <3>1, <3>2
  <2>4. Price(t) \in Int
    BY ClockPrice
  <2>5. ASSUME NEW k \in Keys, s.resting[k] # None PROVE ~(s.resting[k].limit >= Price(t))
    <3>1. PICK j \in Keys : /\ s.resting[j] # None /\ s.resting[j].limit \in Int
                            /\ s.resting[k].limit \in Int
                            /\ s.resting[j].limit \in NextTrigger(s)
                            /\ s.resting[k].limit <= s.resting[j].limit
      BY <1>1, <2>5, NextTriggerTops
    <3> DEFINE top == s.resting[j].limit
    <3>2. Price(t) > top
      <4>1. CASE TimeToReach(Schedule, top) = {}
        BY <3>1, <4>1, ReachExact
      <4>2. CASE TimeToReach(Schedule, top) # {}
        <5>1. PICK r : r \in TimeToReach(Schedule, top)
          BY <4>2
        <5>2. r \in TriggerDue(s)
          BY <3>1, <5>1 DEF TriggerDue
        <5>3. t < r /\ r \in Nat
          BY <2>1, <2>2, <5>2
        <5>4. t >= r <=> Price(t) <= top
          BY <3>1, <5>1, ReachExact
        <5> HIDE DEF top
        <5>5. top \in Int
          BY <3>1 DEF top
        <5> QED BY <1>2, <2>4, <5>3, <5>4, <5>5
      <4> QED BY <4>1, <4>2
    <3> QED BY <2>4, <3>1, <3>2
  <2> HIDE DEF e
  <2>6. DrainTriggered(e, Price(t)) = e
    <3>1. [k \in Keys |-> IF IsTriggered(e.resting[k], Price(t)) THEN None ELSE e.resting[k]] = e.resting
      <4>1. \A k \in Keys : (IF IsTriggered(e.resting[k], Price(t)) THEN None ELSE e.resting[k])
                              = e.resting[k]
        BY <1>3, <2>5 DEF IsTriggered
      <4> QED BY <1>2, <1>3, <4>1
    <3>2. [e EXCEPT !.resting = e.resting] = e
      BY <1>3 DEF AuctionState
    <3>3. DrainTriggered(e, Price(t)) =
            [e EXCEPT !.resting = [k \in Keys |-> IF IsTriggered(e.resting[k], Price(t)) THEN None
                                                  ELSE e.resting[k]]]
      BY DEF DrainTriggered
    <3> QED BY <3>1, <3>2, <3>3
  <2>7. Present(TriggeredBids(e, Price(t))) = {}
    BY <1>3, <2>5 DEF Present, TriggeredBids, IsTriggered
  <2>8. PushPending(DrainTriggered(e, Price(t)), TriggeredBids(e, Price(t))) = e
    BY <2>6, <2>7 DEF PushPending
  <2>9. FlushIfUnbatched(e) = e
    <3>1. BatchWindow = 0 => e.window = None
      BY <1>1, <1>3, AuctionAssumption, WidthsAssumption DEF Timed
    <3> QED BY <3>1 DEF FlushIfUnbatched, FlushWindow
  <2>10. ~AtFloor(Schedule, t)
    <3>1. PICK f \in U64 : FloorDue(s) = {f} /\ (AtFloor(Schedule, t) <=> t >= f)
      BY FloorInstant
    <3>2. t < f /\ f \in Nat
      BY <2>1, <2>2, <3>1
    <3> QED BY <1>2, <3>1, <3>2
  <2>11. OnTick(e) = e
    BY <1>3, <1>6, <2>8, <2>9, <2>10 DEF OnTick, AcceptsBids
  <2> QED BY <1>4, <2>3, <2>11 DEF e
<1> QED BY <1>5, <1>6

(***************************************************************************)
(* A tick that leaves the auction live is before its floor, and leaves no  *)
(* bid on the ladder that the clock has reached.                           *)
(***************************************************************************)
LEMMA TickDrains ==
  ASSUME NEW s, SafeState(s), OnTick(s).status = "Live"
  PROVE  /\ ~AtFloor(Schedule, s.now)
         /\ \A k \in Keys : OnTick(s).resting[k] # None =>
              ~(OnTick(s).resting[k].limit >= Price(s.now))
<1> DEFINE d == DrainTriggered(s, Price(s.now))
           u == TriggeredState(s)
           v == FlushIfUnbatched(u)
           t == OnTick(s)
<1>1. s \in AuctionState
  BY SoundParts DEF SafeState
<1>2. t = IF s.status # "Live" THEN s
          ELSE IF v.status = "Live" /\ AtFloor(Schedule, s.now) THEN CloseAtFloor(v) ELSE v
  BY DEF OnTick, TriggeredState, AcceptsBids
<1>3. /\ d.resting = [k \in Keys |-> IF IsTriggered(s.resting[k], Price(s.now)) THEN None
                                     ELSE s.resting[k]]
      /\ u.resting = d.resting
  <2>1. d \in AuctionState /\ d.resting = [k \in Keys |-> IF IsTriggered(s.resting[k], Price(s.now))
                                                          THEN None ELSE s.resting[k]]
    <3>1. [k \in Keys |-> IF IsTriggered(s.resting[k], Price(s.now)) THEN None ELSE s.resting[k]]
            \in [Keys -> RestingBid \cup {None}]
      BY <1>1, StateParts
    <3> QED BY <1>1, <3>1 DEF DrainTriggered, AuctionState
  <2> HIDE DEF d
  <2>2. \A bids : PushPending(d, bids).resting = d.resting
    BY <2>1 DEF PushPending, AuctionState
  <2> QED BY <2>1, <2>2 DEF TriggeredState, d
<1> HIDE DEF d
<1>4. s.status = "Live"
  BY <1>2
<1>5. Sound(u) /\ Opened(u)
  BY <1>4, TriggerSound DEF SafeState
<1> HIDE DEF u
<1>6. Sound(v) /\ (v.status = "Live" => v.resting = u.resting)
  BY <1>5, FlushIfUnbatchedSound
<1> HIDE DEF v
<1>7. CloseAtFloor(v).status # "Live"
  <2> DEFINE x == FlushWindow(v)
  <2>1. CloseAtFloor(v) = IF x.status = "Live" THEN Clear(x, Schedule.floor_price) ELSE x
    BY DEF CloseAtFloor, AcceptsBids
  <2> HIDE DEF x
  <2>2. ASSUME x.status = "Live", Clear(x, Schedule.floor_price).status = "Live" PROVE FALSE
    BY <2>2 DEF Clear
  <2> QED BY <2>1, <2>2
<1> HIDE DEF t
<1>8. ~AtFloor(Schedule, s.now) /\ t = v /\ v.status = "Live"
  BY <1>2, <1>4, <1>7 DEF t
<1>9. ASSUME NEW k \in Keys, t.resting[k] # None PROVE ~(t.resting[k].limit >= Price(s.now))
  <2>1. t.resting[k] = IF IsTriggered(s.resting[k], Price(s.now)) THEN None ELSE s.resting[k]
    BY <1>3, <1>6, <1>8
  <2> QED BY <1>9, <2>1 DEF IsTriggered
<1> QED BY <1>8, <1>9 DEF t

(***************************************************************************)
(* The tick at the deadline does something, and leaves nothing due then.   *)
(***************************************************************************)
LEMMA DueTick ==
  ASSUME ScheduleEnds, NEW s, SafeState(s), s.status = "Live", NEW t \in U64, s.now <= t,
         t \in DueTimes(s)
  PROVE  /\ OnTick(Arrive(s, t)) # [s EXCEPT !.now = t]
         /\ t \notin DeadlineOf(OnTick(Arrive(s, t)))
<1> DEFINE a == Arrive(s, t)
           after == OnTick(a)
           e == [s EXCEPT !.now = t]
<1>1. s \in AuctionState /\ FairWindow(s) /\ Timed(s)
  BY SoundParts DEF SafeState
<1>2. s.now \in U64 /\ s.now \in Nat /\ t \in Nat
  BY <1>1, StateParts, WidthsAssumption DEF U64
<1>3. /\ e.now = t /\ e.status = "Live" /\ e.window = s.window /\ e.resting = s.resting
  BY <1>1 DEF AuctionState
<1>4. SafeState(a)
  BY ArriveSound DEF SafeState
<1>5. a.now = t
  <2> DEFINE b == [s EXCEPT !.now = IF t > @ THEN t ELSE @]
  <2>1. At(b, t)
    BY <1>1, <1>2 DEF At, AuctionState
  <2>2. a = CloseElapsedWindow(b)
    BY DEF Arrive
  <2> HIDE DEF b
  <2> QED BY <2>1, <2>2, FlushKeepsTime DEF At
<1> HIDE DEF a, e
<1>6. SafeState(after) /\ after.now = t
  <2>1. "now" \in DOMAIN a
    BY <1>4, SoundParts DEF SafeState, AuctionState
  <2>2. At(a, t)
    BY <1>5, <2>1 DEF At
  <2> QED BY <1>4, <2>2, OnTickSound, HandlersKeepTime DEF SafeState, At
<1>7. after.status = "Live" =>
        /\ ~AtFloor(Schedule, t)
        /\ \A k \in Keys : after.resting[k] # None => ~(after.resting[k].limit >= Price(t))
  BY <1>4, <1>5, TickDrains
<1> HIDE DEF after
<1>8. PICK f \in U64 : /\ f + BatchWindow < U64Max /\ \A x : FloorDue(x) = {f}
                       /\ AtFloor(Schedule, t) <=> t >= f
  BY FloorInstant
<1>9. f \in Nat /\ BatchWindow \in Nat /\ U64Max \in Nat
  BY AuctionAssumption, WidthsAssumption DEF U64
<1>10. CASE after.status # "Live"
  BY <1>3, <1>10 DEF DeadlineOf, AcceptsBids, a, e, after
<1>11. CASE after.status = "Live"
  <2>1. t < f /\ t + BatchWindow < U64Max /\ s.now + BatchWindow < U64Max
    BY <1>2, <1>7, <1>8, <1>9, <1>11
  <2>2. after \in AuctionState /\ Timed(after)
    BY <1>6, SoundParts DEF SafeState
  <2>3. Price(t) \in Int
    BY ClockPrice
  <2>4. ASSUME NEW limit \in NextTrigger(after), NEW r \in TimeToReach(Schedule, limit)
        PROVE  t < r
    <3>1. PICK k \in Keys : after.resting[k] # None /\ limit = after.resting[k].limit
      BY DEF NextTrigger, RestingLimits, Present
    <3>2. limit \in Int
      BY <2>2, <3>1, StateParts DEF RestingBid
    <3>3. ~(limit >= Price(t))
      BY <1>7, <1>11, <3>1
    <3>4. r \in U64 /\ (t >= r <=> Price(t) <= limit)
      BY <2>4, <3>2, ReachExact
    <3> QED BY <1>2, <2>3, <3>2, <3>3, <3>4, WidthsAssumption DEF U64
  <2>5. t \notin DueTimes(after)
    <3> SUFFICES ASSUME NEW y \in WindowDue(after) \cup TriggerDue(after) \cup FloorDue(after)
                 PROVE  t < y /\ y \in Nat
      BY <1>2, <1>6 DEF DueTimes
    <3>1. y \in Nat
      BY <2>2, DueParts
    <3>2. CASE y \in WindowDue(after)
      <4>1. y \in WindowClose(t, BatchWindow)
        BY <1>6, <3>2 DEF WindowDue
      <4>2. t <= t
        BY <1>2
      <4> QED BY <2>1, <3>1, <4>1, <4>2, WindowCloses
    <3>3. CASE y \in TriggerDue(after)
      BY <2>4, <3>1, <3>3 DEF TriggerDue
    <3>4. CASE y \in FloorDue(after)
      BY <1>8, <2>1, <3>1, <3>4
    <3> QED BY <3>2, <3>3, <3>4
  <2>6. t \notin DeadlineOf(after)
    BY <2>5 DEF DeadlineOf
  <2>7. ASSUME after = e PROVE FALSE
    <3>1. PICK y \in WindowDue(s) \cup TriggerDue(s) \cup FloorDue(s) :
            t = IF y > s.now THEN y ELSE s.now
      BY DEF DueTimes
    <3>2. y \in Nat
      BY <1>1, DueParts
    <3>3. t >= y
      BY <1>2, <3>1, <3>2
    <3>4. CASE y \in WindowDue(s)
      <4>1. s.window # None /\ y \in WindowClose(s.now, BatchWindow)
        BY <3>4 DEF WindowDue
      <4>2. WindowIndex(BatchWindow, s.now) < WindowIndex(BatchWindow, t)
        BY <1>2, <2>1, <3>3, <4>1, WindowCloses
      <4>3. s.window.index = WindowIndex(BatchWindow, s.now)
        BY <1>1, <4>1 DEF Timed, Opened
      <4>4. after.window.index = WindowIndex(BatchWindow, t)
        BY <1>3, <1>6, <2>2, <2>7, <4>1 DEF Timed, Opened
      <4>5. WindowIndex(BatchWindow, s.now) \in Nat
        BY <1>2, WindowTiming
      <4> QED BY <1>3, <2>7, <4>2, <4>3, <4>4, <4>5
    <3>5. CASE y \in TriggerDue(s)
      <4>1. PICK limit \in NextTrigger(s) : y \in TimeToReach(Schedule, limit)
        BY <3>5 DEF TriggerDue
      <4>2. PICK k \in Keys : s.resting[k] # None /\ limit = s.resting[k].limit
        BY DEF NextTrigger, RestingLimits, Present
      <4>3. limit \in Int
        BY <1>1, <4>2, StateParts DEF RestingBid
      <4>4. Price(t) <= limit
        BY <3>3, <4>1, <4>3, ReachExact
      <4>5. ~(limit >= Price(t))
        BY <1>3, <1>7, <1>11, <2>7, <4>2
      <4> QED BY <2>3, <4>3, <4>4, <4>5
    <3>6. CASE y \in FloorDue(s)
      BY <1>2, <1>8, <1>9, <2>1, <3>3, <3>6
    <3> QED BY <3>4, <3>5, <3>6
  <2> QED BY <2>6, <2>7 DEF a, e, after
<1> QED BY <1>10, <1>11

(***************************************************************************)
(* A safe auction's deadline is exact: no tick before it would do          *)
(* anything, and the tick at it does (engine.rs:541-579, clock.rs).        *)
(***************************************************************************)
LEMMA DeadlineExactWhenSafe ==
  ASSUME ScheduleEnds
  PROVE  SafetyInv => DeadlineIsExact
<1> SUFFICES ASSUME SafetyInv, NEW t \in auction.now..U64Max
             PROVE  RightAbout(t, DeadlineOf(auction), Ticked(t))
  BY DEF DeadlineIsExact
<1>1. SafeState(auction) /\ auction \in AuctionState
  BY SoundParts DEF SafetyInv, SafeState
<1>2. auction.now \in Nat /\ t \in U64 /\ t \in Nat /\ auction.now <= t
  BY <1>1, StateParts, WidthsAssumption DEF U64
<1>3. ASSUME \A u \in DeadlineOf(auction) : t < u PROVE Ticked(t) = Idled(t)
  <2>1. auction.status = "Live" => \A x \in DueTimes(auction) : t < x
    BY <1>1, <1>2, <1>3, DeadlineIsLeast
  <2> QED BY <1>1, <1>2, <2>1, QuietTick DEF Ticked, Idled
<1>4. ASSUME t \in DeadlineOf(auction)
      PROVE  Ticked(t) # Idled(t) /\ t \notin DeadlineOf(Ticked(t))
  <2>1. auction.status = "Live"
    BY <1>4 DEF DeadlineOf, AcceptsBids
  <2>2. t \in DueTimes(auction)
    BY <1>1, <1>2, <1>4, <2>1, DeadlineIsLeast
  <2> QED BY <1>1, <1>2, <2>1, <2>2, DueTick DEF Ticked, Idled
<1> QED BY <1>3, <1>4 DEF RightAbout

(***************************************************************************)
(* The engine sleeps exactly as long as it may (engine.rs:541-579), in     *)
(* every state any sequence of commands leads to, for every schedule that  *)
(* ends, supply, window width and set of bids.                             *)
(***************************************************************************)
THEOREM DeadlinesAreExact ==
  ASSUME ScheduleEnds
  PROVE  Spec => []DeadlineIsExact
BY AlwaysSafe, DeadlineExactWhenSafe, PTL

(* So it does with the engine's own ticks and through restarts, where the  *)
(* deadline is computed from the auction the log reproduces.               *)
THEOREM DeadlinesExactAfterRestarts ==
  ASSUME ScheduleEnds, SafeState(AtStart)
  PROVE  ClockSpec => []DeadlineIsExact
BY EngineKeepsAuctionSafe, DeadlineExactWhenSafe, PTL

=============================================================================
