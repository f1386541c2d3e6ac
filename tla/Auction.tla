------------------------------- MODULE Auction -------------------------------
(***************************************************************************)
(* The auction state machine of auction-core (state.rs, ladder.rs): the    *)
(* state one auction keeps, and what apply() does for each command.  The   *)
(* variable `auction` is the AuctionState struct; each handler on_xxx is   *)
(* an operator from state to state, so that a handler which flushes the    *)
(* window, which clears the auction, is one step as it is in the code.     *)
(*                                                                         *)
(* Abstractions.  Maps keyed by idempotency key are total functions with   *)
(* None where the code has no entry.  The ladder is such a map: the order  *)
(* its levels impose is recovered from each bid's limit and seq.  A fill   *)
(* is kept under its key: the code could append a second fill for a key    *)
(* only after a requeue, which OutcomeTellsWhere shows never to happen.    *)
(* `seq` is the rank of admission, which orders bids as the command's      *)
(* sequence number does; the numbers themselves belong to the log.  Events *)
(* and the payloads of rejections are left out.  Prices are signed, as in  *)
(* the code: a limit, or a clock, may be below zero.  Money saturates call *)
(* by call: in the order of the calls where it could tell (Settlement),    *)
(* and summed where all amounts have one sign (Returned, Clear).           *)
(***************************************************************************)
EXTENDS PriceSchedule, Matching

CONSTANTS
  Participants,
  Schedule,       \* AuctionConfig.schedule
  TotalSupply,    \* AuctionConfig.total_supply
  BatchWindow,    \* AuctionConfig.batch_window, 0 when batching is off
  PriceTolerance, \* AuctionConfig.price_tolerance
  Timestamps,     \* the ts the sequencer stamps commands with
  Quantities,     \* the qty of submitted bids
  Limits,         \* the limit of resting bids
  Expected,       \* the expected_price of takes
  Collaterals     \* the limits SetCollateral posts

ASSUME AuctionAssumption ==
  /\ IsSchedule(Schedule)
  /\ TotalSupply \in U64 /\ BatchWindow \in U64 /\ PriceTolerance \in Nat
  /\ Timestamps \subseteq U64 /\ Quantities \subseteq U64
  /\ Limits \subseteq I64 /\ Expected \subseteq I64 /\ Collaterals \subseteq I64

VARIABLE auction

Price(ts) == PriceAt(Schedule, ts)

-----------------------------------------------------------------------------
(* The state. *)

Status == {"Pending", "Live", "Cleared", "Cancelled"}

Reasons == {"NotLive", "PriceMoved", "SupplyExhausted", "InsufficientCollateral",
            "ZeroQuantity", "LimitAboveClock", "Unfilled"}

(* Outcome, with "Unknown" for a key that was never submitted. *)
NoOutcome == [kind |-> "Unknown"]
Queued(qty) == [kind |-> "Queued", qty |-> qty]
Resting(qty) == [kind |-> "Resting", qty |-> qty]
Filled(qty, price) == [kind |-> "Filled", qty |-> qty, price |-> price]
Rejected(reason) == [kind |-> "Rejected", reason |-> reason]
Withdrawn == [kind |-> "Cancelled"]

HasFill(outcome) == outcome.kind \in {"Filled", "FilledThenCancelled"}

Outcomes ==
  {NoOutcome, Withdrawn}
    \cup [kind : {"Queued", "Resting"}, qty : Nat]
    \cup [kind : {"Filled", "FilledThenCancelled"}, qty : Nat, price : Int]
    \cup [kind : {"Rejected"}, reason : Reasons]

RestingBid == [seq : Nat, participant : Participants, qty : Nat, limit : Int]
PendingBid == [seq : Nat, participant : Participants, qty : Nat, priority : Int,
               reserve_price : Int, resting_limit : Int \cup {None}]
OpenWindow == [index : Nat, price : Int, bids : [Keys -> PendingBid \cup {None}]]
Fill == [participant : Participants, qty : Nat, price : Int]

ASSUME NoneAssumption == None \notin Int \cup RestingBid \cup OpenWindow \cup PendingBid \cup Fill

AuctionState ==
  [status : Status,
   supply_remaining : Nat,
   clearing_price : Int \cup {None},
   fills : [Keys -> Fill \cup {None}],
   resting : [Keys -> RestingBid \cup {None}],
   window : OpenWindow \cup {None},
   outcomes : [Keys -> Outcomes],
   limit : [Participants -> Int],
   committed : [Participants -> Int],
   now : U64,
   admitted : Nat]

Nothing == [k \in Keys |-> None]

NewAuction ==
  [status |-> "Pending",
   supply_remaining |-> TotalSupply,
   clearing_price |-> None,
   fills |-> Nothing,
   resting |-> Nothing,
   window |-> None,
   outcomes |-> [k \in Keys |-> NoOutcome],
   limit |-> [p \in Participants |-> 0],
   committed |-> [p \in Participants |-> 0],
   now |-> 0,
   admitted |-> 0]

AcceptsBids(s) == s.status = "Live"
IsTerminal(s) == s.status \in {"Cleared", "Cancelled"}

-----------------------------------------------------------------------------
(* Collateral. *)

(* The sum of `amount` over the keys whose entry belongs to p. *)
TotalFor(p, entries, amount) ==
  SumFunctionOnSet([k \in Keys |->
    IF entries[k] = None THEN 0
    ELSE IF entries[k].participant = p THEN amount[k] ELSE 0], Keys)

Cost(entries, unit) ==
  [k \in Keys |-> IF entries[k] = None THEN 0 ELSE unit[k] * entries[k].qty]

ReservePrices(bids) == [k \in Keys |-> IF bids[k] = None THEN 0 ELSE bids[k].reserve_price]
LimitPrices(bids) == [k \in Keys |-> IF bids[k] = None THEN 0 ELSE bids[k].limit]
FillPrices(fills) == [k \in Keys |-> IF fills[k] = None THEN 0 ELSE fills[k].price]

(* What p has reserved in a window and on the ladder, and owes for fills. *)
WindowHold(p, bids) == TotalFor(p, bids, Cost(bids, ReservePrices(bids)))
LadderHold(p, bids) == TotalFor(p, bids, Cost(bids, LimitPrices(bids)))
FillsOwed(p, fills) == TotalFor(p, fills, Cost(fills, FillPrices(fills)))

(* checked_mul_qty and Collateral::available. *)
Overflows(price, qty) == price * qty \notin I64 \/ qty > I64Max

(* Fault: what is committed is still available. *)
AvailableIgnoringCommitted(s, p) == s.limit[p]

Available(s, p) == SatI64(s.limit[p] - s.committed[p])

Wrapped(n) == ((n + I64Max + 1) % (2 * (I64Max + 1))) - (I64Max + 1)

(* Fault: the product wraps instead of being checked. *)
CanReserveWrapping(s, p, price, qty) == Wrapped(price * qty) <= Available(s, p)

CanReserve(s, p, price, qty) ==
  /\ ~Overflows(price, qty)
  /\ price * qty <= Available(s, p)

Reserve(s, p, price, qty) ==
  [s EXCEPT !.committed[p] = SatI64(@ + price * qty)]

(* commit() and release() of an amount that does not fit. *)
CommitAmount(price, qty) == IF Overflows(price, qty) THEN I64Max ELSE price * qty
ReleaseAmount(price, qty) == IF Overflows(price, qty) THEN 0 ELSE price * qty

CreditOnly(amount) == [k \in Keys |-> IF amount[k] >= 0 THEN amount[k] ELSE 0]
DebitOnly(amount) == [k \in Keys |-> IF amount[k] < 0 THEN amount[k] ELSE 0]

(***************************************************************************)
(* p's balance once the reservations of `bids` are released, the highest   *)
(* price first: those that lower the balance come before those that, being *)
(* negative, raise it.  on_cancel releases a window in order of arrival,   *)
(* which differs only if a window holds reservations of both signs, below  *)
(* a price of zero, and the balance saturates.                             *)
(***************************************************************************)
Returned(balance, p, bids, unit) ==
  SatI64(SatI64(balance - TotalFor(p, bids, CreditOnly(Cost(bids, unit))))
                        - TotalFor(p, bids, DebitOnly(Cost(bids, unit))))

-----------------------------------------------------------------------------
(* Outcomes. *)

(* set_outcome: what a key's record becomes, never regressing a fill. *)
Merge(prior, fresh) ==
  IF prior.kind = "FilledThenCancelled" THEN prior
  ELSE IF prior.kind # "Filled" THEN fresh
  ELSE IF fresh.kind = "Filled" THEN Filled(prior.qty + fresh.qty, fresh.price)
  ELSE IF fresh.kind = "Cancelled" THEN [prior EXCEPT !.kind = "FilledThenCancelled"]
  ELSE IF fresh.kind = "Rejected" THEN prior
  ELSE fresh

SetOutcome(s, k, outcome) ==
  [s EXCEPT !.outcomes[k] = Merge(@, outcome)]

Reject(s, k, reason) == SetOutcome(s, k, Rejected(reason))

(* The outcomes once every bid of `bids` is turned away. *)
RejectAll(outcomes, bids, reason) ==
  [k \in Keys |-> IF bids[k] = None THEN outcomes[k]
                  ELSE Merge(outcomes[k], Rejected(reason))]

-----------------------------------------------------------------------------
(* Clearing, and the end of a window. *)

(* Fault: outcomes keep the price of their window. *)
RequoteNothing(outcomes, fills, price) == outcomes

(* The outcome a retry is answered with follows the fill it mirrors. *)
Requote(outcomes, fills, price) ==
  [k \in Keys |-> IF fills[k] # None /\ HasFill(outcomes[k])
                  THEN [outcomes[k] EXCEPT !.price = price] ELSE outcomes[k]]

Reprice(fills, price) ==
  [k \in Keys |-> IF fills[k] = None THEN None
                  ELSE [fills[k] EXCEPT !.price = price]]

(* What repricing gives back for each fill; never negative, as the clock   *)
(* only descends.                                                          *)
Freed(fills, price) ==
  [k \in Keys |-> IF fills[k] = None THEN 0
                  ELSE ReleaseAmount(SatI64(fills[k].price - price), fills[k].qty)]

(* Fault: repricing and rejecting return no collateral. *)
ClearWithoutRelease(s, price) ==
  [s EXCEPT
    !.status = "Cleared",
    !.clearing_price = price,
    !.fills = Reprice(s.fills, price),
    !.outcomes = RejectAll(Requote(@, s.fills, price), s.resting, "Unfilled"),
    !.resting = Nothing]

Clear(s, price) ==
  [s EXCEPT
    !.status = "Cleared",
    !.clearing_price = price,
    !.fills = Reprice(s.fills, price),
    !.outcomes = RejectAll(Requote(@, s.fills, price), s.resting, "Unfilled"),
    !.resting = Nothing,
    !.committed = [p \in Participants |->
       Returned(SatI64(@[p] - TotalFor(p, s.fills, Freed(s.fills, price))),
                p, s.resting, LimitPrices(s.resting))]]

(* Everyone in the open window is turned away, collateral returned. *)
RefundWindow(s, reason) ==
  IF s.window = None THEN s
  ELSE [s EXCEPT
         !.window = None,
         !.outcomes = RejectAll(@, s.window.bids, reason),
         !.committed = [p \in Participants |->
            Returned(@[p], p, s.window.bids, ReservePrices(s.window.bids))]]

(* The fills one window makes, beside the ones already there. *)
NewFills(w, allocs) ==
  [k \in Keys |-> IF allocs[k] = 0 THEN None
                  ELSE [participant |-> w.bids[k].participant,
                        qty |-> allocs[k], price |-> w.price]]

AddFills(old, new) ==
  [k \in Keys |-> IF new[k] = None THEN old[k]
                  ELSE IF old[k] = None THEN new[k]
                  ELSE [new[k] EXCEPT !.qty = @ + old[k].qty]]

(* The remainders of resting bids that go back to the ladder. *)
Remainders(w, allocs, exhausted) ==
  [k \in Keys |->
     IF /\ allocs[k] > 0 /\ ~exhausted
        /\ w.bids[k].resting_limit # None /\ allocs[k] < w.bids[k].qty
     THEN [seq |-> w.bids[k].seq, participant |-> w.bids[k].participant,
           qty |-> w.bids[k].qty - allocs[k], limit |-> w.bids[k].resting_limit]
     ELSE None]

WindowOutcomes(outcomes, w, allocs) ==
  [k \in Keys |-> IF w.bids[k] = None THEN outcomes[k]
                  ELSE Merge(outcomes[k], IF allocs[k] = 0 THEN Rejected("SupplyExhausted")
                                          ELSE Filled(allocs[k], w.price))]

(* The order bids are settled in, and the last of K in that order. *)
Outranks(bids, j, k) == j \in Above(bids, k) \cup Ahead(bids, k)
LastOf(bids, K) == CHOOSE k \in K : \A j \in K : j = k \/ Outranks(bids, j, k)

(* Each bid's reservation is released, its fill committed and then its     *)
(* remainder, before the next bid's.                                       *)
Settlement(balance, bids, K, held, paid, kept) ==
  MapThenFoldSet(LAMBDA k, b : SatI64(SatI64(SatI64(b - held[k]) + paid[k]) + kept[k]),
                 balance, LAMBDA k : k, LAMBDA T : LastOf(bids, T), K)

Paid(fills) ==
  [k \in Keys |-> IF fills[k] = None THEN 0 ELSE CommitAmount(fills[k].price, fills[k].qty)]

BidsOf(p, bids) == {k \in Present(bids) : bids[k].participant = p}

(* The state once the bids of window w are given `allocs`. *)
Settled(s, w, allocs, left, fills, requeued) ==
  [s EXCEPT
    !.window = None,
    !.supply_remaining = left,
    !.fills = AddFills(@, fills),
    !.outcomes = WindowOutcomes(@, w, allocs),
    !.resting = [k \in Keys |-> IF requeued[k] = None THEN @[k] ELSE requeued[k]],
    !.committed = [p \in Participants |->
       Settlement(@[p], w.bids, BidsOf(p, w.bids), Cost(w.bids, ReservePrices(w.bids)),
                  Paid(fills), Cost(requeued, LimitPrices(requeued)))]]

(* An allocation that exhausts the supply clears the auction. *)
Distribute(s, w, allocs) ==
  LET left == Monus(s.supply_remaining, SumFunctionOnSet(allocs, Keys))
      exhausted == s.supply_remaining > 0 /\ left = 0
      settled == Settled(s, w, allocs, left, NewFills(w, allocs),
                         Remainders(w, allocs, exhausted))
  IN  IF exhausted THEN Clear(settled, w.price) ELSE settled

(* Match the open window of a live auction against what supply is left. *)
SettleWindow(s) ==
  Distribute(s, s.window, Allocate(s.window.bids, s.supply_remaining))

FlushWindow(s) ==
  IF s.window = None THEN s
  ELSE IF AcceptsBids(s) THEN SettleWindow(s)
  ELSE RefundWindow(s, "NotLive")

(* Fault: the window settles while it is still open. *)
CloseWindowEarly(s) ==
  IF s.window # None /\ WindowIndex(BatchWindow, s.now) >= s.window.index
  THEN FlushWindow(s) ELSE s

(* A window whose time has passed settles before anything newer. *)
CloseElapsedWindow(s) ==
  IF s.window # None /\ WindowIndex(BatchWindow, s.now) > s.window.index
  THEN FlushWindow(s) ELSE s

(* Bids join the open window; the first one opens it. *)
PushPending(s, bids) ==
  LET w == IF s.window # None THEN s.window
           ELSE [index |-> WindowIndex(BatchWindow, s.now),
                 price |-> WindowPrice(Schedule, BatchWindow, s.now),
                 bids |-> Nothing]
  IN  IF Present(bids) = {} THEN s
      ELSE [s EXCEPT !.window =
             [w EXCEPT !.bids = [k \in Keys |-> IF bids[k] = None THEN @[k] ELSE bids[k]]]]

(* Fault: an unbatched bid waits for a later command. *)
FlushNever(s) == s

FlushIfUnbatched(s) == IF BatchWindow = 0 THEN FlushWindow(s) ELSE s

-----------------------------------------------------------------------------
(* The handlers. *)

(* Fault: the elapsed window is not settled first. *)
ArriveWithoutClosing(s, ts) == [s EXCEPT !.now = IF ts > @ THEN ts ELSE @]

(* What apply() does before the handler: time moves on, never back, and    *)
(* an elapsed window is settled.                                           *)
Arrive(s, ts) ==
  CloseElapsedWindow([s EXCEPT !.now = IF ts > @ THEN ts ELSE @])

OnOpen(s) == IF s.status = "Pending" THEN [s EXCEPT !.status = "Live"] ELSE s

OnSetCollateral(s, p, limit) == [s EXCEPT !.limit[p] = limit]

AbsDiff(a, b) == IF a > b THEN a - b ELSE b - a

(* The early returns of on_bid, in their order; "" admits the bid. *)
BidRefusal(s, p, qty, offClock, reason, price) ==
  IF qty = 0 THEN "ZeroQuantity"
  ELSE IF ~AcceptsBids(s) THEN "NotLive"
  ELSE IF offClock THEN reason
  ELSE IF ~CanReserve(s, p, price, qty) THEN "InsufficientCollateral"
  ELSE ""

TakeRefusal(s, p, qty, expected) ==
  BidRefusal(s, p, qty, AbsDiff(Price(s.now), expected) > PriceTolerance,
             "PriceMoved", WindowPrice(Schedule, BatchWindow, s.now))

RestingRefusal(s, p, qty, limit) ==
  BidRefusal(s, p, qty, limit > Price(s.now), "LimitAboveClock", limit)

OneBid(k, bid) == [j \in Keys |-> IF j = k THEN bid ELSE None]

AdmitTake(s, p, k, qty) ==
  LET price == WindowPrice(Schedule, BatchWindow, s.now)
      bid == [seq |-> s.admitted, participant |-> p, qty |-> qty, priority |-> price,
              reserve_price |-> price, resting_limit |-> None]
      reserved == [Reserve(s, p, price, qty) EXCEPT !.admitted = @ + 1]
  IN  FlushIfUnbatched(SetOutcome(PushPending(reserved, OneBid(k, bid)), k, Queued(qty)))

AdmitResting(s, p, k, qty, limit) ==
  LET bid == [seq |-> s.admitted, participant |-> p, qty |-> qty, limit |-> limit]
      reserved == [Reserve(s, p, limit, qty) EXCEPT !.admitted = @ + 1]
  IN  SetOutcome([reserved EXCEPT !.resting[k] = bid], k, Resting(qty))

(* Fault: a retry executes again. *)
OnBidForgettingRetries(s, k, refusal, admit) ==
  IF refusal # "" THEN Reject(s, k, refusal) ELSE admit

(* A retry returns the original answer and executes nothing. *)
OnBid(s, k, refusal, admit) ==
  IF s.outcomes[k] # NoOutcome THEN s
  ELSE IF refusal # "" THEN Reject(s, k, refusal)
  ELSE admit

OnCancelResting(s, p, k) ==
  IF s.resting[k] # None /\ s.resting[k].participant = p
  THEN SetOutcome([s EXCEPT
         !.resting[k] = None,
         !.committed[p] = SatI64(@ - s.resting[k].limit * s.resting[k].qty)],
         k, Withdrawn)
  ELSE s

(* Resting bids the clock has reached leave the ladder for the window. *)
IsTriggered(bid, clock) == bid # None /\ bid.limit >= clock

TriggeredBids(s, clock) ==
  [k \in Keys |->
     LET bid == s.resting[k]
     IN  IF bid = None THEN None
         ELSE IF ~IsTriggered(bid, clock) THEN None
         ELSE [seq |-> bid.seq, participant |-> bid.participant, qty |-> bid.qty,
               priority |-> bid.limit, reserve_price |-> bid.limit,
               resting_limit |-> bid.limit]]

(* Fault: triggered bids stay on the ladder. *)
DrainNothing(s, clock) == s

DrainTriggered(s, clock) ==
  [s EXCEPT !.resting = [k \in Keys |-> IF IsTriggered(@[k], clock) THEN None ELSE @[k]]]

(* Fault: the open window is dropped, not settled. *)
CloseAtFloorUnsettled(s) == Clear([s EXCEPT !.window = None], Schedule.floor_price)

CloseAtFloor(s) ==
  LET settled == FlushWindow(s)
  IN  IF AcceptsBids(settled) THEN Clear(settled, Schedule.floor_price) ELSE settled

OnTick(s) ==
  LET clock == Price(s.now)
      triggered == PushPending(DrainTriggered(s, clock), TriggeredBids(s, clock))
      matched == FlushIfUnbatched(triggered)
  IN  IF ~AcceptsBids(s) THEN s
      ELSE IF AcceptsBids(matched) /\ AtFloor(Schedule, s.now) THEN CloseAtFloor(matched)
      ELSE matched

(* Fault: a finished auction is cancelled again. *)
OnCancelFinished(s) ==
  [RefundWindow([s EXCEPT !.status = "Cancelled"], "NotLive") EXCEPT
    !.outcomes = RejectAll(@, s.resting, "NotLive"),
    !.resting = Nothing,
    !.committed = [p \in Participants |->
       Returned(@[p], p, s.resting, LimitPrices(s.resting))]]

OnCancel(s) ==
  LET refunded == RefundWindow([s EXCEPT !.status = "Cancelled"], "NotLive")
  IN  IF IsTerminal(s) THEN s
      ELSE [refunded EXCEPT
             !.outcomes = RejectAll(@, s.resting, "NotLive"),
             !.resting = Nothing,
             !.committed = [p \in Participants |->
                Returned(@[p], p, s.resting, LimitPrices(s.resting))]]

-----------------------------------------------------------------------------
(* The commands, each at a time the sequencer stamped. *)

Init == auction = NewAuction

Open(ts) == auction' = OnOpen(Arrive(auction, ts))

SetCollateral(ts, p, limit) == auction' = OnSetCollateral(Arrive(auction, ts), p, limit)

SubmitTake(ts, p, k, qty, expected) ==
  LET s == Arrive(auction, ts)
  IN  auction' = OnBid(s, k, TakeRefusal(s, p, qty, expected), AdmitTake(s, p, k, qty))

SubmitResting(ts, p, k, qty, limit) ==
  LET s == Arrive(auction, ts)
  IN  auction' = OnBid(s, k, RestingRefusal(s, p, qty, limit), AdmitResting(s, p, k, qty, limit))

CancelResting(ts, p, k) == auction' = OnCancelResting(Arrive(auction, ts), p, k)

Tick(ts) == auction' = OnTick(Arrive(auction, ts))

Cancel(ts) == auction' = OnCancel(Arrive(auction, ts))

Next ==
  \E ts \in Timestamps :
    \/ Open(ts)
    \/ Tick(ts)
    \/ Cancel(ts)
    \/ \E p \in Participants :
         \/ \E limit \in Collaterals : SetCollateral(ts, p, limit)
         \/ \E k \in Keys :
              \/ \E qty \in Quantities, expected \in Expected :
                   SubmitTake(ts, p, k, qty, expected)
              \/ \E qty \in Quantities, limit \in Limits :
                   SubmitResting(ts, p, k, qty, limit)
              \/ CancelResting(ts, p, k)

Spec == Init /\ [][Next]_auction
-----------------------------------------------------------------------------
(* Properties. *)

(* The state stays of the types state.rs:63-79 declares: no count of units *)
(* is ever negative, and no key's record is malformed.                     *)
TypeOK == auction \in AuctionState

InWindow(k) == IF auction.window = None THEN FALSE ELSE auction.window.bids[k] # None
OnLadder(k) == auction.resting[k] # None

UnitsOf(fills) ==
  SumFunctionOnSet([k \in Keys |-> IF fills[k] = None THEN 0 ELSE fills[k].qty], Keys)

(***************************************************************************)
(* Supply is neither oversold nor lost (I1): at every moment the units     *)
(* allocated and supply_remaining add up to the supply offered, whatever   *)
(* windows, partial fills, clearing and cancellation came before.          *)
(***************************************************************************)
SupplyConserved ==
  auction.supply_remaining + UnitsOf(auction.fills) = TotalSupply

(***************************************************************************)
(* A cleared auction has one price (I2): every fill, and every answer a    *)
(* retry of a filled key would get, quotes the clearing price.             *)
(***************************************************************************)
UniformPrice ==
  auction.status = "Cleared" =>
    \A k \in Keys :
      /\ auction.fills[k] # None => auction.fills[k].price = auction.clearing_price
      /\ HasFill(auction.outcomes[k]) => auction.outcomes[k].price = auction.clearing_price

(***************************************************************************)
(* The clearing price is one the clock produced (I3): the price of some    *)
(* instant that has already passed, and the floor whenever units are left  *)
(* unsold.                                                                 *)
(***************************************************************************)
ClearingPriceProduced ==
  auction.status = "Cleared" =>
    /\ \E t \in 0..auction.now : Price(t) = auction.clearing_price
    /\ auction.supply_remaining > 0 => auction.clearing_price = Schedule.floor_price

(***************************************************************************)
(* The idempotency record tells the truth (I7): a key's outcome says in    *)
(* which one of the window, the ladder and the fills its bid is, with the  *)
(* same quantity and price; a rejected, withdrawn or unknown key is in     *)
(* none of them.  In particular no key is filled while part of it is still *)
(* waiting, so the requeue of flush_window and the merging arms of         *)
(* set_outcome are never taken, as state.rs:626-628 says.                  *)
(***************************************************************************)
OutcomeTellsWhere ==
  \A k \in Keys :
    LET o == auction.outcomes[k]
        fill == auction.fills[k]
    IN  /\ o.kind # "FilledThenCancelled"
        /\ InWindow(k) => ~OnLadder(k) /\ o.kind \in {"Queued", "Resting"}
                          /\ o.qty = auction.window.bids[k].qty
        /\ OnLadder(k) => o = Resting(auction.resting[k].qty)
        /\ o.kind = "Queued" => InWindow(k)
        /\ o.kind = "Resting" => InWindow(k) \/ OnLadder(k)
        /\ IF fill = None THEN o.kind # "Filled" ELSE o = Filled(fill.qty, fill.price)

(***************************************************************************)
(* The collateral ledger balances (I9, state.rs:21-25): what is committed  *)
(* for a participant is exactly what their bids in the window and on the   *)
(* ladder reserve and their fills cost: no reservation is leaked or given  *)
(* back twice by fills, rejections, withdrawals, clearing or cancellation. *)
(***************************************************************************)
LedgerBalanced ==
  \A p \in Participants :
    auction.committed[p] =
      (IF auction.window = None THEN 0 ELSE WindowHold(p, auction.window.bids))
        + LadderHold(p, auction.resting) + FillsOwed(p, auction.fills)

(***************************************************************************)
(* No amount is clamped (the debug_assert of state.rs:681-684, and         *)
(* state.rs:661): whatever release() will be asked to give back, at the    *)
(* price it was reserved at or as the difference to any price the auction  *)
(* may yet clear at, fits i64, and so does whatever commit() has charged.  *)
(* A clamped release would strand collateral, a clamped charge invent it.  *)
(***************************************************************************)
AmountsFit ==
  \A k \in Keys :
    /\ OnLadder(k) => ~Overflows(auction.resting[k].limit, auction.resting[k].qty)
    /\ InWindow(k) => ~Overflows(auction.window.bids[k].reserve_price,
                                 auction.window.bids[k].qty)
    /\ auction.fills[k] # None =>
         /\ ~Overflows(auction.fills[k].price, auction.fills[k].qty)
         /\ ~Overflows(SatI64(auction.fills[k].price - Schedule.floor_price),
                       auction.fills[k].qty)

(***************************************************************************)
(* An open window is the one the auction is in (state.rs:434-441): it      *)
(* belongs to a live auction, its index and price are those of now, it     *)
(* holds a bid, and its price is no worse than the price any bid in it     *)
(* reserved at, so nobody fills above the price they bid against.          *)
(***************************************************************************)
WindowIsCurrent ==
  auction.window # None =>
    /\ AcceptsBids(auction) /\ BatchWindow > 0
    /\ auction.window.index = WindowIndex(BatchWindow, auction.now)
    /\ auction.window.price = WindowPrice(Schedule, BatchWindow, auction.now)
    /\ Present(auction.window.bids) # {}
    /\ \A k \in Present(auction.window.bids) :
         auction.window.price <= auction.window.bids[k].reserve_price

(***************************************************************************)
(* Ends are clean (I10): once the auction is over nobody is still waiting, *)
(* and an auction that had supply and sold it all is over.  A bid is       *)
(* turned away for exhausted supply only when no unit is left.             *)
(***************************************************************************)
EndIsSettled ==
  /\ IsTerminal(auction) =>
       \A k \in Keys : auction.outcomes[k].kind \notin {"Queued", "Resting"}
  /\ TotalSupply > 0 /\ auction.supply_remaining = 0 => auction.status = "Cleared"
  /\ \A k \in Keys : auction.outcomes[k] = Rejected("SupplyExhausted")
       => auction.supply_remaining = 0

(* The bids of p that are waiting with a reservation below zero. *)
HeldBelowZero(s, p) ==
  {k \in Keys :
     \/ s.resting[k] # None /\ s.resting[k].participant = p /\ s.resting[k].limit < 0
     \/ IF s.window = None THEN FALSE
        ELSE /\ s.window.bids[k] # None /\ s.window.bids[k].participant = p
             /\ s.window.bids[k].reserve_price < 0}

(***************************************************************************)
(* What remains of I9 when limits may be negative (state.rs:601-611): the  *)
(* only step that takes a participant's debt above the ceiling is one that *)
(* ends a bid of theirs reserved below zero.  No admission, fill,          *)
(* repricing or lowered ceiling does.                                      *)
(***************************************************************************)
OnlyNegativeHoldsOverrun ==
  [][\A p \in Participants :
       /\ auction'.committed[p] > auction.committed[p]
       /\ auction'.committed[p] > auction'.limit[p] /\ auction'.committed[p] > 0
       => HeldBelowZero(auction, p) \ HeldBelowZero(auction', p) # {}]_auction

(***************************************************************************)
(* An answer is never taken back (I7, state.rs:618-624): a rejection or a  *)
(* withdrawal stands for ever; a fill stands with its quantity and can     *)
(* only become cheaper; a bid that is waiting keeps its quantity, and only *)
(* fills up to it.                                                         *)
(***************************************************************************)
AnswerStands(o, next) ==
  CASE o.kind = "Unknown" -> TRUE
    [] o.kind \in {"Rejected", "Cancelled"} -> next = o
    [] HasFill(o) -> HasFill(next) /\ next.qty = o.qty /\ next.price <= o.price
    [] o.kind \in {"Queued", "Resting"} ->
         \/ next = o
         \/ next.kind = "Filled" /\ next.qty \in 1..o.qty
         \/ next.kind = "Rejected" /\ next.reason \in {"SupplyExhausted", "NotLive", "Unfilled"}
         \/ next.kind = "Cancelled" /\ o.kind = "Resting"

AnswersStand == [][\A k \in Keys : AnswerStands(auction.outcomes[k], auction'.outcomes[k])]_auction

(***************************************************************************)
(* The life cycle (docs/auction-rules.md §1): time, supply and the status  *)
(* only move forward, a finished auction is frozen but for new rejections  *)
(* and ceilings, and a live one ends only by clearing or cancellation.     *)
(***************************************************************************)
LifeCycle ==
  [][/\ auction'.now >= auction.now
     /\ auction'.supply_remaining <= auction.supply_remaining
     /\ auction.status # "Pending" => auction'.status # "Pending"
     /\ IsTerminal(auction) =>
          /\ auction'.status = auction.status
          /\ auction'.fills = auction.fills
          /\ auction'.committed = auction.committed
          /\ auction'.clearing_price = auction.clearing_price]_auction

-----------------------------------------------------------------------------
(* What the documentation says and the code does not do. *)

(***************************************************************************)
(* A participant never has more outstanding exposure than they posted (I9, *)
(* state.rs:23-25): a step that raises what a participant has committed    *)
(* leaves it within their ceiling.                                         *)
(***************************************************************************)
ExposureGrowsWithinLimit ==
  [][\A p \in Participants : auction'.committed[p] > auction.committed[p]
       => auction'.committed[p] <= auction'.limit[p]]_auction
=============================================================================
