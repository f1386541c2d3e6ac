---------------------------- MODULE AuctionLadder ----------------------------
(***************************************************************************)
(* The auction composed with the ladder it keeps its resting bids in.      *)
(* Auction abstracts the ladder to a map from keys to bids; here each      *)
(* command also makes, in the order its handler makes them, the calls of   *)
(* ladder.rs, and the properties say that the stored ladder stays what the *)
(* abstraction takes it to be.                                             *)
(***************************************************************************)
EXTENDS Deadlines, Sequences
Lists == INSTANCE SequencesExt

VARIABLE ladder   \* AuctionState.resting

L == INSTANCE PriceLadder

vars == <<auction, ladder>>

Bid(k, b) ==
  [key |-> k, seq |-> b.seq, participant |-> b.participant, qty |-> b.qty, limit |-> b.limit]

(* The partial fills flush_window puts back, in the order it fills them. *)
Requeued(s) ==
  LET settled == FlushWindow(s)
      keys == {k \in Present(s.window.bids) : settled.resting[k] # None}
      bid(k) == s.window.bids[k]
      before(a, b) == \/ bid(a.key).priority > bid(b.key).priority
                      \/ bid(a.key).priority = bid(b.key).priority /\ a.seq < b.seq
  IN  CHOOSE bids \in Lists!SetToSeqs({Bid(k, settled.resting[k]) : k \in keys}) :
        \A i, j \in DOMAIN bids : i < j => before(bids[i], bids[j])

(* Clearing turns away everyone still on the ladder. *)
Cleared(l, s) == IF s.status = "Cleared" THEN L!DrainAll(l) ELSE l

(* What flush_window, called in state s, does to the ladder l. *)
Flushed(l, s) ==
  IF s.window = None \/ ~AcceptsBids(s) THEN l
  ELSE Cleared(Lists!FoldLeft(L!Requeue, l, Requeued(s)), FlushWindow(s))

(* The ladder once apply() has settled an elapsed window. *)
Arrived(ts) ==
  LET s == [auction EXCEPT !.now = IF ts > @ THEN ts ELSE @]
  IN  IF CloseElapsedWindow(s) = s THEN ladder ELSE Flushed(ladder, s)

-----------------------------------------------------------------------------
LadderInit == Init /\ ladder = L!Empty

LadderOpen(ts) == Open(ts) /\ ladder' = Arrived(ts)

LadderSetCollateral(ts, p, limit) == SetCollateral(ts, p, limit) /\ ladder' = Arrived(ts)

(* An unbatched take is matched at once, and may clear the auction. *)
LadderTake(ts, p, k, qty, expected) ==
  SubmitTake(ts, p, k, qty, expected) /\ ladder' = Cleared(Arrived(ts), auction')

(* Only an admitted bid is inserted. *)
LadderResting(ts, p, k, qty, limit) ==
  LET s == Arrive(auction, ts)
  IN  /\ SubmitResting(ts, p, k, qty, limit)
      /\ ladder' = IF auction'.admitted = s.admitted THEN Arrived(ts)
                   ELSE L!Insert(Arrived(ts), Bid(k, auction'.resting[k]))

LadderCancelResting(ts, p, k) ==
  CancelResting(ts, p, k) /\ ladder' = L!Remove(Arrived(ts), p, k)

LadderTick(ts) ==
  LET s == Arrive(auction, ts)
      clock == Price(s.now)
      drained == L!DrainTriggered(Arrived(ts), clock)
      pushed == PushPending(DrainTriggered(s, clock), TriggeredBids(s, clock))
      matched == IF BatchWindow = 0 THEN Flushed(drained, pushed) ELSE drained
  IN  /\ Tick(ts)
      /\ ladder' = IF AcceptsBids(s) THEN Cleared(matched, auction') ELSE Arrived(ts)

LadderCancel(ts) ==
  /\ Cancel(ts)
  /\ ladder' = IF IsTerminal(Arrive(auction, ts)) THEN Arrived(ts) ELSE L!DrainAll(Arrived(ts))

LadderNext ==
  \E ts \in Timestamps :
    \/ LadderOpen(ts)
    \/ LadderTick(ts)
    \/ LadderCancel(ts)
    \/ \E p \in Participants :
         \/ \E limit \in Collaterals : LadderSetCollateral(ts, p, limit)
         \/ \E k \in Keys :
              \/ \E qty \in Quantities, expected \in Expected : LadderTake(ts, p, k, qty, expected)
              \/ \E qty \in Quantities, limit \in Limits : LadderResting(ts, p, k, qty, limit)
              \/ LadderCancelResting(ts, p, k)

LadderSpec == LadderInit /\ [][LadderNext]_vars

-----------------------------------------------------------------------------
Places == L!Places(ladder.levels)
At(place) == L!At(ladder.levels, place)

(***************************************************************************)
(* The ladder holds the bids that rest, each once, and its running total   *)
(* is their sum (ladder.rs:28-34): nothing is left behind or counted after *)
(* a trigger, a withdrawal, a clearing or a cancellation.                  *)
(***************************************************************************)
LadderHoldsResting ==
  /\ {At(x) : x \in Places} = {Bid(k, auction.resting[k]) : k \in Present(auction.resting)}
  /\ Cardinality(Places) = Cardinality(Present(auction.resting))
  /\ ladder.total_qty = L!Units(ladder.levels)

(***************************************************************************)
(* The ladder hands bids over in the priority the window then applies      *)
(* (ladder.rs:72-76): highest limit first, and within a limit in order of  *)
(* arrival.                                                                *)
(***************************************************************************)
LadderKeepsPriority ==
  \A x, y \in Places : L!HandedOverBefore(x, y) =>
    \/ At(x).limit > At(y).limit
    \/ At(x).limit = At(y).limit /\ At(x).seq < At(y).seq

(***************************************************************************)
(* The limit the engine wakes up for is one some bid rests at              *)
(* (ladder.rs:56-64): a level outliving its last bid would schedule a tick *)
(* that triggers nothing and leaves the same deadline behind, for ever.    *)
(***************************************************************************)
NextTriggerRests == L!NextTrigger(ladder) = NextTrigger(auction)
=============================================================================
