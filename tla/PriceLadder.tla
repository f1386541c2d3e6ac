----------------------------- MODULE PriceLadder -----------------------------
(***************************************************************************)
(* The resting-bid ladder of auction-core (ladder.rs) as it is stored: a   *)
(* BTreeMap from a limit to the queue of bids at that limit, and a running *)
(* total of the units in it.  Only levels in DOMAIN levels exist.  A bid   *)
(* is a record with its key, seq, participant, qty and limit.  A place is  *)
(* a limit and a position in the queue at that limit.                      *)
(***************************************************************************)
EXTENDS PriceSchedule, Sequences, Functions
Lists == INSTANCE SequencesExt

Empty == [levels |-> <<>>, total_qty |-> 0]

Level(l, limit) == IF limit \in DOMAIN l.levels THEN l.levels[limit] ELSE <<>>

Places(levels) == UNION {{limit} \X DOMAIN levels[limit] : limit \in DOMAIN levels}
At(levels, place) == levels[place[1]][place[2]]

(* A BTreeMap iterated backwards, each queue from its front. *)
HandedOverBefore(x, y) == x[1] > y[1] \/ (x[1] = y[1] /\ x[2] < y[2])

Units(levels) ==
  SumFunctionOnSet([place \in Places(levels) |-> At(levels, place).qty], Places(levels))

(* The units leave the total, one saturating_sub after another. *)
LessUnits(l, units) == IF l.total_qty > units THEN l.total_qty - units ELSE 0

Only(levels, limits) == [limit \in limits |-> levels[limit]]

(* BTreeMap::entry: the queue at a limit, created if need be. *)
With(levels, limit, queue) ==
  [p \in DOMAIN levels \cup {limit} |-> IF p = limit THEN queue ELSE levels[p]]

(* next_trigger: {} for None. *)
NextTrigger(l) == {p \in DOMAIN l.levels : \A q \in DOMAIN l.levels : q <= p}

(* Fault: a new bid goes to the head of its level. *)
InsertAtFront(l, bid) ==
  [levels |-> With(l.levels, bid.limit, <<bid>> \o Level(l, bid.limit)),
   total_qty |-> SatU64(l.total_qty + bid.qty)]

Insert(l, bid) ==
  [levels |-> With(l.levels, bid.limit, Append(Level(l, bid.limit), bid)),
   total_qty |-> SatU64(l.total_qty + bid.qty)]

(* What split_off takes, and what it leaves. *)
Triggered(l, price) == Only(l.levels, {p \in DOMAIN l.levels : p >= price})
Untriggered(l, price) == Only(l.levels, {p \in DOMAIN l.levels : p < price})

(* Fault: the total still counts the bids that left. *)
DrainKeepingTotal(l, price) == [l EXCEPT !.levels = Untriggered(l, price)]

DrainTriggered(l, price) ==
  [levels |-> Untriggered(l, price),
   total_qty |-> LessUnits(l, Units(Triggered(l, price)))]

DrainAll(l) == Empty

(* Where remove(), going up the levels, finds a bid of this participant    *)
(* and key first.                                                          *)
Found(l, participant, key) ==
  {place \in Places(l.levels) :
     LET bid == At(l.levels, place) IN bid.key = key /\ bid.participant = participant}

FirstFound(l, participant, key) ==
  CHOOSE x \in Found(l, participant, key) : \A y \in Found(l, participant, key) :
    x[1] < y[1] \/ (x[1] = y[1] /\ x[2] <= y[2])

TakeOut(levels, place) == [levels EXCEPT ![place[1]] = Lists!RemoveAt(@, place[2])]

(* Fault: the level of the last bid withdrawn stays, empty. *)
RemoveWithoutRetain(l, participant, key) ==
  LET place == FirstFound(l, participant, key)
  IN  IF Found(l, participant, key) = {} THEN l
      ELSE [levels |-> TakeOut(l.levels, place),
            total_qty |-> LessUnits(l, At(l.levels, place).qty)]

Remove(l, participant, key) ==
  LET place == FirstFound(l, participant, key)
      left == TakeOut(l.levels, place)
  IN  IF Found(l, participant, key) = {} THEN l
      ELSE [levels |-> Only(left, {p \in DOMAIN left : left[p] # <<>>}),
            total_qty |-> LessUnits(l, At(l.levels, place).qty)]

(* A partial fill's remainder returns to the front of its level. *)
Requeue(l, bid) ==
  IF bid.qty = 0 THEN l
  ELSE [levels |-> With(l.levels, bid.limit, <<bid>> \o Level(l, bid.limit)),
        total_qty |-> SatU64(l.total_qty + bid.qty)]
=============================================================================
