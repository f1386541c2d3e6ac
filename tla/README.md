# Dutch auction: a TLA+ model and its proofs

This directory specifies the core of the `dutch-auction` workspace: the
descending price clock, the matching of a batch window, the auction state
machine and the ladder it keeps its resting bids in, the engine's clock and
deadlines, the write-ahead log, and the threads that make a command durable
before anybody is told of it. TLC checks the specifications on small instances
and TLAPS proves the central ones for every instance. `PROJECT.json` maps each
definition to the source lines it models and lists the runs, theorems, hazards
and findings.

## 1. The system

| Part | State | Operations | Talks to |
| --- | --- | --- | --- |
| price schedule (`auction-core/schedule.rs`) | none: a pure function of elapsed time | `price_at`, `time_to_reach`, `at_floor` | auction, engine deadlines |
| matching (`state.rs`: `flush_window`, `allocate`) | the bids of one window | sort by priority, allocate level by level, share pro rata | auction |
| ladder (`ladder.rs`) | a queue of bids per limit, a running total | `insert`, `drain_triggered`, `drain_all`, `remove`, `requeue`, `next_trigger` | auction, engine deadlines |
| auction (`state.rs`) | status, supply, fills, the ladder, open window, outcome per key, collateral per participant | `apply` of Open, SetCollateral, SubmitBid, CancelResting, Tick, Cancel | driven by the engine, by replay and by the standby |
| write-ahead log (`auction-wal/wal.rs`, `segment.rs`, `record.rs`) | segment files, the manifest, a write buffer, the appended and durable marks | `append`, `rotate`, `sync`, `open`, `read_all`, `truncate_torn_tail` | commit thread, recovery |
| group commit (`commit.rs`) | a bounded queue, a batch, the watermark | submit, gather, write, publish, drain, close | engine thread, ack thread |
| snapshots and replay (`snapshot.rs`, `replay.rs`) | snapshot files | `write`, `prune`, `latest_usable`, `recover` | snapshot thread, start-up |
| engine (`auction-engine/engine.rs`) | the auction, the sequencer, what is pending | take or tick, apply, log, hand on, snapshot, stop | all of the above |
| ingress (`ingress.rs`) | a bounded queue | queue or shed | participants, engine thread |
| replication (`replication.rs`) | the standby's state and its confirmed mark | send, follow, confirm, wait with a timeout | engine thread, ack thread |
| clock and deadlines (`clock.rs`, `engine.rs`) | the instant auction time started | `now`, `resume`, `window_close`, `deadline` | engine thread |

A command enters through the bounded ingress queue. The engine thread stamps it
with the next sequence number and the time, applies it, sends the record to the
standby and to the commit thread, and queues it for the ack thread. The commit
thread gathers a batch, appends it, syncs once and publishes the watermark. The
ack thread takes commands in order, waits for the watermark and, under
synchronous replication, for the standby, and only then publishes the view,
broadcasts the events and replies. A further thread writes snapshots. After a
crash the newest usable snapshot and the tail of the log rebuild the auction.

What is hard here: four threads and a standby joined by queues, a condition
variable and a timeout; a crash at any point between applying, writing, syncing
and telling; snapshots that do not wait for the log; windows settled late, by
whichever command comes next; a thread that has to wake up by itself at exactly
the right time, and auction time that has to survive restarts; one bid that can
be in three places; prices that change after the fill; and rounding, saturation
and overflow in money and time.

What makes each part correct: a price that only falls, and an exact inverse for
it; an allocation that places exactly what is there; an auction that conserves
supply, clears at one price, balances its collateral and never takes an answer
back; a ladder that hands over the right bids in the right order; deadlines
that are neither early nor late; a log of one auction that loses at most an
unsynced tail; an engine that never stamps backwards, brings every live auction
to its end, tells nobody what a crash could undo, answers everybody and can be
stopped.

## 2. Modules

| Module | Models | Run from |
| --- | --- | --- |
| `PriceSchedule` | `schedule.rs` and the window arithmetic, with the widths of `i64` and `u64` as constants | `MCPriceClock` |
| `PriceClock` | a clock read again and again, as late as it likes | `MCPriceClock` |
| `Matching` | what a window allocates, declaratively | `MCAuction`, `MCMatchLoop` |
| `MatchLoop` | the loops of `flush_window` and `allocate`, one turn per step | `MCMatchLoop` |
| `Auction` | the state machine: one action per command | `MCAuction`, `MCAuctionLadder`, `MCEngineClock` |
| `Deadlines` | `deadline()` and `window_close` over the auction's state | `MCAuction`, `MCEngineClock` |
| `PriceLadder` | `ladder.rs` as it is stored | `MCAuctionLadder` |
| `AuctionLadder` | `Auction` and `PriceLadder` composed: each handler with its calls of the ladder | `MCAuctionLadder` |
| `EngineClock` | the engine thread, its clock and the ingress queue around `Auction`, with restarts | `MCEngineClock` |
| `DurableLog` | what the log promises: an append-only sequence with a synced prefix | `Wal`, `MCEngine` |
| `Wal` | segments, buffer, rotation, torn tails, the manifest, opening | `Wal` |
| `Engine` | threads, queues, crash, shutdown, recovery, standby, snapshots, on top of `DurableLog` | `MCEngine` |
| `CoreTheorems` | lemmas and theorems on sums, the price clock and the allocation | |
| `PriceClockProofs`, `MatchLoopProofs` | a clock read again and again; the loops of the matching pass | |
| `AuctionProofs` | the auction's invariants and action properties | |
| `AuctionLadderProofs` | the stored ladder beside the auction | |
| `WalProofs` | the segmented log, and that it implements `DurableLog` | |
| `EngineProofs` | the log's promise and the engine's threads | |
| `EngineClockProofs` | stamps, restarts and deadlines | |

Definitions whose comment starts with *Fault:* are plausible bugs. No
specification uses them: each replaces one definition to show that a property
would notice.

**PriceSchedule and PriceClock.** A schedule is the struct of the code. Every
operation that saturates does so at `I64Max` or `U64Max`, constants that a run
makes small enough to be reached. `NanosPerSec` is a constant for the same
reason. The clock's only action moves time forward by any amount.

**Matching and MatchLoop.** `Allocation` says what each bid of a window gets:
higher priority first; within a level the floored pro-rata share, and one more
unit for the earliest bids until the rest is placed. `MatchLoop` sorts, walks
the levels and hands out the remainder as the code does, and ends in the same
allocation (`LoopComputesAllocate`). `Auction` uses the declarative form.

**Auction.** The variable `auction` is `AuctionState`. Each handler is an
operator from state to state; each command is an action that first moves time
and settles an elapsed window, as `apply` does. Sequence numbers are the rank of
admission. Events and the payloads of rejections are left out; the record of
outcomes, from which a retry is answered, is kept. Limits, and the clock, are
signed, as in the code. A balance saturates at every call of `reserve`, `commit`
and `release`: bid by bid and in matching order when a window settles
(`Settlement`); where a handler only gives back, in two sums, the reservations
above zero and then those below (`Returned`), which is the order of the ladder's
drain. `on_cancel` gives back a window in order of arrival, and would differ from
`Returned` only for a window with reservations of both signs, under a clock below
zero, whose balance saturates half-way. `commit` clamps a product that does not
fit to `i64::MAX` and `release` drops it (`CommitAmount`, `ReleaseAmount`);
`AmountsFit` says that neither happens.

**Deadlines.** `DeadlineOf` is `deadline()`: the earliest of the open window's
close, the next trigger and the floor, none of them in the past. `{}` is `None`.
`DeadlineIsExact` compares it, in every state the auction reaches, with what a
tick at each instant would do.

**PriceLadder and AuctionLadder.** `Auction` keeps the resting bids as a map from
keys to bids, which is what its handlers depend on. `PriceLadder` keeps what the
code keeps: levels that exist or do not, queues within them, and the total.
`AuctionLadder` runs both side by side, each command making the calls its handler
makes and in that order (settling an elapsed window first, requeueing remainders,
draining at the end), and its properties say that the stored ladder is what
`Auction` takes it for. A place in the ladder is a limit and a position in its
queue; units are summed over places and the order of a drain is an order on them.

**EngineClock.** The variable `clock` is what `Clock::now()` would answer, and
`Advance` is real time. The engine thread looks at its queue, waits, wakes up or
finds a deadline passed, reads the clock once and applies. `logged` is the
auction a recovery would rebuild, and `Persist` the commit thread catching up
with the engine. `Restart` loses what was applied after it, empties the queue and
resumes the clock at the time of the last record. Between taking a command and
applying it time may pass, as it may in the code. `Command` is the type of what
may be submitted.

**DurableLog and Wal.** In `Wal` a record has length one; a file is the records
that can be read from it, how many of them an fsync covered, and whether
undecodable bytes follow. A death leaves any prefix of the buffer, perhaps with
a torn record; a power failure leaves any file with at least its synced records.
The manifest is absent, torn or names an auction; creating it can be interrupted
at any byte. A process may be started for either of two auctions.
`ImplementsDurableLog` maps this to `DurableLog`: the records of all files
followed by the buffer are the log.

**Engine.** The auction is the sequence of records applied to it, which is
enough because `apply` is deterministic. A command is submitted once. Each
thread is a record with a program counter, and each place where the code blocks
or hands something over is a step of its own: between any two of them other
threads run, a write may fail, or the process may die. `told` holds the records
whose effects somebody was shown; the reply to the caller is a later step than
the broadcast. A standby may be stopped, which drains its queue first, or fail.
Starting the process is `Recover`, from an
empty directory too. A snapshot is renamed into place and older ones are
pruned in one step with several outcomes (`Pruned`): `prune` may remove all but
two, or fail or be cut off after any of its removals, so that any number of
files may be left. The detached snapshot thread ends with the process, and a
standby starts from the recovered state. An unreadable snapshot is a choice of
`Recover`. The manifest is `Wal`'s concern and left out here. `After`, the filter
of a replay, is a recursive function rather than a recursive operator, so that
it can be reasoned about.

## 3. Runs

| Run | Question | Result |
| --- | --- | --- |
| `price_clock` | is the price monotone, `time_to_reach` exact, a window priced at its lowest instant, up to the end of `u64`? | holds |
| `match_loop` | do the loops end, and compute the declared allocation? | holds |
| `auction_batched` | supply, one price, outcomes, ledger, windows, ends, life cycle and deadlines for one participant with three keys | holds |
| `auction_ladder` | does the stored ladder hold the right bids in the right order, does every amount fit, and what takes a debt above its ceiling, for two participants, unbatched, with an `i64` of four bits? | holds |
| `wal` | can recovery read what is left, is the log that of one auction, and does the segmented log keep its promise? | holds |
| `engine_crashes` | is what was told durable, kept, on the standby and reproduced by the log, over three starts of the process, with snapshots? | holds |
| `engine_answers` | is everybody answered, and does a shutdown end, even with a dead standby or a dead disk? | holds |
| `engine_clock` | are stamps in order, is the ledger balanced, and does a live auction end, through traffic, time and a restart? | holds |
| `stale_snapshot`, `opens_late`, `ticks_late`, `negative_limit` | sentences of the documentation the code does not keep | violated |

### Bounds

- *Price clock.* Prices 0..4, every stepped and linear schedule over them,
  `I64Max = 7` and `U64Max = 15`: a step times a count saturates, and a clock
  reaches the end of its type. Targets reach one past both ends.
- *Match loop.* Four bids of 1 to 3 units on two levels against seven units at
  most: a level that fits, one that is shared with a remainder of up to three,
  and one that gets nothing.
- *Auction.* Limits of -1, 2 and 3: below the floor, which the clock never
  reaches, at a price it falls to, and at the start. A clock from 3 to a floor of 1, a window of 3 ns, and timestamps on
  both sides of each boundary. Three units of supply against bids of one or two:
  windows that fit, share, exhaust and leave a rest. Three keys are the fewest
  with two winners and a loser in one window. A key serves for retries and for
  withdrawals before and after its end. Deadlines are compared with ticks at
  every instant up to `U64Max = 25`, long after the floor.
- *Ladder.* `I64Max = 7`, so that products of the instance leave the type, and
  two bids of three units at -2 take a balance to the lower end of it;
  ceilings of 2 and 7: one below a single bid, one below two. `Quantities`
  includes 0, which is refused. Two keys on three limits give two bids on one
  level, two levels, and a level whose only bid is withdrawn. Without batching
  every trigger is matched at once, so each tick drains, fills and clears.
- *Wal.* Two records to a segment and six sequence numbers: three segments, a
  rotation with and without a sync, and several deaths in a row; two auctions
  that compete for the directory.
- *Engine.* Two or three commands; queues of one or two, so that full queues
  happen; a batch of two; one or three starts of the process. Sequence
  numbers never run out: each command is used once. `engine_crashes` offers a
  snapshot every two commands, so rarely that the commands left do not reach the
  number of a discarded snapshot again (with one after every command, three
  starts run into finding 1); `engine_answers` has the snapshot of a settled auction. More than
  two snapshot files take more commands than TLC can follow through three starts,
  and `OneRestartIsSafe` and the other theorems cover them, as they do one restart
  with a snapshot after every command.
- *Engine clock.* A queue of one, so that commands are shed and block each
  other; up to four of six commands (open, take, rest, withdraw, lower a ceiling,
  cancel) in any order; readings up to the instant of the floor, after which
  nothing more falls due; one restart.

Keys, participants and ordinary commands are permuted under `SYMMETRY` where the
run checks no liveness; no definition distinguishes them. `CHECK_DEADLOCK FALSE`
is used where a system really ends: a matching loop that is done, a process that
was stopped and is not started again, and a directory whose manifest was torn,
which no process opens again.

### Fairness

`MatchLoop` assumes weak fairness of its one sequential loop. `Engine` assumes
weak fairness of each thread and of the sequence of joins in `stop_all`: the
operating system schedules runnable threads, a receive from a non-empty channel
returns and a condition variable is notified by `publish` and `close`. Nobody is
obliged to submit, stop, crash, restart or fail, the standby may die, and no
tick is promised. `EngineClock` assumes weak fairness of time, which passes, and
of the engine thread, which is scheduled. A run submits finitely many commands:
with a queue that is never empty `next()` never looks at its deadline, and
nothing would clear an auction at its floor. The
fairness of the engine thread is stated through its program counter, which spares
TLC from computing what would be applied in order to know that something would.

## 4. What the checks found

Four runs are marked `violation`; `PROJECT.json` quotes the sentences they
contradict.

1. **A stale snapshot undoes acknowledged commands** (`replay.rs:51`). Snapshots
   do not wait for the log. A crash may leave one ahead of it; recovery discards
   it and leaves the file. The same sequence numbers are then given to other
   commands, which are acknowledged. At the next restart the log has caught up
   with the old file and its state is used instead of theirs. Deleting a
   discarded snapshot, or writing one only when its number is durable, would
   restore the invariant. One restart is safe (`OneRestartIsSafe`); it takes two.
2. **A deposit before the opening moves the price clock** (`engine.rs:400`).
   `Open` resumes the clock at `state.now()`, the stamp of the last command
   applied. That is zero only if nothing was applied before. Collateral has to be
   posted before anybody can bid, and posting it is a command with a stamp: an
   engine started an hour early, with a deposit just before the opening, opens
   an hour down its schedule, which is what the comment above the line sets out
   to prevent. `Clock::start()` at that point is not a repair by itself: time
   would run backwards from `state.now()` and `apply` would clamp it.
3. **Traffic overtakes the tick of a window's boundary** (`engine.rs:492`).
   `next()` takes from the queue first and computes the deadline when the queue
   is empty, the opposite of what the module comment, the README and `slo.md`
   say. No bid is matched wrongly, since `apply` settles an elapsed window before
   anything newer (`WindowIsCurrent`); but the bid pays for the window. A resting
   bid can lose more: a take stamped after its trigger instant may exhaust supply
   before the tick, and the bid is rejected as `Unfilled`, which `lib.rs:49`
   explains as "the clock never reached its limit". No property of a passing run
   excludes that: `EndIsSettled` asks for an answer, and this is one.
4. **A limit below zero lifts its owner's ceiling** (`state.rs:601`). `on_bid`
   refuses a resting limit above the clock and no other, and `reserve` admits a
   negative cost. With a ceiling of 2, one unit resting at -2 takes `committed` to
   -2; a take of one unit at 3 is then covered; when the resting bid is withdrawn,
   3 is committed against 2. I9 in the words of `invariants.md` is broken when
   the take fills. Two bids near `i64::MIN` saturate `committed` (`state.rs:609`),
   and what they gave back later is not what they took. Refusing a negative limit
   in `on_bid` would restore I9. What holds without that is
   `OnlyNegativeHoldsOverrun`: no other step takes a debt above its ceiling.

Seen while modelling, without a run of their own:

- A snapshot ahead of an *empty* log is trusted (`replay.rs:51`): the guard looks
  at `records.last()`, which is `None`. The log written afterwards starts after
  the commands of the snapshot, and does not reproduce the auction by itself.
- The view published at start-up (`engine.rs:240`) shows everything recovered,
  synced or not, although `engine.rs:76` says that a view is written once its
  command is durable. A power failure before the next sync can take it back.
- The manifest is written in place (`wal.rs:322`). A crash in the middle leaves a
  directory that `recover` and `Wal::open` refuse for ever, while `recovery.md`
  says "Nothing to do"; a manifest that a kill left complete and unsynced is
  accepted by later starts and never synced.
- `requeue` is never called with anything to put back: a remainder exists only
  when its level exhausted the supply, and then the auction clears. If it were,
  two remainders of one level would swap places, as each is pushed to the front.
- The ladder's running total saturates (`ladder.rs:68`) while its bids do not. Bids
  with a limit of zero reserve nothing, so nothing bounds what rests; once the sum
  has passed `u64::MAX` the total is too small for good. Only tests read
  `total_qty()`.
- For a stepped schedule with neither step nor duration `price_at` is at the
  floor at once (`schedule.rs:93`) and `time_to_reach` never (`schedule.rs:132`):
  such an auction has no deadline and waits for the next command to end it.
- Nothing refuses a schedule with a floor below zero (`schedule.rs:46`). Under
  such a clock a bid may reserve below zero and pay a price that is lower still, a
  repricing may give back more than `i64` holds, and then `commit` clamps to
  `i64::MAX`, which with a negative price is the wrong end, and the `debug_assert`
  of `release` fires. The model has such clocks; the theorems about money exclude
  them by hypothesis.
- `Clock::resume` subtracts a duration from an `Instant` (`clock.rs:53`), which
  panics where the platform's epoch is younger than the auction.

Other sentences were found too strong while modelling, and the properties are
stated as the code keeps them:

- I9 bounds exposure by the posted ceiling, but `SetCollateral` may lower a
  ceiling below what is committed (`state.rs:187`). `ExposureGrowsWithinLimit`
  and `OnlyNegativeHoldsOverrun` are therefore about steps that raise a debt.
- `Outcome::Resting` is described as sitting in the ladder (`event.rs:65`), but a
  triggered bid keeps it while it waits in the window (`state.rs:356`).
  `OutcomeTellsWhere` allows for that.
- `Wal::open` counts what it can read as durable (`wal.rs:129`), synced or not,
  while `wal.rs:183` speaks of what survived a power loss. Nothing is
  acknowledged on the strength of it: new records are synced together with the
  old ones, and `ToldIsDurable` holds.
- `time_to_reach` for a zero step duration (`schedule.rs:139`) is later than the
  instant `price_at` gives. The run and the theorem are about steps that take
  time.

## 5. Proofs

The theorems hold for all values of the constants under named assumptions, which
TLC evaluates in its runs: `WidthsAssumption` (`i64` is narrower than `u64`),
`ClockAssumption`, `KeysAssumption` (finitely many keys), `NoneAssumption`,
`AuctionAssumption` (a well-formed schedule, quantities and times in `u64`,
prices, limits and ceilings in `i64`, of either sign),
`MatchLoopAssumption` (a key is its own rank of arrival; bids want at least one
unit), `LogAssumption` and `EngineAssumption` (queues and batches hold at least
one), `WalAssumption` (a segment holds at least one record, and no auction has the
name of a missing or torn manifest), and `EngineClockAssumption` (what is submitted is a command). The bounds of the
runs, such as `MaxSeq`, `MaxStarts` and `MaxSent`, are any natural numbers in the
proofs. What a theorem needs beyond that is a hypothesis of its own:
`FloorNotNegative` (`AmountsAlwaysFit`, `OverrunsAreNegativeHolds`),
`PricesNotNegative`, which adds the limits (`LedgerAlwaysBalances`,
`LedgerSurvivesRestarts`), `ScheduleEnds` (deadlines), `SnapshotsAgree` (copies) and
`RestingFits` (the ladder's total). Section 4 says what the code does without
them.

**Clock and matching.**

- `ClockDescends`: the price never rises, and stays between floor and start.
  The lemmas show that division, saturation and clamping are monotone.
- `TimeToReachEarliest`, `WindowPriceLowest`: rounding up finds exactly the first
  instant at or below a target, and the last instant of a window has its lowest
  price. The first needs steps that take time.
- `AllocationIsExact`: a window allocates exactly the lesser of supply and
  demand, nobody more than they asked for. It rests on sums over finite sets
  (the first part of `CoreTheorems`) and on the pro-rata argument: the floored shares leave fewer
  units than there are bids, and each share is below its request.
- `LoopAlwaysComputesAllocate`, `LoopAlwaysPlacesRemainder`,
  `LoopAlwaysRespectsPriority`: the loops compute that allocation, the
  `debug_assert` of `allocate` never fires, and who is served is who should be,
  for any window and supply. No induction over data is needed, because the
  loops are steps: the loop invariant (`LoopInv`) says that the bids before `i`
  have their final allocation and what they took is deducted, the ones from `j`
  on have nothing, and the level between has its floored shares, one unit more
  for each bid already passed, and as many units left as the rounding remainder
  less the bids passed (`Sharing`). `i` and `j` are always cuts between levels, so
  what lies between them is a level and what lies before is all that is above
  it. It rests on a sorted order existing (a bid's rank is the number of better
  ones), and on no bid of a marginal level being saturated by its floored share,
  so that the pass skips nobody.

**Auction.** Two inductive invariants, one on top of the other.

- `Kept` (`AlwaysKept`) gives `AuctionTypeCorrect`, `SupplyIsConserved` and
  `PriceIsUniform`. Conservation alone is not inductive. A window's allocation is
  exact only if arrival ranks are distinct and below the next one (`SeqsApart`),
  otherwise the remainder has no order, and if each waiting bid wants something
  (`Wanting`). Repricing keeps `UniformPrice` only if each outcome that quotes a
  fill belongs to one (`FillsTold`), since outcomes are requoted through the
  fills.
- `SafetyInv` (`AlwaysSafe`) adds what ties the pieces together: the outcome of a
  key says where its bid is (`Truthful`); a balance is in `i64` (`Bounded`); if the
  clock stays at or above zero, each amount that rests, waits or was filled fits
  it (`Fitting`), and if no limit is below zero either, what a participant has
  committed is the cost of their fills and waiting bids (`Ledger`), since a balance
  that starts within `i64` and only moves by amounts it covers never saturates; a
  window prices no bid above what it
  reserved at (`FairWindow`), and fills were made at prices not below the present
  one (`FillsAbove`), so that repricing only lowers; an auction that is over
  leaves nobody waiting, and one that is sold out is over; the window open is
  the one of `now` (`Timed`). From it follow six invariants of the runs
  (`OutcomesTellWhere`, `LedgerAlwaysBalances`, `AmountsAlwaysFit`,
  `WindowAlwaysCurrent`, `PriceIsProduced`, `EndsAreSettled`) and the
  action properties `LifeCycleHolds`, `AnswersAlwaysStand` and
  `OverrunsAreNegativeHolds`, which rest on a relation `Advances` between the
  states before and after each helper that is composed along a handler. For money
  it says that what a participant owes rises only within the ceiling or where a
  bid held below zero ends; a settled window keeps to that because each bid's
  release, charge and remainder are one exchange that raises no balance
  (`Settlement`, whose fold is unrolled once in `AuctionProofs`). There is one
  lemma per helper that changes the state and one step per command.

**Ladder.**

- `LadderImplementsAuction`: the composition refines `Auction`, so `SafetyInv` and
  all that follows from it holds beside the ladder.
- `LadderAlwaysMirrors`: the invariant (`LadderInv`). The levels that exist are
  exactly the limits bids rest at, and each queue holds exactly the bids of its
  limit, in strictly rising order of arrival (`Stores`). There is a lemma for each
  operation of `ladder.rs` and a step for each command, with the calls nested in
  its handler. An insertion keeps the order because an admitted bid is newer than
  all that rest (`SeqsApart`), a withdrawal finds one place only because keys are
  distinct, and `requeue` has nothing to put back, since a remainder is left only
  where the auction clears. From it `LadderAlwaysHoldsBids`,
  `LadderAlwaysKeepsPriority` and `NextTriggerAlwaysRests`.
- `LadderAlwaysHolds` adds the running total, for behaviours in which the units
  that rest always fit a `u64` (`RestingFits`); the hypothesis is needed, see 4.

**Engine clock and deadlines.**

- `NeverBackdated`: the reading of the clock is never behind the auction's time,
  and a restart resumes it there (`ClockInv`). No other hypothesis is needed.
- `EngineKeepsAuctionSafe`, `LedgerSurvivesRestarts`: `SafetyInv` holds with the
  engine's own ticks, late stamps and restarts, if the state the log begins with
  has it; `StartsAreSafe` says that a new auction has it and keeps it through
  deposits. The invariant (`RestartInv`) says it of the auction that runs and
  of the one a recovery would rebuild.
- `DeadlinesAreExact`, `DeadlinesExactAfterRestarts`: no tick before `deadline()`
  would change anything and the tick at it does, leaving nothing due. This needs
  `ScheduleEnds`: steps take time, prices are no further apart than `i64::MAX`, and
  the floor is reached more than a window before the end of `u64`. In the last window of `u64` a close saturates, and a
  tick there finds its window still open; and a schedule that jumps to its floor
  has no deadline for it (see 4).

**Log and engine.**

- `LogTypeCorrect`, `SyncedRecordsStay`: what `DurableLog` promises: no step of the
  log, a crash included, drops, changes or reorders a synced record.
- `WalImplementsDurableLog`: `Wal` keeps that promise, for every segment size and
  however often the process and the power fail; `WalSyncedStays` says it of the
  segments directly. Each action of `Wal` is an append, a sync, a loss of an
  unsynced tail, an opening or a stutter of `DurableLog`. The invariant (`WalInv`):
  only the last file may be torn or hold unsynced records (`WellFormed`), since a
  rotation syncs first and opening truncates; files and buffer together are
  numbered without gaps (`Consecutive`) and belong to the auction of the manifest
  (`OfAuction`); without a manifest there are no files; an open log's last
  file is not torn and its writer stands at the last record, and a closed one has
  no buffer. It rests on facts
  about `FlattenSeq`, whose recursion is unfolded in `WalProofs`. From it
  also `WalTypeCorrect`, `WalRecoveryAlwaysStarts` and `WalLogIsOfOneAuction`.
- `EngineAlwaysSound`: the invariant of the threads (`EngineInv`). Besides types it
  says that nothing is queued while the process is down, that every copy of the
  history is numbered without gaps, that what is on its way was applied, that
  the stop is the last message sent, that log, batch, queue and the record in
  hand follow each other (`Pipe`), and that a published mark covers only what is
  synced (`Covered`). From it `EngineTypeCorrect`, `ToldIsAlwaysDurable` and
  `NeverOutOfSequence`, through any failure, crash, restart and snapshot.
- `CopiesFollow`, `StateIsAlwaysLogged`, `ToldAlwaysSurvives`, `ZeroLossHolds`: the
  log and the standby's copy are beginnings of the auction (`FollowInv`), hence
  nothing told is lost. The code does not keep this by itself: `stale_snapshot`
  refutes it. The theorems say what is missing, and that nothing else is:
  `SnapshotsAgree`, that whenever a process may start, the snapshots it would
  trust begin the log. A snapshot may run ahead of the log while the process
  is up, and a crash may leave it ahead.
- `OneRestartIsSafe`: up to the first restart the hypothesis holds by itself,
  because all snapshots and the log are of one history (`OneHistory`). What has
  to be excluded is a snapshot beside an empty log, which the code trusts (see
  4). It takes two restarts to lose anything, as the run says.

Every invariant and every action property of the passing runs is stated by a
theorem. Only model-checked, and why:

- `MatchingEnds`, `AuctionEnds`, `CallersAnswered`, `ShutdownCompletes`: liveness
  under fairness, and `ENABLED`, are out of the prover's reach.
- The four sentences the code does not keep are refuted by their runs.

## 6. Not modelled

- The order of view and broadcast of one command, slow subscribers, metrics.
- The encoding of records, snapshots and the manifest, except whole, torn and
  unreadable.
- fsync of directories. The model takes a directory entry for safe once some of
  the file's contents are, and a manifest that can be read for safe.
- Formatting, serde and the making of identifiers.
- `auction-gateway`, `auction-projector` and `load`: placeholders without
  behaviour. Benches, tests and the crash harness.

## 7. Plan

1. Done: schedule, matching, auction, log, engine; first theorems.
2. Done: the engine's clock and deadlines, the stored ladder, the manifest, the
   end of every live auction, and the promise of the abstract log.
3. Done: the proofs of `Auction`'s remaining invariants and action properties, of
   `Engine`'s invariants, of `StampsNeverBackdated`, and of `DeadlineIsExact`.
4. Done: the proofs of `Wal`'s invariants and of its refinement of `DurableLog`, of
   the stored ladder, and of the matching loops.
5. Left: `OneRestartIsSafe` for a snapshot beside an empty log, whose history
   starts later than at zero.
