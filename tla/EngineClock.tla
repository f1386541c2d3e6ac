----------------------------- MODULE EngineClock -----------------------------
(***************************************************************************)
(* The engine thread and its clock around the auction itself (run() and    *)
(* next() of engine.rs, clock.rs): when a command is taken, when the       *)
(* engine ticks by itself, what time each is stamped with, and how auction *)
(* time survives a restart.  Engine models the other threads and treats    *)
(* the auction as a list of commands; this module does the opposite.       *)
(*                                                                         *)
(* Abstractions.  `clock` is what Clock::now() would answer; real time is  *)
(* Advance.  Spinning and parking are one state of waiting.  The log is    *)
(* the auction state it reproduces, as of the last record that is safe.    *)
(***************************************************************************)
EXTENDS Deadlines, Sequences

CONSTANTS
  Submissions,  \* the commands clients and operators submit, once each
  AtStart,      \* the auction the log holds when the run begins
  QueueDepth,   \* EngineOptions.queue_depth
  MaxReading,   \* bound: the last reading of the clock
  MaxSent,      \* bound: how many commands a run submits
  MaxStarts     \* bound: how often a run starts the process

(* Command, as clients and operators submit it; a tick is the engine's own. *)
Command ==
  [cmd : {"Open", "Cancel"}]
    \cup [cmd : {"SetCollateral"}, participant : Participants, limit : I64]
    \cup [cmd : {"SubmitTake"}, participant : Participants, key : Keys, qty : U64,
          expected_price : I64]
    \cup [cmd : {"SubmitResting"}, participant : Participants, key : Keys, qty : U64,
          limit : Limits]
    \cup [cmd : {"CancelResting"}, participant : Participants, key : Keys]

ASSUME EngineClockAssumption ==
  /\ Submissions \subseteq Command /\ AtStart \in AuctionState
  /\ MaxReading \in U64 /\ {QueueDepth, MaxSent, MaxStarts} \subseteq Nat

VARIABLES
  clock,    \* the reading of Engine.clock
  ingress,  \* the channel into the engine
  engine,   \* where the engine thread is, and the command it holds
  logged,   \* the auction a recovery would rebuild
  sent,     \* the commands submitted so far
  starts

vars == <<auction, clock, ingress, engine, logged, sent, starts>>

TickCmd == [cmd |-> "Tick"]
Idle == [pc |-> "next", cmd |-> TickCmd]

(* Fault: the clock of a restarted process reads zero. *)
ResumeAtZero(elapsed) == 0

(* Clock::resume: the reading continues at the elapsed time given. *)
Resume(elapsed) == elapsed

ClockInit ==
  /\ auction = AtStart /\ logged = AtStart /\ clock = Resume(AtStart.now)
  /\ ingress = <<>> /\ engine = Idle /\ sent = {} /\ starts = 1

-----------------------------------------------------------------------------
(* Time passes, and commands arrive; a full queue sheds. *)

Advance ==
  /\ clock < MaxReading
  /\ clock' = clock + 1
  /\ UNCHANGED <<auction, ingress, engine, logged, sent, starts>>

Submit(c) ==
  /\ c \notin sent /\ Cardinality(sent) < MaxSent
  /\ sent' = sent \cup {c}
  /\ ingress' = IF Len(ingress) < QueueDepth THEN Append(ingress, c) ELSE ingress
  /\ UNCHANGED <<auction, clock, engine, logged, starts>>

-----------------------------------------------------------------------------
(* next(): what the engine does next. *)

IsDue == \E due \in DeadlineOf(auction) : clock >= due

(* An Open that will open the auction restarts the clock. *)
ReadingFor(c) ==
  IF c.cmd = "Open" /\ auction.status = "Pending" THEN Resume(auction.now) ELSE clock

(* A command that is queued is taken, whatever else is due. *)
EngineTake ==
  /\ engine.pc \in {"next", "wait"} /\ ingress # <<>>
  /\ engine' = [pc |-> "apply", cmd |-> Head(ingress)]
  /\ ingress' = Tail(ingress)
  /\ clock' = ReadingFor(Head(ingress))
  /\ UNCHANGED <<auction, logged, sent, starts>>

EngineWait ==
  /\ engine.pc = "next" /\ ingress = <<>>
  /\ engine' = [engine EXCEPT !.pc = "wait"]
  /\ UNCHANGED <<auction, clock, ingress, logged, sent, starts>>

(* Spun once, or parked and timed out: look again. *)
EngineWake ==
  /\ engine.pc = "wait" /\ ~IsDue
  /\ engine' = [engine EXCEPT !.pc = "next"]
  /\ UNCHANGED <<auction, clock, ingress, logged, sent, starts>>

EngineTick ==
  /\ engine.pc = "wait" /\ IsDue
  /\ engine' = [pc |-> "apply", cmd |-> TickCmd]
  /\ UNCHANGED <<auction, clock, ingress, logged, sent, starts>>

(* Read the clock once, and apply the command at that time. *)
Apply(c, ts) ==
  \/ c.cmd = "Open" /\ Open(ts)
  \/ c.cmd = "SetCollateral" /\ SetCollateral(ts, c.participant, c.limit)
  \/ c.cmd = "SubmitTake" /\ SubmitTake(ts, c.participant, c.key, c.qty, c.expected_price)
  \/ c.cmd = "SubmitResting" /\ SubmitResting(ts, c.participant, c.key, c.qty, c.limit)
  \/ c.cmd = "CancelResting" /\ CancelResting(ts, c.participant, c.key)
  \/ c.cmd = "Tick" /\ Tick(ts)
  \/ c.cmd = "Cancel" /\ Cancel(ts)

EngineApply ==
  /\ engine.pc = "apply"
  /\ Apply(engine.cmd, clock)
  /\ engine' = Idle
  /\ UNCHANGED <<clock, ingress, logged, sent, starts>>

EngineStep == EngineTake \/ EngineWait \/ EngineWake \/ EngineTick \/ EngineApply

-----------------------------------------------------------------------------
(* The commit thread catches up with the engine; after the last start of a *)
(* run nobody reads the log again.                                         *)
Persist ==
  /\ logged # auction /\ starts < MaxStarts
  /\ logged' = auction
  /\ UNCHANGED <<auction, clock, ingress, engine, sent, starts>>

(* The process dies and is started again on what the log reproduces. *)
Restart ==
  /\ starts < MaxStarts
  /\ auction' = logged
  /\ clock' = Resume(logged.now)
  /\ ingress' = <<>> /\ engine' = Idle /\ starts' = starts + 1
  /\ UNCHANGED <<logged, sent>>

ClockNext ==
  \/ Advance \/ (\E c \in Submissions : Submit(c))
  \/ EngineStep \/ Persist \/ Restart

ClockSpec == ClockInit /\ [][ClockNext]_vars

(* A step of the engine thread.  Applying is told by its program counter,  *)
(* which spares TLC from computing what would be applied; of the steps     *)
(* that keep `starts`, only EngineApply leaves "apply".                    *)
EngineRuns ==
  \/ EngineTake \/ EngineWait \/ EngineWake \/ EngineTick
  \/ engine.pc = "apply" /\ engine' = Idle /\ UNCHANGED starts

(* Time passes and the engine thread is scheduled.  Submissions are        *)
(* finite, so the queue is empty now and then: see TickBeforeTraffic.      *)
FairClockSpec == ClockSpec /\ WF_clock(Advance) /\ WF_engine(EngineRuns)

-----------------------------------------------------------------------------
(* Properties. *)

(***************************************************************************)
(* No command is stamped before one already applied (clock.rs:10-15):      *)
(* apply() would silently keep the later time, and a bid would be priced   *)
(* at an instant other than its own.  The Open that restarts the clock     *)
(* and every recovery keep the reading at or after the auction's time.     *)
(***************************************************************************)
StampsNeverBackdated == clock >= auction.now

(***************************************************************************)
(* A live auction ends (engine.rs:567-570, invariant I10): with nobody     *)
(* bidding, whatever is resting or waiting in a window and however often   *)
(* the process restarts, the engine ticks it to its floor and clears it,   *)
(* unless it is cancelled or sold out before.                              *)
(***************************************************************************)
AuctionEnds == auction.status = "Live" ~> auction.status # "Live"

-----------------------------------------------------------------------------
(* What the documentation says and the code does not do. *)

(***************************************************************************)
(* Open defines elapsed zero (engine.rs:395-398): the price clock starts   *)
(* when the auction opens.                                                 *)
(***************************************************************************)
OpenDefinesZero ==
  [][auction.status = "Pending" /\ EngineTake /\ engine'.cmd.cmd = "Open" => clock' = 0]_vars

(***************************************************************************)
(* Before taking anything from the queue the engine checks whether the     *)
(* window's boundary has passed, and if so ticks (engine.rs:29-33).        *)
(***************************************************************************)
TickBeforeTraffic ==
  [][engine.pc = "next" /\ EngineTake => \A due \in WindowDue(auction) : clock < due]_vars
=============================================================================
