-------------------------------- MODULE Engine --------------------------------
(***************************************************************************)
(* The threads around one auction's state machine and the process that     *)
(* runs them (engine.rs, commit.rs, ingress.rs, replication.rs, replay.rs, *)
(* snapshot.rs): the engine thread sequences and applies commands, the     *)
(* commit thread makes them durable in batches, the ack thread tells the   *)
(* world in order, the standby follows, snapshots are written aside, and   *)
(* the process crashes, shuts down and recovers.                           *)
(*                                                                         *)
(* Abstractions.  apply() is deterministic, so the auction state is the    *)
(* sequence of records applied to it, and a command is a model value that  *)
(* is submitted once.  Ticks are the commands nobody waits for; when one   *)
(* falls due is left to chance (EngineClock says when).  The log is        *)
(* DurableLog.  The view and the broadcast of one command are one act of   *)
(* telling the world; the view a process publishes as it starts, which     *)
(* shows all it recovered, does not count as telling.                      *)
(***************************************************************************)
EXTENDS DurableLog, FiniteSets

CONSTANTS
  Ticks,          \* the engine's own commands
  Ending,         \* commands that leave the auction in an end state
  QueueDepth,     \* EngineOptions.queue_depth
  SubmitDepth,    \* WalOptions.submit_queue_depth
  MaxBatch,       \* WalOptions.max_batch
  SnapshotEvery,  \* EngineOptions.snapshot_every
  Replication,    \* "None", "Async" or "Sync"
  MaxStarts       \* bound: how often a run starts the process

ASSUME EngineAssumption ==
  /\ Ticks \subseteq Commands /\ Ending \subseteq Commands
  /\ {QueueDepth, SubmitDepth, MaxBatch, SnapshotEvery} \subseteq Nat \ {0}
  /\ Replication \in {"None", "Async", "Sync"} /\ MaxStarts \in Nat

VARIABLES
  up,         \* the process is running
  caller,     \* what each command's submitter has been told
  ingress,    \* the bounded channel into the engine
  engine,     \* the engine thread
  commitQ,    \* the bounded channel into the commit thread
  commit,     \* the commit thread
  watermark,  \* the published durability mark
  ackQ,       \* commands applied, waiting for the ack thread
  ack,        \* the ack thread
  standby,    \* the replica and the channel to it
  snapper,    \* the snapshot thread and the channel to it
  snapshots,  \* the snapshot files
  stopping,   \* how far stop_all has come
  told,       \* the records whose effects somebody was shown
  starts      \* how often the process has been started

threadVars == <<ingress, engine, commitQ, commit, watermark, ackQ, ack, standby, snapper, stopping>>
vars == <<logVars, up, caller, threadVars, snapshots, told, starts>>

-----------------------------------------------------------------------------
(* The state of each thread when the process is down, and as it starts. *)

StopMsg == [seq |-> NoSeq]

DownEngine == [pc |-> "stopped", state |-> <<>>, next_seq |-> 0, rec |-> StopMsg,
               last_snapshot |-> 0, settled |-> FALSE]
DownCommit == [pc |-> "gone", batch |-> <<>>, then |-> "recv"]
DownAck == [pc |-> "gone", rec |-> StopMsg, lost |-> FALSE]
DownStandby == [pc |-> "recv", queue |-> <<>>, state |-> <<>>, confirmed |-> NoSeq, alive |-> FALSE]
IdleSnapper == [queue |-> <<>>, writing |-> <<>>]

AllDown ==
  /\ ingress' = <<>> /\ commitQ' = <<>> /\ ackQ' = <<>> /\ snapper' = IdleSnapper
  /\ engine' = DownEngine /\ commit' = DownCommit /\ ack' = DownAck
  /\ watermark' = [live |-> FALSE, durable |-> NoSeq]
  /\ standby' = DownStandby
  /\ stopping' = "no" /\ up' = FALSE

(* A reply channel that is dropped tells its caller "unknown". *)
Dropped(cmds) == [c \in Commands |-> IF c \in cmds THEN "unknown" ELSE caller[c]]
CommandsOf(recs) == {recs[i].cmd : i \in DOMAIN recs}

-----------------------------------------------------------------------------
(* The door: a command is queued, or shed without ever being executed. *)

Submit(c) ==
  /\ up /\ c \notin Ticks /\ caller[c] = "idle"
  /\ IF engine.pc # "stopped" /\ Len(ingress) < QueueDepth
     THEN ingress' = Append(ingress, c) /\ caller' = [caller EXCEPT ![c] = "waiting"]
     ELSE caller' = [caller EXCEPT ![c] = "shed"] /\ UNCHANGED ingress
  /\ UNCHANGED <<logVars, up, engine, commitQ, commit, watermark, ackQ, ack, standby,
                 snapper, snapshots, stopping, told, starts>>

-----------------------------------------------------------------------------
(* The engine thread. *)

engineRest == <<logVars, up, commit, watermark, ack, snapshots, stopping, told, starts>>

(* Stamp a command, apply it and stream it to the standby. *)
Take(c) ==
  LET r == [seq |-> engine.next_seq, cmd |-> c]
  IN  /\ engine.next_seq <= MaxSeq
      /\ engine' = [engine EXCEPT !.pc = "submit", !.rec = r, !.next_seq = @ + 1,
                                  !.state = Append(@, r)]
      /\ standby' = IF standby.alive THEN [standby EXCEPT !.queue = Append(@, r)]
                    ELSE standby

EngineTake ==
  /\ engine.pc \in {"next", "idle"} /\ ingress # <<>>
  /\ Take(Head(ingress))
  /\ ingress' = Tail(ingress)
  /\ UNCHANGED <<engineRest, caller, commitQ, ackQ, snapper>>

(* Neither a stop nor a command was seen: wait for a deadline or a command. *)
EngineIdle ==
  /\ engine.pc = "next" /\ ingress = <<>> /\ stopping = "no"
  /\ engine' = [engine EXCEPT !.pc = "idle"]
  /\ UNCHANGED <<engineRest, caller, ingress, commitQ, ackQ, standby, snapper>>

(* The park timed out: look again. *)
EngineWake ==
  /\ engine.pc = "idle"
  /\ engine' = [engine EXCEPT !.pc = "next"]
  /\ UNCHANGED <<engineRest, caller, ingress, commitQ, ackQ, standby, snapper>>

(* A deadline passed; a command or a stop may have arrived meanwhile. *)
EngineTick ==
  /\ engine.pc = "idle"
  /\ \E c \in Ticks :
       /\ caller[c] = "idle" /\ Take(c)
       /\ caller' = [caller EXCEPT ![c] = "waiting"]
  /\ UNCHANGED <<engineRest, ingress, commitQ, ackQ, snapper>>

(* The thread ends, and with it the channel it reads from. *)
EndEngine(lost) ==
  /\ engine' = [engine EXCEPT !.pc = "stopped"]
  /\ ingress' = <<>>
  /\ caller' = Dropped(lost \cup {ingress[i] : i \in DOMAIN ingress})
  /\ UNCHANGED <<engineRest, commitQ, ackQ, standby, snapper>>

(* Fault: the record is queued whether or not there is room. *)
EngineSubmitUnbounded ==
  /\ engine.pc = "submit" /\ commit.pc # "gone"
  /\ commitQ' = Append(commitQ, engine.rec)
  /\ engine' = [engine EXCEPT !.pc = "pending"]
  /\ UNCHANGED <<engineRest, caller, ingress, ackQ, standby, snapper>>

(* Committer::submit blocks while the queue is full. *)
EngineSubmit ==
  /\ engine.pc = "submit" /\ commit.pc # "gone" /\ Len(commitQ) < SubmitDepth
  /\ commitQ' = Append(commitQ, engine.rec)
  /\ engine' = [engine EXCEPT !.pc = "pending"]
  /\ UNCHANGED <<engineRest, caller, ingress, ackQ, standby, snapper>>

EngineSubmitFails ==
  /\ engine.pc = "submit" /\ commit.pc = "gone"
  /\ EndEngine({engine.rec.cmd})

EnginePending ==
  /\ engine.pc = "pending" /\ ack.pc # "gone"
  /\ ackQ' = Append(ackQ, engine.rec)
  /\ engine' = [engine EXCEPT !.pc = "snapshot"]
  /\ UNCHANGED <<engineRest, caller, ingress, commitQ, standby, snapper>>

EnginePendingFails ==
  /\ engine.pc = "pending" /\ ack.pc = "gone"
  /\ EndEngine({engine.rec.cmd})

Since == IF engine.rec.seq > engine.last_snapshot
         THEN engine.rec.seq - engine.last_snapshot ELSE 0

SnapshotDue ==
  \/ Since >= SnapshotEvery /\ ingress = <<>>
  \/ Since >= 4 * SnapshotEvery

(* The queue takes one snapshot; a full queue means try another time. *)
OfferSnapshot(due, settled, pc) ==
  LET offered == due /\ snapper.queue = <<>>
  IN  /\ snapper' = IF offered THEN [snapper EXCEPT !.queue = <<engine.state>>] ELSE snapper
      /\ engine' = [engine EXCEPT
           !.pc = pc,
           !.last_snapshot = IF offered THEN engine.rec.seq ELSE @,
           !.settled = @ \/ (offered /\ settled)]
      /\ UNCHANGED <<engineRest, caller, ingress, commitQ, ackQ, standby>>

EngineMaybeSnapshot ==
  /\ engine.pc = "snapshot"
  /\ OfferSnapshot(SnapshotDue, FALSE, "settle")

(* Once the auction is over, one snapshot makes a restart instant. *)
EngineSettle ==
  /\ engine.pc = "settle"
  /\ OfferSnapshot(CommandsOf(engine.state) \cap Ending # {} /\ ~engine.settled, TRUE, "next")

EngineStop ==
  /\ engine.pc = "next" /\ stopping # "no" /\ ingress = <<>>
  /\ EndEngine({})

EngineStep ==
  \/ EngineTake \/ EngineIdle \/ EngineWake \/ EngineTick \/ EngineSubmit \/ EngineSubmitFails \/ EnginePending
  \/ EnginePendingFails \/ EngineMaybeSnapshot \/ EngineSettle \/ EngineStop

-----------------------------------------------------------------------------
(* The commit thread. *)

commitRest == <<up, caller, ingress, engine, ackQ, ack, standby, snapper, snapshots,
                stopping, told, starts>>

IsStop(msg) == msg.seq = NoSeq

(* The messages numbered after `from`, in order; a stop is numbered NoSeq. *)
After(msgs, from) ==
  LET kept[n \in 0..Len(msgs)] ==
        IF n = 0 THEN <<>>
        ELSE IF msgs[n].seq > from THEN Append(kept[n - 1], msgs[n])
        ELSE kept[n - 1]
  IN  kept[Len(msgs)]

CommitRecv ==
  /\ commit.pc = "recv" /\ commitQ # <<>>
  /\ commitQ' = Tail(commitQ)
  /\ commit' = IF IsStop(Head(commitQ)) THEN [commit EXCEPT !.pc = "drain"]
               ELSE [commit EXCEPT !.pc = "gather", !.batch = <<Head(commitQ)>>]
  /\ UNCHANGED <<commitRest, logVars, watermark>>

(* Fault: a stop that arrives while lingering is swallowed. *)
CommitGatherSwallowing ==
  /\ commit.pc = "gather" /\ Len(commit.batch) < MaxBatch /\ commitQ # <<>>
  /\ commitQ' = Tail(commitQ)
  /\ commit' = IF IsStop(Head(commitQ)) THEN [commit EXCEPT !.pc = "write"]
               ELSE [commit EXCEPT !.batch = Append(@, Head(commitQ))]
  /\ UNCHANGED <<commitRest, logVars, watermark>>

CommitGather ==
  /\ commit.pc = "gather" /\ Len(commit.batch) < MaxBatch /\ commitQ # <<>>
  /\ commitQ' = Tail(commitQ)
  /\ commit' = IF IsStop(Head(commitQ)) THEN [commit EXCEPT !.pc = "write", !.then = "drain"]
               ELSE [commit EXCEPT !.batch = Append(@, Head(commitQ))]
  /\ UNCHANGED <<commitRest, logVars, watermark>>

(* The batch is full, or nothing more came before the linger ran out. *)
CommitLinger ==
  /\ commit.pc = "gather"
  /\ Len(commit.batch) = MaxBatch \/ commitQ = <<>>
  /\ commit' = [commit EXCEPT !.pc = "write"]
  /\ UNCHANGED <<commitRest, logVars, commitQ, watermark>>

CommitAppend ==
  /\ commit.pc = "write" /\ commit.batch # <<>>
  /\ LogAppend(Head(commit.batch))
  /\ commit' = [commit EXCEPT !.batch = Tail(@)]
  /\ UNCHANGED <<commitRest, commitQ, watermark>>

(* Fault: the mark is published though nothing was synced. *)
CommitWithoutSync ==
  /\ commit.pc = "write" /\ commit.batch = <<>>
  /\ durable' = LastSeq(log)
  /\ commit' = [commit EXCEPT !.pc = "publish"]
  /\ UNCHANGED <<commitRest, log, synced, running, commitQ, watermark>>

CommitSync ==
  /\ commit.pc = "write" /\ commit.batch = <<>>
  /\ LogSync
  /\ commit' = [commit EXCEPT !.pc = "publish"]
  /\ UNCHANGED <<commitRest, commitQ, watermark>>

(* Watermark::publish never moves the mark back. *)
CommitPublish ==
  /\ commit.pc = "publish"
  /\ watermark' = [watermark EXCEPT !.durable = IF @ >= durable THEN @ ELSE durable]
  /\ commit' = [commit EXCEPT !.pc = commit.then]
  /\ UNCHANGED <<commitRest, logVars, commitQ>>

(* After the stop: write whatever was queued before it. *)
CommitDrain ==
  /\ commit.pc = "drain"
  /\ LET leftovers == After(commitQ, NoSeq)
     IN  commit' = IF leftovers = <<>> THEN [commit EXCEPT !.pc = "close"]
                   ELSE [pc |-> "write", batch |-> leftovers, then |-> "close"]
  /\ commitQ' = <<>>
  /\ UNCHANGED <<commitRest, logVars, watermark>>

(* Watermark::close, and the end of the thread. *)
EndCommit ==
  /\ watermark' = [watermark EXCEPT !.live = FALSE]
  /\ commit' = DownCommit /\ commitQ' = <<>>
  /\ UNCHANGED commitRest

CommitClose ==
  /\ commit.pc = "close"
  /\ EndCommit
  /\ running' = FALSE /\ durable' = NoSeq /\ UNCHANGED <<log, synced>>

(* Fault: the writer dies without poisoning the waiters. *)
CommitFailsSilently ==
  /\ commit.pc = "write"
  /\ commit' = DownCommit /\ commitQ' = <<>>
  /\ LogLose
  /\ UNCHANGED <<commitRest, watermark>>

(* An append or a sync failed: poison every waiter and stop. *)
CommitFails ==
  /\ commit.pc = "write"
  /\ EndCommit
  /\ LogLose

CommitStep ==
  \/ CommitRecv \/ CommitGather \/ CommitLinger \/ CommitAppend \/ CommitSync
  \/ CommitPublish \/ CommitDrain \/ CommitClose

-----------------------------------------------------------------------------
(* The ack thread: one command at a time, in sequence order. *)

ackRest == <<logVars, up, ingress, engine, commitQ, commit, watermark, standby, snapper,
             snapshots, stopping, starts>>

AckRecv ==
  /\ ack.pc = "recv" /\ ackQ # <<>>
  /\ ack' = [ack EXCEPT !.pc = "durable", !.rec = Head(ackQ)]
  /\ ackQ' = Tail(ackQ)
  /\ UNCHANGED <<ackRest, caller, told>>

(* The engine has dropped its end of the channel and it is drained. *)
AckEnds ==
  /\ ack.pc = "recv" /\ ackQ = <<>> /\ engine.pc = "stopped"
  /\ ack' = [ack EXCEPT !.pc = "gone"]
  /\ UNCHANGED <<ackRest, ackQ, caller, told>>

(* wait_durable returns, live or closed, once the mark has reached it. *)
AckDurable ==
  /\ ack.pc = "durable" /\ watermark.durable >= ack.rec.seq
  /\ ack' = [ack EXCEPT !.pc = IF Replication = "Sync" /\ ~ack.lost THEN "replica" ELSE "tell"]
  /\ UNCHANGED <<ackRest, ackQ, caller, told>>

(* The log stopped short of it: drop every waiter from here on. *)
AckRefused ==
  /\ ack.pc = "durable" /\ ~watermark.live /\ watermark.durable < ack.rec.seq
  /\ ack' = [ack EXCEPT !.pc = "gone"]
  /\ ackQ' = <<>>
  /\ caller' = Dropped({ack.rec.cmd} \cup CommandsOf(ackQ))
  /\ UNCHANGED <<ackRest, told>>

AckConfirmed ==
  /\ ack.pc = "replica" /\ standby.confirmed >= ack.rec.seq
  /\ ack' = [ack EXCEPT !.pc = "tell"]
  /\ UNCHANGED <<ackRest, ackQ, caller, told>>

(* The timeout wins even over a confirmation that arrives with it. *)
AckTimeout ==
  /\ ack.pc = "replica"
  /\ ack' = [ack EXCEPT !.pc = "tell", !.lost = TRUE]
  /\ UNCHANGED <<ackRest, ackQ, caller, told>>

(* Publish the view and broadcast the events. *)
AckTell ==
  /\ ack.pc = "tell"
  /\ told' = told \cup {ack.rec}
  /\ ack' = [ack EXCEPT !.pc = "reply"]
  /\ UNCHANGED <<ackRest, ackQ, caller>>

(* Only then does the submitter get its own answer. *)
AckReply ==
  /\ ack.pc = "reply"
  /\ caller' = [caller EXCEPT ![ack.rec.cmd] = "acked"]
  /\ ack' = [ack EXCEPT !.pc = "recv"]
  /\ UNCHANGED <<ackRest, ackQ, told>>

AckStep ==
  \/ AckRecv \/ AckEnds \/ AckDurable \/ AckRefused \/ AckConfirmed \/ AckTimeout
  \/ AckTell \/ AckReply

-----------------------------------------------------------------------------
(* The standby. *)

standbyRest == <<logVars, up, caller, ingress, engine, commitQ, commit, watermark, ackQ,
                 ack, snapper, snapshots, stopping, told, starts>>

StandbyApply ==
  /\ standby.alive /\ standby.pc = "recv" /\ standby.queue # <<>>
  /\ standby' = [standby EXCEPT !.pc = "confirm", !.queue = Tail(@),
                                !.state = Append(@, Head(standby.queue))]
  /\ UNCHANGED standbyRest

(* Fault: a record is confirmed as soon as it is received. *)
StandbyConfirmsReceipt ==
  /\ standby.alive
  /\ IF standby.pc = "confirm" THEN standby' = [standby EXCEPT !.pc = "recv"]
     ELSE /\ standby.queue # <<>>
          /\ standby' = [standby EXCEPT !.confirmed = Head(standby.queue).seq]
  /\ UNCHANGED standbyRest

(* Confirm what has been applied; the mark never moves back. *)
StandbyConfirm ==
  /\ standby.alive /\ standby.pc = "confirm"
  /\ LET seq == LastSeq(standby.state)
     IN  standby' = [standby EXCEPT !.pc = "recv",
                                    !.confirmed = IF @ >= seq THEN @ ELSE seq]
  /\ UNCHANGED standbyRest

(* stop(): an empty queue is the only moment at which it stops. *)
StandbyStops ==
  /\ standby.alive /\ standby.pc = "recv" /\ standby.queue = <<>>
  /\ standby' = [standby EXCEPT !.alive = FALSE]
  /\ UNCHANGED standbyRest

(* The standby's machine fails, with records still on their way. *)
StandbyDies ==
  /\ standby.alive
  /\ standby' = [standby EXCEPT !.alive = FALSE, !.queue = <<>>]
  /\ UNCHANGED standbyRest

-----------------------------------------------------------------------------
(* The snapshot thread. *)

snapshotRest == <<logVars, up, caller, ingress, engine, commitQ, commit, watermark, ackQ,
                  ack, standby, stopping, told, starts>>

Newest(snaps) == CHOOSE s \in snaps : \A t \in snaps : LastSeq(t) <= LastSeq(s)

(***************************************************************************)
(* What prune(dir, 2) may leave: it removes all but the two newest, the    *)
(* newest of these first, until one cannot be removed or the process dies. *)
(***************************************************************************)
Pruned(snaps) ==
  LET Newer(s) == {t \in snaps : LastSeq(t) > LastSeq(s)}
      surplus == {s \in snaps : Cardinality(Newer(s)) >= 2}
  IN  {snaps \ gone : gone \in {D \in SUBSET surplus :
                                  \A s \in D : Newer(s) \cap surplus \subseteq D}}

SnapshotRecv ==
  /\ snapper.writing = <<>> /\ snapper.queue # <<>>
  /\ snapper' = [queue |-> <<>>, writing |-> snapper.queue]
  /\ UNCHANGED <<snapshotRest, snapshots>>

(* Written aside, synced and renamed over any snapshot of the same number; *)
(* then older ones are pruned.                                             *)
SnapshotWrite ==
  /\ snapper.writing # <<>>
  /\ LET s == Head(snapper.writing)
     IN  snapshots' \in Pruned({t \in snapshots : LastSeq(t) # LastSeq(s)} \cup {s})
  /\ snapper' = [snapper EXCEPT !.writing = <<>>]
  /\ UNCHANGED snapshotRest

SnapshotFails ==
  /\ snapper.writing # <<>>
  /\ snapper' = [snapper EXCEPT !.writing = <<>>]
  /\ UNCHANGED <<snapshotRest, snapshots>>

SnapshotStep == SnapshotRecv \/ SnapshotWrite \/ SnapshotFails

-----------------------------------------------------------------------------
(* stop_all: the engine, then the log, then the acknowledgements. *)

stopRest == <<logVars, up, caller, ingress, engine, commit, watermark, ackQ, ack, standby,
              snapper, snapshots, told, starts>>

RequestStop ==
  /\ up /\ stopping = "no"
  /\ stopping' = "engine"
  /\ UNCHANGED <<stopRest, commitQ>>

(* The engine is joined; the stop message queues behind its records. *)
SendStop ==
  /\ stopping = "engine" /\ engine.pc = "stopped"
  /\ \/ commit.pc = "gone" /\ UNCHANGED commitQ
     \/ /\ commit.pc # "gone" /\ Len(commitQ) < SubmitDepth
        /\ commitQ' = Append(commitQ, StopMsg)
  /\ stopping' = "commit"
  /\ UNCHANGED stopRest

JoinCommit ==
  /\ stopping = "commit" /\ commit.pc = "gone"
  /\ stopping' = "acks"
  /\ UNCHANGED <<stopRest, commitQ>>

(* The acks are joined and the process exits. *)
JoinAcks ==
  /\ stopping = "acks" /\ ack.pc = "gone"
  /\ AllDown
  /\ UNCHANGED <<logVars, caller, snapshots, told, starts>>

StopStep == SendStop \/ JoinCommit \/ JoinAcks

-----------------------------------------------------------------------------
(* Crash and recovery. *)

Crash ==
  /\ up
  /\ LogLose /\ AllDown
  /\ caller' = Dropped({c \in Commands : caller[c] = "waiting"})
  /\ UNCHANGED <<snapshots, told, starts>>

(***************************************************************************)
(* latest_usable and its use: of the snapshots that load, the newest one,  *)
(* unless the log ends before it.  An empty log ends before nothing.       *)
(***************************************************************************)
Base(readable) ==
  IF readable = {} THEN <<>>
  ELSE LET s == Newest(readable)
       IN  IF log # <<>> /\ LastSeq(log) < LastSeq(s) THEN <<>> ELSE s

(* Fault: replay resumes one record too late. *)
ReplayedLate(from) == After(log, from + 1)

Replayed(from) == After(log, from)

(* Fault: the sequencer resumes at the last number used. *)
NextSeqReused(recs) == IF recs = <<>> THEN 0 ELSE LastSeq(recs)

NextSeq(recs) == IF recs = <<>> THEN 0 ELSE LastSeq(recs) + 1

(* open_inner: recover, open the log and start the threads. *)
Recover ==
  /\ ~up /\ starts < MaxStarts
  /\ starts' = starts + 1
  /\ \E readable \in SUBSET snapshots :
       LET base == Base(readable)
           tail == Replayed(LastSeq(base))
           state == base \o tail
       IN  /\ tail # <<>> => Follows(LastSeq(base), Head(tail))
           /\ engine' = [DownEngine EXCEPT !.pc = "next", !.state = state,
                            !.next_seq = NextSeq(state), !.last_snapshot = NextSeq(state)]
           /\ standby' = IF Replication = "None" THEN DownStandby
                         ELSE [DownStandby EXCEPT !.state = state, !.alive = TRUE]
  /\ LogOpen
  /\ watermark' = [live |-> TRUE, durable |-> LastSeq(log)]
  /\ commit' = [DownCommit EXCEPT !.pc = "recv"]
  /\ ack' = [DownAck EXCEPT !.pc = "recv"]
  /\ up' = TRUE
  /\ UNCHANGED <<caller, ingress, commitQ, ackQ, snapper, snapshots, stopping, told>>

-----------------------------------------------------------------------------
(* The process has not been started yet, on an empty directory. *)
Init ==
  /\ LogInit
  /\ up = FALSE
  /\ caller = [c \in Commands |-> "idle"]
  /\ ingress = <<>> /\ commitQ = <<>> /\ ackQ = <<>> /\ snapper = IdleSnapper
  /\ engine = DownEngine /\ commit = DownCommit /\ ack = DownAck /\ standby = DownStandby
  /\ watermark = [live |-> FALSE, durable |-> NoSeq]
  /\ snapshots = {} /\ stopping = "no" /\ told = {} /\ starts = 0

Next ==
  \/ \E c \in Commands : Submit(c)
  \/ EngineStep \/ CommitStep \/ CommitFails \/ AckStep
  \/ StandbyApply \/ StandbyConfirm \/ StandbyStops \/ StandbyDies
  \/ SnapshotStep
  \/ RequestStop \/ StopStep
  \/ Crash \/ Recover

Spec == Init /\ [][Next]_vars

(* Every thread of a live process is scheduled, and a join returns once   *)
(* its thread has ended.  Nobody is obliged to submit, to stop, to fail,   *)
(* to crash or to restart.                                                 *)
Fairness ==
  /\ WF_vars(EngineStep) /\ WF_vars(CommitStep) /\ WF_vars(AckStep)
  /\ WF_vars(StandbyApply \/ StandbyConfirm)
  /\ WF_vars(SnapshotStep)
  /\ WF_vars(StopStep)

FairSpec == Spec /\ Fairness

-----------------------------------------------------------------------------
(* Properties. *)

Msg == Record \cup {StopMsg}

(* Every queue is bounded by its depth: a full commit queue stalls the     *)
(* engine and a full ingress sheds (commit.rs:137-152, ingress.rs:80-96).  *)
TypeOK ==
  /\ log \in Seq(Record) /\ synced \in 0..Len(log)
  /\ {durable, watermark.durable, standby.confirmed} \subseteq NoSeq..MaxSeq
  /\ {running, up, watermark.live, standby.alive, ack.lost, engine.settled} \subseteq BOOLEAN
  /\ caller \in [Commands -> {"idle", "waiting", "shed", "acked", "unknown"}]
  /\ ingress \in Seq(Commands) /\ Len(ingress) <= QueueDepth
  /\ commitQ \in Seq(Msg) /\ Len(commitQ) <= SubmitDepth
  /\ commit.batch \in Seq(Record)
  /\ Len(commit.batch) <= MaxBatch \/ commit.then = "close"
  /\ ackQ \in Seq(Record) /\ standby.queue \in Seq(Record)
  /\ engine.state \in Seq(Record) /\ standby.state \in Seq(Record)
  /\ engine.next_seq \in 0..(MaxSeq + 1) /\ {engine.rec, ack.rec} \subseteq Msg
  /\ snapper \in [queue : Seq(Seq(Record)), writing : Seq(Seq(Record))]
  /\ Len(snapper.queue) <= 1 /\ snapshots \subseteq Seq(Record)
  /\ told \subseteq Record /\ starts \in 0..MaxStarts

(* I6, docs/invariants.md: nothing is shown to anybody before an fsync has *)
(* covered it (commit.rs:329-339, engine.rs:607-675), whatever fails, and  *)
(* nobody has an answer to what the public record does not show yet        *)
(* (engine.rs:657-659).                                                    *)
ToldIsDurable ==
  /\ told \subseteq {log[i] : i \in 1..synced}
  /\ \A c \in Commands : caller[c] = "acked" => c \in {r.cmd : r \in told}

(* I6: what somebody was shown is still part of the auction after every    *)
(* crash and recovery (replay.rs:36-105).                                  *)
ToldSurvives == up => told \subseteq {engine.state[i] : i \in DOMAIN engine.state}

(* I5: the log reproduces the running auction: it holds the commands       *)
(* applied, in order, and nothing else (engine.rs:409-425, replay.rs).     *)
StateIsLogged ==
  up => Len(log) <= Len(engine.state) /\ log = SubSeq(engine.state, 1, Len(log))

(* I4: no replica of the state machine is ever handed a command out of     *)
(* sequence, so the assertion in apply never fires (state.rs:165-175).     *)
InSequence(state, seq) == state = <<>> \/ seq = LastSeq(state) + 1
SequencerNeverPanics ==
  /\ up => InSequence(engine.state, engine.next_seq)
  /\ standby.alive /\ standby.queue # <<>> =>
       InSequence(standby.state, Head(standby.queue).seq)

(* While synchronous replication has not been given up, the standby has    *)
(* applied all that anybody was shown (docs/slo.md; engine.rs:629-648).    *)
ZeroLoss ==
  Replication = "Sync" /\ up /\ ~ack.lost =>
    told \subseteq {standby.state[i] : i \in DOMAIN standby.state}

(* Nobody waits for ever: a submitter is answered, or learns that the      *)
(* outcome is unknown, even when the log fails (commit.rs:82-96).          *)
CallersAnswered ==
  \A c \in Commands \ Ticks : caller[c] = "waiting" ~> caller[c] # "waiting"

(* stop_all returns: no join waits on a thread that waits on another       *)
(* (engine.rs:323-334, commit.rs:212-222).                                 *)
ShutdownCompletes == stopping = "engine" ~> ~up
=============================================================================
