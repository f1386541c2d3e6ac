------------------------------ MODULE DurableLog ------------------------------
(***************************************************************************)
(* What the command log of auction-wal promises its callers (wal.rs): an   *)
(* append-only sequence of records of which a crash may take a tail, but   *)
(* never a record an fsync has covered.  Wal is the detailed log and is    *)
(* shown to implement this one; Engine is built on it.                     *)
(*                                                                         *)
(* Option<Seq> is an integer, NoSeq standing for None: both order None     *)
(* below every sequence number.                                            *)
(***************************************************************************)
EXTENDS Integers, Sequences

CONSTANTS
  Commands,  \* what a record carries, beside its sequence number
  MaxSeq     \* bound: the last sequence number a run hands out

ASSUME LogAssumption == MaxSeq \in Nat

VARIABLES
  log,      \* every record appended and not lost
  synced,   \* how many of them an fsync has covered
  durable,  \* what durable_seq() answers
  running   \* whether a Wal is open

logVars == <<log, synced, durable, running>>

NoSeq == -1
Record == [seq : 0..MaxSeq, cmd : Commands]

LastSeq(recs) == IF recs = <<>> THEN NoSeq ELSE recs[Len(recs)].seq

(* append refuses a record that leaves a gap; an empty log takes any. *)
Follows(prev, r) == prev = NoSeq \/ r.seq = prev + 1

LogInit ==
  /\ log = <<>> /\ synced = 0
  /\ durable = NoSeq /\ running = FALSE

(* Rolling to a new segment syncs what came before. *)
LogAppend(r) ==
  /\ running /\ Follows(LastSeq(log), r)
  /\ log' = Append(log, r)
  /\ synced' \in {synced, Len(log)}
  /\ UNCHANGED <<durable, running>>

LogSync ==
  /\ running
  /\ synced' = Len(log)
  /\ durable' = LastSeq(log)
  /\ UNCHANGED <<log, running>>

(* The process dies, the Wal is dropped or the power fails. *)
LogLose ==
  /\ \E n \in synced..Len(log) : log' = SubSeq(log, 1, n)
  /\ running' = FALSE /\ durable' = NoSeq
  /\ UNCHANGED synced

(* Cutting off a torn tail syncs the segment. *)
LogOpen ==
  /\ ~running
  /\ running' = TRUE /\ durable' = LastSeq(log)
  /\ synced' \in {synced, Len(log)}
  /\ UNCHANGED log

LogNext ==
  \/ \E r \in Record : LogAppend(r)
  \/ LogSync \/ LogLose \/ LogOpen

LogSpec == LogInit /\ [][LogNext]_logVars

-----------------------------------------------------------------------------
(* The log is a sequence of records of which some prefix is synced. *)
LogTypeOK == log \in Seq(Record) /\ synced \in 0..Len(log)

(***************************************************************************)
(* What an fsync has covered is there for ever (wal.rs:166-181, I6): no    *)
(* append, crash or reopening removes or replaces a record of the synced   *)
(* prefix, and the prefix never shrinks.                                   *)
(***************************************************************************)
SyncedStays ==
  [][/\ synced <= synced' /\ synced <= Len(log')
     /\ \A i \in 1..synced : log'[i] = log[i]]_logVars
=============================================================================
