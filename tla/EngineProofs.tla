----------------------------- MODULE EngineProofs -----------------------------
(***************************************************************************)
(* What the engine's threads promise, for any number of commands, crashes  *)
(* and restarts, any depth of the queues and any batch size: nothing is    *)
(* told before an fsync has covered it, no replica is handed a command out *)
(* of sequence and, as long as no start trusts a snapshot that disagrees   *)
(* with the log, the log reproduces the auction, with all that anybody was *)
(* told.  Up to the first restart no start does, unless the log is empty.  *)
(***************************************************************************)
EXTENDS Engine, FiniteSetTheorems, WellFoundedInduction, TLAPS

-----------------------------------------------------------------------------
(* Induction, with the set of its witnesses for the predicate. *)

(* A set that contains 0 and is closed under successor contains Nat. *)
LEMMA NatSetInduction ==
  ASSUME NEW G, 0 \in G, \A n \in Nat : n \in G => n + 1 \in G
  PROVE  Nat \subseteq G
<1>1. SUFFICES ASSUME ~(Nat \subseteq G) PROVE FALSE
  OBVIOUS
<1> DEFINE Bad == Nat \ G
           R == OpToRel(<, Nat)
<1>2. Bad \subseteq Nat /\ Bad # {}
  BY <1>1
<1>3. IsWellFoundedOn(R, Nat)
  BY NatLessThanWellFounded
<1>4. \A m, k \in Nat : m < k => <<m, k>> \in R
  BY Zenon DEF OpToRel
<1> HIDE DEF R
<1>5. PICK n \in Bad : \A m \in Bad : <<m, n>> \notin R
  <2> HIDE DEF Bad
  <2> QED BY <1>2, <1>3, WFMin
<1>6. n \in Nat /\ n # 0 /\ n - 1 \in Nat /\ n - 1 < n /\ (n - 1) + 1 = n
  BY <1>5
<1>7. n - 1 \in G
  BY <1>4, <1>5, <1>6
<1> QED BY <1>5, <1>6, <1>7

-----------------------------------------------------------------------------
(* The inductive invariant, part by part. *)

EnginePcs == {"stopped", "next", "idle", "submit", "pending", "snapshot", "settle"}
CommitPcs == {"gone", "recv", "gather", "write", "publish", "drain", "close"}
AckPcs == {"gone", "recv", "durable", "replica", "tell", "reply"}

EngineState ==
  [pc : EnginePcs, state : Seq(Record), next_seq : 0..(MaxSeq + 1), rec : Msg,
   last_snapshot : Int, settled : BOOLEAN]
CommitState == [pc : CommitPcs, batch : Seq(Record), then : {"recv", "drain", "close"}]
AckState == [pc : AckPcs, rec : Msg, lost : BOOLEAN]
StandbyState ==
  [pc : {"recv", "confirm"}, queue : Seq(Record), state : Seq(Record),
   confirmed : NoSeq..MaxSeq, alive : BOOLEAN]

(* The types, thread by thread: TypeOK, with the shape of every record and *)
(* the program counters at which a thread holds a command.                 *)
LogShape ==
  /\ log \in Seq(Record) /\ synced \in 0..Len(log)
  /\ durable \in NoSeq..MaxSeq /\ running \in BOOLEAN
ProcessShape ==
  /\ up \in BOOLEAN /\ told \subseteq Record /\ starts \in 0..MaxStarts
  /\ caller \in [Commands -> {"idle", "waiting", "shed", "acked", "unknown"}]
  /\ stopping \in {"no", "engine", "commit", "acks"}
IngressShape == ingress \in Seq(Commands) /\ Len(ingress) <= QueueDepth
EngineShape ==
  /\ engine \in EngineState
  /\ engine.pc \in {"submit", "pending", "snapshot", "settle"} => engine.rec \in Record
QueueShape == commitQ \in Seq(Msg) /\ Len(commitQ) <= SubmitDepth
CommitShape ==
  /\ commit \in CommitState
  /\ Len(commit.batch) <= MaxBatch \/ commit.then = "close"
MarkShape == watermark \in [live : BOOLEAN, durable : NoSeq..MaxSeq]
AckShape ==
  /\ ackQ \in Seq(Record) /\ ack \in AckState
  /\ ack.pc \in {"durable", "replica", "tell", "reply"} => ack.rec \in Record
StandbyShape == standby \in StandbyState
SnapperShape ==
  /\ snapper \in [queue : Seq(Seq(Record)), writing : Seq(Seq(Record))]
  /\ Len(snapper.queue) <= 1
SnapshotShape == snapshots \subseteq Seq(Record)

Shapes ==
  /\ LogShape /\ ProcessShape /\ IngressShape /\ EngineShape /\ QueueShape /\ CommitShape
  /\ MarkShape /\ AckShape /\ StandbyShape /\ SnapperShape /\ SnapshotShape

(* Nothing is queued and nobody runs while the process is down. *)
Downs ==
  ~up => /\ ingress = <<>> /\ commitQ = <<>> /\ ackQ = <<>> /\ snapper = IdleSnapper
         /\ engine = DownEngine /\ commit = DownCommit /\ ack = DownAck
         /\ standby = DownStandby /\ stopping = "no"

Recs(s) == {s[i] : i \in 1..Len(s)}

(* The records of s are numbered one after the other. *)
Numbered(s) == \A i \in 1..Len(s) : s[i].seq = (LastSeq(s) - Len(s)) + i

(* Every copy of the history is numbered without a gap, and the sequencer  *)
(* and the standby's channel go on where it ends.                          *)
Numbers ==
  /\ Numbered(log) /\ \A s \in snapshots : Numbered(s)
  /\ \A i \in 1..Len(snapper.queue) : Numbered(snapper.queue[i])
  /\ \A i \in 1..Len(snapper.writing) : Numbered(snapper.writing[i])
  /\ Numbered(engine.state)
  /\ engine.state # <<>> => engine.next_seq = LastSeq(engine.state) + 1
  /\ standby.alive =>
       /\ \A i \in 1..Len(standby.queue) :
            standby.queue[i].seq = (engine.next_seq - Len(standby.queue)) + (i - 1)
       /\ standby.state # <<>> =>
            LastSeq(standby.state) = engine.next_seq - Len(standby.queue) - 1

(* The commands applied and not yet refused or found durable: they are     *)
(* queued for the ack thread, or about to be.                              *)
Pending ==
  Recs(ackQ) \cup {r \in {ack.rec} : ack.pc = "durable"}
             \cup {r \in {engine.rec} : engine.pc = "pending"}

(* Whatever is on its way was applied. *)
Members ==
  /\ Recs(commit.batch) \subseteq Recs(engine.state)
  /\ \A i \in 1..Len(commitQ) : IsStop(commitQ[i]) \/ commitQ[i] \in Recs(engine.state)
  /\ Pending \subseteq Recs(engine.state)
  /\ engine.pc = "submit" =>
       engine.rec \in Recs(engine.state) /\ engine.rec.seq = engine.next_seq - 1

StopSeen == commit.pc \in {"drain", "close"} \/ commit.then # "recv"

(* The stop is the last message the commit thread is ever sent, and its    *)
(* batch is empty but while it gathers and writes.                         *)
Stops ==
  /\ \A i \in 1..Len(commitQ) :
       IsStop(commitQ[i]) => i = Len(commitQ) /\ stopping \in {"commit", "acks"}
  /\ StopSeen => commitQ = <<>> /\ stopping \in {"commit", "acks"}
  /\ stopping \in {"commit", "acks"} => engine.pc = "stopped"
  /\ commit.pc \in {"recv", "gather"} => commit.then = "recv"
  /\ commit.pc \notin {"gather", "write"} => commit.batch = <<>>

(***************************************************************************)
(* The log, the batch, the commit queue and the record being submitted     *)
(* follow each other without a gap; f is the first number not yet          *)
(* appended, and both marks are below it.                                  *)
(***************************************************************************)
PipeAt(f) ==
  /\ log # <<>> => LastSeq(log) = f - 1
  /\ \A i \in 1..Len(commit.batch) : commit.batch[i].seq = f + (i - 1)
  /\ \A i \in 1..Len(commitQ) :
       IsStop(commitQ[i]) \/ commitQ[i].seq = f + Len(commit.batch) + (i - 1)
  /\ engine.pc # "stopped" =>
       (IF engine.pc = "submit" THEN engine.rec.seq ELSE engine.next_seq)
         = f + Len(commit.batch) + Len(commitQ)
  /\ durable < f /\ watermark.durable < f
  /\ \A r \in Pending : r \in Recs(log) \/ r.seq >= f

Pipe == commit.pc # "gone" => \E f \in Nat : PipeAt(f)

Synced == {log[i] : i \in 1..synced}

(* What the published mark covers is synced. *)
Covered ==
  /\ \A r \in Pending : r.seq <= watermark.durable => r \in Synced
  /\ commit.pc = "publish" => \A r \in Pending : r.seq <= durable => r \in Synced
  /\ ack.pc \in {"replica", "tell"} => ack.rec \in Synced
  /\ ack.pc = "reply" => ack.rec \in told
  /\ ToldIsDurable

EngineInv == Shapes /\ Downs /\ Numbers /\ Members /\ Stops /\ Pipe /\ Covered

-----------------------------------------------------------------------------
(* The invariant while every snapshot that a start trusts agrees with the log. *)

Prefix(s, t) == Len(s) <= Len(t) /\ \A i \in 1..Len(s) : s[i] = t[i]

(* A starting process trusts a snapshot unless the log ends before it.     *)
Trusted(s) == log = <<>> \/ LastSeq(s) <= LastSeq(log)

(* Whenever a process may start, the snapshots it trusts begin the log.    *)
SnapshotsAgree == ~up => \A s \in snapshots : Trusted(s) => Prefix(s, log)

(* The log is a prefix of the auction, numbered from zero. *)
LogLeads ==
  /\ \A i \in 1..Len(log) : log[i].seq = i - 1
  /\ engine.next_seq = Len(engine.state)
  /\ up => Prefix(log, engine.state)
  /\ commit.pc # "gone" => PipeAt(Len(log))

(* The standby's copy is a prefix of the auction too, its channel holds    *)
(* the rest, and it has confirmed no more than it holds.                   *)
StandbyCopies ==
  /\ Prefix(standby.state, engine.state)
  /\ standby.alive =>
       /\ Len(standby.state) + Len(standby.queue) = Len(engine.state)
       /\ \A i \in 1..Len(standby.queue) :
            standby.queue[i] = engine.state[Len(standby.state) + i]
  /\ standby.confirmed < Len(standby.state)

(* What the ack thread told or is about to tell, the standby holds. *)
StandbyKnows ==
  /\ Replication = "Sync" /\ up /\ ~ack.lost =>
       /\ told \subseteq Recs(standby.state)
       /\ ack.pc \in {"tell", "reply"} => ack.rec \in Recs(standby.state)
  /\ ack.pc = "replica" => ack.rec \in Recs(engine.state)

FollowInv == LogLeads /\ StandbyCopies /\ StandbyKnows

-----------------------------------------------------------------------------
(* The filter behind a replay and a drain. *)

(* kept is the running filter of the first m messages. *)
Filters(kept, msgs, from, m) ==
  kept = [n \in 0..m |-> IF n = 0 THEN <<>>
                         ELSE IF msgs[n].seq > from THEN Append(kept[n - 1], msgs[n])
                         ELSE kept[n - 1]]

LEMMA FilterExists ==
  ASSUME NEW msgs, NEW from
  PROVE  \A m \in Nat : \E kept : Filters(kept, msgs, from, m)
<1> DEFINE G == {m \in Nat : \E kept : Filters(kept, msgs, from, m)}
<1>1. 0 \in G
  <2> DEFINE k0 == [n \in 0..0 |-> <<>>]
  <2>1. Filters(k0, msgs, from, 0)
    BY DEF Filters
  <2> QED BY <2>1
<1>2. ASSUME NEW m \in Nat, m \in G PROVE m + 1 \in G
  <2>1. PICK k : Filters(k, msgs, from, m)
    BY <1>2
  <2> DEFINE last == IF msgs[m + 1].seq > from THEN Append(k[m], msgs[m + 1]) ELSE k[m]
             k1 == [n \in 0..(m + 1) |-> IF n = m + 1 THEN last ELSE k[n]]
             body == [n \in 0..(m + 1) |->
                        IF n = 0 THEN <<>>
                        ELSE IF msgs[n].seq > from THEN Append(k1[n - 1], msgs[n])
                        ELSE k1[n - 1]]
  <2>2. ASSUME NEW n \in 0..(m + 1) PROVE k1[n] = body[n]
    <3>1. CASE n = m + 1
      <4>1. n # 0 /\ n - 1 = m /\ m \in 0..(m + 1) /\ m # m + 1
        BY <3>1
      <4>2. k1[n - 1] = k[m]
        BY <4>1
      <4>3. k1[n] = last
        BY <3>1
      <4> QED BY <3>1, <4>1, <4>2, <4>3
    <3>2. CASE n = 0
      <4>1. k1[n] = k[0]
        BY <3>2
      <4>2. k[0] = <<>>
        BY <2>1 DEF Filters
      <4> QED BY <3>2, <4>1, <4>2
    <3>3. CASE n # 0 /\ n # m + 1
      <4>1. n \in 0..m /\ n - 1 \in 0..m /\ n - 1 # m + 1 /\ n - 1 \in 0..(m + 1)
        BY <3>3
      <4>2. k1[n] = k[n] /\ k1[n - 1] = k[n - 1]
        BY <3>3, <4>1
      <4>3. k[n] = IF msgs[n].seq > from THEN Append(k[n - 1], msgs[n]) ELSE k[n - 1]
        BY <2>1, <3>3, <4>1 DEF Filters
      <4> QED BY <3>3, <4>2, <4>3
    <3> QED BY <3>1, <3>2, <3>3
  <2>3. k1 = body
    BY <2>2
  <2>4. Filters(k1, msgs, from, m + 1)
    BY <2>3 DEF Filters
  <2> HIDE DEF k1
  <2> QED BY <2>4
<1>3. Nat \subseteq G
  <2> HIDE DEF G
  <2> QED BY <1>1, <1>2, NatSetInduction
<1> QED BY <1>3

(* After is a running filter at its end. *)
LEMMA AfterFilters ==
  ASSUME NEW msgs, NEW from, Len(msgs) \in Nat
  PROVE  \E kept : Filters(kept, msgs, from, Len(msgs)) /\ After(msgs, from) = kept[Len(msgs)]
<1> DEFINE kept == CHOOSE k : Filters(k, msgs, from, Len(msgs))
<1>1. Filters(kept, msgs, from, Len(msgs))
  BY FilterExists
<1>2. After(msgs, from) = kept[Len(msgs)]
  BY DEF After, Filters
<1> QED BY <1>1, <1>2

(* After keeps the type, and of rising numbers it keeps a suffix. *)
LEMMA AfterSuffix ==
  ASSUME NEW S, NEW msgs \in Seq(S), NEW from, NEW n \in 0..Len(msgs),
         \A i \in 1..n : ~(msgs[i].seq > from),
         \A i \in (n + 1)..Len(msgs) : msgs[i].seq > from
  PROVE  /\ After(msgs, from) \in Seq(S)
         /\ Len(After(msgs, from)) = Len(msgs) - n
         /\ \A i \in 1..(Len(msgs) - n) : After(msgs, from)[i] = msgs[n + i]
<1>1. PICK kept : Filters(kept, msgs, from, Len(msgs)) /\ After(msgs, from) = kept[Len(msgs)]
  BY AfterFilters
<1> DEFINE P(m) ==
      /\ kept[m] \in Seq(S)
      /\ m <= n => kept[m] = <<>>
      /\ m > n => Len(kept[m]) = m - n /\ \A i \in 1..(m - n) : kept[m][i] = msgs[n + i]
    G == {m \in Nat : m <= Len(msgs) => P(m)}
<1>2. 0 \in G
  <2>1. kept[0] = <<>>
    BY <1>1 DEF Filters
  <2>2. P(0)
    BY <2>1
  <2> QED BY <2>2
<1>3. ASSUME NEW m \in Nat, m \in G PROVE m + 1 \in G
  <2>1. SUFFICES ASSUME m + 1 <= Len(msgs) PROVE P(m + 1)
    OBVIOUS
  <2>2. P(m)
    BY <1>3, <2>1
  <2>3. m + 1 \in 0..Len(msgs) /\ m + 1 # 0 /\ (m + 1) - 1 = m /\ m + 1 \in 1..Len(msgs)
    BY <2>1
  <2>4. kept[m + 1] = IF msgs[m + 1].seq > from THEN Append(kept[m], msgs[m + 1]) ELSE kept[m]
    BY <1>1, <2>3 DEF Filters
  <2>5. CASE m + 1 <= n
    <3>1. ~(msgs[m + 1].seq > from)
      BY <2>5, <2>3
    <3> QED BY <2>2, <2>4, <2>5, <3>1
  <2>6. CASE m + 1 > n
    <3>1. msgs[m + 1].seq > from /\ msgs[m + 1] \in S
      BY <2>6, <2>3
    <3>2. kept[m + 1] = Append(kept[m], msgs[m + 1])
      BY <2>4, <3>1
    <3>3. kept[m] \in Seq(S) /\ Len(kept[m]) = m - n
      BY <2>2, <2>6
    <3>4. \A i \in 1..(m - n) : kept[m][i] = msgs[n + i]
      BY <2>2, <2>6
    <3>5. kept[m + 1] \in Seq(S) /\ Len(kept[m + 1]) = (m + 1) - n
      BY <3>1, <3>2, <3>3
    <3>6. \A i \in 1..((m + 1) - n) : kept[m + 1][i] = msgs[n + i]
      BY <3>1, <3>2, <3>3, <3>4
    <3> QED BY <2>6, <3>5, <3>6
  <2> QED BY <2>5, <2>6
<1>4. Nat \subseteq G
  <2> HIDE DEF G
  <2> QED BY <1>2, <1>3, NatSetInduction
<1>5. P(Len(msgs))
  BY <1>4
<1> QED BY <1>1, <1>5

-----------------------------------------------------------------------------
(* Histories and their last numbers. *)

(* A message that is not a stop is a record. *)
LEMMA MsgParts ==
  ASSUME NEW msg \in Msg
  PROVE  /\ msg.seq \in Int /\ (msg \in Record => msg.seq \in 0..MaxSeq /\ msg.cmd \in Commands)
         /\ IsStop(msg) <=> msg \notin Record
BY LogAssumption DEF Msg, Record, StopMsg, IsStop, NoSeq

LEMMA LastSeqType ==
  ASSUME NEW s \in Seq(Record)
  PROVE  /\ LastSeq(s) \in NoSeq..MaxSeq
         /\ s # <<>> <=> LastSeq(s) # NoSeq
         /\ s # <<>> => Len(s) > 0 /\ LastSeq(s) = s[Len(s)].seq
<1>1. CASE s = <<>>
  BY <1>1, LogAssumption DEF LastSeq, NoSeq
<1>2. CASE s # <<>>
  <2>1. Len(s) > 0 /\ Len(s) \in 1..Len(s)
    BY <1>2
  <2>2. s[Len(s)] \in Record
    BY <2>1
  <2>3. s[Len(s)].seq \in 0..MaxSeq
    BY <2>2 DEF Record
  <2> QED BY <1>2, <2>1, <2>3, LogAssumption DEF LastSeq, NoSeq
<1> QED BY <1>1, <1>2

LEMMA NextSeqType ==
  ASSUME NEW s \in Seq(Record)
  PROVE  NextSeq(s) = LastSeq(s) + 1 /\ NextSeq(s) \in 0..(MaxSeq + 1)
BY LastSeqType, LogAssumption DEF NextSeq, LastSeq, NoSeq

(* A history goes on with the next number. *)
LEMMA NumberedAppend ==
  ASSUME NEW s \in Seq(Record), NEW r \in Record, Numbered(s),
         s # <<>> => r.seq = LastSeq(s) + 1
  PROVE  /\ Append(s, r) \in Seq(Record) /\ Numbered(Append(s, r))
         /\ Append(s, r) # <<>> /\ LastSeq(Append(s, r)) = r.seq
<1> DEFINE t == Append(s, r)
<1>0. t \in Seq(Record) /\ Len(t) = Len(s) + 1
  OBVIOUS
<1>1. t \in Seq(Record) /\ Len(t) = Len(s) + 1 /\ t[Len(t)] = r /\ t # <<>>
  <2>1. Len(s) \in Nat
    OBVIOUS
  <2>2. Len(t) \in 1..(Len(s) + 1) /\ Len(t) = Len(s) + 1 /\ Len(t) # 0
    BY <1>0, <2>1
  <2>3. t[Len(s) + 1] = r
    OBVIOUS
  <2>4. t # <<>>
    BY <2>2
  <2> QED BY <1>0, <2>2, <2>3, <2>4
<1>2. \A i \in 1..Len(s) : t[i] = s[i]
  OBVIOUS
<1>3. LastSeq(t) = r.seq
  BY <1>1 DEF LastSeq
<1>4. LastSeq(s) \in Int /\ r.seq \in Int
  <2>1. LastSeq(s) \in Int
    BY LastSeqType DEF NoSeq
  <2>2. r.seq \in Int
    BY DEF Record
  <2> QED BY <2>1, <2>2
<1> HIDE DEF t
<1>5. ASSUME NEW i \in 1..Len(t) PROVE t[i].seq = (LastSeq(t) - Len(t)) + i
  <2>1. CASE i = Len(t)
    BY <1>1, <1>3, <1>4, <2>1
  <2>2. CASE i # Len(t)
    <3>1. i \in 1..Len(s) /\ s # <<>>
      BY <1>1, <2>2
    <3>2. t[i].seq = (LastSeq(s) - Len(s)) + i
      BY <3>1, <1>2 DEF Numbered
    <3> QED BY <1>1, <1>3, <1>4, <3>1, <3>2
  <2> QED BY <2>1, <2>2
<1> QED BY <1>1, <1>3, <1>5 DEF t, Numbered

(* A prefix of a numbered history is numbered. *)
LEMMA NumberedPrefix ==
  ASSUME NEW s \in Seq(Record), Numbered(s), NEW n \in 0..Len(s)
  PROVE  SubSeq(s, 1, n) \in Seq(Record) /\ Numbered(SubSeq(s, 1, n))
<1> DEFINE t == SubSeq(s, 1, n)
<1>1. t \in Seq(Record) /\ Len(t) = n /\ \A i \in 1..n : t[i] = s[i]
  OBVIOUS
<1> HIDE DEF t
<1>2. LastSeq(s) \in Int
  BY LastSeqType DEF NoSeq
<1>3. n > 0 => LastSeq(t) = (LastSeq(s) - Len(s)) + n
  BY <1>1 DEF LastSeq, Numbered
<1>4. ASSUME NEW i \in 1..Len(t) PROVE t[i].seq = (LastSeq(t) - Len(t)) + i
  <2>1. i \in 1..Len(s) /\ n > 0
    BY <1>1
  <2>2. t[i].seq = (LastSeq(s) - Len(s)) + i
    BY <1>1, <2>1 DEF Numbered
  <2> QED BY <1>1, <1>2, <1>3, <2>1, <2>2
<1> QED BY <1>1, <1>4 DEF t, Numbered

(* Two records of a numbered history with one number are one record. *)
LEMMA NumberedUnique ==
  ASSUME NEW s \in Seq(Record), Numbered(s), NEW r \in Recs(s), NEW q \in Recs(s),
         r.seq = q.seq
  PROVE  r = q
<1>1. PICK i \in 1..Len(s) : r = s[i]
  BY DEF Recs
<1>2. PICK j \in 1..Len(s) : q = s[j]
  BY DEF Recs
<1>3. LastSeq(s) \in Int
  BY LastSeqType DEF NoSeq
<1>4. r.seq = (LastSeq(s) - Len(s)) + i /\ q.seq = (LastSeq(s) - Len(s)) + j
  BY <1>1, <1>2 DEF Numbered
<1>5. i = j
  <2> DEFINE k == LastSeq(s) - Len(s)
  <2>1. k \in Int
    BY <1>3
  <2>2. k + i = k + j
    BY <1>4
  <2> HIDE DEF k
  <2> QED BY <2>1, <2>2
<1> QED BY <1>1, <1>2, <1>5

(* Two numbered histories, the second going on where the first ends. *)
LEMMA NumberedConcat ==
  ASSUME NEW s \in Seq(Record), NEW t \in Seq(Record), Numbered(s), Numbered(t),
         s # <<>> /\ t # <<>> => t[1].seq = LastSeq(s) + 1
  PROVE  /\ s \o t \in Seq(Record) /\ Numbered(s \o t)
         /\ LastSeq(s \o t) = IF t = <<>> THEN LastSeq(s) ELSE LastSeq(t)
<1> DEFINE u == s \o t
<1>1. u \in Seq(Record) /\ Len(u) = Len(s) + Len(t)
  OBVIOUS
<1>2. \A i \in 1..Len(s) : u[i] = s[i]
  OBVIOUS
<1>3. \A i \in 1..Len(t) : u[Len(s) + i] = t[i]
  OBVIOUS
<1>4. Len(s) \in Nat /\ Len(t) \in Nat /\ LastSeq(s) \in Int /\ LastSeq(t) \in Int
  BY LastSeqType DEF NoSeq
<1>5. CASE t = <<>>
  <2>1. u = s
    BY <1>5
  <2> QED BY <1>5, <2>1
<1>6. CASE t # <<>> /\ s = <<>>
  <2>1. u = t
    BY <1>6
  <2> QED BY <1>6, <2>1
<1>7. CASE t # <<>> /\ s # <<>>
  <2>1. Len(t) > 0 /\ LastSeq(t) = t[Len(t)].seq /\ Len(t) \in 1..Len(t) /\ 1 \in 1..Len(t)
    BY <1>7, <1>4, LastSeqType
  <2>2. u[Len(u)] = t[Len(t)]
    BY <1>1, <1>3, <2>1
  <2>3. LastSeq(u) = LastSeq(t)
    <3>1. u # <<>>
      BY <1>1, <1>4, <2>1
    <3> QED BY <2>1, <2>2, <3>1 DEF LastSeq
  <2>4. (LastSeq(t) - Len(t)) + 1 = LastSeq(s) + 1
    <3>1. t[1].seq = (LastSeq(t) - Len(t)) + 1
      BY <2>1 DEF Numbered
    <3> QED BY <1>7, <3>1
  <2> HIDE DEF u
  <2>5. ASSUME NEW i \in 1..Len(u) PROVE u[i].seq = (LastSeq(u) - Len(u)) + i
    <3>1. CASE i <= Len(s)
      <4>1. i \in 1..Len(s)
        BY <1>1, <1>4, <3>1
      <4>2. u[i].seq = (LastSeq(s) - Len(s)) + i
        BY <1>2, <4>1 DEF Numbered
      <4>3. LastSeq(u) - Len(u) = LastSeq(s) - Len(s)
        <5> DEFINE a == LastSeq(s)
                   b == LastSeq(t)
        <5>1. a \in Int /\ b \in Int /\ (b - Len(t)) + 1 = a + 1
          BY <1>4, <2>4
        <5> HIDE DEF a, b
        <5>2. b - (Len(s) + Len(t)) = a - Len(s)
          BY <1>4, <5>1
        <5> QED BY <1>1, <2>3, <5>2 DEF a, b
      <4> QED BY <4>2, <4>3
    <3>2. CASE i > Len(s)
      <4>1. i - Len(s) \in 1..Len(t) /\ Len(s) + (i - Len(s)) = i
        BY <1>1, <1>4, <3>2
      <4>2. u[i] = t[i - Len(s)]
        BY <1>3, <4>1
      <4>3. u[i].seq = (LastSeq(t) - Len(t)) + (i - Len(s))
        BY <4>1, <4>2 DEF Numbered
      <4> QED BY <1>1, <1>4, <2>3, <4>3
    <3> QED BY <1>4, <3>1, <3>2
  <2> QED BY <1>1, <1>7, <2>3, <2>5 DEF u, Numbered
<1> QED BY <1>5, <1>6, <1>7

-----------------------------------------------------------------------------
(* Snapshots. *)

(* Of some snapshots one is the newest. *)
LEMMA NewestIn ==
  ASSUME NEW snaps, snaps \subseteq Seq(Record), snaps # {}
  PROVE  Newest(snaps) \in snaps
<1> DEFINE Age(s) == MaxSeq - LastSeq(s)
           T == {Age(s) : s \in snaps}
           R == OpToRel(<, Nat)
<1>1. \A s \in snaps : LastSeq(s) \in NoSeq..MaxSeq
  BY LastSeqType
<1>2. T \subseteq Nat /\ T # {}
  BY <1>1, LogAssumption DEF NoSeq
<1>3. IsWellFoundedOn(R, Nat)
  BY NatLessThanWellFounded
<1>4. \A m, k \in Nat : m < k => <<m, k>> \in R
  BY Zenon DEF OpToRel
<1> HIDE DEF R
<1>5. PICK n \in T : \A m \in T : <<m, n>> \notin R
  <2> HIDE DEF T
  <2> QED BY <1>2, <1>3, WFMin
<1>6. PICK s \in snaps : n = Age(s)
  BY <1>5
<1>7. \A t \in snaps : LastSeq(t) <= LastSeq(s)
  <2> TAKE t \in snaps
  <2>1. Age(t) \in T /\ Age(t) \in Nat /\ Age(s) \in Nat
    BY <1>2
  <2>2. ~(Age(t) < Age(s))
    BY <1>4, <1>5, <1>6, <2>1
  <2>3. LastSeq(t) \in Int /\ LastSeq(s) \in Int /\ MaxSeq \in Int
    BY <1>1, LogAssumption DEF NoSeq
  <2> QED BY <2>2, <2>3
<1> QED BY <1>6, <1>7, Zenon DEF Newest

(* prune only removes. *)
LEMMA PruneRemoves ==
  ASSUME NEW snaps, NEW left \in Pruned(snaps)
  PROVE  left \subseteq snaps
BY DEF Pruned

(* What a recovery starts from. *)
LEMMA BaseParts ==
  ASSUME log \in Seq(Record), NEW readable, readable \subseteq Seq(Record),
         \A s \in readable : Numbered(s)
  PROVE  /\ Base(readable) \in Seq(Record) /\ Numbered(Base(readable))
         /\ log # <<>> => LastSeq(Base(readable)) <= LastSeq(log)
         /\ Base(readable) = <<>> \/ Base(readable) \in readable
<1>1. <<>> \in Seq(Record) /\ Numbered(<<>>)
  BY DEF Numbered
<1>2. LastSeq(<<>>) = NoSeq /\ LastSeq(log) \in Int /\ NoSeq <= LastSeq(log)
  <2>1. LastSeq(<<>>) = NoSeq
    BY DEF LastSeq
  <2>2. LastSeq(log) \in NoSeq..MaxSeq
    BY LastSeqType
  <2> QED BY <2>1, <2>2, LogAssumption DEF NoSeq
<1>3. CASE readable = {}
  <2>1. Base(readable) = <<>>
    BY <1>3 DEF Base
  <2> QED BY <1>1, <1>2, <2>1
<1>4. CASE readable # {}
  <2> DEFINE s == Newest(readable)
  <2>1. s \in readable
    BY <1>4, NewestIn
  <2>2. Base(readable) = IF log # <<>> /\ LastSeq(log) < LastSeq(s) THEN <<>> ELSE s
    BY <1>4 DEF Base
  <2> HIDE DEF s
  <2>3. s \in Seq(Record) /\ Numbered(s)
    BY <2>1
  <2>4. LastSeq(s) \in Int
    BY <2>3, LastSeqType DEF NoSeq
  <2>5. CASE log # <<>> /\ LastSeq(log) < LastSeq(s)
    BY <1>1, <1>2, <1>4, <2>2, <2>5
  <2>6. CASE ~(log # <<>> /\ LastSeq(log) < LastSeq(s))
    <3>1. Base(readable) = s
      BY <2>2, <2>6
    <3>2. log # <<>> => LastSeq(s) <= LastSeq(log)
      BY <1>2, <2>4, <2>6
    <3> QED BY <2>1, <2>3, <3>1, <3>2
  <2> QED BY <2>5, <2>6
<1> QED BY <1>3, <1>4

(* The records replayed on a base are the end of the log. *)
LEMMA ReplayedParts ==
  ASSUME log \in Seq(Record), Numbered(log), NEW b \in NoSeq..MaxSeq
  PROVE  /\ Replayed(b) \in Seq(Record) /\ Numbered(Replayed(b))
         /\ Replayed(b) # <<>> => LastSeq(Replayed(b)) = LastSeq(log)
         /\ Replayed(b) = <<>> => log = <<>> \/ LastSeq(log) <= b
<1> DEFINE t == Replayed(b)
           a == LastSeq(log)
           k == (b - a) + Len(log)
           n == IF k <= 0 THEN 0 ELSE IF k <= Len(log) THEN k ELSE Len(log)
<1>1. b \in Int /\ a \in Int /\ Len(log) \in Nat /\ k \in Int /\ NoSeq = -1
  BY LastSeqType, LogAssumption DEF NoSeq
<1>2. n \in 0..Len(log)
  BY <1>1
<1>3. \A i \in 1..Len(log) : log[i].seq = (a - Len(log)) + i
  BY DEF Numbered
<1>4. \A i \in 1..n : ~(log[i].seq > b)
  <2> TAKE i \in 1..n
  <2>1. i \in 1..Len(log) /\ i \in Int /\ i <= k
    BY <1>1, <1>2
  <2>2. log[i].seq = (a - Len(log)) + i
    BY <1>3, <2>1
  <2>3. (a - Len(log)) + i <= b
    <3> HIDE DEF a
    <3> QED BY <1>1, <2>1
  <2>4. ~((a - Len(log)) + i > b)
    <3> HIDE DEF a
    <3> QED BY <1>1, <2>1, <2>3
  <2> QED BY <2>2, <2>4
<1>5. \A i \in (n + 1)..Len(log) : log[i].seq > b
  <2> TAKE i \in (n + 1)..Len(log)
  <2>1. i \in 1..Len(log) /\ i \in Int /\ i > k
    BY <1>1, <1>2
  <2>2. log[i].seq = (a - Len(log)) + i
    BY <1>3, <2>1
  <2>3. (a - Len(log)) + i > b
    <3> HIDE DEF a
    <3> QED BY <1>1, <2>1
  <2> QED BY <2>2, <2>3
<1>6. /\ t \in Seq(Record) /\ Len(t) = Len(log) - n
      /\ \A i \in 1..(Len(log) - n) : t[i] = log[n + i]
  <2>1. t = After(log, b)
    BY DEF Replayed
  <2> HIDE DEF n, t
  <2>2. /\ After(log, b) \in Seq(Record) /\ Len(After(log, b)) = Len(log) - n
        /\ \A i \in 1..(Len(log) - n) : After(log, b)[i] = log[n + i]
    BY <1>2, <1>4, <1>5, AfterSuffix, SMTT(30)
  <2> QED BY <2>1, <2>2
<1> HIDE DEF t, n
<1>7. t # <<>> => LastSeq(t) = a /\ log # <<>>
  <2> SUFFICES ASSUME t # <<>> PROVE LastSeq(t) = a /\ log # <<>>
    OBVIOUS
  <2>1. Len(t) > 0 /\ Len(t) \in 1..(Len(log) - n) /\ n + Len(t) = Len(log) /\ Len(log) > 0
    BY <1>1, <1>2, <1>6
  <2>2. t[Len(t)] = log[Len(log)]
    BY <1>6, <2>1
  <2> QED BY <2>1, <2>2 DEF LastSeq
<1>8. Numbered(t)
  <2> SUFFICES ASSUME NEW i \in 1..Len(t) PROVE t[i].seq = (LastSeq(t) - Len(t)) + i
    BY DEF Numbered
  <2>1. i \in 1..(Len(log) - n) /\ n + i \in 1..Len(log) /\ t # <<>> /\ i \in Int
    BY <1>1, <1>2, <1>6
  <2>2. t[i].seq = (a - Len(log)) + (n + i)
    BY <1>3, <1>6, <2>1
  <2>3. LastSeq(t) = a
    BY <1>7, <2>1
  <2> HIDE DEF a
  <2>4. (a - Len(log)) + (n + i) = (a - (Len(log) - n)) + i
    BY <1>1, <1>2, <2>1
  <2> QED BY <1>6, <2>2, <2>3, <2>4
<1>9. t = <<>> => log = <<>> \/ a <= b
  <2> SUFFICES ASSUME t = <<>>, log # <<>> PROVE a <= b
    OBVIOUS
  <2>1. Len(t) = 0 /\ n = Len(log) /\ Len(log) > 0
    BY <1>1, <1>2, <1>6
  <2>2. k >= Len(log)
    BY <1>1, <2>1 DEF n
  <2> HIDE DEF a
  <2> QED BY <1>1, <2>2
<1> QED BY <1>6, <1>7, <1>8, <1>9 DEF t

(* The state a recovery rebuilds. *)
Rebuilt(readable) == Base(readable) \o Replayed(LastSeq(Base(readable)))

LEMMA RebuiltParts ==
  ASSUME log \in Seq(Record), Numbered(log), NEW readable, readable \subseteq Seq(Record),
         \A s \in readable : Numbered(s),
         LET tail == Replayed(LastSeq(Base(readable)))
         IN  tail # <<>> => Follows(LastSeq(Base(readable)), Head(tail))
  PROVE  /\ Rebuilt(readable) \in Seq(Record) /\ Numbered(Rebuilt(readable))
         /\ log # <<>> => LastSeq(Rebuilt(readable)) = LastSeq(log)
<1> DEFINE base == Base(readable)
           b == LastSeq(base)
           tail == Replayed(b)
<1>1. /\ base \in Seq(Record) /\ Numbered(base)
      /\ log # <<>> => b <= LastSeq(log)
  BY BaseParts
<1>2. tail # <<>> => Follows(b, Head(tail))
  OBVIOUS
<1>3. Rebuilt(readable) = base \o tail
  BY DEF Rebuilt
<1> HIDE DEF base
<1>4. b \in NoSeq..MaxSeq /\ (base # <<>> <=> b # NoSeq)
  BY <1>1, LastSeqType
<1> HIDE DEF b
<1>5. /\ tail \in Seq(Record) /\ Numbered(tail)
      /\ tail # <<>> => LastSeq(tail) = LastSeq(log)
      /\ tail = <<>> => log = <<>> \/ LastSeq(log) <= b
  BY <1>4, ReplayedParts
<1> HIDE DEF tail
<1>6. base # <<>> /\ tail # <<>> => tail[1].seq = LastSeq(base) + 1
  <2> SUFFICES ASSUME base # <<>>, tail # <<>> PROVE tail[1].seq = LastSeq(base) + 1
    OBVIOUS
  <2>1. Head(tail) = tail[1]
    BY <1>5
  <2>2. Head(tail).seq = b + 1
    BY <1>2, <1>4 DEF Follows
  <2> QED BY <2>1, <2>2 DEF b
<1>7. /\ base \o tail \in Seq(Record) /\ Numbered(base \o tail)
      /\ LastSeq(base \o tail) = IF tail = <<>> THEN LastSeq(base) ELSE LastSeq(tail)
  BY <1>1, <1>5, <1>6, NumberedConcat
<1>8. log # <<>> => LastSeq(base \o tail) = LastSeq(log)
  <2> SUFFICES ASSUME log # <<>> PROVE LastSeq(base \o tail) = LastSeq(log)
    OBVIOUS
  <2>1. CASE tail = <<>>
    <3>1. LastSeq(log) <= b /\ b <= LastSeq(log)
      BY <1>1, <1>5, <2>1
    <3>2. b \in Int /\ LastSeq(log) \in Int
      BY <1>4, LastSeqType DEF NoSeq
    <3>3. b = LastSeq(log)
      BY <3>1, <3>2
    <3> QED BY <1>7, <2>1, <3>3 DEF b
  <2>2. CASE tail # <<>>
    BY <1>5, <1>7, <2>2
  <2> QED BY <2>1, <2>2
<1> QED BY <1>3, <1>7, <1>8

-----------------------------------------------------------------------------
(* The shapes give the type invariant. *)

LEMMA ShapesType == Shapes => TypeOK
<1> SUFFICES ASSUME Shapes PROVE TypeOK
  OBVIOUS
<1>1. log \in Seq(Record) /\ synced \in 0..Len(log) /\ durable \in NoSeq..MaxSeq
      /\ running \in BOOLEAN
  BY DEF Shapes, LogShape
<1>2. /\ up \in BOOLEAN /\ told \subseteq Record /\ starts \in 0..MaxStarts
      /\ caller \in [Commands -> {"idle", "waiting", "shed", "acked", "unknown"}]
  BY DEF Shapes, ProcessShape
<1>3. /\ ingress \in Seq(Commands) /\ Len(ingress) <= QueueDepth
      /\ commitQ \in Seq(Msg) /\ Len(commitQ) <= SubmitDepth
  BY DEF Shapes, IngressShape, QueueShape
<1>4. /\ engine.state \in Seq(Record) /\ engine.next_seq \in 0..(MaxSeq + 1)
      /\ engine.rec \in Msg /\ engine.settled \in BOOLEAN
  BY DEF Shapes, EngineShape, EngineState
<1>5. commit.batch \in Seq(Record) /\ (Len(commit.batch) <= MaxBatch \/ commit.then = "close")
  BY DEF Shapes, CommitShape, CommitState
<1>6. watermark.live \in BOOLEAN /\ watermark.durable \in NoSeq..MaxSeq
  BY DEF Shapes, MarkShape
<1>7. ackQ \in Seq(Record) /\ ack.rec \in Msg /\ ack.lost \in BOOLEAN
  BY DEF Shapes, AckShape, AckState
<1>8. /\ standby.queue \in Seq(Record) /\ standby.state \in Seq(Record)
      /\ standby.confirmed \in NoSeq..MaxSeq /\ standby.alive \in BOOLEAN
  BY DEF Shapes, StandbyShape, StandbyState
<1>9. /\ snapper \in [queue : Seq(Seq(Record)), writing : Seq(Seq(Record))]
      /\ Len(snapper.queue) <= 1 /\ snapshots \subseteq Seq(Record)
  BY DEF Shapes, SnapperShape, SnapshotShape
<1>10. /\ {durable, watermark.durable, standby.confirmed} \subseteq NoSeq..MaxSeq
       /\ {running, up, watermark.live, standby.alive, ack.lost, engine.settled} \subseteq BOOLEAN
       /\ {engine.rec, ack.rec} \subseteq Msg
  BY <1>1, <1>2, <1>4, <1>6, <1>7, <1>8, Zenon
<1> QED BY <1>1, <1>2, <1>3, <1>4, <1>5, <1>7, <1>8, <1>9, <1>10, Zenon DEF TypeOK

-----------------------------------------------------------------------------
(* The initial state. *)

LEMMA InitInv == Init => EngineInv
<1> SUFFICES ASSUME Init PROVE EngineInv
  OBVIOUS
<1>0. MaxSeq \in Nat /\ MaxStarts \in Nat /\ QueueDepth \in Nat /\ SubmitDepth \in Nat
      /\ MaxBatch \in Nat
  BY LogAssumption, EngineAssumption
<1>1. /\ log = <<>> /\ synced = 0 /\ durable = -1 /\ running = FALSE /\ up = FALSE
      /\ ingress = <<>> /\ commitQ = <<>> /\ ackQ = <<>> /\ told = {} /\ starts = 0
      /\ snapshots = {} /\ stopping = "no" /\ caller = [c \in Commands |-> "idle"]
  BY DEF Init, LogInit, NoSeq
<1>2. /\ snapper = IdleSnapper /\ engine = DownEngine /\ commit = DownCommit
      /\ ack = DownAck /\ standby = DownStandby
      /\ watermark = [live |-> FALSE, durable |-> NoSeq]
  BY DEF Init
<1>3. Downs
  BY <1>1, <1>2 DEF Downs
<1>4. /\ snapper.queue = <<>> /\ snapper.writing = <<>>
      /\ snapper \in [queue : Seq(Seq(Record)), writing : Seq(Seq(Record))]
  BY <1>2 DEF IdleSnapper
<1>5. StopMsg \in Msg /\ NoSeq \in NoSeq..MaxSeq
  BY <1>0 DEF Msg, NoSeq
<1>6. /\ engine \in EngineState /\ engine.pc = "stopped" /\ engine.state = <<>>
      /\ engine.next_seq = 0 /\ engine.rec = StopMsg /\ engine.settled = FALSE
  BY <1>0, <1>2, <1>5 DEF DownEngine, EngineState, EnginePcs
<1>7. commit \in CommitState /\ commit.pc = "gone" /\ commit.batch = <<>> /\ commit.then = "recv"
  BY <1>2 DEF DownCommit, CommitState, CommitPcs
<1>8. ack \in AckState /\ ack.pc = "gone" /\ ack.rec = StopMsg /\ ack.lost = FALSE
  BY <1>2, <1>5 DEF DownAck, AckState, AckPcs
<1>9. /\ standby \in StandbyState /\ standby.queue = <<>> /\ standby.state = <<>>
      /\ standby.confirmed = NoSeq /\ standby.alive = FALSE
  BY <1>2, <1>5 DEF DownStandby, StandbyState
<1>10. watermark \in [live : BOOLEAN, durable : NoSeq..MaxSeq]
       /\ watermark.live = FALSE /\ watermark.durable = NoSeq
  BY <1>2, <1>5
<1>11. snapshots \subseteq Seq(Record)
  BY <1>1
<1>12. LogShape /\ ProcessShape /\ IngressShape
  <2>1. LogShape /\ IngressShape
    <3>1. log \in Seq(Record) /\ ingress \in Seq(Commands)
      BY <1>1
    <3>2. Len(log) = 0 /\ Len(ingress) = 0 /\ synced = 0 /\ running \in BOOLEAN
      BY <1>1
    <3>3. durable = NoSeq
      BY <1>1 DEF NoSeq
    <3> QED BY <1>0, <1>5, <3>1, <3>2, <3>3 DEF LogShape, IngressShape
  <2>2. caller \in [Commands -> {"idle", "waiting", "shed", "acked", "unknown"}]
    BY <1>1
  <2>3. starts \in 0..MaxStarts
    BY <1>0, <1>1
  <2> QED BY <1>1, <2>1, <2>2, <2>3 DEF ProcessShape
<1>13. Shapes
  <2>1. EngineShape /\ QueueShape /\ AckShape
    BY <1>0, <1>1, <1>6, <1>8 DEF EngineShape, QueueShape, AckShape
  <2>2. CommitShape /\ MarkShape /\ StandbyShape
    BY <1>0, <1>7, <1>9, <1>10 DEF CommitShape, MarkShape, StandbyShape
  <2>3. SnapperShape /\ SnapshotShape
    BY <1>1, <1>4, <1>11 DEF SnapperShape, SnapshotShape
  <2> QED BY <1>12, <2>1, <2>2, <2>3 DEF Shapes
<1>14. Numbered(<<>>) /\ Recs(<<>>) = {}
  BY DEF Numbered, Recs
<1>15. Numbers
  BY <1>1, <1>4, <1>6, <1>9, <1>14 DEF Numbers
<1>16. Pending = {}
  BY <1>1, <1>6, <1>8, <1>14 DEF Pending
<1>17. Members
  BY <1>1, <1>6, <1>7, <1>14, <1>16 DEF Members
<1>18. Stops
  BY <1>1, <1>6, <1>7 DEF Stops, StopSeen
<1>19. Pipe /\ Covered
  BY <1>1, <1>7, <1>8, <1>16 DEF Pipe, Covered, ToldIsDurable
<1> QED BY <1>3, <1>13, <1>15, <1>17, <1>18, <1>19 DEF EngineInv

-----------------------------------------------------------------------------
(* What the parts of the invariant say of each thread's fields. *)

LEMMA EngineFields ==
  ASSUME EngineShape
  PROVE  /\ engine \in EngineState /\ engine.pc \in EnginePcs /\ engine.state \in Seq(Record)
         /\ engine.next_seq \in 0..(MaxSeq + 1) /\ engine.rec \in Msg
         /\ engine.last_snapshot \in Int /\ engine.settled \in BOOLEAN
         /\ engine.next_seq \in Int
         /\ engine.pc \in {"submit", "pending", "snapshot", "settle"} => engine.rec \in Record
BY DEF EngineShape, EngineState

LEMMA CommitFields ==
  ASSUME CommitShape
  PROVE  /\ commit \in CommitState /\ commit.pc \in CommitPcs /\ commit.batch \in Seq(Record)
         /\ commit.then \in {"recv", "drain", "close"}
         /\ Len(commit.batch) <= MaxBatch \/ commit.then = "close"
BY DEF CommitShape, CommitState

LEMMA AckFields ==
  ASSUME AckShape
  PROVE  /\ ackQ \in Seq(Record) /\ ack \in AckState /\ ack.pc \in AckPcs /\ ack.rec \in Msg
         /\ ack.lost \in BOOLEAN
         /\ ack.pc \in {"durable", "replica", "tell", "reply"} => ack.rec \in Record
BY DEF AckShape, AckState

LEMMA StandbyFields ==
  ASSUME StandbyShape
  PROVE  /\ standby \in StandbyState /\ standby.pc \in {"recv", "confirm"}
         /\ standby.queue \in Seq(Record) /\ standby.state \in Seq(Record)
         /\ standby.confirmed \in NoSeq..MaxSeq /\ standby.alive \in BOOLEAN
BY DEF StandbyShape, StandbyState

(* The head of a queue, and what is left. *)
LEMMA QueueParts ==
  ASSUME NEW S, NEW q \in Seq(S), q # <<>>
  PROVE  /\ Head(q) \in S /\ Tail(q) \in Seq(S) /\ Len(Tail(q)) = Len(q) - 1
         /\ Len(q) \in Nat /\ Len(q) > 0 /\ 1 \in 1..Len(q) /\ Head(q) = q[1]
         /\ \A i \in 1..(Len(q) - 1) : Tail(q)[i] = q[i + 1] /\ i + 1 \in 1..Len(q)
<1>1. Len(q) \in Nat /\ Len(q) > 0
  OBVIOUS
<1> QED BY <1>1

LEMMA AppendParts ==
  ASSUME NEW S, NEW q \in Seq(S), NEW x \in S
  PROVE  /\ Append(q, x) \in Seq(S) /\ Len(Append(q, x)) = Len(q) + 1 /\ Len(q) \in Nat
         /\ Append(q, x) # <<>> /\ Append(q, x)[Len(q) + 1] = x
         /\ \A i \in 1..Len(q) : Append(q, x)[i] = q[i]
<1>1. Append(q, x) \in Seq(S) /\ Len(Append(q, x)) = Len(q) + 1 /\ Len(q) \in Nat
  OBVIOUS
<1>2. Append(q, x) # <<>>
  BY <1>1
<1>3. Append(q, x)[Len(q) + 1] = x
  OBVIOUS
<1>4. \A i \in 1..Len(q) : Append(q, x)[i] = q[i]
  OBVIOUS
<1> QED BY <1>1, <1>2, <1>3, <1>4

(* The elements of a queue that is taken from or added to. *)
LEMMA RecsParts ==
  ASSUME NEW S, NEW q \in Seq(S)
  PROVE  /\ Recs(q) \subseteq S
         /\ q # <<>> => Head(q) \in Recs(q) /\ Recs(Tail(q)) \subseteq Recs(q)
         /\ \A x \in S : Recs(Append(q, x)) = Recs(q) \cup {x}
<1>1. Recs(q) \subseteq S
  BY DEF Recs
<1>2. q # <<>> => Head(q) \in Recs(q) /\ Recs(Tail(q)) \subseteq Recs(q)
  <2> SUFFICES ASSUME q # <<>> PROVE Head(q) \in Recs(q) /\ Recs(Tail(q)) \subseteq Recs(q)
    OBVIOUS
  <2>1. /\ Len(Tail(q)) = Len(q) - 1 /\ 1 \in 1..Len(q) /\ Head(q) = q[1]
        /\ \A i \in 1..(Len(q) - 1) : Tail(q)[i] = q[i + 1] /\ i + 1 \in 1..Len(q)
    BY QueueParts
  <2> QED BY <2>1 DEF Recs
<1>3. ASSUME NEW x \in S PROVE Recs(Append(q, x)) = Recs(q) \cup {x}
  <2> DEFINE t == Append(q, x)
  <2>1. /\ Len(t) = Len(q) + 1 /\ Len(q) \in Nat /\ t[Len(q) + 1] = x
        /\ \A i \in 1..Len(q) : t[i] = q[i]
    BY AppendParts
  <2> HIDE DEF t
  <2>2. Recs(t) \subseteq Recs(q) \cup {x}
    <3> SUFFICES ASSUME NEW i \in 1..Len(t) PROVE t[i] \in Recs(q) \cup {x}
      BY DEF Recs
    <3>1. i = Len(q) + 1 \/ i \in 1..Len(q)
      BY <2>1
    <3> QED BY <2>1, <3>1 DEF Recs
  <2>3. x \in Recs(t)
    <3>1. Len(q) + 1 \in 1..Len(t)
      BY <2>1
    <3> QED BY <2>1, <3>1 DEF Recs
  <2>4. Recs(q) \subseteq Recs(t)
    <3> SUFFICES ASSUME NEW i \in 1..Len(q) PROVE q[i] \in Recs(t)
      BY DEF Recs
    <3>1. i \in 1..Len(t) /\ t[i] = q[i]
      BY <2>1
    <3> QED BY <3>1 DEF Recs
  <2> QED BY <2>2, <2>3, <2>4 DEF t
<1> QED BY <1>1, <1>2, <1>3

(* A dropped reply channel leaves no new acknowledgement. *)
LEMMA DroppedType ==
  ASSUME ProcessShape, NEW cmds
  PROVE  /\ Dropped(cmds) \in [Commands -> {"idle", "waiting", "shed", "acked", "unknown"}]
         /\ \A c \in Commands : Dropped(cmds)[c] = "acked" => caller[c] = "acked"
BY DEF Dropped, ProcessShape

(* Taking a command gives it the next number. *)
LEMMA TakeParts ==
  ASSUME EngineShape, StandbyShape, NEW c \in Commands, Take(c),
         NEW r, r = [seq |-> engine.next_seq, cmd |-> c]
  PROVE  /\ r \in Record /\ r.seq = engine.next_seq /\ r.cmd = c
         /\ engine'.pc = "submit" /\ engine'.rec = r /\ engine'.next_seq = engine.next_seq + 1
         /\ engine'.state = Append(engine.state, r)
         /\ standby'.state = standby.state /\ standby'.alive = standby.alive
         /\ standby'.confirmed = standby.confirmed
         /\ standby'.queue = IF standby.alive THEN Append(standby.queue, r) ELSE standby.queue
         /\ EngineShape' /\ StandbyShape'
<1>1. engine.next_seq \in 0..(MaxSeq + 1) /\ engine.next_seq <= MaxSeq /\ MaxSeq \in Nat
  BY EngineFields, LogAssumption DEF Take
<1>2. r \in Record /\ r.seq = engine.next_seq /\ r.cmd = c
  BY <1>1 DEF Record
<1>3. engine' = [engine EXCEPT !.pc = "submit", !.rec = r, !.next_seq = @ + 1,
                               !.state = Append(@, r)]
  BY DEF Take
<1>4. /\ engine.pc \in EnginePcs /\ engine.state \in Seq(Record)
      /\ engine.last_snapshot \in Int /\ engine.settled \in BOOLEAN
      /\ engine = [pc |-> engine.pc, state |-> engine.state, next_seq |-> engine.next_seq,
                   rec |-> engine.rec, last_snapshot |-> engine.last_snapshot,
                   settled |-> engine.settled]
  BY EngineFields DEF EngineState
<1>5. engine' = [pc |-> "submit", state |-> Append(engine.state, r),
                 next_seq |-> engine.next_seq + 1, rec |-> r,
                 last_snapshot |-> engine.last_snapshot, settled |-> engine.settled]
  BY <1>3, <1>4
<1>6. Append(engine.state, r) \in Seq(Record) /\ engine.next_seq + 1 \in 0..(MaxSeq + 1)
      /\ r \in Msg /\ "submit" \in EnginePcs
  BY <1>1, <1>2, <1>4, AppendParts DEF Msg, EnginePcs
<1>7. EngineShape'
  BY <1>2, <1>4, <1>5, <1>6 DEF EngineShape, EngineState
<1>8. standby' = IF standby.alive THEN [standby EXCEPT !.queue = Append(@, r)] ELSE standby
  BY DEF Take
<1>9. /\ standby = [pc |-> standby.pc, queue |-> standby.queue, state |-> standby.state,
                    confirmed |-> standby.confirmed, alive |-> standby.alive]
      /\ standby.queue \in Seq(Record)
  BY StandbyFields DEF StandbyState
<1>10. Append(standby.queue, r) \in Seq(Record)
  BY <1>2, <1>9, AppendParts
<1>11. /\ standby'.state = standby.state /\ standby'.alive = standby.alive
       /\ standby'.confirmed = standby.confirmed
       /\ standby'.queue = IF standby.alive THEN Append(standby.queue, r) ELSE standby.queue
  BY <1>8, <1>9
<1>12. StandbyShape'
  BY <1>8, <1>10 DEF StandbyShape, StandbyState
<1> QED BY <1>2, <1>5, <1>7, <1>11, <1>12

-----------------------------------------------------------------------------
(* A step that leaves a part's fields alone keeps that part. *)

LEMMA NumbersStay ==
  ASSUME Numbers, UNCHANGED <<log, snapshots, snapper>>,
         engine'.state = engine.state, engine'.next_seq = engine.next_seq,
         standby'.alive => /\ standby.alive /\ standby'.queue = standby.queue
                           /\ standby'.state = standby.state
  PROVE  Numbers'
BY DEF Numbers, Numbered, LastSeq

LEMMA MembersStay ==
  ASSUME Members, UNCHANGED commitQ, Recs(commit.batch)' \subseteq Recs(commit.batch),
         Recs(engine.state) \subseteq Recs(engine.state)',
         Pending' \subseteq Pending,
         engine'.pc = "submit" => /\ engine.pc = "submit" /\ engine'.rec = engine.rec
                                  /\ engine'.next_seq = engine.next_seq
  PROVE  Members'
<1>1. (Recs(commit.batch) \subseteq Recs(engine.state))'
  BY DEF Members
<1>2. (\A i \in 1..Len(commitQ) : IsStop(commitQ[i]) \/ commitQ[i] \in Recs(engine.state))'
  BY DEF Members, IsStop
<1>3. (Pending \subseteq Recs(engine.state))'
  BY DEF Members
<1>4. (engine.pc = "submit" =>
         engine.rec \in Recs(engine.state) /\ engine.rec.seq = engine.next_seq - 1)'
  BY DEF Members
<1> QED BY <1>1, <1>2, <1>3, <1>4 DEF Members

LEMMA StopsStay ==
  ASSUME Stops, UNCHANGED <<commitQ, commit>>,
         stopping \in {"commit", "acks"} => stopping' \in {"commit", "acks"},
         stopping' \in {"commit", "acks"} => stopping \in {"commit", "acks"},
         engine.pc = "stopped" => engine'.pc = "stopped"
  PROVE  Stops'
BY DEF Stops, StopSeen, IsStop

(* The number the commit queue expects next. *)
Expected == IF engine.pc = "submit" THEN engine.rec.seq ELSE engine.next_seq

LEMMA PipeStays ==
  ASSUME NEW f, PipeAt(f), UNCHANGED <<log, commitQ, durable>>,
         commit'.batch = commit.batch,
         watermark'.durable = watermark.durable,
         Pending' \subseteq Pending,
         engine'.pc # "stopped" => engine.pc # "stopped" /\ Expected' = Expected
  PROVE  PipeAt(f)'
<1>1. (log # <<>> => LastSeq(log) = f - 1)'
  BY DEF PipeAt, LastSeq
<1>2. (\A i \in 1..Len(commit.batch) : commit.batch[i].seq = f + (i - 1))'
  BY DEF PipeAt
<1>3. (\A i \in 1..Len(commitQ) :
         IsStop(commitQ[i]) \/ commitQ[i].seq = f + Len(commit.batch) + (i - 1))'
  BY DEF PipeAt, IsStop
<1>4. (engine.pc # "stopped" =>
         (IF engine.pc = "submit" THEN engine.rec.seq ELSE engine.next_seq)
           = f + Len(commit.batch) + Len(commitQ))'
  BY DEF PipeAt, Expected
<1>5. (durable < f /\ watermark.durable < f)'
  BY DEF PipeAt
<1>6. (\A r \in Pending : r \in Recs(log) \/ r.seq >= f)'
  BY DEF PipeAt, Recs
<1> QED BY <1>1, <1>2, <1>3, <1>4, <1>5, <1>6 DEF PipeAt

(* What is synced stays synced, and nobody is told or answered more. *)
LEMMA CoveredStays ==
  ASSUME Covered, Synced \subseteq Synced', Pending' \subseteq Pending,
         watermark'.durable = watermark.durable,
         commit'.pc = "publish" => commit.pc = "publish" /\ durable' = durable,
         ack'.pc \in {"replica", "tell", "reply"} => ack'.pc = ack.pc /\ ack'.rec = ack.rec,
         told' = told,
         \A c \in Commands : caller'[c] = "acked" => caller[c] = "acked"
  PROVE  Covered'
<1>1. (\A r \in Pending : r.seq <= watermark.durable => r \in Synced)'
  BY DEF Covered
<1>2. (commit.pc = "publish" => \A r \in Pending : r.seq <= durable => r \in Synced)'
  BY DEF Covered
<1>3. (ack.pc \in {"replica", "tell"} => ack.rec \in Synced)'
  BY DEF Covered
<1>4. (ack.pc = "reply" => ack.rec \in told)'
  BY DEF Covered
<1>5. ToldIsDurable'
  <2>1. told' \subseteq {log[i] : i \in 1..synced}'
    BY DEF Covered, ToldIsDurable, Synced
  <2>2. (\A c \in Commands : caller[c] = "acked" => c \in {r.cmd : r \in told})'
    BY DEF Covered, ToldIsDurable
  <2> QED BY <2>1, <2>2 DEF ToldIsDurable
<1> QED BY <1>1, <1>2, <1>3, <1>4, <1>5 DEF Covered

(* The commit thread lives on and expects the same record. *)
PipeKept ==
  commit'.pc # "gone" => commit.pc # "gone" /\ \A f \in Nat : PipeAt(f) => PipeAt(f)'

LEMMA KeptPipe == Pipe /\ PipeKept => Pipe'
BY DEF Pipe, PipeKept

(* A step that neither queues a record nor writes one. *)
LEMMA QuietStep ==
  ASSUME EngineInv, UNCHANGED <<log, synced, durable, commitQ, commit, stopping, told>>,
         watermark'.durable = watermark.durable,
         engine'.state = engine.state, engine'.next_seq = engine.next_seq,
         engine'.rec = engine.rec,
         engine.pc = "stopped" => engine'.pc = "stopped",
         engine'.pc # "stopped" => (engine'.pc = "submit" <=> engine.pc = "submit"),
         Pending' \subseteq Pending,
         ack'.pc \in {"replica", "tell", "reply"} => ack'.pc = ack.pc /\ ack'.rec = ack.rec,
         \A c \in Commands : caller'[c] = "acked" => caller[c] = "acked"
  PROVE  Members' /\ Stops' /\ PipeKept /\ Covered'
<1>1. Members'
  <2>1. Members
    BY DEF EngineInv
  <2>2. Recs(commit.batch)' \subseteq Recs(commit.batch)
        /\ Recs(engine.state) \subseteq Recs(engine.state)'
    BY DEF Recs
  <2>3. engine'.pc = "submit" => /\ engine.pc = "submit" /\ engine'.rec = engine.rec
                                 /\ engine'.next_seq = engine.next_seq
    OBVIOUS
  <2> QED BY <2>1, <2>2, <2>3, MembersStay
<1>2. Stops'
  <2>1. Stops
    BY DEF EngineInv
  <2> QED BY <2>1, StopsStay
<1>3. PipeKept
  <2>1. engine'.pc # "stopped" => engine.pc # "stopped" /\ Expected' = Expected
    BY DEF Expected
  <2>2. \A f : PipeAt(f) => PipeAt(f)'
    BY <2>1, PipeStays
  <2> QED BY <2>2 DEF PipeKept
<1>4. Covered'
  <2>1. Covered
    BY DEF EngineInv
  <2>2. Synced \subseteq Synced'
    BY DEF Synced
  <2> QED BY <2>1, <2>2, CoveredStays
<1> QED BY <1>1, <1>2, <1>3, <1>4

(* Some thread has work: the process is up. *)
LEMMA UpWhen ==
  ASSUME Downs,
         \/ engine.pc # "stopped" \/ commit.pc # "gone" \/ ack.pc # "gone" \/ standby.alive
         \/ stopping # "no" \/ snapper.queue # <<>> \/ snapper.writing # <<>>
  PROVE  up
BY DEF Downs, DownEngine, DownCommit, DownAck, DownStandby, IdleSnapper

-----------------------------------------------------------------------------
(* The door and the engine thread. *)

LEMMA SubmitStep ==
  ASSUME EngineInv, NEW c \in Commands, Submit(c)
  PROVE  EngineInv' /\ PipeKept
<1>1. /\ up /\ UNCHANGED <<log, synced, durable, running, up, engine, commitQ, commit, watermark>>
      /\ UNCHANGED <<ackQ, ack, standby, snapper, snapshots, stopping, told, starts>>
  BY DEF Submit, logVars
<1>2. Shapes /\ Downs /\ Numbers
  BY DEF EngineInv
<1>3. \/ /\ Len(ingress) < QueueDepth /\ ingress' = Append(ingress, c)
         /\ caller' = [caller EXCEPT ![c] = "waiting"]
      \/ ingress' = ingress /\ caller' = [caller EXCEPT ![c] = "shed"]
  BY DEF Submit
<1>4. ProcessShape' /\ \A d \in Commands : caller'[d] = "acked" => caller[d] = "acked"
  <2>1. caller \in [Commands -> {"idle", "waiting", "shed", "acked", "unknown"}]
    BY <1>2 DEF Shapes, ProcessShape
  <2>2. /\ caller' \in [Commands -> {"idle", "waiting", "shed", "acked", "unknown"}]
        /\ \A d \in Commands : caller'[d] = "acked" => caller[d] = "acked"
    BY <1>3, <2>1
  <2>3. up \in BOOLEAN /\ told \subseteq Record /\ starts \in 0..MaxStarts
        /\ stopping \in {"no", "engine", "commit", "acks"}
    BY <1>2 DEF Shapes, ProcessShape
  <2> QED BY <1>1, <2>2, <2>3 DEF ProcessShape
<1>5. IngressShape'
  <2>1. ingress \in Seq(Commands) /\ Len(ingress) <= QueueDepth /\ QueueDepth \in Nat
    BY <1>2, EngineAssumption DEF Shapes, IngressShape
  <2>2. Append(ingress, c) \in Seq(Commands) /\ Len(Append(ingress, c)) = Len(ingress) + 1
        /\ Len(ingress) \in Nat
    BY <2>1, AppendParts
  <2> QED BY <1>3, <2>1, <2>2 DEF IngressShape
<1>6. Shapes'
  <2>1. LogShape' /\ EngineShape' /\ QueueShape' /\ CommitShape' /\ MarkShape'
    BY <1>1, <1>2 DEF Shapes, LogShape, EngineShape, QueueShape, CommitShape, MarkShape
  <2>2. AckShape' /\ StandbyShape' /\ SnapperShape' /\ SnapshotShape'
    BY <1>1, <1>2 DEF Shapes, AckShape, StandbyShape, SnapperShape, SnapshotShape
  <2> QED BY <1>4, <1>5, <2>1, <2>2 DEF Shapes
<1>7. Downs'
  BY <1>1 DEF Downs
<1>8. Numbers'
  BY <1>1, <1>2, NumbersStay
<1>9. Pending' \subseteq Pending
  BY <1>1 DEF Pending, Recs
<1>10. Members' /\ Stops' /\ PipeKept /\ Covered'
  BY <1>1, <1>4, <1>9, QuietStep
<1> QED BY <1>6, <1>7, <1>8, <1>10, KeptPipe DEF EngineInv

(* What every step of the engine thread leaves alone. *)
LEMMA EngineRest ==
  ASSUME EngineInv, UNCHANGED engineRest, up
  PROVE  /\ UNCHANGED <<log, synced, durable, running, up, commit, watermark, ack, snapshots>>
         /\ UNCHANGED <<stopping, told, starts>>
         /\ LogShape' /\ CommitShape' /\ MarkShape' /\ SnapshotShape' /\ Downs'
         /\ caller' \in [Commands -> {"idle", "waiting", "shed", "acked", "unknown"}] => ProcessShape'
         /\ ackQ' \in Seq(Record) => AckShape'
         /\ Shapes /\ Downs /\ Numbers /\ Members /\ Stops /\ Pipe /\ Covered
<1>1. /\ UNCHANGED <<log, synced, durable, running, up, commit, watermark, ack, snapshots>>
      /\ UNCHANGED <<stopping, told, starts>>
  BY DEF engineRest, logVars
<1>2. Shapes /\ Downs /\ Numbers /\ Members /\ Stops /\ Pipe /\ Covered
  BY DEF EngineInv
<1>3. LogShape' /\ CommitShape' /\ MarkShape' /\ SnapshotShape'
  BY <1>1, <1>2 DEF Shapes, LogShape, CommitShape, MarkShape, SnapshotShape
<1>4. caller' \in [Commands -> {"idle", "waiting", "shed", "acked", "unknown"}] => ProcessShape'
  BY <1>1, <1>2 DEF Shapes, ProcessShape
<1>5. ackQ' \in Seq(Record) => AckShape'
  BY <1>1, <1>2 DEF Shapes, AckShape
<1>6. Downs'
  BY <1>1 DEF Downs
<1> QED BY <1>1, <1>2, <1>3, <1>4, <1>5, <1>6

(* Moving the engine to another program counter. *)
LEMMA EngineMoves ==
  ASSUME EngineShape, NEW pc \in EnginePcs, engine' = [engine EXCEPT !.pc = pc],
         pc \in {"submit", "pending", "snapshot", "settle"} => engine.rec \in Record
  PROVE  /\ engine'.pc = pc /\ engine'.state = engine.state /\ engine'.rec = engine.rec
         /\ engine'.next_seq = engine.next_seq /\ EngineShape'
BY DEF EngineShape, EngineState

LEMMA TakeStep ==
  ASSUME EngineInv, NEW c \in Commands, Take(c), engine.pc \in {"next", "idle"},
         UNCHANGED <<engineRest, commitQ, ackQ, snapper>>, IngressShape',
         caller' \in [Commands -> {"idle", "waiting", "shed", "acked", "unknown"}],
         \A d \in Commands : caller'[d] = "acked" => caller[d] = "acked"
  PROVE  EngineInv' /\ PipeKept
<1>0. Shapes /\ Downs
  BY DEF EngineInv
<1>1. up
  BY <1>0, UpWhen
<1>2. UNCHANGED engineRest /\ UNCHANGED <<commitQ, ackQ, snapper>>
  OBVIOUS
<1>3. /\ UNCHANGED <<log, synced, durable, running, up, commit, watermark, ack, snapshots>>
      /\ UNCHANGED <<stopping, told, starts>>
      /\ LogShape' /\ CommitShape' /\ MarkShape' /\ SnapshotShape' /\ Downs'
      /\ caller' \in [Commands -> {"idle", "waiting", "shed", "acked", "unknown"}] => ProcessShape'
      /\ ackQ' \in Seq(Record) => AckShape'
      /\ Numbers /\ Members /\ Stops /\ Covered
  BY <1>1, <1>2, EngineRest
<1>4. EngineShape /\ StandbyShape
  BY <1>0 DEF Shapes
<1> DEFINE r == [seq |-> engine.next_seq, cmd |-> c]
<1>5. /\ r \in Record /\ r.seq = engine.next_seq
      /\ engine'.pc = "submit" /\ engine'.rec = r /\ engine'.next_seq = engine.next_seq + 1
      /\ engine'.state = Append(engine.state, r)
      /\ standby'.state = standby.state /\ standby'.alive = standby.alive
      /\ standby'.queue = IF standby.alive THEN Append(standby.queue, r) ELSE standby.queue
      /\ EngineShape' /\ StandbyShape'
  BY <1>4, TakeParts
<1> HIDE DEF r
<1>6. Shapes'
  <2>1. QueueShape' /\ SnapperShape' /\ ackQ' \in Seq(Record)
    BY <1>0, <1>2 DEF Shapes, QueueShape, SnapperShape, AckShape
  <2> QED BY <1>3, <1>5, <2>1 DEF Shapes
<1>7. /\ engine.state \in Seq(Record) /\ engine.next_seq \in Int
      /\ standby.state \in Seq(Record) /\ standby.queue \in Seq(Record)
  BY <1>4, EngineFields, StandbyFields
<1>8. Numbers'
  <2>1. Numbered(engine.state) /\ (engine.state # <<>> => engine.next_seq = LastSeq(engine.state) + 1)
    BY <1>3 DEF Numbers
  <2>2. /\ Numbered(Append(engine.state, r)) /\ Append(engine.state, r) # <<>>
        /\ LastSeq(Append(engine.state, r)) = r.seq
    BY <1>5, <1>7, <2>1, NumberedAppend
  <2>3. (Numbered(engine.state) /\ (engine.state # <<>> => engine.next_seq = LastSeq(engine.state) + 1))'
    BY <1>5, <2>2
  <2>4. (/\ Numbered(log) /\ \A s \in snapshots : Numbered(s)
         /\ \A i \in 1..Len(snapper.queue) : Numbered(snapper.queue[i])
         /\ \A i \in 1..Len(snapper.writing) : Numbered(snapper.writing[i]))'
    BY <1>2, <1>3 DEF Numbers
  <2>5. ASSUME standby.alive
        PROVE  /\ \A i \in 1..Len(standby'.queue) :
                    standby'.queue[i].seq = (engine'.next_seq - Len(standby'.queue)) + (i - 1)
               /\ standby'.state # <<>> =>
                    LastSeq(standby'.state) = engine'.next_seq - Len(standby'.queue) - 1
    <3> DEFINE q == standby.queue
               n == engine.next_seq
    <3>1. /\ \A i \in 1..Len(q) : q[i].seq = (n - Len(q)) + (i - 1)
          /\ standby.state # <<>> => LastSeq(standby.state) = n - Len(q) - 1
      BY <1>3, <2>5 DEF Numbers
    <3>2. /\ standby'.queue = Append(q, r) /\ Len(Append(q, r)) = Len(q) + 1 /\ Len(q) \in Nat
          /\ Append(q, r)[Len(q) + 1] = r /\ \A i \in 1..Len(q) : Append(q, r)[i] = q[i]
      BY <1>5, <1>7, <2>5, AppendParts
    <3>3. n \in Int /\ engine'.next_seq = n + 1 /\ r.seq = n
      BY <1>5, <1>7
    <3> HIDE DEF q, n
    <3>4. \A i \in 1..(Len(q) + 1) : Append(q, r)[i].seq = ((n + 1) - (Len(q) + 1)) + (i - 1)
      <4> TAKE i \in 1..(Len(q) + 1)
      <4>1. CASE i = Len(q) + 1
        BY <3>2, <3>3, <4>1
      <4>2. CASE i \in 1..Len(q)
        BY <3>1, <3>2, <3>3, <4>2
      <4> QED BY <3>2, <4>1, <4>2
    <3>5. n - Len(q) - 1 = (n + 1) - (Len(q) + 1) - 1
      BY <3>2, <3>3
    <3>6. standby'.state # <<>> => LastSeq(standby'.state) = (n + 1) - (Len(q) + 1) - 1
      BY <1>5, <3>1, <3>5
    <3> QED BY <3>2, <3>3, <3>4, <3>6
  <2> QED BY <1>5, <2>3, <2>4, <2>5 DEF Numbers
<1>9. Recs(engine.state)' = Recs(engine.state) \cup {r}
  BY <1>5, <1>7, RecsParts
<1>10. Pending' \subseteq Pending
  BY <1>2, <1>3, <1>5 DEF Pending, Recs
<1>11. Members'
  <2>1. (Recs(commit.batch) \subseteq Recs(engine.state))'
    BY <1>3, <1>9 DEF Members, Recs
  <2>2. (\A i \in 1..Len(commitQ) : IsStop(commitQ[i]) \/ commitQ[i] \in Recs(engine.state))'
    BY <1>2, <1>3, <1>9 DEF Members, IsStop
  <2>3. (Pending \subseteq Recs(engine.state))'
    BY <1>3, <1>9, <1>10 DEF Members
  <2>4. engine'.rec \in Recs(engine.state)' /\ engine'.rec.seq = engine'.next_seq - 1
    BY <1>5, <1>7, <1>9
  <2> QED BY <2>1, <2>2, <2>3, <2>4 DEF Members
<1>12. Stops'
  BY <1>2, <1>3, StopsStay
<1>13. PipeKept
  <2>1. engine'.pc # "stopped" => engine.pc # "stopped" /\ Expected' = Expected
    BY <1>5 DEF Expected
  <2>2. \A f : PipeAt(f) => PipeAt(f)'
    BY <1>2, <1>3, <1>10, <2>1, PipeStays
  <2> QED BY <1>3, <2>2 DEF PipeKept
<1>14. Covered'
  <2>1. Synced \subseteq Synced'
    BY <1>3 DEF Synced
  <2> QED BY <1>3, <1>10, <2>1, CoveredStays
<1>15. Pipe'
  BY <1>13, KeptPipe DEF EngineInv
<1> QED BY <1>3, <1>6, <1>8, <1>11, <1>12, <1>13, <1>14, <1>15 DEF EngineInv

LEMMA EngineTakeStep ==
  ASSUME EngineInv, EngineTake
  PROVE  EngineInv' /\ PipeKept
<1>1. /\ engine.pc \in {"next", "idle"} /\ ingress # <<>> /\ Take(Head(ingress))
      /\ ingress' = Tail(ingress) /\ UNCHANGED <<engineRest, commitQ, ackQ, snapper>>
      /\ UNCHANGED caller
  BY DEF EngineTake
<1>2. ingress \in Seq(Commands) /\ Len(ingress) <= QueueDepth /\ QueueDepth \in Nat
  BY EngineAssumption DEF EngineInv, Shapes, IngressShape
<1>3. /\ Head(ingress) \in Commands /\ Tail(ingress) \in Seq(Commands)
      /\ Len(Tail(ingress)) = Len(ingress) - 1 /\ Len(ingress) \in Nat
  BY <1>1, <1>2, QueueParts
<1>4. IngressShape'
  BY <1>1, <1>2, <1>3 DEF IngressShape
<1>5. caller' \in [Commands -> {"idle", "waiting", "shed", "acked", "unknown"}]
  BY <1>1 DEF EngineInv, Shapes, ProcessShape
<1>6. \A d \in Commands : caller'[d] = "acked" => caller[d] = "acked"
  BY <1>1
<1> QED BY <1>1, <1>3, <1>4, <1>5, <1>6, TakeStep

LEMMA EngineTickStep ==
  ASSUME EngineInv, EngineTick
  PROVE  EngineInv' /\ PipeKept
<1>1. PICK c \in Ticks : Take(c) /\ caller' = [caller EXCEPT ![c] = "waiting"]
  BY DEF EngineTick
<1>2. /\ engine.pc = "idle" /\ UNCHANGED <<engineRest, commitQ, ackQ, snapper>>
      /\ UNCHANGED ingress
  BY DEF EngineTick
<1>3. c \in Commands
  BY EngineAssumption
<1>4. IngressShape'
  BY <1>2 DEF EngineInv, Shapes, IngressShape
<1>5. caller \in [Commands -> {"idle", "waiting", "shed", "acked", "unknown"}]
  BY DEF EngineInv, Shapes, ProcessShape
<1>6. /\ caller' \in [Commands -> {"idle", "waiting", "shed", "acked", "unknown"}]
      /\ \A d \in Commands : caller'[d] = "acked" => caller[d] = "acked"
  BY <1>1, <1>5
<1> QED BY <1>1, <1>2, <1>3, <1>4, <1>6, TakeStep

(* A step that only moves the engine, and perhaps ends it. *)
LEMMA EngineOnlyMoves ==
  ASSUME EngineInv, NEW pc \in {"stopped", "next", "idle"}, engine' = [engine EXCEPT !.pc = pc],
         engine.pc # "stopped", engine.pc = "submit" => pc = "stopped",
         UNCHANGED <<engineRest, commitQ, ackQ, standby, snapper>>, IngressShape',
         caller' \in [Commands -> {"idle", "waiting", "shed", "acked", "unknown"}],
         \A d \in Commands : caller'[d] = "acked" => caller[d] = "acked"
  PROVE  EngineInv' /\ PipeKept
<1>0. Shapes /\ Downs /\ UNCHANGED engineRest /\ UNCHANGED <<commitQ, ackQ, standby, snapper>>
  BY DEF EngineInv
<1>1. up
  BY <1>0, UpWhen
<1>2. /\ UNCHANGED <<log, synced, durable, running, up, commit, watermark, ack, snapshots>>
      /\ UNCHANGED <<stopping, told, starts>>
      /\ LogShape' /\ CommitShape' /\ MarkShape' /\ SnapshotShape' /\ Downs'
      /\ caller' \in [Commands -> {"idle", "waiting", "shed", "acked", "unknown"}] => ProcessShape'
      /\ ackQ' \in Seq(Record) => AckShape'
      /\ Numbers
  BY <1>0, <1>1, EngineRest
<1>3. /\ engine'.pc = pc /\ engine'.state = engine.state /\ engine'.rec = engine.rec
      /\ engine'.next_seq = engine.next_seq /\ EngineShape'
  <2>1. EngineShape /\ pc \in EnginePcs /\ pc \notin {"submit", "pending", "snapshot", "settle"}
    BY <1>0 DEF Shapes, EnginePcs
  <2> QED BY <2>1, EngineMoves
<1>4. Shapes'
  <2>1. QueueShape' /\ SnapperShape' /\ StandbyShape' /\ ackQ' \in Seq(Record)
    BY <1>0 DEF Shapes, QueueShape, SnapperShape, AckShape, StandbyShape
  <2> QED BY <1>2, <1>3, <2>1 DEF Shapes
<1>5. Numbers'
  BY <1>0, <1>2, <1>3, NumbersStay
<1>6. Pending' \subseteq Pending
  BY <1>0, <1>2, <1>3 DEF Pending, Recs
<1>7. Members' /\ Stops' /\ PipeKept /\ Covered'
  BY <1>0, <1>2, <1>3, <1>6, QuietStep
<1> QED BY <1>2, <1>4, <1>5, <1>7, KeptPipe DEF EngineInv

LEMMA EngineIdles ==
  ASSUME EngineInv, EngineIdle \/ EngineWake
  PROVE  EngineInv' /\ PipeKept
<1>1. /\ UNCHANGED <<engineRest, commitQ, ackQ, standby, snapper>>
      /\ UNCHANGED caller /\ UNCHANGED ingress
  BY DEF EngineIdle, EngineWake
<1>2. PICK pc \in {"next", "idle"} : engine' = [engine EXCEPT !.pc = pc]
  BY DEF EngineIdle, EngineWake
<1>3. engine.pc \in {"next", "idle"}
  BY DEF EngineIdle, EngineWake
<1>4. IngressShape'
  BY <1>1 DEF EngineInv, Shapes, IngressShape
<1>5. caller' \in [Commands -> {"idle", "waiting", "shed", "acked", "unknown"}]
  BY <1>1 DEF EngineInv, Shapes, ProcessShape
<1>6. \A d \in Commands : caller'[d] = "acked" => caller[d] = "acked"
  BY <1>1
<1> QED BY <1>1, <1>2, <1>3, <1>4, <1>5, <1>6, EngineOnlyMoves

LEMMA EngineEnds ==
  ASSUME EngineInv, EngineSubmitFails \/ EnginePendingFails \/ EngineStop
  PROVE  EngineInv' /\ PipeKept
<1>1. PICK lost : EndEngine(lost)
  BY DEF EngineSubmitFails, EnginePendingFails, EngineStop
<1>2. engine.pc # "stopped"
  BY DEF EngineSubmitFails, EnginePendingFails, EngineStop
<1>3. /\ UNCHANGED <<engineRest, commitQ, ackQ, standby, snapper>>
      /\ engine' = [engine EXCEPT !.pc = "stopped"] /\ ingress' = <<>>
      /\ caller' = Dropped(lost \cup {ingress[i] : i \in DOMAIN ingress})
  BY <1>1 DEF EndEngine
<1>4. IngressShape'
  <2>1. <<>> \in Seq(Commands) /\ Len(<<>>) = 0 /\ QueueDepth \in Nat
    BY EngineAssumption
  <2> QED BY <1>3, <2>1 DEF IngressShape
<1>5. /\ caller' \in [Commands -> {"idle", "waiting", "shed", "acked", "unknown"}]
      /\ \A d \in Commands : caller'[d] = "acked" => caller[d] = "acked"
  BY <1>3, DroppedType DEF EngineInv, Shapes
<1> QED BY <1>2, <1>3, <1>4, <1>5, EngineOnlyMoves

(* The record is queued for the log, and the engine goes on to queue it    *)
(* for the ack thread: it becomes pending above both marks.                *)
LEMMA EngineSubmitStep ==
  ASSUME EngineInv, EngineSubmit
  PROVE  EngineInv' /\ PipeKept
<1>1. /\ engine.pc = "submit" /\ commit.pc # "gone" /\ Len(commitQ) < SubmitDepth
      /\ commitQ' = Append(commitQ, engine.rec) /\ engine' = [engine EXCEPT !.pc = "pending"]
      /\ UNCHANGED engineRest /\ UNCHANGED <<caller, ingress, ackQ, standby, snapper>>
  BY DEF EngineSubmit
<1>2. up
  BY <1>1, UpWhen DEF EngineInv
<1>3. /\ UNCHANGED <<log, synced, durable, running, up, commit, watermark, ack, snapshots>>
      /\ UNCHANGED <<stopping, told, starts>>
      /\ LogShape' /\ CommitShape' /\ MarkShape' /\ SnapshotShape' /\ Downs'
      /\ caller' \in [Commands -> {"idle", "waiting", "shed", "acked", "unknown"}] => ProcessShape'
      /\ ackQ' \in Seq(Record) => AckShape'
      /\ Shapes /\ Numbers /\ Members /\ Stops /\ Pipe /\ Covered
  BY <1>1, <1>2, EngineRest
<1>4. engine.rec \in Record /\ engine.rec \in Msg /\ engine.rec.seq \in Nat /\ ~IsStop(engine.rec)
  <2>1. engine.rec \in Record /\ engine.rec \in Msg
    BY <1>1, <1>3, EngineFields DEF Shapes
  <2>2. engine.rec.seq \in 0..MaxSeq
    BY <2>1 DEF Record
  <2> QED BY <2>1, <2>2 DEF IsStop, NoSeq
<1>5. /\ engine'.pc = "pending" /\ engine'.state = engine.state /\ engine'.rec = engine.rec
      /\ engine'.next_seq = engine.next_seq /\ EngineShape'
  <2>1. EngineShape /\ "pending" \in EnginePcs
    BY <1>3 DEF Shapes, EnginePcs
  <2> QED BY <1>1, <1>4, <2>1, EngineMoves
<1>6. commitQ \in Seq(Msg) /\ Len(commitQ) <= SubmitDepth /\ SubmitDepth \in Nat
  BY <1>3, EngineAssumption DEF Shapes, QueueShape
<1>7. /\ commitQ' \in Seq(Msg) /\ Len(commitQ') = Len(commitQ) + 1 /\ Len(commitQ) \in Nat
      /\ commitQ'[Len(commitQ) + 1] = engine.rec
      /\ \A i \in 1..Len(commitQ) : commitQ'[i] = commitQ[i]
  BY <1>1, <1>4, <1>6, AppendParts
<1>8. Shapes'
  <2>1. QueueShape'
    BY <1>1, <1>6, <1>7 DEF QueueShape
  <2>2. /\ SnapperShape' /\ StandbyShape' /\ IngressShape' /\ ackQ' \in Seq(Record)
        /\ caller' \in [Commands -> {"idle", "waiting", "shed", "acked", "unknown"}]
    BY <1>1, <1>3 DEF Shapes, SnapperShape, AckShape, StandbyShape, IngressShape, ProcessShape
  <2> QED BY <1>3, <1>5, <2>1, <2>2 DEF Shapes
<1>9. Numbers'
  BY <1>1, <1>3, <1>5, NumbersStay
<1>10. Pending' = Pending \cup {engine.rec}
  BY <1>1, <1>3, <1>5 DEF Pending, Recs
<1>11. Members'
  <2>1. (Recs(commit.batch) \subseteq Recs(engine.state))'
    BY <1>3, <1>5, Zenon DEF Members
  <2>2. (\A i \in 1..Len(commitQ) : IsStop(commitQ[i]) \/ commitQ[i] \in Recs(engine.state))'
    <3> SUFFICES ASSUME NEW i \in 1..Len(commitQ')
                 PROVE  IsStop(commitQ'[i]) \/ commitQ'[i] \in Recs(engine.state)'
      BY DEF IsStop
    <3>1. Recs(engine.state)' = Recs(engine.state)
      BY <1>5
    <3>2. CASE i = Len(commitQ) + 1
      BY <1>1, <1>3, <1>7, <3>1, <3>2 DEF Members
    <3>3. CASE i \in 1..Len(commitQ)
      BY <1>3, <1>7, <3>1, <3>3 DEF Members
    <3> QED BY <1>7, <3>2, <3>3
  <2>3. (Pending \subseteq Recs(engine.state))'
    BY <1>1, <1>3, <1>5, <1>10 DEF Members
  <2> QED BY <1>5, <2>1, <2>2, <2>3 DEF Members
<1>12. Stops'
  <2>1. stopping \notin {"commit", "acks"} /\ ~StopSeen
    BY <1>1, <1>3 DEF Stops
  <2>2. \A i \in 1..Len(commitQ) : ~IsStop(commitQ[i])
    BY <1>3, <2>1 DEF Stops
  <2>3. \A i \in 1..Len(commitQ') : ~IsStop(commitQ'[i])
    <3> TAKE i \in 1..Len(commitQ')
    <3>1. i = Len(commitQ) + 1 \/ i \in 1..Len(commitQ)
      BY <1>7
    <3> QED BY <1>4, <1>7, <2>2, <3>1
  <2>4. (\A i \in 1..Len(commitQ) :
           IsStop(commitQ[i]) => i = Len(commitQ) /\ stopping \in {"commit", "acks"})'
    BY <2>3 DEF IsStop
  <2>5. ~StopSeen' /\ stopping' \notin {"commit", "acks"}
    BY <1>3, <2>1 DEF StopSeen
  <2>6. (/\ commit.pc \in {"recv", "gather"} => commit.then = "recv"
         /\ commit.pc \notin {"gather", "write"} => commit.batch = <<>>)'
    BY <1>3 DEF Stops
  <2> QED BY <2>4, <2>5, <2>6 DEF Stops
<1>13. ASSUME NEW f \in Nat, PipeAt(f)
       PROVE  /\ PipeAt(f)' /\ engine.rec.seq >= f /\ durable < f /\ watermark.durable < f
  <2> DEFINE n == Len(commit.batch)
  <2>1. n \in Nat
    BY <1>3, CommitFields DEF Shapes
  <2>2. engine.rec.seq = f + n + Len(commitQ)
    BY <1>1, <1>13 DEF PipeAt
  <2>3. engine.rec.seq >= f
    BY <1>7, <2>1, <2>2
  <2>4. (log # <<>> => LastSeq(log) = f - 1)'
    BY <1>3, <1>13 DEF PipeAt, LastSeq
  <2>5. (\A i \in 1..Len(commit.batch) : commit.batch[i].seq = f + (i - 1))'
    BY <1>3, <1>13 DEF PipeAt
  <2>6. (\A i \in 1..Len(commitQ) :
           IsStop(commitQ[i]) \/ commitQ[i].seq = f + Len(commit.batch) + (i - 1))'
    <3> SUFFICES ASSUME NEW i \in 1..Len(commitQ')
                 PROVE  IsStop(commitQ'[i]) \/ commitQ'[i].seq = f + n + (i - 1)
      BY <1>3 DEF IsStop
    <3>1. CASE i = Len(commitQ) + 1
      BY <1>7, <2>1, <2>2, <3>1
    <3>2. CASE i \in 1..Len(commitQ)
      BY <1>7, <1>13, <3>2 DEF PipeAt
    <3> QED BY <1>7, <3>1, <3>2
  <2>7. engine'.next_seq = f + n + Len(commitQ')
    <3>1. engine.rec.seq = engine.next_seq - 1 /\ engine.next_seq \in Int
      BY <1>1, <1>3, EngineFields DEF Members, Shapes
    <3>2. engine.next_seq = f + n + (Len(commitQ) + 1)
      <4> HIDE DEF n
      <4> QED BY <1>7, <2>1, <2>2, <3>1
    <3> QED BY <1>5, <1>7, <3>2
  <2>8. (engine.pc # "stopped" =>
           (IF engine.pc = "submit" THEN engine.rec.seq ELSE engine.next_seq)
             = f + Len(commit.batch) + Len(commitQ))'
    BY <1>3, <1>5, <2>7
  <2>9. durable < f /\ watermark.durable < f
    BY <1>13 DEF PipeAt
  <2>10. (\A r \in Pending : r \in Recs(log) \/ r.seq >= f)'
    BY <1>3, <1>10, <1>13, <2>3 DEF PipeAt, Recs
  <2>11. PipeAt(f)'
    BY <1>3, <2>4, <2>5, <2>6, <2>8, <2>9, <2>10 DEF PipeAt
  <2> QED BY <2>3, <2>9, <2>11
<1>14. PipeKept
  BY <1>3, <1>13 DEF PipeKept
<1>15. Covered'
  <2>1. PICK f \in Nat : PipeAt(f)
    BY <1>1, <1>3 DEF Pipe
  <2>2. engine.rec.seq >= f /\ durable < f /\ watermark.durable < f
    BY <1>13, <2>1
  <2>3. durable \in Int /\ watermark.durable \in Int
    BY <1>3 DEF Shapes, LogShape, MarkShape, NoSeq
  <2>4. ~(engine.rec.seq <= durable) /\ ~(engine.rec.seq <= watermark.durable)
    BY <1>4, <2>2, <2>3
  <2>5. Synced' = Synced
    BY <1>3 DEF Synced
  <2>6. (\A r \in Pending : r.seq <= watermark.durable => r \in Synced)'
    BY <1>3, <1>10, <2>4, <2>5 DEF Covered
  <2>7. (commit.pc = "publish" => \A r \in Pending : r.seq <= durable => r \in Synced)'
    BY <1>3, <1>10, <2>4, <2>5 DEF Covered
  <2>8. (/\ ack.pc \in {"replica", "tell"} => ack.rec \in Synced
         /\ ack.pc = "reply" => ack.rec \in told)'
    BY <1>3, <2>5 DEF Covered
  <2>9. ToldIsDurable'
    BY <1>1, <1>3 DEF Covered, ToldIsDurable
  <2> QED BY <2>6, <2>7, <2>8, <2>9 DEF Covered
<1> QED BY <1>3, <1>8, <1>9, <1>11, <1>12, <1>14, <1>15, KeptPipe DEF EngineInv

LEMMA EnginePendingStep ==
  ASSUME EngineInv, EnginePending
  PROVE  EngineInv' /\ PipeKept
<1>1. /\ engine.pc = "pending" /\ ackQ' = Append(ackQ, engine.rec)
      /\ engine' = [engine EXCEPT !.pc = "snapshot"]
      /\ UNCHANGED engineRest /\ UNCHANGED <<caller, ingress, commitQ, standby, snapper>>
  BY DEF EnginePending
<1>2. up
  BY <1>1, UpWhen DEF EngineInv
<1>3. /\ UNCHANGED <<log, synced, durable, running, up, commit, watermark, ack, snapshots>>
      /\ UNCHANGED <<stopping, told, starts>>
      /\ LogShape' /\ CommitShape' /\ MarkShape' /\ SnapshotShape' /\ Downs'
      /\ caller' \in [Commands -> {"idle", "waiting", "shed", "acked", "unknown"}] => ProcessShape'
      /\ ackQ' \in Seq(Record) => AckShape'
      /\ Shapes /\ Numbers /\ Pipe
  BY <1>1, <1>2, EngineRest
<1>4. engine.rec \in Record /\ ackQ \in Seq(Record)
  BY <1>1, <1>3, EngineFields, AckFields DEF Shapes
<1>5. /\ engine'.pc = "snapshot" /\ engine'.state = engine.state /\ engine'.rec = engine.rec
      /\ engine'.next_seq = engine.next_seq /\ EngineShape'
  <2>1. EngineShape /\ "snapshot" \in EnginePcs
    BY <1>3 DEF Shapes, EnginePcs
  <2> QED BY <1>1, <1>4, <2>1, EngineMoves
<1>6. ackQ' \in Seq(Record) /\ Recs(ackQ)' = Recs(ackQ) \cup {engine.rec}
  BY <1>1, <1>4, AppendParts, RecsParts
<1>7. Shapes'
  <2>1. /\ SnapperShape' /\ StandbyShape' /\ IngressShape' /\ QueueShape'
        /\ caller' \in [Commands -> {"idle", "waiting", "shed", "acked", "unknown"}]
    BY <1>1, <1>3 DEF Shapes, SnapperShape, QueueShape, StandbyShape, IngressShape, ProcessShape
  <2> QED BY <1>3, <1>5, <1>6, <2>1 DEF Shapes
<1>8. Numbers'
  BY <1>1, <1>3, <1>5, NumbersStay
<1>9. Pending' \subseteq Pending
  BY <1>1, <1>3, <1>5, <1>6 DEF Pending
<1>10. Members' /\ Stops' /\ PipeKept /\ Covered'
  BY <1>1, <1>3, <1>5, <1>9, QuietStep
<1> QED BY <1>3, <1>7, <1>8, <1>10, KeptPipe DEF EngineInv

LEMMA OfferStep ==
  ASSUME EngineInv, NEW due \in BOOLEAN, NEW settled \in BOOLEAN, NEW pc \in {"settle", "next"},
         engine.pc \in {"snapshot", "settle"}, OfferSnapshot(due, settled, pc)
  PROVE  EngineInv' /\ PipeKept
<1> DEFINE offered == due /\ snapper.queue = <<>>
<1>1. /\ snapper' = IF offered THEN [snapper EXCEPT !.queue = <<engine.state>>] ELSE snapper
      /\ engine' = [engine EXCEPT
           !.pc = pc,
           !.last_snapshot = IF offered THEN engine.rec.seq ELSE @,
           !.settled = @ \/ (offered /\ settled)]
      /\ UNCHANGED engineRest /\ UNCHANGED <<caller, ingress, commitQ, ackQ, standby>>
  BY DEF OfferSnapshot
<1>2. up
  BY UpWhen DEF EngineInv
<1>3. /\ UNCHANGED <<log, synced, durable, running, up, commit, watermark, ack, snapshots>>
      /\ UNCHANGED <<stopping, told, starts>>
      /\ LogShape' /\ CommitShape' /\ MarkShape' /\ SnapshotShape' /\ Downs'
      /\ caller' \in [Commands -> {"idle", "waiting", "shed", "acked", "unknown"}] => ProcessShape'
      /\ ackQ' \in Seq(Record) => AckShape'
      /\ Shapes /\ Numbers /\ Pipe
  BY <1>1, <1>2, EngineRest
<1> HIDE DEF offered
<1>4. /\ engine \in EngineState /\ engine.state \in Seq(Record) /\ engine.rec \in Record
      /\ engine.last_snapshot \in Int /\ engine.settled \in BOOLEAN
  BY <1>3, EngineFields DEF Shapes
<1>5. engine.rec.seq \in Int /\ offered \in BOOLEAN
  <2>1. engine.rec.seq \in 0..MaxSeq
    BY <1>4 DEF Record
  <2> QED BY <2>1 DEF offered
<1>6. /\ engine'.pc = pc /\ engine'.state = engine.state /\ engine'.rec = engine.rec
      /\ engine'.next_seq = engine.next_seq /\ EngineShape'
  <2> DEFINE ls == IF offered THEN engine.rec.seq ELSE engine.last_snapshot
             st == engine.settled \/ (offered /\ settled)
  <2>1. ls \in Int /\ st \in BOOLEAN /\ pc \in EnginePcs
    BY <1>4, <1>5 DEF EnginePcs
  <2>2. engine' = [engine EXCEPT !.pc = pc, !.last_snapshot = ls, !.settled = st]
    BY <1>1
  <2> HIDE DEF ls, st
  <2>3. /\ engine'.pc = pc /\ engine'.state = engine.state /\ engine'.rec = engine.rec
        /\ engine'.next_seq = engine.next_seq
    BY <1>4, <2>2 DEF EngineState
  <2>4. engine' \in EngineState
    BY <1>4, <2>1, <2>2 DEF EngineState
  <2> QED BY <1>4, <2>3, <2>4 DEF EngineShape
<1>7. /\ snapper \in [queue : Seq(Seq(Record)), writing : Seq(Seq(Record))]
      /\ Len(snapper.queue) <= 1
  BY <1>3 DEF Shapes, SnapperShape
<1>8. /\ <<engine.state>> \in Seq(Seq(Record)) /\ Len(<<engine.state>>) = 1
      /\ \A i \in 1..1 : <<engine.state>>[i] = engine.state
  BY <1>4
<1>9. /\ snapper' \in [queue : Seq(Seq(Record)), writing : Seq(Seq(Record))]
      /\ snapper'.writing = snapper.writing
      /\ snapper'.queue = <<engine.state>> \/ snapper'.queue = snapper.queue
  BY <1>1, <1>7, <1>8
<1>10. SnapperShape'
  <2>1. Len(snapper'.queue) <= 1
    <3>1. CASE snapper'.queue = <<engine.state>>
      <4>1. Len(snapper'.queue) = 1
        BY <1>8, <3>1, Zenon
      <4> QED BY <4>1
    <3>2. CASE snapper'.queue = snapper.queue
      BY <1>7, <3>2, Zenon
    <3> QED BY <1>9, <3>1, <3>2
  <2> QED BY <1>9, <2>1 DEF SnapperShape
<1>11. Shapes'
  <2>1. /\ StandbyShape' /\ IngressShape' /\ QueueShape' /\ ackQ' \in Seq(Record)
        /\ caller' \in [Commands -> {"idle", "waiting", "shed", "acked", "unknown"}]
    BY <1>1, <1>3 DEF Shapes, AckShape, QueueShape, StandbyShape, IngressShape, ProcessShape
  <2> QED BY <1>3, <1>6, <1>10, <2>1 DEF Shapes
<1>12. Numbers'
  <2>1. (/\ Numbered(log) /\ \A s \in snapshots : Numbered(s)
         /\ Numbered(engine.state)
         /\ engine.state # <<>> => engine.next_seq = LastSeq(engine.state) + 1)'
    BY <1>3, <1>6 DEF Numbers
  <2>2. (\A i \in 1..Len(snapper.queue) : Numbered(snapper.queue[i]))'
    BY <1>3, <1>8, <1>9 DEF Numbers
  <2>3. (\A i \in 1..Len(snapper.writing) : Numbered(snapper.writing[i]))'
    BY <1>3, <1>9 DEF Numbers
  <2>4. (standby.alive =>
           /\ \A i \in 1..Len(standby.queue) :
                standby.queue[i].seq = (engine.next_seq - Len(standby.queue)) + (i - 1)
           /\ standby.state # <<>> =>
                LastSeq(standby.state) = engine.next_seq - Len(standby.queue) - 1)'
    BY <1>1, <1>3, <1>6 DEF Numbers
  <2> QED BY <2>1, <2>2, <2>3, <2>4 DEF Numbers
<1>13. Pending' \subseteq Pending
  BY <1>1, <1>3, <1>6 DEF Pending, Recs
<1>14. Members' /\ Stops' /\ PipeKept /\ Covered'
  BY <1>1, <1>3, <1>6, <1>13, QuietStep
<1> QED BY <1>3, <1>11, <1>12, <1>14, KeptPipe DEF EngineInv

LEMMA EngineThreadStep ==
  ASSUME EngineInv, EngineStep
  PROVE  EngineInv' /\ PipeKept
<1>1. CASE EngineMaybeSnapshot
  <2>1. engine.pc = "snapshot" /\ OfferSnapshot(SnapshotDue, FALSE, "settle")
    BY <1>1 DEF EngineMaybeSnapshot
  <2>2. SnapshotDue \in BOOLEAN
    BY DEF SnapshotDue
  <2> QED BY <2>1, <2>2, OfferStep
<1>2. CASE EngineSettle
  <2> DEFINE due == CommandsOf(engine.state) \cap Ending # {} /\ ~engine.settled
  <2>1. engine.pc = "settle" /\ OfferSnapshot(due, TRUE, "next")
    BY <1>2 DEF EngineSettle
  <2>2. due \in BOOLEAN
    OBVIOUS
  <2> HIDE DEF due
  <2> QED BY <2>1, <2>2, OfferStep
<1> QED BY <1>1, <1>2, EngineTakeStep, EngineTickStep, EngineIdles, EngineEnds,
           EngineSubmitStep, EnginePendingStep DEF EngineStep

-----------------------------------------------------------------------------
(* The abstract log. *)
(* A step of the log keeps its type, and what was synced. *)
LEMMA LogStep ==
  ASSUME LogTypeOK, [LogNext]_logVars
  PROVE  /\ LogTypeOK'
         /\ synced <= synced' /\ synced <= Len(log')
         /\ \A i \in 1..synced : log'[i] = log[i]
<1> USE DEF LogTypeOK
<1>1. CASE \E r \in Record : LogAppend(r)
  <2>1. PICK r \in Record : LogAppend(r)
    BY <1>1
  <2>2. log' = Append(log, r) /\ synced' \in {synced, Len(log)}
    BY <2>1 DEF LogAppend
  <2>3. log' \in Seq(Record) /\ Len(log') = Len(log) + 1
    BY <2>2
  <2>4. \A i \in 1..Len(log) : log'[i] = log[i]
    BY <2>2
  <2> QED BY <2>2, <2>3, <2>4
<1>2. CASE LogSync
  BY <1>2 DEF LogSync
<1>3. CASE LogLose
  <2>1. PICK n \in synced..Len(log) : log' = SubSeq(log, 1, n)
    BY <1>3 DEF LogLose
  <2>2. n \in Nat /\ n <= Len(log)
    BY <2>1
  <2>3. log' \in Seq(Record) /\ Len(log') = n /\ \A i \in 1..n : log'[i] = log[i]
    BY <2>1, <2>2
  <2>4. synced' = synced
    BY <1>3 DEF LogLose
  <2> QED BY <2>1, <2>3, <2>4
<1>4. CASE LogOpen
  BY <1>4 DEF LogOpen
<1>5. CASE UNCHANGED logVars
  BY <1>5 DEF logVars
<1> QED BY <1>1, <1>2, <1>3, <1>4, <1>5 DEF LogNext

(* The synced prefix is always a prefix of the log (wal.rs:166-181). *)
THEOREM LogTypeCorrect == LogSpec => []LogTypeOK
<1>1. LogInit => LogTypeOK
  BY DEF LogInit, LogTypeOK
<1>2. LogTypeOK /\ [LogNext]_logVars => LogTypeOK'
  BY LogStep
<1> QED BY <1>1, <1>2, PTL DEF LogSpec

(***************************************************************************)
(* No record an fsync has covered is ever lost or replaced, whatever the   *)
(* crashes and restarts (wal.rs:166-181, invariant I6).                    *)
(***************************************************************************)
THEOREM SyncedRecordsStay == LogSpec => SyncedStays
<1>1. LogTypeOK /\ [LogNext]_logVars =>
        [/\ synced <= synced' /\ synced <= Len(log')
         /\ \A i \in 1..synced : log'[i] = log[i]]_logVars
  BY LogStep
<1> QED BY <1>1, LogTypeCorrect, PTL DEF LogSpec, SyncedStays

(* A step of the log keeps its numbers and what it has synced. *)
LEMMA LogNumbers ==
  ASSUME LogShape, Numbered(log), LogNext
  PROVE  /\ LogShape' /\ Numbered(log)' /\ Synced \subseteq Synced'
<1>0. log \in Seq(Record) /\ synced \in 0..Len(log) /\ running \in BOOLEAN
  BY DEF LogShape
<1>1. LogTypeOK
  BY <1>0 DEF LogTypeOK
<1>2. /\ LogTypeOK' /\ synced <= synced' /\ synced <= Len(log')
      /\ \A i \in 1..synced : log'[i] = log[i]
  BY <1>1, LogStep
<1>3. Synced \subseteq Synced'
  <2>1. synced \in Nat /\ synced' \in Nat
    BY <1>1, <1>2 DEF LogTypeOK
  <2>2. \A i \in 1..synced : i \in 1..synced' /\ log'[i] = log[i]
    BY <1>2, <2>1
  <2> QED BY <2>2 DEF Synced
<1>4. Numbered(log)'
  <2>1. CASE \E r \in Record : LogAppend(r)
    <3>1. PICK r \in Record : LogAppend(r)
      BY <2>1
    <3>2. log' = Append(log, r) /\ (log # <<>> => r.seq = LastSeq(log) + 1)
      <4>1. Follows(LastSeq(log), r) /\ log' = Append(log, r)
        BY <3>1 DEF LogAppend
      <4>2. log # <<>> => LastSeq(log) # NoSeq
        BY <1>0, LastSeqType
      <4> QED BY <4>1, <4>2 DEF Follows
    <3>3. Numbered(Append(log, r))
      BY <1>0, <3>2, NumberedAppend
    <3> QED BY <3>2, <3>3
  <2>2. CASE LogLose
    <3>1. PICK n \in synced..Len(log) : log' = SubSeq(log, 1, n)
      BY <2>2 DEF LogLose
    <3>2. n \in 0..Len(log)
      BY <1>0, <3>1
    <3>3. Numbered(SubSeq(log, 1, n))
      BY <1>0, <3>2, NumberedPrefix
    <3> QED BY <3>1, <3>3
  <2>3. CASE LogSync \/ LogOpen
    <3>1. log' = log
      BY <2>3 DEF LogSync, LogOpen
    <3> QED BY <3>1
  <2> QED BY <2>1, <2>2, <2>3 DEF LogNext
<1>5. durable' \in NoSeq..MaxSeq /\ running' \in BOOLEAN
  <2>1. durable \in NoSeq..MaxSeq /\ running \in BOOLEAN
    BY DEF LogShape
  <2>2. NoSeq \in NoSeq..MaxSeq /\ LastSeq(log) \in NoSeq..MaxSeq
    BY <1>0, LastSeqType, LogAssumption DEF NoSeq
  <2> QED BY <2>1, <2>2 DEF LogNext, LogAppend, LogSync, LogLose, LogOpen
<1> QED BY <1>2, <1>3, <1>4, <1>5 DEF LogShape, LogTypeOK

-----------------------------------------------------------------------------
(* The commit thread. *)

(* What every step of the commit thread leaves alone. *)
LEMMA CommitRest ==
  ASSUME EngineInv, UNCHANGED commitRest, commit.pc # "gone"
  PROVE  /\ UNCHANGED <<up, caller, ingress, engine, ackQ, ack, standby, snapper, snapshots>>
         /\ UNCHANGED <<stopping, told, starts>> /\ up
         /\ ProcessShape' /\ IngressShape' /\ EngineShape' /\ AckShape' /\ StandbyShape'
         /\ SnapperShape' /\ SnapshotShape' /\ Downs' /\ Pending' = Pending
         /\ Shapes /\ Numbers /\ Members /\ Stops /\ Pipe /\ Covered
         /\ Recs(engine.state)' = Recs(engine.state)
<1>1. /\ UNCHANGED <<up, caller, ingress, engine, ackQ, ack, standby, snapper, snapshots>>
      /\ UNCHANGED <<stopping, told, starts>>
  BY DEF commitRest
<1>2. Shapes /\ Downs /\ Numbers /\ Members /\ Stops /\ Pipe /\ Covered
  BY DEF EngineInv
<1>3. up
  BY <1>2, UpWhen
<1>4. ProcessShape' /\ IngressShape' /\ EngineShape' /\ AckShape'
  BY <1>1, <1>2 DEF Shapes, ProcessShape, IngressShape, EngineShape, AckShape
<1>5. StandbyShape' /\ SnapperShape' /\ SnapshotShape'
  BY <1>1, <1>2 DEF Shapes, StandbyShape, SnapperShape, SnapshotShape
<1>6. Downs'
  BY <1>1, <1>3 DEF Downs
<1>7. Pending' = Pending /\ Recs(engine.state)' = Recs(engine.state)
  BY <1>1 DEF Pending, Recs
<1> QED BY <1>1, <1>2, <1>3, <1>4, <1>5, <1>6, <1>7

(* A record moves from the queue to the batch. *)
LEMMA GatherStep ==
  ASSUME EngineInv, UNCHANGED commitRest, UNCHANGED <<log, synced, durable, running, watermark>>,
         commit.pc \in {"recv", "gather"}, commitQ # <<>>, ~IsStop(Head(commitQ)),
         Len(commit.batch) < MaxBatch, commitQ' = Tail(commitQ),
         commit' = [commit EXCEPT !.pc = "gather", !.batch = Append(commit.batch, Head(commitQ))]
  PROVE  EngineInv' /\ PipeKept
<1>1. /\ UNCHANGED <<up, caller, ingress, engine, ackQ, ack, standby, snapper, snapshots>>
      /\ UNCHANGED <<stopping, told, starts>> /\ up
      /\ ProcessShape' /\ IngressShape' /\ EngineShape' /\ AckShape' /\ StandbyShape'
      /\ SnapperShape' /\ SnapshotShape' /\ Downs' /\ Pending' = Pending
      /\ Shapes /\ Numbers /\ Members /\ Stops /\ Pipe /\ Covered
      /\ Recs(engine.state)' = Recs(engine.state)
  BY CommitRest
<1> DEFINE h == Head(commitQ)
           b == commit.batch
<1>2. commitQ \in Seq(Msg) /\ Len(commitQ) <= SubmitDepth /\ SubmitDepth \in Nat /\ MaxBatch \in Nat
  BY <1>1, EngineAssumption DEF Shapes, QueueShape
<1>3. /\ h \in Msg /\ commitQ' \in Seq(Msg) /\ Len(commitQ') = Len(commitQ) - 1
      /\ Len(commitQ) \in Nat /\ Len(commitQ) > 0 /\ 1 \in 1..Len(commitQ) /\ h = commitQ[1]
      /\ \A i \in 1..(Len(commitQ) - 1) : commitQ'[i] = commitQ[i + 1] /\ i + 1 \in 1..Len(commitQ)
  BY <1>2, QueueParts
<1>4. h \in Record
  BY <1>3, MsgParts
<1>5. commit \in CommitState /\ b \in Seq(Record) /\ commit.then = "recv"
  BY <1>1, CommitFields DEF Shapes, Stops
<1>6. /\ Append(b, h) \in Seq(Record) /\ Len(Append(b, h)) = Len(b) + 1 /\ Len(b) \in Nat
      /\ Append(b, h)[Len(b) + 1] = h /\ \A i \in 1..Len(b) : Append(b, h)[i] = b[i]
      /\ Recs(Append(b, h)) = Recs(b) \cup {h}
  BY <1>4, <1>5, AppendParts, RecsParts
<1>7. /\ commit'.pc = "gather" /\ commit'.batch = Append(b, h) /\ commit'.then = "recv"
      /\ commit' \in CommitState
  BY <1>5, <1>6 DEF CommitState, CommitPcs
<1> HIDE DEF h, b
<1>8. Shapes'
  <2>1. LogShape' /\ MarkShape'
    BY <1>1 DEF Shapes, LogShape, MarkShape
  <2>2. QueueShape'
    BY <1>2, <1>3 DEF QueueShape
  <2>3. CommitShape'
    <3>1. Len(commit'.batch) <= MaxBatch
      BY <1>2, <1>6, <1>7 DEF b
    <3> QED BY <1>7, <3>1 DEF CommitShape
  <2> QED BY <1>1, <2>1, <2>2, <2>3 DEF Shapes
<1>9. Numbers'
  BY <1>1, NumbersStay
<1>10. Members'
  <2>1. (Recs(commit.batch) \subseteq Recs(engine.state))'
    <3>1. Recs(b) \subseteq Recs(engine.state) /\ h \in Recs(engine.state)
      BY <1>1, <1>3 DEF Members, b, h
    <3> QED BY <1>1, <1>6, <1>7, <3>1
  <2>2. (\A i \in 1..Len(commitQ) : IsStop(commitQ[i]) \/ commitQ[i] \in Recs(engine.state))'
    <3> SUFFICES ASSUME NEW i \in 1..Len(commitQ')
                 PROVE  IsStop(commitQ'[i]) \/ commitQ'[i] \in Recs(engine.state)'
      BY DEF IsStop
    <3>1. i \in 1..(Len(commitQ) - 1)
      BY <1>3
    <3>2. commitQ'[i] = commitQ[i + 1] /\ i + 1 \in 1..Len(commitQ)
      BY <1>3, <3>1
    <3> QED BY <1>1, <3>2 DEF Members
  <2>3. (Pending \subseteq Recs(engine.state))'
    BY <1>1 DEF Members
  <2>4. (engine.pc = "submit" =>
           engine.rec \in Recs(engine.state) /\ engine.rec.seq = engine.next_seq - 1)'
    BY <1>1 DEF Members
  <2> QED BY <2>1, <2>2, <2>3, <2>4 DEF Members
<1>11. Stops'
  <2>1. ~StopSeen' /\ stopping' = stopping /\ engine'.pc = engine.pc
    BY <1>1, <1>7 DEF StopSeen
  <2>2. ASSUME NEW i \in 1..Len(commitQ'), IsStop(commitQ'[i])
        PROVE  i = Len(commitQ') /\ stopping' \in {"commit", "acks"}
    <3>1. i \in 1..(Len(commitQ) - 1)
      BY <1>3
    <3>2. commitQ'[i] = commitQ[i + 1] /\ i + 1 \in 1..Len(commitQ)
      BY <1>3, <3>1
    <3>3. i + 1 = Len(commitQ) /\ stopping \in {"commit", "acks"}
      BY <1>1, <2>2, <3>2 DEF Stops
    <3> QED BY <1>1, <1>3, <3>1, <3>3
  <2>3. (\A i \in 1..Len(commitQ) :
           IsStop(commitQ[i]) => i = Len(commitQ) /\ stopping \in {"commit", "acks"})'
    BY <2>2 DEF IsStop
  <2>4. (stopping \in {"commit", "acks"} => engine.pc = "stopped")'
    BY <1>1, <2>1 DEF Stops
  <2> QED BY <1>7, <2>1, <2>3, <2>4 DEF Stops
<1>12. ASSUME NEW f \in Nat, PipeAt(f) PROVE PipeAt(f)'
  <2>1. (log # <<>> => LastSeq(log) = f - 1)'
    BY <1>12 DEF PipeAt, LastSeq
  <2>2. h.seq = f + Len(b)
    <3>1. h.seq = f + Len(b) + (1 - 1)
      BY <1>3, <1>12 DEF PipeAt, h, b
    <3> QED BY <1>6, <3>1
  <2>3. \A i \in 1..(Len(b) + 1) : Append(b, h)[i].seq = f + (i - 1)
    <3> TAKE i \in 1..(Len(b) + 1)
    <3>1. CASE i = Len(b) + 1
      BY <1>6, <2>2, <3>1
    <3>2. CASE i \in 1..Len(b)
      BY <1>6, <1>12, <3>2 DEF PipeAt, b
    <3> QED BY <1>6, <3>1, <3>2
  <2>4. (\A i \in 1..Len(commit.batch) : commit.batch[i].seq = f + (i - 1))'
    BY <1>6, <1>7, <2>3
  <2>5. (\A i \in 1..Len(commitQ) :
           IsStop(commitQ[i]) \/ commitQ[i].seq = f + Len(commit.batch) + (i - 1))'
    <3> SUFFICES ASSUME NEW i \in 1..Len(commitQ')
                 PROVE  IsStop(commitQ'[i]) \/ commitQ'[i].seq = f + (Len(b) + 1) + (i - 1)
      BY <1>6, <1>7 DEF IsStop
    <3>1. i \in 1..(Len(commitQ) - 1)
      BY <1>3
    <3>2. commitQ'[i] = commitQ[i + 1] /\ i + 1 \in 1..Len(commitQ)
      BY <1>3, <3>1
    <3>3. IsStop(commitQ[i + 1]) \/ commitQ[i + 1].seq = f + Len(b) + ((i + 1) - 1)
      BY <1>12, <3>2 DEF PipeAt, b
    <3>4. f + Len(b) + ((i + 1) - 1) = f + (Len(b) + 1) + (i - 1)
      BY <1>6
    <3> QED BY <3>2, <3>3, <3>4
  <2>6. (engine.pc # "stopped" =>
           (IF engine.pc = "submit" THEN engine.rec.seq ELSE engine.next_seq)
             = f + Len(commit.batch) + Len(commitQ))'
    <3>1. f + Len(b) + Len(commitQ) = f + Len(commit'.batch) + Len(commitQ')
      BY <1>3, <1>6, <1>7
    <3> QED BY <1>1, <1>12, <3>1 DEF PipeAt, b
  <2>7. (durable < f /\ watermark.durable < f)'
    BY <1>12 DEF PipeAt
  <2>8. (\A r \in Pending : r \in Recs(log) \/ r.seq >= f)'
    BY <1>1, <1>12 DEF PipeAt
  <2> QED BY <2>1, <2>4, <2>5, <2>6, <2>7, <2>8 DEF PipeAt
<1>13. PipeKept
  BY <1>12 DEF PipeKept
<1>14. Covered'
  <2>1. Synced \subseteq Synced'
    BY DEF Synced
  <2> QED BY <1>1, <1>7, <2>1, CoveredStays
<1> QED BY <1>1, <1>8, <1>9, <1>10, <1>11, <1>13, <1>14, KeptPipe DEF EngineInv

(* The commit thread moves on, and perhaps takes the last message, a stop. *)
LEMMA CommitMoves ==
  ASSUME EngineInv, UNCHANGED commitRest, UNCHANGED <<log, synced, durable, running, watermark>>,
         commit.pc # "gone", commit'.pc \notin {"gone", "publish"}, CommitShape', Stops',
         commit'.batch = commit.batch,
         commitQ' = commitQ \/ (commitQ' = <<>> /\ engine.pc = "stopped")
  PROVE  EngineInv' /\ PipeKept
<1>1. /\ UNCHANGED <<up, caller, ingress, engine, ackQ, ack, standby, snapper, snapshots>>
      /\ UNCHANGED <<stopping, told, starts>> /\ up
      /\ ProcessShape' /\ IngressShape' /\ EngineShape' /\ AckShape' /\ StandbyShape'
      /\ SnapperShape' /\ SnapshotShape' /\ Downs' /\ Pending' = Pending
      /\ Shapes /\ Numbers /\ Members /\ Stops /\ Pipe /\ Covered
      /\ Recs(engine.state)' = Recs(engine.state)
  BY CommitRest
<1>2. Len(<<>>) = 0 /\ <<>> \in Seq(Msg) /\ SubmitDepth \in Nat
  BY EngineAssumption
<1>3. Shapes'
  <2>1. LogShape' /\ MarkShape'
    BY <1>1 DEF Shapes, LogShape, MarkShape
  <2>2. QueueShape'
    <3>1. commitQ \in Seq(Msg) /\ Len(commitQ) <= SubmitDepth
      BY <1>1 DEF Shapes, QueueShape
    <3>2. CASE commitQ' = commitQ
      BY <3>1, <3>2 DEF QueueShape
    <3>3. CASE commitQ' = <<>>
      BY <1>2, <3>3 DEF QueueShape
    <3> QED BY <3>2, <3>3
  <2> QED BY <1>1, <2>1, <2>2 DEF Shapes
<1>4. Numbers'
  BY <1>1, NumbersStay
<1>5. Members'
  <2>1. (\A i \in 1..Len(commitQ) : IsStop(commitQ[i]) \/ commitQ[i] \in Recs(engine.state))'
    BY <1>1, <1>2 DEF Members, IsStop
  <2>2. (Recs(commit.batch) \subseteq Recs(engine.state))'
    BY <1>1, Zenon DEF Members
  <2>3. (Pending \subseteq Recs(engine.state))'
    BY <1>1 DEF Members
  <2>4. (engine.pc = "submit" =>
           engine.rec \in Recs(engine.state) /\ engine.rec.seq = engine.next_seq - 1)'
    BY <1>1 DEF Members
  <2> QED BY <2>1, <2>2, <2>3, <2>4 DEF Members
<1>6. ASSUME NEW f \in Nat, PipeAt(f) PROVE PipeAt(f)'
  <2>1. (log # <<>> => LastSeq(log) = f - 1)'
    BY <1>6 DEF PipeAt, LastSeq
  <2>2. (\A i \in 1..Len(commit.batch) : commit.batch[i].seq = f + (i - 1))'
    BY <1>6 DEF PipeAt
  <2>3. (\A i \in 1..Len(commitQ) :
           IsStop(commitQ[i]) \/ commitQ[i].seq = f + Len(commit.batch) + (i - 1))'
    BY <1>2, <1>6 DEF PipeAt, IsStop
  <2>4. (engine.pc # "stopped" =>
           (IF engine.pc = "submit" THEN engine.rec.seq ELSE engine.next_seq)
             = f + Len(commit.batch) + Len(commitQ))'
    BY <1>1, <1>6 DEF PipeAt
  <2>5. (durable < f /\ watermark.durable < f)'
    BY <1>6 DEF PipeAt
  <2>6. (\A r \in Pending : r \in Recs(log) \/ r.seq >= f)'
    BY <1>1, <1>6 DEF PipeAt
  <2> QED BY <2>1, <2>2, <2>3, <2>4, <2>5, <2>6 DEF PipeAt
<1>7. PipeKept
  BY <1>6 DEF PipeKept
<1>8. Covered'
  <2>1. Synced \subseteq Synced'
    BY DEF Synced
  <2> QED BY <1>1, <2>1, CoveredStays
<1> QED BY <1>1, <1>3, <1>4, <1>5, <1>7, <1>8, KeptPipe DEF EngineInv

(* A stop that is taken was the last message. *)
LEMMA StopTaken ==
  ASSUME EngineInv, commitQ # <<>>, IsStop(Head(commitQ))
  PROVE  Tail(commitQ) = <<>> /\ stopping \in {"commit", "acks"} /\ engine.pc = "stopped"
<1>1. Stops /\ commitQ \in Seq(Msg)
  BY DEF EngineInv, Shapes, QueueShape
<1>2. /\ 1 \in 1..Len(commitQ) /\ Head(commitQ) = commitQ[1] /\ Len(Tail(commitQ)) = Len(commitQ) - 1
      /\ Tail(commitQ) \in Seq(Msg) /\ Len(commitQ) \in Nat
  BY <1>1, QueueParts
<1>3. 1 = Len(commitQ) /\ stopping \in {"commit", "acks"}
  BY <1>1, <1>2 DEF Stops
<1>4. Tail(commitQ) = <<>>
  <2>1. Len(Tail(commitQ)) = 0
    BY <1>2, <1>3
  <2>2. \A q \in Seq(Msg) : Len(q) = 0 => q = <<>>
    OBVIOUS
  <2> QED BY <1>2, <2>1, <2>2
<1> QED BY <1>1, <1>3, <1>4 DEF Stops

LEMMA CommitReceives ==
  ASSUME EngineInv, CommitRecv \/ CommitGather
  PROVE  EngineInv' /\ PipeKept
<1>1. /\ commit.pc \in {"recv", "gather"} /\ commitQ # <<>> /\ commitQ' = Tail(commitQ)
      /\ UNCHANGED commitRest /\ UNCHANGED <<log, synced, durable, running, watermark>>
  BY DEF CommitRecv, CommitGather, logVars
<1>2. Stops /\ CommitShape /\ MaxBatch \in Nat \ {0}
  BY EngineAssumption DEF EngineInv, Shapes
<1>3. /\ commit \in CommitState /\ commit.batch \in Seq(Record) /\ commit.then = "recv"
      /\ commit.pc = "recv" => commit.batch = <<>>
  BY <1>1, <1>2, CommitFields DEF Stops
<1>4. CASE ~IsStop(Head(commitQ))
  <2> DEFINE h == Head(commitQ)
  <2>1. CASE CommitRecv
    <3>1. commit' = [commit EXCEPT !.pc = "gather", !.batch = <<h>>] /\ commit.batch = <<>>
      BY <1>3, <1>4, <2>1 DEF CommitRecv
    <3>2. Append(<<>>, h) = <<h>> /\ Len(<<>>) = 0 /\ 0 < MaxBatch
      BY <1>2
    <3>3. commit' = [commit EXCEPT !.pc = "gather", !.batch = Append(commit.batch, h)]
          /\ Len(commit.batch) < MaxBatch
      BY <3>1, <3>2
    <3> QED BY <1>1, <1>4, <3>3, GatherStep
  <2>2. CASE CommitGather
    <3>1. /\ commit' = [commit EXCEPT !.batch = Append(@, h)] /\ commit.pc = "gather"
          /\ Len(commit.batch) < MaxBatch
      BY <1>4, <2>2 DEF CommitGather
    <3>2. commit' = [commit EXCEPT !.pc = "gather", !.batch = Append(commit.batch, h)]
      BY <1>3, <3>1 DEF CommitState
    <3> QED BY <1>1, <1>4, <3>1, <3>2, GatherStep
  <2> QED BY <2>1, <2>2
<1>5. CASE IsStop(Head(commitQ))
  <2>1. commitQ' = <<>> /\ stopping \in {"commit", "acks"} /\ engine.pc = "stopped"
    BY <1>1, <1>5, StopTaken
  <2>2. \/ commit' = [commit EXCEPT !.pc = "drain"] /\ commit.pc = "recv"
        \/ commit' = [commit EXCEPT !.pc = "write", !.then = "drain"] /\ Len(commit.batch) < MaxBatch
    BY <1>5 DEF CommitRecv, CommitGather
  <2>3. /\ commit'.pc \in {"drain", "write"} /\ commit'.batch = commit.batch
        /\ commit'.pc = "drain" => commit.batch = <<>>
        /\ commit' \in CommitState
    BY <1>3, <2>2 DEF CommitState, CommitPcs
  <2>4. CommitShape'
    <3>1. Len(commit.batch) <= MaxBatch
      <4>1. Len(commit.batch) \in Nat /\ Len(<<>>) = 0
        BY <1>3
      <4> QED BY <1>2, <1>3, <2>2, <4>1
    <3> QED BY <2>3, <3>1 DEF CommitShape
  <2>5. engine' = engine /\ stopping' = stopping
    BY <1>1 DEF commitRest
  <2>6. Stops'
    <3>1. Len(commitQ') = 0
      BY <2>1
    <3>2. (\A i \in 1..Len(commitQ) :
             IsStop(commitQ[i]) => i = Len(commitQ) /\ stopping \in {"commit", "acks"})'
      BY <3>1
    <3> QED BY <2>1, <2>3, <2>5, <3>2 DEF Stops
  <2> QED BY <1>1, <2>1, <2>3, <2>4, <2>6, CommitMoves
<1> QED BY <1>4, <1>5

LEMMA CommitLingers ==
  ASSUME EngineInv, CommitLinger
  PROVE  EngineInv' /\ PipeKept
<1>1. /\ commit.pc = "gather" /\ commit' = [commit EXCEPT !.pc = "write"] /\ commitQ' = commitQ
      /\ UNCHANGED commitRest /\ UNCHANGED <<log, synced, durable, running, watermark>>
  BY DEF CommitLinger, logVars
<1>2. Stops /\ CommitShape
  BY DEF EngineInv, Shapes
<1>3. /\ commit \in CommitState /\ commit.then = "recv"
      /\ Len(commit.batch) <= MaxBatch \/ commit.then = "close"
  BY <1>1, <1>2, CommitFields DEF Stops
<1>4. /\ commit'.pc = "write" /\ commit'.batch = commit.batch /\ commit'.then = "recv"
      /\ commit' \in CommitState
  BY <1>1, <1>3 DEF CommitState, CommitPcs
<1>5. CommitShape'
  BY <1>3, <1>4 DEF CommitShape
<1>6. engine' = engine /\ stopping' = stopping
  BY <1>1 DEF commitRest
<1>7. Stops'
  BY <1>1, <1>2, <1>4, <1>6 DEF Stops, StopSeen, IsStop
<1> QED BY <1>1, <1>4, <1>5, <1>7, CommitMoves

(* Nothing was queued behind the stop. *)
LEMMA CommitDrains ==
  ASSUME EngineInv, CommitDrain
  PROVE  EngineInv' /\ PipeKept
<1>1. /\ commit.pc = "drain" /\ commitQ' = <<>>
      /\ commit' = IF After(commitQ, NoSeq) = <<>> THEN [commit EXCEPT !.pc = "close"]
                   ELSE [pc |-> "write", batch |-> After(commitQ, NoSeq), then |-> "close"]
      /\ UNCHANGED commitRest /\ UNCHANGED <<log, synced, durable, running, watermark>>
  BY DEF CommitDrain, logVars
<1>2. Stops /\ CommitShape
  BY DEF EngineInv, Shapes
<1>3. commitQ = <<>> /\ stopping \in {"commit", "acks"} /\ engine.pc = "stopped" /\ commit.batch = <<>>
  BY <1>1, <1>2 DEF Stops, StopSeen
<1>4. After(<<>>, NoSeq) = <<>>
  <2>1. <<>> \in Seq(Msg) /\ Len(<<>>) = 0
    OBVIOUS
  <2>2. PICK kept : Filters(kept, <<>>, NoSeq, Len(<<>>)) /\ After(<<>>, NoSeq) = kept[Len(<<>>)]
    BY <2>1, AfterFilters
  <2> QED BY <2>1, <2>2 DEF Filters
<1>5. commit' = [commit EXCEPT !.pc = "close"]
  BY <1>1, <1>3, <1>4
<1>6. /\ commit \in CommitState /\ (Len(commit.batch) <= MaxBatch \/ commit.then = "close")
  BY <1>2, CommitFields
<1>7. /\ commit'.pc = "close" /\ commit'.batch = commit.batch /\ commit'.then = commit.then
      /\ commit' \in CommitState
  BY <1>5, <1>6 DEF CommitState, CommitPcs
<1>8. CommitShape'
  BY <1>6, <1>7 DEF CommitShape
<1>9. engine' = engine /\ stopping' = stopping
  BY <1>1 DEF commitRest
<1>10. Stops'
  <2>1. Len(commitQ') = 0
    BY <1>1
  <2>2. (\A i \in 1..Len(commitQ) :
           IsStop(commitQ[i]) => i = Len(commitQ) /\ stopping \in {"commit", "acks"})'
    BY <2>1
  <2> QED BY <1>1, <1>3, <1>7, <1>9, <2>2 DEF Stops
<1> QED BY <1>1, <1>3, <1>7, <1>8, <1>10, CommitMoves

(* Appending the first record of the batch: the next one is expected. *)
LEMMA CommitAppends ==
  ASSUME EngineInv, CommitAppend
  PROVE  EngineInv' /\ \A f \in Nat : PipeAt(f) => PipeAt(f + 1)'
<1> DEFINE b == commit.batch
           h == Head(b)
<1>1. /\ commit.pc = "write" /\ b # <<>> /\ LogAppend(h) /\ commit' = [commit EXCEPT !.batch = Tail(b)]
      /\ UNCHANGED commitRest /\ UNCHANGED <<commitQ, watermark>>
  BY DEF CommitAppend
<1>2. /\ UNCHANGED <<up, caller, ingress, engine, ackQ, ack, standby, snapper, snapshots>>
      /\ UNCHANGED <<stopping, told, starts>> /\ up
      /\ ProcessShape' /\ IngressShape' /\ EngineShape' /\ AckShape' /\ StandbyShape'
      /\ SnapperShape' /\ SnapshotShape' /\ Downs' /\ Pending' = Pending
      /\ Shapes /\ Numbers /\ Members /\ Stops /\ Pipe /\ Covered
      /\ Recs(engine.state)' = Recs(engine.state)
  BY <1>1, CommitRest
<1>3. /\ commit \in CommitState /\ b \in Seq(Record)
      /\ Len(b) <= MaxBatch \/ commit.then = "close"
  BY <1>2, CommitFields DEF Shapes
<1>4. /\ h \in Record /\ Tail(b) \in Seq(Record) /\ Len(Tail(b)) = Len(b) - 1 /\ Len(b) \in Nat
      /\ Len(b) > 0 /\ 1 \in 1..Len(b) /\ h = b[1]
      /\ \A i \in 1..(Len(b) - 1) : Tail(b)[i] = b[i + 1] /\ i + 1 \in 1..Len(b)
  BY <1>1, <1>3, QueueParts
<1>5. h \in Recs(b) /\ Recs(Tail(b)) \subseteq Recs(b) /\ h.seq \in Nat
  <2>1. h.seq \in 0..MaxSeq
    BY <1>4 DEF Record
  <2> QED BY <1>1, <1>3, <2>1, RecsParts
<1>6. /\ commit'.pc = "write" /\ commit'.batch = Tail(b) /\ commit'.then = commit.then
      /\ commit' \in CommitState
  BY <1>1, <1>3, <1>4 DEF CommitState
<1>7. log' = Append(log, h) /\ durable' = durable
  BY <1>1 DEF LogAppend
<1>8. LogShape /\ Numbered(log) /\ log \in Seq(Record) /\ durable \in Int /\ watermark.durable \in Int
  BY <1>2 DEF Shapes, LogShape, MarkShape, Numbers, NoSeq
<1>9. LogShape' /\ Numbered(log)' /\ Synced \subseteq Synced'
  <2>1. LogNext
    BY <1>1, <1>4 DEF LogNext
  <2> QED BY <1>8, <2>1, LogNumbers
<1>10. /\ Len(log') = Len(log) + 1 /\ Len(log) \in Nat /\ log' # <<>>
       /\ log'[Len(log) + 1] = h /\ Recs(log)' = Recs(log) \cup {h}
  BY <1>4, <1>7, <1>8, AppendParts, RecsParts
<1> HIDE DEF b, h
<1>11. Shapes'
  <2>1. QueueShape' /\ MarkShape'
    BY <1>1, <1>2 DEF Shapes, QueueShape, MarkShape
  <2>2. CommitShape'
    <3>1. Len(commit'.batch) <= MaxBatch \/ commit'.then = "close"
      BY <1>3, <1>4, <1>6, EngineAssumption
    <3> QED BY <1>6, <3>1 DEF CommitShape
  <2> QED BY <1>2, <1>9, <2>1, <2>2 DEF Shapes
<1>12. Numbers'
  BY <1>2, <1>9 DEF Numbers
<1>13. Members'
  <2>1. (Recs(commit.batch) \subseteq Recs(engine.state))'
    BY <1>2, <1>5, <1>6 DEF Members, b
  <2>2. (\A i \in 1..Len(commitQ) : IsStop(commitQ[i]) \/ commitQ[i] \in Recs(engine.state))'
    BY <1>1, <1>2 DEF Members, IsStop
  <2>3. (Pending \subseteq Recs(engine.state))'
    BY <1>2 DEF Members
  <2>4. (engine.pc = "submit" =>
           engine.rec \in Recs(engine.state) /\ engine.rec.seq = engine.next_seq - 1)'
    BY <1>2 DEF Members
  <2> QED BY <2>1, <2>2, <2>3, <2>4 DEF Members
<1>14. Stops'
  BY <1>1, <1>2, <1>6 DEF Stops, StopSeen, IsStop
<1>15. ASSUME NEW f \in Nat, PipeAt(f) PROVE PipeAt(f + 1)'
  <2>1. h.seq = f
    <3>1. h.seq = f + (1 - 1)
      BY <1>4, <1>15 DEF PipeAt, b
    <3> QED BY <3>1
  <2>2. (log # <<>> => LastSeq(log) = (f + 1) - 1)'
    <3>1. LastSeq(log') = h.seq
      BY <1>10 DEF LastSeq
    <3> QED BY <2>1, <3>1
  <2>3. (\A i \in 1..Len(commit.batch) : commit.batch[i].seq = (f + 1) + (i - 1))'
    <3> SUFFICES ASSUME NEW i \in 1..(Len(b) - 1) PROVE Tail(b)[i].seq = (f + 1) + (i - 1)
      BY <1>4, <1>6
    <3>1. b[i + 1].seq = f + ((i + 1) - 1)
      BY <1>4, <1>15 DEF PipeAt, b
    <3>2. f + ((i + 1) - 1) = (f + 1) + (i - 1)
      BY <1>4
    <3> QED BY <1>4, <3>1, <3>2
  <2>4. (\A i \in 1..Len(commitQ) :
           IsStop(commitQ[i]) \/ commitQ[i].seq = (f + 1) + Len(commit.batch) + (i - 1))'
    <3>1. f + Len(b) = (f + 1) + Len(commit'.batch)
      BY <1>4, <1>6
    <3>2. \A i \in 1..Len(commitQ) : IsStop(commitQ[i]) \/ commitQ[i].seq = f + Len(b) + (i - 1)
      BY <1>15 DEF PipeAt, b
    <3> QED BY <1>1, <3>1, <3>2 DEF IsStop
  <2>5. (engine.pc # "stopped" =>
           (IF engine.pc = "submit" THEN engine.rec.seq ELSE engine.next_seq)
             = (f + 1) + Len(commit.batch) + Len(commitQ))'
    <3>1. f + Len(b) + Len(commitQ) = (f + 1) + Len(commit'.batch) + Len(commitQ')
      BY <1>1, <1>4, <1>6
    <3> QED BY <1>2, <1>15, <3>1 DEF PipeAt, b
  <2>6. (durable < f + 1 /\ watermark.durable < f + 1)'
    <3>1. durable < f /\ watermark.durable < f
      BY <1>15 DEF PipeAt
    <3> QED BY <1>1, <1>7, <1>8, <3>1
  <2>7. ASSUME NEW r \in Pending PROVE r \in Recs(log)' \/ r.seq >= f + 1
    <3>1. r \in Recs(engine.state) /\ engine.state \in Seq(Record) /\ Numbered(engine.state)
      BY <1>2, EngineFields DEF Members, Numbers, Shapes
    <3>2. r.seq \in Int
      <4>1. r \in Record
        BY <3>1, RecsParts
      <4> QED BY <4>1 DEF Record
    <3>3. h \in Recs(engine.state)
      BY <1>2, <1>5 DEF Members, b
    <3>4. CASE r \in Recs(log)
      BY <1>10, <3>4
    <3>5. CASE r.seq = f
      <4>1. r = h
        BY <2>1, <3>1, <3>3, <3>5, NumberedUnique
      <4> QED BY <1>10, <4>1
    <3>6. CASE r.seq >= f /\ r.seq # f
      BY <3>2, <3>6
    <3> QED BY <1>15, <3>4, <3>5, <3>6 DEF PipeAt
  <2>8. (\A r \in Pending : r \in Recs(log) \/ r.seq >= f + 1)'
    BY <1>2, <2>7
  <2> QED BY <2>2, <2>3, <2>4, <2>5, <2>6, <2>8 DEF PipeAt
<1>16. Pipe'
  <2>1. PICK f \in Nat : PipeAt(f)
    BY <1>1, <1>2 DEF Pipe
  <2>2. PipeAt(f + 1)' /\ f + 1 \in Nat
    BY <1>15, <2>1
  <2> QED BY <2>2 DEF Pipe
<1>17. Covered'
  BY <1>1, <1>2, <1>6, <1>9, CoveredStays
<1> QED BY <1>2, <1>11, <1>12, <1>13, <1>14, <1>15, <1>16, <1>17 DEF EngineInv

(* What is logged is synced: the mark about to be published is covered. *)
LEMMA CommitSyncs ==
  ASSUME EngineInv, CommitSync
  PROVE  EngineInv' /\ PipeKept
<1>1. /\ commit.pc = "write" /\ commit.batch = <<>> /\ LogSync
      /\ commit' = [commit EXCEPT !.pc = "publish"]
      /\ UNCHANGED commitRest /\ UNCHANGED <<commitQ, watermark>>
  BY DEF CommitSync
<1>2. /\ UNCHANGED <<up, caller, ingress, engine, ackQ, ack, standby, snapper, snapshots>>
      /\ UNCHANGED <<stopping, told, starts>> /\ up
      /\ ProcessShape' /\ IngressShape' /\ EngineShape' /\ AckShape' /\ StandbyShape'
      /\ SnapperShape' /\ SnapshotShape' /\ Downs' /\ Pending' = Pending
      /\ Shapes /\ Numbers /\ Members /\ Stops /\ Pipe /\ Covered
      /\ Recs(engine.state)' = Recs(engine.state)
  BY <1>1, CommitRest
<1>3. commit \in CommitState /\ (Len(commit.batch) <= MaxBatch \/ commit.then = "close")
  BY <1>2, CommitFields DEF Shapes
<1>4. /\ commit'.pc = "publish" /\ commit'.batch = commit.batch /\ commit'.then = commit.then
      /\ commit' \in CommitState
  BY <1>1, <1>3 DEF CommitState, CommitPcs
<1>5. log' = log /\ synced' = Len(log) /\ durable' = LastSeq(log)
  BY <1>1 DEF LogSync
<1>6. LogShape /\ Numbered(log) /\ log \in Seq(Record)
  BY <1>2 DEF Shapes, LogShape, Numbers
<1>7. LogShape' /\ Numbered(log)' /\ Synced \subseteq Synced' /\ Synced' = Recs(log)
  <2>1. LogNext
    BY <1>1 DEF LogNext
  <2>2. Synced' = Recs(log)
    BY <1>5 DEF Synced, Recs
  <2> QED BY <1>6, <2>1, <2>2, LogNumbers
<1>8. Shapes'
  <2>1. QueueShape' /\ MarkShape'
    BY <1>1, <1>2 DEF Shapes, QueueShape, MarkShape
  <2>2. CommitShape'
    BY <1>3, <1>4 DEF CommitShape
  <2> QED BY <1>2, <1>7, <2>1, <2>2 DEF Shapes
<1>9. Numbers'
  BY <1>2, <1>7 DEF Numbers
<1>10. Members'
  <2>1. Recs(commit.batch)' \subseteq Recs(commit.batch) /\ Recs(engine.state) \subseteq Recs(engine.state)'
    BY <1>2, <1>4
  <2> QED BY <1>1, <1>2, <2>1, MembersStay
<1>11. Stops'
  BY <1>1, <1>2, <1>4 DEF Stops, StopSeen, IsStop
<1>12. ASSUME NEW f \in Nat, PipeAt(f) PROVE PipeAt(f)' /\ durable' < f
  <2>1. durable' < f
    <3>1. CASE log = <<>>
      <4>1. LastSeq(log) = -1
        BY <3>1 DEF LastSeq, NoSeq
      <4> QED BY <1>5, <4>1
    <3>2. CASE log # <<>>
      BY <1>5, <1>12, <3>2 DEF PipeAt
    <3> QED BY <3>1, <3>2
  <2>2. (log # <<>> => LastSeq(log) = f - 1)'
    BY <1>5, <1>12 DEF PipeAt, LastSeq
  <2>3. (\A i \in 1..Len(commit.batch) : commit.batch[i].seq = f + (i - 1))'
    BY <1>4, <1>12 DEF PipeAt
  <2>4. (\A i \in 1..Len(commitQ) :
           IsStop(commitQ[i]) \/ commitQ[i].seq = f + Len(commit.batch) + (i - 1))'
    BY <1>1, <1>4, <1>12 DEF PipeAt, IsStop
  <2>5. (engine.pc # "stopped" =>
           (IF engine.pc = "submit" THEN engine.rec.seq ELSE engine.next_seq)
             = f + Len(commit.batch) + Len(commitQ))'
    BY <1>1, <1>2, <1>4, <1>12 DEF PipeAt
  <2>6. (watermark.durable < f)'
    BY <1>1, <1>12 DEF PipeAt
  <2>7. (\A r \in Pending : r \in Recs(log) \/ r.seq >= f)'
    BY <1>2, <1>5, <1>12 DEF PipeAt, Recs
  <2> QED BY <2>1, <2>2, <2>3, <2>4, <2>5, <2>6, <2>7 DEF PipeAt
<1>13. PipeKept
  BY <1>1, <1>12 DEF PipeKept
<1>14. Covered'
  <2>1. PICK f \in Nat : PipeAt(f)
    BY <1>1, <1>2 DEF Pipe
  <2>2. durable' < f /\ durable' \in Int
    BY <1>7, <1>12, <2>1 DEF LogShape, NoSeq
  <2>3. ASSUME NEW r \in Pending, r.seq <= durable' PROVE r \in Synced'
    <3>1. r.seq \in Int
      <4>1. r \in Record
        BY <1>2, EngineFields, RecsParts DEF Members, Shapes
      <4> QED BY <4>1 DEF Record
    <3>2. ~(r.seq >= f)
      BY <2>2, <2>3, <3>1
    <3> QED BY <1>7, <2>1, <3>2 DEF PipeAt
  <2>4. (\A r \in Pending : r.seq <= watermark.durable => r \in Synced)'
    BY <1>1, <1>2, <1>7 DEF Covered
  <2>5. (commit.pc = "publish" => \A r \in Pending : r.seq <= durable => r \in Synced)'
    BY <1>2, <2>3
  <2>6. (/\ ack.pc \in {"replica", "tell"} => ack.rec \in Synced
         /\ ack.pc = "reply" => ack.rec \in told)'
    BY <1>2, <1>7 DEF Covered
  <2>7. ToldIsDurable'
    <3>1. told' \subseteq {log[i] : i \in 1..synced}'
      BY <1>2, <1>7 DEF Covered, ToldIsDurable, Synced
    <3>2. (\A c \in Commands : caller[c] = "acked" => c \in {r.cmd : r \in told})'
      BY <1>2 DEF Covered, ToldIsDurable
    <3> QED BY <3>1, <3>2 DEF ToldIsDurable
  <2> QED BY <2>4, <2>5, <2>6, <2>7 DEF Covered
<1> QED BY <1>2, <1>8, <1>9, <1>10, <1>11, <1>13, <1>14, KeptPipe DEF EngineInv

LEMMA CommitPublishes ==
  ASSUME EngineInv, CommitPublish
  PROVE  EngineInv' /\ PipeKept
<1>1. /\ commit.pc = "publish" /\ commit' = [commit EXCEPT !.pc = commit.then]
      /\ watermark' = [watermark EXCEPT !.durable = IF @ >= durable THEN @ ELSE durable]
      /\ UNCHANGED commitRest /\ UNCHANGED <<log, synced, durable, running, commitQ>>
  BY DEF CommitPublish, logVars
<1>2. /\ UNCHANGED <<up, caller, ingress, engine, ackQ, ack, standby, snapper, snapshots>>
      /\ UNCHANGED <<stopping, told, starts>> /\ up
      /\ ProcessShape' /\ IngressShape' /\ EngineShape' /\ AckShape' /\ StandbyShape'
      /\ SnapperShape' /\ SnapshotShape' /\ Downs' /\ Pending' = Pending
      /\ Shapes /\ Numbers /\ Members /\ Stops /\ Pipe /\ Covered
      /\ Recs(engine.state)' = Recs(engine.state)
  BY <1>1, CommitRest
<1>3. /\ commit \in CommitState /\ (Len(commit.batch) <= MaxBatch \/ commit.then = "close")
      /\ commit.then \in {"recv", "drain", "close"}
  BY <1>2, CommitFields DEF Shapes
<1>4. /\ commit'.pc = commit.then /\ commit'.batch = commit.batch /\ commit'.then = commit.then
      /\ commit' \in CommitState
  BY <1>1, <1>3 DEF CommitState, CommitPcs
<1>5. durable \in NoSeq..MaxSeq /\ watermark.durable \in NoSeq..MaxSeq
      /\ watermark \in [live : BOOLEAN, durable : NoSeq..MaxSeq]
  BY <1>2 DEF Shapes, LogShape, MarkShape
<1>6. /\ watermark'.durable = durable \/ watermark'.durable = watermark.durable
      /\ watermark' \in [live : BOOLEAN, durable : NoSeq..MaxSeq]
  BY <1>1, <1>5
<1>7. Shapes'
  <2>1. QueueShape' /\ LogShape' /\ MarkShape'
    BY <1>1, <1>2, <1>6 DEF Shapes, QueueShape, LogShape, MarkShape
  <2>2. CommitShape'
    BY <1>3, <1>4 DEF CommitShape
  <2> QED BY <1>2, <2>1, <2>2 DEF Shapes
<1>8. Numbers'
  BY <1>1, <1>2, NumbersStay
<1>9. Members'
  <2>1. Recs(commit.batch)' \subseteq Recs(commit.batch) /\ Recs(engine.state) \subseteq Recs(engine.state)'
    BY <1>2, <1>4
  <2> QED BY <1>1, <1>2, <2>1, MembersStay
<1>10. Stops'
  <2>1. StopSeen' => StopSeen
    BY <1>4 DEF StopSeen
  <2>2. commit.batch = <<>>
    BY <1>1, <1>2 DEF Stops
  <2>3. (\A i \in 1..Len(commitQ) :
           IsStop(commitQ[i]) => i = Len(commitQ) /\ stopping \in {"commit", "acks"})'
    BY <1>1, <1>2 DEF Stops, IsStop
  <2>4. (StopSeen => commitQ = <<>> /\ stopping \in {"commit", "acks"})'
    BY <1>1, <1>2, <2>1 DEF Stops
  <2>5. (/\ stopping \in {"commit", "acks"} => engine.pc = "stopped"
         /\ commit.pc \in {"recv", "gather"} => commit.then = "recv"
         /\ commit.pc \notin {"gather", "write"} => commit.batch = <<>>)'
    BY <1>2, <1>3, <1>4, <2>2 DEF Stops
  <2> QED BY <2>3, <2>4, <2>5 DEF Stops
<1>11. ASSUME NEW f \in Nat, PipeAt(f) PROVE PipeAt(f)'
  <2>1. (log # <<>> => LastSeq(log) = f - 1)'
    BY <1>1, <1>11 DEF PipeAt, LastSeq
  <2>2. (\A i \in 1..Len(commit.batch) : commit.batch[i].seq = f + (i - 1))'
    BY <1>4, <1>11 DEF PipeAt
  <2>3. (\A i \in 1..Len(commitQ) :
           IsStop(commitQ[i]) \/ commitQ[i].seq = f + Len(commit.batch) + (i - 1))'
    BY <1>1, <1>4, <1>11 DEF PipeAt, IsStop
  <2>4. (engine.pc # "stopped" =>
           (IF engine.pc = "submit" THEN engine.rec.seq ELSE engine.next_seq)
             = f + Len(commit.batch) + Len(commitQ))'
    BY <1>1, <1>2, <1>4, <1>11 DEF PipeAt
  <2>5. (durable < f /\ watermark.durable < f)'
    BY <1>1, <1>6, <1>11 DEF PipeAt
  <2>6. (\A r \in Pending : r \in Recs(log) \/ r.seq >= f)'
    BY <1>1, <1>2, <1>11 DEF PipeAt, Recs
  <2> QED BY <2>1, <2>2, <2>3, <2>4, <2>5, <2>6 DEF PipeAt
<1>12. PipeKept
  BY <1>1, <1>11 DEF PipeKept
<1>13. Covered'
  <2>1. Synced' = Synced
    BY <1>1 DEF Synced
  <2>2. \A r \in Pending : r.seq <= durable => r \in Synced
    BY <1>1, <1>2 DEF Covered
  <2>3. \A r \in Pending : r.seq <= watermark.durable => r \in Synced
    BY <1>2 DEF Covered
  <2>4. (\A r \in Pending : r.seq <= watermark.durable => r \in Synced)'
    BY <1>2, <1>6, <2>1, <2>2, <2>3
  <2>5. (commit.pc = "publish" => \A r \in Pending : r.seq <= durable => r \in Synced)'
    BY <1>1, <1>2, <2>1, <2>2
  <2>6. (/\ ack.pc \in {"replica", "tell"} => ack.rec \in Synced
         /\ ack.pc = "reply" => ack.rec \in told)'
    BY <1>2, <2>1 DEF Covered
  <2>7. ToldIsDurable'
    BY <1>1, <1>2 DEF Covered, ToldIsDurable
  <2> QED BY <2>4, <2>5, <2>6, <2>7 DEF Covered
<1> QED BY <1>2, <1>7, <1>8, <1>9, <1>10, <1>12, <1>13, KeptPipe DEF EngineInv

(* The commit thread ends, whatever becomes of the tail of the log. *)
LEMMA CommitEnds ==
  ASSUME EngineInv, CommitClose \/ CommitFails
  PROVE  EngineInv' /\ PipeKept
<1>1. /\ commit.pc \in {"close", "write"} /\ watermark' = [watermark EXCEPT !.live = FALSE]
      /\ commit' = DownCommit /\ commitQ' = <<>> /\ UNCHANGED commitRest
  BY DEF CommitClose, CommitFails, EndCommit
<1>2. /\ UNCHANGED <<up, caller, ingress, engine, ackQ, ack, standby, snapper, snapshots>>
      /\ UNCHANGED <<stopping, told, starts>> /\ up
      /\ ProcessShape' /\ IngressShape' /\ EngineShape' /\ AckShape' /\ StandbyShape'
      /\ SnapperShape' /\ SnapshotShape' /\ Downs' /\ Pending' = Pending
      /\ Shapes /\ Numbers /\ Members /\ Stops /\ Pipe /\ Covered
      /\ Recs(engine.state)' = Recs(engine.state)
  BY <1>1, CommitRest
<1>3. /\ commit'.pc = "gone" /\ commit'.batch = <<>> /\ commit'.then = "recv"
      /\ commit' \in CommitState
  BY <1>1 DEF DownCommit, CommitState, CommitPcs
<1>4. LogShape /\ Numbered(log)
  BY <1>2 DEF Shapes, Numbers
<1>5. LogShape' /\ Numbered(log)' /\ Synced \subseteq Synced'
  <2>1. CASE CommitFails
    <3>1. LogNext
      BY <2>1 DEF CommitFails, LogNext
    <3> QED BY <1>4, <3>1, LogNumbers
  <2>2. CASE CommitClose
    <3>1. running' = FALSE /\ durable' = NoSeq /\ UNCHANGED <<log, synced>>
      BY <2>2 DEF CommitClose
    <3>2. NoSeq \in NoSeq..MaxSeq
      BY LogAssumption DEF NoSeq
    <3> QED BY <1>4, <3>1, <3>2 DEF LogShape, Numbered, LastSeq, Synced
  <2> QED BY <2>1, <2>2
<1>6. watermark'.durable = watermark.durable
      /\ watermark' \in [live : BOOLEAN, durable : NoSeq..MaxSeq]
  BY <1>1, <1>2 DEF Shapes, MarkShape
<1>7. Len(<<>>) = 0 /\ <<>> \in Seq(Msg) /\ SubmitDepth \in Nat /\ MaxBatch \in Nat
  BY EngineAssumption
<1>8. Shapes'
  <2>1. QueueShape' /\ MarkShape' /\ CommitShape'
    BY <1>1, <1>3, <1>6, <1>7 DEF QueueShape, MarkShape, CommitShape
  <2> QED BY <1>2, <1>5, <2>1 DEF Shapes
<1>9. Numbers'
  BY <1>2, <1>5 DEF Numbers
<1>10. Members'
  <2>1. Recs(commit.batch)' = {} /\ Len(commitQ') = 0
    BY <1>1, <1>3, <1>7 DEF Recs
  <2>2. (\A i \in 1..Len(commitQ) : IsStop(commitQ[i]) \/ commitQ[i] \in Recs(engine.state))'
    BY <2>1
  <2>3. (Pending \subseteq Recs(engine.state))'
    BY <1>2 DEF Members
  <2>4. (engine.pc = "submit" =>
           engine.rec \in Recs(engine.state) /\ engine.rec.seq = engine.next_seq - 1)'
    BY <1>2 DEF Members
  <2> QED BY <2>1, <2>2, <2>3, <2>4 DEF Members
<1>11. Stops'
  <2>1. ~StopSeen' /\ Len(commitQ') = 0
    BY <1>1, <1>3, <1>7 DEF StopSeen
  <2>2. (\A i \in 1..Len(commitQ) :
           IsStop(commitQ[i]) => i = Len(commitQ) /\ stopping \in {"commit", "acks"})'
    BY <2>1
  <2>3. (stopping \in {"commit", "acks"} => engine.pc = "stopped")'
    BY <1>2 DEF Stops
  <2> QED BY <1>3, <2>1, <2>2, <2>3 DEF Stops
<1>12. PipeKept /\ Pipe'
  BY <1>3 DEF PipeKept, Pipe
<1>13. Covered'
  BY <1>2, <1>3, <1>5, <1>6, CoveredStays
<1> QED BY <1>2, <1>8, <1>9, <1>10, <1>11, <1>12, <1>13 DEF EngineInv

-----------------------------------------------------------------------------
(* The steps of the ack thread. *)

(* A step of the ack thread that leaves the marks covered. *)
LEMMA AckMoves ==
  ASSUME EngineInv, UNCHANGED ackRest, ack.pc # "gone", AckShape', told' \subseteq Record,
         caller' \in [Commands -> {"idle", "waiting", "shed", "acked", "unknown"}],
         Pending' \subseteq Pending, Covered'
  PROVE  EngineInv' /\ PipeKept
<1>1. /\ UNCHANGED <<log, synced, durable, running, up, ingress, engine, commitQ, commit>>
      /\ UNCHANGED <<watermark, standby, snapper, snapshots, stopping, starts>>
  BY DEF ackRest, logVars
<1>2. up /\ Shapes /\ Numbers /\ Members /\ Stops /\ Pipe
  BY UpWhen DEF EngineInv
<1>3. Shapes'
  <2>1. LogShape' /\ EngineShape' /\ QueueShape' /\ CommitShape' /\ MarkShape' /\ IngressShape'
    BY <1>1, <1>2 DEF Shapes, LogShape, EngineShape, QueueShape, CommitShape, MarkShape,
                      IngressShape
  <2>2. StandbyShape' /\ SnapperShape' /\ SnapshotShape'
    BY <1>1, <1>2 DEF Shapes, StandbyShape, SnapperShape, SnapshotShape
  <2>3. ProcessShape'
    BY <1>1, <1>2 DEF Shapes, ProcessShape
  <2> QED BY <2>1, <2>2, <2>3 DEF Shapes
<1>4. Downs'
  BY <1>1, <1>2 DEF Downs
<1>5. Numbers'
  BY <1>1, <1>2, NumbersStay
<1>6. Recs(commit.batch)' = Recs(commit.batch) /\ Recs(engine.state)' = Recs(engine.state)
  BY <1>1 DEF Recs
<1>7. Members'
  BY <1>1, <1>2, <1>6, MembersStay
<1>8. Stops'
  BY <1>1, <1>2, StopsStay
<1>9. Expected' = Expected
  BY <1>1 DEF Expected
<1>10. PipeKept
  BY <1>1, <1>9, PipeStays DEF PipeKept
<1> QED BY <1>2, <1>3, <1>4, <1>5, <1>7, <1>8, <1>10, KeptPipe DEF EngineInv

LEMMA AckReceives ==
  ASSUME EngineInv, AckRecv
  PROVE  EngineInv' /\ PipeKept
<1>1. /\ ack.pc = "recv" /\ ackQ # <<>> /\ ack' = [ack EXCEPT !.pc = "durable", !.rec = Head(ackQ)]
      /\ ackQ' = Tail(ackQ) /\ UNCHANGED ackRest /\ UNCHANGED <<caller, told>>
  BY DEF AckRecv
<1>2. Shapes /\ Covered
  BY DEF EngineInv
<1>3. ackQ \in Seq(Record) /\ ack \in AckState
  BY <1>2, AckFields DEF Shapes
<1>4. Head(ackQ) \in Record /\ Tail(ackQ) \in Seq(Record)
  BY <1>1, <1>3, QueueParts
<1>5. ack'.pc = "durable" /\ ack'.rec = Head(ackQ) /\ ack' \in AckState
  BY <1>1, <1>3, <1>4 DEF AckState, AckPcs, Msg
<1>6. AckShape'
  BY <1>1, <1>4, <1>5 DEF AckShape
<1>7. Head(ackQ) \in Recs(ackQ) /\ Recs(ackQ)' \subseteq Recs(ackQ)
  BY <1>1, <1>3, RecsParts
<1>8. Pending' \subseteq Pending
  <2>1. engine' = engine
    BY <1>1 DEF ackRest
  <2> QED BY <1>1, <1>5, <1>7, <2>1 DEF Pending
<1>9. Covered'
  <2>1. UNCHANGED <<log, synced, durable, watermark, commit>>
    BY <1>1 DEF ackRest, logVars
  <2>2. Synced' = Synced
    BY <2>1 DEF Synced
  <2> QED BY <1>1, <1>2, <1>5, <1>8, <2>1, <2>2, CoveredStays
<1>10. /\ told' \subseteq Record
       /\ caller' \in [Commands -> {"idle", "waiting", "shed", "acked", "unknown"}]
  BY <1>1, <1>2 DEF Shapes, ProcessShape
<1> QED BY <1>1, <1>6, <1>8, <1>9, <1>10, AckMoves

LEMMA AckStops ==
  ASSUME EngineInv, AckEnds \/ AckRefused
  PROVE  EngineInv' /\ PipeKept
<1>1. /\ ack.pc \in {"recv", "durable"} /\ ack' = [ack EXCEPT !.pc = "gone"]
      /\ ackQ' = ackQ \/ ackQ' = <<>>
      /\ UNCHANGED ackRest /\ told' = told
      /\ caller' = caller \/ caller' = Dropped({ack.rec.cmd} \cup CommandsOf(ackQ))
  BY DEF AckEnds, AckRefused
<1>2. Shapes /\ Covered
  BY DEF EngineInv
<1>3. ackQ \in Seq(Record) /\ ack \in AckState
  BY <1>2, AckFields DEF Shapes
<1>4. ack'.pc = "gone" /\ ack' \in AckState
  BY <1>1, <1>3 DEF AckState, AckPcs
<1>5. ackQ' \in Seq(Record) /\ Recs(ackQ)' \subseteq Recs(ackQ)
  <2>1. CASE ackQ' = ackQ
    BY <1>3, <2>1 DEF Recs
  <2>2. CASE ackQ' = <<>>
    <3>1. Len(ackQ') = 0
      BY <2>2
    <3>2. Recs(ackQ)' = {}
      BY <3>1 DEF Recs
    <3> QED BY <2>2, <3>2
  <2> QED BY <1>1, <2>1, <2>2
<1>6. AckShape'
  BY <1>4, <1>5 DEF AckShape
<1>7. Pending' \subseteq Pending
  <2>1. engine' = engine
    BY <1>1 DEF ackRest
  <2> QED BY <1>1, <1>4, <1>5, <2>1 DEF Pending
<1>8. /\ caller' \in [Commands -> {"idle", "waiting", "shed", "acked", "unknown"}]
      /\ \A c \in Commands : caller'[c] = "acked" => caller[c] = "acked"
  <2>1. ProcessShape
    BY <1>2 DEF Shapes
  <2>2. CASE caller' = caller
    BY <2>1, <2>2 DEF ProcessShape
  <2>3. CASE caller' = Dropped({ack.rec.cmd} \cup CommandsOf(ackQ))
    BY <2>1, <2>3, DroppedType
  <2> QED BY <1>1, <2>2, <2>3
<1>9. Covered'
  <2>1. UNCHANGED <<log, synced, durable, watermark, commit>>
    BY <1>1 DEF ackRest, logVars
  <2>2. Synced' = Synced
    BY <2>1 DEF Synced
  <2> QED BY <1>1, <1>2, <1>4, <1>7, <1>8, <2>1, <2>2, CoveredStays
<1>10. told' \subseteq Record
  BY <1>1, <1>2 DEF Shapes, ProcessShape
<1> QED BY <1>1, <1>6, <1>7, <1>8, <1>9, <1>10, AckMoves

(* The ack thread goes on with its command. *)
LEMMA AckGoesOn ==
  ASSUME EngineInv, AckDurable \/ AckConfirmed \/ AckTimeout \/ AckTell \/ AckReply
  PROVE  EngineInv' /\ PipeKept
<1>1. /\ ack.pc \in {"durable", "replica", "tell", "reply"} /\ ackQ' = ackQ
      /\ UNCHANGED ackRest
      /\ ack'.rec = ack.rec /\ ack'.pc \in {"replica", "tell", "reply", "recv"}
      /\ ack' \in AckState
  <2>1. ack \in AckState
    BY AckFields DEF EngineInv, Shapes
  <2> QED BY <2>1 DEF AckDurable, AckConfirmed, AckTimeout, AckTell, AckReply, AckState, AckPcs
<1>2. Shapes /\ Covered
  BY DEF EngineInv
<1>3. ack.rec \in Record /\ ack.rec.cmd \in Commands
  <2>1. ack.rec \in Record
    BY <1>1, <1>2, AckFields DEF Shapes
  <2> QED BY <2>1 DEF Record
<1>4. AckShape'
  BY <1>1, <1>2, <1>3 DEF AckShape, Shapes
<1>5. UNCHANGED <<log, synced, durable, watermark, commit, engine>> /\ Synced' = Synced
  BY <1>1 DEF ackRest, logVars, Synced
<1>6. Pending' \subseteq Pending
  BY <1>1, <1>5 DEF Pending, Recs
<1>7. ProcessShape /\ ToldIsDurable
  BY <1>2 DEF Shapes, Covered
<1>8. /\ ack'.pc \in {"replica", "tell"} => ack.rec \in Synced /\ UNCHANGED <<told, caller>>
      /\ ack'.pc = "reply" => ack.rec \in Synced /\ told' = told \cup {ack.rec} /\ caller' = caller
      /\ ack'.pc = "recv" => /\ ack.rec \in told /\ told' = told
                             /\ caller' = [caller EXCEPT ![ack.rec.cmd] = "acked"]
  <2>1. CASE AckDurable
    <3>1. ack.pc = "durable" /\ watermark.durable >= ack.rec.seq
      BY <2>1 DEF AckDurable
    <3>2. ack.rec \in Pending
      BY <3>1 DEF Pending
    <3>3. ack.rec.seq \in Int /\ watermark.durable \in Int
      <4>1. watermark.durable \in NoSeq..MaxSeq
        BY <1>2 DEF Shapes, MarkShape
      <4> QED BY <1>3, <4>1, LogAssumption DEF Record, NoSeq
    <3>4. ack.rec \in Synced
      BY <1>2, <3>1, <3>2, <3>3 DEF Covered
    <3>5. ack'.pc \in {"replica", "tell"} /\ UNCHANGED <<told, caller>>
      <4>1. ack \in AckState
        BY <1>2, AckFields DEF Shapes
      <4> QED BY <2>1, <4>1 DEF AckDurable, AckState
    <3> QED BY <3>4, <3>5
  <2>2. CASE AckConfirmed \/ AckTimeout
    <3>1. ack.pc = "replica" /\ ack'.pc = "tell" /\ UNCHANGED <<told, caller>>
      <4>1. ack \in AckState
        BY <1>2, AckFields DEF Shapes
      <4> QED BY <2>2, <4>1 DEF AckConfirmed, AckTimeout, AckState
    <3> QED BY <1>2, <3>1 DEF Covered
  <2>3. CASE AckTell
    <3>1. ack.pc = "tell" /\ ack'.pc = "reply" /\ told' = told \cup {ack.rec} /\ caller' = caller
      <4>1. ack \in AckState
        BY <1>2, AckFields DEF Shapes
      <4> QED BY <2>3, <4>1 DEF AckTell, AckState
    <3> QED BY <1>2, <3>1 DEF Covered
  <2>4. CASE AckReply
    <3>1. ack.pc = "reply" /\ ack'.pc = "recv" /\ told' = told
          /\ caller' = [caller EXCEPT ![ack.rec.cmd] = "acked"]
      <4>1. ack \in AckState
        BY <1>2, AckFields DEF Shapes
      <4> QED BY <2>4, <4>1 DEF AckReply, AckState
    <3> QED BY <1>2, <3>1 DEF Covered
  <2> QED BY <2>1, <2>2, <2>3, <2>4
<1>9. /\ told' \subseteq Record
      /\ caller' \in [Commands -> {"idle", "waiting", "shed", "acked", "unknown"}]
  BY <1>1, <1>3, <1>7, <1>8 DEF ProcessShape
<1>10. ToldIsDurable'
  <2>1. told \subseteq Synced /\ \A c \in Commands : caller[c] = "acked" => c \in {r.cmd : r \in told}
    BY <1>7 DEF ToldIsDurable, Synced
  <2>2. told' \subseteq Synced /\ told \subseteq told'
    BY <1>1, <1>8, <2>1
  <2>3. ASSUME NEW c \in Commands, caller'[c] = "acked" PROVE c \in {r.cmd : r \in told'}
    <3>1. caller[c] = "acked" \/ (c = ack.rec.cmd /\ ack.rec \in told)
      BY <1>1, <1>7, <1>8, <2>3 DEF ProcessShape
    <3> QED BY <2>1, <2>2, <3>1
  <2>4. told' \subseteq {log'[i] : i \in 1..synced'}
    BY <1>5, <2>2 DEF Synced
  <2> QED BY <2>3, <2>4 DEF ToldIsDurable
<1>11. Covered'
  <2>1. (\A r \in Pending : r.seq <= watermark.durable => r \in Synced)'
    BY <1>2, <1>5, <1>6 DEF Covered
  <2>2. (commit.pc = "publish" => \A r \in Pending : r.seq <= durable => r \in Synced)'
    BY <1>2, <1>5, <1>6 DEF Covered
  <2>3. (ack.pc \in {"replica", "tell"} => ack.rec \in Synced)'
    BY <1>1, <1>5, <1>8
  <2>4. (ack.pc = "reply" => ack.rec \in told)'
    BY <1>1, <1>8
  <2> QED BY <1>10, <2>1, <2>2, <2>3, <2>4 DEF Covered
<1> QED BY <1>1, <1>4, <1>6, <1>9, <1>11, AckMoves

LEMMA AckThreadStep ==
  ASSUME EngineInv, AckStep
  PROVE  EngineInv' /\ PipeKept
BY AckReceives, AckStops, AckGoesOn DEF AckStep

-----------------------------------------------------------------------------
(* The steps of the standby and of the snapshot thread. *)

LEMMA StandbyMoves ==
  ASSUME EngineInv, UNCHANGED standbyRest, standby.alive, StandbyShape', Numbers'
  PROVE  EngineInv' /\ PipeKept
<1>1. /\ UNCHANGED <<log, synced, durable, running, up, caller, ingress, engine, commitQ, commit>>
      /\ UNCHANGED <<watermark, ackQ, ack, snapper, snapshots, stopping, told, starts>>
  BY DEF standbyRest, logVars
<1>2. up /\ Shapes /\ Pipe
  BY UpWhen DEF EngineInv
<1>3. Shapes'
  <2>1. LogShape' /\ EngineShape' /\ QueueShape' /\ CommitShape' /\ MarkShape' /\ IngressShape'
    BY <1>1, <1>2 DEF Shapes, LogShape, EngineShape, QueueShape, CommitShape, MarkShape,
                      IngressShape
  <2>2. AckShape' /\ SnapperShape' /\ SnapshotShape' /\ ProcessShape'
    BY <1>1, <1>2 DEF Shapes, AckShape, SnapperShape, SnapshotShape, ProcessShape
  <2> QED BY <2>1, <2>2 DEF Shapes
<1>4. Downs'
  BY <1>1, <1>2 DEF Downs
<1>5. Pending' \subseteq Pending
  BY <1>1 DEF Pending, Recs
<1>6. Members' /\ Stops' /\ PipeKept /\ Covered'
  BY <1>1, <1>5, QuietStep
<1> QED BY <1>2, <1>3, <1>4, <1>6, KeptPipe DEF EngineInv

LEMMA StandbyApplies ==
  ASSUME EngineInv, StandbyApply
  PROVE  EngineInv' /\ PipeKept
<1>1. /\ standby.alive /\ standby.queue # <<>> /\ UNCHANGED standbyRest
      /\ standby' = [standby EXCEPT !.pc = "confirm", !.queue = Tail(@),
                                    !.state = Append(@, Head(standby.queue))]
  BY DEF StandbyApply
<1>2. Shapes /\ Numbers
  BY DEF EngineInv
<1>3. standby \in StandbyState /\ standby.queue \in Seq(Record) /\ standby.state \in Seq(Record)
  BY <1>2, StandbyFields DEF Shapes
<1> DEFINE h == Head(standby.queue)
           q == Tail(standby.queue)
           n == engine.next_seq
           m == Len(standby.queue)
<1>4. /\ h \in Record /\ q \in Seq(Record) /\ Len(q) = m - 1 /\ m \in Nat /\ m > 0
      /\ 1 \in 1..m /\ h = standby.queue[1]
      /\ \A i \in 1..(m - 1) : q[i] = standby.queue[i + 1] /\ i + 1 \in 1..m
  BY <1>1, <1>3, QueueParts
<1>5. /\ Append(standby.state, h) \in Seq(Record) /\ Append(standby.state, h) # <<>>
      /\ LastSeq(Append(standby.state, h)) = h.seq
  <2>1. /\ Append(standby.state, h) \in Seq(Record) /\ Append(standby.state, h) # <<>>
        /\ Len(Append(standby.state, h)) = Len(standby.state) + 1
        /\ Append(standby.state, h)[Len(standby.state) + 1] = h
    BY <1>3, <1>4, AppendParts
  <2> HIDE DEF h
  <2> QED BY <2>1 DEF LastSeq
<1>6. /\ standby'.alive = standby.alive /\ standby'.queue = q
      /\ standby'.state = Append(standby.state, h) /\ standby' \in StandbyState
  BY <1>1, <1>3, <1>4, <1>5 DEF StandbyState
<1>7. UNCHANGED <<log, engine, snapper, snapshots>>
  BY <1>1 DEF standbyRest, logVars
<1>8. n \in Int /\ \A i \in 1..m : standby.queue[i].seq = (n - m) + (i - 1)
  BY <1>1, <1>2, EngineFields DEF Shapes, Numbers
<1>9. \A i \in 1..Len(q) : q[i].seq = (n - Len(q)) + (i - 1)
  <2> TAKE i \in 1..Len(q)
  <2>1. i \in 1..(m - 1) /\ i + 1 \in 1..m /\ q[i] = standby.queue[i + 1]
    BY <1>4
  <2>2. q[i].seq = (n - m) + ((i + 1) - 1)
    BY <1>8, <2>1
  <2> HIDE DEF q, n, m
  <2> QED BY <1>4, <1>8, <2>2
<1>10. h.seq = n - Len(q) - 1
  <2>1. h.seq = (n - m) + (1 - 1)
    BY <1>4, <1>8
  <2> HIDE DEF q, n, m, h
  <2> QED BY <1>4, <1>8, <2>1
<1>11. Numbers'
  <2>1. (standby.alive =>
          /\ \A i \in 1..Len(standby.queue) :
               standby.queue[i].seq = (engine.next_seq - Len(standby.queue)) + (i - 1)
          /\ standby.state # <<>> =>
               LastSeq(standby.state) = engine.next_seq - Len(standby.queue) - 1)'
    BY <1>5, <1>6, <1>7, <1>9, <1>10
  <2>2. Numbered(log)' /\ (\A s \in snapshots : Numbered(s))' /\ Numbered(engine.state)'
    BY <1>2, <1>7 DEF Numbers, Numbered, LastSeq
  <2>3. /\ (\A i \in 1..Len(snapper.queue) : Numbered(snapper.queue[i]))'
        /\ (\A i \in 1..Len(snapper.writing) : Numbered(snapper.writing[i]))'
    BY <1>2, <1>7 DEF Numbers
  <2>4. (engine.state # <<>> => engine.next_seq = LastSeq(engine.state) + 1)'
    BY <1>2, <1>7 DEF Numbers, LastSeq
  <2> QED BY <2>1, <2>2, <2>3, <2>4 DEF Numbers
<1>12. StandbyShape'
  BY <1>6 DEF StandbyShape
<1> QED BY <1>1, <1>11, <1>12, StandbyMoves

LEMMA StandbyRests ==
  ASSUME EngineInv, StandbyConfirm \/ StandbyStops \/ StandbyDies
  PROVE  EngineInv' /\ PipeKept
<1>1. Shapes /\ Numbers
  BY DEF EngineInv
<1>2. standby \in StandbyState /\ LastSeq(standby.state) \in NoSeq..MaxSeq
  <2>1. standby \in StandbyState /\ standby.state \in Seq(Record)
    BY <1>1, StandbyFields DEF Shapes
  <2> QED BY <2>1, LastSeqType
<1>3. /\ standby.alive /\ UNCHANGED standbyRest /\ standby' \in StandbyState
      /\ standby'.alive => standby'.queue = standby.queue
      /\ standby'.state = standby.state
  <2>1. CASE StandbyConfirm
    BY <1>2, <2>1 DEF StandbyConfirm, StandbyState
  <2>2. CASE StandbyStops
    BY <1>2, <2>2 DEF StandbyStops, StandbyState
  <2>3. CASE StandbyDies
    <3>1. /\ standby.alive /\ UNCHANGED standbyRest
          /\ standby' = [standby EXCEPT !.alive = FALSE, !.queue = <<>>]
      BY <2>3 DEF StandbyDies
    <3>2. <<>> \in Seq(Record)
      OBVIOUS
    <3>3. standby' \in StandbyState /\ ~standby'.alive /\ standby'.state = standby.state
      BY <1>2, <3>1, <3>2 DEF StandbyState
    <3> QED BY <3>1, <3>3
  <2> QED BY <2>1, <2>2, <2>3
<1>4. UNCHANGED <<log, engine, snapper, snapshots>>
  BY <1>3 DEF standbyRest, logVars
<1>5. Numbers'
  BY <1>1, <1>3, <1>4, NumbersStay
<1>6. StandbyShape'
  BY <1>3 DEF StandbyShape
<1> QED BY <1>3, <1>5, <1>6, StandbyMoves

LEMMA SnapshotThreadStep ==
  ASSUME EngineInv, SnapshotStep
  PROVE  EngineInv' /\ PipeKept
<1>1. /\ UNCHANGED <<log, synced, durable, running, up, caller, ingress, engine, commitQ, commit>>
      /\ UNCHANGED <<watermark, ackQ, ack, standby, stopping, told, starts>>
  BY DEF SnapshotStep, SnapshotRecv, SnapshotWrite, SnapshotFails, snapshotRest, logVars
<1>2. Shapes /\ Numbers /\ Pipe
  BY DEF EngineInv
<1>3. up
  BY UpWhen DEF EngineInv, SnapshotStep, SnapshotRecv, SnapshotWrite, SnapshotFails
<1>4. /\ snapper.queue \in Seq(Seq(Record)) /\ snapper.writing \in Seq(Seq(Record))
      /\ snapper \in [queue : Seq(Seq(Record)), writing : Seq(Seq(Record))]
      /\ Len(snapper.queue) <= 1
  BY <1>2 DEF Shapes, SnapperShape
<1>5. /\ \A i \in 1..Len(snapper.queue) : Numbered(snapper.queue[i])
      /\ \A i \in 1..Len(snapper.writing) : Numbered(snapper.writing[i])
      /\ \A s \in snapshots : Numbered(s)
      /\ snapshots \subseteq Seq(Record)
  BY <1>2 DEF Numbers, Shapes, SnapshotShape
<1>6. Len(<<>>) = 0 /\ <<>> \in Seq(Seq(Record))
  OBVIOUS
<1>7. /\ SnapperShape' /\ SnapshotShape'
      /\ (\A i \in 1..Len(snapper.queue) : Numbered(snapper.queue[i]))'
      /\ (\A i \in 1..Len(snapper.writing) : Numbered(snapper.writing[i]))'
      /\ (\A s \in snapshots : Numbered(s))'
  <2>1. CASE SnapshotRecv
    <3>1. snapper' = [queue |-> <<>>, writing |-> snapper.queue] /\ snapshots' = snapshots
      BY <2>1 DEF SnapshotRecv
    <3>2. snapper'.queue = <<>> /\ snapper'.writing = snapper.queue
          /\ snapper' \in [queue : Seq(Seq(Record)), writing : Seq(Seq(Record))]
      BY <1>4, <1>6, <3>1
    <3>3. (\A i \in 1..Len(snapper.queue) : Numbered(snapper.queue[i]))'
      BY <1>6, <3>2
    <3>4. (\A i \in 1..Len(snapper.writing) : Numbered(snapper.writing[i]))'
      BY <1>5, <3>2
    <3>5. SnapperShape'
      BY <1>6, <3>2 DEF SnapperShape
    <3> QED BY <1>5, <3>1, <3>3, <3>4, <3>5 DEF SnapshotShape
  <2>2. CASE SnapshotWrite \/ SnapshotFails
    <3>1. snapper' = [snapper EXCEPT !.writing = <<>>] /\ snapper.writing # <<>>
      BY <2>2 DEF SnapshotWrite, SnapshotFails
    <3>2. snapper'.writing = <<>> /\ snapper'.queue = snapper.queue
          /\ snapper' \in [queue : Seq(Seq(Record)), writing : Seq(Seq(Record))]
      BY <1>4, <1>6, <3>1
    <3>3. (\A i \in 1..Len(snapper.writing) : Numbered(snapper.writing[i]))'
      BY <1>6, <3>2
    <3>4. (\A i \in 1..Len(snapper.queue) : Numbered(snapper.queue[i]))'
      BY <1>5, <3>2
    <3>5. SnapperShape'
      BY <1>4, <3>2 DEF SnapperShape
    <3>6. SnapshotShape' /\ (\A s \in snapshots : Numbered(s))'
      <4>1. CASE SnapshotFails
        <5>1. snapshots' = snapshots
          BY <4>1 DEF SnapshotFails
        <5> QED BY <1>5, <5>1 DEF SnapshotShape
      <4>2. CASE SnapshotWrite
        <5> DEFINE s == Head(snapper.writing)
                   kept == {t \in snapshots : LastSeq(t) # LastSeq(s)}
        <5>1. snapshots' \in Pruned(kept \cup {s})
          BY <4>2 DEF SnapshotWrite
        <5>2. s \in Seq(Record) /\ Numbered(s)
          <6>1. s \in Seq(Record) /\ s = snapper.writing[1] /\ 1 \in 1..Len(snapper.writing)
            BY <1>4, <3>1, QueueParts
          <6> QED BY <1>5, <6>1
        <5>3. kept \cup {s} \subseteq Seq(Record) /\ \A t \in kept \cup {s} : Numbered(t)
          <6> HIDE DEF s
          <6> QED BY <1>5, <5>2
        <5> HIDE DEF kept, s
        <5>4. snapshots' \subseteq kept \cup {s}
          BY <5>1, PruneRemoves
        <5> QED BY <5>3, <5>4 DEF SnapshotShape
      <4> QED BY <2>2, <4>1, <4>2
    <3> QED BY <3>3, <3>4, <3>5, <3>6
  <2> QED BY <2>1, <2>2 DEF SnapshotStep
<1>8. Shapes'
  <2>1. LogShape' /\ EngineShape' /\ QueueShape' /\ CommitShape' /\ MarkShape' /\ IngressShape'
    BY <1>1, <1>2 DEF Shapes, LogShape, EngineShape, QueueShape, CommitShape, MarkShape,
                      IngressShape
  <2>2. AckShape' /\ StandbyShape' /\ ProcessShape'
    BY <1>1, <1>2 DEF Shapes, AckShape, StandbyShape, ProcessShape
  <2> QED BY <1>7, <2>1, <2>2 DEF Shapes
<1>9. Downs'
  BY <1>1, <1>3 DEF Downs
<1>10. Numbers'
  <2>1. /\ Numbered(log)' /\ Numbered(engine.state)'
        /\ (engine.state # <<>> => engine.next_seq = LastSeq(engine.state) + 1)'
    BY <1>1, <1>2 DEF Numbers, Numbered, LastSeq
  <2>2. (standby.alive =>
          /\ \A i \in 1..Len(standby.queue) :
               standby.queue[i].seq = (engine.next_seq - Len(standby.queue)) + (i - 1)
          /\ standby.state # <<>> =>
               LastSeq(standby.state) = engine.next_seq - Len(standby.queue) - 1)'
    BY <1>1, <1>2 DEF Numbers, LastSeq
  <2> QED BY <1>7, <2>1, <2>2 DEF Numbers
<1>11. Pending' \subseteq Pending
  BY <1>1 DEF Pending, Recs
<1>12. Members' /\ Stops' /\ PipeKept /\ Covered'
  BY <1>1, <1>11, QuietStep
<1> QED BY <1>2, <1>8, <1>9, <1>10, <1>12, KeptPipe DEF EngineInv

-----------------------------------------------------------------------------
(* Stopping, crashing and starting again. *)

(* A stop that leaves the queue alone. *)
LEMMA StopMoves ==
  ASSUME EngineInv, RequestStop \/ JoinCommit \/ (SendStop /\ commit.pc = "gone")
  PROVE  EngineInv' /\ PipeKept
<1>1. Shapes /\ Downs /\ Numbers /\ Members /\ Stops /\ Pipe /\ Covered
  BY DEF EngineInv
<1>2. /\ UNCHANGED <<log, synced, durable, running, up, caller, ingress, engine, commitQ, commit>>
      /\ UNCHANGED <<watermark, ackQ, ack, standby, snapper, snapshots, told, starts>>
  <2>1. UNCHANGED stopRest /\ UNCHANGED commitQ
    BY DEF RequestStop, JoinCommit, SendStop
  <2> QED BY <2>1 DEF stopRest, logVars
<1>3. /\ stopping' \in {"engine", "commit", "acks"} /\ up
      /\ stopping \in {"commit", "acks"} => stopping' \in {"commit", "acks"}
      /\ stopping' \in {"commit", "acks"} => engine.pc = "stopped"
  <2>1. CASE RequestStop
    BY <2>1 DEF RequestStop
  <2>2. CASE JoinCommit
    <3>1. stopping = "commit" /\ stopping' = "acks"
      BY <2>2 DEF JoinCommit
    <3>2. up
      BY <1>1, <3>1, UpWhen
    <3> QED BY <1>1, <3>1, <3>2 DEF Stops
  <2>3. CASE SendStop
    <3>1. stopping = "engine" /\ stopping' = "commit" /\ engine.pc = "stopped"
      BY <2>3 DEF SendStop
    <3>2. up
      BY <1>1, <3>1, UpWhen
    <3> QED BY <3>1, <3>2
  <2> QED BY <2>1, <2>2, <2>3
<1>4. Shapes'
  <2>1. LogShape' /\ EngineShape' /\ QueueShape' /\ CommitShape' /\ MarkShape' /\ IngressShape'
    BY <1>1, <1>2 DEF Shapes, LogShape, EngineShape, QueueShape, CommitShape, MarkShape,
                      IngressShape
  <2>2. AckShape' /\ StandbyShape' /\ SnapperShape' /\ SnapshotShape'
    BY <1>1, <1>2 DEF Shapes, AckShape, StandbyShape, SnapperShape, SnapshotShape
  <2>3. ProcessShape'
    BY <1>1, <1>2, <1>3 DEF Shapes, ProcessShape
  <2> QED BY <2>1, <2>2, <2>3 DEF Shapes
<1>5. Downs'
  BY <1>2, <1>3 DEF Downs
<1>6. Numbers'
  BY <1>1, <1>2, NumbersStay
<1>7. Pending' = Pending /\ Synced' = Synced /\ Expected' = Expected
  BY <1>2 DEF Pending, Recs, Synced, Expected
<1>8. Members'
  <2>1. Recs(commit.batch)' = Recs(commit.batch) /\ Recs(engine.state)' = Recs(engine.state)
    BY <1>2 DEF Recs
  <2> QED BY <1>1, <1>2, <1>7, <2>1, MembersStay
<1>9. Stops'
  BY <1>1, <1>2, <1>3 DEF Stops, StopSeen, IsStop
<1>10. PipeKept
  BY <1>2, <1>7, PipeStays DEF PipeKept
<1>11. Covered'
  BY <1>1, <1>2, <1>7, CoveredStays
<1> QED BY <1>1, <1>4, <1>5, <1>6, <1>8, <1>9, <1>10, <1>11, KeptPipe DEF EngineInv

(* The stop queues behind every record. *)
LEMMA StopQueued ==
  ASSUME EngineInv, SendStop, commit.pc # "gone"
  PROVE  EngineInv' /\ PipeKept
<1>1. Shapes /\ Downs /\ Numbers /\ Members /\ Stops /\ Pipe /\ Covered
  BY DEF EngineInv
<1>2. /\ UNCHANGED <<log, synced, durable, running, up, caller, ingress, engine, commit>>
      /\ UNCHANGED <<watermark, ackQ, ack, standby, snapper, snapshots, told, starts>>
  <2>1. UNCHANGED stopRest
    BY DEF SendStop
  <2> QED BY <2>1 DEF stopRest, logVars
<1>3. /\ stopping = "engine" /\ stopping' = "commit" /\ engine.pc = "stopped"
      /\ commitQ' = Append(commitQ, StopMsg) /\ Len(commitQ) < SubmitDepth
  BY DEF SendStop
<1>4. up
  BY <1>1, <1>3, UpWhen
<1>5. commitQ \in Seq(Msg) /\ StopMsg \in Msg /\ IsStop(StopMsg) /\ SubmitDepth \in Nat
  <2>1. commitQ \in Seq(Msg)
    BY <1>1 DEF Shapes, QueueShape
  <2> QED BY <2>1, EngineAssumption DEF Msg, StopMsg, IsStop
<1> DEFINE n == Len(commitQ)
<1>6. /\ commitQ' \in Seq(Msg) /\ Len(commitQ') = n + 1 /\ n \in Nat
      /\ commitQ'[n + 1] = StopMsg /\ \A i \in 1..n : commitQ'[i] = commitQ[i]
  BY <1>3, <1>5, AppendParts
<1>7. \A i \in 1..Len(commitQ') : \/ i = n + 1 /\ IsStop(commitQ'[i])
                                  \/ i \in 1..n /\ commitQ'[i] = commitQ[i]
  BY <1>5, <1>6
<1>8. Shapes'
  <2>1. LogShape' /\ EngineShape' /\ CommitShape' /\ MarkShape' /\ IngressShape'
    BY <1>1, <1>2 DEF Shapes, LogShape, EngineShape, CommitShape, MarkShape, IngressShape
  <2>2. AckShape' /\ StandbyShape' /\ SnapperShape' /\ SnapshotShape'
    BY <1>1, <1>2 DEF Shapes, AckShape, StandbyShape, SnapperShape, SnapshotShape
  <2>3. ProcessShape'
    BY <1>1, <1>2, <1>3 DEF Shapes, ProcessShape
  <2>4. QueueShape'
    BY <1>3, <1>5, <1>6 DEF QueueShape
  <2> QED BY <2>1, <2>2, <2>3, <2>4 DEF Shapes
<1>9. Downs'
  BY <1>2, <1>4 DEF Downs
<1>10. Numbers'
  BY <1>1, <1>2, NumbersStay
<1>11. Pending' = Pending /\ Synced' = Synced
  BY <1>2 DEF Pending, Recs, Synced
<1>12. Members'
  <2>1. Recs(commit.batch)' = Recs(commit.batch) /\ Recs(engine.state)' = Recs(engine.state)
    BY <1>2 DEF Recs
  <2>2. (\A i \in 1..Len(commitQ) : IsStop(commitQ[i]) \/ commitQ[i] \in Recs(engine.state))'
    BY <1>1, <1>7, <2>1 DEF Members
  <2>3. (engine.pc = "submit" =>
           engine.rec \in Recs(engine.state) /\ engine.rec.seq = engine.next_seq - 1)'
    BY <1>2, <1>3
  <2> QED BY <1>1, <1>11, <2>1, <2>2, <2>3 DEF Members
<1>13. \A i \in 1..n : ~IsStop(commitQ[i])
  BY <1>1, <1>3 DEF Stops
<1>14. Stops'
  <2>1. ~StopSeen
    BY <1>1, <1>3 DEF Stops
  <2>2. ~StopSeen'
    BY <1>2, <2>1 DEF StopSeen
  <2>3. (\A i \in 1..Len(commitQ) :
           IsStop(commitQ[i]) => i = Len(commitQ) /\ stopping \in {"commit", "acks"})'
    BY <1>3, <1>6, <1>7, <1>13
  <2>4. /\ (commit.pc \in {"recv", "gather"} => commit.then = "recv")'
        /\ (commit.pc \notin {"gather", "write"} => commit.batch = <<>>)'
    BY <1>1, <1>2 DEF Stops
  <2> QED BY <1>2, <1>3, <2>2, <2>3, <2>4 DEF Stops
<1>15. ASSUME NEW f \in Nat, PipeAt(f) PROVE PipeAt(f)'
  <2>1. (\A i \in 1..Len(commitQ) :
           IsStop(commitQ[i]) \/ commitQ[i].seq = f + Len(commit.batch) + (i - 1))'
    BY <1>2, <1>7, <1>15 DEF PipeAt
  <2>2. /\ (log # <<>> => LastSeq(log) = f - 1)'
        /\ (\A i \in 1..Len(commit.batch) : commit.batch[i].seq = f + (i - 1))'
        /\ (durable < f /\ watermark.durable < f)'
    BY <1>2, <1>15 DEF PipeAt, LastSeq
  <2>3. (\A r \in Pending : r \in Recs(log) \/ r.seq >= f)'
    BY <1>2, <1>11, <1>15 DEF PipeAt, Recs
  <2>4. engine'.pc = "stopped"
    BY <1>2, <1>3
  <2> QED BY <2>1, <2>2, <2>3, <2>4 DEF PipeAt
<1>16. PipeKept
  BY <1>2, <1>15 DEF PipeKept
<1>17. Covered'
  BY <1>1, <1>2, <1>11, CoveredStays
<1> QED BY <1>1, <1>8, <1>9, <1>10, <1>12, <1>14, <1>16, <1>17, KeptPipe DEF EngineInv

(* The process ends: whatever it held in memory is gone. *)
LEMMA GoneDown ==
  ASSUME EngineInv, AllDown, UNCHANGED <<snapshots, told, starts>>,
         LogShape', Numbered(log)', Synced \subseteq Synced',
         caller' \in [Commands -> {"idle", "waiting", "shed", "acked", "unknown"}],
         \A c \in Commands : caller'[c] = "acked" => caller[c] = "acked"
  PROVE  EngineInv' /\ commit'.pc = "gone" /\ ~up'
<1>1. Shapes /\ Numbers /\ Covered
  BY DEF EngineInv
<1>2. /\ ingress' = <<>> /\ commitQ' = <<>> /\ ackQ' = <<>> /\ snapper' = IdleSnapper
      /\ engine' = DownEngine /\ commit' = DownCommit /\ ack' = DownAck
      /\ watermark' = [live |-> FALSE, durable |-> NoSeq]
      /\ standby' = DownStandby
      /\ stopping' = "no" /\ up' = FALSE
  BY DEF AllDown
<1>3. Len(<<>>) = 0 /\ (\A S : <<>> \in Seq(S)) /\ MaxSeq \in Nat /\ StopMsg \in Msg
      /\ NoSeq \in NoSeq..MaxSeq
      /\ QueueDepth \in Nat /\ SubmitDepth \in Nat /\ MaxBatch \in Nat
  BY LogAssumption, EngineAssumption DEF Msg, NoSeq
<1>4. /\ engine'.pc = "stopped" /\ engine'.state = <<>> /\ engine' \in EngineState
      /\ commit'.pc = "gone" /\ commit'.batch = <<>> /\ commit'.then = "recv"
      /\ commit' \in CommitState
  <2>1. engine'.pc = "stopped" /\ engine'.state = <<>>
    BY <1>2 DEF DownEngine
  <2>2. engine' \in EngineState
    BY <1>2, <1>3 DEF DownEngine, EngineState, EnginePcs
  <2>3. /\ commit'.pc = "gone" /\ commit'.batch = <<>> /\ commit'.then = "recv"
        /\ commit' \in CommitState
    BY <1>2, <1>3 DEF DownCommit, CommitState, CommitPcs
  <2> QED BY <2>1, <2>2, <2>3
<1>5. /\ ack'.pc = "gone" /\ ack' \in AckState /\ standby'.alive = FALSE
      /\ standby' \in StandbyState
      /\ snapper'.queue = <<>> /\ snapper'.writing = <<>>
      /\ snapper' \in [queue : Seq(Seq(Record)), writing : Seq(Seq(Record))]
  <2>1. ack'.pc = "gone" /\ ack' \in AckState
    BY <1>2, <1>3 DEF DownAck, AckState, AckPcs
  <2>2. standby'.alive = FALSE /\ standby' \in StandbyState
    BY <1>2, <1>3 DEF DownStandby, StandbyState
  <2>3. /\ snapper'.queue = <<>> /\ snapper'.writing = <<>>
        /\ snapper' \in [queue : Seq(Seq(Record)), writing : Seq(Seq(Record))]
    BY <1>2, <1>3 DEF IdleSnapper
  <2> QED BY <2>1, <2>2, <2>3
<1>6. Shapes'
  <2>0. IngressShape'
    BY <1>2, <1>3 DEF IngressShape
  <2>1. ProcessShape' /\ IngressShape'
    <3>1. told \subseteq Record /\ starts \in 0..MaxStarts
      BY <1>1 DEF Shapes, ProcessShape
    <3>2. told' \subseteq Record /\ starts' \in 0..MaxStarts
      BY <3>1
    <3> QED BY <1>2, <2>0, <3>2 DEF ProcessShape
  <2>2. EngineShape' /\ QueueShape' /\ CommitShape'
    BY <1>2, <1>3, <1>4 DEF EngineShape, QueueShape, CommitShape
  <2>3. MarkShape' /\ AckShape' /\ StandbyShape'
    BY <1>2, <1>3, <1>5 DEF MarkShape, AckShape, StandbyShape
  <2>4. SnapperShape' /\ SnapshotShape'
    BY <1>1, <1>3, <1>5 DEF Shapes, SnapperShape, SnapshotShape
  <2> QED BY <2>1, <2>2, <2>3, <2>4 DEF Shapes
<1>7. Downs'
  BY <1>2 DEF Downs, IdleSnapper, DownEngine, DownCommit, DownAck, DownStandby, StopMsg
<1>8. Numbers'
  <2>1. Numbered(engine.state)' /\ (\A s \in snapshots : Numbered(s))'
    BY <1>1, <1>3, <1>4 DEF Numbers, Numbered
  <2>2. /\ (\A i \in 1..Len(snapper.queue) : Numbered(snapper.queue[i]))'
        /\ (\A i \in 1..Len(snapper.writing) : Numbered(snapper.writing[i]))'
    BY <1>3, <1>5
  <2> QED BY <1>4, <1>5, <2>1, <2>2 DEF Numbers
<1>9. Pending' = {}
  <2>1. Recs(ackQ)' = {}
    BY <1>2, <1>3 DEF Recs
  <2> QED BY <1>4, <1>5, <2>1 DEF Pending
<1>10. Members'
  <2>1. Recs(commit.batch)' = {} /\ Len(commitQ') = 0
    BY <1>2, <1>3, <1>4 DEF Recs
  <2> QED BY <1>4, <1>9, <2>1 DEF Members
<1>11. Stops'
  <2>1. ~StopSeen' /\ Len(commitQ') = 0
    BY <1>2, <1>3, <1>4 DEF StopSeen
  <2> QED BY <1>2, <1>4, <2>1 DEF Stops
<1>12. Pipe'
  BY <1>4 DEF Pipe
<1>13. Covered'
  <2>1. ToldIsDurable'
    BY <1>1 DEF Covered, ToldIsDurable, Synced
  <2> QED BY <1>4, <1>5, <1>9, <2>1 DEF Covered
<1> QED BY <1>2, <1>4, <1>6, <1>7, <1>8, <1>10, <1>11, <1>12, <1>13 DEF EngineInv

LEMMA JoinAcksStep ==
  ASSUME EngineInv, JoinAcks
  PROVE  EngineInv' /\ PipeKept /\ ~up'
<1>1. AllDown /\ UNCHANGED <<log, synced, durable, running, caller, snapshots, told, starts>>
  BY DEF JoinAcks, logVars
<1>2. LogShape' /\ Numbered(log)' /\ Synced' = Synced
  BY <1>1 DEF EngineInv, Shapes, LogShape, Numbers, Numbered, LastSeq, Synced
<1>3. caller' \in [Commands -> {"idle", "waiting", "shed", "acked", "unknown"}]
  BY <1>1 DEF EngineInv, Shapes, ProcessShape
<1>4. EngineInv' /\ commit'.pc = "gone" /\ ~up'
  BY <1>1, <1>2, <1>3, GoneDown
<1> QED BY <1>4 DEF PipeKept

LEMMA CrashStep ==
  ASSUME EngineInv, Crash
  PROVE  EngineInv' /\ PipeKept /\ ~up'
<1>1. /\ LogLose /\ AllDown /\ UNCHANGED <<snapshots, told, starts>>
      /\ caller' = Dropped({c \in Commands : caller[c] = "waiting"})
  BY DEF Crash
<1>2. LogShape /\ Numbered(log) /\ ProcessShape
  BY DEF EngineInv, Shapes, Numbers
<1>3. LogShape' /\ Numbered(log)' /\ Synced \subseteq Synced'
  <2>1. LogNext
    BY <1>1 DEF LogNext
  <2> QED BY <1>2, <2>1, LogNumbers
<1>4. /\ caller' \in [Commands -> {"idle", "waiting", "shed", "acked", "unknown"}]
      /\ \A c \in Commands : caller'[c] = "acked" => caller[c] = "acked"
  BY <1>1, <1>2, DroppedType
<1>5. EngineInv' /\ commit'.pc = "gone" /\ ~up'
  BY <1>1, <1>3, <1>4, GoneDown
<1> QED BY <1>5 DEF PipeKept

(* What a start makes of the files. *)
LEMMA RecoverParts ==
  ASSUME EngineInv, Recover
  PROVE  \E readable \in SUBSET snapshots :
           LET state == Rebuilt(readable)
           IN  /\ state \in Seq(Record) /\ Numbered(state)
               /\ log # <<>> => LastSeq(state) = LastSeq(log)
               /\ engine' = [DownEngine EXCEPT !.pc = "next", !.state = state,
                                !.next_seq = NextSeq(state), !.last_snapshot = NextSeq(state)]
               /\ standby' = IF Replication = "None" THEN DownStandby
                             ELSE [DownStandby EXCEPT !.state = state, !.alive = TRUE]
<1>1. PICK readable \in SUBSET snapshots :
        LET base == Base(readable)
            tail == Replayed(LastSeq(base))
            state == base \o tail
        IN  /\ tail # <<>> => Follows(LastSeq(base), Head(tail))
            /\ engine' = [DownEngine EXCEPT !.pc = "next", !.state = state,
                             !.next_seq = NextSeq(state), !.last_snapshot = NextSeq(state)]
            /\ standby' = IF Replication = "None" THEN DownStandby
                          ELSE [DownStandby EXCEPT !.state = state, !.alive = TRUE]
  BY Zenon DEF Recover
<1>2. log \in Seq(Record) /\ Numbered(log)
  BY DEF EngineInv, Shapes, LogShape, Numbers
<1>3. readable \subseteq Seq(Record) /\ \A s \in readable : Numbered(s)
  BY DEF EngineInv, Shapes, SnapshotShape, Numbers
<1>4. LET tail == Replayed(LastSeq(Base(readable)))
      IN  tail # <<>> => Follows(LastSeq(Base(readable)), Head(tail))
  BY <1>1, Zenon
<1>5. /\ Rebuilt(readable) \in Seq(Record) /\ Numbered(Rebuilt(readable))
      /\ log # <<>> => LastSeq(Rebuilt(readable)) = LastSeq(log)
  BY <1>2, <1>3, <1>4, RebuiltParts
<1>6. /\ engine' = [DownEngine EXCEPT !.pc = "next", !.state = Rebuilt(readable),
                       !.next_seq = NextSeq(Rebuilt(readable)),
                       !.last_snapshot = NextSeq(Rebuilt(readable))]
      /\ standby' = IF Replication = "None" THEN DownStandby
                    ELSE [DownStandby EXCEPT !.state = Rebuilt(readable), !.alive = TRUE]
  BY <1>1, Zenon DEF Rebuilt
<1> HIDE DEF Rebuilt
<1> QED BY <1>5, <1>6, Zenon

LEMMA RecoverStep ==
  ASSUME EngineInv, Recover
  PROVE  EngineInv'
<1>1. Shapes /\ Downs /\ Numbers /\ Covered
  BY DEF EngineInv
<1>2. /\ ~up /\ up' = TRUE /\ starts < MaxStarts /\ starts' = starts + 1
      /\ LogOpen /\ watermark' = [live |-> TRUE, durable |-> LastSeq(log)]
      /\ commit' = [DownCommit EXCEPT !.pc = "recv"] /\ ack' = [DownAck EXCEPT !.pc = "recv"]
      /\ UNCHANGED <<caller, ingress, commitQ, ackQ, snapper, snapshots, stopping, told>>
  BY DEF Recover
<1>3. PICK readable \in SUBSET snapshots :
        LET state == Rebuilt(readable)
        IN  /\ state \in Seq(Record) /\ Numbered(state)
            /\ log # <<>> => LastSeq(state) = LastSeq(log)
            /\ engine' = [DownEngine EXCEPT !.pc = "next", !.state = state,
                             !.next_seq = NextSeq(state), !.last_snapshot = NextSeq(state)]
            /\ standby' = IF Replication = "None" THEN DownStandby
                          ELSE [DownStandby EXCEPT !.state = state, !.alive = TRUE]
  BY RecoverParts
<1> DEFINE state == Rebuilt(readable)
<1>4. /\ state \in Seq(Record) /\ Numbered(state)
      /\ log # <<>> => LastSeq(state) = LastSeq(log)
      /\ engine' = [DownEngine EXCEPT !.pc = "next", !.state = state,
                       !.next_seq = NextSeq(state), !.last_snapshot = NextSeq(state)]
      /\ standby' = IF Replication = "None" THEN DownStandby
                    ELSE [DownStandby EXCEPT !.state = state, !.alive = TRUE]
  BY <1>3
<1> HIDE DEF state
<1>5. LogShape' /\ Numbered(log)' /\ Synced \subseteq Synced' /\ log' = log /\ durable' = LastSeq(log)
  <2>1. LogNext
    BY <1>2 DEF LogNext
  <2> QED BY <1>1, <1>2, <2>1, LogNumbers DEF Shapes, Numbers, LogOpen
<1>6. /\ Len(<<>>) = 0 /\ (\A S : <<>> \in Seq(S)) /\ MaxSeq \in Nat /\ StopMsg \in Msg
      /\ NoSeq \in NoSeq..MaxSeq /\ MaxBatch \in Nat
  BY LogAssumption, EngineAssumption DEF Msg, NoSeq
<1>7. NextSeq(state) = LastSeq(state) + 1 /\ NextSeq(state) \in 0..(MaxSeq + 1)
      /\ NextSeq(state) \in Nat /\ LastSeq(state) \in Int
  <2>1. NextSeq(state) = LastSeq(state) + 1 /\ NextSeq(state) \in 0..(MaxSeq + 1)
    BY <1>4, NextSeqType
  <2>2. LastSeq(state) \in Int
    BY <1>4, LastSeqType DEF NoSeq
  <2> QED BY <2>1, <2>2
<1>8. /\ engine'.pc = "next" /\ engine'.state = state /\ engine'.next_seq = NextSeq(state)
      /\ engine' \in EngineState
  <2>1. engine' = [pc |-> "next", state |-> state, next_seq |-> NextSeq(state), rec |-> StopMsg,
                   last_snapshot |-> NextSeq(state), settled |-> FALSE]
    BY <1>4 DEF DownEngine
  <2>2. NextSeq(state) \in Int /\ "next" \in EnginePcs
    BY <1>7 DEF EnginePcs
  <2>3. state \in Seq(Record) /\ StopMsg \in Msg /\ NextSeq(state) \in 0..(MaxSeq + 1)
    BY <1>4, <1>6, <1>7
  <2>4. engine' \in EngineState
    BY <2>1, <2>2, <2>3, Zenon DEF EngineState
  <2> QED BY <2>1, <2>4
<1>9. /\ commit'.pc = "recv" /\ commit'.batch = <<>> /\ commit'.then = "recv"
      /\ commit' \in CommitState
  BY <1>2, <1>6 DEF DownCommit, CommitState, CommitPcs
<1>10. ack'.pc = "recv" /\ ack' \in AckState
  BY <1>2, <1>6 DEF DownAck, AckState, AckPcs
<1>11. /\ standby' \in StandbyState
       /\ standby'.alive => standby'.queue = <<>> /\ standby'.state = state
  <2>1. CASE Replication = "None"
    BY <1>4, <1>6, <2>1 DEF DownStandby, StandbyState
  <2>2. CASE Replication # "None"
    BY <1>4, <1>6, <2>2 DEF DownStandby, StandbyState
  <2> QED BY <2>1, <2>2
<1>12. ingress = <<>> /\ commitQ = <<>> /\ ackQ = <<>> /\ snapper = IdleSnapper /\ stopping = "no"
  BY <1>1, <1>2 DEF Downs
<1>13. Shapes'
  <2>1. ProcessShape'
    <3>1. starts \in Nat /\ MaxStarts \in Nat /\ starts \in 0..MaxStarts
      BY <1>1, EngineAssumption DEF Shapes, ProcessShape
    <3>2. starts' \in 0..MaxStarts
      BY <1>2, <3>1
    <3> QED BY <1>1, <1>2, <3>2 DEF Shapes, ProcessShape
  <2>2. IngressShape' /\ QueueShape' /\ SnapperShape' /\ SnapshotShape'
    BY <1>1, <1>2 DEF Shapes, IngressShape, QueueShape, SnapperShape, SnapshotShape
  <2>3. EngineShape' /\ CommitShape' /\ StandbyShape'
    BY <1>6, <1>8, <1>9, <1>11 DEF EngineShape, CommitShape, StandbyShape
  <2>4. AckShape'
    BY <1>1, <1>2, <1>10 DEF Shapes, AckShape
  <2>5. MarkShape'
    <3>1. LastSeq(log) \in NoSeq..MaxSeq
      BY <1>1, LastSeqType DEF Shapes, LogShape
    <3> QED BY <1>2, <3>1 DEF MarkShape
  <2> QED BY <1>5, <2>1, <2>2, <2>3, <2>4, <2>5 DEF Shapes
<1>14. Downs'
  BY <1>2 DEF Downs
<1>15. Numbers'
  <2>1. /\ (\A s \in snapshots : Numbered(s))'
        /\ (\A i \in 1..Len(snapper.queue) : Numbered(snapper.queue[i]))'
        /\ (\A i \in 1..Len(snapper.writing) : Numbered(snapper.writing[i]))'
    BY <1>1, <1>2 DEF Numbers
  <2>2. Numbered(engine.state)' /\ (engine.state # <<>> => engine.next_seq = LastSeq(engine.state) + 1)'
    BY <1>4, <1>7, <1>8 DEF Numbered, LastSeq
  <2>3. (standby.alive =>
          /\ \A i \in 1..Len(standby.queue) :
               standby.queue[i].seq = (engine.next_seq - Len(standby.queue)) + (i - 1)
          /\ standby.state # <<>> =>
               LastSeq(standby.state) = engine.next_seq - Len(standby.queue) - 1)'
    <3>1. SUFFICES ASSUME standby'.alive
                   PROVE  /\ standby'.queue = <<>>
                          /\ LastSeq(standby'.state) = engine'.next_seq - Len(standby'.queue) - 1
      BY <1>6
    <3>2. standby'.queue = <<>> /\ standby'.state = state
      BY <1>11, <3>1
    <3>3. LastSeq(state) = NextSeq(state) - 0 - 1
      BY <1>7
    <3> QED BY <1>6, <1>8, <3>2, <3>3
  <2> QED BY <1>5, <2>1, <2>2, <2>3 DEF Numbers
<1>16. Pending' = {}
  <2>1. Recs(ackQ)' = {}
    BY <1>2, <1>6, <1>12 DEF Recs
  <2> QED BY <1>8, <1>10, <2>1 DEF Pending
<1>17. Len(commitQ') = 0 /\ Recs(commit.batch)' = {} /\ Len(commit'.batch) = 0
  BY <1>2, <1>6, <1>9, <1>12 DEF Recs
<1>18. Members'
  BY <1>8, <1>16, <1>17 DEF Members
<1>19. Stops'
  <2>1. ~StopSeen'
    BY <1>9 DEF StopSeen
  <2> QED BY <1>2, <1>9, <1>12, <1>17, <2>1 DEF Stops
<1>20. PICK f \in Nat : f = NextSeq(state)
  BY <1>7
<1>21. Pipe'
  <2>1. log # <<>> => LastSeq(log) = f - 1
    BY <1>4, <1>7, <1>20
  <2>2. LastSeq(log) < f
    <3>1. CASE log = <<>>
      BY <3>1 DEF LastSeq, NoSeq
    <3>2. CASE log # <<>>
      BY <1>4, <1>7, <1>20, <3>2
    <3> QED BY <3>1, <3>2
  <2>3. (durable < f /\ watermark.durable < f)'
    BY <1>2, <1>5, <2>2
  <2>4. engine'.next_seq = f + Len(commit'.batch) + Len(commitQ')
    BY <1>8, <1>17, <1>20
  <2>5. (log # <<>> => LastSeq(log) = f - 1)'
    BY <1>5, <2>1 DEF LastSeq
  <2>6. PipeAt(f)'
    BY <1>8, <1>16, <1>17, <2>3, <2>4, <2>5 DEF PipeAt
  <2> QED BY <2>6 DEF Pipe
<1>22. Covered'
  <2>1. ToldIsDurable'
    <3>1. told \subseteq Synced'
      BY <1>1, <1>5 DEF Covered, ToldIsDurable, Synced
    <3>2. told' = told /\ caller' = caller
      BY <1>2
    <3> QED BY <1>1, <3>1, <3>2 DEF Covered, ToldIsDurable, Synced
  <2> QED BY <1>9, <1>10, <1>16, <2>1 DEF Covered
<1> QED BY <1>13, <1>14, <1>15, <1>18, <1>19, <1>21, <1>22 DEF EngineInv

-----------------------------------------------------------------------------
(* The invariant holds. *)

LEMMA CommitThreadStep ==
  ASSUME EngineInv, CommitStep \/ CommitFails
  PROVE  EngineInv' /\ (CommitAppend \/ PipeKept)
BY CommitReceives, CommitLingers, CommitAppends, CommitSyncs, CommitPublishes, CommitDrains,
   CommitEnds DEF CommitStep

LEMMA StopsStep ==
  ASSUME EngineInv, RequestStop \/ StopStep
  PROVE  EngineInv' /\ PipeKept
BY StopMoves, StopQueued, JoinAcksStep DEF StopStep

LEMMA UnchangedStep ==
  ASSUME EngineInv, UNCHANGED vars
  PROVE  EngineInv' /\ PipeKept
<1>1. /\ UNCHANGED <<log, synced, durable, running, up, caller, ingress, engine, commitQ, commit>>
      /\ UNCHANGED <<watermark, ackQ, ack, standby, snapper, snapshots, stopping, told, starts>>
  BY DEF vars, threadVars, logVars
<1>2. Shapes /\ Downs /\ Numbers /\ Pipe
  BY DEF EngineInv
<1>3. Shapes'
  <2>1. LogShape' /\ EngineShape' /\ QueueShape' /\ CommitShape' /\ MarkShape' /\ IngressShape'
    BY <1>1, <1>2 DEF Shapes, LogShape, EngineShape, QueueShape, CommitShape, MarkShape,
                      IngressShape
  <2>2. AckShape' /\ StandbyShape' /\ SnapperShape' /\ SnapshotShape' /\ ProcessShape'
    BY <1>1, <1>2 DEF Shapes, AckShape, StandbyShape, SnapperShape, SnapshotShape, ProcessShape
  <2> QED BY <2>1, <2>2 DEF Shapes
<1>4. Downs'
  BY <1>1, <1>2 DEF Downs
<1>5. Numbers'
  BY <1>1, <1>2, NumbersStay
<1>6. Pending' \subseteq Pending
  BY <1>1 DEF Pending, Recs
<1>7. Members' /\ Stops' /\ PipeKept /\ Covered'
  BY <1>1, <1>6, QuietStep
<1> QED BY <1>2, <1>3, <1>4, <1>5, <1>7, KeptPipe DEF EngineInv

LEMMA NextInv ==
  ASSUME EngineInv, [Next]_vars
  PROVE  EngineInv' /\ (CommitAppend \/ Recover \/ PipeKept)
<1>1. CASE \E c \in Commands : Submit(c)
  BY <1>1, SubmitStep
<1>2. CASE EngineStep
  BY <1>2, EngineThreadStep
<1>3. CASE CommitStep \/ CommitFails
  BY <1>3, CommitThreadStep
<1>4. CASE AckStep
  BY <1>4, AckThreadStep
<1>5. CASE StandbyApply \/ StandbyConfirm \/ StandbyStops \/ StandbyDies
  BY <1>5, StandbyApplies, StandbyRests
<1>6. CASE SnapshotStep
  BY <1>6, SnapshotThreadStep
<1>7. CASE RequestStop \/ StopStep
  BY <1>7, StopsStep
<1>8. CASE Crash
  BY <1>8, CrashStep
<1>9. CASE Recover
  BY <1>9, RecoverStep
<1>10. CASE UNCHANGED vars
  BY <1>10, UnchangedStep
<1> QED BY <1>1, <1>2, <1>3, <1>4, <1>5, <1>6, <1>7, <1>8, <1>9, <1>10 DEF Next

(***************************************************************************)
(* The invariant of the threads: whatever the schedule, the crashes and    *)
(* the restarts, histories are numbered without gaps, the records between  *)
(* the engine and the log follow each other (engine.rs:409-425,            *)
(* commit.rs:224-327), and what a published mark covers is synced.         *)
(***************************************************************************)
THEOREM EngineAlwaysSound == Spec => []EngineInv
<1>1. EngineInv /\ [Next]_vars => EngineInv'
  BY NextInv
<1> QED BY InitInv, <1>1, PTL DEF Spec

(* Every queue keeps to its depth and every thread to its types: a full    *)
(* commit queue stalls the engine and a full ingress sheds                 *)
(* (commit.rs:137-152, ingress.rs:80-96).                                  *)
THEOREM EngineTypeCorrect == Spec => []TypeOK
<1>1. EngineInv => TypeOK
  BY ShapesType DEF EngineInv
<1> QED BY EngineAlwaysSound, <1>1, PTL

(* I6: nothing is told before an fsync has covered it, and no submitter    *)
(* has an answer to what was not told, through any failure of the log, any *)
(* crash and any restart (commit.rs:329-339, engine.rs:607-675).           *)
THEOREM ToldIsAlwaysDurable == Spec => []ToldIsDurable
<1>1. EngineInv => ToldIsDurable
  BY DEF EngineInv, Covered
<1> QED BY EngineAlwaysSound, <1>1, PTL

(* I4: neither the engine nor the standby is ever handed a command out of  *)
(* sequence, wherever the recovery they started from took its base         *)
(* (state.rs:165-175, replay.rs:36-105).                                   *)
THEOREM NeverOutOfSequence == Spec => []SequencerNeverPanics
<1>1. ASSUME EngineInv PROVE SequencerNeverPanics
  <2>1. Shapes /\ Numbers
    BY <1>1 DEF EngineInv
  <2>2. engine.state # <<>> => engine.next_seq = LastSeq(engine.state) + 1
    BY <2>1 DEF Numbers
  <2>3. ASSUME standby.alive, standby.queue # <<>>
        PROVE  InSequence(standby.state, Head(standby.queue).seq)
    <3>1. standby.queue \in Seq(Record) /\ standby.state \in Seq(Record)
      BY <2>1, StandbyFields DEF Shapes
    <3>2. 1 \in 1..Len(standby.queue) /\ Head(standby.queue) = standby.queue[1]
          /\ Len(standby.queue) \in Nat
      BY <2>3, <3>1, QueueParts
    <3>3. engine.next_seq \in Int
      BY <2>1, EngineFields DEF Shapes
    <3>4. standby.queue[1].seq = (engine.next_seq - Len(standby.queue)) + (1 - 1)
      BY <2>1, <2>3, <3>2 DEF Numbers
    <3>5. standby.state # <<>> =>
            LastSeq(standby.state) = engine.next_seq - Len(standby.queue) - 1
      BY <2>1, <2>3 DEF Numbers
    <3> QED BY <3>2, <3>3, <3>4, <3>5 DEF InSequence
  <2> QED BY <2>2, <2>3 DEF SequencerNeverPanics, InSequence
<1> QED BY EngineAlwaysSound, <1>1, PTL

-----------------------------------------------------------------------------
(* The log and the standby follow the auction. *)

LEMMA PrefixParts ==
  ASSUME NEW s \in Seq(Record), NEW t \in Seq(Record), NEW u \in Seq(Record)
  PROVE  /\ Prefix(s, s) /\ Prefix(<<>>, s)
         /\ Prefix(s, t) /\ Prefix(t, u) => Prefix(s, u)
         /\ Prefix(s, t) => Recs(s) \subseteq Recs(t)
         /\ \A r \in Record : Prefix(s, Append(s, r))
         /\ \A n \in 0..Len(s) : Prefix(SubSeq(s, 1, n), s)
<1>1. Prefix(s, s) /\ Prefix(<<>>, s)
  BY DEF Prefix
<1>2. Prefix(s, t) /\ Prefix(t, u) => Prefix(s, u)
  BY DEF Prefix
<1>3. Prefix(s, t) => Recs(s) \subseteq Recs(t)
  BY DEF Prefix, Recs
<1>4. \A r \in Record : Prefix(s, Append(s, r))
  BY AppendParts DEF Prefix
<1>5. \A n \in 0..Len(s) : Prefix(SubSeq(s, 1, n), s)
  BY DEF Prefix
<1> QED BY <1>1, <1>2, <1>3, <1>4, <1>5

(* The auction is numbered from zero. *)
LEMMA StateFromZero ==
  ASSUME EngineInv, LogLeads
  PROVE  /\ engine.state \in Seq(Record) /\ log \in Seq(Record)
         /\ \A i \in 1..Len(engine.state) : engine.state[i].seq = i - 1
<1>1. engine.state \in Seq(Record) /\ log \in Seq(Record)
  BY EngineFields DEF EngineInv, Shapes, LogShape
<1>2. Numbered(engine.state) /\ engine.next_seq = Len(engine.state)
      /\ (engine.state # <<>> => engine.next_seq = LastSeq(engine.state) + 1)
  BY DEF EngineInv, Numbers, LogLeads
<1>3. ASSUME NEW i \in 1..Len(engine.state) PROVE engine.state[i].seq = i - 1
  <2>1. engine.state # <<>> /\ Len(engine.state) \in Nat
    BY <1>1, <1>3
  <2>2. LastSeq(engine.state) \in Int /\ Len(engine.state) = LastSeq(engine.state) + 1
    BY <1>1, <1>2, <2>1, LastSeqType DEF NoSeq
  <2>3. engine.state[i].seq = (LastSeq(engine.state) - Len(engine.state)) + i
    BY <1>2 DEF Numbered
  <2> QED BY <2>1, <2>2, <2>3
<1> QED BY <1>1, <1>3

LEMMA LeadsStays ==
  ASSUME EngineInv, EngineInv', LogLeads, Prefix(log', log),
         up' => up /\ Prefix(engine.state, engine'.state),
         engine'.next_seq = Len(engine'.state),
         commit'.pc # "gone" => log' = log, PipeKept
  PROVE  LogLeads'
<1>1. /\ log \in Seq(Record) /\ log' \in Seq(Record)
      /\ engine.state \in Seq(Record) /\ engine'.state \in Seq(Record)
  BY EngineFields DEF EngineInv, Shapes, LogShape, EngineShape, EngineState
<1>2. (\A i \in 1..Len(log) : log[i].seq = i - 1)'
  BY <1>1 DEF LogLeads, Prefix
<1>3. ASSUME up' PROVE Prefix(log', engine'.state)
  <2>1. Prefix(log, engine.state) /\ Prefix(engine.state, engine'.state)
    BY <1>3 DEF LogLeads
  <2>2. Prefix(log', engine.state)
    BY <1>1, <2>1, PrefixParts
  <2> QED BY <1>1, <2>1, <2>2, PrefixParts
<1>4. ASSUME commit'.pc # "gone" PROVE PipeAt(Len(log))'
  <2>1. PICK n \in Nat : n = Len(log)
    BY <1>1
  <2>2. PipeAt(n) /\ Len(log') = n
    BY <1>4, <2>1 DEF PipeKept, LogLeads
  <2>3. PipeAt(n)'
    BY <1>4, <2>2 DEF PipeKept
  <2> QED BY <2>2, <2>3 DEF PipeAt
<1>5. (up => Prefix(log, engine.state))'
  BY <1>3 DEF Prefix
<1> QED BY <1>2, <1>4, <1>5 DEF LogLeads

LEMMA CopiesStay ==
  ASSUME StandbyCopies, engine'.state = engine.state, standby'.state = standby.state,
         standby'.alive => standby.alive /\ standby'.queue = standby.queue,
         standby'.confirmed = standby.confirmed
  PROVE  StandbyCopies'
BY DEF StandbyCopies, Prefix

LEMMA KnowsStays ==
  ASSUME StandbyKnows, Recs(engine.state) \subseteq Recs(engine.state)',
         Recs(standby.state) \subseteq Recs(standby.state)', up' => up, told' = told,
         ack'.pc \in {"replica", "tell", "reply"} => ack'.pc = ack.pc /\ ack'.rec = ack.rec,
         ~ack'.lost => ~ack.lost
  PROVE  StandbyKnows'
BY DEF StandbyKnows

(* A step that leaves the auction and its copies alone. *)
LEMMA CalmStep ==
  ASSUME EngineInv, EngineInv', PipeKept, FollowInv,
         log' = log \/ (commit'.pc = "gone" /\ Prefix(log', log)),
         UNCHANGED <<up, standby, ack, told>>,
         engine'.state = engine.state, engine'.next_seq = engine.next_seq
  PROVE  FollowInv'
<1>1. log \in Seq(Record) /\ engine.state \in Seq(Record)
  BY StateFromZero DEF FollowInv
<1>2. Prefix(log, log) /\ Prefix(engine.state, engine.state)
  BY <1>1, PrefixParts
<1>3. LogLeads'
  BY <1>2, LeadsStays DEF FollowInv, LogLeads
<1>4. StandbyCopies'
  BY CopiesStay DEF FollowInv
<1>5. Recs(engine.state)' = Recs(engine.state) /\ Recs(standby.state)' = Recs(standby.state)
  BY DEF Recs
<1>6. StandbyKnows'
  BY <1>5, KnowsStays DEF FollowInv
<1> QED BY <1>3, <1>4, <1>6 DEF FollowInv

(* The record appended is the next one of the auction. *)
LEMMA AppendFollows ==
  ASSUME EngineInv, FollowInv, CommitAppend
  PROVE  FollowInv'
<1>1. EngineInv' /\ \A f \in Nat : PipeAt(f) => PipeAt(f + 1)'
  BY CommitAppends
<1>2. /\ commit.pc = "write" /\ commit.batch # <<>> /\ log' = Append(log, Head(commit.batch))
      /\ UNCHANGED <<up, standby, ack, told, engine>>
  BY DEF CommitAppend, LogAppend, commitRest
<1>3. up
  BY <1>2, UpWhen DEF EngineInv
<1>4. /\ engine.state \in Seq(Record) /\ log \in Seq(Record)
      /\ \A i \in 1..Len(engine.state) : engine.state[i].seq = i - 1
  BY StateFromZero DEF FollowInv
<1>5. commit.batch \in Seq(Record) /\ Recs(commit.batch) \subseteq Recs(engine.state)
  BY CommitFields DEF EngineInv, Shapes, Members
<1> DEFINE h == Head(commit.batch)
           n == Len(log)
<1>6. /\ h \in Record /\ h \in Recs(engine.state) /\ h = commit.batch[1]
      /\ 1 \in 1..Len(commit.batch)
  BY <1>2, <1>5, QueueParts, RecsParts
<1>7. PipeAt(n) /\ n \in Nat
  BY <1>2, <1>4 DEF FollowInv, LogLeads
<1>8. h.seq = n
  <2>1. h.seq = n + (1 - 1)
    BY <1>6, <1>7 DEF PipeAt
  <2> HIDE DEF h
  <2> QED BY <1>7, <2>1
<1> HIDE DEF h
<1>9. n + 1 \in 1..Len(engine.state) /\ engine.state[n + 1] = h
  <2>1. PICK j \in 1..Len(engine.state) : engine.state[j] = h
    BY <1>6 DEF Recs
  <2>2. j - 1 = n
    BY <1>4, <1>8, <2>1
  <2>3. j = n + 1
    BY <1>7, <2>2
  <2> QED BY <2>1, <2>3
<1>10. /\ log' \in Seq(Record) /\ Len(log') = n + 1 /\ log'[n + 1] = h
       /\ \A i \in 1..n : log'[i] = log[i]
  BY <1>2, <1>4, <1>6, AppendParts DEF h
<1>11. Prefix(log, engine.state) /\ \A i \in 1..n : log[i].seq = i - 1
  BY <1>3 DEF FollowInv, LogLeads
<1>12. (\A i \in 1..Len(log) : log[i].seq = i - 1)'
  <2> SUFFICES ASSUME NEW i \in 1..(n + 1) PROVE log'[i].seq = i - 1
    BY <1>10
  <2>1. CASE i = n + 1
    BY <1>7, <1>8, <1>10, <2>1
  <2>2. CASE i # n + 1
    BY <1>7, <1>10, <1>11, <2>2
  <2> QED BY <2>1, <2>2
<1>13. Prefix(log', engine'.state)
  <2>1. n + 1 <= Len(engine.state)
    BY <1>4, <1>9
  <2>2. ASSUME NEW i \in 1..(n + 1) PROVE log'[i] = engine.state[i]
    <3>1. CASE i = n + 1
      BY <1>9, <1>10, <3>1
    <3>2. CASE i # n + 1
      BY <1>7, <1>10, <1>11, <3>2 DEF Prefix
    <3> QED BY <3>1, <3>2
  <2> QED BY <1>2, <1>10, <2>1, <2>2 DEF Prefix
<1>14. PipeAt(Len(log))'
  <2>1. PICK f \in Nat : f = n
    BY <1>7
  <2>2. PipeAt(f + 1)'
    BY <1>1, <1>7, <2>1
  <2>3. Len(log') = f + 1
    BY <1>10, <2>1
  <2> QED BY <2>2, <2>3 DEF PipeAt
<1>15. LogLeads'
  <2>1. (engine.next_seq = Len(engine.state))'
    BY <1>2 DEF FollowInv, LogLeads
  <2>2. (up => Prefix(log, engine.state))'
    BY <1>13 DEF Prefix
  <2> QED BY <1>12, <1>14, <2>1, <2>2 DEF LogLeads
<1>16. StandbyCopies'
  BY <1>2, CopiesStay DEF FollowInv
<1>17. Recs(engine.state)' = Recs(engine.state) /\ Recs(standby.state)' = Recs(standby.state)
  BY <1>2 DEF Recs
<1>18. StandbyKnows'
  BY <1>2, <1>17, KnowsStays DEF FollowInv
<1> QED BY <1>15, <1>16, <1>18 DEF FollowInv

(* A command applied goes to the end of every copy. *)
LEMMA TakeFollows ==
  ASSUME EngineInv, EngineInv', PipeKept, FollowInv, NEW c \in Commands, Take(c), up,
         UNCHANGED <<log, up, ack, told>>
  PROVE  FollowInv'
<1>1. /\ engine.state \in Seq(Record) /\ log \in Seq(Record)
      /\ engine'.state \in Seq(Record)
  BY StateFromZero, EngineFields DEF FollowInv, EngineInv, Shapes, EngineShape, EngineState
<1>2. PICK r : r = [seq |-> engine.next_seq, cmd |-> c]
  OBVIOUS
<1>3. /\ r \in Record /\ engine'.next_seq = engine.next_seq + 1
      /\ engine'.state = Append(engine.state, r)
      /\ standby'.state = standby.state /\ standby'.alive = standby.alive
      /\ standby'.confirmed = standby.confirmed
      /\ standby'.queue = IF standby.alive THEN Append(standby.queue, r) ELSE standby.queue
  BY <1>2, TakeParts DEF EngineInv, Shapes
<1>4. standby.queue \in Seq(Record) /\ standby.state \in Seq(Record)
  BY StandbyFields DEF EngineInv, Shapes
<1> DEFINE n == Len(engine.state)
           m == Len(standby.queue)
           k == Len(standby.state)
<1>5. /\ Len(engine'.state) = n + 1 /\ n \in Nat /\ engine'.state[n + 1] = r
      /\ \A i \in 1..n : engine'.state[i] = engine.state[i]
  BY <1>1, <1>3, AppendParts
<1>6. /\ Len(Append(standby.queue, r)) = m + 1 /\ m \in Nat /\ Append(standby.queue, r)[m + 1] = r
      /\ \A i \in 1..m : Append(standby.queue, r)[i] = standby.queue[i]
  BY <1>3, <1>4, AppendParts
<1>7. Prefix(engine.state, engine'.state) /\ Prefix(log, log)
  BY <1>1, <1>3, PrefixParts
<1>8. LogLeads'
  <2>1. engine'.next_seq = Len(engine'.state)
    BY <1>3, <1>5 DEF FollowInv, LogLeads
  <2> QED BY <1>7, <2>1, LeadsStays DEF FollowInv
<1>9. StandbyCopies'
  <2>1. Prefix(standby.state, engine.state) /\ standby.confirmed < k
    BY DEF FollowInv, StandbyCopies
  <2>2. Prefix(standby.state, engine'.state)
    BY <1>1, <1>4, <1>7, <2>1, PrefixParts
  <2>3. ASSUME standby.alive
        PROVE  /\ k + (m + 1) = n + 1
               /\ \A i \in 1..(m + 1) : Append(standby.queue, r)[i] = engine'.state[k + i]
    <3>1. k + m = n /\ \A i \in 1..m : standby.queue[i] = engine.state[k + i]
      BY <2>3 DEF FollowInv, StandbyCopies
    <3>2. k \in Nat
      BY <1>4
    <3> HIDE DEF k, m, n
    <3>3. ASSUME NEW i \in 1..(m + 1) PROVE Append(standby.queue, r)[i] = engine'.state[k + i]
      <4>1. CASE i = m + 1
        <5>1. k + i = n + 1
          BY <1>5, <1>6, <3>1, <3>2, <4>1
        <5> QED BY <1>5, <1>6, <4>1, <5>1
      <4>2. CASE i # m + 1
        <5>1. i \in 1..m /\ k + i \in 1..n
          BY <1>5, <1>6, <3>1, <3>2, <4>2
        <5> QED BY <1>5, <1>6, <3>1, <5>1
      <4> QED BY <4>1, <4>2
    <3>4. k + (m + 1) = n + 1
      BY <1>5, <1>6, <3>1, <3>2
    <3> QED BY <3>3, <3>4
  <2>4. (Prefix(standby.state, engine.state) /\ standby.confirmed < Len(standby.state))'
    BY <1>3, <2>1, <2>2 DEF Prefix
  <2>5. (standby.alive =>
          /\ Len(standby.state) + Len(standby.queue) = Len(engine.state)
          /\ \A i \in 1..Len(standby.queue) :
               standby.queue[i] = engine.state[Len(standby.state) + i])'
    <3> SUFFICES ASSUME standby'.alive
                 PROVE  /\ Len(standby'.state) + Len(standby'.queue) = Len(engine'.state)
                        /\ \A i \in 1..Len(standby'.queue) :
                             standby'.queue[i] = engine'.state[Len(standby'.state) + i]
      OBVIOUS
    <3>1. standby.alive /\ standby'.queue = Append(standby.queue, r) /\ Len(standby'.state) = k
      BY <1>3
    <3>2. Len(standby'.queue) = m + 1 /\ Len(engine'.state) = n + 1
      BY <1>5, <1>6, <3>1
    <3> HIDE DEF k, m, n
    <3> QED BY <2>3, <3>1, <3>2
  <2> QED BY <2>4, <2>5 DEF StandbyCopies
<1>10. Recs(engine.state) \subseteq Recs(engine.state)' /\ Recs(standby.state)' = Recs(standby.state)
  <2>1. Recs(engine.state) \subseteq Recs(engine'.state)
    BY <1>1, <1>7, PrefixParts
  <2> QED BY <1>3, <2>1 DEF Recs
<1>11. StandbyKnows'
  BY <1>10, KnowsStays DEF FollowInv
<1> QED BY <1>8, <1>9, <1>11 DEF FollowInv

(* With synchronous replication a command is told once the standby has it. *)
LEMMA AckFollows ==
  ASSUME EngineInv, FollowInv, AckStep
  PROVE  FollowInv'
<1>1. EngineInv' /\ PipeKept
  BY AckThreadStep
<1>2. UNCHANGED <<log, up, engine, standby>>
  BY DEF AckStep, AckRecv, AckEnds, AckDurable, AckRefused, AckConfirmed, AckTimeout, AckTell,
         AckReply, ackRest, logVars
<1>3. /\ engine.state \in Seq(Record) /\ log \in Seq(Record)
      /\ \A i \in 1..Len(engine.state) : engine.state[i].seq = i - 1
  BY StateFromZero DEF FollowInv
<1>4. LogLeads'
  <2>1. Prefix(log, log) /\ Prefix(engine.state, engine.state)
    BY <1>3, PrefixParts
  <2> QED BY <1>1, <1>2, <2>1, LeadsStays DEF FollowInv, LogLeads
<1>5. StandbyCopies'
  BY <1>2, CopiesStay DEF FollowInv
<1>6. ack \in AckState
  BY AckFields DEF EngineInv, Shapes
<1>7. Recs(engine.state)' = Recs(engine.state) /\ Recs(standby.state)' = Recs(standby.state)
  BY <1>2 DEF Recs
<1>8. StandbyKnows
  BY DEF FollowInv
<1>9. StandbyKnows'
  <2>1. CASE AckRecv \/ AckEnds \/ AckRefused
    <3>1. told' = told /\ ack'.lost = ack.lost /\ ack'.pc \in {"durable", "gone"}
      BY <1>6, <2>1 DEF AckRecv, AckEnds, AckRefused, AckState
    <3> QED BY <1>2, <1>7, <1>8, <3>1, KnowsStays
  <2>2. CASE AckDurable
    <3>1. /\ ack.pc = "durable" /\ told' = told /\ ack'.rec = ack.rec /\ ack'.lost = ack.lost
          /\ ack'.pc = IF Replication = "Sync" /\ ~ack.lost THEN "replica" ELSE "tell"
      BY <1>6, <2>2 DEF AckDurable, AckState
    <3>2. ack.rec \in Recs(engine.state)
      BY <3>1 DEF EngineInv, Members, Pending
    <3> QED BY <1>2, <1>7, <1>8, <3>1, <3>2 DEF StandbyKnows
  <2>3. CASE AckConfirmed
    <3>1. /\ ack.pc = "replica" /\ standby.confirmed >= ack.rec.seq
          /\ told' = told /\ ack'.rec = ack.rec /\ ack'.lost = ack.lost /\ ack'.pc = "tell"
      BY <1>6, <2>3 DEF AckConfirmed, AckState
    <3>2. PICK j \in 1..Len(engine.state) : ack.rec = engine.state[j]
      BY <1>8, <3>1 DEF StandbyKnows, Recs
    <3>3. ack.rec.seq = j - 1
      BY <1>3, <3>2
    <3>4. standby.state \in Seq(Record) /\ standby.confirmed \in NoSeq..MaxSeq
      BY StandbyFields DEF EngineInv, Shapes
    <3>5. standby.confirmed < Len(standby.state) /\ Prefix(standby.state, engine.state)
      BY DEF FollowInv, StandbyCopies
    <3>6. j \in 1..Len(standby.state)
      <4>1. standby.confirmed \in Int /\ Len(standby.state) \in Nat /\ j \in Nat /\ j >= 1
        BY <1>3, <3>4, LogAssumption DEF NoSeq
      <4>2. standby.confirmed >= j - 1
        BY <3>1, <3>3
      <4> QED BY <3>5, <4>1, <4>2
    <3>7. ack.rec \in Recs(standby.state)
      BY <3>2, <3>5, <3>6 DEF Prefix, Recs
    <3> QED BY <1>2, <1>7, <1>8, <3>1, <3>7 DEF StandbyKnows
  <2>4. CASE AckTimeout
    <3>1. ack'.lost = TRUE /\ ack'.pc = "tell"
      BY <1>6, <2>4 DEF AckTimeout, AckState
    <3> QED BY <3>1 DEF StandbyKnows
  <2>5. CASE AckTell
    <3>1. /\ ack.pc = "tell" /\ told' = told \cup {ack.rec}
          /\ ack'.rec = ack.rec /\ ack'.lost = ack.lost /\ ack'.pc = "reply"
      BY <1>6, <2>5 DEF AckTell, AckState
    <3> QED BY <1>2, <1>7, <1>8, <3>1 DEF StandbyKnows
  <2>6. CASE AckReply
    <3>1. told' = told /\ ack'.lost = ack.lost /\ ack'.pc = "recv"
      BY <1>6, <2>6 DEF AckReply, AckState
    <3> QED BY <1>2, <1>7, <1>8, <3>1, KnowsStays
  <2> QED BY <2>1, <2>2, <2>3, <2>4, <2>5, <2>6 DEF AckStep
<1> QED BY <1>4, <1>5, <1>9 DEF FollowInv

LEMMA StandbyStepFollows ==
  ASSUME EngineInv, FollowInv, StandbyApply \/ StandbyConfirm \/ StandbyStops \/ StandbyDies
  PROVE  FollowInv'
<1>1. EngineInv' /\ PipeKept
  BY StandbyApplies, StandbyRests
<1>2. UNCHANGED <<log, up, engine, ack, told>> /\ standby.alive
  BY DEF StandbyApply, StandbyConfirm, StandbyStops, StandbyDies, standbyRest, logVars
<1>3. /\ engine.state \in Seq(Record) /\ log \in Seq(Record)
      /\ \A i \in 1..Len(engine.state) : engine.state[i].seq = i - 1
  BY StateFromZero DEF FollowInv
<1>4. LogLeads'
  <2>1. Prefix(log, log) /\ Prefix(engine.state, engine.state)
    BY <1>3, PrefixParts
  <2> QED BY <1>1, <1>2, <2>1, LeadsStays DEF FollowInv, LogLeads
<1>5. standby \in StandbyState /\ standby.queue \in Seq(Record) /\ standby.state \in Seq(Record)
      /\ standby.confirmed \in NoSeq..MaxSeq
  BY StandbyFields DEF EngineInv, Shapes
<1> DEFINE n == Len(engine.state)
           m == Len(standby.queue)
           k == Len(standby.state)
<1>6. n \in Nat /\ m \in Nat /\ k \in Nat /\ standby.confirmed \in Int
  BY <1>3, <1>5, LogAssumption DEF NoSeq
<1>7. /\ Prefix(standby.state, engine.state) /\ standby.confirmed < k /\ k + m = n
      /\ \A i \in 1..m : standby.queue[i] = engine.state[k + i]
  BY <1>2 DEF FollowInv, StandbyCopies
<1>8. StandbyCopies' /\ Recs(standby.state) \subseteq Recs(standby.state)'
  <2>1. CASE StandbyApply
    <3> DEFINE h == Head(standby.queue)
    <3>1. /\ standby.queue # <<>>
          /\ standby' = [standby EXCEPT !.pc = "confirm", !.queue = Tail(@),
                                        !.state = Append(@, Head(standby.queue))]
      BY <2>1 DEF StandbyApply
    <3>2. /\ h \in Record /\ Tail(standby.queue) \in Seq(Record) /\ Len(Tail(standby.queue)) = m - 1
          /\ m > 0 /\ h = standby.queue[1] /\ 1 \in 1..m
          /\ \A i \in 1..(m - 1) : Tail(standby.queue)[i] = standby.queue[i + 1] /\ i + 1 \in 1..m
      BY <1>5, <3>1, QueueParts
    <3>3. /\ standby'.state = Append(standby.state, h) /\ standby'.queue = Tail(standby.queue)
          /\ standby'.confirmed = standby.confirmed
      BY <1>5, <3>1 DEF StandbyState
    <3> HIDE DEF h
    <3>4. /\ Len(standby'.state) = k + 1 /\ standby'.state[k + 1] = h
          /\ \A i \in 1..k : standby'.state[i] = standby.state[i]
      BY <1>5, <3>2, <3>3, AppendParts
    <3>5. h = engine.state[k + 1]
      BY <1>7, <3>2
    <3> HIDE DEF k, m, n
    <3>6. Prefix(standby'.state, engine.state)
      <4>1. k + 1 <= n
        BY <1>6, <1>7, <3>2
      <4>2. ASSUME NEW i \in 1..(k + 1) PROVE standby'.state[i] = engine.state[i]
        <5>1. CASE i = k + 1
          BY <3>4, <3>5, <5>1
        <5>2. CASE i # k + 1
          <6>1. i \in 1..k
            BY <1>6, <5>2
          <6> QED BY <1>7, <3>4, <6>1 DEF Prefix, k
        <5> QED BY <5>1, <5>2
      <4> QED BY <3>4, <4>1, <4>2 DEF Prefix, n
    <3>7. ASSUME NEW i \in 1..(m - 1)
          PROVE  Tail(standby.queue)[i] = engine.state[(k + 1) + i]
      <4>1. i + 1 \in 1..m /\ Tail(standby.queue)[i] = standby.queue[i + 1]
        BY <3>2
      <4>2. standby.queue[i + 1] = engine.state[k + (i + 1)]
        BY <1>7, <4>1
      <4>3. k + (i + 1) = (k + 1) + i
        BY <1>6
      <4> QED BY <4>1, <4>2, <4>3
    <3>8. (k + 1) + (m - 1) = n
      BY <1>6, <1>7
    <3>9. standby.confirmed < k + 1
      BY <1>6, <1>7
    <3>10. StandbyCopies'
      <4>1. (Prefix(standby.state, engine.state))'
        BY <1>2, <3>6 DEF Prefix
      <4>2. (standby.confirmed < Len(standby.state))'
        BY <3>3, <3>4, <3>9
      <4>3. Len(standby'.queue) = m - 1 /\ Len(engine'.state) = n
        BY <1>2, <3>2, <3>3 DEF n
      <4>4. (/\ Len(standby.state) + Len(standby.queue) = Len(engine.state)
             /\ \A i \in 1..Len(standby.queue) :
                  standby.queue[i] = engine.state[Len(standby.state) + i])'
        BY <1>2, <3>3, <3>4, <3>7, <3>8, <4>3
      <4> QED BY <4>1, <4>2, <4>4 DEF StandbyCopies
    <3>11. Recs(standby.state) \subseteq Recs(standby.state)'
      <4>1. Recs(Append(standby.state, h)) = Recs(standby.state) \cup {h}
        BY <1>5, <3>2, RecsParts
      <4> QED BY <3>3, <4>1 DEF Recs
    <3> QED BY <3>10, <3>11
  <2>2. CASE StandbyConfirm
    <3> DEFINE seq == LastSeq(standby.state)
    <3>1. standby' = [standby EXCEPT !.pc = "recv", !.confirmed = IF @ >= seq THEN @ ELSE seq]
      BY <2>2 DEF StandbyConfirm
    <3>2. seq < k /\ seq \in Int
      <4>1. seq \in NoSeq..MaxSeq /\ (standby.state # <<>> => k > 0 /\ seq = standby.state[k].seq)
        BY <1>5, LastSeqType
      <4>2. CASE standby.state = <<>>
        <5>1. seq = -1
          BY <4>2 DEF LastSeq, NoSeq
        <5> HIDE DEF seq
        <5> QED BY <1>6, <5>1
      <4>3. CASE standby.state # <<>>
        <5>1. k \in 1..k /\ k \in 1..n
          <6> HIDE DEF k, m, n
          <6> QED BY <1>6, <1>7, <4>1, <4>3
        <5>2. standby.state[k].seq = k - 1
          BY <1>3, <1>7, <5>1 DEF Prefix
        <5> HIDE DEF seq
        <5> QED BY <1>6, <4>1, <4>3, <5>2
      <4> QED BY <4>2, <4>3
    <3> HIDE DEF seq
    <3>3. /\ standby'.state = standby.state /\ standby'.queue = standby.queue
          /\ standby'.confirmed < k
      BY <1>5, <1>6, <1>7, <3>1, <3>2 DEF StandbyState
    <3> QED BY <1>2, <1>7, <3>3 DEF StandbyCopies, Prefix, Recs
  <2>3. CASE StandbyStops \/ StandbyDies
    <3>1. /\ ~standby'.alive /\ standby'.state = standby.state
          /\ standby'.confirmed = standby.confirmed
      BY <1>5, <2>3 DEF StandbyStops, StandbyDies, StandbyState
    <3>2. engine'.state = engine.state
      BY <1>2
    <3> QED BY <3>1, <3>2, CopiesStay DEF FollowInv, Recs
  <2> QED BY <2>1, <2>2, <2>3
<1>9. Recs(engine.state)' = Recs(engine.state)
  BY <1>2 DEF Recs
<1>10. StandbyKnows'
  BY <1>2, <1>8, <1>9, KnowsStays DEF FollowInv
<1> QED BY <1>4, <1>8, <1>10 DEF FollowInv

(* A process that has ended follows anything. *)
LEMMA DownFollows ==
  ASSUME EngineInv, FollowInv, Crash \/ JoinAcks
  PROVE  FollowInv'
<1>1. EngineInv' /\ PipeKept /\ ~up'
  BY CrashStep, JoinAcksStep
<1>2. log \in Seq(Record)
  BY StateFromZero DEF FollowInv
<1>3. Prefix(log', log)
  <2>1. CASE Crash
    <3>1. PICK n \in synced..Len(log) : log' = SubSeq(log, 1, n)
      BY <2>1 DEF Crash, LogLose
    <3>2. n \in 0..Len(log)
      BY DEF EngineInv, Shapes, LogShape
    <3> QED BY <1>2, <3>1, <3>2, PrefixParts
  <2>2. CASE JoinAcks
    <3>1. log' = log
      BY <2>2 DEF JoinAcks, logVars
    <3> QED BY <1>2, <3>1, PrefixParts
  <2> QED BY <2>1, <2>2
<1>4. engine' = DownEngine /\ commit' = DownCommit /\ ack' = DownAck /\ standby' = DownStandby
  BY DEF Crash, JoinAcks, AllDown
<1>5. /\ engine'.next_seq = 0 /\ engine'.state = <<>> /\ commit'.pc = "gone"
      /\ ack'.pc = "gone" /\ standby'.state = <<>> /\ ~standby'.alive
      /\ standby'.confirmed = -1 /\ Len(<<>>) = 0
  BY <1>4 DEF DownEngine, DownCommit, DownAck, DownStandby, NoSeq
<1>6. LogLeads'
  BY <1>1, <1>3, <1>5, LeadsStays DEF FollowInv
<1>7. StandbyCopies'
  BY <1>5 DEF StandbyCopies, Prefix
<1>8. StandbyKnows'
  BY <1>1, <1>5 DEF StandbyKnows
<1> QED BY <1>6, <1>7, <1>8 DEF FollowInv

(* Whichever of the snapshots load, the log is what is rebuilt. *)
LEMMA RebuiltIsLog ==
  ASSUME EngineInv, LogLeads, SnapshotsAgree, ~up, NEW readable \in SUBSET snapshots
  PROVE  Rebuilt(readable) = log
<1> DEFINE base == Base(readable)
           b == LastSeq(base)
           n == Len(base)
           tail == After(log, b)
<1>1. log \in Seq(Record) /\ \A i \in 1..Len(log) : log[i].seq = i - 1
  BY StateFromZero DEF LogLeads
<1>2. readable \subseteq Seq(Record) /\ \A s \in readable : Numbered(s)
  BY DEF EngineInv, Shapes, SnapshotShape, Numbers
<1>3. /\ base \in Seq(Record) /\ (base = <<>> \/ base \in readable)
      /\ log # <<>> => LastSeq(base) <= LastSeq(log)
  BY <1>1, <1>2, BaseParts
<1>4. Prefix(base, log)
  <2>1. Prefix(<<>>, log)
    BY <1>1, PrefixParts
  <2>2. base \in readable => Prefix(base, log)
    BY <1>3 DEF SnapshotsAgree, Trusted
  <2> HIDE DEF base
  <2> QED BY <1>3, <2>1, <2>2
<1>5. Rebuilt(readable) = base \o tail
  BY DEF Rebuilt, Replayed
<1> HIDE DEF base
<1>6. n \in 0..Len(log) /\ Len(log) \in Nat /\ \A i \in 1..n : base[i] = log[i]
  BY <1>1, <1>3, <1>4 DEF Prefix
<1>7. b = n - 1
  <2>1. CASE base = <<>>
    BY <2>1 DEF LastSeq, NoSeq
  <2>2. CASE base # <<>>
    <3>1. n > 0 /\ b = base[n].seq
      BY <1>3, <2>2, LastSeqType
    <3>2. n \in 1..n /\ n \in 1..Len(log)
      BY <1>6, <3>1
    <3> QED BY <1>1, <1>6, <3>1, <3>2
  <2> QED BY <2>1, <2>2
<1> HIDE DEF b, n
<1>8. \A i \in 1..n : ~(log[i].seq > b)
  <2> TAKE i \in 1..n
  <2>1. i \in 1..Len(log) /\ log[i].seq = i - 1
    BY <1>1, <1>6
  <2> QED BY <1>6, <1>7, <2>1
<1>9. \A i \in (n + 1)..Len(log) : log[i].seq > b
  <2> TAKE i \in (n + 1)..Len(log)
  <2>1. i \in 1..Len(log) /\ log[i].seq = i - 1
    BY <1>1, <1>6
  <2> QED BY <1>6, <1>7, <2>1
<1>10. /\ tail \in Seq(Record) /\ Len(tail) = Len(log) - n
       /\ \A i \in 1..(Len(log) - n) : tail[i] = log[n + i]
  <2>1. log \in Seq(Record) /\ n \in 0..Len(log)
    BY <1>1, <1>6
  <2> HIDE DEF tail
  <2>2. tail = After(log, b)
    BY DEF tail
  <2>3. /\ After(log, b) \in Seq(Record)
        /\ Len(After(log, b)) = Len(log) - n
        /\ \A i \in 1..(Len(log) - n) : After(log, b)[i] = log[n + i]
    BY <1>8, <1>9, <2>1, AfterSuffix
  <2> QED BY <2>2, <2>3
<1> HIDE DEF tail
<1>11. /\ base \o tail \in Seq(Record) /\ Len(base \o tail) = n + Len(tail)
       /\ \A i \in 1..n : (base \o tail)[i] = base[i]
       /\ \A i \in 1..Len(tail) : (base \o tail)[n + i] = tail[i]
  BY <1>3, <1>10 DEF n
<1> DEFINE u == base \o tail
<1> HIDE DEF u
<1>12. u \in Seq(Record) /\ Len(u) = Len(log)
  BY <1>6, <1>10, <1>11 DEF u
<1>13. ASSUME NEW i \in 1..Len(log) PROVE u[i] = log[i]
  <2>1. CASE i <= n
    <3>1. i \in 1..n
      BY <1>6, <2>1
    <3> QED BY <1>6, <1>11, <3>1 DEF u
  <2>2. CASE i > n
    <3>1. i - n \in 1..Len(tail) /\ i - n \in 1..(Len(log) - n) /\ n + (i - n) = i
      BY <1>6, <1>10, <2>2
    <3> QED BY <1>10, <1>11, <3>1 DEF u
  <2>3. i <= n \/ i > n
    BY <1>6
  <2> QED BY <2>1, <2>2, <2>3
<1>14. u = log
  BY <1>1, <1>12, <1>13
<1> QED BY <1>5, <1>14 DEF u

LEMMA RecoverFollows ==
  ASSUME EngineInv, FollowInv, SnapshotsAgree, Recover
  PROVE  FollowInv'
<1>1. EngineInv'
  BY RecoverStep
<1>2. PICK readable \in SUBSET snapshots :
        LET state == Rebuilt(readable)
        IN  /\ state \in Seq(Record) /\ Numbered(state)
            /\ log # <<>> => LastSeq(state) = LastSeq(log)
            /\ engine' = [DownEngine EXCEPT !.pc = "next", !.state = state,
                             !.next_seq = NextSeq(state), !.last_snapshot = NextSeq(state)]
            /\ standby' = IF Replication = "None" THEN DownStandby
                          ELSE [DownStandby EXCEPT !.state = state, !.alive = TRUE]
  BY RecoverParts
<1>3. Rebuilt(readable) = log
  BY RebuiltIsLog DEF FollowInv, Recover
<1>4. /\ engine' = [DownEngine EXCEPT !.pc = "next", !.state = log,
                       !.next_seq = NextSeq(log), !.last_snapshot = NextSeq(log)]
      /\ standby' = IF Replication = "None" THEN DownStandby
                    ELSE [DownStandby EXCEPT !.state = log, !.alive = TRUE]
  BY <1>2, <1>3
<1>5. /\ log' = log /\ told' = told /\ commitQ' = commitQ /\ ~up
      /\ commit' = [DownCommit EXCEPT !.pc = "recv"] /\ ack' = [DownAck EXCEPT !.pc = "recv"]
  BY DEF Recover, LogOpen
<1>6. log \in Seq(Record) /\ (\A i \in 1..Len(log) : log[i].seq = i - 1) /\ commitQ = <<>>
  BY <1>5, StateFromZero DEF FollowInv, LogLeads, EngineInv, Downs
<1>7. NextSeq(log) = Len(log) /\ Len(log) \in Nat /\ Len(<<>>) = 0
  <2>1. CASE log = <<>>
    BY <2>1 DEF NextSeq
  <2>2. CASE log # <<>>
    <3>1. Len(log) > 0 /\ LastSeq(log) = log[Len(log)].seq
      BY <1>6, <2>2, LastSeqType
    <3>2. Len(log) \in 1..Len(log) /\ Len(log) \in Nat
      BY <1>6, <3>1
    <3>3. NextSeq(log) = LastSeq(log) + 1
      BY <1>6, NextSeqType
    <3> QED BY <1>6, <3>1, <3>2, <3>3
  <2> QED BY <2>1, <2>2
<1>8. engine'.pc = "next" /\ engine'.state = log /\ engine'.next_seq = Len(log)
  BY <1>4, <1>7 DEF DownEngine
<1>9. commit'.pc = "recv" /\ commit'.batch = <<>> /\ ack'.pc = "recv"
  BY <1>5 DEF DownCommit, DownAck
<1>10. /\ standby'.confirmed = -1
       /\ standby'.alive => standby'.queue = <<>> /\ standby'.state = log
       /\ Replication = "Sync" => standby'.state = log
       /\ standby'.state = log \/ standby'.state = <<>>
  BY <1>4 DEF DownStandby, NoSeq
<1>11. Prefix(log, log) /\ Prefix(<<>>, log)
  BY <1>6, PrefixParts
<1>12. LogLeads'
  <2>1. Len(commit'.batch) = 0 /\ Len(commitQ') = 0 /\ commit'.pc # "gone"
    BY <1>5, <1>6, <1>7, <1>9
  <2>2. PICK f \in Nat : PipeAt(f)'
    BY <1>1, <2>1 DEF EngineInv, Pipe
  <2>3. engine'.next_seq = f + Len(commit'.batch) + Len(commitQ')
    BY <1>8, <2>2 DEF PipeAt
  <2>4. f = Len(log')
    BY <1>5, <1>8, <2>1, <2>3
  <2>5. PipeAt(Len(log))'
    BY <2>2, <2>4 DEF PipeAt
  <2>6. (\A i \in 1..Len(log) : log[i].seq = i - 1)' /\ (engine.next_seq = Len(engine.state))'
    BY <1>5, <1>6, <1>8
  <2>7. (up => Prefix(log, engine.state))'
    BY <1>5, <1>8, <1>11 DEF Prefix
  <2> QED BY <2>5, <2>6, <2>7 DEF LogLeads
<1>13. StandbyCopies'
  <2>1. (Prefix(standby.state, engine.state))'
    BY <1>8, <1>10, <1>11 DEF Prefix
  <2>2. standby'.confirmed < Len(standby'.state)
    BY <1>7, <1>10
  <2>3. (standby.alive =>
          /\ Len(standby.state) + Len(standby.queue) = Len(engine.state)
          /\ \A i \in 1..Len(standby.queue) :
               standby.queue[i] = engine.state[Len(standby.state) + i])'
    <3> SUFFICES ASSUME standby'.alive
                 PROVE  /\ Len(standby'.state) + Len(standby'.queue) = Len(engine'.state)
                        /\ \A i \in 1..Len(standby'.queue) :
                             standby'.queue[i] = engine'.state[Len(standby'.state) + i]
      OBVIOUS
    <3>1. Len(standby'.queue) = 0 /\ Len(standby'.state) = Len(log) /\ Len(engine'.state) = Len(log)
      BY <1>7, <1>8, <1>10
    <3> QED BY <1>7, <3>1
  <2> QED BY <2>1, <2>2, <2>3 DEF StandbyCopies
<1>14. StandbyKnows'
  <2>1. told \subseteq Recs(log)
    <3>1. told \subseteq {log[i] : i \in 1..synced} /\ synced \in 0..Len(log)
      BY DEF EngineInv, Covered, ToldIsDurable, Shapes, LogShape
    <3> QED BY <1>7, <3>1 DEF Recs
  <2>2. Replication = "Sync" => (told \subseteq Recs(standby.state))'
    BY <1>5, <1>10, <2>1 DEF Recs
  <2> QED BY <1>9, <2>2 DEF StandbyKnows
<1> QED BY <1>12, <1>13, <1>14 DEF FollowInv

(* Every step but a recovery keeps the copies in step by itself. *)
LEMMA EngineThreadFollows ==
  ASSUME EngineInv, FollowInv, EngineStep
  PROVE  FollowInv'
<1>1. EngineInv' /\ PipeKept
  BY EngineThreadStep
<1>2. engine.pc # "stopped"
  BY DEF EngineStep, EngineTake, EngineIdle, EngineWake, EngineTick, EngineSubmit,
         EngineSubmitFails, EnginePending, EnginePendingFails, EngineMaybeSnapshot,
         EngineSettle, EngineStop
<1>3. up
  BY <1>2, UpWhen DEF EngineInv
<1>4. UNCHANGED <<log, up, ack, told>>
  BY DEF EngineStep, EngineTake, EngineIdle, EngineWake, EngineTick, EngineSubmit,
         EngineSubmitFails, EnginePending, EnginePendingFails, EngineMaybeSnapshot,
         EngineSettle, EngineStop, EndEngine, OfferSnapshot, engineRest, logVars
<1>5. engine \in EngineState
  BY EngineFields DEF EngineInv, Shapes
<1>6. CASE EngineTake
  <2>1. ingress # <<>> /\ Take(Head(ingress))
    BY <1>6 DEF EngineTake
  <2>2. Head(ingress) \in Commands
    BY <2>1, QueueParts DEF EngineInv, Shapes, IngressShape
  <2> QED BY <1>1, <1>3, <1>4, <2>1, <2>2, TakeFollows
<1>7. CASE EngineTick
  <2>1. PICK c \in Ticks : Take(c)
    BY <1>7 DEF EngineTick
  <2>2. c \in Commands
    BY EngineAssumption
  <2> QED BY <1>1, <1>3, <1>4, <2>1, <2>2, TakeFollows
<1>8. CASE ~(EngineTake \/ EngineTick)
  <2>1. standby' = standby
    BY <1>8 DEF EngineStep, EngineIdle, EngineWake, EngineSubmit,
           EngineSubmitFails, EnginePending, EnginePendingFails, EngineMaybeSnapshot,
           EngineSettle, EngineStop, EndEngine, OfferSnapshot
  <2>2. engine'.state = engine.state /\ engine'.next_seq = engine.next_seq
    <3>1. CASE EngineMaybeSnapshot
      BY <1>5, <3>1 DEF EngineMaybeSnapshot, OfferSnapshot, EngineState
    <3>2. CASE EngineSettle
      BY <1>5, <3>2 DEF EngineSettle, OfferSnapshot, EngineState
    <3>3. CASE EngineSubmitFails \/ EnginePendingFails \/ EngineStop
      BY <1>5, <3>3 DEF EngineSubmitFails, EnginePendingFails, EngineStop, EndEngine, EngineState
    <3>4. CASE EngineIdle \/ EngineWake \/ EngineSubmit \/ EnginePending
      BY <1>5, <3>4 DEF EngineIdle, EngineWake, EngineSubmit, EnginePending, EngineState
    <3> QED BY <1>8, <3>1, <3>2, <3>3, <3>4 DEF EngineStep
  <2> QED BY <1>1, <1>4, <2>1, <2>2, CalmStep
<1> QED BY <1>6, <1>7, <1>8

LEMMA CommitThreadFollows ==
  ASSUME EngineInv, FollowInv, CommitStep \/ CommitFails
  PROVE  FollowInv'
<1>1. CASE CommitAppend
  BY <1>1, AppendFollows
<1>2. CASE ~CommitAppend
  <2>1. EngineInv' /\ PipeKept
    BY <1>2, CommitThreadStep
  <2>2. UNCHANGED <<up, engine, standby, ack, told>>
    BY DEF CommitStep, CommitRecv, CommitGather, CommitLinger, CommitAppend, CommitSync,
           CommitPublish, CommitDrain, CommitClose, CommitFails, EndCommit, commitRest
  <2>3. log' = log \/ (commit'.pc = "gone" /\ Prefix(log', log))
    <3>1. CASE CommitFails
      <4>1. PICK n \in synced..Len(log) : log' = SubSeq(log, 1, n)
        BY <3>1 DEF CommitFails, LogLose
      <4>2. n \in 0..Len(log) /\ log \in Seq(Record)
        BY DEF EngineInv, Shapes, LogShape
      <4>3. commit'.pc = "gone"
        BY <3>1 DEF CommitFails, EndCommit, DownCommit
      <4> QED BY <4>1, <4>2, <4>3, PrefixParts
    <3>2. CASE CommitStep
      BY <1>2, <3>2 DEF CommitStep, CommitRecv, CommitGather, CommitLinger, CommitSync,
             CommitPublish, CommitDrain, CommitClose, LogSync, logVars
    <3> QED BY <3>1, <3>2
  <2> QED BY <2>1, <2>2, <2>3, CalmStep
<1> QED BY <1>1, <1>2

LEMMA OthersFollow ==
  ASSUME EngineInv, FollowInv,
         \/ \E c \in Commands : Submit(c)
         \/ SnapshotStep \/ RequestStop \/ SendStop \/ JoinCommit \/ UNCHANGED vars
  PROVE  FollowInv'
<1>1. EngineInv' /\ PipeKept
  BY SubmitStep, SnapshotThreadStep, StopsStep, UnchangedStep DEF StopStep
<1>2. UNCHANGED <<log, up, engine, standby, ack, told>>
  <2>1. CASE \E c \in Commands : Submit(c)
    BY <2>1 DEF Submit, logVars
  <2>2. CASE SnapshotStep
    BY <2>2 DEF SnapshotStep, SnapshotRecv, SnapshotWrite, SnapshotFails, snapshotRest, logVars
  <2>3. CASE RequestStop \/ SendStop \/ JoinCommit
    BY <2>3 DEF RequestStop, SendStop, JoinCommit, stopRest, logVars
  <2>4. CASE UNCHANGED vars
    BY <2>4 DEF vars, threadVars, logVars
  <2> QED BY <2>1, <2>2, <2>3, <2>4
<1> QED BY <1>1, <1>2, CalmStep

LEMMA InitFollows == Init => FollowInv
<1> SUFFICES ASSUME Init PROVE FollowInv
  OBVIOUS
<1>1. /\ log = <<>> /\ up = FALSE /\ engine = DownEngine /\ commit = DownCommit /\ ack = DownAck
      /\ standby = DownStandby /\ Len(<<>>) = 0
  BY DEF Init, LogInit
<1>2. /\ engine.next_seq = 0 /\ engine.state = <<>> /\ commit.pc = "gone" /\ ack.pc = "gone"
      /\ standby.state = <<>> /\ ~standby.alive /\ standby.confirmed = -1
  BY <1>1 DEF DownEngine, DownCommit, DownAck, DownStandby, NoSeq
<1> QED BY <1>1, <1>2 DEF FollowInv, LogLeads, StandbyCopies, StandbyKnows, Prefix

LEMMA NextFollows ==
  ASSUME EngineInv, FollowInv, SnapshotsAgree, [Next]_vars
  PROVE  FollowInv'
BY EngineThreadFollows, CommitThreadFollows, AckFollows, StandbyStepFollows, OthersFollow,
   DownFollows, RecoverFollows DEF Next, StopStep

(* What it means for the log and the standby to follow the auction. *)
LEMMA LoggedWhileFollowing ==
  ASSUME EngineInv, FollowInv
  PROVE  StateIsLogged
<1> SUFFICES ASSUME up
             PROVE  Len(log) <= Len(engine.state) /\ log = SubSeq(engine.state, 1, Len(log))
  BY DEF StateIsLogged
<1>1. engine.state \in Seq(Record) /\ log \in Seq(Record) /\ Prefix(log, engine.state)
  BY StateFromZero DEF FollowInv, LogLeads
<1>2. Len(log) <= Len(engine.state) /\ \A i \in 1..Len(log) : log[i] = engine.state[i]
  BY <1>1 DEF Prefix
<1> DEFINE t == SubSeq(engine.state, 1, Len(log))
<1>3. t \in Seq(Record) /\ Len(t) = Len(log) /\ \A i \in 1..Len(log) : t[i] = engine.state[i]
  BY <1>1, <1>2
<1> HIDE DEF t
<1>4. log = t
  BY <1>1, <1>2, <1>3
<1> QED BY <1>2, <1>4 DEF t

LEMMA SurvivesWhileFollowing ==
  ASSUME EngineInv, FollowInv
  PROVE  ToldSurvives
<1> SUFFICES ASSUME up
             PROVE  told \subseteq {engine.state[i] : i \in DOMAIN engine.state}
  BY DEF ToldSurvives
<1>1. engine.state \in Seq(Record) /\ log \in Seq(Record) /\ Prefix(log, engine.state)
  BY StateFromZero DEF FollowInv, LogLeads
<1>2. told \subseteq {log[i] : i \in 1..synced} /\ synced \in 0..Len(log)
  BY DEF EngineInv, Covered, ToldIsDurable, Shapes, LogShape
<1>3. ASSUME NEW r \in told PROVE r \in {engine.state[i] : i \in DOMAIN engine.state}
  <2>1. PICK i \in 1..synced : r = log[i]
    BY <1>2
  <2>2. i \in 1..Len(log) /\ i \in 1..Len(engine.state)
    BY <1>1, <1>2 DEF Prefix
  <2>3. r = engine.state[i]
    BY <1>1, <2>1, <2>2 DEF Prefix
  <2> QED BY <1>1, <2>2, <2>3
<1> QED BY <1>3

LEMMA NoLossWhileFollowing ==
  ASSUME EngineInv, FollowInv
  PROVE  ZeroLoss
<1> SUFFICES ASSUME Replication = "Sync", up, ~ack.lost
             PROVE  told \subseteq {standby.state[i] : i \in DOMAIN standby.state}
  BY DEF ZeroLoss
<1>1. told \subseteq Recs(standby.state)
  BY DEF FollowInv, StandbyKnows
<1>2. standby.state \in Seq(Record)
  BY StandbyFields DEF EngineInv, Shapes
<1> QED BY <1>1, <1>2 DEF Recs

(***************************************************************************)
(* As long as no start trusts a snapshot that disagrees with the log, the  *)
(* log and the standby follow the auction.  The code does not see to the   *)
(* hypothesis: a snapshot is taken of what was applied, durable or not     *)
(* (engine.rs:453-470), a crash may leave it ahead of the log, and another *)
(* log may have caught up with it by the next start (replay.rs:51).        *)
(***************************************************************************)
THEOREM CopiesFollow == Spec /\ []SnapshotsAgree => []FollowInv
<1>1. EngineInv /\ FollowInv /\ SnapshotsAgree /\ [Next]_vars => FollowInv'
  BY NextFollows
<1> QED BY EngineAlwaysSound, InitFollows, <1>1, PTL DEF Spec

(* I5: under the same hypothesis the log holds the first of the commands   *)
(* applied, in order, and nothing else (engine.rs:409-425).                *)
THEOREM StateIsAlwaysLogged == Spec /\ []SnapshotsAgree => []StateIsLogged
BY EngineAlwaysSound, CopiesFollow, LoggedWhileFollowing, PTL

(* I6: under the same hypothesis what anybody was told is part of the      *)
(* auction after every crash and recovery (replay.rs:36-105).              *)
THEOREM ToldAlwaysSurvives == Spec /\ []SnapshotsAgree => []ToldSurvives
BY EngineAlwaysSound, CopiesFollow, SurvivesWhileFollowing, PTL

(* Under the same hypothesis a standby that synchronous replication has    *)
(* not given up holds all that anybody was told (docs/slo.md,              *)
(* engine.rs:629-648).                                                     *)
THEOREM ZeroLossHolds == Spec /\ []SnapshotsAgree => []ZeroLoss
BY EngineAlwaysSound, CopiesFollow, NoLossWhileFollowing, PTL

-----------------------------------------------------------------------------
(***************************************************************************)
(* The first restart.  Until then all snapshots are of one history, which  *)
(* the log begins as well.                                                 *)
(***************************************************************************)

OneHistory ==
  /\ up => /\ \A s \in snapshots : Prefix(s, engine.state)
           /\ \A i \in 1..Len(snapper.queue) : Prefix(snapper.queue[i], engine.state)
           /\ \A i \in 1..Len(snapper.writing) : Prefix(snapper.writing[i], engine.state)
  /\ ~up => \A s \in snapshots : Prefix(s, log) \/ Prefix(log, s)

(* A start finds no snapshot beside an empty log. *)
NoSnapshotAlone == ~up /\ log = <<>> => snapshots = {}

(* Two beginnings of one history begin one another. *)
LEMMA PrefixesCompare ==
  ASSUME NEW s \in Seq(Record), NEW t \in Seq(Record), NEW u \in Seq(Record),
         Prefix(s, u), Prefix(t, u)
  PROVE  Prefix(s, t) \/ Prefix(t, s)
<1>1. Len(s) \in Nat /\ Len(t) \in Nat
  OBVIOUS
<1>2. CASE Len(s) <= Len(t)
  BY <1>1, <1>2 DEF Prefix
<1>3. CASE Len(t) <= Len(s)
  BY <1>1, <1>3 DEF Prefix
<1> QED BY <1>1, <1>2, <1>3

LEMMA SnapperParts ==
  ASSUME EngineInv
  PROVE  /\ snapshots \subseteq Seq(Record)
         /\ snapper \in [queue : Seq(Seq(Record)), writing : Seq(Seq(Record))]
         /\ engine.state \in Seq(Record) /\ log \in Seq(Record)
<1>1. Shapes
  BY DEF EngineInv
<1>2. engine.state \in Seq(Record)
  BY <1>1, EngineFields DEF Shapes
<1> QED BY <1>1, <1>2 DEF Shapes, SnapperShape, SnapshotShape, LogShape

(* The auction grows, and what began it still does. *)
LEMMA HistoryGrows ==
  ASSUME EngineInv, OneHistory, up, up', UNCHANGED <<snapshots, snapper>>,
         \/ engine'.state = engine.state
         \/ \E r \in Record : engine'.state = Append(engine.state, r)
  PROVE  OneHistory'
<1>1. \A s \in Seq(Record) : Prefix(s, engine.state) => Prefix(s, engine'.state)
  <2>1. engine.state \in Seq(Record)
    BY SnapperParts
  <2>2. \A r \in Record : Append(engine.state, r) \in Seq(Record)
    BY <2>1
  <2>3. engine'.state \in Seq(Record) /\ Prefix(engine.state, engine'.state)
    BY <2>1, <2>2, PrefixParts
  <2> QED BY <2>1, <2>3, PrefixParts
<1>2. /\ snapshots \subseteq Seq(Record)
      /\ \A i \in 1..Len(snapper.queue) : snapper.queue[i] \in Seq(Record)
      /\ \A i \in 1..Len(snapper.writing) : snapper.writing[i] \in Seq(Record)
  BY SnapperParts
<1> QED BY <1>1, <1>2 DEF OneHistory

LEMMA EngineThreadHistory ==
  ASSUME EngineInv, OneHistory, EngineStep
  PROVE  OneHistory'
<1>1. engine.pc # "stopped"
  BY DEF EngineStep, EngineTake, EngineIdle, EngineWake, EngineTick, EngineSubmit,
         EngineSubmitFails, EnginePending, EnginePendingFails, EngineMaybeSnapshot,
         EngineSettle, EngineStop
<1>2. up
  BY <1>1, UpWhen DEF EngineInv
<1>3. UNCHANGED <<up, snapshots>>
  BY DEF EngineStep, EngineTake, EngineIdle, EngineWake, EngineTick, EngineSubmit,
         EngineSubmitFails, EnginePending, EnginePendingFails, EngineMaybeSnapshot,
         EngineSettle, EngineStop, EndEngine, OfferSnapshot, engineRest
<1>4. engine \in EngineState
  BY EngineFields DEF EngineInv, Shapes
<1>5. ASSUME NEW c \in Commands, Take(c), snapper' = snapper
      PROVE  OneHistory'
  <2> DEFINE r == [seq |-> engine.next_seq, cmd |-> c]
  <2>1. r \in Record
    BY <1>4, <1>5, LogAssumption DEF Take, EngineState, Record
  <2>2. engine'.state = Append(engine.state, r)
    BY <1>4, <1>5 DEF Take, EngineState
  <2> QED BY <1>2, <1>3, <1>5, <2>1, <2>2, HistoryGrows
<1>6. CASE EngineTake
  <2>1. Head(ingress) \in Commands
    BY <1>6, QueueParts DEF EngineTake, EngineInv, Shapes, IngressShape
  <2> QED BY <1>5, <1>6, <2>1 DEF EngineTake
<1>7. CASE EngineTick
  BY <1>5, <1>7, EngineAssumption DEF EngineTick
<1>8. CASE EngineIdle \/ EngineWake \/ EngineSubmit \/ EnginePending
  <2>1. engine'.state = engine.state /\ snapper' = snapper
    BY <1>4, <1>8 DEF EngineIdle, EngineWake, EngineSubmit, EnginePending, EngineState
  <2> QED BY <1>2, <1>3, <2>1, HistoryGrows
<1>9. CASE EngineSubmitFails \/ EnginePendingFails \/ EngineStop
  <2>1. engine'.state = engine.state /\ snapper' = snapper
    BY <1>4, <1>9 DEF EngineSubmitFails, EnginePendingFails, EngineStop, EndEngine, EngineState
  <2> QED BY <1>2, <1>3, <2>1, HistoryGrows
<1>10. CASE EngineMaybeSnapshot \/ EngineSettle
  <2>1. engine'.state = engine.state
    BY <1>4, <1>10 DEF EngineMaybeSnapshot, EngineSettle, OfferSnapshot, EngineState
  <2>2. snapper' = snapper \/ snapper' = [snapper EXCEPT !.queue = <<engine.state>>]
    BY <1>10 DEF EngineMaybeSnapshot, EngineSettle, OfferSnapshot
  <2>3. CASE snapper' = snapper
    BY <1>2, <1>3, <2>1, <2>3, HistoryGrows
  <2>4. CASE snapper' = [snapper EXCEPT !.queue = <<engine.state>>]
    <3>1. snapper'.queue = <<engine.state>> /\ snapper'.writing = snapper.writing
      BY <2>4, SnapperParts
    <3>2. \A i \in 1..Len(snapper'.queue) : snapper'.queue[i] = engine.state
      BY <3>1
    <3>3. Prefix(engine.state, engine.state)
      BY SnapperParts, PrefixParts
    <3> QED BY <1>2, <1>3, <2>1, <3>1, <3>2, <3>3 DEF OneHistory
  <2> QED BY <2>2, <2>3, <2>4
<1> QED BY <1>6, <1>7, <1>8, <1>9, <1>10 DEF EngineStep

LEMMA SnapshotThreadHistory ==
  ASSUME EngineInv, OneHistory, SnapshotStep
  PROVE  OneHistory'
<1>1. UNCHANGED <<log, up, engine>>
  BY DEF SnapshotStep, SnapshotRecv, SnapshotWrite, SnapshotFails, snapshotRest, logVars
<1>2. up
  <2>1. ~(snapper.queue = <<>> /\ snapper.writing = <<>>)
    BY DEF SnapshotStep, SnapshotRecv, SnapshotWrite, SnapshotFails
  <2> QED BY <2>1 DEF EngineInv, Downs, IdleSnapper
<1>3. /\ \A s \in snapshots : Prefix(s, engine.state)
      /\ \A i \in 1..Len(snapper.queue) : Prefix(snapper.queue[i], engine.state)
      /\ \A i \in 1..Len(snapper.writing) : Prefix(snapper.writing[i], engine.state)
  BY <1>2 DEF OneHistory
<1>4. CASE SnapshotRecv
  <2>1. snapper'.queue = <<>> /\ snapper'.writing = snapper.queue /\ snapshots' = snapshots
    BY <1>4 DEF SnapshotRecv
  <2> QED BY <1>1, <1>2, <1>3, <2>1 DEF OneHistory
<1>5. CASE SnapshotWrite \/ SnapshotFails
  <2>1. snapper'.writing = <<>> /\ snapper'.queue = snapper.queue
    BY <1>5, SnapperParts DEF SnapshotWrite, SnapshotFails
  <2>2. \A s \in snapshots' : Prefix(s, engine.state)
    <3>1. CASE SnapshotFails
      BY <1>3, <3>1 DEF SnapshotFails
    <3>2. CASE SnapshotWrite
      <4> DEFINE s == Head(snapper.writing)
                 T == {t \in snapshots : LastSeq(t) # LastSeq(s)}
      <4>1. snapper.writing \in Seq(Seq(Record)) /\ snapper.writing # <<>>
        BY <3>2, SnapperParts DEF SnapshotWrite
      <4>2. s = snapper.writing[1] /\ 1 \in 1..Len(snapper.writing) /\ s \in Seq(Record)
        BY <4>1
      <4>3. Prefix(s, engine.state)
        BY <1>3, <4>2
      <4>4. snapshots' \in Pruned(T \cup {s})
        BY <3>2 DEF SnapshotWrite
      <4>5. T \cup {s} \subseteq Seq(Record) /\ T \subseteq snapshots
        BY <4>2, SnapperParts
      <4> HIDE DEF s, T
      <4>6. snapshots' \subseteq T \cup {s}
        BY <4>4, PruneRemoves
      <4> QED BY <1>3, <4>3, <4>5, <4>6
    <3> QED BY <1>5, <3>1, <3>2
  <2> QED BY <1>1, <1>2, <1>3, <2>1, <2>2 DEF OneHistory
<1> QED BY <1>4, <1>5 DEF SnapshotStep

(* The process ends: what is left of the log begins the same history. *)
LEMMA DownHistory ==
  ASSUME EngineInv, FollowInv, OneHistory, Crash \/ JoinAcks
  PROVE  OneHistory'
<1>1. up /\ ~up' /\ snapshots' = snapshots
  <2>1. CASE Crash
    BY <2>1 DEF Crash, AllDown
  <2>2. CASE JoinAcks
    BY <2>2 DEF JoinAcks, AllDown, EngineInv, Downs
  <2> QED BY <2>1, <2>2
<1>2. log' \in Seq(Record) /\ log \in Seq(Record) /\ engine.state \in Seq(Record)
  <2>1. EngineInv'
    BY CrashStep, JoinAcksStep
  <2> QED BY <2>1, SnapperParts DEF EngineInv, Shapes, LogShape
<1>3. Prefix(log', log)
  <2>1. CASE Crash
    <3>1. PICK n \in synced..Len(log) : log' = SubSeq(log, 1, n)
      BY <2>1 DEF Crash, LogLose
    <3>2. n \in 0..Len(log)
      BY DEF EngineInv, Shapes, LogShape
    <3> QED BY <1>2, <3>1, <3>2, PrefixParts
  <2>2. CASE JoinAcks
    <3>1. log' = log
      BY <2>2 DEF JoinAcks, logVars
    <3> QED BY <1>2, <3>1, PrefixParts
  <2> QED BY <2>1, <2>2
<1>4. Prefix(log', engine.state)
  BY <1>1, <1>2, <1>3, PrefixParts DEF FollowInv, LogLeads
<1>5. ASSUME NEW s \in snapshots PROVE Prefix(s, log') \/ Prefix(log', s)
  BY <1>1, <1>2, <1>4, <1>5, SnapperParts, PrefixesCompare DEF OneHistory
<1> QED BY <1>1, <1>5 DEF OneHistory, Prefix

LEMMA OthersHistory ==
  ASSUME EngineInv, OneHistory,
         \/ \E c \in Commands : Submit(c)
         \/ CommitStep \/ CommitFails \/ AckStep
         \/ StandbyApply \/ StandbyConfirm \/ StandbyStops \/ StandbyDies
         \/ RequestStop \/ SendStop \/ JoinCommit \/ UNCHANGED vars
  PROVE  OneHistory'
<1>1. UNCHANGED <<up, engine, snapper, snapshots>> /\ (up \/ log' = log)
  <2>1. CASE \E c \in Commands : Submit(c)
    BY <2>1 DEF Submit, logVars
  <2>2. CASE CommitStep \/ CommitFails
    <3>1. commit.pc # "gone"
      BY <2>2 DEF CommitStep, CommitRecv, CommitGather, CommitLinger, CommitAppend, CommitSync,
             CommitPublish, CommitDrain, CommitClose, CommitFails
    <3>2. up
      BY <3>1 DEF EngineInv, Downs, DownCommit
    <3> QED BY <2>2, <3>2 DEF CommitStep, CommitRecv, CommitGather, CommitLinger, CommitAppend,
               CommitSync, CommitPublish, CommitDrain, CommitClose, CommitFails, EndCommit,
               commitRest
  <2>3. CASE AckStep
    BY <2>3 DEF AckStep, AckRecv, AckEnds, AckDurable, AckRefused, AckConfirmed, AckTimeout,
           AckTell, AckReply, ackRest, logVars
  <2>4. CASE StandbyApply \/ StandbyConfirm \/ StandbyStops \/ StandbyDies
    BY <2>4 DEF StandbyApply, StandbyConfirm, StandbyStops, StandbyDies, standbyRest, logVars
  <2>5. CASE RequestStop \/ SendStop \/ JoinCommit
    BY <2>5 DEF RequestStop, SendStop, JoinCommit, stopRest, logVars
  <2>6. CASE UNCHANGED vars
    BY <2>6 DEF vars, threadVars, logVars
  <2> QED BY <2>1, <2>2, <2>3, <2>4, <2>5, <2>6
<1> QED BY <1>1 DEF OneHistory, Prefix

(* How often the process was started, and what there is before it was. *)
Started ==
  /\ starts \in Nat
  /\ starts = 0 => ~up /\ snapshots = {}

FirstRestartInv ==
  /\ Started
  /\ starts <= 2 => FollowInv
  /\ starts <= 1 => OneHistory

(* All snapshots being of one history, the ones that a start trusts begin  *)
(* the log.                                                                *)
LEMMA OneHistoryAgrees ==
  ASSUME EngineInv, FollowInv, OneHistory, NoSnapshotAlone
  PROVE  SnapshotsAgree
<1> SUFFICES ASSUME ~up, NEW s \in snapshots, Trusted(s), Prefix(log, s)
             PROVE  Prefix(s, log)
  BY DEF OneHistory, SnapshotsAgree
<1>1. log # <<>> /\ LastSeq(s) <= LastSeq(log)
  BY DEF NoSnapshotAlone, Trusted
<1>2. s \in Seq(Record) /\ log \in Seq(Record) /\ Len(s) \in Nat /\ Len(log) \in Nat
  BY SnapperParts
<1>3. Len(log) > 0 /\ LastSeq(log) = log[Len(log)].seq /\ Len(log) <= Len(s)
  BY <1>1, <1>2, LastSeqType DEF Prefix
<1>4. Len(s) > 0 /\ s # <<>>
  BY <1>2, <1>3
<1>5. LastSeq(s) \in Int /\ LastSeq(log) \in Int
  BY <1>2, LastSeqType, LogAssumption DEF NoSeq
<1>6. s[Len(log)].seq = LastSeq(s) - Len(s) + Len(log)
  <2>1. Numbered(s)
    BY DEF EngineInv, Numbers
  <2>2. Len(log) \in 1..Len(s)
    BY <1>2, <1>3
  <2> QED BY <2>1, <2>2 DEF Numbered
<1>7. s[Len(log)] = log[Len(log)]
  BY <1>2, <1>3 DEF Prefix
<1>8. Len(s) <= Len(log)
  BY <1>1, <1>2, <1>3, <1>5, <1>6, <1>7
<1> QED BY <1>2, <1>3, <1>8 DEF Prefix

LEMMA NextStarted ==
  ASSUME EngineInv, Started, [Next]_vars
  PROVE  Started' /\ (starts' = starts \/ (Recover /\ starts' = starts + 1))
<1>1. CASE Recover
  <2>1. starts \in Nat /\ starts' = starts + 1
    BY <1>1 DEF Recover, Started
  <2>2. Started'
    BY <2>1 DEF Started
  <2> QED BY <1>1, <2>1, <2>2
<1>2. CASE \E c \in Commands : Submit(c)
  BY <1>2 DEF Submit, Started
<1>3. CASE EngineStep
  BY <1>3 DEF EngineStep, EngineTake, EngineIdle, EngineWake, EngineTick, EngineSubmit,
         EngineSubmitFails, EnginePending, EnginePendingFails, EngineMaybeSnapshot,
         EngineSettle, EngineStop, EndEngine, OfferSnapshot, engineRest, Started
<1>4. CASE CommitStep \/ CommitFails
  BY <1>4 DEF CommitStep, CommitRecv, CommitGather, CommitLinger, CommitAppend, CommitSync,
         CommitPublish, CommitDrain, CommitClose, CommitFails, EndCommit, commitRest, Started
<1>5. CASE AckStep
  BY <1>5 DEF AckStep, AckRecv, AckEnds, AckDurable, AckRefused, AckConfirmed, AckTimeout,
         AckTell, AckReply, ackRest, Started
<1>6. CASE StandbyApply \/ StandbyConfirm \/ StandbyStops \/ StandbyDies
  BY <1>6 DEF StandbyApply, StandbyConfirm, StandbyStops, StandbyDies, standbyRest, Started
<1>7. CASE SnapshotStep
  <2>1. UNCHANGED <<up, starts>>
    BY <1>7 DEF SnapshotStep, SnapshotRecv, SnapshotWrite, SnapshotFails, snapshotRest
  <2>2. ~(snapper.queue = <<>> /\ snapper.writing = <<>>)
    BY <1>7 DEF SnapshotStep, SnapshotRecv, SnapshotWrite, SnapshotFails
  <2>3. up
    BY <2>2 DEF EngineInv, Downs, IdleSnapper
  <2> QED BY <2>1, <2>3 DEF Started
<1>8. CASE RequestStop \/ SendStop \/ JoinCommit
  BY <1>8 DEF RequestStop, SendStop, JoinCommit, stopRest, Started
<1>9. CASE JoinAcks \/ Crash
  BY <1>9 DEF JoinAcks, Crash, AllDown, Started
<1>10. CASE UNCHANGED vars
  BY <1>10 DEF vars, Started
<1> QED BY <1>1, <1>2, <1>3, <1>4, <1>5, <1>6, <1>7, <1>8, <1>9, <1>10 DEF Next, StopStep

LEMMA NextHistory ==
  ASSUME EngineInv, FollowInv, OneHistory, Started, [Next]_vars, starts' <= 1
  PROVE  OneHistory'
<1>1. CASE Recover
  <2>1. starts = 0 /\ snapshots = {} /\ snapper = IdleSnapper
    BY <1>1 DEF Recover, Started, EngineInv, Downs
  <2>2. up' /\ snapshots' = {} /\ snapper' = IdleSnapper
    BY <1>1, <2>1 DEF Recover
  <2>3. Len(snapper'.queue) = 0 /\ Len(snapper'.writing) = 0
    BY <2>2 DEF IdleSnapper
  <2> QED BY <2>2, <2>3 DEF OneHistory
<1>2. CASE ~Recover
  BY <1>2, EngineThreadHistory, SnapshotThreadHistory, DownHistory, OthersHistory
     DEF Next, StopStep
<1> QED BY <1>1, <1>2

LEMMA NextFirstRestart ==
  ASSUME EngineInv, FirstRestartInv, NoSnapshotAlone, [Next]_vars
  PROVE  FirstRestartInv'
<1>1. Started /\ Started' /\ (starts' = starts \/ (Recover /\ starts' = starts + 1))
  BY NextStarted DEF FirstRestartInv
<1>2. starts \in Nat
  BY <1>1 DEF Started
<1>3. ASSUME starts' <= 1 PROVE OneHistory'
  <2>1. starts <= 1 /\ starts <= 2
    BY <1>1, <1>2, <1>3
  <2> QED BY <1>1, <1>3, <2>1, NextHistory DEF FirstRestartInv
<1>4. ASSUME starts' <= 2 PROVE FollowInv'
  <2>1. FollowInv
    BY <1>1, <1>2, <1>4 DEF FirstRestartInv
  <2>2. CASE Recover
    <3>1. starts <= 1
      BY <1>2, <1>4, <2>2 DEF Recover
    <3>2. SnapshotsAgree
      BY <2>1, <3>1, OneHistoryAgrees DEF FirstRestartInv
    <3> QED BY <2>1, <3>2, NextFollows
  <2>3. CASE ~Recover
    BY <2>1, <2>3, EngineThreadFollows, CommitThreadFollows, AckFollows, StandbyStepFollows,
       OthersFollow, DownFollows DEF Next, StopStep
  <2> QED BY <2>2, <2>3
<1> QED BY <1>1, <1>3, <1>4 DEF FirstRestartInv

(***************************************************************************)
(* One restart is safe: until the process is started a third time, what    *)
(* anybody was told is in the auction, the log reproduces it and the       *)
(* standby holds it, whatever snapshots there are and whichever load       *)
(* (replay.rs:36-105).  The exception the code makes is a snapshot beside  *)
(* an empty log, which is trusted though the log does not reach it.        *)
(***************************************************************************)
THEOREM OneRestartIsSafe ==
  Spec /\ []NoSnapshotAlone => [](starts <= 2 => ToldSurvives /\ StateIsLogged /\ ZeroLoss)
<1>1. Init => FirstRestartInv
  <2> SUFFICES ASSUME Init PROVE FirstRestartInv
    OBVIOUS
  <2>1. starts = 0 /\ ~up /\ snapshots = {}
    BY DEF Init
  <2> QED BY <2>1, InitFollows DEF FirstRestartInv, Started, OneHistory
<1>2. EngineInv /\ FirstRestartInv /\ NoSnapshotAlone /\ [Next]_vars => FirstRestartInv'
  BY NextFirstRestart
<1>3. EngineInv /\ FirstRestartInv => (starts <= 2 => ToldSurvives /\ StateIsLogged /\ ZeroLoss)
  BY LoggedWhileFollowing, SurvivesWhileFollowing, NoLossWhileFollowing DEF FirstRestartInv
<1> QED BY EngineAlwaysSound, <1>1, <1>2, <1>3, PTL DEF Spec
=============================================================================
