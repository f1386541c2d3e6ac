--------------------------------- MODULE Wal ---------------------------------
(***************************************************************************)
(* The write-ahead log (wal.rs, segment.rs, record.rs): segment files, the *)
(* writer's buffer, append, rotation, sync, the manifest that names the    *)
(* auction the log is for, and opening after a crash.                      *)
(*                                                                         *)
(* Abstractions.  A record is one unit of length, so a segment holds       *)
(* SegmentRecords of them.  A file is the records its bytes decode to,     *)
(* whether undecodable bytes follow them (a torn tail), and how many an    *)
(* fsync has covered.  Reading stops at the torn bytes, so what is written *)
(* after them is lost on a reader.  fsync is trusted, and the directory    *)
(* entry of a file is safe once some of its contents are; a manifest that  *)
(* can be read is safe.                                                    *)
(***************************************************************************)
EXTENDS Integers, SequencesExt

CONSTANTS
  Auctions,        \* the AuctionConfigs a process may be started with
  Payloads,        \* what tells the commands of one auction apart
  MaxSeq,
  SegmentRecords   \* WalOptions.segment_bytes

(* The two states of the manifest file in which it names no auction. *)
NoManifest == "none"
Torn == "torn"

ASSUME WalAssumption ==
  /\ MaxSeq \in Nat /\ SegmentRecords \in Nat \ {0}
  /\ NoManifest \notin Auctions /\ Torn \notin Auctions

VARIABLES
  files,   \* the segments, oldest first
  buffer,  \* records in the active BufWriter
  wal,     \* the Wal struct, and the auction its process runs
  manifest \* the manifest file

vars == <<files, buffer, wal, manifest>>

NoSeq == -1
Commands == [auction : Auctions, payload : Payloads]
Record == [seq : 0..MaxSeq, cmd : Commands]
File == [recs : Seq(Record), safe : Nat, torn : BOOLEAN]

EmptyFile == [recs |-> <<>>, safe |-> 0, torn |-> FALSE]
ClosedWal == [running |-> FALSE, config |-> NoManifest, appended |-> NoSeq,
              durable |-> NoSeq, active_bytes |-> 0]

LastSeq(recs) == IF recs = <<>> THEN NoSeq ELSE recs[Len(recs)].seq
Records(fs) == FlattenSeq([i \in DOMAIN fs |-> fs[i].recs])

OnActive(fs, file) == Front(fs) \o <<file>>

-----------------------------------------------------------------------------
(* Writing. *)

(* Bytes reach the active file; after torn ones no reader finds them. *)
Flush(fs, recs) ==
  LET active == Last(fs)
  IN  OnActive(fs, IF active.torn THEN active ELSE [active EXCEPT !.recs = @ \o recs])

(* Fault: what is still buffered is counted as synced. *)
SyncDataBuffered(fs) == OnActive(fs, [Last(fs) EXCEPT !.safe = Len(Last(fs).recs) + Len(buffer)])

SyncData(fs) == OnActive(fs, [Last(fs) EXCEPT !.safe = Len(Last(fs).recs)])

(* Fault: the segment is sealed before it is on the platter. *)
RotateUnsynced == Append(Flush(files, buffer), EmptyFile)

(* Seal the active segment and start the next one. *)
Rotate == Append(SyncData(Flush(files, buffer)), EmptyFile)

Full == wal.active_bytes > 0 /\ wal.active_bytes + 1 > SegmentRecords

(* append(): a record that leaves a gap is refused, changing nothing. *)
AppendRecord(r) ==
  /\ wal.running /\ r.cmd.auction = wal.config
  /\ wal.appended # NoSeq => r.seq = wal.appended + 1
  /\ files' = (IF Full THEN Rotate ELSE files)
  /\ buffer' = (IF Full THEN <<r>> ELSE Append(buffer, r))
  /\ wal' = [wal EXCEPT !.appended = r.seq,
                        !.active_bytes = IF Full THEN 1 ELSE @ + 1]
  /\ UNCHANGED manifest

Sync ==
  /\ wal.running
  /\ files' = SyncData(Flush(files, buffer))
  /\ buffer' = <<>>
  /\ wal' = [wal EXCEPT !.durable = wal.appended]
  /\ UNCHANGED manifest

-----------------------------------------------------------------------------
(* Reading and opening. *)

(* read_all: torn bytes are an error in a sealed segment, and so is a gap. *)
Readable(fs) ==
  /\ \A i \in DOMAIN fs : fs[i].torn => i = Len(fs)
  /\ LET recs == Records(fs)
     IN  \A i \in 1..(Len(recs) - 1) : recs[i + 1].seq = recs[i].seq + 1

(* Fault: the restarted writer appends after the torn bytes. *)
TruncateNothing(fs) == fs

(* truncate_torn_tail: shorten the active segment and sync it. *)
TruncateTornTail(fs) ==
  IF Last(fs).torn THEN SyncData(OnActive(fs, [Last(fs) EXCEPT !.torn = FALSE])) ELSE fs

(* Fault: any manifest that can be read will do. *)
AcceptsAnyAuction(config) == manifest # Torn

(* A directory without a manifest takes any auction, and gets one. *)
Accepts(config) == manifest \in {NoManifest, config}

(* write_manifest is interrupted: the file is created and written in place. *)
ManifestInterrupted ==
  /\ ~wal.running /\ manifest = NoManifest
  /\ manifest' \in Auctions \cup {Torn}
  /\ UNCHANGED <<files, buffer, wal>>

Open(config) ==
  /\ ~wal.running
  /\ Accepts(config) /\ Readable(files)
  /\ manifest' = IF manifest = NoManifest THEN config ELSE manifest
  /\ LET found == IF files = <<>> THEN <<EmptyFile>> ELSE TruncateTornTail(files)
         last == LastSeq(Records(found))
     IN  /\ files' = found
         /\ wal' = [running |-> TRUE, config |-> config, appended |-> last,
                    durable |-> last, active_bytes |-> Len(Last(found).recs)]
  /\ buffer' = <<>>

-----------------------------------------------------------------------------
(***************************************************************************)
(* The process dies, or an I/O error makes the commit thread drop the Wal: *)
(* some prefix of the buffer has reached the operating system, perhaps     *)
(* ending in the middle of a record.                                       *)
(***************************************************************************)
Die ==
  /\ wal.running
  /\ \E n \in 0..Len(buffer), torn \in BOOLEAN :
       /\ torn => n < Len(buffer)
       /\ LET written == Last(Flush(files, SubSeq(buffer, 1, n)))
          IN  files' = OnActive(files, [written EXCEPT !.torn = @ \/ torn])
  /\ buffer' = <<>>
  /\ wal' = ClosedWal
  /\ UNCHANGED manifest

(* What a power failure can leave of a file. *)
Remains(file) ==
  {f \in [recs : {SubSeq(file.recs, 1, n) : n \in file.safe..Len(file.recs)},
          safe : {file.safe}, torn : BOOLEAN] :
     f.torn => file.torn \/ Len(f.recs) < Len(file.recs)}

(* The machine loses power: what no fsync covered may be gone, and with it *)
(* a file that was never synced at all.                                    *)
PowerLoss ==
  /\ ~wal.running /\ files # <<>>
  /\ \E left \in [DOMAIN files -> UNION {Remains(files[i]) : i \in DOMAIN files}] :
       /\ \A i \in DOMAIN files : left[i] \in Remains(files[i])
       /\ \/ files' = left
          \/ Last(files).safe = 0 /\ files' = Front(left)
  /\ UNCHANGED <<buffer, wal, manifest>>

Init == files = <<>> /\ buffer = <<>> /\ wal = ClosedWal /\ manifest = NoManifest

Next ==
  \/ \E r \in Record : AppendRecord(r)
  \/ \E config \in Auctions : Open(config)
  \/ ManifestInterrupted \/ Sync \/ Die \/ PowerLoss

Spec == Init /\ [][Next]_vars

-----------------------------------------------------------------------------
(* Properties. *)

(* No file counts more synced records than it holds, and the writer's      *)
(* positions stay sequence numbers (wal.rs:61-73).                         *)
TypeOK ==
  /\ files \in Seq(File) /\ \A i \in DOMAIN files : files[i].safe <= Len(files[i].recs)
  /\ buffer \in Seq(Record)
  /\ wal \in [running : BOOLEAN, config : Auctions \cup {NoManifest},
              appended : NoSeq..MaxSeq, durable : NoSeq..MaxSeq, active_bytes : Nat]
  /\ manifest \in Auctions \cup {NoManifest, Torn}

(***************************************************************************)
(* Recovery never refuses the segments a crash left (recovery.md, "After   *)
(* an unclean shutdown"; wal.rs:219-262): whatever the sequence of         *)
(* rotations, deaths and power failures, the torn bytes are in the last    *)
(* segment and the records that can be read have no gap.                   *)
(***************************************************************************)
RecoveryAlwaysStarts == Readable(files)

(***************************************************************************)
(* A log is the record of one auction (wal.rs:78-80): whatever the process *)
(* is started with after a crash, every record in the directory is for the *)
(* auction its manifest names, and nothing was written before there was a  *)
(* manifest to name it.                                                    *)
(***************************************************************************)
LogIsOfOneAuction ==
  \A r \in Range(Records(files) \o buffer) : r.cmd.auction = manifest

(* How many records an fsync has covered. *)
SyncedPart(file) == SubSeq(file.recs, 1, file.safe)
SyncedCount == Len(FlattenSeq([i \in DOMAIN files |-> SyncedPart(files[i])]))

(***************************************************************************)
(* The segmented log implements the abstract one: rotation, torn tails,    *)
(* truncation and reopening are appends, syncs, losses of an unsynced tail *)
(* and openings of one append-only sequence.                               *)
(***************************************************************************)
Promise == INSTANCE DurableLog WITH
  log <- Records(files) \o buffer,
  synced <- SyncedCount,
  durable <- wal.durable,
  running <- wal.running

ImplementsDurableLog == Promise!LogSpec
=============================================================================
