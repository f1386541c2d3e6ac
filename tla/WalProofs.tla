------------------------------ MODULE WalProofs ------------------------------
(***************************************************************************)
(* The theorems about the write-ahead log, for every set of auctions and   *)
(* payloads, every segment size and every bound on sequence numbers: it is *)
(* well typed, a crash never leaves segments that recovery refuses, a log  *)
(* is of one auction, and the segmented log implements DurableLog.         *)
(***************************************************************************)
EXTENDS Wal, SequenceTheorems, WellFoundedInduction, TLAPS

-----------------------------------------------------------------------------
(* Induction, with the set of its witnesses for the predicate. *)

(* A set that contains 0 and is closed under successor contains Nat. *)
LEMMA NatSetInduction ==
  ASSUME NEW G, 0 \in G, \A n \in Nat : n \in G => n + 1 \in G
  PROVE  Nat \subseteq G
<1>1. SUFFICES ASSUME ~(Nat \subseteq G) PROVE FALSE
  OBVIOUS
<1> DEFINE Bad == Nat \ G
           R == OpToRel(<, Nat)
<1>2. Bad \subseteq Nat /\ Bad # {}
  BY <1>1
<1>3. IsWellFoundedOn(R, Nat)
  BY NatLessThanWellFounded
<1>4. \A m, k \in Nat : m < k => <<m, k>> \in R
  BY Zenon DEF OpToRel
<1> HIDE DEF R
<1>5. PICK n \in Bad : \A m \in Bad : <<m, n>> \notin R
  <2> HIDE DEF Bad
  <2> QED BY <1>2, <1>3, WFMin
<1>6. n \in Nat /\ n # 0 /\ n - 1 \in Nat /\ n - 1 < n /\ (n - 1) + 1 = n
  BY <1>5
<1>7. n - 1 \in G
  BY <1>4, <1>5, <1>6
<1> QED BY <1>5, <1>6, <1>7

-----------------------------------------------------------------------------
(* The recursion behind FlattenSeq. *)

Concat(s, t) == s \o t

(* The first n sequences of ss and tt are the same. *)
Agree(ss, tt, n) == \A i \in 1..n : ss[i] = tt[i]

(* g holds the concatenations of the first sequences of ss, up to n. *)
Flattened(g, ss, n) == g = [i \in 1..n |-> IF i = 1 THEN ss[i] ELSE Concat(g[i-1], ss[i])]

TheFlattened(ss) == CHOOSE g : Flattened(g, ss, Len(ss))

(* FlattenSeq is defined by choosing such a function. *)
LEMMA FlattenIsChosen ==
  ASSUME NEW ss, Len(ss) # 0
  PROVE  FlattenSeq(ss) = TheFlattened(ss)[Len(ss)]
BY DEF FlattenSeq, TheFlattened, Flattened, Concat

(* The recursion, position by position. *)
LEMMA FlattenedAt ==
  ASSUME NEW ss, NEW n, NEW g, Flattened(g, ss, n), NEW i \in 1..n
  PROVE  g[i] = IF i = 1 THEN ss[i] ELSE Concat(g[i-1], ss[i])
BY DEF Flattened

LEMMA FlattenedExists ==
  ASSUME NEW ss, NEW n \in Nat
  PROVE  \E g : Flattened(g, ss, n)
<1> DEFINE G == {m \in Nat : \E g : Flattened(g, ss, m)}
<1>1. 0 \in G
  <2>1. Flattened([i \in 1..0 |-> 0], ss, 0)
    BY DEF Flattened
  <2> QED BY <2>1
<1>2. ASSUME NEW m \in Nat, m \in G PROVE m + 1 \in G
  <2>1. PICK g : Flattened(g, ss, m)
    BY <1>2
  <2> DEFINE h == [i \in 1..(m+1) |-> IF i = 1 THEN ss[1] ELSE IF i <= m THEN g[i] ELSE Concat(g[m], ss[m+1])]
             h1 == [i \in 1..(m+1) |-> IF i = 1 THEN ss[i] ELSE Concat(h[i-1], ss[i])]
  <2>2. \A i \in 1..m : g[i] = IF i = 1 THEN ss[i] ELSE Concat(g[i-1], ss[i])
    BY <2>1, FlattenedAt
  <2>3. \A i \in 1..m : h[i] = g[i]
    BY <2>2
  <2>4. \A i \in 1..(m+1) : h[i] = IF i = 1 THEN ss[i] ELSE Concat(h[i-1], ss[i])
    <3> SUFFICES ASSUME NEW i \in 1..(m+1) PROVE h[i] = IF i = 1 THEN ss[i] ELSE Concat(h[i-1], ss[i])
      OBVIOUS
    <3>1. CASE i = 1
      BY <3>1
    <3>2. CASE i # 1 /\ i <= m
      <4>1. i \in 1..m /\ i - 1 \in 1..m
        BY <3>2
      <4> QED BY <4>1, <3>2, <2>2, <2>3
    <3>3. CASE i # 1 /\ i = m + 1
      <4>1. m \in 1..m /\ i - 1 = m
        BY <3>3
      <4>2. h[m] = g[m]
        BY <4>1, <2>3
      <4>3. h[i] = Concat(g[m], ss[i])
        BY <3>3
      <4> QED BY <4>1, <4>2, <4>3, <3>3
    <3> QED BY <3>1, <3>2, <3>3
  <2>5. h = h1
    BY <2>4
  <2>6. Flattened(h, ss, m+1)
    BY <2>5 DEF Flattened
  <2> QED BY <2>6
<1> HIDE DEF G
<1>3. n \in G
  BY <1>1, <1>2, NatSetInduction
<1> QED BY <1>3 DEF G

(* What it holds for the first m sequences does not depend on the next. *)
LEMMA FlattenedSame ==
  ASSUME NEW ss, NEW tt, NEW m \in Nat, NEW g, NEW h,
         Flattened(g, ss, m), Flattened(h, tt, m + 1), Agree(ss, tt, m)
  PROVE  \A i \in 1..m : g[i] = h[i]
<1> DEFINE G == {j \in Nat : j \in 1..m => g[j] = h[j]}
<1>1. 0 \in G
  OBVIOUS
<1>2. ASSUME NEW j \in Nat, j \in G PROVE j + 1 \in G
  <2> SUFFICES ASSUME j + 1 \in 1..m PROVE g[j+1] = h[j+1]
    OBVIOUS
  <2>0. j + 1 \in 1..(m + 1)
    OBVIOUS
  <2>1. /\ g[j+1] = IF j + 1 = 1 THEN ss[j+1] ELSE Concat(g[j+1-1], ss[j+1])
        /\ h[j+1] = IF j + 1 = 1 THEN tt[j+1] ELSE Concat(h[j+1-1], tt[j+1])
    BY <2>0, FlattenedAt
  <2>2. j + 1 # 1 => j \in 1..m /\ j + 1 - 1 = j
    OBVIOUS
  <2> QED BY <1>2, <2>1, <2>2 DEF Agree
<1> HIDE DEF G
<1>3. Nat \subseteq G
  BY <1>1, <1>2, NatSetInduction
<1> QED BY <1>3 DEF G

LEMMA FlattenEmpty == FlattenSeq(<<>>) = <<>>
BY DEF FlattenSeq

LEMMA FlattenAppend ==
  ASSUME NEW S, NEW ss \in Seq(Seq(S)), NEW s \in Seq(S)
  PROVE  FlattenSeq(Append(ss, s)) = FlattenSeq(ss) \o s
<1> DEFINE tt == Append(ss, s)
           n == Len(ss)
           g == TheFlattened(ss)
           h == TheFlattened(tt)
<1>1. /\ n \in Nat /\ n + 1 \in Nat /\ n <= n /\ n <= n + 1
      /\ Len(tt) = n + 1 /\ tt[n+1] = s
      /\ Agree(ss, tt, n)
  BY AppendProperties DEF Agree
<1>2. Flattened(g, ss, n)
  BY <1>1, FlattenedExists DEF TheFlattened
<1>3. Flattened(h, tt, n+1)
  <2> HIDE DEF tt
  <2>1. \E f : Flattened(f, tt, Len(tt))
    <3>1. Len(tt) \in Nat
      BY <1>1
    <3> QED BY <3>1, FlattenedExists
  <2> QED BY <2>1, <1>1 DEF TheFlattened
<1> HIDE DEF tt, g, h
<1>4. h[n+1] = IF n + 1 = 1 THEN tt[n+1] ELSE Concat(h[n+1-1], tt[n+1])
  BY <1>1, <1>3, FlattenedAt
<1>5. FlattenSeq(tt) = h[n+1]
  BY <1>1, FlattenIsChosen DEF h
<1>6. CASE n = 0
  <2>1. ss = <<>>
    BY <1>6
  <2>2. h[n+1] = s
    BY <1>1, <1>4, <1>6
  <2>3. <<>> \o s = s
    BY ConcatEmptySeq
  <2> QED BY <2>1, <2>2, <2>3, <1>5, FlattenEmpty DEF tt
<1>7. CASE n # 0
  <2>1. \A i \in 1..n : g[i] = h[i]
    <3> HIDE DEF n
    <3> QED BY <1>1, <1>2, <1>3, FlattenedSame
  <2>2. g[n] = h[n]
    BY <2>1, <1>1, <1>7
  <2>3. FlattenSeq(ss) = g[n]
    BY <1>7, FlattenIsChosen DEF g
  <2>4. h[n+1] = Concat(h[n], s)
    BY <1>1, <1>4, <1>7
  <2> QED BY <2>2, <2>3, <2>4, <1>5 DEF tt, Concat
<1> QED BY <1>6, <1>7

LEMMA FlattenType ==
  ASSUME NEW S, NEW ss \in Seq(Seq(S))
  PROVE  FlattenSeq(ss) \in Seq(S)
<1> DEFINE G == {n \in Nat : \A tt \in Seq(Seq(S)) : Len(tt) = n => FlattenSeq(tt) \in Seq(S)}
<1>1. 0 \in G
  <2>1. \A tt \in Seq(Seq(S)) : Len(tt) = 0 => tt = <<>>
    OBVIOUS
  <2>2. <<>> \in Seq(S)
    BY EmptySeq
  <2> QED BY <2>1, <2>2, FlattenEmpty
<1>2. ASSUME NEW n \in Nat, n \in G PROVE n + 1 \in G
  <2> SUFFICES ASSUME NEW tt \in Seq(Seq(S)), Len(tt) = n + 1
               PROVE  FlattenSeq(tt) \in Seq(S)
    OBVIOUS
  <2>1. tt # <<>>
    OBVIOUS
  <2>2. PICK uu \in Seq(Seq(S)), u \in Seq(S) : tt = Append(uu, u)
    BY <2>1, SequenceEmptyOrAppend
  <2>3. Len(uu) = n
    BY <2>2, AppendProperties
  <2>4. FlattenSeq(uu) \in Seq(S)
    BY <2>3, <1>2
  <2>5. FlattenSeq(tt) = FlattenSeq(uu) \o u
    BY <2>2, FlattenAppend
  <2> QED BY <2>4, <2>5, ConcatProperties
<1> HIDE DEF G
<1>3. Nat \subseteq G
  BY <1>1, <1>2, NatSetInduction
<1> QED BY <1>3, LenProperties DEF G

-----------------------------------------------------------------------------
(* Segments. *)

LEMMA EmptyFileType == EmptyFile \in File /\ EmptyFile.recs = <<>> /\ EmptyFile.safe = 0 /\ ~EmptyFile.torn
BY EmptySeq DEF EmptyFile, File

LEMMA RecordsEmpty == Records(<<>>) = <<>>
<1>1. [i \in DOMAIN <<>> |-> <<>>[i].recs] = <<>>
  OBVIOUS
<1> QED BY <1>1, FlattenEmpty DEF Records

(* The records of a log whose last segment is f. *)
LEMMA RecordsAppend ==
  ASSUME NEW fs \in Seq(File), NEW f \in File
  PROVE  Records(Append(fs, f)) = Records(fs) \o f.recs
<1> DEFINE ss == [i \in DOMAIN fs |-> fs[i].recs]
           tt == [i \in DOMAIN Append(fs, f) |-> Append(fs, f)[i].recs]
<1>1. /\ Len(fs) \in Nat /\ DOMAIN fs = 1..Len(fs)
      /\ DOMAIN Append(fs, f) = 1..(Len(fs) + 1)
      /\ \A i \in 1..Len(fs) : fs[i] \in File /\ Append(fs, f)[i] = fs[i]
      /\ Append(fs, f)[Len(fs) + 1] = f
  BY AppendProperties, LenProperties
<1>2. f.recs \in Seq(Record) /\ \A i \in 1..Len(fs) : fs[i].recs \in Seq(Record)
  BY <1>1 DEF File
<1>3. ss \in Seq(Seq(Record)) /\ Len(ss) = Len(fs)
  BY <1>1, <1>2
<1>4. tt = Append(ss, f.recs)
  <2>1. tt \in Seq(Seq(Record)) /\ Len(tt) = Len(fs) + 1
    BY <1>1, <1>2
  <2>2. \A i \in 1..(Len(fs) + 1) : tt[i] = IF i <= Len(fs) THEN ss[i] ELSE f.recs
    BY <1>1
  <2> HIDE DEF ss, tt
  <2> DEFINE uu == Append(ss, f.recs)
  <2>3. uu \in Seq(Seq(Record)) /\ Len(uu) = Len(fs) + 1
    BY <1>2, <1>3, AppendProperties
  <2>4. \A i \in 1..(Len(fs) + 1) : uu[i] = IF i <= Len(fs) THEN ss[i] ELSE f.recs
    BY <1>1, <1>2, <1>3, AppendProperties
  <2> HIDE DEF uu
  <2>5. Len(tt) = Len(uu) /\ \A i \in 1..Len(tt) : tt[i] = uu[i]
    BY <2>1, <2>2, <2>3, <2>4
  <2>6. tt = uu
    BY <2>1, <2>3, <2>5, SeqEqual
  <2> QED BY <2>6 DEF uu
<1> HIDE DEF ss, tt
<1>5. FlattenSeq(tt) = FlattenSeq(ss) \o f.recs
  BY <1>2, <1>3, <1>4, FlattenAppend
<1> QED BY <1>5 DEF Records, ss, tt

LEMMA RecordsType ==
  ASSUME NEW fs \in Seq(File)
  PROVE  Records(fs) \in Seq(Record)
<1> DEFINE ss == [i \in DOMAIN fs |-> fs[i].recs]
<1>1. ss \in Seq(Seq(Record))
  <2>1. Len(fs) \in Nat /\ DOMAIN fs = 1..Len(fs) /\ \A i \in 1..Len(fs) : fs[i] \in File
    BY LenProperties, ElementOfSeq
  <2>2. \A i \in 1..Len(fs) : fs[i].recs \in Seq(Record)
    BY <2>1 DEF File
  <2> QED BY <2>1, <2>2
<1> HIDE DEF ss
<1>2. FlattenSeq(ss) \in Seq(Record)
  BY <1>1, FlattenType
<1> QED BY <1>2 DEF Records, ss

(* How many records an fsync has covered. *)
Synced(fs) == Len(FlattenSeq([i \in DOMAIN fs |-> SyncedPart(fs[i])]))

LEMMA SyncedEmpty == Synced(<<>>) = 0
<1>1. [i \in DOMAIN <<>> |-> SyncedPart(<<>>[i])] = <<>>
  OBVIOUS
<1> QED BY <1>1, FlattenEmpty DEF Synced

(* The synced part of a file is a sequence of records. *)
LEMMA SyncedPartType ==
  ASSUME NEW f \in File, f.safe <= Len(f.recs)
  PROVE  SyncedPart(f) \in Seq(Record) /\ Len(SyncedPart(f)) = f.safe
<1> DEFINE s == f.recs
           n == f.safe
<1>1. s \in Seq(Record) /\ n \in Nat /\ n <= Len(s)
  BY DEF File
<1> HIDE DEF s, n
<1>2. SubSeq(s, 1, n) \in Seq(Record) /\ Len(SubSeq(s, 1, n)) = n
  BY <1>1
<1> QED BY <1>2 DEF s, n, SyncedPart

(* No file of fs counts more as synced than it holds. *)
Counted(fs) == \A i \in DOMAIN fs : fs[i].safe <= Len(fs[i].recs)

LEMMA SyncedAppend ==
  ASSUME NEW fs \in Seq(File), Counted(fs), NEW f \in File, f.safe <= Len(f.recs)
  PROVE  /\ Synced(fs) \in Nat
         /\ Synced(Append(fs, f)) = Synced(fs) + f.safe
<1> DEFINE ss == [i \in DOMAIN fs |-> SyncedPart(fs[i])]
           tt == [i \in DOMAIN Append(fs, f) |-> SyncedPart(Append(fs, f)[i])]
           s == SyncedPart(f)
<1>1. /\ Len(fs) \in Nat /\ DOMAIN fs = 1..Len(fs)
      /\ DOMAIN Append(fs, f) = 1..(Len(fs) + 1)
      /\ \A i \in 1..Len(fs) : fs[i] \in File /\ Append(fs, f)[i] = fs[i]
      /\ Append(fs, f)[Len(fs) + 1] = f
  BY AppendProperties, LenProperties
<1>2. s \in Seq(Record) /\ Len(s) = f.safe /\ \A i \in 1..Len(fs) : SyncedPart(fs[i]) \in Seq(Record)
  BY <1>1, SyncedPartType DEF Counted
<1>3. ss \in Seq(Seq(Record)) /\ Len(ss) = Len(fs)
  BY <1>1, <1>2
<1>4. tt = Append(ss, s)
  <2>1. tt \in Seq(Seq(Record)) /\ Len(tt) = Len(fs) + 1
    BY <1>1, <1>2
  <2>2. \A i \in 1..(Len(fs) + 1) : tt[i] = IF i <= Len(fs) THEN ss[i] ELSE s
    BY <1>1
  <2> HIDE DEF ss, tt, s
  <2> DEFINE uu == Append(ss, s)
  <2>3. uu \in Seq(Seq(Record)) /\ Len(uu) = Len(fs) + 1
    BY <1>2, <1>3, AppendProperties
  <2>4. \A i \in 1..(Len(fs) + 1) : uu[i] = IF i <= Len(fs) THEN ss[i] ELSE s
    BY <1>1, <1>2, <1>3, AppendProperties
  <2> HIDE DEF uu
  <2>5. Len(tt) = Len(uu) /\ \A i \in 1..Len(tt) : tt[i] = uu[i]
    BY <2>1, <2>2, <2>3, <2>4
  <2>6. tt = uu
    BY <2>1, <2>3, <2>5, SeqEqual
  <2> QED BY <2>6 DEF uu
<1> HIDE DEF ss, tt, s
<1>5. FlattenSeq(tt) = FlattenSeq(ss) \o s
  BY <1>2, <1>3, <1>4, FlattenAppend
<1>6. FlattenSeq(ss) \in Seq(Record)
  BY <1>3, FlattenType
<1>7. Len(FlattenSeq(ss) \o s) = Len(FlattenSeq(ss)) + Len(s) /\ Len(FlattenSeq(ss)) \in Nat
  BY <1>2, <1>6, ConcatProperties
<1> QED BY <1>2, <1>5, <1>7 DEF Synced, ss, tt

(* A segment no longer written to: it is synced, and ends in a whole record. *)
IsSealed(f) == f.safe = Len(f.recs) /\ ~f.torn

AllSealed(fs) == \A i \in DOMAIN fs : IsSealed(fs[i])

LEMMA AllSealedAppend ==
  ASSUME NEW fs \in Seq(File), NEW f \in File
  PROVE  AllSealed(Append(fs, f)) <=> AllSealed(fs) /\ IsSealed(f)
<1>1. /\ Len(fs) \in Nat /\ DOMAIN fs = 1..Len(fs)
      /\ DOMAIN Append(fs, f) = 1..(Len(fs) + 1)
      /\ \A i \in 1..Len(fs) : Append(fs, f)[i] = fs[i]
      /\ Append(fs, f)[Len(fs) + 1] = f
  BY AppendProperties, LenProperties
<1>2. Len(fs) + 1 \in 1..(Len(fs) + 1) /\ 1..(Len(fs) + 1) = (1..Len(fs)) \cup {Len(fs) + 1}
  BY <1>1
<1> QED BY <1>1, <1>2 DEF AllSealed

LEMMA SealedCounted ==
  ASSUME NEW fs \in Seq(File), AllSealed(fs)
  PROVE  Counted(fs)
<1> SUFFICES ASSUME NEW i \in DOMAIN fs PROVE fs[i].safe <= Len(fs[i].recs)
  BY DEF Counted
<1>1. fs[i] \in File /\ fs[i].safe = Len(fs[i].recs)
  BY DEF AllSealed, IsSealed
<1>2. fs[i].safe \in Nat
  BY <1>1 DEF File
<1> QED BY <1>1, <1>2

(* Everything in sealed segments is synced. *)
LEMMA SealedSynced ==
  ASSUME NEW fs \in Seq(File), AllSealed(fs)
  PROVE  Synced(fs) = Len(Records(fs))
<1> DEFINE G == {n \in Nat : \A gs \in Seq(File) :
                   Len(gs) = n /\ AllSealed(gs) => Synced(gs) = Len(Records(gs))}
<1>1. 0 \in G
  <2>1. \A gs \in Seq(File) : Len(gs) = 0 => gs = <<>>
    OBVIOUS
  <2> QED BY <2>1, SyncedEmpty, RecordsEmpty
<1>2. ASSUME NEW n \in Nat, n \in G PROVE n + 1 \in G
  <2> SUFFICES ASSUME NEW gs \in Seq(File), Len(gs) = n + 1, AllSealed(gs)
               PROVE  Synced(gs) = Len(Records(gs))
    OBVIOUS
  <2>1. gs # <<>>
    OBVIOUS
  <2>2. PICK hs \in Seq(File), h \in File : gs = Append(hs, h)
    BY <2>1, SequenceEmptyOrAppend
  <2>3. Len(hs) = n
    BY <2>2, AppendProperties
  <2>4. AllSealed(hs) /\ h.safe = Len(h.recs)
    BY <2>2, AllSealedAppend DEF IsSealed
  <2>5. Synced(hs) = Len(Records(hs))
    BY <1>2, <2>3, <2>4
  <2>6. Records(gs) = Records(hs) \o h.recs /\ Synced(gs) = Synced(hs) + h.safe
    <3>1. Counted(hs)
      BY <2>4, SealedCounted
    <3>2. h.safe \in Nat
      BY DEF File
    <3>3. h.safe <= Len(h.recs)
      BY <2>4, <3>2
    <3> QED BY <2>2, <3>1, <3>3, RecordsAppend, SyncedAppend
  <2>7. Records(hs) \in Seq(Record) /\ h.recs \in Seq(Record)
    BY RecordsType DEF File
  <2> QED BY <2>4, <2>5, <2>6, <2>7, ConcatProperties
<1> HIDE DEF G
<1>3. Nat \subseteq G
  BY <1>1, <1>2, NatSetInduction
<1> QED BY <1>3, LenProperties DEF G
-----------------------------------------------------------------------------
(***************************************************************************)
(* Every segment but the last is sealed, and none counts more as synced    *)
(* than it holds.                                                          *)
(***************************************************************************)
WellFormed(fs) ==
  /\ fs \in Seq(File) /\ Counted(fs)
  /\ fs # <<>> => AllSealed(Front(fs))

(* Sealed segments and an active one make a log. *)
LEMMA Assemble ==
  ASSUME NEW F \in Seq(File), AllSealed(F), NEW a \in File, a.safe <= Len(a.recs)
  PROVE  LET fs == Append(F, a) IN
         /\ WellFormed(fs) /\ fs # <<>>
         /\ Front(fs) = F /\ Last(fs) = a
         /\ \A f : OnActive(fs, f) = F \o <<f>>
         /\ Records(fs) = Records(F) \o a.recs
         /\ Synced(fs) = Len(Records(F)) + a.safe
<1> DEFINE fs == Append(F, a)
           n == Len(F)
<1>1. /\ n \in Nat /\ fs \in Seq(File) /\ fs # <<>> /\ Len(fs) = n + 1
      /\ DOMAIN fs = 1..(n + 1) /\ DOMAIN F = 1..n
      /\ \A i \in 1..n : fs[i] = F[i] /\ F[i] \in File
      /\ fs[n + 1] = a
  BY AppendProperties, LenProperties
<1>2. Last(fs) = a
  BY <1>1 DEF Last
<1>3. Front(fs) = F
  <2>1. Len(fs) - 1 = n
    BY <1>1
  <2>2. Front(fs) = SubSeq(fs, 1, n)
    BY <2>1 DEF Front
  <2>3. /\ SubSeq(fs, 1, n) \in Seq(File) /\ Len(SubSeq(fs, 1, n)) = n
        /\ \A i \in 1..n : SubSeq(fs, 1, n)[i] = F[i]
    <3> HIDE DEF fs
    <3> QED BY <1>1, SubSeqProperties
  <2>4. SubSeq(fs, 1, n) = F
    BY <2>3, SeqEqual
  <2> QED BY <2>2, <2>4
<1>4. Counted(F) /\ Counted(fs)
  <2>1. Counted(F)
    BY SealedCounted
  <2> QED BY <1>1, <2>1 DEF Counted
<1>5. Synced(fs) = Len(Records(F)) + a.safe
  BY <1>4, SyncedAppend, SealedSynced
<1>6. \A f : OnActive(fs, f) = F \o <<f>>
  BY <1>3 DEF OnActive
<1> QED BY <1>1, <1>2, <1>3, <1>4, <1>5, <1>6, RecordsAppend DEF WellFormed

(* And every log that is not empty is made that way. *)
LEMMA Disassemble ==
  ASSUME NEW fs, WellFormed(fs), fs # <<>>
  PROVE  \E F \in Seq(File), a \in File :
           fs = Append(F, a) /\ AllSealed(F) /\ a.safe <= Len(a.recs)
<1>1. fs \in Seq(File)
  BY DEF WellFormed
<1>2. PICK F \in Seq(File), a \in File : fs = Append(F, a)
  BY <1>1, SequenceEmptyOrAppend
<1>3. /\ Len(F) \in Nat /\ Len(fs) = Len(F) + 1 /\ fs[Len(F) + 1] = a
      /\ DOMAIN fs = 1..(Len(F) + 1)
      /\ \A i \in 1..Len(F) : fs[i] = F[i] /\ F[i] \in File
  BY <1>2, AppendProperties, LenProperties
<1>4. Front(fs) = F
  <2>1. Front(fs) = SubSeq(fs, 1, Len(F))
    <3>1. Len(fs) - 1 = Len(F)
      BY <1>3
    <3> QED BY <3>1 DEF Front
  <2>2. /\ SubSeq(fs, 1, Len(F)) \in Seq(File) /\ Len(SubSeq(fs, 1, Len(F))) = Len(F)
        /\ \A i \in 1..Len(F) : SubSeq(fs, 1, Len(F))[i] = F[i]
    BY <1>3, SubSeqProperties
  <2>3. SubSeq(fs, 1, Len(F)) = F
    BY <2>2, SeqEqual
  <2> QED BY <2>1, <2>3
<1>5. AllSealed(F)
  BY <1>4 DEF WellFormed
<1>6. a.safe <= Len(a.recs)
  BY <1>3 DEF WellFormed, Counted
<1> QED BY <1>2, <1>5, <1>6

(* Appending a file to the sealed ones, as OnActive writes it. *)
LEMMA ConcatOne ==
  ASSUME NEW S, NEW s \in Seq(S), NEW e \in S
  PROVE  s \o <<e>> = Append(s, e)
BY AppendIsConcat

-----------------------------------------------------------------------------
(* What the log says. *)

Consecutive(s) == \A i \in 1..(Len(s) - 1) : s[i + 1].seq = s[i].seq + 1
OfAuction(s, m) == \A i \in DOMAIN s : s[i].cmd.auction = m

LEMMA LastSeqType ==
  ASSUME NEW s \in Seq(Record)
  PROVE  LastSeq(s) \in NoSeq..MaxSeq
<1>1. CASE s = <<>>
  BY <1>1, WalAssumption DEF LastSeq, NoSeq
<1>2. CASE s # <<>>
  <2>1. s[Len(s)] \in Record
    BY <1>2
  <2> QED BY <1>2, <2>1, WalAssumption DEF LastSeq, NoSeq, Record
<1> QED BY <1>1, <1>2

LEMMA AppendToLog ==
  ASSUME NEW s \in Seq(Record), NEW r \in Record, NEW m,
         Consecutive(s), OfAuction(s, m), r.cmd.auction = m,
         LastSeq(s) # NoSeq => r.seq = LastSeq(s) + 1
  PROVE  /\ Append(s, r) \in Seq(Record)
         /\ Consecutive(Append(s, r)) /\ OfAuction(Append(s, r), m)
         /\ LastSeq(Append(s, r)) = r.seq
<1> DEFINE t == Append(s, r)
           n == Len(s)
<1>1. /\ n \in Nat /\ t \in Seq(Record) /\ t # <<>> /\ Len(t) = n + 1
      /\ DOMAIN t = 1..(n + 1) /\ DOMAIN s = 1..n
      /\ \A i \in 1..n : t[i] = s[i]
      /\ t[n + 1] = r
  BY AppendProperties, LenProperties
<1> HIDE DEF t
<1>2. LastSeq(t) = r.seq
  BY <1>1 DEF LastSeq
<1>3. OfAuction(t, m)
  BY <1>1 DEF OfAuction
<1>4. Consecutive(t)
  <2> SUFFICES ASSUME NEW i \in 1..n PROVE t[i + 1].seq = t[i].seq + 1
    BY <1>1 DEF Consecutive
  <2>1. CASE i < n
    <3>1. i \in 1..n /\ i + 1 \in 1..n /\ i \in 1..(n - 1)
      BY <1>1, <2>1
    <3> QED BY <1>1, <3>1 DEF Consecutive
  <2>2. CASE i = n
    <3>1. s # <<>> /\ s[n] \in Record
      BY <1>1, <2>2
    <3>2. s[n].seq \in 0..MaxSeq
      BY <3>1 DEF Record
    <3>3. LastSeq(s) = s[n].seq /\ LastSeq(s) # NoSeq
      BY <3>1, <3>2 DEF LastSeq, NoSeq
    <3> QED BY <1>1, <2>2, <3>3
  <2>3. i < n \/ i = n
    <3>1. n \in Nat
      BY <1>1
    <3> HIDE DEF n
    <3> QED BY <3>1
  <2> QED BY <2>1, <2>2, <2>3
<1> QED BY <1>1, <1>2, <1>3, <1>4 DEF t

LEMMA PrefixOfLog ==
  ASSUME NEW s \in Seq(Record), NEW m, Consecutive(s), OfAuction(s, m), NEW n \in 0..Len(s)
  PROVE  /\ SubSeq(s, 1, n) \in Seq(Record)
         /\ Consecutive(SubSeq(s, 1, n)) /\ OfAuction(SubSeq(s, 1, n), m)
<1> DEFINE t == SubSeq(s, 1, n)
<1>1. /\ Len(s) \in Nat /\ n \in Nat /\ n <= Len(s) /\ DOMAIN s = 1..Len(s)
      /\ t \in Seq(Record) /\ Len(t) = n /\ DOMAIN t = 1..n
      /\ \A i \in 1..n : t[i] = s[i]
  OBVIOUS
<1> HIDE DEF t
<1>2. Consecutive(t)
  <2> SUFFICES ASSUME NEW i \in 1..(n - 1) PROVE t[i + 1].seq = t[i].seq + 1
    BY <1>1 DEF Consecutive
  <2>1. i \in 1..n /\ i + 1 \in 1..n /\ i \in 1..(Len(s) - 1)
    BY <1>1
  <2> QED BY <1>1, <2>1 DEF Consecutive
<1>3. OfAuction(t, m)
  BY <1>1 DEF OfAuction
<1> QED BY <1>1, <1>2, <1>3 DEF t
-----------------------------------------------------------------------------
(* Writing to the active segment. *)

Filled(a, recs) == [a EXCEPT !.recs = @ \o recs]
SyncedFile(a) == [a EXCEPT !.safe = Len(a.recs)]

LEMMA FilledType ==
  ASSUME NEW a \in File, a.safe <= Len(a.recs), NEW recs \in Seq(Record)
  PROVE  /\ Filled(a, recs) \in File
         /\ Filled(a, recs).recs = a.recs \o recs
         /\ Filled(a, recs).safe = a.safe /\ Filled(a, recs).torn = a.torn
         /\ a.safe <= Len(a.recs \o recs)
         /\ a.recs \in Seq(Record) /\ a.recs \o recs \in Seq(Record)
<1>1. a.recs \in Seq(Record) /\ a.safe \in Nat
  BY DEF File
<1>2. a.recs \o recs \in Seq(Record) /\ Len(a.recs \o recs) = Len(a.recs) + Len(recs)
  BY <1>1, ConcatProperties
<1>3. a.safe <= Len(a.recs \o recs)
  <2>1. Len(a.recs) \in Nat /\ Len(recs) \in Nat
    BY <1>1
  <2> QED BY <1>1, <1>2, <2>1
<1> QED BY <1>1, <1>2, <1>3 DEF Filled, File

LEMMA SyncedFileType ==
  ASSUME NEW a \in File
  PROVE  /\ SyncedFile(a) \in File
         /\ SyncedFile(a).recs = a.recs /\ SyncedFile(a).safe = Len(a.recs)
         /\ SyncedFile(a).torn = a.torn /\ Len(a.recs) \in Nat
         /\ SyncedFile(a).safe <= Len(SyncedFile(a).recs)
<1>1. a.recs \in Seq(Record) /\ Len(a.recs) \in Nat
  BY DEF File
<1> QED BY <1>1 DEF SyncedFile, File

LEMMA FlushActive ==
  ASSUME NEW F \in Seq(File), AllSealed(F), NEW a \in File, a.safe <= Len(a.recs), ~a.torn,
         NEW recs \in Seq(Record)
  PROVE  Flush(Append(F, a), recs) = Append(F, Filled(a, recs))
<1>1. Last(Append(F, a)) = a /\ \A f : OnActive(Append(F, a), f) = F \o <<f>>
  BY Assemble
<1>2. Filled(a, recs) \in File
  BY FilledType
<1>3. F \o <<Filled(a, recs)>> = Append(F, Filled(a, recs))
  BY <1>2, ConcatOne
<1>4. Flush(Append(F, a), recs) = F \o <<Filled(a, recs)>>
  BY <1>1 DEF Flush, Filled
<1> QED BY <1>3, <1>4

LEMMA SyncActive ==
  ASSUME NEW F \in Seq(File), AllSealed(F), NEW a \in File, a.safe <= Len(a.recs)
  PROVE  SyncData(Append(F, a)) = Append(F, SyncedFile(a))
<1>1. Last(Append(F, a)) = a /\ \A f : OnActive(Append(F, a), f) = F \o <<f>>
  BY Assemble
<1>2. SyncedFile(a) \in File
  BY SyncedFileType
<1>3. F \o <<SyncedFile(a)>> = Append(F, SyncedFile(a))
  BY <1>2, ConcatOne
<1>4. SyncData(Append(F, a)) = F \o <<SyncedFile(a)>>
  BY <1>1 DEF SyncData, SyncedFile
<1> QED BY <1>3, <1>4

(* Flushed and synced, the active segment holds what was buffered. *)
LEMMA FlushAndSync ==
  ASSUME NEW F \in Seq(File), AllSealed(F), NEW a \in File, a.safe <= Len(a.recs), ~a.torn,
         NEW recs \in Seq(Record)
  PROVE  \E b \in File : /\ SyncData(Flush(Append(F, a), recs)) = Append(F, b)
                         /\ b.recs = a.recs \o recs /\ IsSealed(b)
<1> DEFINE c == Filled(a, recs)
           b == SyncedFile(c)
<1>1. /\ c \in File /\ c.recs = a.recs \o recs /\ c.torn = a.torn /\ c.safe <= Len(c.recs)
  BY FilledType
<1>2. Flush(Append(F, a), recs) = Append(F, c)
  BY FlushActive
<1> HIDE DEF c
<1>3. /\ b \in File /\ b.recs = c.recs /\ b.safe = Len(c.recs) /\ b.torn = c.torn
  BY <1>1, SyncedFileType
<1>4. SyncData(Append(F, c)) = Append(F, b)
  BY <1>1, SyncActive
<1> HIDE DEF b
<1> QED BY <1>1, <1>2, <1>3, <1>4 DEF IsSealed

-----------------------------------------------------------------------------
(***************************************************************************)
(* The inductive invariant.  The log is what the segments and the buffer   *)
(* hold; TypeOK and the two properties are not preserved by themselves: an *)
(* append is without a gap because the writer remembers the last record of *)
(* the log, rotation leaves no unsynced segment behind because the active  *)
(* one of a running writer has no torn bytes, and a process that finds no  *)
(* manifest finds no records either.                                       *)
(***************************************************************************)
Log == Records(files) \o buffer

OpenWal ==
  /\ files # <<>> /\ ~Last(files).torn
  /\ wal.appended = LastSeq(Log)
  /\ wal.config = manifest /\ manifest \in Auctions

WalInv ==
  /\ TypeOK /\ WellFormed(files)
  /\ Consecutive(Log) /\ OfAuction(Log, manifest)
  /\ manifest = NoManifest => files = <<>>
  /\ wal.running => OpenWal
  /\ ~wal.running => buffer = <<>> /\ wal = ClosedWal

LEMMA LogType ==
  ASSUME WalInv
  PROVE  /\ Records(files) \in Seq(Record) /\ buffer \in Seq(Record)
         /\ Log \in Seq(Record)
         /\ ~wal.running => Log = Records(files)
<1>1. Records(files) \in Seq(Record) /\ buffer \in Seq(Record)
  BY RecordsType DEF WalInv, TypeOK
<1>2. Log \in Seq(Record)
  BY <1>1, ConcatProperties DEF Log
<1>3. ~wal.running => Log = Records(files)
  BY <1>1, ConcatEmptySeq DEF WalInv, Log
<1> QED BY <1>1, <1>2, <1>3

(* The log of a directory with an active segment. *)
LEMMA Active ==
  ASSUME WalInv, files # <<>>
  PROVE  \E F \in Seq(File), a \in File :
           /\ files = Append(F, a) /\ AllSealed(F) /\ a.safe <= Len(a.recs)
           /\ Last(files) = a
           /\ Records(F) \in Seq(Record) /\ a.recs \in Seq(Record)
           /\ Records(files) = Records(F) \o a.recs
           /\ Log = Records(F) \o (a.recs \o buffer)
           /\ Synced(files) = Len(Records(F)) + a.safe
<1>1. WellFormed(files)
  BY DEF WalInv
<1>2. PICK F \in Seq(File), a \in File :
        files = Append(F, a) /\ AllSealed(F) /\ a.safe <= Len(a.recs)
  BY <1>1, Disassemble
<1>3. /\ Last(files) = a /\ Records(files) = Records(F) \o a.recs
      /\ Synced(files) = Len(Records(F)) + a.safe
  BY <1>2, Assemble
<1>4. Records(F) \in Seq(Record) /\ a.recs \in Seq(Record)
  BY RecordsType DEF File
<1>5. Log = Records(F) \o (a.recs \o buffer)
  <2>1. buffer \in Seq(Record)
    BY LogType
  <2>2. (Records(F) \o a.recs) \o buffer = Records(F) \o (a.recs \o buffer)
    <3> DEFINE x == Records(F)
               y == a.recs
    <3>1. x \in Seq(Record) /\ y \in Seq(Record)
      BY <1>4
    <3> HIDE DEF x, y
    <3>2. (x \o y) \o buffer = x \o (y \o buffer)
      BY <2>1, <3>1, ConcatAssociative
    <3> QED BY <3>2 DEF x, y
  <2> QED BY <1>3, <2>2 DEF Log
<1> QED BY <1>2, <1>3, <1>4, <1>5

(* What append() does: the record joins the log, and rotation syncs it. *)
LEMMA AppendEffect ==
  ASSUME WalInv, NEW r \in Record, AppendRecord(r)
  PROVE  /\ WellFormed(files') /\ files' # <<>> /\ ~Last(files').torn
         /\ buffer' \in Seq(Record)
         /\ Log' = Append(Log, r)
         /\ Synced(files') \in {Synced(files), Len(Log)}
<1>1. wal.running /\ OpenWal
  BY DEF AppendRecord, WalInv
<1>2. PICK F \in Seq(File), a \in File :
           /\ files = Append(F, a) /\ AllSealed(F) /\ a.safe <= Len(a.recs)
           /\ Last(files) = a
           /\ Records(F) \in Seq(Record) /\ a.recs \in Seq(Record)
           /\ Records(files) = Records(F) \o a.recs
           /\ Log = Records(F) \o (a.recs \o buffer)
           /\ Synced(files) = Len(Records(F)) + a.safe
  BY <1>1, Active DEF OpenWal
<1>3. /\ buffer \in Seq(Record) /\ Log \in Seq(Record) /\ Records(files) \in Seq(Record)
      /\ <<r>> \in Seq(Record) /\ ~a.torn
  BY <1>1, <1>2, LogType DEF OpenWal
<1>4. CASE ~Full
  <2>1. files' = files /\ buffer' = Append(buffer, r)
    BY <1>4 DEF AppendRecord
  <2>2. buffer' = buffer \o <<r>> /\ Append(Log, r) = Log \o <<r>> /\ buffer' \in Seq(Record)
    BY <2>1, <1>3, AppendIsConcat, AppendProperties
  <2>3. (Records(files) \o buffer) \o <<r>> = Records(files) \o (buffer \o <<r>>)
    BY <1>3, ConcatAssociative
  <2>4. Log' = Records(files) \o buffer'
    BY <2>1 DEF Log
  <2> QED BY <2>1, <2>2, <2>3, <2>4, <1>1, <1>2, <1>3 DEF Log, WalInv, OpenWal
<1>5. CASE Full
  <2>1. files' = Append(SyncData(Flush(files, buffer)), EmptyFile) /\ buffer' = <<r>>
    BY <1>5 DEF AppendRecord, Rotate
  <2>2. PICK b \in File : /\ SyncData(Flush(Append(F, a), buffer)) = Append(F, b)
                          /\ b.recs = a.recs \o buffer /\ IsSealed(b)
    BY <1>2, <1>3, FlushAndSync
  <2> DEFINE G == Append(F, b)
  <2>3. G \in Seq(File) /\ AllSealed(G)
    BY <1>2, <2>2, AllSealedAppend, AppendProperties
  <2>4. files' = Append(G, EmptyFile)
    BY <2>1, <2>2, <1>2
  <2>5. Records(G) = Records(F) \o (a.recs \o buffer)
    BY <2>2, RecordsAppend
  <2>6. Records(G) = Log
    BY <2>5, <1>2
  <2> HIDE DEF G
  <2>7. /\ WellFormed(files') /\ files' # <<>> /\ Last(files') = EmptyFile
        /\ Records(files') = Records(G) \o <<>>
        /\ Synced(files') = Len(Records(G)) + 0
    <3>1. EmptyFile.safe <= Len(EmptyFile.recs)
      BY EmptyFileType
    <3> QED BY <2>3, <2>4, <3>1, EmptyFileType, Assemble
  <2>8. Records(files') = Log /\ Synced(files') = Len(Log)
    BY <2>6, <2>7, <1>3, ConcatEmptySeq
  <2>9. Log' = Log \o <<r>>
    BY <2>1, <2>8 DEF Log
  <2>10. Log \o <<r>> = Append(Log, r)
    BY <1>3, AppendIsConcat
  <2> QED BY <2>1, <2>7, <2>8, <2>9, <2>10, <1>3, EmptyFileType
<1> QED BY <1>4, <1>5

(* What sync() does: all of the log is synced. *)
LEMMA SyncEffect ==
  ASSUME WalInv, Sync
  PROVE  /\ WellFormed(files') /\ files' # <<>> /\ ~Last(files').torn
         /\ buffer' = <<>>
         /\ Log' = Log
         /\ Synced(files') = Len(Log)
<1>1. wal.running /\ OpenWal /\ files' = SyncData(Flush(files, buffer)) /\ buffer' = <<>>
  BY DEF Sync, WalInv
<1>2. PICK F \in Seq(File), a \in File :
           /\ files = Append(F, a) /\ AllSealed(F) /\ a.safe <= Len(a.recs)
           /\ Last(files) = a
           /\ Records(F) \in Seq(Record) /\ a.recs \in Seq(Record)
           /\ Records(files) = Records(F) \o a.recs
           /\ Log = Records(F) \o (a.recs \o buffer)
           /\ Synced(files) = Len(Records(F)) + a.safe
  BY <1>1, Active DEF OpenWal
<1>3. buffer \in Seq(Record) /\ Log \in Seq(Record) /\ ~a.torn
  BY <1>1, <1>2, LogType DEF OpenWal
<1>4. PICK b \in File : /\ SyncData(Flush(Append(F, a), buffer)) = Append(F, b)
                        /\ b.recs = a.recs \o buffer /\ IsSealed(b)
  BY <1>2, <1>3, FlushAndSync
<1>5. files' = Append(F, b) /\ b.safe = Len(b.recs) /\ ~b.torn /\ b.recs \in Seq(Record)
  BY <1>1, <1>2, <1>4 DEF IsSealed, File
<1>6. b.safe <= Len(b.recs)
  BY <1>5
<1>7. /\ WellFormed(files') /\ files' # <<>> /\ Last(files') = b
      /\ Records(files') = Records(F) \o b.recs
      /\ Synced(files') = Len(Records(F)) + b.safe
  BY <1>2, <1>5, <1>6, Assemble
<1>8. Records(files') = Log
  BY <1>2, <1>4, <1>7
<1>9. Synced(files') = Len(Log)
  <2>1. Len(Records(F) \o b.recs) = Len(Records(F)) + Len(b.recs)
    BY <1>2, <1>5, ConcatProperties
  <2> QED BY <2>1, <1>5, <1>7, <1>8
<1>10. Log' = Log
  BY <1>1, <1>3, <1>8, ConcatEmptySeq DEF Log
<1> QED BY <1>1, <1>5, <1>7, <1>9, <1>10
(* What opening does: nothing to the log, of which it may sync the tail. *)
LEMMA OpenEffect ==
  ASSUME WalInv, NEW config \in Auctions, Open(config)
  PROVE  /\ WellFormed(files') /\ files' # <<>> /\ ~Last(files').torn
         /\ buffer' = <<>>
         /\ Log' = Log
         /\ Synced(files') \in {Synced(files), Len(Log)}
         /\ Len(Last(files').recs) \in Nat
         /\ wal' = [running |-> TRUE, config |-> config, appended |-> LastSeq(Log),
                    durable |-> LastSeq(Log), active_bytes |-> Len(Last(files').recs)]
<1>1. /\ ~wal.running /\ buffer = <<>> /\ buffer' = <<>>
      /\ files' = IF files = <<>> THEN <<EmptyFile>> ELSE TruncateTornTail(files)
      /\ wal' = [running |-> TRUE, config |-> config, appended |-> LastSeq(Records(files')),
                 durable |-> LastSeq(Records(files')), active_bytes |-> Len(Last(files').recs)]
  BY DEF Open, WalInv
<1>2. Records(files) \in Seq(Record) /\ Log = Records(files)
  BY <1>1, LogType
<1>3. SUFFICES /\ WellFormed(files') /\ files' # <<>> /\ ~Last(files').torn
               /\ Records(files') = Records(files)
               /\ Synced(files') \in {Synced(files), Len(Records(files))}
               /\ Last(files') \in File
  <2>1. Len(Last(files').recs) \in Nat
    BY <1>3 DEF File
  <2>2. Log' = Records(files)
    BY <1>1, <1>2, <1>3, ConcatEmptySeq DEF Log
  <2> QED BY <1>1, <1>2, <1>3, <2>1, <2>2
<1>4. CASE files = <<>>
  <2>1. <<>> \in Seq(File) /\ AllSealed(<<>>) /\ EmptyFile.safe <= Len(EmptyFile.recs)
    BY EmptySeq, EmptyFileType DEF AllSealed
  <2>2. <<EmptyFile>> = Append(<<>>, EmptyFile)
    OBVIOUS
  <2>3. /\ WellFormed(files') /\ files' # <<>> /\ Last(files') = EmptyFile
        /\ Records(files') = Records(<<>>) \o <<>>
        /\ Synced(files') = Len(Records(<<>>)) + 0
    BY <1>1, <1>4, <2>1, <2>2, EmptyFileType, Assemble
  <2>4. Records(files') = <<>> /\ Synced(files') = 0
    BY <2>3, RecordsEmpty
  <2> QED BY <1>4, <2>3, <2>4, RecordsEmpty, SyncedEmpty, EmptyFileType
<1>5. CASE files # <<>>
  <2>1. PICK F \in Seq(File), a \in File :
           /\ files = Append(F, a) /\ AllSealed(F) /\ a.safe <= Len(a.recs)
           /\ Last(files) = a
           /\ Records(F) \in Seq(Record) /\ a.recs \in Seq(Record)
           /\ Records(files) = Records(F) \o a.recs
           /\ Log = Records(F) \o (a.recs \o buffer)
           /\ Synced(files) = Len(Records(F)) + a.safe
    BY <1>5, Active
  <2>2. CASE ~a.torn
    <3>1. files' = files
      BY <1>1, <1>5, <2>1, <2>2 DEF TruncateTornTail
    <3> QED BY <2>1, <2>2, <3>1, <1>5 DEF WalInv
  <2>3. CASE a.torn
    <3> DEFINE c == [a EXCEPT !.torn = FALSE]
               b == SyncedFile(c)
    <3>1. c \in File /\ c.recs = a.recs /\ c.safe = a.safe /\ c.torn = FALSE
      BY DEF File
    <3>2. files' = SyncData(OnActive(files, c))
      BY <1>1, <1>5, <2>1, <2>3 DEF TruncateTornTail
    <3> HIDE DEF c
    <3>3. OnActive(files, c) = F \o <<c>>
      BY <2>1, Assemble
    <3>4. F \o <<c>> = Append(F, c)
      BY <3>1, ConcatOne
    <3>5. SyncData(Append(F, c)) = Append(F, b)
      BY <2>1, <3>1, SyncActive
    <3>6. /\ b \in File /\ b.recs = c.recs /\ b.safe = Len(c.recs) /\ b.torn = c.torn
          /\ b.safe <= Len(b.recs)
      BY <3>1, SyncedFileType
    <3>7. files' = Append(F, b)
      BY <3>2, <3>3, <3>4, <3>5
    <3> HIDE DEF b
    <3>8. /\ WellFormed(files') /\ files' # <<>> /\ Last(files') = b
          /\ Records(files') = Records(F) \o b.recs
          /\ Synced(files') = Len(Records(F)) + b.safe
      BY <2>1, <3>6, <3>7, Assemble
    <3>9. Len(Records(F) \o a.recs) = Len(Records(F)) + Len(a.recs)
      BY <2>1, ConcatProperties
    <3> QED BY <2>1, <3>1, <3>6, <3>8, <3>9
  <2> QED BY <2>2, <2>3
<1> QED BY <1>4, <1>5

(* A prefix of the second part leaves a prefix of the whole. *)
LEMMA PrefixOfConcat ==
  ASSUME NEW S, NEW s \in Seq(S), NEW t \in Seq(S), NEW n \in 0..Len(t)
  PROVE  /\ SubSeq(t, 1, n) \in Seq(S)
         /\ s \o SubSeq(t, 1, n) = SubSeq(s \o t, 1, Len(s) + n)
         /\ Len(s) + n \in 0..Len(s \o t)
<1> DEFINE p == SubSeq(t, 1, n)
           m == Len(s) + n
<1>1. /\ Len(s) \in Nat /\ Len(t) \in Nat /\ n \in Nat /\ n <= Len(t)
      /\ p \in Seq(S) /\ Len(p) = n /\ \A i \in 1..n : p[i] = t[i]
  OBVIOUS
<1>2. /\ s \o t \in Seq(S) /\ Len(s \o t) = Len(s) + Len(t)
      /\ \A i \in 1..(Len(s) + Len(t)) : (s \o t)[i] = IF i <= Len(s) THEN s[i] ELSE t[i - Len(s)]
  BY ConcatProperties
<1> HIDE DEF p
<1>3. /\ s \o p \in Seq(S) /\ Len(s \o p) = m
      /\ \A i \in 1..m : (s \o p)[i] = IF i <= Len(s) THEN s[i] ELSE p[i - Len(s)]
  BY <1>1, ConcatProperties
<1> DEFINE u == s \o t
           v == s \o p
<1> HIDE DEF u, v
<1>4. m \in Nat /\ m <= Len(u)
  BY <1>1, <1>2 DEF u
<1>5. /\ SubSeq(u, 1, m) \in Seq(S) /\ Len(SubSeq(u, 1, m)) = m
      /\ \A i \in 1..m : SubSeq(u, 1, m)[i] = u[i]
  BY <1>2, <1>4 DEF u
<1>6. \A i \in 1..m : v[i] = u[i]
  <2> SUFFICES ASSUME NEW i \in 1..m PROVE v[i] = u[i]
    OBVIOUS
  <2>1. i \in 1..(Len(s) + Len(t)) /\ i \in Nat
    BY <1>1
  <2>2. i > Len(s) => i - Len(s) \in 1..n
    BY <1>1
  <2>3. i > Len(s) => p[i - Len(s)] = t[i - Len(s)]
    BY <1>1, <2>2
  <2>4. v[i] = IF i <= Len(s) THEN s[i] ELSE p[i - Len(s)]
    BY <1>3 DEF v
  <2>5. u[i] = IF i <= Len(s) THEN s[i] ELSE t[i - Len(s)]
    BY <1>2, <2>1 DEF u
  <2> QED BY <1>1, <2>1, <2>3, <2>4, <2>5
<1>7. v = SubSeq(u, 1, m)
  <2>1. v \in Seq(S) /\ Len(v) = m
    BY <1>3 DEF v
  <2>2. SubSeq(u, 1, m) \in Seq(S) /\ Len(SubSeq(u, 1, m)) = Len(v)
    BY <1>5, <2>1
  <2>3. \A i \in 1..Len(v) : v[i] = SubSeq(u, 1, m)[i]
    BY <1>5, <1>6, <2>1
  <2> QED BY <2>1, <2>2, <2>3, SeqEqual
<1> QED BY <1>1, <1>4, <1>7 DEF u, v, p

(* What dying does: a tail of the buffer is lost, and nothing synced. *)
LEMMA DieEffect ==
  ASSUME WalInv, Die
  PROVE  /\ WellFormed(files') /\ buffer' = <<>>
         /\ \E n \in Synced(files)..Len(Log) : Log' = SubSeq(Log, 1, n)
         /\ Synced(files') = Synced(files)
<1>1. wal.running /\ OpenWal /\ buffer' = <<>>
  BY DEF Die, WalInv
<1>2. PICK F \in Seq(File), a \in File :
           /\ files = Append(F, a) /\ AllSealed(F) /\ a.safe <= Len(a.recs)
           /\ Last(files) = a
           /\ Records(F) \in Seq(Record) /\ a.recs \in Seq(Record)
           /\ Records(files) = Records(F) \o a.recs
           /\ Log = Records(F) \o (a.recs \o buffer)
           /\ Synced(files) = Len(Records(F)) + a.safe
  BY <1>1, Active DEF OpenWal
<1>3. buffer \in Seq(Record) /\ Log \in Seq(Record) /\ ~a.torn
  BY <1>1, <1>2, LogType DEF OpenWal
<1>4. PICK n \in 0..Len(buffer), torn \in BOOLEAN :
        files' = OnActive(files, [Last(Flush(files, SubSeq(buffer, 1, n))) EXCEPT !.torn = @ \/ torn])
  BY DEF Die
<1> DEFINE kept == SubSeq(buffer, 1, n)
           c == Filled(a, kept)
           b == [c EXCEPT !.torn = @ \/ torn]
           R == Records(files)
<1>5. /\ kept \in Seq(Record) /\ R \o kept = SubSeq(R \o buffer, 1, Len(R) + n)
      /\ Len(R) + n \in 0..Len(R \o buffer)
  BY <1>3, LogType, PrefixOfConcat
<1> HIDE DEF kept
<1>6. /\ c \in File /\ c.recs = a.recs \o kept /\ c.safe = a.safe /\ c.torn = a.torn
      /\ a.safe <= Len(a.recs \o kept)
  BY <1>2, <1>5, FilledType
<1>7. Flush(files, kept) = Append(F, c)
  BY <1>2, <1>3, <1>5, FlushActive
<1>8. Last(Append(F, c)) = c
  BY <1>2, <1>6, Assemble
<1> HIDE DEF c
<1>9. b \in File /\ b.recs = a.recs \o kept /\ b.safe = a.safe /\ b.safe <= Len(b.recs)
  BY <1>6 DEF File
<1>10. files' = OnActive(files, b)
  BY <1>4, <1>7, <1>8 DEF kept
<1> HIDE DEF b
<1>11. OnActive(files, b) = F \o <<b>>
  BY <1>2, Assemble
<1>12. files' = Append(F, b)
  BY <1>9, <1>10, <1>11, ConcatOne
<1>13. /\ WellFormed(files') /\ Records(files') = Records(F) \o b.recs
       /\ Synced(files') = Len(Records(F)) + b.safe
  BY <1>2, <1>9, <1>12, Assemble
<1>14. Records(files') = R \o kept
  <2>1. (Records(F) \o a.recs) \o kept = Records(F) \o (a.recs \o kept)
    <3> DEFINE x == Records(F)
               y == a.recs
    <3>1. x \in Seq(Record) /\ y \in Seq(Record) /\ kept \in Seq(Record)
      BY <1>2, <1>5
    <3> HIDE DEF x, y
    <3>2. (x \o y) \o kept = x \o (y \o kept)
      BY <3>1, ConcatAssociative
    <3> QED BY <3>2 DEF x, y
  <2> QED BY <1>2, <1>9, <1>13, <2>1
<1>15. Log' = SubSeq(Log, 1, Len(R) + n)
  <2>1. R \o kept \in Seq(Record)
    BY <1>5, LogType, ConcatProperties
  <2>2. Log' = R \o kept
    BY <1>1, <1>14, <2>1, ConcatEmptySeq DEF Log
  <2> QED BY <2>2, <1>5 DEF Log
<1>16. Len(R) + n \in Synced(files)..Len(Log)
  <2>1. Len(R) = Len(Records(F)) + Len(a.recs)
    BY <1>2, ConcatProperties
  <2>2. Len(Records(F)) \in Nat /\ Len(a.recs) \in Nat /\ a.safe \in Nat /\ Len(Log) \in Nat
    BY <1>2, <1>3 DEF File
  <2> HIDE DEF R
  <2>3. Len(R) + n <= Len(Log)
    BY <1>5 DEF Log, R
  <2> QED BY <1>2, <2>1, <2>2, <2>3
<1> QED BY <1>1, <1>2, <1>9, <1>13, <1>15, <1>16
(* What a power failure leaves of a file is a prefix with its synced part. *)
LEMMA RemainsOf ==
  ASSUME NEW f \in File, f.safe <= Len(f.recs), NEW g \in Remains(f)
  PROVE  /\ g \in File /\ g.safe = f.safe /\ g.safe <= Len(g.recs)
         /\ \E n \in f.safe..Len(f.recs) : g.recs = SubSeq(f.recs, 1, n)
         /\ g.torn => f.torn \/ Len(g.recs) < Len(f.recs)
<1>1. f.recs \in Seq(Record) /\ f.safe \in Nat /\ Len(f.recs) \in Nat
  BY DEF File
<1>2. /\ g \in [recs : {SubSeq(f.recs, 1, n) : n \in f.safe..Len(f.recs)},
               safe : {f.safe}, torn : BOOLEAN]
      /\ g.torn => f.torn \/ Len(g.recs) < Len(f.recs)
  BY DEF Remains
<1>3. PICK n \in f.safe..Len(f.recs) : g.recs = SubSeq(f.recs, 1, n)
  BY <1>2
<1>4. SubSeq(f.recs, 1, n) \in Seq(Record) /\ Len(SubSeq(f.recs, 1, n)) = n
  <2> DEFINE s == f.recs
  <2>1. s \in Seq(Record) /\ n \in 0..Len(s)
    BY <1>1
  <2> HIDE DEF s
  <2>2. SubSeq(s, 1, n) \in Seq(Record) /\ Len(SubSeq(s, 1, n)) = n
    BY <2>1
  <2> QED BY <2>2 DEF s
<1>5. g \in File
  BY <1>1, <1>2, <1>3, <1>4 DEF File
<1>6. g.safe = f.safe /\ g.safe <= Len(g.recs)
  BY <1>1, <1>2, <1>3, <1>4
<1> QED BY <1>2, <1>3, <1>5, <1>6

(* Nothing is lost of a sealed segment. *)
LEMMA SealedRemains ==
  ASSUME NEW f \in File, IsSealed(f), NEW g \in Remains(f)
  PROVE  g = f
<1>1. f.recs \in Seq(Record) /\ Len(f.recs) \in Nat /\ f.safe = Len(f.recs) /\ ~f.torn
  BY DEF File, IsSealed
<1>2. f.safe <= Len(f.recs)
  BY <1>1
<1>3. /\ g \in File /\ g.safe = f.safe
      /\ \E n \in f.safe..Len(f.recs) : g.recs = SubSeq(f.recs, 1, n)
      /\ g.torn => f.torn \/ Len(g.recs) < Len(f.recs)
  BY <1>2, RemainsOf
<1>4. g.recs = SubSeq(f.recs, 1, Len(f.recs))
  BY <1>1, <1>3
<1>5. g.recs = f.recs
  BY <1>1, <1>4, SubSeqFull
<1>6. ~g.torn
  BY <1>1, <1>3, <1>5
<1>7. g.torn = f.torn
  BY <1>1, <1>3, <1>6 DEF File
<1> QED BY <1>3, <1>5, <1>7 DEF File

(* Sealed segments alone are a log too. *)
LEMMA SealedWellFormed ==
  ASSUME NEW F \in Seq(File), AllSealed(F)
  PROVE  WellFormed(F)
<1>1. CASE F = <<>>
  BY <1>1, EmptySeq DEF WellFormed, Counted
<1>2. CASE F # <<>>
  <2>1. PICK G \in Seq(File), b \in File : F = Append(G, b)
    BY <1>2, SequenceEmptyOrAppend
  <2>2. AllSealed(G) /\ b.safe = Len(b.recs) /\ b.safe \in Nat
    BY <2>1, AllSealedAppend DEF IsSealed, File
  <2>3. b.safe <= Len(b.recs)
    BY <2>2
  <2> QED BY <2>1, <2>2, <2>3, Assemble
<1> QED BY <1>1, <1>2

(* What a power failure does: a tail of the log is lost, and nothing synced. *)
LEMMA PowerLossEffect ==
  ASSUME WalInv, PowerLoss
  PROVE  /\ WellFormed(files') /\ buffer' = <<>>
         /\ \E n \in Synced(files)..Len(Log) : Log' = SubSeq(Log, 1, n)
         /\ Synced(files') = Synced(files)
<1>1. ~wal.running /\ files # <<>> /\ buffer = <<>> /\ buffer' = <<>>
  BY DEF PowerLoss, WalInv
<1>2. PICK F \in Seq(File), a \in File :
           /\ files = Append(F, a) /\ AllSealed(F) /\ a.safe <= Len(a.recs)
           /\ Last(files) = a
           /\ Records(F) \in Seq(Record) /\ a.recs \in Seq(Record)
           /\ Records(files) = Records(F) \o a.recs
           /\ Log = Records(F) \o (a.recs \o buffer)
           /\ Synced(files) = Len(Records(F)) + a.safe
  BY <1>1, Active
<1>3. PICK left \in [DOMAIN files -> UNION {Remains(files[i]) : i \in DOMAIN files}] :
        /\ \A i \in DOMAIN files : left[i] \in Remains(files[i])
        /\ files' = left \/ (Last(files).safe = 0 /\ files' = Front(left))
  BY DEF PowerLoss
<1> DEFINE k == Len(F)
           l == left[k + 1]
<1>4. /\ k \in Nat /\ DOMAIN files = 1..(k + 1) /\ files[k + 1] = a
      /\ DOMAIN F = 1..k
      /\ \A i \in 1..k : files[i] = F[i] /\ F[i] \in File
  BY <1>2, AppendProperties, LenProperties
<1>5. \A i \in 1..k : left[i] = F[i]
  <2> TAKE i \in 1..k
  <2>1. F[i] \in File /\ IsSealed(F[i]) /\ left[i] \in Remains(F[i])
    BY <1>2, <1>3, <1>4 DEF AllSealed
  <2> QED BY <2>1, SealedRemains
<1>6. l \in Remains(a)
  <2>1. k + 1 \in 1..(k + 1)
    BY <1>4
  <2> QED BY <1>3, <1>4, <2>1
<1>7. /\ l \in File /\ l.safe = a.safe /\ l.safe <= Len(l.recs)
      /\ \E n \in a.safe..Len(a.recs) : l.recs = SubSeq(a.recs, 1, n)
  BY <1>2, <1>6, RemainsOf
<1>8. left = Append(F, l)
  <2>1. /\ Append(F, l) \in Seq(File) /\ Len(Append(F, l)) = k + 1
        /\ \A i \in 1..k : Append(F, l)[i] = F[i]
        /\ Append(F, l)[k + 1] = l
    <3> HIDE DEF l
    <3> QED BY <1>7, AppendProperties
  <2>2. \A i \in 1..(k + 1) : left[i] \in File
    <3> HIDE DEF l
    <3>1. left[k + 1] = l
      BY DEF l
    <3>2. \A i \in 1..(k + 1) : i \in 1..k \/ i = k + 1
      BY <1>4
    <3> QED BY <1>4, <1>5, <1>7, <3>1, <3>2
  <2>3. left = [i \in 1..(k + 1) |-> left[i]]
    BY <1>3, <1>4
  <2> HIDE DEF k
  <2>4. left \in Seq(File) /\ Len(left) = k + 1
    BY <1>4, <2>2, <2>3
  <2>5. \A i \in 1..(k + 1) : left[i] = Append(F, l)[i]
    <3>1. \A i \in 1..(k + 1) : i \in 1..k \/ i = k + 1
      BY <1>4
    <3> QED BY <1>5, <2>1, <3>1
  <2> HIDE DEF l
  <2> QED BY <2>1, <2>4, <2>5, SeqEqual
<1> HIDE DEF l
<1>9. PICK n \in a.safe..Len(a.recs) : l.recs = SubSeq(a.recs, 1, n)
  BY <1>7
<1>10. /\ WellFormed(left) /\ Front(left) = F
       /\ Records(left) = Records(F) \o l.recs
       /\ Synced(left) = Len(Records(F)) + l.safe
  BY <1>2, <1>7, <1>8, Assemble
<1>11. Log = Records(F) \o a.recs /\ Log \in Seq(Record)
  BY <1>1, <1>2, LogType
<1>12. /\ Len(Records(F)) \in Nat /\ Len(a.recs) \in Nat /\ a.safe \in Nat
       /\ Len(Log) = Len(Records(F)) + Len(a.recs)
  BY <1>2, <1>11, ConcatProperties DEF File
<1>13. \A m \in 0..Len(a.recs) :
         Records(F) \o SubSeq(a.recs, 1, m) = SubSeq(Log, 1, Len(Records(F)) + m)
  <2> DEFINE x == Records(F)
             y == a.recs
  <2>1. x \in Seq(Record) /\ y \in Seq(Record) /\ Log = x \o y
    BY <1>2, <1>11
  <2> HIDE DEF x, y
  <2>2. \A m \in 0..Len(y) : x \o SubSeq(y, 1, m) = SubSeq(x \o y, 1, Len(x) + m)
    BY <2>1, PrefixOfConcat
  <2> QED BY <2>1, <2>2 DEF x, y
<1>14. Log' = Records(files')
  <2>1. files' \in Seq(File)
    BY <1>2, <1>3, <1>10 DEF WellFormed
  <2>2. Records(files') \in Seq(Record)
    BY <2>1, RecordsType
  <2> QED BY <1>1, <2>2, ConcatEmptySeq DEF Log
<1>15. CASE files' = left
  <2>1. n \in 0..Len(a.recs) /\ Len(Records(F)) + n \in Synced(files)..Len(Log)
    BY <1>2, <1>12
  <2>2. Log' = SubSeq(Log, 1, Len(Records(F)) + n)
    BY <1>9, <1>10, <1>13, <1>14, <1>15, <2>1
  <2> QED BY <1>1, <1>2, <1>7, <1>10, <1>15, <2>1, <2>2
<1>16. CASE Last(files).safe = 0 /\ files' = Front(left)
  <2>1. files' = F /\ a.safe = 0
    BY <1>2, <1>10, <1>16
  <2>2. WellFormed(F) /\ Synced(F) = Len(Records(F))
    BY <1>2, SealedWellFormed, SealedSynced
  <2>3. Len(Records(F)) \in Synced(files)..Len(Log) /\ Synced(F) = Synced(files)
    BY <1>2, <1>12, <2>1, <2>2
  <2>4. SubSeq(a.recs, 1, 0) = <<>> /\ 0 \in 0..Len(a.recs) /\ Len(Records(F)) + 0 = Len(Records(F))
    BY <1>12, SubSeqEmpty
  <2>5. Records(F) \o <<>> = SubSeq(Log, 1, Len(Records(F)))
    BY <1>13, <2>4
  <2>6. Log' = SubSeq(Log, 1, Len(Records(F)))
    BY <1>2, <1>14, <2>1, <2>5, ConcatEmptySeq
  <2> QED BY <1>1, <2>1, <2>2, <2>3, <2>6
<1> QED BY <1>3, <1>15, <1>16

-----------------------------------------------------------------------------
(* The invariant. *)

LEMMA WalInvInit == Init => WalInv
<1> SUFFICES ASSUME Init PROVE WalInv
  OBVIOUS
<1>1. files = <<>> /\ buffer = <<>> /\ wal = ClosedWal /\ manifest = NoManifest
  BY DEF Init
<1>2. Log = <<>>
  BY <1>1, RecordsEmpty DEF Log
<1>3. TypeOK
  BY <1>1, EmptySeq, WalAssumption DEF TypeOK, ClosedWal, NoSeq
<1>4. WellFormed(files)
  BY <1>1, EmptySeq DEF WellFormed, Counted
<1>5. Consecutive(Log) /\ OfAuction(Log, manifest)
  BY <1>2 DEF Consecutive, OfAuction
<1> QED BY <1>1, <1>3, <1>4, <1>5 DEF WalInv, ClosedWal

WalType ==
  [running : BOOLEAN, config : Auctions \cup {NoManifest},
   appended : NoSeq..MaxSeq, durable : NoSeq..MaxSeq, active_bytes : Nat]

LEMMA WalInvTypes ==
  ASSUME WalInv
  PROVE  /\ wal \in WalType /\ manifest \in Auctions \cup {NoManifest, Torn}
         /\ buffer \in Seq(Record)
         /\ Consecutive(Log) /\ OfAuction(Log, manifest)
BY DEF WalInv, TypeOK, WalType

(* What the types of the next state rest on. *)
LEMMA NextTypes ==
  ASSUME WellFormed(files'), buffer' \in Seq(Record), wal' \in WalType,
         manifest' \in Auctions \cup {NoManifest, Torn}
  PROVE  TypeOK'
BY DEF TypeOK, WellFormed, Counted, WalType

LEMMA AppendKeeps ==
  ASSUME WalInv, NEW r \in Record, AppendRecord(r)
  PROVE  WalInv'
<1>1. /\ WellFormed(files') /\ files' # <<>> /\ ~Last(files').torn
      /\ buffer' \in Seq(Record) /\ Log' = Append(Log, r)
  BY AppendEffect
<1>2. /\ wal.running /\ OpenWal /\ r.cmd.auction = wal.config /\ manifest' = manifest
      /\ wal.appended # NoSeq => r.seq = wal.appended + 1
      /\ wal' = [wal EXCEPT !.appended = r.seq,
                           !.active_bytes = IF Full THEN 1 ELSE @ + 1]
  BY DEF AppendRecord, WalInv
<1>3. /\ wal \in WalType /\ manifest \in Auctions \cup {NoManifest, Torn}
      /\ Consecutive(Log) /\ OfAuction(Log, manifest) /\ Log \in Seq(Record)
  BY WalInvTypes, LogType
<1>4. wal.appended = LastSeq(Log) /\ wal.config = manifest /\ manifest \in Auctions
  BY <1>2 DEF OpenWal
<1>5. Consecutive(Log') /\ OfAuction(Log', manifest) /\ LastSeq(Log') = r.seq
  BY <1>1, <1>2, <1>3, <1>4, AppendToLog
<1>6. /\ wal' \in WalType /\ wal'.appended = r.seq /\ wal'.config = wal.config /\ wal'.running
  <2>1. r.seq \in NoSeq..MaxSeq
    BY WalAssumption DEF Record, NoSeq
  <2> DEFINE bytes == IF Full THEN 1 ELSE wal.active_bytes + 1
  <2>2. bytes \in Nat /\ wal' = [wal EXCEPT !.appended = r.seq, !.active_bytes = bytes]
    BY <1>2, <1>3 DEF WalType
  <2> HIDE DEF bytes
  <2> QED BY <1>2, <1>3, <2>1, <2>2 DEF WalType
<1>7. TypeOK'
  BY <1>1, <1>2, <1>3, <1>6, NextTypes
<1>8. manifest' # NoManifest
  BY <1>2, <1>4, WalAssumption
<1>9. OpenWal'
  BY <1>1, <1>2, <1>4, <1>5, <1>6 DEF OpenWal
<1> QED BY <1>1, <1>2, <1>5, <1>6, <1>7, <1>8, <1>9 DEF WalInv

LEMMA SyncKeeps ==
  ASSUME WalInv, Sync
  PROVE  WalInv'
<1>1. /\ WellFormed(files') /\ files' # <<>> /\ ~Last(files').torn
      /\ buffer' = <<>> /\ Log' = Log
  BY SyncEffect
<1>2. /\ wal.running /\ OpenWal /\ manifest' = manifest
      /\ wal' = [wal EXCEPT !.durable = wal.appended]
  BY DEF Sync, WalInv
<1>3. /\ wal \in WalType /\ manifest \in Auctions \cup {NoManifest, Torn}
      /\ Consecutive(Log) /\ OfAuction(Log, manifest)
  BY WalInvTypes
<1>4. /\ wal' \in WalType /\ wal'.appended = wal.appended /\ wal'.config = wal.config /\ wal'.running
  BY <1>2, <1>3 DEF WalType
<1>5. TypeOK'
  BY <1>1, <1>2, <1>3, <1>4, EmptySeq, NextTypes
<1>6. manifest' # NoManifest
  BY <1>2, WalAssumption DEF OpenWal
<1>7. OpenWal'
  BY <1>1, <1>2, <1>4 DEF OpenWal
<1> QED BY <1>1, <1>2, <1>3, <1>4, <1>5, <1>6, <1>7 DEF WalInv

LEMMA OpenKeeps ==
  ASSUME WalInv, NEW config \in Auctions, Open(config)
  PROVE  WalInv'
<1>1. /\ WellFormed(files') /\ files' # <<>> /\ ~Last(files').torn
      /\ buffer' = <<>> /\ Log' = Log /\ Len(Last(files').recs) \in Nat
      /\ wal' = [running |-> TRUE, config |-> config, appended |-> LastSeq(Log),
                 durable |-> LastSeq(Log), active_bytes |-> Len(Last(files').recs)]
  BY OpenEffect
<1>2. /\ ~wal.running /\ manifest \in {NoManifest, config}
      /\ manifest' = IF manifest = NoManifest THEN config ELSE manifest
  BY DEF Open, Accepts
<1>3. /\ Consecutive(Log) /\ OfAuction(Log, manifest) /\ Log \in Seq(Record)
      /\ Log = Records(files) /\ (manifest = NoManifest => files = <<>>)
  BY <1>2, WalInvTypes, LogType DEF WalInv
<1>4. manifest' = config
  BY <1>2
<1>5. OfAuction(Log, config)
  <2>1. CASE manifest = NoManifest
    <3>1. Log = <<>>
      BY <1>3, <2>1, RecordsEmpty
    <3> QED BY <3>1 DEF OfAuction
  <2>2. CASE manifest = config
    BY <1>3, <2>2
  <2> QED BY <1>2, <2>1, <2>2
<1>6. LastSeq(Log) \in NoSeq..MaxSeq
  BY <1>3, LastSeqType
<1>7. wal' \in WalType /\ wal'.running /\ wal'.appended = LastSeq(Log) /\ wal'.config = config
  BY <1>1, <1>6 DEF WalType
<1>8. TypeOK'
  BY <1>1, <1>4, <1>7, EmptySeq, NextTypes
<1>9. manifest' # NoManifest
  BY <1>4, WalAssumption
<1>10. OpenWal'
  BY <1>1, <1>4, <1>7 DEF OpenWal
<1> QED BY <1>1, <1>3, <1>4, <1>5, <1>7, <1>8, <1>9, <1>10 DEF WalInv

LEMMA InterruptedKeeps ==
  ASSUME WalInv, ManifestInterrupted
  PROVE  WalInv' /\ Log' = Log /\ Synced(files') = Synced(files)
<1>1. /\ ~wal.running /\ manifest = NoManifest /\ manifest' \in Auctions \cup {Torn}
      /\ files' = files /\ buffer' = buffer /\ wal' = wal
  BY DEF ManifestInterrupted
<1>2. Log' = Log /\ Log = Records(files) /\ files = <<>>
  BY <1>1, LogType DEF Log, WalInv
<1>3. Log = <<>>
  BY <1>2, RecordsEmpty
<1>4. OfAuction(Log', manifest')
  BY <1>2, <1>3 DEF OfAuction
<1> QED BY <1>1, <1>2, <1>4 DEF WalInv, TypeOK

(* A crash of either kind: the writer is gone, and a tail of the log. *)
LEMMA LossKeeps ==
  ASSUME WalInv, WellFormed(files'), buffer' = <<>>, NEW n \in Nat, n <= Len(Log),
         Log' = SubSeq(Log, 1, n), wal' = ClosedWal, manifest' = manifest,
         manifest # NoManifest
  PROVE  WalInv'
<1>1. /\ Consecutive(Log) /\ OfAuction(Log, manifest) /\ Log \in Seq(Record)
      /\ manifest \in Auctions \cup {NoManifest, Torn} /\ n \in 0..Len(Log)
  BY WalInvTypes, LogType
<1>2. Consecutive(Log') /\ OfAuction(Log', manifest)
  BY <1>1, PrefixOfLog
<1>3. wal' \in WalType /\ ~wal'.running
  BY WalAssumption DEF WalType, ClosedWal, NoSeq
<1>4. TypeOK'
  BY <1>1, <1>3, EmptySeq, NextTypes
<1> QED BY <1>2, <1>3, <1>4 DEF WalInv

LEMMA CrashKeeps ==
  ASSUME WalInv, Die \/ PowerLoss
  PROVE  WalInv'
<1>1. /\ WellFormed(files') /\ buffer' = <<>>
      /\ \E n \in Synced(files)..Len(Log) : Log' = SubSeq(Log, 1, n)
  BY DieEffect, PowerLossEffect
<1>2. Synced(files) \in Nat
  <2>1. files \in Seq(File) /\ Counted(files) /\ EmptyFile.safe <= Len(EmptyFile.recs)
    BY EmptyFileType DEF WalInv, WellFormed
  <2> QED BY <2>1, EmptyFileType, SyncedAppend
<1>3. PICK n \in Synced(files)..Len(Log) : Log' = SubSeq(Log, 1, n)
  BY <1>1
<1>4. n \in Nat /\ n <= Len(Log)
  BY <1>2, <1>3, LogType
<1>5. wal' = ClosedWal /\ manifest' = manifest
  BY DEF Die, PowerLoss, WalInv
<1>6. manifest # NoManifest
  BY WalAssumption DEF Die, PowerLoss, WalInv, OpenWal
<1> QED BY <1>1, <1>3, <1>4, <1>5, <1>6, LossKeeps

LEMMA WalInvNext == WalInv /\ [Next]_vars => WalInv'
<1> SUFFICES ASSUME WalInv, [Next]_vars PROVE WalInv'
  OBVIOUS
<1>1. CASE UNCHANGED vars
  BY <1>1 DEF WalInv, vars, TypeOK, OpenWal, Log
<1>2. ASSUME NEW r \in Record, AppendRecord(r) PROVE WalInv'
  BY <1>2, AppendKeeps
<1>3. ASSUME NEW config \in Auctions, Open(config) PROVE WalInv'
  BY <1>3, OpenKeeps
<1>4. CASE ManifestInterrupted
  BY <1>4, InterruptedKeeps
<1>5. CASE Sync
  BY <1>5, SyncKeeps
<1>6. CASE Die \/ PowerLoss
  BY <1>6, CrashKeeps
<1> QED BY <1>1, <1>2, <1>3, <1>4, <1>5, <1>6 DEF Next

LEMMA WalInvariant == Spec => []WalInv
BY WalInvInit, WalInvNext, PTL DEF Spec

-----------------------------------------------------------------------------
(* What follows from it. *)

(***************************************************************************)
(* No file counts more synced records than it holds, and the positions of  *)
(* the writer are sequence numbers (wal.rs:61-73), whatever the segment    *)
(* size and however the process and the power fail.                        *)
(***************************************************************************)
THEOREM WalTypeCorrect == Spec => []TypeOK
<1>1. WalInv => TypeOK
  BY DEF WalInv
<1> QED BY <1>1, WalInvariant, PTL

(* The segments a crash leaves can be read. *)
LEMMA InvReadable == WalInv => RecoveryAlwaysStarts
<1> SUFFICES ASSUME WalInv PROVE Readable(files)
  BY DEF RecoveryAlwaysStarts
<1>1. \A i \in DOMAIN files : files[i].torn => i = Len(files)
  <2> SUFFICES ASSUME NEW i \in DOMAIN files, i # Len(files) PROVE ~files[i].torn
    OBVIOUS
  <2>1. files \in Seq(File) /\ WellFormed(files) /\ files # <<>>
    BY DEF WalInv, TypeOK
  <2>2. PICK F \in Seq(File), a \in File :
          files = Append(F, a) /\ AllSealed(F) /\ a.safe <= Len(a.recs)
    BY <2>1, Disassemble
  <2>3. /\ Len(F) \in Nat /\ Len(files) = Len(F) + 1 /\ DOMAIN F = 1..Len(F)
        /\ DOMAIN files = 1..(Len(F) + 1) /\ \A j \in 1..Len(F) : files[j] = F[j]
    BY <2>2, AppendProperties, LenProperties
  <2>4. i \in 1..Len(F)
    BY <2>3
  <2> QED BY <2>2, <2>3, <2>4 DEF AllSealed, IsSealed
<1>2. Consecutive(Records(files))
  <2> DEFINE R == Records(files)
  <2>1. R \in Seq(Record) /\ buffer \in Seq(Record) /\ Log = R \o buffer /\ Consecutive(Log)
    BY LogType, WalInvTypes DEF Log
  <2> HIDE DEF R
  <2>2. /\ Len(R) \in Nat /\ Len(buffer) \in Nat /\ Len(Log) = Len(R) + Len(buffer)
        /\ \A i \in 1..Len(R) : Log[i] = R[i]
    BY <2>1, ConcatProperties
  <2>3. \A i \in 1..(Len(R) - 1) : R[i + 1].seq = R[i].seq + 1
    <3> TAKE i \in 1..(Len(R) - 1)
    <3>1. i \in 1..Len(R) /\ i + 1 \in 1..Len(R) /\ i \in 1..(Len(Log) - 1)
      BY <2>2
    <3>2. Log[i + 1].seq = Log[i].seq + 1
      BY <2>1, <3>1 DEF Consecutive
    <3> QED BY <2>2, <3>1, <3>2
  <2> QED BY <2>3 DEF Consecutive, R
<1> QED BY <1>1, <1>2 DEF Readable, Consecutive

(***************************************************************************)
(* Recovery never refuses what a crash left (wal.rs:219-262): for every    *)
(* segment size and after any sequence of rotations, deaths and power      *)
(* failures, torn bytes are in the last segment only and the records that  *)
(* can be read have no gap.                                                *)
(***************************************************************************)
THEOREM WalRecoveryAlwaysStarts == Spec => []RecoveryAlwaysStarts
BY InvReadable, WalInvariant, PTL

(***************************************************************************)
(* A log is of one auction (wal.rs:78-80), whatever each process of a      *)
(* history of crashes was started with: every record that is written or    *)
(* buffered is for the auction the manifest names.                         *)
(***************************************************************************)
THEOREM WalLogIsOfOneAuction == Spec => []LogIsOfOneAuction
<1>1. WalInv => LogIsOfOneAuction
  BY WalInvTypes DEF LogIsOfOneAuction, OfAuction, Log, Range
<1> QED BY <1>1, WalInvariant, PTL

-----------------------------------------------------------------------------
(* The refinement: every step of the segmented log is one of DurableLog's. *)

(* LastSeq and Record are those of DurableLog. *)
LEMMA SameNames ==
  /\ Promise!Record = Record /\ Promise!NoSeq = NoSeq
  /\ \A s : Promise!LastSeq(s) = LastSeq(s)
BY DEF Promise!Record, Record, Promise!NoSeq, NoSeq, Promise!LastSeq, LastSeq

LEMMA RefinesInit == Init => Promise!LogInit
<1> SUFFICES ASSUME Init PROVE Promise!LogInit
  OBVIOUS
<1>1. files = <<>> /\ buffer = <<>> /\ wal = ClosedWal
  BY DEF Init
<1>2. Records(files) \o buffer = <<>>
  BY <1>1, RecordsEmpty
<1>3. SyncedCount = 0
  BY <1>1, SyncedEmpty DEF SyncedCount, Synced
<1>4. wal.durable = NoSeq /\ wal.running = FALSE
  BY <1>1 DEF ClosedWal
<1> QED BY <1>2, <1>3, <1>4, SameNames DEF Promise!LogInit

LEMMA RefinesAppend ==
  ASSUME WalInv, NEW r \in Record, AppendRecord(r)
  PROVE  Promise!LogAppend(r)
<1>1. Log' = Append(Log, r) /\ Synced(files') \in {Synced(files), Len(Log)}
  BY AppendEffect
<1>2. /\ wal.running /\ OpenWal
      /\ wal.appended # NoSeq => r.seq = wal.appended + 1
      /\ wal' = [wal EXCEPT !.appended = r.seq,
                           !.active_bytes = IF Full THEN 1 ELSE @ + 1]
  BY DEF AppendRecord, WalInv
<1>3. wal'.durable = wal.durable /\ wal'.running = wal.running
  BY <1>2, WalInvTypes DEF WalType
<1>4. LastSeq(Log) = NoSeq \/ r.seq = LastSeq(Log) + 1
  BY <1>2 DEF OpenWal
<1> QED BY <1>1, <1>2, <1>3, <1>4, SameNames
        DEF Promise!LogAppend, Promise!Follows, Log, Synced, SyncedCount

LEMMA RefinesSync ==
  ASSUME WalInv, Sync
  PROVE  Promise!LogSync
<1>1. Log' = Log /\ Synced(files') = Len(Log)
  BY SyncEffect
<1>2. /\ wal.running /\ OpenWal /\ wal' = [wal EXCEPT !.durable = wal.appended]
  BY DEF Sync, WalInv
<1>3. wal'.durable = LastSeq(Log) /\ wal'.running = wal.running
  BY <1>2, WalInvTypes DEF WalType, OpenWal
<1> QED BY <1>1, <1>2, <1>3, SameNames DEF Promise!LogSync, Log, Synced, SyncedCount

LEMMA RefinesOpen ==
  ASSUME WalInv, NEW config \in Auctions, Open(config)
  PROVE  Promise!LogOpen
<1>1. /\ Log' = Log /\ Synced(files') \in {Synced(files), Len(Log)}
      /\ wal' = [running |-> TRUE, config |-> config, appended |-> LastSeq(Log),
                 durable |-> LastSeq(Log), active_bytes |-> Len(Last(files').recs)]
  BY OpenEffect
<1>2. ~wal.running /\ wal'.running = TRUE /\ wal'.durable = LastSeq(Log)
  BY <1>1 DEF Open
<1> QED BY <1>1, <1>2, SameNames DEF Promise!LogOpen, Log, Synced, SyncedCount

LEMMA RefinesLoss ==
  ASSUME WalInv, Die \/ PowerLoss
  PROVE  Promise!LogLose
<1>1. /\ \E n \in Synced(files)..Len(Log) : Log' = SubSeq(Log, 1, n)
      /\ Synced(files') = Synced(files)
  BY DieEffect, PowerLossEffect
<1>2. wal' = ClosedWal
  BY DEF Die, PowerLoss, WalInv
<1>3. wal'.running = FALSE /\ wal'.durable = NoSeq
  BY <1>2 DEF ClosedWal
<1> QED BY <1>1, <1>3, SameNames DEF Promise!LogLose, Log, Synced, SyncedCount

LEMMA RefinesNext == WalInv /\ [Next]_vars => [Promise!LogNext]_(Promise!logVars)
<1> SUFFICES ASSUME WalInv, [Next]_vars PROVE [Promise!LogNext]_(Promise!logVars)
  OBVIOUS
<1>1. CASE UNCHANGED vars
  BY <1>1 DEF vars, Promise!logVars, SyncedCount
<1>2. ASSUME NEW r \in Record, AppendRecord(r) PROVE Promise!LogNext
  BY <1>2, RefinesAppend, SameNames DEF Promise!LogNext
<1>3. ASSUME NEW config \in Auctions, Open(config) PROVE Promise!LogNext
  BY <1>3, RefinesOpen DEF Promise!LogNext
<1>4. CASE ManifestInterrupted
  <2>1. files' = files /\ buffer' = buffer /\ wal' = wal
    BY <1>4 DEF ManifestInterrupted
  <2> QED BY <2>1 DEF Promise!logVars, SyncedCount
<1>5. CASE Sync
  BY <1>5, RefinesSync DEF Promise!LogNext
<1>6. CASE Die \/ PowerLoss
  BY <1>6, RefinesLoss DEF Promise!LogNext
<1> QED BY <1>1, <1>2, <1>3, <1>4, <1>5, <1>6 DEF Next

(***************************************************************************)
(* The segmented log is one append-only log (wal.rs): rotation, torn       *)
(* tails, truncation and reopening are appends, syncs, losses of an        *)
(* unsynced tail and openings of DurableLog, on which Engine is built.     *)
(***************************************************************************)
THEOREM WalImplementsDurableLog == Spec => ImplementsDurableLog
BY RefinesInit, RefinesNext, WalInvariant, PTL
   DEF Spec, ImplementsDurableLog, Promise!LogSpec

(* The synced part of the log is no longer than the log. *)
LEMMA SyncedBounded ==
  ASSUME WalInv
  PROVE  Synced(files) \in Nat /\ Len(Log) \in Nat /\ Synced(files) <= Len(Log)
<1>1. Records(files) \in Seq(Record) /\ buffer \in Seq(Record) /\ Log \in Seq(Record)
  BY LogType
<1>2. Len(Log) = Len(Records(files)) + Len(buffer)
  BY <1>1, ConcatProperties DEF Log
<1>3. CASE files = <<>>
  BY <1>1, <1>3, SyncedEmpty
<1>4. CASE files # <<>>
  <2>1. PICK F \in Seq(File), a \in File :
           /\ files = Append(F, a) /\ AllSealed(F) /\ a.safe <= Len(a.recs)
           /\ Records(F) \in Seq(Record) /\ a.recs \in Seq(Record)
           /\ Records(files) = Records(F) \o a.recs
           /\ Synced(files) = Len(Records(F)) + a.safe
    BY <1>4, Active
  <2>2. Len(Records(files)) = Len(Records(F)) + Len(a.recs)
    BY <2>1, ConcatProperties
  <2>3. /\ Len(Records(F)) \in Nat /\ Len(a.recs) \in Nat /\ a.safe \in Nat
        /\ Len(buffer) \in Nat /\ Len(Log) \in Nat
    BY <1>1, <2>1 DEF File
  <2> QED BY <1>2, <2>1, <2>2, <2>3
<1> QED BY <1>3, <1>4

LEMMA StepKeepsSynced ==
  ASSUME WalInv, [Next]_vars
  PROVE  /\ Synced(files) <= Synced(files') /\ Synced(files) <= Len(Log')
         /\ \A i \in 1..Synced(files) : Log'[i] = Log[i]
<1>1. Synced(files) \in Nat /\ Len(Log) \in Nat /\ Synced(files) <= Len(Log) /\ Log \in Seq(Record)
  BY SyncedBounded, LogType
<1>2. CASE Log' = Log /\ Synced(files') \in {Synced(files), Len(Log)}
  BY <1>1, <1>2
<1>3. ASSUME NEW r \in Record, AppendRecord(r)
      PROVE  /\ Synced(files) <= Synced(files') /\ Synced(files) <= Len(Log')
             /\ \A i \in 1..Synced(files) : Log'[i] = Log[i]
  <2>1. Log' = Append(Log, r) /\ Synced(files') \in {Synced(files), Len(Log)}
    BY <1>3, AppendEffect
  <2>2. Len(Append(Log, r)) = Len(Log) + 1 /\ \A i \in 1..Len(Log) : Append(Log, r)[i] = Log[i]
    BY <1>1, AppendProperties
  <2>3. \A i \in 1..Synced(files) : i \in 1..Len(Log)
    BY <1>1
  <2> QED BY <1>1, <2>1, <2>2, <2>3
<1>4. CASE Die \/ PowerLoss
  <2>1. PICK n \in Synced(files)..Len(Log) : Log' = SubSeq(Log, 1, n) /\ Synced(files') = Synced(files)
    BY <1>4, DieEffect, PowerLossEffect
  <2>2. Len(SubSeq(Log, 1, n)) = n /\ \A i \in 1..n : SubSeq(Log, 1, n)[i] = Log[i]
    BY <1>1
  <2>3. \A i \in 1..Synced(files) : i \in 1..n
    BY <1>1
  <2> QED BY <1>1, <2>1, <2>2, <2>3
<1>5. CASE UNCHANGED vars
  <2>1. Log' = Log /\ files' = files
    BY <1>5 DEF vars, Log
  <2> QED BY <1>2, <2>1
<1>6. CASE \E config \in Auctions : Open(config)
  BY <1>2, <1>6, OpenEffect
<1>7. CASE ManifestInterrupted
  BY <1>2, <1>7, InterruptedKeeps
<1>8. CASE Sync
  BY <1>2, <1>8, SyncEffect
<1> QED BY <1>3, <1>4, <1>5, <1>6, <1>7, <1>8 DEF Next

(***************************************************************************)
(* What an fsync has covered is there for ever (wal.rs:166-181, I6): no    *)
(* append, rotation, death, power failure or reopening of the segmented    *)
(* log removes or replaces a record of its synced prefix, and the prefix   *)
(* never shrinks.                                                          *)
(***************************************************************************)
THEOREM WalSyncedStays == Spec => Promise!SyncedStays
<1> DEFINE Stays == /\ SyncedCount <= SyncedCount' /\ SyncedCount <= Len((Records(files) \o buffer)')
                    /\ \A i \in 1..SyncedCount : (Records(files) \o buffer)'[i] = (Records(files) \o buffer)[i]
<1>1. WalInv /\ [Next]_vars => [Stays]_(Promise!logVars)
  BY StepKeepsSynced DEF Synced, SyncedCount, Log
<1>2. [][Stays]_(Promise!logVars) => Promise!SyncedStays
  BY PTL DEF Promise!SyncedStays
<1> HIDE DEF Stays
<1> QED BY <1>1, <1>2, WalInvariant, PTL DEF Spec
=============================================================================
