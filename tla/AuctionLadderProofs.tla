------------------------- MODULE AuctionLadderProofs -------------------------
(***************************************************************************)
(* Theorems about the auction composed with the ladder it keeps its        *)
(* resting bids in, for every set of keys and participants, every          *)
(* schedule and every batch window.                                        *)
(***************************************************************************)
EXTENDS AuctionLadder, AuctionProofs, SequenceTheorems

-----------------------------------------------------------------------------
(***************************************************************************)
(* The inductive invariant: the ladder stores a map of resting bids when   *)
(* its levels are the limits bids rest at, and the queue of each level     *)
(* holds the bids of that limit, in order of arrival.                      *)
(***************************************************************************)
LadderBid == [key : Keys, seq : Nat, participant : Participants, qty : Nat, limit : Int]
BidMap == [Keys -> RestingBid \cup {None}]

Listed(q, p, bids) ==
  \A i \in 1..Len(q) :
    q[i].limit = p /\ bids[q[i].key] # None /\ q[i] = Bid(q[i].key, bids[q[i].key])

Complete(q, p, bids) ==
  \A k \in Keys : bids[k] # None /\ bids[k].limit = p => \E i \in 1..Len(q) : q[i].key = k

InOrder(q) == \A i, j \in 1..Len(q) : i < j => q[i].seq < q[j].seq

Queue(q, p, bids) ==
  q \in Seq(LadderBid) /\ Listed(q, p, bids) /\ Complete(q, p, bids) /\ InOrder(q)

Stores(levels, bids) ==
  /\ levels = [p \in DOMAIN levels |-> levels[p]]
  /\ DOMAIN levels = {bids[k].limit : k \in Present(bids)}
  /\ \A p \in DOMAIN levels : Queue(levels[p], p, bids)

-----------------------------------------------------------------------------
(* One queue. *)

LEMMA BidIsListed ==
  ASSUME NEW k \in Keys, NEW b \in RestingBid
  PROVE  /\ Bid(k, b) \in LadderBid
         /\ Bid(k, b).key = k /\ Bid(k, b).seq = b.seq /\ Bid(k, b).limit = b.limit
         /\ Bid(k, b).participant = b.participant /\ Bid(k, b).qty = b.qty
BY DEF Bid, LadderBid, RestingBid

LEMMA QueuedBid ==
  ASSUME NEW q \in Seq(LadderBid), NEW i \in 1..Len(q)
  PROVE  /\ q[i] \in LadderBid /\ q[i].key \in Keys /\ q[i].seq \in Nat
         /\ q[i].qty \in Nat /\ q[i].limit \in Int /\ q[i].participant \in Participants
<1>1. q[i] \in LadderBid
  OBVIOUS
<1> QED BY <1>1 DEF LadderBid

(* A limit nobody rests at has an empty queue. *)
LEMMA QueueEmpty ==
  ASSUME NEW bids, NEW p, \A k \in Keys : bids[k] # None => bids[k].limit # p
  PROVE  Queue(<<>>, p, bids)
<1>1. <<>> \in Seq(LadderBid) /\ Len(<<>>) = 0
  OBVIOUS
<1> QED BY <1>1 DEF Queue, Listed, Complete, InOrder

(* A queue depends only on the bids at its limit. *)
LEMMA QueueSame ==
  ASSUME NEW q, NEW p, NEW bids, NEW other, Queue(q, p, bids),
         \A k \in Keys : bids[k] # None /\ bids[k].limit = p => other[k] = bids[k],
         \A k \in Keys : other[k] # None /\ other[k].limit = p => other[k] = bids[k]
  PROVE  Queue(q, p, other)
<1>1. q \in Seq(LadderBid) /\ Listed(q, p, bids) /\ Complete(q, p, bids) /\ InOrder(q)
  BY DEF Queue
<1>2. \A i \in 1..Len(q) : q[i] \in LadderBid /\ q[i].key \in Keys
  BY <1>1, QueuedBid
<1>3. Listed(q, p, other)
  <2> SUFFICES ASSUME NEW i \in 1..Len(q)
               PROVE  /\ q[i].limit = p /\ other[q[i].key] # None
                      /\ q[i] = Bid(q[i].key, other[q[i].key])
    BY DEF Listed
  <2>1. /\ q[i].limit = p /\ bids[q[i].key] # None
        /\ q[i] = Bid(q[i].key, bids[q[i].key])
    BY <1>1 DEF Listed
  <2>2. bids[q[i].key].limit = p
    BY <2>1 DEF Bid
  <2> QED BY <1>2, <2>1, <2>2
<1>4. Complete(q, p, other)
  BY <1>1 DEF Complete
<1> QED BY <1>1, <1>3, <1>4 DEF Queue

(* A new bid arrives after every other one of its limit. *)
LEMMA QueueAppend ==
  ASSUME NEW q, NEW p, NEW bids \in BidMap, Queue(q, p, bids), NEW k \in Keys, bids[k] = None,
         NEW b \in RestingBid, b.limit = p,
         \A j \in Keys : bids[j] # None => bids[j].seq < b.seq
  PROVE  Queue(Append(q, Bid(k, b)), p, [bids EXCEPT ![k] = b])
<1> DEFINE new == Bid(k, b)
           r == Append(q, new)
           other == [bids EXCEPT ![k] = b]
<1>1. q \in Seq(LadderBid) /\ Listed(q, p, bids) /\ Complete(q, p, bids) /\ InOrder(q)
  BY DEF Queue
<1>2. \A i \in 1..Len(q) : q[i] \in LadderBid /\ q[i].key \in Keys
  BY <1>1, QueuedBid
<1>3. /\ new \in LadderBid /\ new.key = k /\ new.seq = b.seq /\ new.limit = p
      /\ b # None
  BY BidIsListed, NoneAssumption
<1>4. /\ other[k] = b /\ \A j \in Keys : j # k => other[j] = bids[j]
  BY DEF BidMap
<1>5. /\ r \in Seq(LadderBid) /\ Len(r) = Len(q) + 1 /\ Len(q) \in Nat
      /\ r[Len(q) + 1] = new /\ \A i \in 1..Len(q) : r[i] = q[i]
  <2> HIDE DEF new
  <2> QED BY <1>1, <1>3
<1>6. \A i \in 1..Len(q) : /\ q[i].limit = p /\ q[i].key # k
                           /\ bids[q[i].key] # None
                           /\ q[i] = Bid(q[i].key, bids[q[i].key])
                           /\ q[i].seq < b.seq
  <2> TAKE i \in 1..Len(q)
  <2>1. /\ q[i].limit = p /\ bids[q[i].key] # None
        /\ q[i] = Bid(q[i].key, bids[q[i].key])
    BY <1>1 DEF Listed
  <2>2. q[i].seq = bids[q[i].key].seq
    BY <2>1 DEF Bid
  <2> QED BY <1>2, <2>1, <2>2
<1> DEFINE n == Len(q)
<1>7. new = Bid(k, b)
  OBVIOUS
<1> HIDE DEF new, r, other, n
<1>8. \A i \in 1..Len(r) : i \in 1..n \/ i = n + 1
  BY <1>5 DEF n
<1>9. Listed(r, p, other)
  <2> SUFFICES ASSUME NEW i \in 1..Len(r)
               PROVE  /\ r[i].limit = p /\ other[r[i].key] # None
                      /\ r[i] = Bid(r[i].key, other[r[i].key])
    BY DEF Listed
  <2>1. CASE i \in 1..n
    BY <1>2, <1>4, <1>5, <1>6, <2>1 DEF n
  <2>2. CASE i = n + 1
    BY <1>3, <1>4, <1>5, <1>7, <2>2 DEF n
  <2> QED BY <1>8, <2>1, <2>2
<1>10. Complete(r, p, other)
  <2> SUFFICES ASSUME NEW j \in Keys, other[j] # None, other[j].limit = p
               PROVE  \E i \in 1..Len(r) : r[i].key = j
    BY DEF Complete
  <2>1. CASE j = k
    <3>1. n + 1 \in 1..Len(r) /\ r[n + 1].key = j
      BY <1>3, <1>5, <2>1 DEF n
    <3> QED BY <3>1
  <2>2. CASE j # k
    <3>1. PICK i \in 1..n : q[i].key = j
      BY <1>1, <1>4, <2>2 DEF Complete, n
    <3>2. i \in 1..Len(r) /\ r[i].key = j
      BY <1>5, <3>1 DEF n
    <3> QED BY <3>2
  <2> QED BY <2>1, <2>2
<1>11. InOrder(r)
  <2> SUFFICES ASSUME NEW i \in 1..Len(r), NEW j \in 1..Len(r), i < j
               PROVE  r[i].seq < r[j].seq
    BY DEF InOrder
  <2>1. i \in 1..n
    BY <1>5 DEF n
  <2>2. CASE j \in 1..n
    BY <1>1, <1>5, <2>1, <2>2 DEF InOrder, n
  <2>3. CASE j = n + 1
    BY <1>3, <1>5, <1>6, <2>1, <2>3 DEF n
  <2> QED BY <1>8, <2>2, <2>3
<1> QED BY <1>5, <1>9, <1>10, <1>11 DEF Queue, r, other, new

(* Taking out one bid leaves the others where they were. *)
LEMMA QueueRemove ==
  ASSUME NEW q, NEW p, NEW bids \in BidMap, Queue(q, p, bids), NEW x \in 1..Len(q)
  PROVE  Queue(L!Lists!RemoveAt(q, x), p, [bids EXCEPT ![q[x].key] = None])
<1> DEFINE r == L!Lists!RemoveAt(q, x)
           key == q[x].key
           other == [bids EXCEPT ![key] = None]
           n == Len(q)
           from(i) == IF i < x THEN i ELSE i + 1
<1>1. q \in Seq(LadderBid) /\ Listed(q, p, bids) /\ Complete(q, p, bids) /\ InOrder(q)
  BY DEF Queue
<1>2. \A i \in 1..n : q[i] \in LadderBid /\ q[i].key \in Keys /\ q[i].seq \in Nat
  BY <1>1, QueuedBid
<1>3. n \in Nat /\ x \in 1..n /\ n - 1 \in Nat
  BY <1>1
<1>4. /\ r \in Seq(LadderBid) /\ Len(r) = n - 1
      /\ \A i \in 1..(n - 1) : from(i) \in 1..n /\ from(i) # x /\ r[i] = q[from(i)]
  <2> DEFINE a == SubSeq(q, 1, x - 1)
             b == SubSeq(q, x + 1, n)
  <2>1. /\ a \in Seq(LadderBid) /\ Len(a) = x - 1
        /\ \A i \in 1..(x - 1) : a[i] = q[i]
    BY <1>1, <1>3
  <2>2. /\ b \in Seq(LadderBid) /\ Len(b) = n - x
        /\ \A i \in 1..(n - x) : b[i] = q[x + i]
    BY <1>1, <1>3
  <2>3. r = a \o b
    BY DEF L!Lists!RemoveAt
  <2> HIDE DEF a, b, r, n
  <2>4. r \in Seq(LadderBid) /\ Len(r) = n - 1
    <3>1. r \in Seq(LadderBid) /\ Len(r) = Len(a) + Len(b)
      BY <2>1, <2>2, <2>3, ConcatProperties
    <3>2. Len(a) = x - 1 /\ Len(b) = n - x
      BY <2>1, <2>2
    <3> QED BY <1>3, <3>1, <3>2
  <2>5. ASSUME NEW i \in 1..(n - 1)
        PROVE  from(i) \in 1..n /\ from(i) # x /\ r[i] = q[from(i)]
    <3>1. CASE i < x
      BY <1>3, <2>1, <2>2, <2>3, <3>1
    <3>2. CASE ~(i < x)
      <4>1. i - (x - 1) \in 1..(n - x) /\ x + (i - (x - 1)) = i + 1
        BY <1>3, <3>2
      <4>2. r[i] = b[i - (x - 1)]
        BY <1>3, <2>1, <2>2, <2>3, <3>2
      <4> QED BY <1>3, <2>2, <3>2, <4>1, <4>2
    <3> QED BY <3>1, <3>2
  <2> QED BY <2>4, <2>5
<1>5. other[key] = None /\ \A j \in Keys : j # key => other[j] = bids[j]
  BY <1>2, <1>3 DEF BidMap
<1>6. \A i \in 1..n : q[i].key = key => i = x
  <2> SUFFICES ASSUME NEW i \in 1..n, q[i].key = key PROVE i = x
    OBVIOUS
  <2>1. q[i] = q[x]
    BY <1>1 DEF Listed
  <2>2. ~(i < x) /\ ~(x < i)
    BY <1>1, <1>2, <2>1 DEF InOrder
  <2> QED BY <1>3, <2>2
<1> HIDE DEF r, other, n
<1>7. Listed(r, p, other)
  <2> SUFFICES ASSUME NEW i \in 1..(n - 1)
               PROVE  /\ r[i].limit = p /\ other[r[i].key] # None
                      /\ r[i] = Bid(r[i].key, other[r[i].key])
    BY <1>4 DEF Listed
  <2> DEFINE j == from(i)
  <2>1. j \in 1..n /\ j # x /\ r[i] = q[j]
    BY <1>4
  <2> HIDE DEF j
  <2>2. /\ q[j].limit = p /\ bids[q[j].key] # None
        /\ q[j] = Bid(q[j].key, bids[q[j].key])
    BY <1>1, <2>1 DEF Listed, n
  <2>3. q[j].key \in Keys /\ q[j].key # key
    BY <1>2, <1>6, <2>1
  <2> HIDE DEF key
  <2> QED BY <1>5, <2>1, <2>2, <2>3
<1>8. Complete(r, p, other)
  <2> SUFFICES ASSUME NEW k \in Keys, other[k] # None, other[k].limit = p
               PROVE  \E i \in 1..Len(r) : r[i].key = k
    BY DEF Complete
  <2>1. k # key /\ other[k] = bids[k]
    BY <1>5
  <2>2. PICK j \in 1..n : q[j].key = k
    BY <1>1, <2>1 DEF Complete, n
  <2>3. j # x
    BY <2>1, <2>2
  <2> DEFINE i == IF j < x THEN j ELSE j - 1
  <2>4. i \in 1..(n - 1) /\ from(i) = j
    BY <1>3, <2>3
  <2> HIDE DEF i
  <2> QED BY <1>4, <2>2, <2>4
<1>9. InOrder(r)
  <2> SUFFICES ASSUME NEW i \in 1..(n - 1), NEW j \in 1..(n - 1), i < j
               PROVE  r[i].seq < r[j].seq
    BY <1>4 DEF InOrder
  <2>1. from(i) < from(j) /\ from(i) \in 1..n /\ from(j) \in 1..n
    BY <1>3, <1>4
  <2>2. r[i] = q[from(i)] /\ r[j] = q[from(j)]
    BY <1>4
  <2> QED BY <1>1, <2>1, <2>2 DEF InOrder, n
<1> QED BY <1>4, <1>7, <1>8, <1>9 DEF Queue, r, other

-----------------------------------------------------------------------------
(* The ladder's operations. *)

LEMMA NewLadderStores == Stores(L!Empty.levels, Nothing) /\ L!Empty.total_qty = 0
<1>1. L!Empty.levels = <<>> /\ L!Empty.total_qty = 0
  BY DEF L!Empty
<1>2. DOMAIN <<>> = {} /\ <<>> = [p \in DOMAIN <<>> |-> <<>>[p]]
  OBVIOUS
<1>3. Present(Nothing) = {}
  BY DEF Present, Nothing
<1> QED BY <1>1, <1>2, <1>3 DEF Stores

LEMMA InsertStores ==
  ASSUME NEW l, NEW bids \in BidMap, Stores(l.levels, bids), NEW k \in Keys, bids[k] = None,
         NEW b \in RestingBid, \A j \in Keys : bids[j] # None => bids[j].seq < b.seq
  PROVE  Stores(L!Insert(l, Bid(k, b)).levels, [bids EXCEPT ![k] = b])
<1> DEFINE levels == l.levels
           new == Bid(k, b)
           other == [bids EXCEPT ![k] = b]
           old == L!Level(l, b.limit)
           queue == Append(old, new)
           left == L!With(levels, b.limit, queue)
<1>1. new.limit = b.limit
  BY BidIsListed
<1>2. L!Insert(l, new).levels = left
  BY <1>1 DEF L!Insert
<1>3. /\ other[k] = b /\ b # None
      /\ \A j \in Keys : j # k => other[j] = bids[j]
  BY NoneAssumption DEF BidMap
<1>4. Queue(old, b.limit, bids)
  <2>1. CASE b.limit \in DOMAIN levels
    BY <2>1 DEF L!Level, Stores
  <2>2. CASE b.limit \notin DOMAIN levels
    <3>1. old = <<>>
      BY <2>2 DEF L!Level
    <3>2. \A j \in Keys : bids[j] # None => bids[j].limit # b.limit
      BY <2>2 DEF Stores, Present
    <3> QED BY <3>1, <3>2, QueueEmpty
  <2> QED BY <2>1, <2>2
<1>5. Queue(queue, b.limit, other)
  <2> HIDE DEF old
  <2> QED BY <1>4, QueueAppend
<1>6. /\ left = [p \in DOMAIN left |-> left[p]]
      /\ DOMAIN left = DOMAIN levels \cup {b.limit}
      /\ left[b.limit] = queue
      /\ \A p \in DOMAIN levels : p # b.limit => left[p] = levels[p]
  <2> HIDE DEF queue
  <2> QED BY DEF L!With
<1> HIDE DEF left, other, levels
<1>7. DOMAIN left = {other[j].limit : j \in Present(other)}
  <2>1. DOMAIN levels = {bids[j].limit : j \in Present(bids)}
    BY DEF Stores, levels
  <2> QED BY <1>3, <1>6, <2>1 DEF Present
<1>8. ASSUME NEW p \in DOMAIN left PROVE Queue(left[p], p, other)
  <2>1. CASE p = b.limit
    BY <1>5, <1>6, <2>1
  <2>2. CASE p # b.limit
    <3>1. p \in DOMAIN levels /\ left[p] = levels[p]
      BY <1>6, <2>2
    <3>2. Queue(levels[p], p, bids)
      BY <3>1 DEF Stores, levels
    <3>3. \A j \in Keys : /\ bids[j] # None /\ bids[j].limit = p => other[j] = bids[j]
                          /\ other[j] # None /\ other[j].limit = p => other[j] = bids[j]
      BY <1>3, <2>2
    <3> QED BY <3>1, <3>2, <3>3, QueueSame
  <2> QED BY <2>1, <2>2
<1> QED BY <1>2, <1>6, <1>7, <1>8 DEF Stores, other

(* The bids whose limit is one of S. *)
Within(bids, S) ==
  [k \in Keys |-> IF bids[k] = None THEN None
                  ELSE IF bids[k].limit \in S THEN bids[k] ELSE None]

LEMMA OnlyStores ==
  ASSUME NEW levels, NEW bids \in BidMap, Stores(levels, bids), NEW S, S \subseteq DOMAIN levels
  PROVE  Stores(L!Only(levels, S), Within(bids, S)) /\ Within(bids, S) \in BidMap
<1> DEFINE left == L!Only(levels, S)
           other == Within(bids, S)
<1>1. /\ left = [p \in DOMAIN left |-> left[p]] /\ DOMAIN left = S
      /\ \A p \in S : left[p] = levels[p]
  BY DEF L!Only
<1>2. \A k \in Keys : other[k] = IF bids[k] = None THEN None
                                 ELSE IF bids[k].limit \in S THEN bids[k] ELSE None
  BY DEF Within
<1>3. other \in BidMap
  BY DEF Within, BidMap
<1> HIDE DEF left, other
<1>4. DOMAIN left = {other[k].limit : k \in Present(other)}
  <2>1. DOMAIN levels = {bids[k].limit : k \in Present(bids)}
    BY DEF Stores
  <2> QED BY <1>1, <1>2, <2>1 DEF Present
<1>5. ASSUME NEW p \in DOMAIN left PROVE Queue(left[p], p, other)
  <2>1. Queue(levels[p], p, bids) /\ left[p] = levels[p] /\ p \in S
    BY <1>1 DEF Stores
  <2>2. \A k \in Keys : /\ bids[k] # None /\ bids[k].limit = p => other[k] = bids[k]
                        /\ other[k] # None /\ other[k].limit = p => other[k] = bids[k]
    BY <1>2, <2>1
  <2> QED BY <2>1, <2>2, QueueSame
<1> QED BY <1>1, <1>3, <1>4, <1>5 DEF Stores, left, other

(* The places of a ladder, and the bids at them. *)
LEMMA PlacesOf ==
  ASSUME NEW levels, NEW bids \in BidMap, Stores(levels, bids)
  PROVE  /\ \A x \in L!Places(levels) :
              /\ x = <<x[1], x[2]>> /\ x[1] \in DOMAIN levels /\ x[2] \in 1..Len(levels[x[1]])
              /\ L!At(levels, x) = levels[x[1]][x[2]]
         /\ \A p \in DOMAIN levels : \A i \in 1..Len(levels[p]) :
              <<p, i>> \in L!Places(levels) /\ L!At(levels, <<p, i>>) = levels[p][i]
<1>1. \A p \in DOMAIN levels : DOMAIN levels[p] = 1..Len(levels[p])
  BY DEF Stores, Queue
<1>2. L!Places(levels) = UNION {{p} \X DOMAIN levels[p] : p \in DOMAIN levels}
  BY DEF L!Places
<1>3. ASSUME NEW x \in L!Places(levels)
      PROVE  x = <<x[1], x[2]>> /\ x[1] \in DOMAIN levels /\ x[2] \in 1..Len(levels[x[1]])
  <2>1. PICK p \in DOMAIN levels : x \in {p} \X DOMAIN levels[p]
    BY <1>2
  <2>2. x = <<x[1], x[2]>> /\ x[1] = p /\ x[2] \in DOMAIN levels[p]
    BY <2>1
  <2> QED BY <1>1, <2>2
<1>4. ASSUME NEW p \in DOMAIN levels, NEW i \in 1..Len(levels[p])
      PROVE  <<p, i>> \in L!Places(levels)
  <2>1. <<p, i>> \in {p} \X DOMAIN levels[p]
    BY <1>1
  <2> QED BY <1>2, <2>1
<1> QED BY <1>3, <1>4 DEF L!At

(* A place tells the bid at it, and a bid its place. *)
LEMMA PlaceOfBid ==
  ASSUME NEW levels, NEW bids \in BidMap, Stores(levels, bids)
  PROVE  /\ \A x \in L!Places(levels) :
              LET b == L!At(levels, x)
              IN  /\ b.key \in Keys /\ bids[b.key] # None /\ b = Bid(b.key, bids[b.key])
                  /\ b.limit = x[1]
         /\ \A k \in Keys : bids[k] # None =>
              \E x \in L!Places(levels) : L!At(levels, x) = Bid(k, bids[k])
         /\ \A x, y \in L!Places(levels) :
              L!At(levels, x).key = L!At(levels, y).key => x = y
<1> DEFINE at(x) == L!At(levels, x)
           P == L!Places(levels)
<1>1. ASSUME NEW x \in P
      PROVE  /\ x = <<x[1], x[2]>> /\ x[1] \in DOMAIN levels /\ x[2] \in 1..Len(levels[x[1]])
             /\ at(x) = levels[x[1]][x[2]]
             /\ Queue(levels[x[1]], x[1], bids)
  BY <1>1, PlacesOf DEF Stores
<1>2. ASSUME NEW x \in P
      PROVE  /\ at(x).key \in Keys /\ bids[at(x).key] # None
             /\ at(x) = Bid(at(x).key, bids[at(x).key]) /\ at(x).limit = x[1]
             /\ at(x).seq \in Nat
  <2> DEFINE q == levels[x[1]]
             i == x[2]
  <2>1. i \in 1..Len(q) /\ at(x) = q[i] /\ Queue(q, x[1], bids)
    BY <1>1
  <2> HIDE DEF q, i, at
  <2>2. q \in Seq(LadderBid) /\ Listed(q, x[1], bids)
    BY <2>1 DEF Queue
  <2>3. q[i].key \in Keys /\ q[i].seq \in Nat
    BY <2>1, <2>2, QueuedBid
  <2>4. q[i].limit = x[1] /\ bids[q[i].key] # None /\ q[i] = Bid(q[i].key, bids[q[i].key])
    BY <2>1, <2>2 DEF Listed
  <2> QED BY <2>1, <2>3, <2>4
<1>3. ASSUME NEW k \in Keys, bids[k] # None
      PROVE  \E x \in P : at(x) = Bid(k, bids[k])
  <2> DEFINE p == bids[k].limit
  <2>1. p \in DOMAIN levels /\ Queue(levels[p], p, bids)
    BY <1>3 DEF Stores, Present
  <2>2. PICK i \in 1..Len(levels[p]) : levels[p][i].key = k
    BY <1>3, <2>1 DEF Queue, Complete
  <2>3. <<p, i>> \in P /\ at(<<p, i>>) = levels[p][i]
    BY <2>1, PlacesOf
  <2>4. at(<<p, i>>) = Bid(k, bids[k])
    BY <1>2, <2>2, <2>3
  <2> QED BY <2>3, <2>4
<1>4. ASSUME NEW x \in P, NEW y \in P, at(x).key = at(y).key
      PROVE  x = y
  <2>1. at(x) = at(y) /\ x[1] = y[1]
    BY <1>2, <1>4
  <2> DEFINE q == levels[x[1]]
             i == x[2]
             j == y[2]
  <2>2. /\ x = <<x[1], i>> /\ y = <<x[1], j>>
        /\ i \in 1..Len(q) /\ j \in 1..Len(q) /\ q[i] = q[j] /\ Queue(q, x[1], bids)
    BY <1>1, <2>1
  <2> HIDE DEF q, i, j
  <2>3. q[i].seq \in Nat /\ InOrder(q)
    BY <2>2, QueuedBid DEF Queue
  <2>4. ~(i < j) /\ ~(j < i)
    BY <2>2, <2>3 DEF InOrder
  <2>5. i = j
    BY <2>2, <2>4
  <2> QED BY <2>2, <2>5
<1> QED BY <1>2, <1>3, <1>4

(* Where remove() finds a bid. *)
LEMMA FoundPlace ==
  ASSUME NEW l, NEW bids \in BidMap, Stores(l.levels, bids), NEW p, NEW k \in Keys
  PROVE  /\ bids[k] # None /\ bids[k].participant = p =>
              /\ L!Found(l, p, k) # {}
              /\ L!FirstFound(l, p, k) \in L!Places(l.levels)
              /\ L!At(l.levels, L!FirstFound(l, p, k)) = Bid(k, bids[k])
         /\ ~(bids[k] # None /\ bids[k].participant = p) => L!Found(l, p, k) = {}
<1> DEFINE levels == l.levels
           P == L!Places(levels)
           at(x) == L!At(levels, x)
           F == L!Found(l, p, k)
<1>1. F = {x \in P : at(x).key = k /\ at(x).participant = p}
  BY DEF L!Found
<1>2. /\ \A x \in P : /\ at(x).key \in Keys /\ bids[at(x).key] # None
                      /\ at(x) = Bid(at(x).key, bids[at(x).key])
      /\ bids[k] # None => \E x \in P : at(x) = Bid(k, bids[k])
      /\ \A x, y \in P : at(x).key = at(y).key => x = y
  BY PlaceOfBid
<1>3. \A j \in Keys : bids[j] # None =>
        Bid(j, bids[j]).key = j /\ Bid(j, bids[j]).participant = bids[j].participant
  BY DEF Bid
<1>4. \A x \in P : x \in F => /\ at(x) = Bid(k, bids[k]) /\ bids[k] # None
                             /\ bids[k].participant = p
  BY <1>1, <1>2, <1>3
<1>5. CASE bids[k] # None /\ bids[k].participant = p
  <2>1. PICK x \in P : at(x) = Bid(k, bids[k])
    BY <1>2, <1>5
  <2>2. x \in F
    BY <1>1, <1>3, <1>5, <2>1
  <2>3. \A y \in F : y = x
    <3> TAKE y \in F
    <3>1. y \in P /\ at(y).key = k /\ at(x).key = k
      BY <1>1, <2>2
    <3> QED BY <1>2, <3>1
  <2>4. x[2] \in Int
    BY PlacesOf
  <2>5. L!FirstFound(l, p, k) = CHOOSE y \in F : \A z \in F :
          y[1] < z[1] \/ (y[1] = z[1] /\ y[2] <= z[2])
    BY DEF L!FirstFound
  <2> HIDE DEF F
  <2>6. L!FirstFound(l, p, k) \in F
    <3>1. \A z \in F : x[1] < z[1] \/ (x[1] = z[1] /\ x[2] <= z[2])
      BY <2>3, <2>4
    <3> QED BY <2>2, <2>5, <3>1
  <2> QED BY <1>5, <2>1, <2>2, <2>3, <2>6 DEF F
<1>6. CASE ~(bids[k] # None /\ bids[k].participant = p)
  BY <1>1, <1>4, <1>6
<1> QED BY <1>5, <1>6

LEMMA QueueNonempty ==
  ASSUME NEW q, NEW p, NEW bids, Queue(q, p, bids)
  PROVE  q # <<>> <=> \E k \in Keys : bids[k] # None /\ bids[k].limit = p
<1>1. q \in Seq(LadderBid) /\ Listed(q, p, bids) /\ Complete(q, p, bids)
  BY DEF Queue
<1>2. ASSUME q # <<>> PROVE \E k \in Keys : bids[k] # None /\ bids[k].limit = p
  <2>1. 1 \in 1..Len(q)
    BY <1>1, <1>2
  <2>2. q[1].key \in Keys
    BY <1>1, <2>1, QueuedBid
  <2>3. q[1].limit = p /\ bids[q[1].key] # None /\ q[1] = Bid(q[1].key, bids[q[1].key])
    BY <1>1, <2>1 DEF Listed
  <2> QED BY <2>2, <2>3 DEF Bid
<1>3. ASSUME q = <<>>, NEW k \in Keys, bids[k] # None, bids[k].limit = p PROVE FALSE
  <2>1. PICK i \in 1..Len(q) : TRUE
    BY <1>1, <1>3 DEF Complete
  <2>2. Len(q) = 0
    BY <1>3
  <2> QED BY <2>1, <2>2
<1> QED BY <1>2, <1>3

LEMMA RemoveStores ==
  ASSUME NEW l, NEW bids \in BidMap, Stores(l.levels, bids), NEW p, NEW k \in Keys
  PROVE  /\ bids[k] # None /\ bids[k].participant = p =>
              /\ Stores(L!Remove(l, p, k).levels, [bids EXCEPT ![k] = None])
              /\ L!Remove(l, p, k).total_qty = L!LessUnits(l, bids[k].qty)
         /\ ~(bids[k] # None /\ bids[k].participant = p) => L!Remove(l, p, k) = l
<1>1. CASE ~(bids[k] # None /\ bids[k].participant = p)
  BY <1>1, FoundPlace DEF L!Remove
<1>2. CASE bids[k] # None /\ bids[k].participant = p
  <2> DEFINE levels == l.levels
             x == L!FirstFound(l, p, k)
             lim == x[1]
             left == L!TakeOut(levels, x)
             S == {r \in DOMAIN left : left[r] # <<>>}
             kept == L!Only(left, S)
             other == [bids EXCEPT ![k] = None]
  <2>1. /\ L!Found(l, p, k) # {} /\ x \in L!Places(levels)
        /\ L!At(levels, x) = Bid(k, bids[k])
    BY <1>2, FoundPlace
  <2>2. L!Remove(l, p, k) = [levels |-> kept, total_qty |-> L!LessUnits(l, bids[k].qty)]
    <3>1. Bid(k, bids[k]).qty = bids[k].qty
      BY DEF Bid
    <3> QED BY <2>1, <3>1 DEF L!Remove
  <2> HIDE DEF x, levels
  <2>3. /\ lim \in DOMAIN levels /\ x[2] \in 1..Len(levels[lim])
        /\ levels[lim][x[2]] = Bid(k, bids[k])
    BY <2>1, PlacesOf DEF levels
  <2>4. /\ levels[lim][x[2]].key = k /\ lim = bids[k].limit
    <3>1. L!At(levels, x).limit = lim
      BY <2>1, PlaceOfBid DEF levels
    <3> QED BY <2>1, <2>3, <3>1 DEF Bid
  <2>5. /\ levels = [r \in DOMAIN levels |-> levels[r]]
        /\ DOMAIN levels = {bids[j].limit : j \in Present(bids)}
        /\ \A r \in DOMAIN levels : Queue(levels[r], r, bids)
    BY DEF Stores, levels
  <2>6. /\ DOMAIN left = DOMAIN levels
        /\ left[lim] = L!Lists!RemoveAt(levels[lim], x[2])
        /\ \A r \in DOMAIN levels : r # lim => left[r] = levels[r]
    <3>1. left = [levels EXCEPT ![lim] = L!Lists!RemoveAt(levels[lim], x[2])]
      BY DEF L!TakeOut
    <3> HIDE DEF left
    <3> QED BY <2>3, <2>5, <3>1
  <2>7. other[k] = None /\ \A j \in Keys : j # k => other[j] = bids[j]
    BY DEF BidMap
  <2> HIDE DEF left, other, lim
  <2>8. ASSUME NEW r \in DOMAIN left PROVE Queue(left[r], r, other)
    <3>1. CASE r = lim
      <4>1. Queue(levels[lim], lim, bids)
        BY <2>3, <2>5
      <4>2. Queue(L!Lists!RemoveAt(levels[lim], x[2]), lim,
                  [bids EXCEPT ![levels[lim][x[2]].key] = None])
        BY <2>3, <4>1, QueueRemove
      <4> QED BY <2>4, <2>6, <3>1, <4>2 DEF other
    <3>2. CASE r # lim
      <4>1. Queue(levels[r], r, bids) /\ left[r] = levels[r]
        BY <2>5, <2>6, <3>2
      <4>2. \A j \in Keys : /\ bids[j] # None /\ bids[j].limit = r => other[j] = bids[j]
                            /\ other[j] # None /\ other[j].limit = r => other[j] = bids[j]
        BY <2>4, <2>7, <3>2
      <4> QED BY <4>1, <4>2, QueueSame
    <3> QED BY <3>1, <3>2
  <2>9. \A r \in DOMAIN left :
          left[r] # <<>> <=> \E j \in Keys : other[j] # None /\ other[j].limit = r
    BY <2>8, QueueNonempty
  <2>10. S = {other[j].limit : j \in Present(other)}
    <3>1. \A j \in Keys : other[j] # None => other[j].limit \in DOMAIN left
      BY <2>5, <2>6, <2>7 DEF Present
    <3> QED BY <2>9, <3>1 DEF Present
  <2>11. /\ kept = [r \in DOMAIN kept |-> kept[r]] /\ DOMAIN kept = S
         /\ \A r \in S : kept[r] = left[r]
    <3> HIDE DEF S
    <3> QED BY DEF L!Only
  <2>12. \A r \in DOMAIN kept : Queue(kept[r], r, other)
    BY <2>8, <2>11
  <2> HIDE DEF kept, S
  <2>13. Stores(kept, other)
    BY <2>10, <2>11, <2>12 DEF Stores
  <2> QED BY <1>2, <2>2, <2>13 DEF other
<1> QED BY <1>1, <1>2

-----------------------------------------------------------------------------
(* The running total. *)

LEMMA LadderSums == \A f, S : L!SumFunctionOnSet(f, S) = SumFunctionOnSet(f, S)
BY DEF L!SumFunctionOnSet, L!FoldFunctionOnSet, L!MapThenFoldSet,
       SumFunctionOnSet, FoldFunctionOnSet, MapThenFoldSet

(* A sum does not depend on what its terms are called. *)
LEMMA SumRenamed ==
  ASSUME NEW S, IsFiniteSet(S), NEW T, NEW m \in Bijection(S, T), NEW f, NEW g,
         \A y \in T : g[y] \in Int, \A x \in S : f[x] = g[m[x]]
  PROVE  SumFunctionOnSet(f, S) = SumFunctionOnSet(g, T)
<1> DEFINE image(U) == {m[x] : x \in U}
           G == {U \in SUBSET S : SumFunctionOnSet(f, U) = SumFunctionOnSet(g, image(U))}
<1>1. /\ \A x \in S : m[x] \in T /\ f[x] \in Int
      /\ \A x, y \in S : m[x] = m[y] => x = y
      /\ image(S) = T /\ IsFiniteSet(T)
  <2>1. /\ m \in [S -> T] /\ \A x, y \in S : m[x] = m[y] => x = y
        /\ \A y \in T : \E x \in S : m[x] = y
    BY DEF Bijection, Injection, Surjection, IsInjective
  <2>2. IsFiniteSet(T)
    BY FS_Bijection DEF ExistsBijection
  <2> QED BY <2>1, <2>2
<1>2. {} \in G
  <2>1. image({}) = {}
    OBVIOUS
  <2> QED BY <2>1, SumEmpty
<1>3. ASSUME NEW U \in SUBSET S, NEW x \in S \ U, U \in G PROVE U \cup {x} \in G
  <2> DEFINE V == image(U)
  <2>1. /\ image(U \cup {x}) = V \cup {m[x]} /\ m[x] \notin V /\ V \subseteq T /\ m[x] \in T
    BY <1>1
  <2>2. IsFiniteSet(U) /\ IsFiniteSet(V)
    BY <1>1, <2>1, FS_Subset
  <2>3. \A y \in U \cup {x} : f[y] \in Int
    BY <1>1
  <2>4. SumFunctionOnSet(f, U \cup {x}) = f[x] + SumFunctionOnSet(f, U)
    BY <2>2, <2>3, SumInsert
  <2> HIDE DEF V
  <2>5. \A y \in V \cup {m[x]} : g[y] \in Int
    BY <2>1
  <2>6. SumFunctionOnSet(g, V \cup {m[x]}) = g[m[x]] + SumFunctionOnSet(g, V)
    BY <2>1, <2>2, <2>5, SumInsert
  <2>7. SumFunctionOnSet(f, U) = SumFunctionOnSet(g, V)
    BY <1>3 DEF V
  <2>8. f[x] = g[m[x]]
    OBVIOUS
  <2> QED BY <2>1, <2>4, <2>6, <2>7, <2>8
<1>4. S \in G
  <2> HIDE DEF G
  <2> QED BY <1>2, <1>3, SubsetInduction
<1> QED BY <1>1, <1>4

(* The ladder has one place for every bid that rests. *)
LEMMA PlacesCounted ==
  ASSUME NEW levels, NEW bids \in BidMap, Stores(levels, bids)
  PROVE  /\ Cardinality(L!Places(levels)) = Cardinality(Present(bids))
         /\ L!Units(levels) = UnitsOf(bids)
         /\ {L!At(levels, x) : x \in L!Places(levels)}
              = {Bid(k, bids[k]) : k \in Present(bids)}
<1> DEFINE P == L!Places(levels)
           at(x) == L!At(levels, x)
           K == Present(bids)
           m == [x \in P |-> at(x).key]
           f == [x \in P |-> at(x).qty]
           g == [k \in Keys |-> IF bids[k] = None THEN 0 ELSE bids[k].qty]
<1>1. /\ \A x \in P : /\ at(x).key \in Keys /\ bids[at(x).key] # None
                      /\ at(x) = Bid(at(x).key, bids[at(x).key])
      /\ \A k \in Keys : bids[k] # None => \E x \in P : at(x) = Bid(k, bids[k])
      /\ \A x, y \in P : at(x).key = at(y).key => x = y
  BY PlaceOfBid
<1>2. \A k \in K : /\ k \in Keys /\ bids[k] # None
                   /\ Bid(k, bids[k]).key = k /\ Bid(k, bids[k]).qty = bids[k].qty
                   /\ bids[k].qty \in Nat
  <2> TAKE k \in K
  <2>1. k \in Keys /\ bids[k] # None
    BY DEF Present
  <2>2. bids[k] \in RestingBid
    BY <2>1 DEF BidMap
  <2> QED BY <2>1, <2>2, BidIsListed DEF RestingBid
<1>3. \A k \in Keys : bids[k] # None => k \in K
  BY DEF Present
<1> HIDE DEF K, at, P
<1>4. m \in [P -> K] /\ \A x \in P : m[x] = at(x).key
  BY <1>1, <1>3
<1>5. \A x, y \in P : m[x] = m[y] => x = y
  BY <1>1, <1>4
<1>6. \A k \in K : \E x \in P : m[x] = k
  BY <1>1, <1>2, <1>4
<1>7. m \in Bijection(P, K)
  <2> HIDE DEF m
  <2> QED BY <1>4, <1>5, <1>6 DEF Bijection, Injection, Surjection, IsInjective
<1>8. IsFiniteSet(K) /\ K \subseteq Keys
  BY KeysAssumption, FS_Subset DEF K, Present
<1>9. IsFiniteSet(P) /\ Cardinality(P) = Cardinality(K)
  <2>1. m \in Injection(P, K) /\ m \in Surjection(P, K)
    BY <1>7 DEF Bijection
  <2> HIDE DEF m
  <2> QED BY <1>8, <2>1, FS_Injection
<1>10. \A k \in Keys : g[k] \in Int /\ (k \in K => g[k] = bids[k].qty) /\ (k \notin K => g[k] = 0)
  BY <1>2, <1>3
<1>11. \A x \in P : f[x] = g[m[x]]
  BY <1>1, <1>2, <1>3, <1>4, <1>10
<1>12. L!Units(levels) = SumFunctionOnSet(f, P) /\ UnitsOf(bids) = SumFunctionOnSet(g, Keys)
  BY LadderSums DEF L!Units, UnitsOf, P, at
<1> HIDE DEF m, f, g
<1>13. SumFunctionOnSet(f, P) = SumFunctionOnSet(g, K)
  <2>1. \A k \in K : g[k] \in Int
    BY <1>8, <1>10
  <2> QED BY <1>7, <1>9, <1>11, <2>1, SumRenamed
<1>14. SumFunctionOnSet(g, Keys) = SumFunctionOnSet(g, K)
  <2> DEFINE R == Keys \ K
  <2>1. IsFiniteSet(R) /\ K \cap R = {} /\ K \cup R = Keys
    BY <1>8, KeysAssumption, FS_Subset
  <2>2. SumFunctionOnSet(g, R) = 0
    BY <1>10, <2>1, SumZero
  <2>3. SumFunctionOnSet(g, K) \in Int
    BY <1>8, <1>10, SumInt
  <2>4. \A k \in K \cup R : g[k] \in Int
    BY <1>10, <2>1
  <2> HIDE DEF R
  <2>5. SumFunctionOnSet(g, K \cup R) = SumFunctionOnSet(g, K) + SumFunctionOnSet(g, R)
    BY <1>8, <2>1, <2>4, SumUnion
  <2>6. SumFunctionOnSet(g, Keys) = SumFunctionOnSet(g, K) + SumFunctionOnSet(g, R)
    BY <2>1, <2>5, Zenon
  <2> QED BY <2>2, <2>3, <2>6
<1>15. {at(x) : x \in P} = {Bid(k, bids[k]) : k \in K}
  BY <1>1, <1>2, <1>3
<1> QED BY <1>9, <1>12, <1>13, <1>14, <1>15 DEF P, K, at

LEMMA UnitsAreNat == \A bids \in BidMap : UnitsOf(bids) \in Nat
<1> TAKE bids \in BidMap
<1> DEFINE f == [k \in Keys |-> IF bids[k] = None THEN 0 ELSE bids[k].qty]
<1>1. \A k \in Keys : f[k] \in Nat
  BY DEF BidMap, RestingBid
<1>2. UnitsOf(bids) = SumFunctionOnSet(f, Keys)
  BY DEF UnitsOf
<1> HIDE DEF f
<1> QED BY <1>1, <1>2, KeysAssumption, SumNat

LEMMA NothingCounts == UnitsOf(Nothing) = 0
<1> DEFINE f == [k \in Keys |-> IF Nothing[k] = None THEN 0 ELSE Nothing[k].qty]
<1>1. \A k \in Keys : f[k] = 0
  BY DEF Nothing
<1>2. UnitsOf(Nothing) = SumFunctionOnSet(f, Keys)
  BY DEF UnitsOf
<1> HIDE DEF f
<1> QED BY <1>1, <1>2, KeysAssumption, SumZero

(* One key's bid comes or goes. *)
LEMMA UnitsChange ==
  ASSUME NEW bids \in BidMap, NEW k \in Keys, NEW b \in RestingBid \cup {None}
  PROVE  /\ [bids EXCEPT ![k] = b] \in BidMap
         /\ bids[k] = None /\ b # None =>
              UnitsOf([bids EXCEPT ![k] = b]) = UnitsOf(bids) + b.qty
         /\ bids[k] # None /\ b = None =>
              UnitsOf([bids EXCEPT ![k] = b]) = UnitsOf(bids) - bids[k].qty
<1> DEFINE other == [bids EXCEPT ![k] = b]
           f == [j \in Keys |-> IF bids[j] = None THEN 0 ELSE bids[j].qty]
           g == [j \in Keys |-> IF other[j] = None THEN 0 ELSE other[j].qty]
<1>1. other \in BidMap /\ other[k] = b /\ \A j \in Keys : j # k => other[j] = bids[j]
  BY DEF BidMap
<1>2. UnitsOf(bids) = SumFunctionOnSet(f, Keys) /\ UnitsOf(other) = SumFunctionOnSet(g, Keys)
  BY DEF UnitsOf
<1>3. \A j \in Keys : f[j] \in Int
  BY DEF BidMap, RestingBid
<1> HIDE DEF other
<1>4. \A j \in Keys : g[j] \in Int
  BY <1>1 DEF BidMap, RestingBid
<1>5. \A j \in Keys : j # k => g[j] = f[j]
  BY <1>1
<1>6. /\ f[k] = IF bids[k] = None THEN 0 ELSE bids[k].qty
      /\ g[k] = IF b = None THEN 0 ELSE b.qty
  BY <1>1
<1> HIDE DEF f, g
<1>7. SumFunctionOnSet(g, Keys) = SumFunctionOnSet(f, Keys) + (g[k] - f[k])
  BY <1>3, <1>4, <1>5, KeysAssumption, SumChange
<1>8. SumFunctionOnSet(f, Keys) \in Int /\ f[k] \in Int /\ g[k] \in Int
  BY <1>3, <1>4, KeysAssumption, SumInt
<1>9. /\ bids[k] = None /\ b # None => UnitsOf(other) = UnitsOf(bids) + b.qty
      /\ bids[k] # None /\ b = None => UnitsOf(other) = UnitsOf(bids) - bids[k].qty
  BY <1>2, <1>6, <1>7, <1>8
<1> QED BY <1>1, <1>9 DEF other

(* The levels that leave and the levels that stay account for every unit. *)
LEMMA UnitsSplit ==
  ASSUME NEW bids \in BidMap, NEW S, NEW T, S \cap T = {},
         \A k \in Keys : bids[k] # None => bids[k].limit \in S \cup T
  PROVE  UnitsOf(bids) = UnitsOf(Within(bids, S)) + UnitsOf(Within(bids, T))
<1> DEFINE a == Within(bids, S)
           b == Within(bids, T)
           h == [k \in Keys |-> IF bids[k] = None THEN 0 ELSE bids[k].qty]
           f == [k \in Keys |-> IF a[k] = None THEN 0 ELSE a[k].qty]
           g == [k \in Keys |-> IF b[k] = None THEN 0 ELSE b[k].qty]
<1>1. /\ UnitsOf(bids) = SumFunctionOnSet(h, Keys) /\ UnitsOf(a) = SumFunctionOnSet(f, Keys)
      /\ UnitsOf(b) = SumFunctionOnSet(g, Keys)
  BY DEF UnitsOf
<1>2. \A k \in Keys : bids[k] # None => bids[k].qty \in Int
  BY DEF BidMap, RestingBid
<1>3. \A k \in Keys : /\ a[k] = IF bids[k] = None THEN None
                               ELSE IF bids[k].limit \in S THEN bids[k] ELSE None
                      /\ b[k] = IF bids[k] = None THEN None
                               ELSE IF bids[k].limit \in T THEN bids[k] ELSE None
  BY DEF Within
<1> HIDE DEF a, b
<1>4. \A k \in Keys : f[k] \in Int /\ g[k] \in Int /\ h[k] = f[k] + g[k]
  <2> TAKE k \in Keys
  <2>1. CASE bids[k] = None
    BY <1>3, <2>1
  <2>2. CASE bids[k] # None /\ bids[k].limit \in S
    <3>1. a[k] = bids[k] /\ b[k] = None /\ bids[k].qty \in Int
      BY <1>2, <1>3, <2>2
    <3> QED BY <2>2, <3>1
  <2>3. CASE bids[k] # None /\ bids[k].limit \notin S
    <3>1. a[k] = None /\ b[k] = bids[k] /\ bids[k].qty \in Int
      BY <1>2, <1>3, <2>3
    <3> QED BY <2>3, <3>1
  <2> QED BY <2>1, <2>2, <2>3
<1> HIDE DEF f, g, h
<1> QED BY <1>1, <1>4, KeysAssumption, SumAdd DEF a, b

-----------------------------------------------------------------------------
(***************************************************************************)
(* The ladder mirrors the bids; with `exact`, its total counts them too:   *)
(* it may not after the total has once saturated at u64::MAX.              *)
(***************************************************************************)
Mirror(l, bids, exact) ==
  Stores(l.levels, bids) /\ (exact => l.total_qty = UnitsOf(bids))

LEMMA EmptyMirrors == \A exact : Mirror(L!Empty, Nothing, exact)
BY NewLadderStores, NothingCounts DEF Mirror

LEMMA InsertMirrors ==
  ASSUME NEW l, NEW bids \in BidMap, NEW exact, Mirror(l, bids, exact),
         NEW k \in Keys, bids[k] = None,
         NEW b \in RestingBid, \A j \in Keys : bids[j] # None => bids[j].seq < b.seq,
         exact => UnitsOf([bids EXCEPT ![k] = b]) <= U64Max
  PROVE  Mirror(L!Insert(l, Bid(k, b)), [bids EXCEPT ![k] = b], exact)
<1> DEFINE other == [bids EXCEPT ![k] = b]
<1>1. Stores(L!Insert(l, Bid(k, b)).levels, other)
  BY InsertStores DEF Mirror
<1>2. ASSUME exact PROVE L!Insert(l, Bid(k, b)).total_qty = UnitsOf(other)
  <2>1. b # None /\ Bid(k, b).qty = b.qty /\ b.qty \in Nat
    BY NoneAssumption DEF Bid, RestingBid
  <2>2. L!Insert(l, Bid(k, b)).total_qty = L!SatU64(l.total_qty + b.qty)
    BY <2>1 DEF L!Insert
  <2>3. UnitsOf(other) = UnitsOf(bids) + b.qty /\ l.total_qty = UnitsOf(bids)
    BY <1>2, <2>1, UnitsChange DEF Mirror
  <2>4. UnitsOf(bids) \in Nat /\ U64Max \in Nat
    BY UnitsAreNat, WidthsAssumption
  <2>5. UnitsOf(other) <= U64Max
    BY <1>2
  <2> HIDE DEF other
  <2> QED BY <2>1, <2>2, <2>3, <2>4, <2>5 DEF L!SatU64, L!AtMost
<1> QED BY <1>1, <1>2 DEF Mirror

LEMMA RemoveMirrors ==
  ASSUME NEW l, NEW bids \in BidMap, NEW exact, Mirror(l, bids, exact), NEW p, NEW k \in Keys
  PROVE  /\ bids[k] # None /\ bids[k].participant = p =>
              Mirror(L!Remove(l, p, k), [bids EXCEPT ![k] = None], exact)
         /\ ~(bids[k] # None /\ bids[k].participant = p) => L!Remove(l, p, k) = l
<1> DEFINE other == [bids EXCEPT ![k] = None]
<1>1. ASSUME bids[k] # None, bids[k].participant = p
      PROVE  Mirror(L!Remove(l, p, k), other, exact)
  <2>1. /\ Stores(L!Remove(l, p, k).levels, other)
        /\ L!Remove(l, p, k).total_qty = L!LessUnits(l, bids[k].qty)
    BY <1>1, RemoveStores DEF Mirror
  <2>2. ASSUME exact PROVE L!Remove(l, p, k).total_qty = UnitsOf(other)
    <3>1. /\ UnitsOf(other) = UnitsOf(bids) - bids[k].qty /\ other \in BidMap
          /\ l.total_qty = UnitsOf(bids)
      BY <1>1, <2>2, UnitsChange DEF Mirror
    <3>2. UnitsOf(other) \in Nat /\ UnitsOf(bids) \in Nat
      BY <3>1, UnitsAreNat
    <3>3. bids[k].qty \in Nat
      BY <1>1 DEF BidMap, RestingBid
    <3> HIDE DEF other
    <3> QED BY <2>1, <3>1, <3>2, <3>3 DEF L!LessUnits
  <2> QED BY <2>1, <2>2 DEF Mirror
<1> QED BY <1>1, RemoveStores DEF Mirror

LEMMA DrainMirrors ==
  ASSUME NEW l, NEW bids \in BidMap, NEW exact, Mirror(l, bids, exact), NEW clock \in Int
  PROVE  LET left == [k \in Keys |-> IF IsTriggered(bids[k], clock) THEN None ELSE bids[k]]
         IN  Mirror(L!DrainTriggered(l, clock), left, exact) /\ left \in BidMap
<1> DEFINE left == [k \in Keys |-> IF IsTriggered(bids[k], clock) THEN None ELSE bids[k]]
           levels == l.levels
           S == {p \in DOMAIN levels : p < clock}
           T == {p \in DOMAIN levels : p >= clock}
           new == L!DrainTriggered(l, clock)
<1>1. /\ DOMAIN levels = {bids[k].limit : k \in Present(bids)} /\ Stores(levels, bids)
      /\ exact => l.total_qty = UnitsOf(bids)
  BY DEF Mirror, Stores
<1>2. \A k \in Keys : bids[k] # None => bids[k].limit \in DOMAIN levels /\ bids[k].limit \in Int
  <2>1. \A k \in Keys : bids[k] # None => bids[k].limit \in Int
    BY DEF BidMap, RestingBid
  <2> QED BY <1>1, <2>1 DEF Present
<1> HIDE DEF levels
<1>3. S \cap T = {} /\ \A k \in Keys : bids[k] # None => bids[k].limit \in S \cup T
  <2>1. \A p \in DOMAIN levels : p \in Int
    BY <1>1, <1>2 DEF Present
  <2> QED BY <1>2, <2>1
<1>4. left = Within(bids, S)
  <2>1. \A k \in Keys : (bids[k] # None /\ bids[k].limit >= clock) <=>
                        (bids[k] # None /\ bids[k].limit \notin S)
    BY <1>2
  <2> HIDE DEF S
  <2> QED BY <2>1 DEF Within, IsTriggered
<1>5. /\ new.levels = L!Only(levels, S)
      /\ new.total_qty = L!LessUnits(l, L!Units(L!Only(levels, T)))
  BY DEF L!DrainTriggered, L!Untriggered, L!Triggered, levels
<1>6. S \subseteq DOMAIN levels /\ T \subseteq DOMAIN levels
  OBVIOUS
<1> HIDE DEF S, T
<1>7. /\ Stores(L!Only(levels, S), Within(bids, S)) /\ Within(bids, S) \in BidMap
      /\ Stores(L!Only(levels, T), Within(bids, T)) /\ Within(bids, T) \in BidMap
  BY <1>1, <1>6, OnlyStores
<1>8. L!Units(L!Only(levels, T)) = UnitsOf(Within(bids, T))
  BY <1>7, PlacesCounted
<1>9. UnitsOf(bids) = UnitsOf(Within(bids, S)) + UnitsOf(Within(bids, T))
  BY <1>3, UnitsSplit
<1>10. UnitsOf(Within(bids, S)) \in Nat /\ UnitsOf(Within(bids, T)) \in Nat
  BY <1>7, UnitsAreNat
<1>11. exact => new.total_qty = UnitsOf(Within(bids, S))
  <2> HIDE DEF new
  <2> QED BY <1>1, <1>5, <1>8, <1>9, <1>10 DEF L!LessUnits
<1> QED BY <1>4, <1>5, <1>7, <1>11 DEF Mirror

-----------------------------------------------------------------------------
(***************************************************************************)
(* The end of a window.  A resting bid that goes short leaves nothing to   *)
(* sell, so flush_window puts no remainder back.                           *)
(***************************************************************************)
LEMMA FlushKeepsResting ==
  ASSUME NEW s, Sound(s), s.window # None => Produced(s, s.window.price)
  PROVE  /\ FlushWindow(s).resting \in BidMap /\ s.resting \in BidMap
         /\ FlushWindow(s).status # "Cleared" => FlushWindow(s).resting = s.resting
         /\ FlushWindow(s).status = "Cleared" => FlushWindow(s).resting = Nothing
<1> DEFINE t == FlushWindow(s)
<1>1. Sound(t) /\ (t.status = "Live" => t.resting = s.resting)
  BY FlushSound
<1>2. /\ s \in AuctionState /\ t \in AuctionState
      /\ s.resting \in BidMap /\ t.resting \in BidMap
  BY <1>1, SoundParts, StateParts DEF BidMap
<1>3. t.status # "Cleared" => t.status = "Live" \/ t = s
  <2>1. CASE s.window = None
    BY <2>1 DEF FlushWindow
  <2>2. CASE s.window # None
    <3>1. s.status = "Live"
      BY <2>2 DEF Sound, Solid, FairWindow
    <3>2. t = SettleWindow(s)
      BY <2>2, <3>1 DEF FlushWindow, AcceptsBids
    <3>3. SettleWindow(s).status \in {"Live", "Cleared"}
      BY <1>2, <3>1 DEF SettleWindow, Distribute, Settled, Clear, AuctionState
    <3> QED BY <3>2, <3>3
  <2> QED BY <2>1, <2>2
<1>4. t.status = "Cleared" => t.resting = Nothing
  <2> SUFFICES ASSUME t.status = "Cleared" PROVE t.resting = Nothing
    OBVIOUS
  <2>1. \A k \in Keys : t.resting[k] = None
    BY <1>1 DEF Sound, Solid, NobodyWaits, IsTerminal
  <2> HIDE DEF t
  <2> QED BY <1>2, <2>1 DEF Nothing, BidMap
<1> QED BY <1>1, <1>2, <1>3, <1>4

LEMMA NothingRequeued ==
  ASSUME NEW s, Sound(s), s.window # None, Produced(s, s.window.price)
  PROVE  Requeued(s) = <<>>
<1> DEFINE t == FlushWindow(s)
           keys == {k \in Present(s.window.bids) : t.resting[k] # None}
           bids == {Bid(k, t.resting[k]) : k \in keys}
           bid(k) == s.window.bids[k]
           before(a, b) == \/ bid(a.key).priority > bid(b.key).priority
                           \/ bid(a.key).priority = bid(b.key).priority /\ a.seq < b.seq
           sorted(q) == \A i, j \in DOMAIN q : i < j => before(q[i], q[j])
<1>1. keys = {}
  <2> SUFFICES ASSUME NEW k \in Keys, s.window.bids[k] # None, t.resting[k] # None
               PROVE  FALSE
    BY DEF Present
  <2>1. WindowBids(s)[k] # None
    BY DEF WindowBids
  <2>2. s.resting[k] = None
    BY <2>1 DEF Sound, Solid, Truthful, Told
  <2>3. t.resting[k] = None
    BY <2>2, FlushKeepsResting DEF Nothing
  <2> QED BY <2>3
<1>2. bids = {}
  BY <1>1
<1>3. Requeued(s) = CHOOSE q \in Lists!SetToSeqs(bids) : sorted(q)
  BY DEF Requeued
<1> HIDE DEF bids, sorted
<1>4. Lists!Cardinality(bids) = 0 /\ 1..0 = {}
  <2>1. Lists!Cardinality(bids) = Cardinality(bids)
    BY DEF Lists!Cardinality, Cardinality
  <2> QED BY <1>2, <2>1, FS_EmptySet
<1>5. Lists!SetToSeqs(bids) = {<<>>}
  <2>1. Lists!SetToSeqs(bids) = {f \in [1..0 -> {}] : \A i, j \in 1..0 : i # j => f[i] # f[j]}
    BY <1>2, <1>4 DEF Lists!SetToSeqs
  <2>2. \A f \in [1..0 -> {}] : f = <<>>
    OBVIOUS
  <2>3. <<>> \in [1..0 -> {}]
    OBVIOUS
  <2> QED BY <1>4, <2>1, <2>2, <2>3
<1>6. sorted(<<>>)
  BY DEF sorted
<1> QED BY <1>3, <1>5, <1>6

LEMMA RequeueNothing == \A l : Lists!FoldLeft(L!Requeue, l, <<>>) = l
<1> TAKE l
<1> DEFINE IsFold(g) == g = [s \in SUBSET DOMAIN <<>> |->
                              IF s = {} THEN l
                              ELSE L!Requeue(g[s \ {Lists!Max(s)}], <<>>[Lists!Max(s)])]
<1>1. Lists!FoldLeft(L!Requeue, l, <<>>) = (CHOOSE g : IsFold(g))[DOMAIN <<>>]
  BY DEF Lists!FoldLeft, Lists!MapThenFoldSet
<1>2. DOMAIN <<>> = {} /\ SUBSET DOMAIN <<>> = {{}}
  OBVIOUS
<1>3. \E g : IsFold(g)
  <2>1. IsFold([s \in SUBSET DOMAIN <<>> |-> l])
    BY <1>2
  <2> QED BY <2>1
<1>4. \A g : IsFold(g) => g[DOMAIN <<>>] = l
  BY <1>2
<1> HIDE DEF IsFold
<1> QED BY <1>1, <1>3, <1>4

LEMMA FlushMirrors ==
  ASSUME NEW s, Sound(s), s.window # None => Produced(s, s.window.price),
         NEW l, NEW exact, Mirror(l, s.resting, exact)
  PROVE  Mirror(Flushed(l, s), FlushWindow(s).resting, exact)
<1> DEFINE t == FlushWindow(s)
<1>1. CASE s.window = None \/ ~AcceptsBids(s)
  <2>1. Flushed(l, s) = l
    BY <1>1 DEF Flushed
  <2>2. s.window = None
    BY <1>1 DEF AcceptsBids, Sound, Solid, FairWindow
  <2>3. t = s
    BY <2>2 DEF FlushWindow
  <2> QED BY <2>1, <2>3
<1>2. CASE ~(s.window = None \/ ~AcceptsBids(s))
  <2>1. Flushed(l, s) = Cleared(l, t)
    BY <1>2, NothingRequeued, RequeueNothing DEF Flushed
  <2>2. CASE t.status = "Cleared"
    BY <2>1, <2>2, FlushKeepsResting, EmptyMirrors DEF Cleared, L!DrainAll
  <2>3. CASE t.status # "Cleared"
    BY <2>1, <2>3, FlushKeepsResting DEF Cleared
  <2> QED BY <2>2, <2>3
<1> QED BY <1>1, <1>2

(* The window of an unbatched auction settles at a price of this instant. *)
LEMMA UnbatchedProduced ==
  ASSUME NEW s, Sound(s), Opened(s), BatchWindow = 0
  PROVE  s.window # None => Produced(s, s.window.price)
<1>1. s.now \in U64 /\ s.now \in 0..s.now
  <2>1. s.now \in U64 /\ s.now \in Nat
    BY SoundParts, StateParts
  <2> QED BY <2>1
<1>2. WindowPrice(Schedule, BatchWindow, s.now) = Price(s.now)
  BY <1>1, WindowTiming
<1> QED BY <1>1, <1>2 DEF Opened, Produced

(* What apply() does to the ladder before its handler. *)
LEMMA ArrivedMirrors ==
  ASSUME Sound(auction), Timed(auction), NEW ts \in U64,
         NEW exact, Mirror(ladder, auction.resting, exact)
  PROVE  Mirror(Arrived(ts), Arrive(auction, ts).resting, exact)
<1> DEFINE now == IF ts > auction.now THEN ts ELSE auction.now
           t == [auction EXCEPT !.now = now]
           u == Arrive(auction, ts)
<1>1. auction \in AuctionState /\ auction.now \in U64
  BY SoundParts, StateParts
<1>2. now \in U64 /\ auction.now <= now
  BY <1>1, WidthsAssumption DEF U64
<1>3. u = CloseElapsedWindow(t) /\ Arrived(ts) = IF u = t THEN ladder ELSE Flushed(ladder, t)
  BY DEF Arrive, Arrived
<1> HIDE DEF now
<1>4. Sound(t) /\ t.window = auction.window /\ t.now = now
  BY <1>2, LaterSound
<1>5. t.resting = auction.resting
  BY <1>1 DEF AuctionState
<1> HIDE DEF t, u
<1>6. CASE u = t
  BY <1>3, <1>5, <1>6 DEF u
<1>7. CASE u # t
  <2>1. u = FlushWindow(t) /\ t.window # None /\ WindowIndex(BatchWindow, t.now) > t.window.index
    BY <1>3, <1>7 DEF CloseElapsedWindow
  <2>2. auction.window.index = WindowIndex(BatchWindow, auction.now)
        /\ auction.window.price = WindowPrice(Schedule, BatchWindow, auction.now)
    BY <1>4, <2>1 DEF Timed, Opened
  <2>3. WindowIndex(BatchWindow, auction.now) < WindowIndex(BatchWindow, now)
    BY <1>1, <1>2, <1>4, <2>1, <2>2, WindowTypes
  <2>4. Produced(t, t.window.price)
    BY <1>1, <1>2, <1>4, <2>2, <2>3, WindowTiming DEF Produced
  <2>5. Mirror(Flushed(ladder, t), FlushWindow(t).resting, exact)
    BY <1>4, <1>5, <2>4, FlushMirrors
  <2> QED BY <1>3, <1>7, <2>1, <2>5 DEF u
<1> QED BY <1>6, <1>7

-----------------------------------------------------------------------------
(* What each handler does to the resting bids. *)

LEMMA RestingIsMap ==
  ASSUME NEW s, Sound(s)
  PROVE  s \in AuctionState /\ s.resting \in BidMap
BY SoundParts, StateParts DEF BidMap

(* The ladder of a state that may have cleared. *)
LEMMA ClearedMirrors ==
  ASSUME NEW t, Sound(t), NEW l, NEW exact, NEW bids, Mirror(l, bids, exact),
         t.status # "Cleared" => t.resting = bids
  PROVE  Mirror(Cleared(l, t), t.resting, exact)
<1>1. CASE t.status = "Cleared"
  <2>1. \A k \in Keys : t.resting[k] = None
    BY <1>1, SoundParts DEF NobodyWaits, IsTerminal
  <2>2. t.resting = Nothing
    BY <2>1, RestingIsMap DEF Nothing, BidMap
  <2> QED BY <1>1, <2>2, EmptyMirrors DEF Cleared, L!DrainAll
<1>2. CASE t.status # "Cleared"
  BY <1>2 DEF Cleared
<1> QED BY <1>1, <1>2

LEMMA RefusedKeepsResting ==
  ASSUME NEW s \in AuctionState, NEW k \in Keys, NEW reason
  PROVE  /\ Reject(s, k, reason).resting = s.resting
         /\ Reject(s, k, reason).admitted = s.admitted
BY DEF Reject, SetOutcome, AuctionState

LEMMA TakeKeepsResting ==
  ASSUME NEW s, Sound(s), Timed(s), NEW p \in Participants, NEW k \in Keys, NEW qty \in Nat,
         NEW expected
  PROVE  LET t == OnBid(s, k, TakeRefusal(s, p, qty, expected), AdmitTake(s, p, k, qty))
         IN  t.status # "Cleared" => t.resting = s.resting
<1> DEFINE refusal == TakeRefusal(s, p, qty, expected)
           u == QueuedState(s, p, k, qty)
           t == OnBid(s, k, refusal, AdmitTake(s, p, k, qty))
<1>1. s \in AuctionState
  BY RestingIsMap
<1>2. CASE s.outcomes[k] # NoOutcome \/ refusal # ""
  <2>1. t = s \/ t = Reject(s, k, refusal)
    BY <1>2 DEF OnBid
  <2> QED BY <1>1, <2>1, RefusedKeepsResting
<1>3. CASE s.outcomes[k] = NoOutcome /\ refusal = ""
  <2>1. qty # 0 /\ s.status = "Live"
        /\ CanReserve(s, p, WindowPrice(Schedule, BatchWindow, s.now), qty)
    <3>1. "PriceMoved" \in {"PriceMoved", "LimitAboveClock"}
      OBVIOUS
    <3> QED BY <1>3, <3>1, RefusalParts DEF TakeRefusal
  <2>2. Sound(u) /\ Opened(u)
    BY <1>3, <2>1, QueuedSound
  <2>3. u.resting = s.resting
    BY <1>1 DEF QueuedState, SetOutcome, PushPending, Reserve, AuctionState
  <2>4. t = FlushIfUnbatched(u)
    BY <1>3 DEF OnBid, AdmitTake, QueuedState
  <2> HIDE DEF u, t
  <2>5. CASE BatchWindow = 0
    <3>1. t = FlushWindow(u)
      BY <2>4, <2>5 DEF FlushIfUnbatched
    <3>2. u.window # None => Produced(u, u.window.price)
      BY <2>2, <2>5, UnbatchedProduced
    <3>3. t.status # "Cleared" => t.resting = u.resting
      BY <2>2, <3>1, <3>2, FlushKeepsResting
    <3> QED BY <2>3, <3>3 DEF t
  <2>6. CASE BatchWindow # 0
    BY <2>3, <2>4, <2>6 DEF FlushIfUnbatched, t
  <2> QED BY <2>5, <2>6
<1> QED BY <1>2, <1>3

(* A resting bid: refused, or the newest of the bids that rest. *)
LEMMA RestingMirrors ==
  ASSUME NEW s, Sound(s), NEW p \in Participants, NEW k \in Keys, NEW qty \in Nat,
         NEW limit \in Int, NEW l, NEW exact, Mirror(l, s.resting, exact),
         NEW t, t = OnBid(s, k, RestingRefusal(s, p, qty, limit), AdmitResting(s, p, k, qty, limit)),
         exact => UnitsOf(t.resting) <= U64Max
  PROVE  Mirror(IF t.admitted = s.admitted THEN l ELSE L!Insert(l, Bid(k, t.resting[k])),
                t.resting, exact)
<1> DEFINE refusal == RestingRefusal(s, p, qty, limit)
<1>1. s \in AuctionState /\ s.resting \in BidMap
  BY RestingIsMap
<1>2. CASE s.outcomes[k] # NoOutcome \/ refusal # ""
  <2>1. t = s \/ t = Reject(s, k, refusal)
    BY <1>2 DEF OnBid
  <2>2. t.resting = s.resting /\ t.admitted = s.admitted
    BY <1>1, <2>1, RefusedKeepsResting
  <2> QED BY <2>2
<1>3. CASE s.outcomes[k] = NoOutcome /\ refusal = ""
  <2> DEFINE b == [seq |-> s.admitted, participant |-> p, qty |-> qty, limit |-> limit]
             bids == s.resting
  <2>1. t = AdmitResting(s, p, k, qty, limit)
    BY <1>3 DEF OnBid
  <2>2. t.resting = [s.resting EXCEPT ![k] = b] /\ t.admitted = s.admitted + 1
    BY <1>1, <2>1 DEF AdmitResting, SetOutcome, Reserve, AuctionState
  <2>3. s.admitted \in Nat
    BY <1>1, StateParts
  <2>4. b \in RestingBid
    BY <2>3 DEF RestingBid
  <2>5. bids[k] = None
    BY <1>3, SoundParts, UnknownHasNothing
  <2>6. \A j \in Keys : bids[j] # None => bids[j].seq < b.seq
    BY SoundParts DEF Kept, SeqsApart, Seqs
  <2>7. t.resting[k] = b /\ t.admitted # s.admitted
    BY <1>1, <2>2, <2>3 DEF BidMap
  <2> HIDE DEF b, bids
  <2>8. bids \in BidMap /\ Mirror(l, bids, exact) /\ t.resting = [bids EXCEPT ![k] = b]
    BY <1>1, <2>2 DEF bids
  <2>9. Mirror(L!Insert(l, Bid(k, b)), [bids EXCEPT ![k] = b], exact)
    <3>1. exact => UnitsOf([bids EXCEPT ![k] = b]) <= U64Max
      BY <2>8
    <3> QED BY <2>4, <2>5, <2>6, <2>8, <3>1, InsertMirrors
  <2> QED BY <2>7, <2>8, <2>9
<1> QED BY <1>2, <1>3

LEMMA CancelRestingMirrors ==
  ASSUME NEW s, Sound(s), NEW p \in Participants, NEW k \in Keys,
         NEW l, NEW exact, Mirror(l, s.resting, exact)
  PROVE  Mirror(L!Remove(l, p, k), OnCancelResting(s, p, k).resting, exact)
<1>1. s \in AuctionState /\ s.resting \in BidMap
  BY RestingIsMap
<1>2. OnCancelResting(s, p, k).resting =
        IF s.resting[k] # None /\ s.resting[k].participant = p
        THEN [s.resting EXCEPT ![k] = None] ELSE s.resting
  BY <1>1 DEF OnCancelResting, SetOutcome, AuctionState
<1> QED BY <1>1, <1>2, RemoveMirrors

(* A clearing at the floor clears, whatever its window sells. *)
LEMMA CloseAtFloorClears ==
  ASSUME NEW s \in AuctionState, s.status = "Live"
  PROVE  CloseAtFloor(s).status = "Cleared"
<1>1. CASE s.window = None
  BY <1>1 DEF CloseAtFloor, FlushWindow, AcceptsBids, Clear, AuctionState
<1>2. CASE s.window # None
  <2>1. FlushWindow(s) = SettleWindow(s)
    BY <1>2 DEF FlushWindow, AcceptsBids
  <2>2. SettleWindow(s).status \in {"Live", "Cleared"}
    BY DEF SettleWindow, Distribute, Settled, Clear, AuctionState
  <2> QED BY <2>1, <2>2 DEF CloseAtFloor, AcceptsBids, Clear, SettleWindow, Distribute,
                            Settled, AuctionState
<1> QED BY <1>1, <1>2

LEMMA TickMirrors ==
  ASSUME NEW s, Sound(s), Timed(s), s.status = "Live",
         NEW l, NEW exact, Mirror(l, s.resting, exact)
  PROVE  LET clock == Price(s.now)
             drained == L!DrainTriggered(l, clock)
             pushed == TriggeredState(s)
             matched == IF BatchWindow = 0 THEN Flushed(drained, pushed) ELSE drained
         IN  Mirror(Cleared(matched, OnTick(s)), OnTick(s).resting, exact)
<1> DEFINE clock == Price(s.now)
           drained == L!DrainTriggered(l, clock)
           u == TriggeredState(s)
           matched == IF BatchWindow = 0 THEN Flushed(drained, u) ELSE drained
           v == FlushIfUnbatched(u)
           t == OnTick(s)
<1>1. s \in AuctionState /\ s.resting \in BidMap /\ clock \in Int
  BY RestingIsMap, StateParts, ClockPrice
<1>2. Sound(u) /\ Opened(u)
  BY TriggerSound
<1>3. Mirror(drained, u.resting, exact)
  <2> DEFINE left == [k \in Keys |-> IF IsTriggered(s.resting[k], clock) THEN None
                                    ELSE s.resting[k]]
  <2>1. u.resting = left
    BY <1>1 DEF TriggeredState, PushPending, DrainTriggered, AuctionState
  <2>2. Mirror(drained, left, exact)
    <3> DEFINE bids == s.resting
    <3>1. bids \in BidMap /\ Mirror(l, bids, exact)
          /\ left = [k \in Keys |-> IF IsTriggered(bids[k], clock) THEN None ELSE bids[k]]
      BY <1>1
    <3> HIDE DEF bids, left, clock
    <3> QED BY <1>1, <3>1, DrainMirrors
  <2> QED BY <2>1, <2>2
<1>4. t = IF v.status = "Live" /\ AtFloor(Schedule, s.now) THEN CloseAtFloor(v) ELSE v
  BY DEF OnTick, TriggeredState, AcceptsBids
<1>5. Sound(t)
  BY OnTickSound
<1> HIDE DEF u, drained, t
<1>6. Sound(v)
  BY <1>2, FlushIfUnbatchedSound
<1>7. Mirror(matched, v.resting, exact)
  <2>1. CASE BatchWindow = 0
    <3>1. u.window # None => Produced(u, u.window.price)
      BY <1>2, <2>1, UnbatchedProduced
    <3>2. v = FlushWindow(u) /\ matched = Flushed(drained, u)
      BY <2>1 DEF FlushIfUnbatched
    <3> QED BY <1>2, <1>3, <3>1, <3>2, FlushMirrors
  <2>2. CASE BatchWindow # 0
    BY <1>3, <2>2 DEF FlushIfUnbatched
  <2> QED BY <2>1, <2>2
<1> HIDE DEF v, matched
<1>8. t.status # "Cleared" => t.resting = v.resting
  <2>1. v.status = "Live" => CloseAtFloor(v).status = "Cleared"
    BY <1>6, RestingIsMap, CloseAtFloorClears
  <2> QED BY <1>4, <2>1
<1>9. Mirror(Cleared(matched, t), t.resting, exact)
  BY <1>5, <1>7, <1>8, ClearedMirrors
<1> QED BY <1>9 DEF t, matched, drained, u

-----------------------------------------------------------------------------
(* A step of the auction with its ladder. *)

LEMMA LadderStepIsStep == LadderNext => Next
BY DEF LadderNext, Next, LadderOpen, LadderTick, LadderCancel, LadderSetCollateral, LadderTake,
       LadderResting, LadderCancelResting

LEMMA LadderStepMirrors ==
  ASSUME SafetyInv, NEW exact, Mirror(ladder, auction.resting, exact), [LadderNext]_vars,
         exact => UnitsOf(auction'.resting) <= U64Max
  PROVE  Mirror(ladder', auction'.resting, exact)
<1>1. CASE UNCHANGED vars
  BY <1>1 DEF vars
<1>2. CASE LadderNext
  <2>1. PICK ts \in Timestamps :
          \/ LadderOpen(ts)
          \/ LadderTick(ts)
          \/ LadderCancel(ts)
          \/ \E p \in Participants :
               \/ \E limit \in Collaterals : LadderSetCollateral(ts, p, limit)
               \/ \E k \in Keys :
                    \/ \E qty \in Quantities, expected \in Expected :
                         LadderTake(ts, p, k, qty, expected)
                    \/ \E qty \in Quantities, limit \in Limits :
                         LadderResting(ts, p, k, qty, limit)
                    \/ LadderCancelResting(ts, p, k)
    BY <1>2 DEF LadderNext
  <2> DEFINE s == Arrive(auction, ts)
             l == Arrived(ts)
             t == auction'
  <2>2. ts \in U64 /\ Sound(auction) /\ Timed(auction)
    BY AuctionAssumption DEF SafetyInv
  <2>3. Sound(s) /\ Timed(s)
    BY <2>2, ArriveSound
  <2>4. Mirror(l, s.resting, exact)
    BY <2>2, ArrivedMirrors
  <2>5. Sound(t)
    BY <1>2, LadderStepIsStep, NextSound DEF SafetyInv
  <2>6. s \in AuctionState /\ s.resting \in BidMap
    BY <2>3, RestingIsMap
  <2>7. CASE LadderOpen(ts)
    <3>1. t = OnOpen(s) /\ ladder' = l
      BY <2>7 DEF LadderOpen, Open
    <3> HIDE DEF s, l, t
    <3>2. OnOpen(s).resting = s.resting
      BY <2>6 DEF OnOpen, AuctionState
    <3> QED BY <2>4, <3>1, <3>2 DEF t
  <2>8. ASSUME NEW p \in Participants, NEW limit \in Collaterals, LadderSetCollateral(ts, p, limit)
        PROVE  Mirror(ladder', t.resting, exact)
    <3>1. t = OnSetCollateral(s, p, limit) /\ ladder' = l
      BY <2>8 DEF LadderSetCollateral, SetCollateral
    <3> HIDE DEF s, l, t
    <3>2. OnSetCollateral(s, p, limit).resting = s.resting
      BY <2>6 DEF OnSetCollateral, AuctionState
    <3> QED BY <2>4, <3>1, <3>2
  <2>9. ASSUME NEW p \in Participants, NEW k \in Keys, NEW qty \in Quantities,
               NEW expected \in Expected, LadderTake(ts, p, k, qty, expected)
        PROVE  Mirror(ladder', t.resting, exact)
    <3>1. /\ t = OnBid(s, k, TakeRefusal(s, p, qty, expected), AdmitTake(s, p, k, qty))
          /\ ladder' = Cleared(l, t)
      BY <2>9 DEF LadderTake, SubmitTake
    <3>2. qty \in Nat
      BY AuctionAssumption, WidthsAssumption DEF U64
    <3> HIDE DEF s, l, t
    <3>3. t.status # "Cleared" => t.resting = s.resting
      BY <2>3, <3>1, <3>2, TakeKeepsResting
    <3> QED BY <2>4, <2>5, <3>1, <3>3, ClearedMirrors
  <2>10. ASSUME NEW p \in Participants, NEW k \in Keys, NEW qty \in Quantities,
                NEW limit \in Limits, LadderResting(ts, p, k, qty, limit)
         PROVE  Mirror(ladder', t.resting, exact)
    <3>1. /\ t = OnBid(s, k, RestingRefusal(s, p, qty, limit), AdmitResting(s, p, k, qty, limit))
          /\ ladder' = IF t.admitted = s.admitted THEN l ELSE L!Insert(l, Bid(k, t.resting[k]))
      BY <2>10 DEF LadderResting, SubmitResting
    <3>2. qty \in Nat /\ limit \in Int
      BY AuctionAssumption, WidthsAssumption DEF U64, I64
    <3>3. exact => UnitsOf(t.resting) <= U64Max
      OBVIOUS
    <3> HIDE DEF s, l, t
    <3> QED BY <2>3, <2>4, <3>1, <3>2, <3>3, RestingMirrors
  <2>11. ASSUME NEW p \in Participants, NEW k \in Keys, LadderCancelResting(ts, p, k)
         PROVE  Mirror(ladder', t.resting, exact)
    <3>1. t = OnCancelResting(s, p, k) /\ ladder' = L!Remove(l, p, k)
      BY <2>11 DEF LadderCancelResting, CancelResting
    <3> HIDE DEF s, l, t
    <3> QED BY <2>3, <2>4, <3>1, CancelRestingMirrors
  <2>12. CASE LadderTick(ts)
    <3> DEFINE drained == L!DrainTriggered(l, Price(s.now))
               matched == IF BatchWindow = 0 THEN Flushed(drained, TriggeredState(s)) ELSE drained
    <3>1. /\ t = OnTick(s)
          /\ ladder' = IF AcceptsBids(s) THEN Cleared(matched, t) ELSE l
      BY <2>12 DEF LadderTick, Tick, TriggeredState
    <3>2. CASE s.status = "Live"
      <4> HIDE DEF s, l, t
      <4>1. Mirror(Cleared(matched, OnTick(s)), OnTick(s).resting, exact)
        BY <2>3, <2>4, <3>2, TickMirrors
      <4> QED BY <3>1, <3>2, <4>1 DEF AcceptsBids, t
    <3>3. CASE s.status # "Live"
      <4> HIDE DEF s, l, t
      <4>1. t = s
        BY <3>1, <3>3 DEF OnTick, AcceptsBids
      <4> QED BY <2>4, <3>1, <3>3, <4>1 DEF AcceptsBids, t
    <3> QED BY <3>2, <3>3
  <2>13. CASE LadderCancel(ts)
    <3>1. t = OnCancel(s) /\ ladder' = IF IsTerminal(s) THEN l ELSE L!DrainAll(l)
      BY <2>13 DEF LadderCancel, Cancel
    <3> HIDE DEF s, l, t
    <3>2. CASE IsTerminal(s)
      <4>1. t = s
        BY <3>1, <3>2 DEF OnCancel
      <4> QED BY <2>4, <3>1, <3>2, <4>1 DEF t
    <3>3. CASE ~IsTerminal(s)
      <4>1. t.resting = Nothing
        BY <2>6, <3>1, <3>3 DEF OnCancel, RefundWindow, AuctionState
      <4> QED BY <3>1, <3>3, <4>1, EmptyMirrors DEF L!DrainAll, t
    <3> QED BY <3>2, <3>3
  <2> HIDE DEF t
  <2>14. Mirror(ladder', t.resting, exact)
    BY <2>1, <2>7, <2>8, <2>9, <2>10, <2>11, <2>12, <2>13 DEF t
  <2> QED BY <2>14 DEF t
<1> QED BY <1>1, <1>2

-----------------------------------------------------------------------------
(* The theorems. *)

(* The composition does to the auction what Auction does, so whatever is   *)
(* proved of the auction holds of it with its ladder.                      *)
THEOREM LadderImplementsAuction == LadderSpec => Spec
<1>1. LadderInit => Init
  BY DEF LadderInit
<1>2. [LadderNext]_vars => [Next]_auction
  BY LadderStepIsStep DEF vars
<1> QED BY <1>1, <1>2, PTL DEF LadderSpec, Spec

LEMMA NewLadderMirrors == \A exact : Mirror(L!Empty, NewAuction.resting, exact)
<1>1. NewAuction.resting = Nothing
  BY DEF NewAuction
<1> QED BY <1>1, EmptyMirrors

LadderInv == SafetyInv /\ Mirror(ladder, auction.resting, FALSE)

(* The levels of the ladder are always the queues of the bids that rest.   *)
THEOREM LadderAlwaysMirrors == LadderSpec => []LadderInv
<1>1. LadderInit => LadderInv
  BY NewAuctionSound, NewLadderMirrors DEF LadderInit, Init, LadderInv, SafetyInv
<1>2. LadderInv /\ [LadderNext]_vars => LadderInv'
  <2> SUFFICES ASSUME LadderInv, [LadderNext]_vars PROVE LadderInv'
    OBVIOUS
  <2>1. SafetyInv /\ Mirror(ladder, auction.resting, FALSE)
    BY DEF LadderInv
  <2>2. [Next]_auction
    BY LadderStepIsStep DEF vars
  <2>3. SafetyInv'
    BY <2>1, <2>2, NextSound DEF SafetyInv
  <2>4. Mirror(ladder', auction'.resting, FALSE)
    BY <2>1, LadderStepMirrors
  <2> QED BY <2>3, <2>4 DEF LadderInv
<1> QED BY <1>1, <1>2, PTL DEF LadderSpec

(***************************************************************************)
(* The limit the engine wakes up for is one some bid rests at: no level    *)
(* outlives its last bid.                                                  *)
(***************************************************************************)
THEOREM NextTriggerAlwaysRests == LadderSpec => []NextTriggerRests
<1>1. LadderInv => NextTriggerRests
  <2> SUFFICES ASSUME LadderInv PROVE NextTriggerRests
    OBVIOUS
  <2>1. DOMAIN ladder.levels = RestingLimits(auction)
    BY DEF LadderInv, Mirror, Stores, RestingLimits
  <2> QED BY <2>1 DEF NextTriggerRests, L!NextTrigger, NextTrigger
<1> QED BY <1>1, LadderAlwaysMirrors, PTL

(***************************************************************************)
(* The ladder hands bids over highest limit first, and within a limit in   *)
(* order of arrival.                                                       *)
(***************************************************************************)
THEOREM LadderAlwaysKeepsPriority == LadderSpec => []LadderKeepsPriority
<1>1. LadderInv => LadderKeepsPriority
  <2> SUFFICES ASSUME LadderInv, NEW x \in Places, NEW y \in Places, L!HandedOverBefore(x, y)
               PROVE  \/ At(x).limit > At(y).limit
                      \/ At(x).limit = At(y).limit /\ At(x).seq < At(y).seq
    BY DEF LadderKeepsPriority
  <2> DEFINE levels == ladder.levels
             bids == auction.resting
  <2>1. Stores(levels, bids) /\ bids \in BidMap
    BY RestingIsMap DEF LadderInv, SafetyInv, Mirror
  <2>2. x \in L!Places(levels) /\ y \in L!Places(levels)
        /\ At(x) = L!At(levels, x) /\ At(y) = L!At(levels, y)
    BY DEF Places, At
  <2> HIDE DEF levels, bids
  <2>3. At(x).limit = x[1] /\ At(y).limit = y[1]
    BY <2>1, <2>2, PlaceOfBid
  <2>4. CASE x[1] > y[1]
    BY <2>3, <2>4
  <2>5. CASE x[1] = y[1] /\ x[2] < y[2]
    <3> DEFINE q == levels[x[1]]
               i == x[2]
               j == y[2]
    <3>1. /\ x[1] \in DOMAIN levels /\ i \in 1..Len(q) /\ j \in 1..Len(q)
          /\ At(x) = q[i] /\ At(y) = q[j]
      BY <2>1, <2>2, <2>5, PlacesOf
    <3>2. InOrder(q)
      BY <2>1, <3>1 DEF Stores, Queue
    <3> HIDE DEF q, i, j
    <3>3. q[i].seq < q[j].seq
      BY <2>5, <3>1, <3>2 DEF InOrder, i, j
    <3> QED BY <2>3, <2>5, <3>1, <3>3
  <2> QED BY <2>4, <2>5 DEF L!HandedOverBefore
<1> QED BY <1>1, LadderAlwaysMirrors, PTL

(* The ladder holds the bids that rest, each once. *)
LadderHoldsBids ==
  /\ {At(x) : x \in Places} = {Bid(k, auction.resting[k]) : k \in Present(auction.resting)}
  /\ Cardinality(Places) = Cardinality(Present(auction.resting))

LEMMA StoredIsHeld ==
  LadderInv => LadderHoldsBids /\ L!Units(ladder.levels) = UnitsOf(auction.resting)
<1> SUFFICES ASSUME LadderInv
             PROVE  LadderHoldsBids /\ L!Units(ladder.levels) = UnitsOf(auction.resting)
  OBVIOUS
<1>1. Stores(ladder.levels, auction.resting) /\ auction.resting \in BidMap
  BY RestingIsMap DEF LadderInv, SafetyInv, Mirror
<1> QED BY <1>1, PlacesCounted DEF LadderHoldsBids, Places, At

(***************************************************************************)
(* No bid is left behind on the ladder, dropped from it or held twice,     *)
(* whatever the quantities are.                                            *)
(***************************************************************************)
THEOREM LadderAlwaysHoldsBids == LadderSpec => []LadderHoldsBids
<1>1. LadderInv => LadderHoldsBids
  BY StoredIsHeld
<1> QED BY <1>1, LadderAlwaysMirrors, PTL

(* What rests fits the u64 the ladder counts it in. *)
RestingFits == UnitsOf(auction.resting) <= U64Max

(***************************************************************************)
(* And the running total is the sum of what rests, in every run in which   *)
(* that sum fits a u64: past u64::MAX the saturating_add of insert() loses *)
(* units, which no later step finds again.                                 *)
(***************************************************************************)
THEOREM LadderAlwaysHolds == LadderSpec /\ []RestingFits => []LadderHoldsResting
<1> DEFINE Exact == Mirror(ladder, auction.resting, TRUE)
<1>1. LadderInit => Exact
  BY NewLadderMirrors DEF LadderInit, Init
<1>2. LadderInv /\ Exact /\ RestingFits' /\ [LadderNext]_vars => Exact'
  <2> SUFFICES ASSUME LadderInv, Exact, RestingFits', [LadderNext]_vars PROVE Exact'
    OBVIOUS
  <2>1. UnitsOf(auction'.resting) <= U64Max
    BY DEF RestingFits
  <2>2. Mirror(ladder', auction'.resting, TRUE)
    BY <2>1, LadderStepMirrors DEF LadderInv
  <2> QED BY <2>2
<1>3. LadderInv /\ Exact => LadderHoldsResting
  BY StoredIsHeld DEF Mirror, LadderHoldsResting, LadderHoldsBids
<1> HIDE DEF Exact
<1> QED BY <1>1, <1>2, <1>3, LadderAlwaysMirrors, PTL DEF LadderSpec
=============================================================================
