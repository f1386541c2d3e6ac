--------------------------- MODULE MatchLoopProofs ---------------------------
(***************************************************************************)
(* Theorems about the loops of flush_window and allocate, for every window *)
(* of bids and every supply: they compute Allocate, and what they compute  *)
(* respects priority.                                                      *)
(***************************************************************************)
EXTENDS MatchLoop, CoreTheorems

LEMMA BidsWellFormed ==
  ASSUME NEW b \in Bids
  PROVE  /\ WellFormed(b) /\ \A k \in Present(b) : b[k].seq = k
         /\ Present(b) \subseteq Keys /\ IsFiniteSet(Present(b))
<1>1. \A k \in Present(b) : /\ k \in Keys /\ b[k].seq = k
                            /\ b[k] \in [qty : Quantities, priority : Priorities, seq : Keys]
  BY DEF Bids, Present
<1>2. IsFiniteSet(Present(b))
  BY KeysAssumption, FS_Subset DEF Present
<1>3. \A k \in Present(b) : b[k].qty \in Nat \ {0} /\ b[k].priority \in Int /\ b[k].seq \in Nat
  BY <1>1, MatchLoopAssumption
<1> QED BY <1>1, <1>2, <1>3 DEF WellFormed

-----------------------------------------------------------------------------
(* The sort. *)

(* sort_by ranks the bids in a strict total order. *)
LEMMA BetterIsAnOrder ==
  ASSUME NEW b \in Bids, NEW x \in Present(b), NEW y \in Present(b), NEW z \in Present(b)
  PROVE  /\ ~Better(b, x, x) /\ ~(Better(b, x, y) /\ Better(b, y, x))
         /\ x # y => Better(b, x, y) \/ Better(b, y, x)
         /\ Better(b, x, y) /\ Better(b, y, z) => Better(b, x, z)
<1>1. \A k \in Present(b) : b[k].priority \in Int /\ b[k].seq \in Nat /\ b[k].seq = k
  BY BidsWellFormed DEF WellFormed
<1> QED BY <1>1 DEF Better

(* s lists every bid, the better ones first. *)
Ordered(b, s) ==
  /\ s \in Seq(Present(b)) /\ Len(s) \in Nat
  /\ \A k \in Present(b) : \E p \in 1..Len(s) : s[p] = k
  /\ \A p, q \in 1..Len(s) : p < q => Better(b, s[p], s[q])

(* A list of the right length without repetition has every bid. *)
LEMMA SeqsAreOnto ==
  ASSUME NEW S, IsFiniteSet(S), NEW s \in SetToSeqs(S)
  PROVE  /\ s \in [1..Cardinality(S) -> S] /\ Cardinality(S) \in Nat
         /\ \A k \in S : \E p \in 1..Cardinality(S) : s[p] = k
<1> DEFINE n == Cardinality(S)
<1>1. n \in Nat /\ IsFiniteSet(1..n) /\ Cardinality(1..n) = n
  BY FS_CardinalityType, FS_Interval
<1>2. s \in [1..n -> S] /\ \A p, q \in 1..n : p # q => s[p] # s[q]
  BY DEF SetToSeqs
<1>3. s \in Injection(1..n, S)
  BY <1>2 DEF Injection, IsInjective
<1>4. s \in Surjection(1..n, S)
  BY <1>1, <1>3, FS_Injection
<1> QED BY <1>1, <1>2, <1>4 DEF Surjection

LEMMA SortedIsOrdered ==
  ASSUME NEW b \in Bids
  PROVE  Ordered(b, Sorted(b))
<1> DEFINE P == Present(b)
           n == Cardinality(P)
           Ahd(k) == {x \in P : Better(b, x, k)}
           rank == [k \in P |-> Cardinality(Ahd(k)) + 1]
           In(t) == \A p, q \in DOMAIN t : p < q => Better(b, t[p], t[q])
<1>1. IsFiniteSet(P) /\ n \in Nat /\ IsFiniteSet(1..n) /\ Cardinality(1..n) = n
  BY BidsWellFormed, FS_CardinalityType, FS_Interval
<1>2. ASSUME NEW k \in P
      PROVE  IsFiniteSet(Ahd(k)) /\ Cardinality(Ahd(k)) \in Nat /\ Cardinality(Ahd(k)) < n
  <2>1. Ahd(k) \subseteq P /\ Ahd(k) # P
    BY BetterIsAnOrder
  <2> HIDE DEF P, Ahd
  <2>2. /\ IsFiniteSet(Ahd(k)) /\ Cardinality(Ahd(k)) \in Nat
        /\ Cardinality(Ahd(k)) <= n /\ n # Cardinality(Ahd(k))
    BY <1>1, <2>1, FS_Subset, FS_CardinalityType
  <2> QED BY <1>1, <2>2
<1>3. ASSUME NEW x \in P, NEW y \in P, Better(b, x, y) PROVE rank[x] < rank[y]
  <2>1. Ahd(x) \subseteq Ahd(y) /\ x \in Ahd(y) /\ x \notin Ahd(x)
    BY <1>3, BetterIsAnOrder
  <2>2. Cardinality(Ahd(x)) \in Nat /\ Cardinality(Ahd(y)) \in Nat /\ IsFiniteSet(Ahd(y))
    BY <1>2
  <2>3. rank[x] = Cardinality(Ahd(x)) + 1 /\ rank[y] = Cardinality(Ahd(y)) + 1
    OBVIOUS
  <2> HIDE DEF rank, Ahd
  <2>4. Cardinality(Ahd(x)) <= Cardinality(Ahd(y)) /\ Cardinality(Ahd(y)) # Cardinality(Ahd(x))
    BY <2>1, <2>2, FS_Subset
  <2> QED BY <2>2, <2>3, <2>4
<1>4. \A k \in P : rank[k] \in 1..n
  <2> TAKE k \in P
  <2>1. rank[k] = Cardinality(Ahd(k)) + 1
    OBVIOUS
  <2>2. Cardinality(Ahd(k)) \in Nat /\ Cardinality(Ahd(k)) < n
    BY <1>2
  <2> HIDE DEF rank, Ahd, n
  <2> QED BY <1>1, <2>1, <2>2
<1>5. rank \in [P -> 1..n]
  BY <1>4
<1>6. \A x, y \in P : rank[x] = rank[y] => x = y
  <2> SUFFICES ASSUME NEW x \in P, NEW y \in P, x # y PROVE rank[x] # rank[y]
    OBVIOUS
  <2>1. Better(b, x, y) \/ Better(b, y, x)
    BY BetterIsAnOrder
  <2>2. rank[x] < rank[y] \/ rank[y] < rank[x]
    BY <1>3, <2>1
  <2> QED BY <1>4, <2>2
<1> HIDE DEF rank
<1>7. rank \in Surjection(P, 1..n)
  <2>1. rank \in Injection(P, 1..n)
    BY <1>5, <1>6 DEF Injection, IsInjective
  <2> HIDE DEF P
  <2> QED BY <1>1, <2>1, FS_Injection
<1>8. \E s \in SetToSeqs(P) : In(s)
  <2> DEFINE s == [p \in 1..n |-> CHOOSE k \in P : rank[k] = p]
  <2>1. \A p \in 1..n : s[p] \in P /\ rank[s[p]] = p
    BY <1>7 DEF Surjection
  <2>2. s \in [1..n -> P] /\ DOMAIN s = 1..n
    BY <2>1
  <2> HIDE DEF s
  <2>3. s \in SetToSeqs(P)
    BY <2>1, <2>2 DEF SetToSeqs
  <2>4. ASSUME NEW p \in 1..n, NEW q \in 1..n, p < q PROVE Better(b, s[p], s[q])
    <3>1. s[p] # s[q] /\ ~Better(b, s[q], s[p])
      BY <1>1, <1>3, <2>1, <2>4
    <3> QED BY <2>1, <3>1, BetterIsAnOrder
  <2> QED BY <2>2, <2>3, <2>4
<1>9. Sorted(b) \in SetToSeqs(P) /\ In(Sorted(b))
  BY <1>8 DEF Sorted
<1> DEFINE t == Sorted(b)
<1>10. t \in [1..n -> P] /\ \A k \in P : \E p \in 1..n : t[p] = k
  BY <1>1, <1>9, SeqsAreOnto
<1>11. \A p, q \in 1..n : p < q => Better(b, t[p], t[q])
  BY <1>9, <1>10
<1> HIDE DEF t
<1>12. t \in Seq(P) /\ Len(t) = n
  <2> HIDE DEF P, n
  <2> QED BY <1>1, <1>10
<1> QED BY <1>1, <1>10, <1>11, <1>12 DEF Ordered, t

-----------------------------------------------------------------------------
(* The levels. *)

(* A position where one level ends and the next begins. *)
Cut(b, s, p) ==
  /\ p \in 1..(Len(s) + 1)
  /\ \A x, y \in 1..Len(s) : x < p /\ p <= y => b[s[x]].priority > b[s[y]].priority

(* The bids at positions from..to - 1 of s. *)
Slice(s, from, to) == {s[p] : p \in from..(to - 1)}

(***************************************************************************)
(* While a level is shared out, every bid of it has its floored share, the *)
(* ones already passed have one unit more, and the units left are the      *)
(* rounding remainder less the bids passed.                                *)
(***************************************************************************)
Sharing(b, s, from, to, at, l, a, r) ==
  LET K == Level(b, s[from])
  IN  /\ Slice(s, from, to) = K
      /\ r < Demand(b, K)
      /\ at \in from..to
      /\ l \in Nat /\ l = RoundingRemainder(b, r, K) - (at - from)
      /\ \A p \in from..(to - 1) :
           a[s[p]] = Share(b, r, s[p]) + (IF p < at THEN 1 ELSE 0)

(***************************************************************************)
(* The loop invariant: the bids before i have their final allocation and   *)
(* what they took is deducted, the ones from j on have nothing yet, and    *)
(* the level between them, if any, is being shared out.                    *)
(***************************************************************************)
LoopInv ==
  /\ bids \in Bids /\ supply \in Nat /\ Ordered(bids, order)
  /\ Cut(bids, order, i) /\ Cut(bids, order, j) /\ i <= j
  /\ allocs \in [Keys -> Nat]
  /\ remaining = Monus(supply, Demand(bids, Slice(order, 1, i)))
  /\ \A k \in Slice(order, 1, i) : allocs[k] = Allocation(bids, supply, k)
  /\ \A k \in Keys \ Slice(order, 1, j) : allocs[k] = 0
  /\ i < j => Sharing(bids, order, i, j, m, left, allocs, remaining)

(* A list in order repeats nothing. *)
LEMMA OrderedIsInjective ==
  ASSUME NEW b \in Bids, NEW s, Ordered(b, s)
  PROVE  /\ Len(s) \in Nat
         /\ \A p \in 1..Len(s) : s[p] \in Present(b)
         /\ \A p, q \in 1..Len(s) : s[p] = s[q] => p = q
<1>1. Len(s) \in Nat /\ \A p \in 1..Len(s) : s[p] \in Present(b)
  BY DEF Ordered
<1>2. ASSUME NEW p \in 1..Len(s), NEW q \in 1..Len(s), p < q PROVE s[p] # s[q]
  BY <1>1, <1>2, BetterIsAnOrder DEF Ordered
<1> QED BY <1>1, <1>2

(* Priorities fall along the list; at equal ones arrivals rise. *)
LEMMA OrderedFalls ==
  ASSUME NEW b \in Bids, NEW s, Ordered(b, s),
         NEW p \in 1..Len(s), NEW q \in 1..Len(s), p <= q
  PROVE  /\ b[s[p]].priority \in Int /\ b[s[q]].priority \in Int
         /\ b[s[p]].seq \in Nat /\ b[s[q]].seq \in Nat
         /\ b[s[p]].priority >= b[s[q]].priority
         /\ p < q /\ b[s[p]].priority = b[s[q]].priority => b[s[p]].seq < b[s[q]].seq
<1>1. s[p] \in Present(b) /\ s[q] \in Present(b)
  BY OrderedIsInjective
<1>2. \A k \in Present(b) : b[k].priority \in Int /\ b[k].seq \in Nat
  BY BidsWellFormed DEF WellFormed
<1>3. p < q => Better(b, s[p], s[q])
  BY DEF Ordered
<1>4. p = q => s[p] = s[q]
  OBVIOUS
<1>5. Len(s) \in Nat /\ (p < q \/ p = q)
  BY OrderedIsInjective
<1> QED BY <1>1, <1>2, <1>3, <1>4, <1>5 DEF Better

LEMMA SliceIsPresent ==
  ASSUME NEW b \in Bids, NEW s, Ordered(b, s),
         NEW f \in 1..(Len(s) + 1), NEW e \in f..(Len(s) + 1)
  PROVE  /\ Slice(s, f, e) \subseteq Present(b) /\ IsFiniteSet(Slice(s, f, e))
         /\ Cardinality(Slice(s, f, e)) = e - f
<1>1. /\ Len(s) \in Nat /\ f \in Nat /\ e \in Nat
      /\ \A p \in f..(e - 1) : p \in 1..Len(s) /\ s[p] \in Present(b)
  BY OrderedIsInjective
<1>2. Slice(s, f, e) \subseteq Present(b)
  BY <1>1 DEF Slice
<1>3. IsFiniteSet(f..(e - 1)) /\ Cardinality(f..(e - 1)) = e - f
  <2> DEFINE l == e - 1
  <2>1. f \in Int /\ l \in Int /\ e - f = (IF f > l THEN 0 ELSE l - f + 1)
    BY <1>1
  <2> HIDE DEF l
  <2>2. IsFiniteSet(f..l) /\ Cardinality(f..l) = IF f > l THEN 0 ELSE l - f + 1
    BY <2>1, FS_Interval
  <2> QED BY <2>1, <2>2 DEF l
<1> DEFINE T == Slice(s, f, e)
           g == [p \in f..(e - 1) |-> s[p]]
<1>4. g \in [f..(e - 1) -> T] /\ (\A x \in T : \E p \in f..(e - 1) : g[p] = x)
      /\ \A p, q \in f..(e - 1) : g[p] = g[q] => p = q
  BY <1>1, OrderedIsInjective DEF Slice
<1> HIDE DEF T, g
<1>5. g \in Bijection(f..(e - 1), T)
  BY <1>4 DEF Bijection, Injection, Surjection, IsInjective
<1>6. IsFiniteSet(T) /\ Cardinality(T) = e - f
  BY <1>3, <1>5, FS_Bijection DEF ExistsBijection
<1> QED BY <1>2, <1>6 DEF T

(* One past the last bid of the level that begins at f, as LevelEnd finds it. *)
EndOf(b, s, f) ==
  Min({p \in f..(Len(s) + 1) : p = Len(s) + 1 \/ b[s[p]].priority # b[s[f]].priority})

(* From a cut, LevelEnd finds the next one. *)
LEMMA LevelEndIsNextCut ==
  ASSUME NEW b \in Bids, NEW s, Ordered(b, s), NEW f \in 1..Len(s), Cut(b, s, f)
  PROVE  LET e == EndOf(b, s, f)
         IN  /\ e \in Nat /\ f < e /\ Cut(b, s, e)
             /\ \A p \in f..(e - 1) : b[s[p]].priority = b[s[f]].priority
<1> DEFINE n == Len(s)
           v(p) == b[s[p]].priority
           E == {p \in f..(n + 1) : p = n + 1 \/ v(p) # v(f)}
           id == [p \in E |-> p]
           e == EndOf(b, s, f)
<1>1. n \in Nat /\ f \in Nat /\ f <= n /\ n + 1 \in E /\ f # n + 1
  BY OrderedIsInjective
<1>2. \E x \in E : \A y \in E : x <= y
  <2>1. IsFiniteSet(f..(n + 1))
    BY <1>1, FS_Interval
  <2>2. IsFiniteSet(E)
    BY <2>1, FS_Subset
  <2>3. E # {} /\ \A x \in E : x \in Int /\ id[x] = x
    BY <1>1
  <2> HIDE DEF E, id
  <2>4. \E x \in E : \A y \in E : id[x] <= id[y]
    <3>1. \A x \in E : id[x] \in Int
      BY <2>3
    <3> QED BY <2>2, <2>3, <3>1, Least
  <2> QED BY <2>3, <2>4
<1>3. e = Min(E)
  BY DEF EndOf
<1>4. e \in E /\ \A y \in E : e <= y
  <2> HIDE DEF E, e
  <2> QED BY <1>2, <1>3 DEF Min
<1> HIDE DEF e
<1>5. e \in f..(n + 1) /\ (e = n + 1 \/ v(e) # v(f)) /\ e # f
  BY <1>1, <1>4
<1>6. ASSUME NEW p \in f..(e - 1) PROVE p \in 1..n /\ v(p) = v(f)
  <2>1. p \in f..(n + 1) /\ p # n + 1 /\ ~(e <= p) /\ p \in 1..n
    BY <1>1, <1>5
  <2>2. p \notin E
    BY <1>4, <2>1
  <2> QED BY <2>1, <2>2
<1>7. ASSUME NEW x \in 1..n, NEW y \in 1..n, x < e, e <= y PROVE v(x) > v(y)
  <2>1. e \in 1..n /\ v(e) # v(f) /\ f <= e
    BY <1>1, <1>5, <1>7
  <2>2. v(e) \in Int /\ v(f) \in Int /\ v(f) >= v(e) /\ v(y) \in Int /\ v(e) >= v(y)
    BY <1>1, <1>7, <2>1, OrderedFalls
  <2>3. v(f) > v(y)
    BY <2>1, <2>2
  <2>4. CASE x < f
    <3>1. f <= y
      BY <1>1, <1>7, <2>1
    <3> QED BY <1>7, <2>4, <3>1 DEF Cut
  <2>5. CASE ~(x < f)
    <3>1. x \in f..(e - 1)
      BY <1>1, <1>5, <1>7, <2>5
    <3> QED BY <1>6, <2>3, <3>1
  <2> QED BY <2>4, <2>5
<1>8. e \in Nat /\ f < e /\ e \in 1..(n + 1)
  BY <1>1, <1>5
<1>9. Cut(b, s, e)
  BY <1>7, <1>8 DEF Cut
<1> QED BY <1>6, <1>8, <1>9 DEF e

(***************************************************************************)
(* What lies between two successive cuts is a level, what lies before is   *)
(* above it, and within it the bids ahead of one are the ones listed       *)
(* before it.                                                              *)
(***************************************************************************)
LEMMA LevelIsSlice ==
  ASSUME NEW b \in Bids, NEW s, Ordered(b, s), NEW f \in 1..Len(s), Cut(b, s, f),
         NEW e \in Nat, f < e, Cut(b, s, e),
         \A p \in f..(e - 1) : b[s[p]].priority = b[s[f]].priority
  PROVE  /\ Slice(s, f, e) = Level(b, s[f])
         /\ Slice(s, 1, f) = Above(b, s[f])
<1> DEFINE n == Len(s)
           v(p) == b[s[p]].priority
<1>1. n \in Nat /\ f \in Nat /\ f < e /\ e <= n + 1 /\ \A p \in 1..n : s[p] \in Present(b)
  BY OrderedIsInjective DEF Cut
<1>2. \A p \in 1..n : v(p) \in Int
  BY OrderedFalls, <1>1
<1>3. ASSUME NEW p \in 1..n
      PROVE  /\ p < f => v(p) > v(f)
             /\ f <= p /\ p < e => v(p) = v(f)
             /\ e <= p => v(p) < v(f)
  <2>1. p < f => v(p) > v(f)
    BY <1>1 DEF Cut
  <2>2. f <= p /\ p < e => p \in f..(e - 1)
    BY <1>1
  <2>3. e <= p => v(f) > v(p)
    BY <1>1 DEF Cut
  <2> QED BY <1>1, <1>2, <2>1, <2>2, <2>3
<1>4. \A k \in Present(b) : \E p \in 1..n : s[p] = k
  BY DEF Ordered
<1>5. Slice(s, f, e) \subseteq Level(b, s[f])
  <2> SUFFICES ASSUME NEW p \in f..(e - 1) PROVE s[p] \in Level(b, s[f])
    BY DEF Slice
  <2>1. p \in 1..n /\ f <= p /\ p < e
    BY <1>1
  <2> QED BY <1>1, <1>3, <2>1 DEF Level
<1>6. Level(b, s[f]) \subseteq Slice(s, f, e)
  <2> SUFFICES ASSUME NEW k \in Level(b, s[f]) PROVE k \in Slice(s, f, e)
    OBVIOUS
  <2>1. PICK p \in 1..n : s[p] = k
    BY <1>4 DEF Level
  <2>2. v(p) = v(f)
    BY <2>1 DEF Level
  <2>3. p \in f..(e - 1)
    BY <1>1, <1>2, <1>3, <2>2
  <2> QED BY <2>1, <2>3 DEF Slice
<1>7. Slice(s, 1, f) \subseteq Above(b, s[f])
  <2> SUFFICES ASSUME NEW p \in 1..(f - 1) PROVE s[p] \in Above(b, s[f])
    BY DEF Slice
  <2>1. p \in 1..n /\ p < f
    BY <1>1
  <2> QED BY <1>1, <1>3, <2>1 DEF Above
<1>8. Above(b, s[f]) \subseteq Slice(s, 1, f)
  <2> SUFFICES ASSUME NEW k \in Above(b, s[f]) PROVE k \in Slice(s, 1, f)
    OBVIOUS
  <2>1. PICK p \in 1..n : s[p] = k
    BY <1>4 DEF Above
  <2>2. v(p) > v(f)
    BY <2>1 DEF Above
  <2>3. p \in 1..(f - 1)
    BY <1>1, <1>2, <1>3, <2>2
  <2> QED BY <2>1, <2>3 DEF Slice
<1> QED BY <1>5, <1>6, <1>7, <1>8

(* The bids ahead of one in its level are the ones listed before it. *)
LEMMA AheadIsSlice ==
  ASSUME NEW b \in Bids, NEW s, Ordered(b, s), NEW f \in 1..Len(s), NEW e \in f..(Len(s) + 1),
         Slice(s, f, e) = Level(b, s[f]), NEW p \in f..(e - 1)
  PROVE  /\ Level(b, s[p]) = Level(b, s[f]) /\ s[p] \in Level(b, s[f])
         /\ Ahead(b, s[p]) = Slice(s, f, p)
<1> DEFINE n == Len(s)
<1>1. n \in Nat /\ f \in Nat /\ e \in Nat /\ p \in 1..n /\ p < e /\ f <= p /\ e <= n + 1
      /\ s[f] \in Present(b)
  BY OrderedIsInjective
<1>2. s[p] \in Level(b, s[f])
  BY DEF Slice
<1>3. Level(b, s[p]) = Level(b, s[f])
  BY <1>1, <1>2, SameLevel
<1>4. ASSUME NEW x \in f..(e - 1) PROVE (b[s[x]].seq < b[s[p]].seq) <=> x < p
  <2>1. x \in 1..n /\ s[x] \in Level(b, s[f])
    BY <1>1 DEF Slice
  <2>2. b[s[x]].priority = b[s[p]].priority
    BY <1>2, <2>1 DEF Level
  <2>3. CASE x < p
    BY <1>1, <2>1, <2>2, <2>3, OrderedFalls
  <2>4. CASE x = p
    BY <1>1, <2>1, <2>4, OrderedFalls
  <2>5. CASE p < x
    <3>1. b[s[p]].seq < b[s[x]].seq /\ b[s[p]].seq \in Nat /\ b[s[x]].seq \in Nat
      BY <1>1, <2>1, <2>2, <2>5, OrderedFalls
    <3> QED BY <1>1, <2>1, <2>5, <3>1
  <2> QED BY <1>1, <2>1, <2>3, <2>4, <2>5
<1>5. Ahead(b, s[p]) = {k \in Slice(s, f, e) : b[k].seq < b[s[p]].seq}
  BY <1>3 DEF Ahead
<1>6. {k \in Slice(s, f, e) : b[k].seq < b[s[p]].seq} = Slice(s, f, p)
  <2>1. \A x \in f..(p - 1) : x \in f..(e - 1) /\ x < p
    BY <1>1
  <2>2. \A x \in f..(e - 1) : x < p => x \in f..(p - 1)
    BY <1>1
  <2> QED BY <1>4, <2>1, <2>2 DEF Slice
<1> QED BY <1>2, <1>3, <1>5, <1>6

(* s[f] begins a level, which ends before e. *)
LevelAt(b, s, f, e) ==
  /\ f \in 1..Len(s) /\ e \in f..(Len(s) + 1) /\ f < e
  /\ Slice(s, f, e) = Level(b, s[f]) /\ Slice(s, 1, f) = Above(b, s[f])

LEMMA NextLevel ==
  ASSUME NEW b \in Bids, NEW s, Ordered(b, s), NEW f \in 1..Len(s), Cut(b, s, f)
  PROVE  LevelAt(b, s, f, EndOf(b, s, f)) /\ Cut(b, s, EndOf(b, s, f))
<1> DEFINE e == EndOf(b, s, f)
<1>1. /\ e \in Nat /\ f < e /\ Cut(b, s, e)
      /\ \A p \in f..(e - 1) : b[s[p]].priority = b[s[f]].priority
  BY LevelEndIsNextCut
<1> HIDE DEF e
<1>2. e \in f..(Len(s) + 1)
  BY <1>1, OrderedIsInjective DEF Cut
<1>3. Slice(s, f, e) = Level(b, s[f]) /\ Slice(s, 1, f) = Above(b, s[f])
  BY <1>1, LevelIsSlice
<1>4. LevelAt(b, s, f, e)
  BY <1>1, <1>2, <1>3 DEF LevelAt
<1> QED BY <1>1, <1>4 DEF e

LEMMA LevelBetweenCuts ==
  ASSUME NEW b \in Bids, NEW s, Ordered(b, s), NEW f, NEW e, Cut(b, s, f), Cut(b, s, e), f < e,
         Slice(s, f, e) = Level(b, s[f])
  PROVE  LevelAt(b, s, f, e)
<1>1. f \in 1..Len(s) /\ e \in Nat /\ e \in f..(Len(s) + 1)
  BY OrderedIsInjective DEF Cut
<1>2. \A p \in f..(e - 1) : b[s[p]].priority = b[s[f]].priority
  <2> TAKE p \in f..(e - 1)
  <2>1. s[p] \in Level(b, s[f])
    BY DEF Slice
  <2> QED BY <2>1 DEF Level
<1>3. Slice(s, 1, f) = Above(b, s[f])
  BY <1>1, <1>2, LevelIsSlice
<1> QED BY <1>1, <1>3 DEF LevelAt

(* A slice splits anywhere. *)
LEMMA SliceSplits ==
  ASSUME NEW b \in Bids, NEW s, Ordered(b, s),
         NEW f \in 1..(Len(s) + 1), NEW e \in f..(Len(s) + 1)
  PROVE  /\ Slice(s, 1, e) = Slice(s, 1, f) \cup Slice(s, f, e)
         /\ Slice(s, 1, f) \cap Slice(s, f, e) = {}
<1>1. Len(s) \in Nat /\ f \in Nat /\ e \in Nat /\ 1 <= f /\ f <= e /\ e <= Len(s) + 1
  BY OrderedIsInjective
<1>2. 1..(e - 1) = (1..(f - 1)) \cup (f..(e - 1))
  BY <1>1
<1>3. \A x \in 1..(f - 1), y \in f..(e - 1) : x \in 1..Len(s) /\ y \in 1..Len(s) /\ x # y
  BY <1>1
<1>4. \A x \in 1..(f - 1), y \in f..(e - 1) : s[x] # s[y]
  BY <1>3, OrderedIsInjective
<1>5. Slice(s, 1, f) \cap Slice(s, f, e) = {}
  BY <1>4 DEF Slice
<1>6. Slice(s, 1, e) = Slice(s, 1, f) \cup Slice(s, f, e)
  BY <1>2 DEF Slice
<1> QED BY <1>5, <1>6

(* The whole list is every bid of the window. *)
LEMMA WholeSlice ==
  ASSUME NEW b \in Bids, NEW s, Ordered(b, s)
  PROVE  Slice(s, 1, Len(s) + 1) = Present(b)
<1>1. 1..(Len(s) + 1 - 1) = 1..Len(s)
  BY OrderedIsInjective
<1> QED BY <1>1, OrderedIsInjective DEF Slice, Ordered

(* Demand of a level, of what is above it, and of both. *)
LEMMA LevelDemands ==
  ASSUME NEW b \in Bids, NEW s, Ordered(b, s), NEW f, NEW e, LevelAt(b, s, f, e)
  PROVE  /\ Demand(b, Slice(s, 1, f)) \in Nat
         /\ Demand(b, Slice(s, f, e)) \in Nat /\ Demand(b, Slice(s, f, e)) > 0
         /\ Demand(b, Slice(s, 1, e)) = Demand(b, Slice(s, 1, f)) + Demand(b, Slice(s, f, e))
<1> DEFINE c == s[f]
<1>1. f \in 1..Len(s) /\ c \in Present(b)
  BY OrderedIsInjective DEF LevelAt
<1>2. f \in 1..(Len(s) + 1) /\ e \in f..(Len(s) + 1)
  BY OrderedIsInjective DEF LevelAt
<1>3. Slice(s, 1, f) = Above(b, c) /\ Slice(s, f, e) = Level(b, c)
  BY DEF LevelAt
<1>4. Slice(s, 1, e) = UpTo(b, c)
  BY <1>2, <1>3, SliceSplits DEF UpTo
<1>5. WellFormed(b)
  BY BidsWellFormed
<1> QED BY <1>1, <1>3, <1>4, <1>5, DemandUpTo

(* The bids of a level see that level and what is above it. *)
LEMMA InLevel ==
  ASSUME NEW b \in Bids, NEW s, Ordered(b, s), NEW f, NEW e, LevelAt(b, s, f, e),
         NEW k \in Slice(s, f, e)
  PROVE  /\ k \in Present(b) /\ k \in Keys /\ k \notin Slice(s, 1, f)
         /\ b[k].qty \in Nat /\ b[k].qty > 0
         /\ Level(b, k) = Slice(s, f, e) /\ Above(b, k) = Slice(s, 1, f)
<1>1. f \in 1..(Len(s) + 1) /\ e \in f..(Len(s) + 1) /\ s[f] \in Present(b)
  BY OrderedIsInjective DEF LevelAt
<1>2. k \in Present(b) /\ k \in Keys /\ b[k].qty \in Nat /\ b[k].qty > 0
  BY <1>1, SliceIsPresent, BidsWellFormed DEF WellFormed
<1>3. k \notin Slice(s, 1, f)
  BY <1>1, SliceSplits
<1>4. Level(b, k) = Slice(s, f, e) /\ Above(b, k) = Slice(s, 1, f)
  BY <1>1, SameLevel DEF LevelAt
<1> QED BY <1>2, <1>3, <1>4

-----------------------------------------------------------------------------
(* What a level is allocated. *)

(* Either it fits in what is left for it, or that is shared out pro rata. *)
LEMMA LevelAllocation ==
  ASSUME NEW b \in Bids, NEW s, Ordered(b, s), NEW f, NEW e, LevelAt(b, s, f, e),
         NEW sup \in Nat, NEW k \in Slice(s, f, e)
  PROVE  LET r == Monus(sup, Demand(b, Slice(s, 1, f)))
             d == Demand(b, Slice(s, f, e))
         IN  /\ d <= r => Allocation(b, sup, k) = b[k].qty
             /\ r < d => Allocation(b, sup, k) = ProRata(b, r, k)
             /\ r = 0 => Allocation(b, sup, k) = 0
<1> DEFINE A == Demand(b, Slice(s, 1, f))
           d == Demand(b, Slice(s, f, e))
           r == Monus(sup, A)
<1>1. A \in Nat /\ d \in Nat /\ d > 0
  BY LevelDemands
<1>2. Allocation(b, sup, k) = IF d <= r THEN b[k].qty ELSE ProRata(b, r, k)
  BY InLevel DEF Allocation
<1>3. r = 0 => A >= sup
  <2> HIDE DEF A
  <2> QED BY <1>1 DEF Monus
<1>4. A >= sup => Allocation(b, sup, k) = 0
  <2>1. A = Demand(b, Above(b, k)) /\ k \in Present(b) /\ WellFormed(b)
    BY InLevel, BidsWellFormed
  <2> QED BY <2>1, BelowMargin
<1>5. r \in Nat
  BY <1>1 DEF Monus
<1>6. r < d => ~(d <= r)
  <2> HIDE DEF r, d
  <2> QED BY <1>1, <1>5
<1> QED BY <1>2, <1>3, <1>4, <1>6

(***************************************************************************)
(* At the margin no bid is saturated by its floored share, so the pass     *)
(* that hands out the remainder skips nobody: with R units over, the first *)
(* R bids of the level get one more.                                       *)
(***************************************************************************)
LEMMA MarginShares ==
  ASSUME NEW b \in Bids, NEW s, Ordered(b, s), NEW f, NEW e, LevelAt(b, s, f, e),
         NEW r \in Nat, r < Demand(b, Slice(s, f, e))
  PROVE  LET R == RoundingRemainder(b, r, Slice(s, f, e))
         IN  /\ R \in Nat /\ R <= e - f
             /\ \A p \in f..(e - 1) :
                  /\ Share(b, r, s[p]) \in Nat /\ Share(b, r, s[p]) < b[s[p]].qty
                  /\ ProRata(b, r, s[p]) = Share(b, r, s[p]) + (IF p < f + R THEN 1 ELSE 0)
<1> DEFINE K == Slice(s, f, e)
           sh == [k \in K |-> Share(b, r, k)]
           R == RoundingRemainder(b, r, K)
<1>1. /\ Len(s) \in Nat /\ f \in 1..Len(s) /\ f \in 1..(Len(s) + 1) /\ e \in f..(Len(s) + 1)
      /\ WellFormed(b) /\ f \in Nat /\ e \in Nat
  BY OrderedIsInjective, BidsWellFormed DEF LevelAt
<1>2. K \subseteq Present(b) /\ IsFiniteSet(K) /\ Cardinality(K) = e - f
  BY <1>1, SliceIsPresent
<1>3. \A k \in K : sh[k] = Share(b, r, k) /\ sh[k] = (r * b[k].qty) \div Demand(b, K)
  <2> TAKE k \in K
  <2>1. Level(b, k) = K
    BY InLevel
  <2> QED BY <2>1 DEF Share
<1>4. R = r - SumFunctionOnSet(sh, K)
  BY DEF RoundingRemainder
<1> HIDE DEF sh
<1>5. /\ \A k \in K : sh[k] \in Nat /\ sh[k] < b[k].qty
      /\ SumFunctionOnSet(sh, K) \in Nat /\ SumFunctionOnSet(sh, K) <= r
      /\ r - SumFunctionOnSet(sh, K) <= Cardinality(K)
  <2>1. r < Demand(b, K)
    OBVIOUS
  <2> HIDE DEF K
  <2> QED BY <1>1, <1>2, <1>3, <2>1, SharesLeaveRemainder
<1>6. R \in Nat /\ R <= e - f
  <2> HIDE DEF R, K
  <2> QED BY <1>2, <1>4, <1>5
<1>7. ASSUME NEW p \in f..(e - 1)
      PROVE  /\ Share(b, r, s[p]) \in Nat /\ Share(b, r, s[p]) < b[s[p]].qty
             /\ ProRata(b, r, s[p]) = Share(b, r, s[p]) + (IF p < f + R THEN 1 ELSE 0)
  <2> DEFINE k == s[p]
             A == Slice(s, f, p)
  <2>1. k \in K
    BY DEF Slice
  <2>2. Share(b, r, k) \in Nat /\ Share(b, r, k) < b[k].qty
    BY <1>3, <1>5, <2>1
  <2>3. Ahead(b, k) = A /\ Level(b, k) = K
    BY <1>1, <2>1, AheadIsSlice DEF LevelAt
  <2>4. p \in Nat /\ p \in f..(Len(s) + 1) /\ A \subseteq K
    BY <1>1 DEF Slice
  <2>5. Cardinality(A) = p - f
    BY <1>1, <2>4, SliceIsPresent
  <2>6. Unsaturated(b, r, A) = A /\ k \in Unsaturated(b, r, {k})
    BY <1>3, <1>5, <2>2, <2>4 DEF Unsaturated
  <2> HIDE DEF A, K, R
  <2>7. ProRata(b, r, k) = Share(b, r, k) + IF p - f < R THEN 1 ELSE 0
    BY <2>3, <2>5, <2>6 DEF ProRata, R
  <2>8. (p - f < R) <=> (p < f + R)
    BY <1>1, <1>6, <2>4
  <2> QED BY <2>2, <2>7, <2>8
<1> QED BY <1>6, <1>7

-----------------------------------------------------------------------------
(* The invariant holds. *)

LEMMA LoopInit == Init => LoopInv
<1> SUFFICES ASSUME Init PROVE LoopInv
  OBVIOUS
<1>1. /\ bids \in Bids /\ supply \in Nat /\ Ordered(bids, order) /\ i = 1 /\ j = 1
      /\ allocs = [k \in Keys |-> 0] /\ remaining = supply
  BY MatchLoopAssumption, SortedIsOrdered DEF Init
<1>2. Cut(bids, order, 1)
  BY <1>1, OrderedIsInjective DEF Cut
<1>3. Slice(order, 1, 1) = {}
  BY DEF Slice
<1>4. Demand(bids, {}) = 0
  <2>1. {} \subseteq Present(bids) /\ WellFormed(bids)
    BY <1>1, BidsWellFormed
  <2>2. Demand(bids, {}) = SumFunctionOnSet(Asked(bids), {})
    BY <2>1, DemandIsAsked
  <2> QED BY <2>2, SumEmpty
<1>5. remaining = Monus(supply, Demand(bids, Slice(order, 1, i)))
  BY <1>1, <1>3, <1>4 DEF Monus
<1> QED BY <1>1, <1>2, <1>3, <1>5 DEF LoopInv

(* The bids Between positions are a Slice of the order, LevelEnd is EndOf. *)
LEMMA SliceOfOrder ==
  /\ \A f, e : Between(f, e) = Slice(order, f, e)
  /\ \A f : LevelEnd(f) = EndOf(bids, order, f)
BY DEF Between, Slice, LevelEnd, EndOf, Len1

(* At the head of the outer loop, a whole level lies ahead. *)
LEMMA LevelAhead ==
  ASSUME LoopInv, i = j, i < Len1
  PROVE  /\ LevelAt(bids, order, i, LevelEnd(i)) /\ Cut(bids, order, LevelEnd(i))
         /\ i \in Nat /\ LevelEnd(i) \in Nat /\ i < LevelEnd(i)
<1>1. bids \in Bids /\ Ordered(bids, order) /\ Cut(bids, order, i)
  BY DEF LoopInv
<1>2. i \in 1..Len(order) /\ i \in Nat
  BY <1>1, OrderedIsInjective DEF Cut, Len1
<1>3. LevelAt(bids, order, i, EndOf(bids, order, i)) /\ Cut(bids, order, EndOf(bids, order, i))
  BY <1>1, <1>2, NextLevel
<1>4. EndOf(bids, order, i) \in Nat /\ i < EndOf(bids, order, i)
  BY <1>1, <1>2, <1>3, OrderedIsInjective DEF LevelAt
<1> QED BY <1>2, <1>3, <1>4, SliceOfOrder

LEMMA SkipLevelKeeps ==
  ASSUME LoopInv, SkipLevel
  PROVE  LoopInv'
<1> DEFINE e == LevelEnd(i)
           A == Demand(bids, Slice(order, 1, i))
           D == Demand(bids, Slice(order, i, e))
<1>1. /\ i = j /\ i < Len1 /\ remaining = 0 /\ i' = e /\ j' = e
      /\ UNCHANGED <<bids, supply, order, m, left, allocs, remaining>>
  BY DEF SkipLevel
<1>2. /\ bids \in Bids /\ supply \in Nat /\ Ordered(bids, order) /\ allocs \in [Keys -> Nat]
      /\ remaining = Monus(supply, A)
      /\ \A k \in Slice(order, 1, i) : allocs[k] = Allocation(bids, supply, k)
      /\ \A k \in Keys \ Slice(order, 1, j) : allocs[k] = 0
  BY DEF LoopInv
<1>3. LevelAt(bids, order, i, e) /\ Cut(bids, order, e) /\ e \in Nat
  BY <1>1, LevelAhead
<1> HIDE DEF e
<1>4. A \in Nat /\ D \in Nat /\ Demand(bids, Slice(order, 1, e)) = A + D
  BY <1>2, <1>3, LevelDemands
<1>5. Slice(order, 1, e) = Slice(order, 1, i) \cup Slice(order, i, e)
  <2>1. i \in 1..(Len(order) + 1) /\ e \in i..(Len(order) + 1)
    BY <1>2, <1>3, OrderedIsInjective DEF LevelAt
  <2> QED BY <1>2, <2>1, SliceSplits
<1>6. remaining = Monus(supply, Demand(bids, Slice(order, 1, e)))
  <2>1. Monus(supply, A) = 0
    BY <1>1, <1>2
  <2> HIDE DEF A, D
  <2>2. Monus(supply, A + D) = 0
    BY <1>2, <1>4, <2>1 DEF Monus
  <2> QED BY <1>1, <1>4, <2>2
<1>7. ASSUME NEW k \in Slice(order, i, e) PROVE allocs[k] = Allocation(bids, supply, k)
  <2>1. k \in Keys /\ k \notin Slice(order, 1, i)
    BY <1>2, <1>3, InLevel
  <2>2. allocs[k] = 0
    BY <1>1, <1>2, <2>1
  <2>3. Allocation(bids, supply, k) = 0
    BY <1>1, <1>2, <1>3, LevelAllocation
  <2> QED BY <2>2, <2>3
<1>8. /\ \A k \in Slice(order, 1, e) : allocs[k] = Allocation(bids, supply, k)
      /\ \A k \in Keys \ Slice(order, 1, e) : allocs[k] = 0
  BY <1>1, <1>2, <1>5, <1>7
<1> QED BY <1>1, <1>2, <1>3, <1>6, <1>8 DEF LoopInv

LEMMA FillLevelKeeps ==
  ASSUME LoopInv, FillLevel
  PROVE  LoopInv'
<1> DEFINE e == LevelEnd(i)
           K == Slice(order, i, e)
           A == Demand(bids, Slice(order, 1, i))
           D == Demand(bids, K)
<1>1. /\ i = j /\ i < Len1 /\ remaining > 0 /\ i' = e /\ j' = e /\ D <= remaining
      /\ allocs' = [k \in Keys |-> IF k \in K THEN bids[k].qty ELSE allocs[k]]
      /\ remaining' = Monus(remaining, D)
      /\ UNCHANGED <<bids, supply, order, m, left>>
  BY SliceOfOrder DEF FillLevel, LevelDemand
<1>2. /\ bids \in Bids /\ supply \in Nat /\ Ordered(bids, order) /\ allocs \in [Keys -> Nat]
      /\ remaining = Monus(supply, A)
      /\ \A k \in Slice(order, 1, i) : allocs[k] = Allocation(bids, supply, k)
      /\ \A k \in Keys \ Slice(order, 1, j) : allocs[k] = 0
  BY DEF LoopInv
<1>3. LevelAt(bids, order, i, e) /\ Cut(bids, order, e) /\ e \in Nat
  BY <1>1, LevelAhead
<1> HIDE DEF e
<1>4. A \in Nat /\ D \in Nat /\ Demand(bids, Slice(order, 1, e)) = A + D
  BY <1>2, <1>3, LevelDemands
<1>5. i \in 1..(Len(order) + 1) /\ e \in i..(Len(order) + 1)
  BY <1>2, <1>3, OrderedIsInjective DEF LevelAt
<1>6. Slice(order, 1, e) = Slice(order, 1, i) \cup K /\ Slice(order, 1, i) \cap K = {}
  BY <1>2, <1>5, SliceSplits
<1>7. remaining' = Monus(supply, Demand(bids, Slice(order, 1, e)))
  <2> HIDE DEF A, D
  <2> QED BY <1>1, <1>2, <1>4 DEF Monus
<1>8. ASSUME NEW k \in K PROVE k \in Keys /\ bids[k].qty \in Nat
                               /\ allocs'[k] = Allocation(bids, supply, k)
  <2>1. k \in Keys /\ bids[k].qty \in Nat
    BY <1>2, <1>3, InLevel
  <2>2. Allocation(bids, supply, k) = bids[k].qty
    BY <1>1, <1>2, <1>3, LevelAllocation
  <2> QED BY <1>1, <2>1, <2>2
<1>9. Slice(order, 1, i) \subseteq Keys
  <2>1. 1 \in 1..(Len(order) + 1) /\ i \in 1..(Len(order) + 1)
    BY <1>2, <1>5, OrderedIsInjective
  <2> QED BY <1>2, <2>1, SliceIsPresent, BidsWellFormed
<1> HIDE DEF K
<1>10. \A k \in Slice(order, 1, e) : allocs'[k] = Allocation(bids, supply, k)
  BY <1>1, <1>2, <1>6, <1>8, <1>9
<1>11. \A k \in Keys \ Slice(order, 1, e) : allocs'[k] = 0
  BY <1>1, <1>2, <1>6
<1>12. allocs' \in [Keys -> Nat]
  BY <1>1, <1>2, <1>8
<1> QED BY <1>1, <1>2, <1>3, <1>7, <1>10, <1>11, <1>12 DEF LoopInv

LEMMA ProRataLevelKeeps ==
  ASSUME LoopInv, ProRataLevel
  PROVE  LoopInv'
<1> DEFINE e == LevelEnd(i)
           K == Slice(order, i, e)
           r == remaining
           D == Demand(bids, K)
           a == FloorShares(e)
           sh == [k \in K |-> Share(bids, r, k)]
<1>1. /\ i = j /\ i < Len1 /\ j' = e /\ m' = i /\ r < D
      /\ allocs' = a /\ left' = r - SumFunctionOnSet(a, K)
      /\ UNCHANGED <<bids, supply, order, i, remaining>>
  <2>1. D > r /\ K = Between(i, e)
    BY SliceOfOrder DEF ProRataLevel, LevelDemand
  <2> QED BY <2>1 DEF ProRataLevel
<1>2. /\ bids \in Bids /\ supply \in Nat /\ Ordered(bids, order) /\ allocs \in [Keys -> Nat]
      /\ Cut(bids, order, i) /\ r = Monus(supply, Demand(bids, Slice(order, 1, i)))
      /\ \A k \in Slice(order, 1, i) : allocs[k] = Allocation(bids, supply, k)
      /\ \A k \in Keys \ Slice(order, 1, j) : allocs[k] = 0
  BY DEF LoopInv
<1>3. /\ LevelAt(bids, order, i, e) /\ Cut(bids, order, e)
      /\ i \in Nat /\ e \in Nat /\ i < e
  BY <1>1, LevelAhead
<1>4. a = [k \in Keys |-> IF k \in K THEN (r * bids[k].qty) \div D ELSE allocs[k]]
  BY SliceOfOrder DEF FloorShares, LevelDemand
<1> HIDE DEF e, a
<1>5. r \in Nat
  <2>1. Demand(bids, Slice(order, 1, i)) \in Nat
    BY <1>2, <1>3, LevelDemands
  <2> QED BY <1>2, <2>1 DEF Monus
<1>6. /\ i \in 1..(Len(order) + 1) /\ e \in i..(Len(order) + 1)
      /\ K = Level(bids, order[i])
  BY <1>2, <1>3, OrderedIsInjective DEF LevelAt
<1>7. /\ Slice(order, 1, e) = Slice(order, 1, i) \cup K /\ Slice(order, 1, i) \cap K = {}
      /\ K \subseteq Keys /\ IsFiniteSet(K) /\ Slice(order, 1, i) \subseteq Keys
  <2>1. 1 \in 1..(Len(order) + 1)
    BY <1>2, OrderedIsInjective
  <2>2. K \subseteq Present(bids) /\ IsFiniteSet(K) /\ Slice(order, 1, i) \subseteq Present(bids)
    BY <1>2, <1>6, <2>1, SliceIsPresent
  <2> QED BY <1>2, <1>6, <2>2, SliceSplits, BidsWellFormed
<1>8. \A k \in K : a[k] = Share(bids, r, k)
  <2> TAKE k \in K
  <2>1. Level(bids, k) = K
    BY <1>2, <1>3, InLevel
  <2>2. k \in Keys
    BY <1>7
  <2> QED BY <1>4, <2>1, <2>2 DEF Share
<1> DEFINE R == RoundingRemainder(bids, r, K)
<1>9. /\ R \in Nat
      /\ \A p \in i..(e - 1) : Share(bids, r, order[p]) \in Nat
  BY <1>1, <1>2, <1>3, <1>5, MarginShares
<1>10. left' = R
  <2>1. \A k \in K : a[k] = sh[k]
    BY <1>8
  <2>2. R = r - SumFunctionOnSet(sh, K)
    BY DEF RoundingRemainder
  <2> HIDE DEF sh, K, R
  <2>3. SumFunctionOnSet(a, K) = SumFunctionOnSet(sh, K)
    BY <1>7, <2>1, SumSame
  <2> QED BY <1>1, <2>2, <2>3
<1>11. \A p \in i..(e - 1) : order[p] \in K /\ a[order[p]] = Share(bids, r, order[p])
  BY <1>8 DEF Slice
<1>12. a \in [Keys -> Nat]
  <2>1. \A k \in K : a[k] \in Nat
    BY <1>8, <1>9 DEF Slice
  <2> HIDE DEF K
  <2>2. \A k \in Keys : a[k] \in Nat
    BY <1>2, <1>4, <2>1
  <2>3. a = [k \in Keys |-> a[k]]
    BY <1>4
  <2> QED BY <2>2, <2>3
<1>13. Sharing(bids, order, i, e, i, R, a, r)
  <2>1. i \in i..e
    BY <1>3
  <2>2. R = R - (i - i)
    BY <1>3, <1>9
  <2>3. \A p \in i..(e - 1) : a[order[p]] = Share(bids, r, order[p]) + (IF p < i THEN 1 ELSE 0)
    <3> TAKE p \in i..(e - 1)
    <3>1. ~(p < i) /\ Share(bids, r, order[p]) \in Nat
      BY <1>3, <1>9
    <3> QED BY <1>11, <3>1
  <2>4. R = RoundingRemainder(bids, r, Level(bids, order[i])) - (i - i)
    BY <1>6, <2>2
  <2>5. r < Demand(bids, Level(bids, order[i]))
    BY <1>1, <1>6
  <2> HIDE DEF R
  <2> QED BY <1>6, <1>9, <2>1, <2>3, <2>4, <2>5 DEF Sharing
<1>14. \A k \in Slice(order, 1, i) : a[k] = Allocation(bids, supply, k)
  BY <1>2, <1>4, <1>7
<1>15. \A k \in Keys \ Slice(order, 1, e) : a[k] = 0
  BY <1>1, <1>2, <1>4, <1>7
<1>16. i <= e
  BY <1>3
<1> HIDE DEF R, K
<1> QED BY <1>1, <1>2, <1>3, <1>10, <1>12, <1>13, <1>14, <1>15, <1>16 DEF LoopInv

(* What LoopInv says of the level being shared out. *)
LEMMA LevelShared ==
  ASSUME LoopInv, i < j
  PROVE  LET K == Slice(order, i, j)
             R == RoundingRemainder(bids, remaining, K)
         IN  /\ LevelAt(bids, order, i, j) /\ i \in Nat /\ j \in Nat
             /\ remaining \in Nat /\ remaining < Demand(bids, K)
             /\ m \in i..j /\ left \in Nat /\ left = R - (m - i)
             /\ R \in Nat /\ R <= j - i
             /\ \A p \in i..(j - 1) :
                  /\ order[p] \in Keys
                  /\ Share(bids, remaining, order[p]) \in Nat
                  /\ Share(bids, remaining, order[p]) < bids[order[p]].qty
                  /\ ProRata(bids, remaining, order[p])
                       = Share(bids, remaining, order[p]) + (IF p < i + R THEN 1 ELSE 0)
                  /\ allocs[order[p]]
                       = Share(bids, remaining, order[p]) + (IF p < m THEN 1 ELSE 0)
<1> DEFINE K == Slice(order, i, j)
           R == RoundingRemainder(bids, remaining, K)
<1>1. /\ bids \in Bids /\ supply \in Nat /\ Ordered(bids, order)
      /\ Cut(bids, order, i) /\ Cut(bids, order, j)
      /\ remaining = Monus(supply, Demand(bids, Slice(order, 1, i)))
      /\ Sharing(bids, order, i, j, m, left, allocs, remaining)
  BY DEF LoopInv
<1>2. /\ K = Level(bids, order[i]) /\ remaining < Demand(bids, K)
      /\ m \in i..j /\ left \in Nat /\ left = R - (m - i)
      /\ \A p \in i..(j - 1) : allocs[order[p]]
                = Share(bids, remaining, order[p]) + (IF p < m THEN 1 ELSE 0)
  BY <1>1 DEF Sharing
<1>3. LevelAt(bids, order, i, j)
  BY <1>1, <1>2, LevelBetweenCuts
<1>4. i \in Nat /\ j \in Nat
  BY <1>1, OrderedIsInjective DEF Cut
<1>5. remaining \in Nat
  <2>1. Demand(bids, Slice(order, 1, i)) \in Nat
    BY <1>1, <1>3, LevelDemands
  <2> QED BY <1>1, <2>1 DEF Monus
<1>6. /\ R \in Nat /\ R <= j - i
      /\ \A p \in i..(j - 1) :
           /\ Share(bids, remaining, order[p]) \in Nat
           /\ Share(bids, remaining, order[p]) < bids[order[p]].qty
           /\ ProRata(bids, remaining, order[p])
                = Share(bids, remaining, order[p]) + (IF p < i + R THEN 1 ELSE 0)
  BY <1>1, <1>2, <1>3, <1>5, MarginShares
<1>7. \A p \in i..(j - 1) : order[p] \in Keys
  <2> TAKE p \in i..(j - 1)
  <2>1. order[p] \in K
    BY DEF Slice
  <2> QED BY <1>1, <1>3, <2>1, InLevel
<1> QED BY <1>2, <1>3, <1>4, <1>5, <1>6, <1>7

LEMMA HandOutUnitKeeps ==
  ASSUME LoopInv, HandOutUnit
  PROVE  LoopInv'
<1> DEFINE K == Slice(order, i, j)
           R == RoundingRemainder(bids, remaining, K)
           sh(p) == Share(bids, remaining, order[p])
<1>1. /\ i < j /\ m < j /\ left > 0 /\ m' = m + 1
      /\ IF allocs[order[m]] < Qty(m)
         THEN allocs' = [allocs EXCEPT ![order[m]] = @ + 1] /\ left' = left - 1
         ELSE UNCHANGED <<allocs, left>>
      /\ UNCHANGED <<bids, supply, order, i, j, remaining>>
  BY DEF HandOutUnit
<1>2. /\ bids \in Bids /\ supply \in Nat /\ Ordered(bids, order) /\ allocs \in [Keys -> Nat]
      /\ Cut(bids, order, i) /\ Cut(bids, order, j)
      /\ remaining = Monus(supply, Demand(bids, Slice(order, 1, i)))
      /\ \A k \in Slice(order, 1, i) : allocs[k] = Allocation(bids, supply, k)
      /\ \A k \in Keys \ Slice(order, 1, j) : allocs[k] = 0
      /\ Sharing(bids, order, i, j, m, left, allocs, remaining)
  BY <1>1 DEF LoopInv
<1>3. /\ LevelAt(bids, order, i, j) /\ i \in Nat /\ j \in Nat
      /\ m \in i..j /\ left \in Nat /\ left = R - (m - i) /\ R \in Nat
      /\ \A p \in i..(j - 1) :
           /\ order[p] \in Keys /\ sh(p) \in Nat /\ sh(p) < bids[order[p]].qty
           /\ allocs[order[p]] = sh(p) + (IF p < m THEN 1 ELSE 0)
  BY <1>1, LevelShared
<1>4. m \in i..(j - 1) /\ m \in Nat /\ m + 1 \in i..j
  BY <1>1, <1>3
<1>5. order[m] \in Keys /\ allocs[order[m]] = sh(m) /\ allocs[order[m]] < Qty(m)
  BY <1>3, <1>4 DEF Qty
<1>6. allocs' = [allocs EXCEPT ![order[m]] = allocs[order[m]] + 1] /\ left' = left - 1
  BY <1>1, <1>5
<1>7. /\ allocs' \in [Keys -> Nat] /\ allocs'[order[m]] = allocs[order[m]] + 1
      /\ \A k \in Keys : k # order[m] => allocs'[k] = allocs[k]
  BY <1>2, <1>5, <1>6
<1>8. left' \in Nat /\ left' = R - ((m + 1) - i)
  <2> HIDE DEF R
  <2> QED BY <1>1, <1>3, <1>4, <1>6
<1>9. ASSUME NEW p \in i..(j - 1)
      PROVE  allocs'[order[p]] = sh(p) + (IF p < m + 1 THEN 1 ELSE 0)
  <2>1. CASE p = m
    <3>1. p < m + 1
      BY <1>4, <2>1
    <3> QED BY <1>5, <1>7, <2>1, <3>1
  <2>2. CASE p # m
    <3>1. p \in 1..Len(order) /\ m \in 1..Len(order)
      BY <1>2, <1>3, <1>4, OrderedIsInjective DEF LevelAt
    <3>2. order[p] # order[m] /\ order[p] \in Keys
      BY <1>2, <1>3, <2>2, <3>1, OrderedIsInjective
    <3>3. (p < m) <=> (p < m + 1)
      BY <1>3, <1>4, <2>2
    <3> QED BY <1>3, <1>7, <3>2, <3>3
  <2> QED BY <2>1, <2>2
<1>10. Sharing(bids, order, i, j, m + 1, left', allocs', remaining)
  <2>1. /\ K = Level(bids, order[i]) /\ remaining < Demand(bids, Level(bids, order[i]))
    BY <1>2 DEF Sharing
  <2> QED BY <1>4, <1>8, <1>9, <2>1 DEF Sharing
<1>11. order[m] \in K
  BY <1>4 DEF Slice
<1>12. /\ order[m] \notin Slice(order, 1, i) /\ order[m] \in Slice(order, 1, j)
       /\ Slice(order, 1, i) \subseteq Keys
  <2>1. /\ i \in 1..(Len(order) + 1) /\ j \in i..(Len(order) + 1) /\ 1 \in 1..(Len(order) + 1)
    BY <1>2, <1>3, OrderedIsInjective DEF LevelAt
  <2>2. order[m] \notin Slice(order, 1, i) /\ order[m] \in Slice(order, 1, j)
    BY <1>2, <1>11, <2>1, SliceSplits
  <2>3. Slice(order, 1, i) \subseteq Present(bids)
    BY <1>2, <2>1, SliceIsPresent
  <2> QED BY <1>2, <2>2, <2>3, BidsWellFormed
<1>13. \A k \in Slice(order, 1, i) : allocs'[k] = Allocation(bids, supply, k)
  BY <1>2, <1>7, <1>12
<1>14. \A k \in Keys \ Slice(order, 1, j) : allocs'[k] = 0
  BY <1>2, <1>7, <1>12
<1>15. i <= j
  BY <1>1, <1>3
<1> HIDE DEF R, K
<1> QED BY <1>1, <1>2, <1>7, <1>10, <1>13, <1>14, <1>15 DEF LoopInv

(* When the pass over a level ends, the first R bids have their extra unit. *)
LEMMA LevelPlaced ==
  ASSUME LoopInv, i < j, m = j \/ left = 0
  PROVE  left = 0 /\ \A k \in Slice(order, i, j) : allocs[k] = ProRata(bids, remaining, k)
<1> DEFINE R == RoundingRemainder(bids, remaining, Slice(order, i, j))
<1>1. /\ i \in Nat /\ j \in Nat /\ m \in i..j /\ left \in Nat /\ left = R - (m - i)
      /\ R \in Nat /\ R <= j - i
      /\ \A p \in i..(j - 1) :
           /\ ProRata(bids, remaining, order[p])
                = Share(bids, remaining, order[p]) + (IF p < i + R THEN 1 ELSE 0)
           /\ allocs[order[p]]
                = Share(bids, remaining, order[p]) + (IF p < m THEN 1 ELSE 0)
  BY LevelShared
<1> HIDE DEF R
<1>2. left = 0 /\ i + R = m
  BY <1>1
<1>3. \A p \in i..(j - 1) : allocs[order[p]] = ProRata(bids, remaining, order[p])
  BY <1>1, <1>2
<1> QED BY <1>2, <1>3 DEF Slice

LEMMA EndLevelKeeps ==
  ASSUME LoopInv, EndLevel
  PROVE  LoopInv'
<1> DEFINE K == Slice(order, i, j)
           A == Demand(bids, Slice(order, 1, i))
           D == Demand(bids, K)
<1>1. /\ i < j /\ (m = j \/ left = 0)
      /\ remaining' = Monus(remaining, SumFunctionOnSet(allocs, K)) /\ i' = j
      /\ UNCHANGED <<bids, supply, order, j, m, left, allocs>>
  BY SliceOfOrder DEF EndLevel, Taken
<1>2. /\ bids \in Bids /\ supply \in Nat /\ Ordered(bids, order) /\ allocs \in [Keys -> Nat]
      /\ Cut(bids, order, i) /\ Cut(bids, order, j) /\ remaining = Monus(supply, A)
      /\ \A k \in Slice(order, 1, i) : allocs[k] = Allocation(bids, supply, k)
      /\ \A k \in Keys \ Slice(order, 1, j) : allocs[k] = 0
  BY DEF LoopInv
<1>3. /\ LevelAt(bids, order, i, j) /\ j \in Nat
      /\ remaining \in Nat /\ remaining < D
  BY <1>1, LevelShared
<1>4. \A k \in K : allocs[k] = ProRata(bids, remaining, k)
  BY <1>1, LevelPlaced
<1>5. A \in Nat /\ D \in Nat /\ Demand(bids, Slice(order, 1, j)) = A + D
  BY <1>2, <1>3, LevelDemands
<1>6. SumFunctionOnSet(allocs, K) = remaining
  <2> DEFINE c == order[i]
  <2>1. c \in Present(bids) /\ K = Level(bids, c) /\ WellFormed(bids)
    BY <1>2, <1>3, OrderedIsInjective, BidsWellFormed DEF LevelAt
  <2> HIDE DEF K, c
  <2> QED BY <1>3, <1>4, <2>1, MarginalLevel
<1>7. remaining' = Monus(supply, A + D)
  <2>1. remaining' = 0
    BY <1>1, <1>3, <1>6 DEF Monus
  <2> HIDE DEF A, D
  <2>2. Monus(supply, A + D) = 0
    BY <1>2, <1>3, <1>5 DEF Monus
  <2> QED BY <2>1, <2>2
<1>8. Slice(order, 1, j) = Slice(order, 1, i) \cup K
  <2>1. i \in 1..(Len(order) + 1) /\ j \in i..(Len(order) + 1)
    BY <1>2, <1>3, OrderedIsInjective DEF LevelAt
  <2> QED BY <1>2, <2>1, SliceSplits
<1>9. \A k \in K : allocs[k] = Allocation(bids, supply, k)
  <2> TAKE k \in K
  <2>1. Allocation(bids, supply, k) = ProRata(bids, remaining, k)
    BY <1>2, <1>3, LevelAllocation
  <2> QED BY <1>4, <2>1
<1> HIDE DEF K, D, A
<1>10. \A k \in Slice(order, 1, j) : allocs[k] = Allocation(bids, supply, k)
  BY <1>2, <1>8, <1>9
<1> QED BY <1>1, <1>2, <1>3, <1>5, <1>7, <1>10 DEF LoopInv

LEMMA LoopKeeps == LoopInv /\ [Next]_vars => LoopInv'
<1> SUFFICES ASSUME LoopInv, [Next]_vars PROVE LoopInv'
  OBVIOUS
<1>1. CASE SkipLevel
  BY <1>1, SkipLevelKeeps
<1>2. CASE FillLevel
  BY <1>2, FillLevelKeeps
<1>3. CASE ProRataLevel
  BY <1>3, ProRataLevelKeeps
<1>4. CASE HandOutUnit
  BY <1>4, HandOutUnitKeeps
<1>5. CASE EndLevel
  BY <1>5, EndLevelKeeps
<1>6. CASE UNCHANGED vars
  BY <1>6 DEF LoopInv, vars, loopVars
<1> QED BY <1>1, <1>2, <1>3, <1>4, <1>5, <1>6 DEF Next

(* When the pass is over, every bid has its allocation. *)
LEMMA AtTheEnd ==
  ASSUME LoopInv, Done
  PROVE  /\ bids \in Bids /\ WellFormed(bids) /\ supply \in Nat
         /\ allocs = Allocate(bids, supply)
         /\ remaining = Monus(supply, Demand(bids, Present(bids)))
<1>1. /\ bids \in Bids /\ supply \in Nat /\ Ordered(bids, order) /\ allocs \in [Keys -> Nat]
      /\ remaining = Monus(supply, Demand(bids, Slice(order, 1, i)))
      /\ \A k \in Slice(order, 1, i) : allocs[k] = Allocation(bids, supply, k)
      /\ \A k \in Keys \ Slice(order, 1, j) : allocs[k] = 0
  BY DEF LoopInv
<1>2. i = Len(order) + 1 /\ j = Len(order) + 1
  BY DEF Done, Len1
<1>3. Slice(order, 1, i) = Present(bids) /\ Slice(order, 1, j) = Present(bids)
  BY <1>1, <1>2, WholeSlice
<1>4. \A k \in Keys : allocs[k] = IF bids[k] = None THEN 0 ELSE Allocation(bids, supply, k)
  BY <1>1, <1>3 DEF Present
<1>5. allocs = Allocate(bids, supply)
  BY <1>1, <1>4 DEF Allocate
<1> QED BY <1>1, <1>3, <1>5, BidsWellFormed

-----------------------------------------------------------------------------
(* What the allocation does to one level, and to two. *)

LEMMA AllocatedLevel ==
  ASSUME NEW b, WellFormed(b), NEW sup \in Nat, NEW c \in Present(b),
         NEW a, \A k \in Present(b) : a[k] = Allocation(b, sup, k)
  PROVE  LET K == Level(b, c)
             d == Demand(b, K)
             r == Monus(sup, Demand(b, Above(b, c)))
         IN  /\ r \in Nat /\ d \in Nat /\ d > 0 /\ (d <= r \/ r < d)
             /\ d <= r => /\ SumFunctionOnSet(a, K) = d
                          /\ \A k \in K : a[k] = b[k].qty
             /\ r < d => /\ SumFunctionOnSet(a, K) = r
                         /\ \A k \in K : a[k] = ProRata(b, r, k)
<1> DEFINE K == Level(b, c)
           d == Demand(b, K)
           r == Monus(sup, Demand(b, Above(b, c)))
<1>1. /\ K \subseteq Present(b) /\ d \in Nat /\ d > 0 /\ Demand(b, Above(b, c)) \in Nat
  BY DemandUpTo
<1>2. r \in Nat
  BY <1>1 DEF Monus
<1>3. \A k \in K : a[k] = IF d <= r THEN b[k].qty ELSE ProRata(b, r, k)
  <2> TAKE k \in K
  <2>1. k \in Present(b) /\ Level(b, k) = K /\ Above(b, k) = Above(b, c)
    BY SameLevel
  <2>2. a[k] = Allocation(b, sup, k)
    BY <2>1
  <2> QED BY <2>1, <2>2 DEF Allocation
<1> HIDE DEF r
<1>4. ASSUME d <= r PROVE SumFunctionOnSet(a, K) = d /\ \A k \in K : a[k] = b[k].qty
  <2>1. \A k \in K : a[k] = b[k].qty
    BY <1>3, <1>4
  <2> DEFINE q == Asked(b)
  <2>2. IsFiniteSet(K) /\ d = SumFunctionOnSet(q, K) /\ \A k \in K : q[k] = b[k].qty
    BY <1>1, DemandIsAsked
  <2> HIDE DEF K, d, q
  <2>3. SumFunctionOnSet(a, K) = SumFunctionOnSet(q, K)
    <3>1. \A k \in K : a[k] = q[k]
      BY <2>1, <2>2
    <3> QED BY <2>2, <3>1, SumSame
  <2> QED BY <2>1, <2>2, <2>3
<1>5. ASSUME r < d PROVE SumFunctionOnSet(a, K) = r /\ \A k \in K : a[k] = ProRata(b, r, k)
  <2>1. ~(d <= r)
    <3> HIDE DEF d
    <3> QED BY <1>1, <1>2, <1>5
  <2>2. \A k \in K : a[k] = ProRata(b, r, k)
    BY <1>3, <2>1
  <2>3. SumFunctionOnSet(a, K) = r
    BY <1>2, <1>5, <2>2, MarginalLevel
  <2> QED BY <2>2, <2>3
<1>6. d <= r \/ r < d
  <2> HIDE DEF d
  <2> QED BY <1>1, <1>2
<1> QED BY <1>1, <1>2, <1>4, <1>5, <1>6 DEF r

(* Pro rata: the floored share or one more, and no less for who came first. *)
LEMMA ProRataIsShare ==
  ASSUME NEW b, WellFormed(b), NEW c \in Present(b), NEW r \in Nat,
         r < Demand(b, Level(b, c))
  PROVE  LET s == Share(b, r, c)
             d == Demand(b, Level(b, c))
         IN  /\ s \in Nat /\ s < b[c].qty
             /\ s * d <= b[c].qty * r /\ b[c].qty * r <= s * d + (d - 1)
             /\ ProRata(b, r, c) = s \/ ProRata(b, r, c) = s + 1
<1> DEFINE d == Demand(b, Level(b, c))
           q == b[c].qty
<1>1. d \in Nat /\ q \in Nat /\ q > 0
  BY DemandUpTo DEF WellFormed
<1>2. Share(b, r, c) = (r * q) \div d
  BY DEF Share
<1> DEFINE s == Share(b, r, c)
<1>3. s \in Nat /\ s < q /\ s * d <= q * r /\ q * r <= s * d + (d - 1)
  <2> HIDE DEF d, q, s
  <2>1. r < d
    BY DEF d
  <2> QED BY <1>1, <1>2, <2>1, FlooredShare DEF s
<1>4. ProRata(b, r, c) = s + 1 \/ ProRata(b, r, c) = s + 0
  BY DEF ProRata
<1>5. s + 0 = s
  <2> HIDE DEF s
  <2> QED BY <1>3
<1> QED BY <1>3, <1>4, <1>5

LEMMA ProRataFavoursFirst ==
  ASSUME NEW b, WellFormed(b), NEW c \in Present(b), NEW r \in Nat,
         r < Demand(b, Level(b, c)), NEW c1 \in Ahead(b, c), b[c1].qty = b[c].qty
  PROVE  ProRata(b, r, c1) >= ProRata(b, r, c)
<1> DEFINE K == Level(b, c)
           U == Unsaturated(b, r, Ahead(b, c))
           U1 == Unsaturated(b, r, Ahead(b, c1))
           R == RoundingRemainder(b, r, K)
           s == Share(b, r, c)
<1>1. c1 \in Present(b) /\ c1 \in K /\ Level(b, c1) = K /\ b[c1].seq < b[c].seq
  BY SameLevel DEF Ahead
<1>2. Share(b, r, c1) = s
  BY <1>1 DEF Share
<1>3. s \in Nat /\ s < b[c].qty
  BY ProRataIsShare
<1>4. \A k \in Present(b) : b[k].seq \in Nat
  BY DEF WellFormed
<1>5. Ahead(b, c1) \subseteq Ahead(b, c) /\ Ahead(b, c) \subseteq Present(b)
  BY <1>1, <1>4 DEF Ahead, Level
<1>6. U1 \subseteq U /\ IsFiniteSet(U) /\ Cardinality(U) \in Nat
  <2>1. IsFiniteSet(Ahead(b, c))
    BY <1>5, DemandIsAsked
  <2>2. U1 \subseteq U /\ U \subseteq Ahead(b, c)
    BY <1>5 DEF Unsaturated
  <2> HIDE DEF U, U1
  <2> QED BY <2>1, <2>2, FS_Subset, FS_CardinalityType
<1>7. IsFiniteSet(U1) /\ Cardinality(U1) \in Nat /\ Cardinality(U1) <= Cardinality(U)
  <2> HIDE DEF U, U1
  <2> QED BY <1>6, FS_Subset, FS_CardinalityType
<1>8. c \in Unsaturated(b, r, {c}) /\ c1 \in Unsaturated(b, r, {c1})
  BY <1>2, <1>3 DEF Unsaturated
<1>9. /\ ProRata(b, r, c) = s + (IF Cardinality(U) < R THEN 1 ELSE 0)
      /\ ProRata(b, r, c1) = s + (IF Cardinality(U1) < R THEN 1 ELSE 0)
  BY <1>1, <1>2, <1>8 DEF ProRata
<1>10. R \in Int
  <2> DEFINE sh == [k \in K |-> Share(b, r, k)]
  <2>1. IsFiniteSet(K) /\ K \subseteq Present(b)
    BY DemandUpTo, DemandIsAsked
  <2>2. \A k \in K : sh[k] \in Int
    <3> TAKE k \in K
    <3>1. k \in Present(b) /\ Level(b, k) = K
      BY SameLevel
    <3>2. Share(b, r, k) \in Nat
      BY <3>1, ProRataIsShare
    <3> QED BY <3>2
  <2>3. R = r - SumFunctionOnSet(sh, K)
    BY DEF RoundingRemainder
  <2> HIDE DEF sh, K, R
  <2>4. SumFunctionOnSet(sh, K) \in Int
    BY <2>1, <2>2, SumInt
  <2> QED BY <2>3, <2>4
<1> HIDE DEF U, U1, R, s
<1> QED BY <1>3, <1>6, <1>7, <1>9, <1>10

(* A level that goes short leaves nothing to the ones below it. *)
LEMMA NothingBelow ==
  ASSUME NEW b, WellFormed(b), NEW sup \in Nat, NEW c \in Present(b),
         Monus(sup, Demand(b, Above(b, c))) < Demand(b, Level(b, c))
  PROVE  /\ Monus(sup, Demand(b, Present(b))) = 0
         /\ \A k \in Present(b) : b[c].priority > b[k].priority => Allocation(b, sup, k) = 0
<1> DEFINE A == Demand(b, Above(b, c))
           d == Demand(b, Level(b, c))
           u == Demand(b, UpTo(b, c))
<1>1. A \in Nat /\ d \in Nat /\ u = A + d
  BY DemandUpTo
<1>2. u \in Nat /\ sup <= u
  <2>1. Monus(sup, A) < d
    OBVIOUS
  <2> HIDE DEF A, d, u
  <2> QED BY <1>1, <2>1 DEF Monus
<1>3. UpTo(b, c) \subseteq Present(b)
  BY DEF UpTo, Above, Level
<1> HIDE DEF u
<1>4. Demand(b, Present(b)) \in Nat /\ u <= Demand(b, Present(b))
  BY <1>3, DemandGrows, DemandIsAsked DEF u
<1>5. Monus(sup, Demand(b, Present(b))) = 0
  BY <1>2, <1>4 DEF Monus
<1>6. ASSUME NEW k \in Present(b), b[c].priority > b[k].priority
      PROVE  Allocation(b, sup, k) = 0
  <2>1. \A x \in Present(b) : b[x].priority \in Int
    BY DEF WellFormed
  <2>2. UpTo(b, c) \subseteq Above(b, k) /\ Above(b, k) \subseteq Present(b)
    BY <1>6, <2>1 DEF UpTo, Above, Level
  <2>3. Demand(b, Above(b, k)) \in Nat /\ u <= Demand(b, Above(b, k))
    BY <2>2, DemandGrows, DemandUpTo DEF u
  <2>4. Demand(b, Above(b, k)) >= sup
    BY <1>2, <2>3
  <2> QED BY <2>4, BelowMargin
<1> QED BY <1>5, <1>6

-----------------------------------------------------------------------------
(* The theorems. *)

LEMMA LoopAlwaysInv == Spec => []LoopInv
<1>1. Init => LoopInv
  BY LoopInit
<1>2. LoopInv /\ [Next]_vars => LoopInv'
  BY LoopKeeps
<1> QED BY <1>1, <1>2, PTL DEF Spec

(***************************************************************************)
(* The debug_assert of allocate never fires, whatever the bids and the     *)
(* supply: one pass over the marginal level places every remainder unit    *)
(* (state.rs:717-727).                                                     *)
(***************************************************************************)
THEOREM LoopAlwaysPlacesRemainder == Spec => []RemainderPlaced
<1>1. LoopInv => RemainderPlaced
  BY LevelPlaced DEF RemainderPlaced
<1> QED BY <1>1, LoopAlwaysInv, PTL

(***************************************************************************)
(* When the loops of flush_window are done, every bid has the allocation   *)
(* that Allocate declares, and the supply has fallen by exactly what was   *)
(* handed out (state.rs:469-484, 698-729).                                 *)
(***************************************************************************)
THEOREM LoopAlwaysComputesAllocate == Spec => []LoopComputesAllocate
<1>1. ASSUME LoopInv, Done
      PROVE  allocs = Allocate(bids, supply) /\ remaining = supply - SumFunction(allocs)
  <2> DEFINE D == Demand(bids, Present(bids))
  <2>1. /\ WellFormed(bids) /\ supply \in Nat /\ allocs = Allocate(bids, supply)
        /\ remaining = Monus(supply, D)
    BY <1>1, AtTheEnd
  <2>2. D \in Nat
    BY <2>1, DemandIsAsked
  <2>3. SumFunctionOnSet(Allocate(bids, supply), Keys) = Sells(bids, supply)
    BY <2>1, AllocationIsExact
  <2>4. SumFunction(allocs) = SumFunctionOnSet(allocs, Keys)
    <3>1. DOMAIN Allocate(bids, supply) = Keys
      BY DEF Allocate
    <3>2. DOMAIN allocs = Keys
      BY <2>1, <3>1
    <3> QED BY <3>2, Zenon DEF SumFunction
  <2>5. SumFunction(allocs) = IF D <= supply THEN D ELSE supply
    BY <2>1, <2>3, <2>4 DEF Sells
  <2> HIDE DEF D
  <2>6. remaining = supply - SumFunction(allocs)
    BY <2>1, <2>2, <2>5 DEF Monus
  <2> QED BY <2>1, <2>6
<1>2. LoopInv => LoopComputesAllocate
  BY <1>1 DEF LoopComputesAllocate
<1> QED BY <1>2, LoopAlwaysInv, PTL

(* PriorityRespected, for two bids k1 and k2 and the allocation a. *)
LEMMA AllocationRespectsPriority ==
  ASSUME NEW b, WellFormed(b), NEW sup \in Nat,
         NEW a, \A k \in Present(b) : a[k] = Allocation(b, sup, k),
         NEW rem, rem = Monus(sup, Demand(b, Present(b))),
         NEW k1 \in Present(b), NEW k2 \in Present(b)
  PROVE  LET taken == SumFunctionOnSet(a, Level(b, k1))
             exact == taken * b[k1].qty
             demand == Demand(b, Level(b, k1))
         IN  /\ b[k1].priority > b[k2].priority /\ a[k2] > 0 => a[k1] = b[k1].qty
             /\ a[k1] * demand <= exact + demand
             /\ exact < a[k1] * demand + demand
             /\ k1 \in Ahead(b, k2) /\ b[k1].qty = b[k2].qty => a[k1] >= a[k2]
             /\ a[k1] < b[k1].qty => rem = 0
<1> DEFINE K == Level(b, k1)
           taken == SumFunctionOnSet(a, K)
           q == b[k1].qty
           d == Demand(b, K)
           r == Monus(sup, Demand(b, Above(b, k1)))
<1>1. /\ r \in Nat /\ d \in Nat /\ d > 0 /\ (d <= r \/ r < d)
      /\ d <= r => taken = d /\ \A k \in K : a[k] = b[k].qty
      /\ r < d => taken = r /\ \A k \in K : a[k] = ProRata(b, r, k)
  BY AllocatedLevel
<1>2. q \in Nat /\ q > 0 /\ k1 \in K
  BY DEF WellFormed, Level
<1>3. k1 \in Ahead(b, k2) => k2 \in K /\ Level(b, k2) = K
  BY SameLevel DEF Ahead, Level
<1> DEFINE Goal ==
             /\ b[k1].priority > b[k2].priority /\ a[k2] > 0 => a[k1] = q
             /\ a[k1] * d <= taken * q + d
             /\ taken * q < a[k1] * d + d
             /\ k1 \in Ahead(b, k2) /\ q = b[k2].qty => a[k1] >= a[k2]
             /\ a[k1] < q => rem = 0
<1>4. ASSUME d <= r PROVE Goal
  <2>1. a[k1] = q /\ taken = d
    BY <1>1, <1>2, <1>4
  <2>2. k1 \in Ahead(b, k2) => a[k2] = b[k2].qty
    BY <1>1, <1>3, <1>4
  <2> HIDE DEF K, d, q, taken
  <2>3. a[k1] * d = taken * q /\ taken * q \in Nat
    BY <1>1, <1>2, <2>1
  <2>4. a[k1] * d <= taken * q + d /\ taken * q < a[k1] * d + d
    BY <1>1, <2>3
  <2> QED BY <1>2, <2>1, <2>2, <2>4
<1>5. ASSUME r < d PROVE Goal
  <2>1. a[k1] = ProRata(b, r, k1) /\ taken = r
    BY <1>1, <1>2, <1>5
  <2> DEFINE s == Share(b, r, k1)
  <2>2. /\ s \in Nat /\ s < q /\ s * d <= q * r /\ q * r <= s * d + (d - 1)
        /\ (a[k1] = s \/ a[k1] = s + 1)
    BY <1>1, <1>5, <2>1, ProRataIsShare
  <2>3. rem = 0 /\ (b[k1].priority > b[k2].priority => a[k2] = 0)
    BY <1>5, NothingBelow
  <2>4. k1 \in Ahead(b, k2) /\ q = b[k2].qty => a[k1] >= a[k2]
    <3> SUFFICES ASSUME k1 \in Ahead(b, k2), q = b[k2].qty PROVE a[k1] >= a[k2]
      OBVIOUS
    <3>1. a[k2] = ProRata(b, r, k2) /\ r < Demand(b, Level(b, k2))
      BY <1>1, <1>3, <1>5
    <3> HIDE DEF r
    <3>2. ProRata(b, r, k1) >= ProRata(b, r, k2)
      BY <1>1, <3>1, ProRataFavoursFirst
    <3> QED BY <2>1, <3>1, <3>2
  <2>5. a[k1] * d <= taken * q + d /\ taken * q < a[k1] * d + d
    <3> DEFINE x == s * d
               y == taken * q
    <3>1. (s + 1) * d = x + d /\ x \in Nat /\ q * r = y /\ y \in Nat
      <4> HIDE DEF s, d, q, r, taken
      <4> QED BY <1>1, <1>2, <2>1, <2>2
    <3>2. a[k1] * d = x \/ a[k1] * d = x + d
      <4> HIDE DEF s, d
      <4> QED BY <2>2, <3>1
    <3>3. x <= y /\ y <= x + (d - 1)
      BY <2>2, <3>1
    <3> HIDE DEF x, y, d
    <3>4. a[k1] * d <= y + d /\ y < a[k1] * d + d
      BY <1>1, <3>1, <3>2, <3>3
    <3> QED BY <3>4 DEF y
  <2>6. ~(b[k1].priority > b[k2].priority /\ a[k2] > 0)
    BY <2>3
  <2> HIDE DEF K, d, q, taken
  <2> QED BY <2>3, <2>4, <2>5, <2>6
<1>6. Goal
  BY <1>1, <1>4, <1>5
<1> QED BY <1>6

(***************************************************************************)
(* Who the loops serve (docs/auction-rules.md §5): a better price is full  *)
(* before a worse one gets a unit; within a level every bid is within one  *)
(* unit of its exact pro-rata share and an earlier bid of the same size    *)
(* gets no less; and a bid that goes short means that nothing is left.     *)
(***************************************************************************)
THEOREM LoopAlwaysRespectsPriority == Spec => []PriorityRespected
<1>1. ASSUME LoopInv, Done PROVE PriorityRespected
  <2>1. /\ WellFormed(bids) /\ supply \in Nat /\ allocs = Allocate(bids, supply)
        /\ remaining = Monus(supply, Demand(bids, Present(bids)))
    BY <1>1, AtTheEnd
  <2>2. \A k \in Present(bids) : allocs[k] = Allocation(bids, supply, k)
    BY <2>1 DEF Allocate, Present
  <2>3. ASSUME NEW k1 \in Present(bids), NEW k2 \in Present(bids)
        PROVE  LET taken == SumFunctionOnSet(allocs, Level(bids, k1))
                   exact == taken * bids[k1].qty
                   demand == Demand(bids, Level(bids, k1))
               IN  /\ bids[k1].priority > bids[k2].priority /\ allocs[k2] > 0
                        => allocs[k1] = bids[k1].qty
                   /\ allocs[k1] * demand <= exact + demand
                   /\ exact < allocs[k1] * demand + demand
                   /\ k1 \in Ahead(bids, k2) /\ bids[k1].qty = bids[k2].qty
                        => allocs[k1] >= allocs[k2]
                   /\ allocs[k1] < bids[k1].qty => remaining = 0
    BY <2>1, <2>2, AllocationRespectsPriority
  <2> QED BY <2>3 DEF PriorityRespected
<1>2. LoopInv => PriorityRespected
  BY <1>1 DEF PriorityRespected
<1> QED BY <1>2, LoopAlwaysInv, PTL
=============================================================================
